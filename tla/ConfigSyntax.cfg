\* Well-formed files, and every deletion, doubling, exchange of neighbours and cut.
SPECIFICATION SyntaxSpec
CONSTANTS
  Nil = Nil
  Inputs <- AllInputs
  Words <- AllWords
  Main = "main"
  Glob <- Patterns
  Digits = {"1"}
  Parts <- InOn
  MaxOpen = 4
INVARIANTS Understood NothingElse InBounds
\* Reading comes to an end.
CHECK_DEADLOCK FALSE
