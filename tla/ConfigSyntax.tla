----------------------------- MODULE ConfigSyntax -----------------------------
(***************************************************************************)
(* The syntax of the configuration (rcfg/readconf.c): the tokens of a file *)
(* are validated, the files it includes are read the same way and their    *)
(* tokens appended to its own, and the tokens of all make blocks and       *)
(* assignments.  A file is the sequence of its tokens here; how characters *)
(* make tokens is left out.                                                *)
(***************************************************************************)
EXTENDS Integers, Sequences, FiniteSets, SequencesExt

CONSTANTS Inputs,     \* what is on disk: functions from file names to tokens
          Words,      \* the tokens a file may have
          Main,       \* the file that readconfig is asked for
          Glob,       \* Glob[p]: the files that pattern p stands for, in order
          Digits,     \* tokens that are numbers
          Parts,      \* <<k, v>>: v is within arglist[k], but none of its words
          MaxOpen,    \* files the process may have open
          Nil

\* rcfgkw.h: what must be a block, an assignment of a number, or of anything;
\* and the keywords that have no entry in datatype.
Sections  == {"default", "access-list", "device", "acl", "logging"}
Numbers == {"slot", "shelf"}
Texts   == {"writecache", "mtu", "target", "cfgread", "read", "type", "if", "log",
            "write", "filename", "discover", "cfgset", "log-level", "syslog-level",
            "syslog-facility", "persistent-cfg", "broadcast", "apisocket", "include"}
Free    == {"interface", "name", "policy", "accept", "reject"}
Signs   == {"=", "{", "}", ";"}
keywords == Sections \cup Numbers \cup Texts \cup Free \cup Signs

ASSUME SyntaxAssumption ==
  /\ MaxOpen \in Nat \ {0} /\ Nil \notin Words \cup keywords \cup {"allow", "ok", "refused", "exit"}
  /\ \A d \in Inputs : /\ Main \in DOMAIN d /\ \A f \in DOMAIN d : d[f] \in Seq(Words)
                       /\ \A p \in DOMAIN Glob : Glob[p] \in Seq(DOMAIN d)

\* Two more keywords of arglist, the level and the facility of syslog, are checked
\* in the same way.
arglist ==
  [k \in {"writecache", "broadcast", "type", "policy", "log-level"} |->
     CASE k \in {"writecache", "broadcast"} -> {"on", "off"}
       [] k = "type"      -> {"syslog", "file"}
       [] k = "policy"    -> {"accept", "reject"}
       [] k = "log-level" -> {"debug", "error", "info", "none"}]

VARIABLES
  disk,      \* the files
  stack,     \* the files being read: name, tokens, how many of them are its own,
             \* how far it has come, the files its include still stands for
  verdict,   \* Nil, "ok", "refused" (NULL is returned) or "exit"
  cfg,       \* the blocks and assignments
  past,      \* tokens past the end of a list were looked at (history)
  opened     \* the files that were opened (history)

syntaxVars == <<disk, stack, verdict, cfg, past, opened>>

Top == Last(stack)

\* What is past the end may be anything.
Beyond == Nil
Token(t, n) == IF n <= Len(t) THEN t[n] ELSE Beyond

-----------------------------------------------------------------------------
(* The checks. *)

Count(t, s) == Cardinality({n \in 1..Len(t) : t[n] = s})

countbraces(t) == Count(t, "{") = Count(t, "}")

checktokenlist(t) ==
  \A n \in 1..Len(t) : t[n] \in keywords \/ (n > 1 /\ t[n - 1] = "=")

\* Positions checkdatatype comes to: it steps over what follows "=".
Scanned(t) ==
  LET f[n \in 1..Len(t)] == n = 1 \/ ~(t[n - 1] = "=" /\ f[n - 1])
  IN {n \in 1..Len(t) : f[n]}

\* Mutant: the semicolon is not asked for.
AssignedLax(t, n) ==
  /\ Token(t, n + 1) = "=" /\ n + 2 <= Len(t)
  /\ t[n] \in Numbers => t[n + 2] \in Digits

Assigned(t, n) ==
  /\ Token(t, n + 1) = "=" /\ n + 2 <= Len(t)
  /\ t[n] \in Numbers => t[n + 2] \in Digits
  /\ Token(t, n + 3) = ";"

\* A block keyword that is the last token is followed by what is past the end.
checkdatatype(t, beyond) ==
  \A n \in Scanned(t) :
    /\ t[n] \in Sections => IF n < Len(t) THEN t[n + 1] = "{" ELSE beyond
    /\ t[n] \in Numbers \cup Texts => Assigned(t, n)

\* strstr: a part of the list of words will do.
checkargs(t, beyond) ==
  \A n \in 1..Len(t) : t[n] \in DOMAIN arglist =>
    IF n + 2 > Len(t) THEN beyond
    ELSE t[n + 2] \in arglist[t[n]] \/ <<t[n], t[n + 2]>> \in Parts

\* Whether the outcome of a check hangs on what is past the end.
Hangs(check(_, _), t) == check(t, TRUE) # check(t, FALSE)

Looks(t) == /\ countbraces(t) /\ checktokenlist(t)
            /\ \/ Hangs(checkdatatype, t)
               \/ checkdatatype(t, TRUE) /\ Hangs(checkargs, t)

Validated(t, beyond) ==
  IF ~countbraces(t) \/ ~checktokenlist(t) THEN "refused"
  ELSE IF ~checkdatatype(t, beyond) THEN "exit"
  ELSE IF ~checkargs(t, beyond) THEN "refused" ELSE "ok"

-----------------------------------------------------------------------------
(* recursiveparse: the items between positions ts and te, te not included.  *)

Assignment(k, v) == [key |-> k, value |-> v, block |-> <<>>]
Block(k, items)  == [key |-> k, value |-> "{", block |-> items]

\* Braces that are open after position j, where cbc were before i.
Open(t, i, j, cbc) ==
  cbc + Cardinality({n \in i..j : t[n] = "{"}) - Cardinality({n \in i..j : t[n] = "}"})

Closes(t, i, e, cbc) ==
  {j \in (i + 2)..(e - 1) : t[j] = "}" /\ Open(t, i + 1, j, cbc) = 0}

\* Mutant: one step too far.
EndsLate(i, e) == i >= e

Ends(i, e) == i + 1 >= e

recursiveparse(t, ts, te) ==
  LET parse[i \in 1..(Len(t) + 4)] == [e \in 1..(Len(t) + 1) |-> [cbc \in Int |->
        IF Ends(i, e) THEN <<>>
        ELSE LET sign == Token(t, i + 1)
                 ends == Closes(t, i, e, cbc)
                 j    == CHOOSE n \in ends : \A m \in ends : n <= m
             IN CASE sign = Beyond -> <<Assignment(Beyond, Beyond)>>
                  [] sign = "{" /\ ends # {} ->
                       <<Block(t[i], parse[i + 2][j][0])>> \o parse[j + 1][e][0]
                  [] sign = "{" /\ ends = {} -> parse[i + 1][e][Open(t, i + 1, e - 1, cbc)]
                  [] sign = "=" -> <<Assignment(t[i], Token(t, i + 2))>> \o parse[i + 4][e][cbc]
                  [] OTHER -> parse[i + 1][e][cbc]]]   \* "Unknown char"
  IN parse[ts][te][0]

-----------------------------------------------------------------------------
(* tokenize and readconfig. *)

Frame(f) == [name |-> f, tokens |-> disk[f], own |-> 0, at |-> 1, todo |-> <<>>]

SyntaxInit == /\ disk \in Inputs
        /\ stack = <<Frame(Main)>>
        /\ verdict = Nil /\ cfg = <<>> /\ past = FALSE /\ opened = {Main}

Running == verdict = Nil
Replace(f) == stack' = Front(stack) \o <<f>>

\* A file is validated before its includes are looked for; one without tokens is
\* refused.
ValidateTokens ==
  /\ Running /\ Top.own = 0
  /\ \E beyond \in BOOLEAN :
       LET v == IF Top.tokens = <<>> THEN "refused" ELSE Validated(Top.tokens, beyond) IN
       IF v = "ok" THEN Replace([Top EXCEPT !.own = Len(Top.tokens)]) /\ UNCHANGED verdict
                   ELSE verdict' = v /\ UNCHANGED stack
  /\ past' = (past \/ Looks(Top.tokens))
  /\ UNCHANGED <<disk, cfg, opened>>

\* Mutant: the includes of included files are looked for once more.
LimitAll(f) == Len(f.tokens)

\* Only its own tokens are searched for includes.
Limit(f) == f.own

Reading == Running /\ Top.own > 0 /\ Top.todo = <<>>

\* glob: a pattern may stand for no file.
Stands(p) == IF p \in DOMAIN Glob THEN Glob[p] ELSE <<>>

\* An include, wherever the word stands; its pattern is two tokens on.
Include ==
  /\ Reading /\ Top.at <= Limit(Top)
  /\ LET p == Token(Top.tokens, Top.at + 2)
         found == IF Top.tokens[Top.at] = "include" THEN Stands(p) ELSE <<>>
     IN /\ IF Top.tokens[Top.at] = "include" /\ found = <<>>
             THEN verdict' = "refused" /\ UNCHANGED stack
             ELSE Replace([Top EXCEPT !.at = @ + 1, !.todo = found]) /\ UNCHANGED verdict
        /\ past' = (past \/ (Top.tokens[Top.at] = "include" /\ p = Beyond))
  /\ UNCHANGED <<disk, cfg, opened>>

\* The file that includes stays open while the others are read.
OpenNext ==
  /\ Running /\ Top.todo # <<>>
  /\ IF Len(stack) = MaxOpen THEN verdict' = "refused" /\ UNCHANGED <<stack, opened>>
     ELSE /\ stack' = Front(stack) \o <<[Top EXCEPT !.todo = Tail(@)], Frame(Head(Top.todo))>>
          /\ opened' = opened \cup {Head(Top.todo)}
          /\ UNCHANGED verdict
  /\ UNCHANGED <<disk, cfg, past>>

\* The tokens of a file that was included go behind those of the one that included it.
Close ==
  /\ Reading /\ Top.at > Limit(Top) /\ Len(stack) > 1
  /\ LET under == stack[Len(stack) - 1] IN
     stack' = SubSeq(stack, 1, Len(stack) - 2)
                \o <<[under EXCEPT !.tokens = @ \o Top.tokens]>>
  /\ UNCHANGED <<disk, verdict, cfg, past, opened>>

Process ==
  /\ Reading /\ Top.at > Limit(Top) /\ Len(stack) = 1
  /\ cfg' = recursiveparse(Top.tokens, 1, Len(Top.tokens) + 1)
  /\ verdict' = "ok"
  /\ past' = (past \/ \E n \in 1..Len(cfg') : cfg'[n].value = Beyond)
  /\ UNCHANGED <<disk, stack, opened>>

SyntaxNext == ValidateTokens \/ Include \/ OpenNext \/ Close \/ Process

SyntaxSpec == SyntaxInit /\ [][SyntaxNext]_syntaxVars
-----------------------------------------------------------------------------
(* What a file means (qaoed.conf.5): a sequence of assignments, blocks and   *)
(* semicolons.                                                              *)

\* What may be assigned to: the manual's rules of an access list are `allow` as well.
Settings == Numbers \cup Texts \cup Free \cup {"allow"}

\* A keyword will do as a value, as in the manual's `log = default`.
Rightly(k, v) == IF k \in DOMAIN arglist THEN v \in arglist[k]
                 ELSE v \notin Signs /\ (k \in Numbers => v \in Digits)

\* The items that tokens i to e - 1 stand for: none or one sequence of them.
Meaning(t, ts, te) ==
  LET meaning[i \in 1..(Len(t) + 1)] == [e \in 1..(Len(t) + 1) |->
        IF i >= e THEN {<<>>}
        ELSE IF t[i] = ";" THEN meaning[i + 1][e]
        ELSE IF /\ e - i >= 4 /\ t[i] \in Settings
                /\ t[i + 1] = "=" /\ Rightly(t[i], t[i + 2]) /\ t[i + 3] = ";"
          THEN {<<Assignment(t[i], t[i + 2])>> \o m : m \in meaning[i + 4][e]}
        ELSE IF e - i >= 3 /\ t[i] \in Sections \cup {"interface"} /\ t[i + 1] = "{" THEN
          UNION {{<<Block(t[i], b)>> \o m : b \in meaning[i + 2][j], m \in meaning[j + 1][e]}
                  : j \in {k \in (i + 2)..(e - 1) : t[k] = "}"}}
        ELSE {}]
  IN meaning[ts][te]

Meanings(t) == Meaning(t, 1, Len(t) + 1)

\* An include is no value.
Includes(t, n) == t[n] = "include" /\ (n > 1 => t[n - 1] # "=")

\* The files that the includes of t stand for, in order; an include of no file.
Included(t) ==
  FlattenSeq([n \in 1..Len(t) |-> IF Includes(t, n) THEN Stands(Token(t, n + 2)) ELSE <<>>])

Lost(t) == \E n \in 1..Len(t) : Includes(t, n) /\ Stands(Token(t, n + 2)) = <<>>

\* Sequences with a member of each of the sets.
OneOfEach(sets) ==
  {s \in [DOMAIN sets -> UNION Range(sets)] : \A n \in DOMAIN sets : s[n] \in sets[n]}

\* The items of a file, then those of the files that it includes, no more than d deep.
Expected(f, d) ==
  LET expected[n \in 0..MaxOpen] ==
        [g \in DOMAIN disk |->
           IF n = 0 \/ disk[g] = <<>> \/ Lost(disk[g]) THEN {}
           ELSE LET subs == [k \in DOMAIN Included(disk[g]) |-> expected[n - 1][Included(disk[g])[k]]]
                IN {m \o FlattenSeq(more) : m \in Meanings(disk[g]), more \in OneOfEach(subs)}]
  IN expected[d][f]

\* One of the words is a value.
Valued(t, words) == \E n \in 2..Len(t) : t[n - 1] = "=" /\ t[n] \in words

\* What the code does not take for what the manual says it is: `allow`, which is no
\* keyword (qaoed.conf.5:434); a value that is a keyword of arglist, or `include`, which
\* checkargs and the search for includes take for the keyword.
Misread(t) == \/ \E n \in 1..Len(t) : t[n] = "allow" /\ (n > 1 => t[n - 1] # "=")
              \/ Valued(t, DOMAIN arglist \cup {"include"})

\* A configuration that is well formed, by the manual, is understood: it is read, with
\* all that it includes, to exactly what it means, unless a file that was opened has one
\* of the words above.
Understood ==
  LET e == Expected(Main, MaxOpen) IN
  verdict # Nil /\ e # {} => \/ verdict = "ok" /\ cfg \in e
                            \/ \E f \in opened : Misread(disk[f])

\* What the checks let pass: an assignment to a keyword that has no entry in datatype,
\* not ended; a brace that closes nothing; a value or a block without a keyword; a
\* part of a word; a sign, or `include`, for a value.
Unended(t)  == \E n \in Scanned(t) : /\ t[n] \in Free /\ ~Assigned(t, n)
                                     /\ ~(t[n] = "interface" /\ Token(t, n + 1) = "{")
Crossed(t)  == \E n \in 1..Len(t) : Open(t, 1, n, 0) < 0
Nameless(t) == \E n \in 1..Len(t) : t[n] \in {"=", "{"} /\ (n = 1 \/ t[n - 1] \in Signs)
Parted(t)   == \E n \in 1..Len(t) : <<t[n], Token(t, n + 2)>> \in Parts

Faulty(t) == \/ Unended(t) \/ Crossed(t) \/ Nameless(t) \/ Parted(t)
             \/ Valued(t, Signs \cup {"include"})

\* Nothing else is read: what is accepted means what was read of it, or one of the
\* files it was read from has one of these faults, or hangs on what is past the end.
NothingElse ==
  verdict = "ok" => past \/ cfg \in Expected(Main, MaxOpen) \/ \E f \in opened : Faulty(disk[f])

\* A file that ends in a keyword, or one token after it, or in "=".
CutShort(t) == \/ \E n \in 1..Len(t) : n >= Len(t) - 1 /\ t[n] \in keywords \ Signs
               \/ t # <<>> /\ Last(t) = "="

\* Nothing past the end of the tokens is looked at, unless a file that was opened is
\* cut short.
InBounds == past => \E f \in opened : CutShort(disk[f])
=============================================================================
