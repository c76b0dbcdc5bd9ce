----------------------------- MODULE CfgRegister -----------------------------
(***************************************************************************)
(* What an AoE client may expect of a target's config string: one string   *)
(* per device, read, matched and replaced in single steps (the commands of *)
(* include/aoe.h).  CfgString is shown to implement this.                  *)
(***************************************************************************)
EXTENDS Naturals, Sequences, SequencesExt

CONSTANTS Devices, Requests,   \* a request has fields from, cmd and str
          Limit,               \* longest string a device can keep
          Allowed(_),          \* the access lists let the request through
          None

VARIABLES str,                 \* str[d]: the config string of d
          last                 \* last[d]: d's last request and its answer

Silent      == None
Ok(s)       == [err |-> FALSE, str |-> s]
Refused     == [err |-> TRUE, str |-> <<>>]

Init == /\ str = [d \in Devices |-> <<>>]
        /\ last = [d \in Devices |-> None]

\* The answers a request may be given when the string is s.  A partial match with
\* a part of s is answered; one with other bytes need not be silent, as bytes of
\* strings that were there before can match.
Answers(r, s) ==
  CASE r.cmd = "read"       -> {Ok(s)}
    [] r.cmd = "match"      -> {IF r.str = s THEN Ok(s) ELSE Silent}
    [] r.cmd = "partial"    -> {Ok(s)} \cup IF IsPrefix(r.str, s) THEN {} ELSE {Silent}
    [] r.cmd = "setifempty" -> {IF s = <<>> /\ Len(r.str) <= Limit THEN Ok(<<>>) ELSE Refused}
    [] r.cmd = "set"        -> {IF Len(r.str) <= Limit THEN Ok(<<>>) ELSE Refused}
    [] OTHER                -> {Refused}

Sets(r, s) == /\ r.cmd = "set" \/ (r.cmd = "setifempty" /\ s = <<>>)
              /\ Len(r.str) <= Limit

Serve(d, r) ==
  IF Allowed(r)
    THEN /\ \E a \in Answers(r, str[d]) : last' = [last EXCEPT ![d] = <<r, a>>]
         /\ str' = IF Sets(r, str[d]) THEN [str EXCEPT ![d] = r.str] ELSE str
    ELSE last' = [last EXCEPT ![d] = <<r, Silent>>] /\ UNCHANGED str

\* The request that is served is the one last then has.
Next == \E d \in Devices :
          last'[d] # None /\ last'[d][1] \in Requests /\ Serve(d, last'[d][1])

Spec == Init /\ [][Next]_<<str, last>>
=============================================================================
