------------------------------ MODULE AccessList ------------------------------
(***************************************************************************)
(* Access lists: how a configuration block becomes a list (parseACL), how  *)
(* a worker asks a list about the sender of a request (aclmatch, called    *)
(* from qaoed_processATA and qaoed_processCFG) and how the API changes the *)
(* lists of a target meanwhile (processTARGET_SETACL), with no lock        *)
(* between the two.                                                        *)
(*                                                                         *)
(* The devices are the paths of one target, of one shelf and slot.  The    *)
(* reference counts of the lists are left out: nothing reads them.         *)
(***************************************************************************)
EXTENDS Naturals, Sequences, FiniteSets, SequencesExt

CONSTANTS Devices,    \* the devices of the target, each on its own interface
          Followed,   \* those whose checks are followed; checks of two share nothing
          Macs,       \* sources of requests
          Fields,     \* the operations a list guards, in SETACL's order
          Names,      \* names of access lists
          Block,      \* Block[n]: the statements of the block that defines n
          Unknown,    \* a name no list has
          All, None   \* no interface named; no list attached

ASSUME AccessAssumption ==
  /\ Len(Fields) \in Nat \ {0} /\ DOMAIN Fields = 1..Len(Fields) /\ IsInjective(Fields)
  /\ Followed \subseteq Devices
  /\ DOMAIN Block = Names
  /\ \A n \in Names : Len(Block[n]) \in Nat /\ DOMAIN Block[n] = 1..Len(Block[n])
  /\ {Unknown, None, "gap"} \cap Names = {}
  /\ All \notin Devices

VARIABLES
  acl,     \* acl[d][f]: the list that guards operation f of d
  api,     \* the SETACL that is carried out
  check,   \* check[d]: the check the worker of d makes
  dead     \* a NULL list was matched against

vars == <<acl, api, check, dead>>

-----------------------------------------------------------------------------
ACCEPT    == 1
ACL_ERROR == 255

\* strcmp never returns 1 for equal words: "reject" is ACL_ERROR like the rest.
aclpolicy(word) == IF word = "accept" THEN ACCEPT ELSE ACL_ERROR

\* What one statement of a block makes of its list: a row more, its policy, its log.
Parsed(l, s) ==
  CASE s.key \in {"accept", "reject"} ->
         [l EXCEPT !.acl = Append(@, [rule |-> aclpolicy(s.key), h_dest |-> s.value])]
    [] s.key = "policy" -> [l EXCEPT !.defaultpolicy = aclpolicy(s.value)]
    [] s.key = "log"    -> [l EXCEPT !.log = TRUE]
    [] OTHER            -> l

\* The list of a block.
Made(block) ==
  LET After[k \in 0..Len(block)] ==
        IF k = 0 THEN [acl |-> <<>>, defaultpolicy |-> ACL_ERROR, log |-> FALSE]
                 ELSE Parsed(After[k - 1], block[k])
  IN After[Len(block)]

List == [n \in Names |-> Made(Block[n])]

\* The list in force, "gap" between the two assignments of a change.
InForce(d, f) == IF api # None /\ api.now # None /\ api.now[1] = d /\ Fields[api.now[2]] = f
                 THEN "gap" ELSE acl[d][f]

Wanted == Names \cup {Unknown, None}

\* A device has a list of its own, that of the default section, or none.
Init == /\ acl \in [Devices -> [Range(Fields) -> Names \cup {None}]]
        /\ api = None
        /\ check = [d \in Devices |-> None]
        /\ dead = FALSE

-----------------------------------------------------------------------------
(* A worker checks a request. *)

\* A request from m for operation f.  seen collects, for the properties only,
\* what InForce(d, f) is while the check lasts.
Begin(d, m, f) ==
  /\ check[d] = None
  /\ check' = [check EXCEPT ![d] = [at |-> "test", src |-> m, op |-> f, seen |-> {InForce(d, f)},
                                    list |-> None, row |-> 1, rule |-> 0, logged |-> None]]
  /\ UNCHANGED <<acl, api, dead>>

At(d, where) == check[d] # None /\ check[d].at = where

\* if(dev->racl != NULL)
Test(d) ==
  /\ At(d, "test")
  /\ LET l == acl[d][check[d].op] IN
     check' = IF l = None
                THEN [check EXCEPT ![d].at = "decided", ![d].rule = ACCEPT]
                ELSE [check EXCEPT ![d].at = "call", ![d].list = l]
  /\ UNCHANGED <<acl, api, dead>>

\* aclmatch(dev->racl, ...): the build may read the pointer again or not.
Call(d) ==
  /\ At(d, "call")
  /\ \E l \in {check[d].list, acl[d][check[d].op]} :
       IF l = None THEN dead' = TRUE /\ UNCHANGED check
       ELSE check' = [check EXCEPT ![d].at = "scan", ![d].list = l] /\ UNCHANGED dead
  /\ UNCHANGED <<acl, api>>

\* What the log says of a rule: ACL_ERROR is not zero either.
Logged(l, rule) == IF ~l.log THEN None ELSE IF rule # 0 THEN "allow" ELSE "reject"

Return(d, rule) ==
  check' = [check EXCEPT ![d].at = "decided", ![d].rule = rule,
                         ![d].logged = Logged(List[check[d].list], rule)]

\* Mutant: the walk ends before the last row.
ScanShort(d) ==
  /\ At(d, "scan")
  /\ LET l == List[check[d].list]  k == check[d].row IN
     \/ k >= Len(l.acl) /\ Return(d, l.defaultpolicy)
     \/ k < Len(l.acl) /\ l.acl[k].h_dest = check[d].src /\ Return(d, l.acl[k].rule)
     \/ k < Len(l.acl) /\ l.acl[k].h_dest # check[d].src /\ check' = [check EXCEPT ![d].row = k + 1]
  /\ UNCHANGED <<acl, api, dead>>

\* One row of the walk down the list.
Scan(d) ==
  /\ At(d, "scan")
  /\ LET l == List[check[d].list]  k == check[d].row IN
     \/ k > Len(l.acl) /\ Return(d, l.defaultpolicy)
     \/ k <= Len(l.acl) /\ l.acl[k].h_dest = check[d].src /\ Return(d, l.acl[k].rule)
     \/ k <= Len(l.acl) /\ l.acl[k].h_dest # check[d].src /\ check' = [check EXCEPT ![d].row = k + 1]
  /\ UNCHANGED <<acl, api, dead>>

\* The request is carried out or refused, and the worker is free.
Finish(d) ==
  /\ At(d, "decided")
  /\ check' = [check EXCEPT ![d] = None]
  /\ UNCHANGED <<acl, api, dead>>

-----------------------------------------------------------------------------
(* SETACL: every field of every device it names, one assignment a step. *)

\* path is the device on the interface the request names, All for none named,
\* None for an interface without a device of the target.
Setacl(want, path) ==
  /\ api = None
  /\ LET chosen == CASE path = All -> Devices [] path = None -> {} [] OTHER -> {path} IN
     api' = [want |-> want, chosen |-> chosen, left |-> chosen \X DOMAIN Fields,
             now |-> None, ok |-> TRUE]
  /\ UNCHANGED <<acl, check, dead>>

Assign(d, f, l) ==
  /\ acl' = [acl EXCEPT ![d][f] = l]
  /\ check' = IF check[d] # None /\ check[d].op = f
                THEN [check EXCEPT ![d].seen = @ \cup {InForce(d, f)'}] ELSE check

\* The fields of a device in order, one device after the other.
Turn(d, k) == /\ <<d, k>> \in api.left
              /\ \A j \in 1..(k - 1) : <<d, j>> \notin api.left
              /\ \A e \in Devices \ {d} : Cardinality({j \in DOMAIN Fields : <<e, j>> \in api.left})
                                            \in {0, Len(Fields)}

\* device->racl = NULL, whether a list is to be removed or changed.
Clear(d, k) ==
  /\ api # None /\ api.now = None /\ Turn(d, k)
  /\ LET f == Fields[k] IN
     /\ api' = IF api.want[f] = None THEN [api EXCEPT !.left = @ \ {<<d, k>>}]
                                     ELSE [api EXCEPT !.now = <<d, k>>]
     /\ Assign(d, f, None)
  /\ UNCHANGED dead

\* Mutant: what one list answers stands for the whole request.
ResolveForgets(d, k) ==
  /\ api # None /\ api.now = <<d, k>>
  /\ LET w == api.want[Fields[k]] IN
     /\ api' = [api EXCEPT !.now = None, !.left = @ \ {<<d, k>>}, !.ok = w \in Names]
     /\ Assign(d, Fields[k], IF w \in Names THEN w ELSE None)
  /\ UNCHANGED dead

\* Mutant: the first list that is not found ends the request.
ResolveStops(d, k) ==
  /\ api # None /\ api.now = <<d, k>>
  /\ LET w == api.want[Fields[k]] IN
     /\ api' = [api EXCEPT !.now = None, !.ok = @ /\ w \in Names,
                           !.left = IF w \in Names THEN @ \ {<<d, k>>} ELSE {}]
     /\ Assign(d, Fields[k], IF w \in Names THEN w ELSE None)
  /\ UNCHANGED dead

\* device->racl = referenceacl(...), NULL when no list has the name.
Resolve(d, k) ==
  /\ api # None /\ api.now = <<d, k>>
  /\ LET w == api.want[Fields[k]] IN
     /\ api' = [api EXCEPT !.now = None, !.left = @ \ {<<d, k>>}, !.ok = @ /\ w \in Names]
     /\ Assign(d, Fields[k], IF w \in Names THEN w ELSE None)
  /\ UNCHANGED dead

Reply ==
  /\ api # None /\ api.left = {}
  /\ api' = None
  /\ UNCHANGED <<acl, check, dead>>

-----------------------------------------------------------------------------
Next ==
  /\ ~dead
  /\ \/ \E d \in Followed :
          \/ \E m \in Macs, f \in Range(Fields) : Begin(d, m, f)
          \/ Test(d) \/ Call(d) \/ Scan(d) \/ Finish(d)
     \/ \E d \in Devices : \E k \in DOMAIN Fields : Clear(d, k) \/ Resolve(d, k)
     \/ \E want \in [Range(Fields) -> Wanted], path \in Devices \cup {All, None} : Setacl(want, path)
     \/ Reply

Spec == Init /\ [][Next]_vars

-----------------------------------------------------------------------------
\* The rule of a block for a source, as qaoed.conf.5 describes it: the first
\* accept or reject statement with the address, the policy when there is none.
Rule(block, m) ==
  LET hits     == {k \in DOMAIN block : block[k].key \in {"accept", "reject"} /\ block[k].value = m}
      policies == {k \in DOMAIN block : block[k].key = "policy"}
  IN IF hits # {} THEN block[Min(hits)].key
     ELSE IF policies # {} THEN block[Max(policies)].value ELSE "reject"

Lets(l, m) == l \in {None, "gap"} \/ (l \in Names /\ Rule(Block[l], m) = "accept")

\* A request is let through, or refused, as one of the lists in force during the
\* check says (no list lets everything through), however SETACL cuts in.
Justified ==
  \A d \in Devices :
    At(d, "decided") =>
      \E l \in check[d].seen : Lets(l, check[d].src) = (check[d].rule = ACCEPT)

\* When SETACL reports success every device it named has the lists it named.
SuccessMeansSet ==
  [][Reply /\ api.ok => \A d \in api.chosen : acl[d] = api.want]_vars

\* After a SETACL for all paths they are guarded by the same lists, also when
\* some of the lists were not found.
PathsAlike ==
  [][Reply /\ api.chosen = Devices => \A d, e \in Devices : acl[d] = acl[e]]_vars
-----------------------------------------------------------------------------
(* The inductive invariant the proofs rest on.                               *)

Setacls == [want : [Range(Fields) -> Wanted], chosen : SUBSET Devices,
            left : SUBSET (Devices \X DOMAIN Fields),
            now : (Devices \X DOMAIN Fields) \cup {None}, ok : BOOLEAN]

Checks == [at : {"test", "call", "scan", "decided"}, src : Macs, op : Range(Fields),
           seen : SUBSET (Names \cup {None, "gap"}), list : Names \cup {None},
           row : Nat, rule : {0, ACCEPT, ACL_ERROR}, logged : {None, "allow", "reject"}]

\* What stands for nothing is nothing.
ASSUME NoneAssumption == None \notin Setacls \cup Checks \cup (Devices \X DOMAIN Fields)

\* Every variable holds a value of its kind.
TypeOK ==
  /\ acl \in [Devices -> [Range(Fields) -> Names \cup {None}]]
  /\ api \in Setacls \cup {None}
  /\ check \in [Devices -> Checks \cup {None}]
  /\ dead \in BOOLEAN

\* What SETACL has done with is as it was asked for, and NULL where no list has the
\* name, which it remembers; where it is at work there is no list.
Progress ==
  api # None =>
    /\ api.left \subseteq api.chosen \X DOMAIN Fields
    /\ api.now # None =>
         api.now \in api.left /\ acl[api.now[1]][Fields[api.now[2]]] = None
    /\ \A d \in api.chosen, k \in DOMAIN Fields : <<d, k>> \notin api.left =>
         LET w == api.want[Fields[k]] IN
         acl[d][Fields[k]] = (IF w \in Names THEN w ELSE None) /\ (api.ok => w \in Names \cup {None})

\* A check has seen the list in force, the list it walks was in force, and no row
\* that it has passed has the source.
Checked(d) ==
  check[d] # None =>
    LET c == check[d] IN
    /\ InForce(d, c.op) \in c.seen
    /\ c.at \in {"call", "scan"} => c.list \in Names \cap c.seen
    /\ c.at \in {"test", "call"} => c.row = 1
    /\ c.at = "scan" =>
         /\ c.row \in 1..(Len(List[c.list].acl) + 1)
         /\ \A j \in 1..(c.row - 1) : List[c.list].acl[j].h_dest # c.src
    /\ c.at = "decided" => \E l \in c.seen : Lets(l, c.src) = (c.rule = ACCEPT)

IInv == TypeOK /\ Progress /\ \A d \in Devices : Checked(d)
=============================================================================
