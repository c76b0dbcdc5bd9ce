---------------------------- MODULE MCConfigSyntax ----------------------------
(* Instances of ConfigSyntax for TLC: well-formed files, the same files      *)
(* after one edit of the main one or of the one it includes, and every file  *)
(* of up to four tokens.                                                     *)
EXTENDS ConfigSyntax, TLC

set(k, v) == <<k, "=", v, ";">>
blk(k, t) == <<k, "{">> \o t \o <<"}">>

Acl    == blk("access-list", set("name", "default") \o set("policy", "reject") \o set("accept", "x")
                               \o set("reject", "y"))
Device == blk("device", set("target", "x") \o set("slot", "1")
                          \o blk("acl", set("write", "x")))
Dflt   == blk("default", set("broadcast", "on") \o blk("logging", set("log", "default")))
Iface  == blk("interface", set("if", "x") \o set("mtu", "1"))
Socket == set("apisocket", "x")

Disk(main, more, third) == [main |-> main, more |-> more, third |-> third]

\* Among them an include of an include, of several files, of the file itself, of an
\* empty file, of no file; a file with a fault that is not included; words that are
\* misread, the last before a rule that makes up for it.
Files == {Disk(Acl \o Device, <<>>, <<>>),
          Disk(Dflt \o Iface, <<>>, <<>>),
          Disk(blk("default", set("broadcast", "o")), <<>>, <<>>),
          Disk(set("include", "more") \o Dflt, Device, <<>>),
          Disk(set("include", "more") \o Socket, set("include", "third"), Iface),
          Disk(set("include", "others"), Acl, Socket),
          Disk(set("include", "all"), Socket, <<>>),
          Disk(set("include", "more"), <<>>, Socket),
          Disk(Socket \o set("include", "none"), <<>>, <<>>),
          Disk(Iface, <<"}">>, <<>>),
          Disk(blk("access-list", set("allow", "x")), <<>>, <<>>),
          Disk(set("name", "include") \o set("include", "more"), Socket, <<>>),
          Disk(set("name", "policy") \o set("accept", "x"), <<>>, <<>>)}

Edits(t) ==
  LET n == Len(t) IN
  {t} \cup {SubSeq(t, 1, k) : k \in 0..(n - 1)}
      \cup {RemoveAt(t, k) : k \in 1..n}
      \cup {InsertAt(t, k, t[k]) : k \in 1..n}
      \cup {[t EXCEPT ![k] = t[k + 1], ![k + 1] = t[k]] : k \in 1..(n - 1)}

Edited == UNION {{[d EXCEPT ![f] = t] : t \in Edits(d[f])} : d \in Files, f \in {"main", "more"}}

\* Every short file.
Tokens == {"device", "interface", "policy", "slot", "accept", "allow", "=", "{", "}", ";", "x", "1"}
Short == UNION {{Disk(t, <<>>, <<>>) : t \in [1..n -> Tokens]} : n \in 0..4}

\* A file that is included, and is not what it should be, behind one that is.
Behind == {Disk(set("include", "more") \o Socket, t, <<>>) : t \in UNION {[1..n -> Tokens] : n \in 1..3}}

AllInputs == Edited \cup Short \cup Behind

AllWords == UNION {Range(d[f]) : d \in Files, f \in {"main", "more", "third"}} \cup Tokens

Patterns == [more |-> <<"more">>, third |-> <<"third">>, others |-> <<"more", "third">>,
             all |-> <<"main", "more">>]
InOn == {<<"broadcast", "o">>}
=============================================================================
