---------------------------- MODULE MCReplicaSet ----------------------------
(* Instances of ReplicaSet for TLC. *)
EXTENDS ReplicaSet

\* a and b are the members of the set rs, x is another name of a, z is alone
\* in the set rt
MCHosts    == {"a", "b", "x", "z"}
MCMe       == [h \in MCHosts |-> IF h = "x" THEN "a" ELSE h]
MCSetOf    == [h \in MCHosts |-> IF h = "z" THEN "rt" ELSE "rs"]
MCIsDbGrid == [h \in MCHosts |-> FALSE]
MCElectable == {"a", "b"}
MCTagsOf   == [h \in MCHosts |-> IF h = "b" THEN <<"dc:ny">> ELSE <<>>]
MCTagSets  == {<<>>, << <<"dc:ny">>, <<>> >>}
MCPings    == {0, 20}

Client(seeds, set, replset, cred) ==
    [seeds |-> seeds, set |-> set, replset |-> replset, cred |-> cred]
MCClients  == {Client(<<"x">>, None, TRUE, None), Client(<<"z">>, "rs", TRUE, "u"),
               Client(<<"x">>, None, FALSE, None)}

\* of the connections a parent process left it is only kept whether one leads to
\* the primary: the child looks at nothing of them but the type and the process id
MCView ==
    <<\E h \in DOMAIN pool : h.pid # pid /\ pool[h].type = PRIMARY,
      [h \in {k \in DOMAIN pool : k.pid = pid} |-> pool[h]],
      pid, primary, clientVars, callVars>>
=============================================================================
