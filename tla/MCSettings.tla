----------------------------- MODULE MCSettings -----------------------------
(* One client, its clone, two databases, neither of which is special. *)
EXTENDS Settings, TLC

MCOption(name, value) == [name |-> name, value |-> value]

MCOptions ==
    {MCOption("replicaSet", "rs"), MCOption("username", "root"), MCOption("password", "pw"),
     MCOption("slaveOkay", "true"), MCOption("readPreference", "secondary"),
     MCOption("readPreference", "farthest"), MCOption("readPreferenceTags", "dc:ny"),
     MCOption("w", "negative"), MCOption("unknown", "")}
    \cup {MCOption("db", n) : n \in Names}

MCSymmetry == Permutations(Names)
=============================================================================
