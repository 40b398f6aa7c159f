-------------------------- MODULE MCCursorLifecycle --------------------------
(* Instances of CursorLifecycle for TLC. *)
EXTENDS CursorLifecycle, TLC

CONSTANTS s1, s2, h1, h2, a1, a2, c1, c2, k1, k2

MCServers == {s1, s2}
MCOneServer == {s1}
MCHashes  == {h1, h2}
MCOneHash == {h1}
MCSeeds   == <<h1, h2>>
MCOneSeed == <<h1>>
MCOwn     == [h \in {h1, h2} |-> IF h = h1 THEN s1 ELSE s2]
MCSame    == [h \in {h1, h2} |-> s1]
MCOneOf   == [h \in {h1} |-> s1]
MCConns   == {a1, a2}
MCCursors == {c1, c2}
MCOneCursor == {c1}
MCSockets == {k1, k2}
MCOneSocket == {k1}

\* Addresses, descriptors and cursors are interchangeable.
MCSymmetry ==
    Permutations(MCConns) \cup Permutations(MCCursors) \cup Permutations(MCSockets)
\* States that differ only in what free() left in the memory of connections are one:
\* no step reads it (SessionsAreSound).  So are states that differ only in whether a
\* server has closed a cursor whose connection is gone: nobody asks for it (ServerInv).
MCView ==
    <<pool, [a \in pool |-> <<hash[a], server[a], socket[a]>>], cleanup_list, broken,
      cursorVars, callVars,
      [s \in Servers |-> [i \in CursorIds |->
         IF srv[s][i] = "orphan" THEN "gone" ELSE srv[s][i]]]>>
=============================================================================
