------------------------------ MODULE MCGridFS ------------------------------
(* Files of up to three bytes, in up to two chunks. *)
EXTENDS GridFS, TLC

File(length, chunkSize, source, acked, default) ==
    [length |-> length, chunkSize |-> chunkSize, source |-> source, acked |-> acked,
     default |-> default]

MCFiles == {File(0, 2, "bytes", FALSE, FALSE), File(3, 2, "bytes", TRUE, TRUE),
            File(2, 1, "file", TRUE, TRUE), File(1, 2, "fd", TRUE, TRUE),
            File(1, 2, "bytes", FALSE, TRUE), File(1, 0, "file", TRUE, FALSE),
            File(1, -1, "file", TRUE, TRUE)}
MCCounts == {1, 3}
MCSymmetry == Permutations(Workers)
=============================================================================
