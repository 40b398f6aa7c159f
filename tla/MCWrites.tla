------------------------------ MODULE MCWrites ------------------------------
(* Clients with the usual write concerns, a collection whose w agrees with  *)
(* the client's or does not, and options of every kind.                     *)
EXTENDS Writes

Setting(default_w, string, w) ==
    [default_w |-> default_w, default_wstring |-> string, w |-> w, db_w |-> Long(1)]

MCSettings ==
    { Setting(0, Absent, Long(0)), Setting(0, Absent, Long(2)), Setting(1, Absent, Long(1)),
      Setting(2, Absent, Long(1)), Setting(1, Str(1), Long(1)), Setting(1, Absent, Str(2)) }

MCOptions ==
    { NoOptions, Scalar(TRUE), EmptyOptions,
      [EmptyOptions EXCEPT !.w = Long(0)],
      [EmptyOptions EXCEPT !.w = Long(2), !.blocks = TRUE],
      [EmptyOptions EXCEPT !.w = Str(2)],
      [EmptyOptions EXCEPT !.safe = Bool(TRUE)],
      [EmptyOptions EXCEPT !.safe = Bool(FALSE), !.fsync = Bool(TRUE)],
      [EmptyOptions EXCEPT !.fsync = Str(1)] }

\* one method for each way to read the options: remove and save do as update does
MCWriteOps == {"insert", "batchInsert", "update", "ensureIndex"}

\* Ids matter by their distance only, and those of pings not at all.  What was
\* asked for in words is kept for the first call; later calls are told apart by
\* what they do.
MCView ==
    LET Distance(id) == IF id[1] = "php" THEN request_id - id[2] ELSE -1
    IN  <<settings, pc, result, applied,
          IF con = NULL THEN NULL
          ELSE [con EXCEPT !.reqid = 0,
                           !.inbox = [n \in DOMAIN @ |-> [@[n] EXCEPT !.id = Distance(@)]],
                           !.stream = [n \in DOMAIN @ |-> [@[n] EXCEPT !.to = Distance(@)]]],
          IF pc = "idle" THEN call.n
          ELSE IF call.op = "command" THEN <<call.n, "command">>
          ELSE IF call.n = 1 THEN call
          ELSE <<call.n, call.op = "batchInsert", call.waits, call.crashes, call.options.blocks>> >>
=============================================================================
