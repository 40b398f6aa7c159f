---------------------------- MODULE WriteConcern ----------------------------
(***************************************************************************)
(* What a write asks of the server (collection.c 215-396, 465-508).        *)
(*                                                                         *)
(* The concern comes from four places: the connection string (default_w,   *)
(* default_wstring), the w property a collection copied from its database, *)
(* and the "w", "safe" and "fsync" members of the options array.  Two      *)
(* functions read them, each in its own way: is_gle_op decides whether the *)
(* write waits for an answer, append_getlasterror what is asked for.       *)
(*                                                                         *)
(* A PHP value is a record of its type and an integer; the integer of a    *)
(* string names it (a mode such as "majority").                            *)
(***************************************************************************)
EXTENDS Integers

Absent  == [type |-> "absent", n |-> 0]
Long(k) == [type |-> "long", n |-> k]
Bool(b) == [type |-> "bool", n |-> IF b THEN 1 ELSE 0]
Str(k)  == [type |-> "string", n |-> k]

Values ==
    {Absent, Bool(FALSE), Bool(TRUE)} \cup [type : {"long", "string"}, n : Int]

IsNumber(v) == v.type \in {"long", "bool"}

\* an options argument: NULL, a scalar, or an array with the members of interest;
\* "blocks" is a timeout of 0 or less, with which the answer is awaited for ever
NoOptions    == [kind |-> "null", w |-> Absent, safe |-> Absent, fsync |-> Absent, blocks |-> FALSE]
Scalar(b)    == [NoOptions EXCEPT !.kind = "scalar", !.safe = Bool(b)]
EmptyOptions == [NoOptions EXCEPT !.kind = "array"]

Arguments ==
    [kind : {"null", "scalar", "array"}, w : Values, safe : Values, fsync : Values,
     blocks : BOOLEAN]

-----------------------------------------------------------------------------
\* insert takes a scalar for the safe option, update and remove for upsert and
\* justOne; save and ensureIndex make an array of nothing.  batchInsert alone
\* passes NULL on.
OptionsOf(op, options) ==
    CASE options.kind = "array"  -> options
      [] op = "batchInsert"      -> options
      [] op = "insert" /\ options.kind = "scalar" -> [options EXCEPT !.kind = "array"]
      [] OTHER                   -> EmptyOptions

\* "safe" is looked at when there is no "w"
GleOption(options) == IF options.w # Absent THEN options.w ELSE options.safe

IsGleOpByProperty(settings, options) == settings.w.n >= 1 \/ settings.w.type = "string"

\* fsync as 1 or TRUE; another type does not count
IsGleOp(settings, options) ==
    LET gle == GleOption(options) IN
    \/ options.fsync \in {Long(1), Bool(TRUE)}
    \/ IF gle = Absent THEN settings.default_w \notin {-1, 0}
       ELSE gle.type = "string" \/ gle.n >= 1

-----------------------------------------------------------------------------
(* append_getlasterror.  A concern under construction is a record of w, a    *)
(* number, and w_str, a string or Absent; the string is what will be sent.   *)

FromLink(settings) ==
    [w |-> IF settings.default_w = -1 THEN 0 ELSE settings.default_w,
     w_str |-> settings.default_wstring]

\* the property counts unless it is 1, what it has by default
FromProperty(concern, prop) ==
    IF prop.type = "string" THEN [concern EXCEPT !.w_str = prop]
    ELSE IF prop.n # 1 THEN [w |-> prop.n, w_str |-> Absent]
    ELSE concern

\* a number does not take a string back that was there before
FromW(concern, w) ==
    IF w.type = "string" THEN [concern EXCEPT !.w_str = w] ELSE [concern EXCEPT !.w = w.n]

FromSafe(concern, safe) ==
    CASE safe.type = "string" -> [concern EXCEPT !.w_str = safe]
      [] safe.type = "long"   -> [concern EXCEPT !.w = safe.n]
      [] safe.type = "bool"   -> IF safe = Bool(FALSE) THEN [concern EXCEPT !.w = 0]
                                 ELSE IF concern.w > 1 \/ concern.w_str # Absent THEN concern
                                 ELSE [concern EXCEPT !.w = 1]

FromOptions(concern, options) ==
    LET stated == IF options.w # Absent THEN FromW(concern, options.w)
                  ELSE IF options.safe # Absent THEN FromSafe(concern, options.safe)
                  ELSE concern
    IN  IF options.fsync.n # 0 /\ stated.w = 0 THEN [stated EXCEPT !.w = 1] ELSE stated

SafeOverwrites(settings, prop, options) ==
    LET c == FromOptions(FromProperty(FromLink(settings), prop),
                         [options EXCEPT !.w = IF @ = Absent /\ options.safe = Bool(TRUE)
                                               THEN Long(1) ELSE @])
    IN  [w |-> IF c.w_str # Absent THEN c.w_str ELSE IF c.w > 1 THEN Long(c.w) ELSE Absent,
         fsync |-> options.fsync.n # 0]

\* the getlasterror command: "w" (and with it "wtimeout") if there is a string or
\* more than one server to wait for, and "fsync"
GetLastError(settings, prop, options) ==
    LET c == FromOptions(FromProperty(FromLink(settings), prop), options)
    IN  [w |-> IF c.w_str # Absent THEN c.w_str ELSE IF c.w > 1 THEN Long(c.w) ELSE Absent,
         fsync |-> options.fsync.n # 0]

\* wtimeout is looked up in the options even if they are NULL: the worker dies
GetLastErrorCrashes(settings, prop, options) ==
    options.kind = "null" /\ GetLastError(settings, prop, options).w # Absent
=============================================================================
