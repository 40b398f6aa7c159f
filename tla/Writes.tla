------------------------------- MODULE Writes -------------------------------
(***************************************************************************)
(* Writes and commands over one pooled connection, and the answers that    *)
(* come back on it (collection.c 401-1077, 1212-1248, db.c 603-672,        *)
(* cursor.c 95-217 and 1038-1078, mcon/io.c, mcon/connections.c 323-428).  *)
(*                                                                         *)
(* The connection is a byte stream on which requests and answers keep      *)
(* their order.  A write is followed by getlasterror in the same buffer if *)
(* it waits for an answer, and by nothing otherwise.  An answer that came  *)
(* too late stays on the stream for whoever reads next: a write or command *)
(* compares response_to with its own request id, a ping does not.  Of an   *)
(* answer that does not match only the header has been read, so what is    *)
(* read after it are pieces of documents: the stream is out of step (a      *)
(* piece of a document is not taken to look like an answer with the id     *)
(* that is waited for).                                                    *)
(*                                                                         *)
(* Requests of the PHP side are numbered by one counter of the worker,     *)
(* pings by one of the connection, which starts at a random number: their  *)
(* ids are taken to be distinct.  A header is read as a whole.             *)
(***************************************************************************)
EXTENDS WriteConcern, Sequences

CONSTANTS
    Settings,   \* the client's default_w and default_wstring, the collection's w, the database's w
    Options,    \* options arguments
    WriteOps,   \* the methods that write
    MaxCalls,   \* bound: calls of a behaviour
    NULL

ASSUME WritesAssumption ==
    /\ MaxCalls \in Nat
    /\ WriteOps \subseteq {"insert", "batchInsert", "update", "remove", "save", "ensureIndex"}
    /\ Options \subseteq Arguments
    /\ \A s \in Settings : s.default_w \in Int /\ s.default_wstring.type \in {"absent", "string"}

VARIABLES
    settings,    \* an element of Settings
    request_id,  \* MonGlo(request_id)
    con,         \* the pooled connection, or NULL
    pc,          \* where the current call is
    call,        \* the current or the last call
    result,      \* what it returned
    applied      \* the calls whose write or command the server has executed

vars == <<settings, request_id, con, pc, call, result, applied>>

-----------------------------------------------------------------------------
(* The connection *)

Fresh == [reqid |-> 1,       \* last_reqid
          pingDue |-> TRUE,
          inbox |-> <<>>,    \* requests on their way to the server
          stream |-> <<>>,   \* answers on their way to the driver
          lasterr |-> FALSE, \* the server's last error on this connection
          aligned |-> TRUE,  \* does the next read find a header?
          missed |-> FALSE,  \* has a read failed?
          broken |-> FALSE]

\* php_mongo_write_insert and the like, php_mongo_write_query, create_simple_header
Request(kind, id) == [kind |-> kind, id |-> id, call |-> call.n]

\* what a failing socket takes is lost
Sent(requests) == IF con.broken THEN con ELSE [con EXCEPT !.inbox = @ \o requests]

\* an answer and the request it is for
Answer(request, ok) == [to |-> request.id, call |-> request.call, ok |-> ok]

Return(status) ==
    /\ pc' = "idle"
    /\ result' = [call |-> call.n, status |-> status]

-----------------------------------------------------------------------------
Init ==
    /\ settings \in Settings
    /\ request_id = 3
    /\ con = NULL
    /\ pc = "idle"
    /\ call = [n |-> 0, op |-> "none"]
    /\ result = NULL
    /\ applied = {}

\* the collection of ensureIndex is a new one, with the w of the database
Property(op) == IF op = "ensureIndex" THEN settings.db_w ELSE settings.w

Waits(op, options) == IsGleOp(settings, options)

CallWrite(op, argument) ==
    LET options == OptionsOf(op, argument) IN
    /\ pc = "idle"
    /\ call.n < MaxCalls
    /\ op = "batchInsert" => argument.kind # "scalar"
    /\ call' = [n |-> call.n + 1, op |-> op, options |-> options,
                waits |-> Waits(op, options),
                gle |-> GetLastError(settings, Property(op), options),
                crashes |-> GetLastErrorCrashes(settings, Property(op), options)]
    /\ pc' = "connection"
    /\ result' = NULL
    /\ UNCHANGED <<settings, request_id, con, applied>>

\* MongoDB::command and what is built from it (drop, count, distinct, ...)
CallCommand ==
    /\ pc = "idle"
    /\ call.n < MaxCalls
    /\ call' = [n |-> call.n + 1, op |-> "command", options |-> NoOptions, waits |-> TRUE,
                crashes |-> FALSE]
    /\ pc' = "connection"
    /\ result' = NULL
    /\ UNCHANGED <<settings, request_id, con, applied>>

-----------------------------------------------------------------------------
(* get_server, or the connection of a query: connect, or ping if that is due *)

\* mongo_connection_create does not look at what get_server_flags returns: its answer
\* is there, comes too late, or has come without its body
NewConnections ==
    LET asked == Request("ping", <<"con", Fresh.reqid>>) IN
    {Fresh,
     [Fresh EXCEPT !.inbox = <<asked>>, !.missed = TRUE],
     [Fresh EXCEPT !.stream = <<Answer(asked, TRUE)>>, !.missed = TRUE, !.aligned = FALSE]}

\* the first ping is due at once
Connect ==
    /\ pc = "connection"
    /\ con = NULL
    /\ \/ con' \in NewConnections /\ UNCHANGED <<pc, result>>
       \/ UNCHANGED con /\ Return("exception")
    /\ UNCHANGED <<settings, request_id, call, applied>>

UseConnection ==
    /\ pc = "connection"
    /\ con # NULL
    /\ ~con.pingDue
    /\ pc' = "send"
    /\ UNCHANGED <<settings, request_id, con, call, result, applied>>

\* mongo_connect_send_packet does not look at what mongo_io_send returns
SendPing ==
    /\ pc = "connection"
    /\ con # NULL
    /\ con.pingDue
    /\ con' = [Sent(<<Request("ping", <<"con", con.reqid + 1>>)>>) EXCEPT !.reqid = @ + 1]
    /\ pc' = "ping"
    /\ UNCHANGED <<settings, request_id, call, result, applied>>

\* any answer will do; out of step, a piece of a document may look like one
PingAnswered ==
    /\ pc = "ping"
    /\ con.stream # <<>>
    /\ con' = [con EXCEPT !.pingDue = FALSE, !.stream = IF con.aligned THEN Tail(@) ELSE @]
    /\ pc' = "send"
    /\ UNCHANGED <<settings, request_id, call, result, applied>>

PingFails ==
    /\ pc = "ping"
    /\ con' = NULL
    /\ Return("exception")
    /\ UNCHANGED <<settings, request_id, call, applied>>

-----------------------------------------------------------------------------
(* send_message and do_safe_op; mongo_cursor__do_query for a command *)

\* a document that cannot be written, or is too large: nothing is sent.  For a
\* batch larger than max_send_size there is no exception either.
EncodeFails ==
    /\ pc = "send"
    /\ request_id' = request_id + 1
    /\ Return("exception") \/ (call.op = "batchInsert" /\ Return("null"))
    /\ UNCHANGED <<settings, con, call, applied>>

GleCrashes ==
    /\ pc = "send"
    /\ call.waits /\ call.crashes
    /\ pc' = "idle"
    /\ con' = NULL
    /\ request_id' = 3
    /\ UNCHANGED <<settings, call, result, applied>>

RequestsByConcern ==
    IF call.op = "command" THEN <<Request("command", <<"php", request_id>>)>>
    ELSE <<Request("write", <<"php", request_id>>)>>
         \o IF call.waits \/ call.gle.w # Absent
            THEN <<Request("getlasterror", <<"php", request_id + 1>>)>> ELSE <<>>

Requests ==
    IF call.op = "command" THEN <<Request("command", <<"php", request_id>>)>>
    ELSE <<Request("write", <<"php", request_id>>)>>
         \o IF call.waits THEN <<Request("getlasterror", <<"php", request_id + 1>>)>> ELSE <<>>

NextIdOfWrite == request_id + 1

\* the getlasterror takes an id of its own
NextId == request_id + Len(Requests)

\* batchInsert returns TRUE and does not look at what send_message returns
Unacknowledged(sent) == IF sent \/ call.op = "batchInsert" THEN "true" ELSE "false"

Send ==
    /\ pc = "send"
    /\ ~(call.waits /\ call.crashes)
    /\ con' = Sent(Requests)
    /\ request_id' = NextId
    /\ IF call.waits THEN pc' = "reply" /\ UNCHANGED result
       ELSE Return(Unacknowledged(TRUE))
    /\ UNCHANGED <<settings, call, applied>>

\* a write that does not wait leaves the broken connection where it is
SendFails ==
    /\ pc = "send"
    /\ con.broken
    /\ ~(call.waits /\ call.crashes)
    /\ request_id' = NextId
    /\ IF call.waits THEN con' = NULL /\ Return("exception")
       ELSE UNCHANGED con /\ Return(Unacknowledged(FALSE))
    /\ UNCHANGED <<settings, call, applied>>

-----------------------------------------------------------------------------
(* php_mongo_get_reply *)

\* cursor->send.request_id: of the query written last
OwnId == <<"php", request_id - 1>>

ForAnyone(answer) == TRUE

ForMe(answer) == answer.to = OwnId

\* of a command that fails the document with the error may be returned instead
Given(answer) == IF answer.ok THEN "ok" ELSE "exception"

ReplyTaken ==
    /\ pc = "reply"
    /\ con.stream # <<>>
    /\ con.aligned
    /\ ForMe(Head(con.stream))
    /\ con' = [con EXCEPT !.stream = Tail(@)]
    /\ Return(Given(Head(con.stream)))
    /\ UNCHANGED <<settings, request_id, call, applied>>

\* a query that fails takes its connection with it, a write does not
AfterFailure(c) == IF call.op = "command" THEN NULL ELSE c

\* no header in time (unless the call waits for ever), or the connection breaks
NoReply ==
    /\ pc = "reply"
    /\ con.broken \/ ~call.options.blocks
    /\ con' = AfterFailure([con EXCEPT !.missed = TRUE])
    /\ Return("exception")
    /\ UNCHANGED <<settings, request_id, call, applied>>

\* the answer is not for this request, its body does not come, or it is no answer
ReplyFails ==
    /\ pc = "reply"
    /\ con.stream # <<>>
    /\ con' = AfterFailure([con EXCEPT !.missed = TRUE, !.aligned = FALSE])
    /\ Return("exception")
    /\ UNCHANGED <<settings, request_id, call, applied>>

-----------------------------------------------------------------------------
(* The server, the network, time *)

\* requests are executed in their order; a write is refused or done, and
\* getlasterror tells which (or that it was not replicated in time)
Serve ==
    /\ con # NULL
    /\ con.inbox # <<>>
    /\ LET request == Head(con.inbox)
           Reply(ok) == [con EXCEPT !.inbox = Tail(@),
                                    !.stream = IF con.broken THEN @ ELSE Append(@, Answer(request, ok))]
       IN  \/ /\ request.kind = "write"
              /\ con' = [con EXCEPT !.inbox = Tail(@), !.lasterr = FALSE]
              /\ applied' = applied \cup {request.call}
           \/ /\ request.kind = "write"
              /\ con' = [con EXCEPT !.inbox = Tail(@), !.lasterr = TRUE]
              /\ UNCHANGED applied
           \/ /\ request.kind = "getlasterror"
              /\ \E ok \in BOOLEAN : (con.lasterr => ~ok) /\ con' = Reply(ok)
              /\ UNCHANGED applied
           \/ /\ request.kind = "command"
              /\ \E ok \in BOOLEAN :
                   /\ con' = [Reply(ok) EXCEPT !.lasterr = ~ok]
                   /\ applied' = IF ok THEN applied \cup {request.call} ELSE applied
           \/ /\ request.kind = "ping"
              /\ con' = Reply(TRUE)
              /\ UNCHANGED applied
    /\ UNCHANGED <<settings, request_id, pc, call, result>>

Break ==
    /\ con # NULL
    /\ ~con.broken
    /\ con' = [con EXCEPT !.broken = TRUE]
    /\ UNCHANGED <<settings, request_id, pc, call, result, applied>>

PingIntervalPasses ==
    /\ con # NULL
    /\ ~con.pingDue
    /\ pc = "idle"
    /\ con' = [con EXCEPT !.pingDue = TRUE]
    /\ UNCHANGED <<settings, request_id, pc, call, result, applied>>

Call == CallCommand \/ \E op \in WriteOps, argument \in Options : CallWrite(op, argument)

Step ==
    \/ Connect \/ UseConnection \/ SendPing \/ PingAnswered \/ PingFails
    \/ EncodeFails \/ GleCrashes \/ Send \/ SendFails
    \/ ReplyTaken \/ NoReply \/ ReplyFails

Next == Call \/ Step \/ Serve \/ Break \/ PingIntervalPasses

Spec == Init /\ [][Next]_vars

-----------------------------------------------------------------------------
(* Properties *)

Statuses == {"ok", "true", "false", "null", "exception"}

\* The variables have their types, and ids are given out in order: nothing on the
\* connection has an id that is still to come.
TypeOK ==
    /\ request_id \in Nat
    /\ pc \in {"idle", "connection", "ping", "send", "reply"}
    /\ call.n \in 0..MaxCalls
    /\ result # NULL => result.status \in Statuses /\ result.call \in 1..MaxCalls
    /\ applied \subseteq 1..MaxCalls
    /\ con # NULL =>
         \A n \in 1..Len(con.inbox) :
             con.inbox[n].id[2] < (IF con.inbox[n].id[1] = "php" THEN request_id ELSE con.reqid + 1)

\* A write that waited, or a command, and that reports success was executed by the
\* server: the driver never takes the late answer to an earlier write, or one
\* that a ping left behind when it took somebody else's, for the answer to this one.
SuccessIsOwn == result # NULL /\ result.status = "ok" => result.call \in applied

\* Between calls nobody owes an answer and none is waiting, unless a read failed
\* before: whoever decides that getlasterror is sent agrees with whoever reads.
NothingLeftBehind ==
    pc = "idle" /\ con # NULL =>
        \/ con.missed \/ con.broken
        \/ con.stream = <<>> /\ \A n \in 1..Len(con.inbox) : con.inbox[n].kind = "write"

Writing == pc \in {"send", "reply"} /\ call.op # "command"

\* does anything but the options ask for a named mode?
NamedMode == settings.default_wstring # Absent \/ Property(call.op).type = "string"

\* What the options state is what happens.  A write waits exactly if they ask for
\* it (or, if they say nothing, the connection string does); getlasterror then
\* carries a mode stated by name, and a number stated unless a mode is set
\* elsewhere; and "safe" as TRUE never weakens what the client was set to.
ConcernIsHonoured ==
    Writing =>
        LET stated == GleOption(call.options)
            fsync  == call.options.fsync \in {Long(1), Bool(TRUE)}
        IN  /\ IsNumber(stated) => (call.waits <=> stated.n >= 1 \/ fsync)
            /\ stated.type = "string" => call.waits /\ call.gle.w = stated
            /\ stated.type = "long" /\ stated.n > 1 /\ ~NamedMode => call.gle.w = stated
            /\ /\ stated \in {Absent, Bool(TRUE)} /\ call.options.w = Absent
               /\ settings.default_w > 1 /\ Property(call.op) = Long(1)
               => call.waits /\ call.gle.w # Absent
            /\ fsync => call.waits /\ call.gle.fsync
=============================================================================
