-------------------------- MODULE CursorLifecycle --------------------------
(***************************************************************************)
(* The life of MongoCursor objects (cursor.c) over the connections of the  *)
(* connection manager (mcon/manager.c, mcon/connections.c).                *)
(*                                                                         *)
(* One PHP worker runs one API call at a time, but a call is a sequence of *)
(* network steps, and each of them may destroy a connection that other,    *)
(* unrelated cursors still point to.  A cursor learns of it through the    *)
(* callback it left on the connection (mongo_cursor_mark_dead); the        *)
(* cursors still open on a server are noted in the persistent cursor_list  *)
(* as pairs of a cursor id and a socket.  Addresses of freed connections   *)
(* and file descriptors are used again.                                    *)
(*                                                                         *)
(* The client is of type MULTIPLE (or STANDALONE, with one seed): every    *)
(* operation pings or connects every seed and then picks any of them.      *)
(***************************************************************************)
EXTENDS Naturals, Sequences

CONSTANTS
    Servers,     \* the mongod or mongos processes
    Hashes,      \* what mongo_server_create_hash makes of server definitions: address,
                 \* set name, credentials and process id
    ServerOf,    \* the server a definition with that hash leads to; several may lead to one
    Seeds,       \* hashes of servers->server[0 .. count-1] of the client, a sequence
    Conns,       \* addresses malloc can return for a mongo_connection
    Sockets,     \* file descriptors
    Cursors,     \* addresses of MongoCursor objects
    CursorIds,   \* non-zero cursor ids a server can allot
    MaxDocs,     \* bound: documents one query returns, over all its batches
    Limits,      \* values of the limit() option, 0 for none
    NULL

ASSUME ConstantsAssumption ==
    /\ ServerOf \in [Hashes -> Servers]
    /\ Seeds \in Seq(Hashes)
    /\ Len(Seeds) > 0
    /\ CursorIds \subseteq Nat \ {0}
    /\ MaxDocs \in Nat
    /\ Limits \subseteq Nat
    /\ NULL \notin Conns \cup Cursors
    /\ Conns \cap {"fresh", "gone", "orphan"} = {}

VARIABLES
    \* the connection manager: which structures are allocated (and, the same
    \* thing between two steps, registered), their fields, and the servers at
    \* the other end of their sockets
    pool, hash, server, socket, cleanup_list,
    \* connections whose TCP stream is broken, unknown to the client
    broken,
    \* the fields of struct mongo_cursor
    alive, connection, cursor_id, started_iterating, dead, at, num, limit,
    \* the nodes of the process-wide cursor_list
    cursor_list,
    \* the servers: state of every cursor id
    srv,
    \* the API call in progress: where it is, on which cursor (NULL: a write
    \* of MongoCollection), called through which method, at which seed
    pc, self, fn, seed

connVars   == <<pool, hash, server, socket, cleanup_list, broken>>
cursorVars == <<alive, connection, cursor_id, started_iterating, dead, at, num,
                limit, cursor_list>>
callVars   == <<pc, self, fn, seed>>
vars       == <<connVars, cursorVars, srv, callVars>>

\* A cursor id of a server has never been used, is open and was opened over a
\* connection that still exists, is open but that connection is gone, or is
\* closed.
IdStates == {"fresh", "orphan", "gone"} \cup Conns

TypeOK ==
    /\ pool \subseteq Conns
    /\ hash \in [Conns -> Hashes]
    /\ server \in [Conns -> Servers]
    /\ socket \in [Conns -> Sockets]
    /\ cleanup_list \in [Conns -> [Cursors -> Nat]]
    /\ broken \subseteq pool
    /\ alive \subseteq Cursors
    /\ connection \in [Cursors -> Conns \cup {NULL}]
    /\ cursor_id \in [Cursors -> CursorIds \cup {0}]
    /\ started_iterating \in [Cursors -> BOOLEAN]
    /\ dead \in [Cursors -> BOOLEAN]
    /\ at \in [Cursors -> Nat]
    /\ num \in [Cursors -> Nat]
    /\ limit \in [Cursors -> Limits \cup {0}]
    /\ cursor_list \subseteq CursorIds \X Sockets
    /\ srv \in [Servers -> [CursorIds -> IdStates]]
    /\ pc \in {"idle", "seeds", "pick", "query", "body", "getmore"}
    /\ self \in Cursors \cup {NULL}
    /\ fn \in {"hasNext", "next", "write"}
    /\ seed \in 1 .. Len(Seeds)

NoCallbacks == [c \in Cursors |-> 0]

Init ==
    /\ pool = {} /\ broken = {}
    /\ hash = [a \in Conns |-> Seeds[1]]
    /\ server = [a \in Conns |-> ServerOf[Seeds[1]]]
    /\ \E k \in Sockets : socket = [a \in Conns |-> k]
    /\ cleanup_list = [a \in Conns |-> NoCallbacks]
    /\ alive = {} /\ cursor_list = {}
    /\ connection = [c \in Cursors |-> NULL]
    /\ cursor_id = [c \in Cursors |-> 0]
    /\ started_iterating = [c \in Cursors |-> FALSE]
    /\ dead = [c \in Cursors |-> FALSE]
    /\ at = [c \in Cursors |-> 0] /\ num = [c \in Cursors |-> 0]
    /\ limit = [c \in Cursors |-> 0]
    /\ srv = [s \in Servers |-> [i \in CursorIds |-> "fresh"]]
    /\ pc = "idle" /\ self = NULL /\ fn = "write" /\ seed = 1

-----------------------------------------------------------------------------
(* Connections *)

\* mongo_manager_connection_find_by_hash.  It does not find the connection a server
\* may have under another hash.
FindByHash(h) == {a \in pool : hash[a] = h}

\* The servers of the client's list that are connected; which of the near
\* ones is picked depends on ping times and a random number.
Candidates == {a \in pool : \E i \in 1 .. Len(Seeds) : Seeds[i] = hash[a]}

\* Fault: mongo_connection_destroy calls the first callback only.
FirstCallbackOn(D) ==
    LET hooked == {c \in Cursors : \E a \in D : cleanup_list[a][c] > 0}
    IN  {c \in hooked : c = CHOOSE d \in hooked : TRUE}

\* The cursors mongo_connection_destroy calls back for the connections of D.
HasCallbackOn(D) == {c \in Cursors : \E a \in D : cleanup_list[a][c] > 0}

\* The servers once cursor id of server s is in state x.
SetId(s, id, x) == [srv EXCEPT ![s][id] = x]

\* What the loss of the connections of D is to the servers: the cursors
\* opened over them stay open, but nobody will ask for them again.
Orphaned(D, f) ==
    [s \in Servers |-> [i \in CursorIds |->
        IF f[s][i] \in D THEN "orphan" ELSE f[s][i]]]

\* mongo_manager_connection_deregister and mongo_connection_destroy of the
\* connections of D; f is what the servers did before, and failed the cursors
\* the caller marks dead as well (mongo_util_cursor_failed).  Touches neither
\* cursor_id nor cursor_list.
Destroy(D, failed, f) ==
    /\ pool' = pool \ D
    /\ broken' = broken \ D
    /\ cleanup_list' =
         [a \in Conns |-> IF a \in D THEN NoCallbacks ELSE cleanup_list[a]]
    /\ connection' =
         [c \in Cursors |-> IF c \in HasCallbackOn(D) THEN NULL ELSE connection[c]]
    /\ dead' = [c \in Cursors |-> dead[c] \/ c \in HasCallbackOn(D) \cup failed]
    /\ srv' = Orphaned(D, f)
    /\ UNCHANGED <<hash, server, socket>>

\* mongo_deregister_callback_from_connection, as a map of the callback lists:
\* the first entry of the cursor goes.  (Reading the list of a freed
\* connection finds nothing, or the worker faults: see WorkerDies.)
Unhook(cl, a, c) ==
    [cl EXCEPT ![a][c] = IF @ > 0 THEN @ - 1 ELSE @]

-----------------------------------------------------------------------------
(* The cursor list *)

Node(c, id) == <<id, socket[connection[c]]>>

\* The node of cursor c, if it has a connection and is on the list.
OnList(c, id) == connection[c] # NULL /\ Node(c, id) \in cursor_list

\* Faults of mongo_cursor_free_le: it leaves the callback where it is, frees
\* every node of the socket, sends nothing, or kills every cursor noted for
\* the socket.
KeepsCallback(c) == cleanup_list

FreesAllOfSocket(c, id) ==
    IF OnList(c, id)
    THEN {n \in cursor_list : n[2] # socket[connection[c]]}
    ELSE cursor_list

KillsNone(c, id) == srv

KillsAllOfSocket(c, id) ==
    IF OnList(c, id) /\ connection[c] \notin broken
    THEN [srv EXCEPT ![server[connection[c]]] =
            [i \in CursorIds |->
                IF <<i, socket[connection[c]]>> \in cursor_list
                THEN "gone" ELSE srv[server[connection[c]]][i]]]
    ELSE srv

\* mongo_cursor_free_le, of cursor c when its cursor_id is id.  The loop over
\* the nodes unhooks the cursor at each node it visits (so not when the list
\* is empty; a second time finds nothing, see CallbacksAreSound), and the node
\* of the cursor is freed after OP_KILL_CURSORS has been sent on its
\* socket; a failure to send is ignored.
UnhookedByFreeLe(c) ==
    IF connection[c] # NULL /\ cursor_list # {}
    THEN Unhook(cleanup_list, connection[c], c)
    ELSE cleanup_list

ListAfterFreeLe(c, id) ==
    IF OnList(c, id) THEN cursor_list \ {Node(c, id)} ELSE cursor_list

ServersAfterFreeLe(c, id) ==
    IF OnList(c, id) /\ connection[c] \notin broken
    THEN SetId(server[connection[c]], id, "gone")
    ELSE srv

FreeLe(c, id) ==
    /\ cleanup_list' = UnhookedByFreeLe(c)
    /\ cursor_list' = ListAfterFreeLe(c, id)
    /\ srv' = ServersAfterFreeLe(c, id)

\* php_mongo_create_le: cursor c goes on the list under id, once.
Noted(c, id) == cursor_list \cup {Node(c, id)}

\* Fault: the id survives a reset.
ResetKeepsId(c) ==
    /\ UNCHANGED cursor_id
    /\ started_iterating' = [started_iterating EXCEPT ![c] = FALSE]
    /\ at' = [at EXCEPT ![c] = 0]
    /\ num' = [num EXCEPT ![c] = 0]

\* mongo_util_cursor_reset, all but its call of mongo_cursor_free_le.
ResetFields(c) ==
    /\ cursor_id' = [cursor_id EXCEPT ![c] = 0]
    /\ started_iterating' = [started_iterating EXCEPT ![c] = FALSE]
    /\ at' = [at EXCEPT ![c] = 0]
    /\ num' = [num EXCEPT ![c] = 0]

Reset(c) ==
    /\ IF cursor_id[c] # 0
       THEN FreeLe(c, cursor_id[c])
       ELSE UNCHANGED <<cleanup_list, cursor_list, srv>>
    /\ ResetFields(c)

-----------------------------------------------------------------------------
(* The calls: the part before the first network step *)

Enter(where, c, f) == /\ pc' = where /\ self' = c /\ fn' = f /\ seed' = 1
Return == pc' = "idle" /\ self' = NULL /\ fn' = "write" /\ seed' = 1

\* new MongoCursor and ->limit(): a zeroed structure.
NewCursor(c) ==
    /\ pc = "idle" /\ c \notin alive
    /\ alive' = alive \cup {c}
    /\ connection' = [connection EXCEPT ![c] = NULL]
    /\ dead' = [dead EXCEPT ![c] = FALSE]
    /\ \E l \in Limits : limit' = [limit EXCEPT ![c] = l]
    /\ ResetFields(c)
    /\ UNCHANGED <<connVars, cursor_list, srv, callVars>>

\* php_mongo_cursor_free, when the last reference goes.
FreeCursor(c) ==
    /\ pc = "idle" /\ c \in alive
    /\ alive' = alive \ {c}
    /\ \/ /\ cursor_id[c] # 0
          /\ FreeLe(c, cursor_id[c])
       \/ /\ cursor_id[c] = 0 /\ connection[c] # NULL
          /\ cleanup_list' = Unhook(cleanup_list, connection[c], c)
          /\ UNCHANGED <<cursor_list, srv>>
       \/ /\ cursor_id[c] = 0 /\ connection[c] = NULL
          /\ UNCHANGED <<cleanup_list, cursor_list, srv>>
    /\ connection' = [connection EXCEPT ![c] = NULL]
    /\ ResetFields(c)
    /\ dead' = [dead EXCEPT ![c] = FALSE]
    /\ limit' = [limit EXCEPT ![c] = 0]
    /\ UNCHANGED <<pool, hash, server, socket, broken, callVars>>

\* MongoCursor::reset
CallReset(c) ==
    /\ pc = "idle" /\ c \in alive
    /\ Reset(c)
    /\ UNCHANGED <<pool, hash, server, socket, broken, alive, connection, dead, limit,
                   callVars>>

\* MongoCursor::doQuery up to the choice of a connection: reset the cursor,
\* and take its callback off the connection it still has.
BeginQuery(c, f) ==
    /\ cleanup_list' =
         LET cl == IF cursor_id[c] # 0 THEN UnhookedByFreeLe(c) ELSE cleanup_list
         IN  IF connection[c] # NULL THEN Unhook(cl, connection[c], c) ELSE cl
    /\ IF cursor_id[c] # 0
       THEN /\ cursor_list' = ListAfterFreeLe(c, cursor_id[c])
            /\ srv' = ServersAfterFreeLe(c, cursor_id[c])
       ELSE UNCHANGED <<cursor_list, srv>>
    /\ ResetFields(c)
    /\ Enter("seeds", c, f)
    /\ UNCHANGED <<pool, hash, server, socket, broken, alive, connection, dead, limit>>

ContinueIteration(c, f) ==
    /\ Enter("body", c, f)
    /\ UNCHANGED <<connVars, cursorVars, srv>>

Iterate(c, f) ==
    \/ ~started_iterating[c] /\ BeginQuery(c, f)
    \/ started_iterating[c] /\ ContinueIteration(c, f)

\* MongoCursor::hasNext does not look at dead.
CallHasNext(c) ==
    /\ pc = "idle" /\ c \in alive
    /\ Iterate(c, "hasNext")

\* MongoCursor::next and ::getNext throw at once on a dead cursor.
CallNext(c) ==
    /\ pc = "idle" /\ c \in alive /\ ~dead[c]
    /\ Iterate(c, "next")

\* MongoCursor::rewind: reset, then next (whose doQuery resets again).
CallRewind(c) ==
    /\ pc = "idle" /\ c \in alive
    /\ \/ dead[c] /\ CallReset(c)
       \/ ~dead[c] /\ BeginQuery(c, "next")

\* MongoCollection::insert and the other writes.
CallWrite ==
    /\ pc = "idle"
    /\ Enter("seeds", NULL, "write")
    /\ UNCHANGED <<connVars, cursorVars, srv>>

-----------------------------------------------------------------------------
(* mongo_get_connection_multiple *)

\* Faults: the loop runs one seed too far, or starts over.
SeedsOffByOne ==
    /\ pc' = IF seed > Len(Seeds) THEN "pick" ELSE "seeds"
    /\ seed' = IF seed > Len(Seeds) THEN 1 ELSE seed + 1
    /\ UNCHANGED <<self, fn>>

SeedsStartOver ==
    /\ seed' = IF seed = Len(Seeds) THEN 1 ELSE seed + 1
    /\ UNCHANGED <<pc, self, fn>>

\* The loop over servers->server[] goes on to the next seed, or is done.
NextSeed ==
    /\ pc' = IF seed = Len(Seeds) THEN "pick" ELSE "seeds"
    /\ seed' = IF seed = Len(Seeds) THEN 1 ELSE seed + 1
    /\ UNCHANGED <<self, fn>>

\* mongo_get_connection_single finds the seed connected, and the ping is
\* skipped (ping_interval) or answered.
SeedIsConnected ==
    /\ pc = "seeds"
    /\ FindByHash(Seeds[seed]) # {}
    /\ NextSeed
    /\ UNCHANGED <<connVars, cursorVars, srv>>

\* The ping fails or times out.
SeedPingFails ==
    /\ pc = "seeds"
    /\ \E a \in FindByHash(Seeds[seed]) : Destroy({a}, {}, srv)
    /\ NextSeed
    /\ UNCHANGED <<alive, cursor_id, started_iterating, at, num, limit, cursor_list>>

\* The seed is connected, authenticated and pinged, and registered.
SeedConnects ==
    /\ pc = "seeds"
    /\ FindByHash(Seeds[seed]) = {}
    /\ \E a \in Conns \ pool, k \in Sockets :
         /\ \A b \in pool : socket[b] # k
         /\ pool' = pool \cup {a}
         /\ hash' = [hash EXCEPT ![a] = Seeds[seed]]
         /\ server' = [server EXCEPT ![a] = ServerOf[Seeds[seed]]]
         /\ socket' = [socket EXCEPT ![a] = k]
         /\ cleanup_list' = [cleanup_list EXCEPT ![a] = NoCallbacks]
    /\ NextSeed
    /\ UNCHANGED <<broken, cursorVars, srv>>

\* It is not: the structure is freed before anyone else has seen it.
SeedConnectFails ==
    /\ pc = "seeds"
    /\ FindByHash(Seeds[seed]) = {}
    /\ NextSeed
    /\ UNCHANGED <<connVars, cursorVars, srv>>

\* "No candidate servers found".  The cursor loses its connection; hasNext
\* notes that iteration has started even so, next does not.
PickFails ==
    /\ pc = "pick" /\ Candidates = {}
    /\ IF self = NULL
       THEN UNCHANGED <<connection, started_iterating>>
       ELSE /\ connection' = [connection EXCEPT ![self] = NULL]
            /\ started_iterating' = [started_iterating EXCEPT ![self] = fn = "hasNext"]
    /\ Return
    /\ UNCHANGED <<connVars, alive, cursor_id, dead, at, num, limit, cursor_list, srv>>

\* mongo_get_read_write_connection_with_callback
PickForCursor ==
    /\ pc = "pick" /\ self # NULL
    /\ \E a \in Candidates :
         /\ connection' = [connection EXCEPT ![self] = a]
         /\ cleanup_list' = [cleanup_list EXCEPT ![a][self] = @ + 1]
    /\ pc' = "query"
    /\ UNCHANGED <<self, fn, seed, pool, hash, server, socket, broken, alive, cursor_id,
                   started_iterating, dead, at, num, limit, cursor_list, srv>>

-----------------------------------------------------------------------------
(* MongoCollection: sending the write and its getLastError *)

\* Sent; the answer, an error in it, or its absence leave the connection in
\* the pool.  So does a failure to send without getLastError.
WriteDone ==
    /\ pc = "pick" /\ self = NULL /\ Candidates # {}
    /\ Return
    /\ UNCHANGED <<connVars, cursorVars, srv>>

\* do_safe_op could not send.
WriteSendFails ==
    /\ pc = "pick" /\ self = NULL
    /\ \E a \in Candidates \cap broken : Destroy({a}, {}, srv)
    /\ Return
    /\ UNCHANGED <<alive, cursor_id, started_iterating, at, num, limit, cursor_list>>

-----------------------------------------------------------------------------
(* mongo_cursor__do_query, from the connection on *)

\* After a failed doQuery hasNext still sets started_iterating.
QueryFailed ==
    /\ started_iterating' = [started_iterating EXCEPT ![self] = fn = "hasNext"]
    /\ Return

\* php_mongo_write_query throws on data that cannot be encoded.
QueryEncodeFails ==
    /\ pc = "query"
    /\ QueryFailed
    /\ UNCHANGED <<connVars, alive, connection, cursor_id, dead, at, num, limit,
                   cursor_list, srv>>

QuerySendFails ==
    /\ pc = "query" /\ connection[self] \in broken
    /\ Destroy({connection[self]}, {self}, srv)
    /\ QueryFailed
    /\ UNCHANGED <<alive, cursor_id, at, num, limit, cursor_list>>

\* get_cursor_header: total documents so far, within the bound.
HeaderRead(id, n) ==
    /\ num[self] + n <= MaxDocs
    /\ cursor_id' = [cursor_id EXCEPT ![self] = id]
    /\ num' = [num EXCEPT ![self] = @ + n]

\* The server answers with everything at once, or with a first batch and the
\* id of a cursor it keeps open; that id goes on the cursor list.
QueryReply ==
    /\ pc = "query" /\ connection[self] \notin broken
    /\ LET a == connection[self] IN
         \/ /\ \E n \in 0 .. MaxDocs : HeaderRead(0, n)
            /\ UNCHANGED <<cursor_list, srv>>
         \/ \E id \in CursorIds, n \in 0 .. MaxDocs :
              /\ srv[server[a]][id] = "fresh"
              /\ HeaderRead(id, n)
              /\ srv' = SetId(server[a], id, a)
              /\ cursor_list' = Noted(self, id)
    /\ started_iterating' = [started_iterating EXCEPT ![self] = TRUE]
    /\ pc' = "body"
    /\ UNCHANGED <<self, fn, seed, connVars, alive, connection, dead, at, limit>>

\* The reply does not come in time, is cut short, or belongs to another
\* request; its header may or may not have been read.
ReplyFails ==
    /\ \/ UNCHANGED <<cursor_id, num>>
       \/ \E id \in CursorIds \cup {0}, n \in 0 .. MaxDocs : HeaderRead(id, n)
    /\ UNCHANGED <<alive, at, limit, cursor_list>>

\* The server may have opened a cursor all the same.
QueryReplyFails ==
    /\ pc = "query"
    /\ LET a == connection[self] IN
         \/ Destroy({a}, {self}, srv)
         \/ \E id \in CursorIds :
              /\ srv[server[a]][id] = "fresh"
              /\ Destroy({a}, {self}, SetId(server[a], id, a))
    /\ ReplyFails
    /\ QueryFailed

-----------------------------------------------------------------------------
(* MongoCursor::hasNext and ::next once the query has been made *)

\* hasNext returns false or throws: next does not move.
Body(c) == pc = "body" /\ self = c
Stop == Return /\ UNCHANGED <<pool, hash, server, socket, broken, alive, connection,
                              started_iterating, dead, at, num, limit>>

\* Fault: one document too many.
LimitPassed(c) == limit[c] > 0 /\ at[c] > limit[c]

\* The limit() of the query has been handed out.
LimitReached(c) == limit[c] > 0 /\ at[c] >= limit[c]
NoMoreWanted(c) == LimitReached(c) \/ num[c] = 0

\* MONGO_CHECK_INITIALIZED(cursor->connection)
BodyUninitialized(c) ==
    /\ Body(c) /\ connection[c] = NULL
    /\ Stop
    /\ UNCHANGED <<cleanup_list, cursor_id, cursor_list, srv>>

\* The limit is reached or nothing was found: kill the server's cursor.
BodyDone(c) ==
    /\ Body(c) /\ connection[c] # NULL /\ NoMoreWanted(c)
    /\ IF cursor_id[c] # 0
       THEN /\ FreeLe(c, cursor_id[c])
            /\ cursor_id' = [cursor_id EXCEPT ![c] = IF OnList(c, @) THEN 0 ELSE @]
       ELSE UNCHANGED <<cleanup_list, cursor_list, srv, cursor_id>>
    /\ Stop

\* There is a document in the buffer; next consumes it, if it can be decoded.
Deliver(c) ==
    \/ UNCHANGED at
    \/ fn = "next" /\ at' = [at EXCEPT ![c] = @ + 1]

BodyHasDocument(c) ==
    /\ Body(c) /\ connection[c] # NULL /\ ~NoMoreWanted(c) /\ at[c] < num[c]
    /\ Deliver(c)
    /\ Return
    /\ UNCHANGED <<connVars, alive, connection, cursor_id, started_iterating, dead,
                   num, limit, cursor_list, srv>>

BodyExhausted(c) ==
    /\ Body(c) /\ connection[c] # NULL /\ ~NoMoreWanted(c) /\ at[c] >= num[c]
    /\ cursor_id[c] = 0
    /\ Stop
    /\ UNCHANGED <<cleanup_list, cursor_id, cursor_list, srv>>

BodyGetMore(c) ==
    /\ Body(c) /\ connection[c] # NULL /\ ~NoMoreWanted(c) /\ at[c] >= num[c]
    /\ cursor_id[c] # 0
    /\ pc' = "getmore"
    /\ UNCHANGED <<self, fn, seed, connVars, cursorVars, srv>>

GetMoreSendFails ==
    /\ pc = "getmore" /\ connection[self] \in broken
    /\ Destroy({connection[self]}, {self}, srv)
    /\ Return
    /\ UNCHANGED <<alive, cursor_id, started_iterating, at, num, limit, cursor_list>>

\* The batch that follows.  On the last one cursor_id is already 0 when
\* mongo_cursor_free_le looks for it.
GetMoreReply ==
    /\ pc = "getmore" /\ connection[self] \notin broken
    /\ LET s == server[connection[self]] IN
         /\ srv[s][cursor_id[self]] # "gone"
         /\ \/ /\ \E n \in 0 .. MaxDocs : HeaderRead(cursor_id[self], n)
               /\ UNCHANGED <<cleanup_list, cursor_list, srv>>
            \/ /\ \E n \in 0 .. MaxDocs : HeaderRead(0, n)
               /\ cleanup_list' = UnhookedByFreeLe(self)
               /\ cursor_list' = ListAfterFreeLe(self, 0)
               /\ srv' = SetId(s, cursor_id[self], "gone")
    /\ \/ at[self] >= num'[self] /\ UNCHANGED at
       \/ at[self] < num'[self] /\ Deliver(self)
    /\ Return
    /\ UNCHANGED <<pool, hash, server, socket, broken, alive, connection,
                   started_iterating, dead, limit>>

\* "cursor not found": the server has timed the cursor out.
GetMoreNotFound ==
    /\ pc = "getmore" /\ connection[self] \notin broken
    /\ srv[server[connection[self]]][cursor_id[self]] = "gone"
    /\ HeaderRead(0, 0)
    /\ FreeLe(self, 0)
    /\ Return
    /\ UNCHANGED <<pool, hash, server, socket, broken, alive, connection,
                   started_iterating, dead, at, limit>>

GetMoreReplyFails ==
    /\ pc = "getmore"
    /\ LET a == connection[self] IN
         \/ Destroy({a}, {self}, srv)
         \/ Destroy({a}, {self}, SetId(server[a], cursor_id[self], "gone"))
    /\ ReplyFails
    /\ Return
    /\ UNCHANGED started_iterating

-----------------------------------------------------------------------------
(* MongoClient::close *)

\* close() and close($hash)
CloseOne ==
    /\ pc = "idle"
    /\ \E a \in pool : Destroy({a}, {}, srv)
    /\ UNCHANGED <<alive, cursor_id, started_iterating, at, num, limit, cursor_list,
                   callVars>>

\* close(true)
CloseAll ==
    /\ pc = "idle" /\ pool # {}
    /\ Destroy(pool, {}, srv)
    /\ UNCHANGED <<alive, cursor_id, started_iterating, at, num, limit, cursor_list,
                   callVars>>

-----------------------------------------------------------------------------
(* The environment *)

\* The peer goes away or the network fails; the client has not noticed.
Break(a) ==
    /\ a \in pool \ broken
    /\ broken' = broken \cup {a}
    /\ UNCHANGED <<pool, hash, server, socket, cleanup_list, cursorVars, srv, callVars>>

\* A server times out an open cursor, or restarts.
Expire(s, id) ==
    /\ srv[s][id] \notin {"fresh", "gone"}
    /\ srv' = SetId(s, id, "gone")
    /\ UNCHANGED <<connVars, cursorVars, callVars>>

\* The worker is killed or faults, at any point, and a new one starts with
\* empty memory.  This is also the other outcome of the reads of a freed
\* connection in BeginQuery and FreeCursor.
WorkerDies ==
    /\ pool # {} \/ alive # {}
    /\ pool' = {} /\ broken' = {}
    /\ cleanup_list' = [a \in Conns |-> NoCallbacks]
    /\ alive' = {} /\ cursor_list' = {}
    /\ connection' = [c \in Cursors |-> NULL]
    /\ cursor_id' = [c \in Cursors |-> 0]
    /\ started_iterating' = [c \in Cursors |-> FALSE]
    /\ dead' = [c \in Cursors |-> FALSE]
    /\ at' = [c \in Cursors |-> 0] /\ num' = [c \in Cursors |-> 0]
    /\ limit' = [c \in Cursors |-> 0]
    /\ srv' = Orphaned(Conns, srv)
    /\ Return
    /\ UNCHANGED <<hash, server, socket>>

-----------------------------------------------------------------------------

\* The steps of a call in progress.
Step ==
    \/ SeedIsConnected \/ SeedPingFails \/ SeedConnects \/ SeedConnectFails
    \/ PickFails \/ PickForCursor \/ WriteDone \/ WriteSendFails
    \/ QueryEncodeFails \/ QuerySendFails \/ QueryReply \/ QueryReplyFails
    \/ \E c \in Cursors :
         \/ BodyUninitialized(c) \/ BodyDone(c) \/ BodyHasDocument(c)
         \/ BodyExhausted(c) \/ BodyGetMore(c)
    \/ GetMoreSendFails \/ GetMoreReply \/ GetMoreNotFound \/ GetMoreReplyFails

\* The calls a script can make between two others.
Call ==
    \/ \E c \in Cursors :
         \/ NewCursor(c) \/ FreeCursor(c) \/ CallReset(c)
         \/ CallHasNext(c) \/ CallNext(c) \/ CallRewind(c)
    \/ CallWrite \/ CloseOne \/ CloseAll

Environment ==
    \/ \E a \in Conns : Break(a)
    \/ \E s \in Servers, id \in CursorIds : Expire(s, id)
    \/ WorkerDies

Next == Step \/ Call \/ Environment

Spec == Init /\ [][Next]_vars

\* Every network step ends: it is bounded by a timeout.
FairSpec == Spec /\ WF_vars(Step)
-----------------------------------------------------------------------------
(* Properties *)

\* The list of a connection holds only MongoCursor objects that exist and
\* point back to it, each once: when the connection is destroyed,
\* mongo_cursor_mark_dead writes to no freed object, and a destroyed or
\* re-queried cursor left no entry behind on any of its earlier connections.
CallbacksAreSound ==
    \A a \in Conns, c \in Cursors : cleanup_list[a][c] > 0 =>
        /\ cleanup_list[a][c] = 1
        /\ a \in pool
        /\ c \in alive
        /\ connection[c] = a

\* The cursor may fetch more: it has an id and a connection.
HasSession(c) == c \in alive /\ cursor_id[c] # 0 /\ connection[c] # NULL

\* Whoever may fetch more does so on an allocated connection, hears of its
\* destruction, and is on the cursor list, so that it can be killed.
SessionsAreSound ==
    \A c \in Cursors : HasSession(c) =>
        /\ connection[c] \in pool
        /\ cleanup_list[connection[c]][c] = 1
        /\ OnList(c, cursor_id[c])

\* Every cursor a server keeps open for a working connection belongs to a
\* MongoCursor that will fetch from it or kill it: none is forgotten by a
\* reset, a new query, a reached limit or the destruction of the object.
NoForgottenServerCursor ==
    \A s \in Servers, id \in CursorIds : srv[s][id] \in pool \ broken =>
        \E c \in alive : cursor_id[c] = id /\ connection[c] = srv[s][id]

\* The connection's hash and the id a cursor would fetch with, for the abstract view.
SessionOf(c) ==
    IF HasSession(c) THEN <<hash[connection[c]], cursor_id[c]>> ELSE NULL

\* The driver never closes a server's cursor under a MongoCursor that goes on
\* to use it: OP_KILL_CURSORS reaches only the session that ends.  (A server
\* may time a cursor out by itself.)
OnlyEndedSessionsAreKilled ==
    [][\A c \in Cursors :
         SessionOf(c) # NULL /\ SessionOf(c)' = SessionOf(c) =>
           LET s == server[connection[c]] IN
           \/ srv'[s][cursor_id[c]] = srv[s][cursor_id[c]]
           \/ \E id \in CursorIds : Expire(s, id)]_vars

(* Why these hold: the parts of the inductive invariant that no run needs to
   check by themselves. *)

\* What the call in progress may rely on at each of its steps.
CallInv ==
    /\ \A c \in Cursors \ alive : connection[c] = NULL /\ cursor_id[c] = 0
    /\ pc \in {"query", "body", "getmore"} => self \in alive
    /\ pc \in {"seeds", "pick"} /\ self # NULL =>
         /\ self \in alive
         /\ cursor_id[self] = 0
         /\ \A a \in Conns : cleanup_list[a][self] = 0
    /\ pc = "query" =>
         /\ cursor_id[self] = 0
         /\ connection[self] \in pool
         /\ cleanup_list[connection[self]][self] = 1
    /\ pc = "getmore" => HasSession(self)

\* A hash or a socket names one connection, which leads where the hash says.
PoolInv ==
    /\ \A a, b \in pool : a # b => hash[a] # hash[b] /\ socket[a] # socket[b]
    /\ \A a \in pool : server[a] = ServerOf[hash[a]]

\* What the servers know agrees with what the cursors know.
ServerInv ==
    /\ \A s \in Servers, id \in CursorIds : srv[s][id] \in Conns =>
         srv[s][id] \in pool /\ server[srv[s][id]] = s
    /\ \A c \in Cursors : HasSession(c) =>
         srv[server[connection[c]]][cursor_id[c]] \in {connection[c], "gone"}
    /\ \A c, d \in Cursors :
         /\ c # d
         /\ HasSession(c) /\ HasSession(d)
         /\ server[connection[c]] = server[connection[d]]
         => cursor_id[c] # cursor_id[d]

CoreInv ==
    /\ CallbacksAreSound
    /\ SessionsAreSound
    /\ NoForgottenServerCursor
    /\ PoolInv
    /\ ServerInv

IInv == TypeOK /\ CallInv /\ CoreInv

\* A cursor hands out at most limit() documents per query.
LimitIsRespected == \A c \in alive : limit[c] > 0 => at[c] <= limit[c]

\* Why: whoever asks for more has looked at the limit before.
LimitInv ==
    /\ \A c \in Cursors : limit[c] > 0 => at[c] <= limit[c]
    /\ pc = "getmore" => ~LimitReached(self)

\* What cursors do is what CursorSessions promises.
Sessions == INSTANCE CursorSessions WITH
    NoSession <- NULL,
    Links     <- Hashes,
    session   <- [c \in Cursors |-> SessionOf(c)],
    issued    <- {p \in Servers \X CursorIds : srv[p[1]][p[2]] # "fresh"}

ImplementsSessions == Sessions!Spec

\* Every call comes back, whatever fails on the way.
EveryCallReturns == pc # "idle" ~> pc = "idle"

(* Statements of the sources that the code does not keep *)

\* php_mongo.h: "server just points to a member of link, so it should never
\* need to be freed".  Between two calls, that is.
ConnectionIsAllocated ==
    pc = "idle" => \A c \in alive : connection[c] # NULL => connection[c] \in pool

\* php_mongo.h: "If cursor_id != 0, server is set to the server that was
\* queried".
OpenCursorHasServer ==
    \A c \in alive : cursor_id[c] # 0 => connection[c] # NULL

\* cursor.c: "the connection has been terminated, and this cursor is dead".
DeadMeansTerminated == \A c \in alive : dead[c] => connection[c] = NULL
=============================================================================
