------------------------ MODULE CursorLifecycleProof -----------------------
(***************************************************************************)
(* Proofs of the safety invariants of CursorLifecycle, for any number of   *)
(* servers, seeds, connections, sockets and cursors.                       *)
(*                                                                         *)
(* The invariant is IInv == TypeOK /\ CallInv /\ CoreInv.  TypeOK is shown *)
(* action by action; so is CoreInv, but most actions do one of two things  *)
(* to it: they destroy connections (DestroyCore) or close the session of   *)
(* one cursor (ReleaseCore).  CallInv says what the next step of the call  *)
(* in progress relies on.                                                  *)
(***************************************************************************)
EXTENDS CursorLifecycle, TLAPS

\* mongo_deregister_callback_from_connection leaves callback lists.
LEMMA UnhookType ==
  ASSUME NEW cl \in [Conns -> [Cursors -> Nat]], NEW a \in Conns, NEW c \in Cursors
  PROVE  Unhook(cl, a, c) \in [Conns -> [Cursors -> Nat]]
BY DEF Unhook

\* A server that opens or closes a cursor leaves a state for every id.
LEMMA SetIdType ==
  ASSUME TypeOK, NEW s \in Servers, NEW id \in CursorIds, NEW x \in IdStates
  PROVE  SetId(s, id, x) \in [Servers -> [CursorIds -> IdStates]]
BY DEF TypeOK, SetId

\* mongo_cursor_free_le leaves callback lists, nodes and server states.
LEMMA FreeLeType ==
  ASSUME TypeOK, ConstantsAssumption, NEW c \in Cursors, NEW id \in CursorIds \cup {0}
  PROVE  /\ UnhookedByFreeLe(c) \in [Conns -> [Cursors -> Nat]]
         /\ ListAfterFreeLe(c, id) \subseteq CursorIds \X Sockets
         /\ ServersAfterFreeLe(c, id) \in [Servers -> [CursorIds -> IdStates]]
<1>1. UnhookedByFreeLe(c) \in [Conns -> [Cursors -> Nat]]
  <2>1. CASE connection[c] # NULL
    <3>1. connection[c] \in Conns
      BY <2>1 DEF TypeOK
    <3> QED BY <3>1, UnhookType DEF UnhookedByFreeLe, TypeOK
  <2>2. CASE connection[c] = NULL
    BY <2>2 DEF UnhookedByFreeLe, TypeOK
  <2> QED BY <2>1, <2>2
<1>2. ListAfterFreeLe(c, id) \subseteq CursorIds \X Sockets
  BY DEF ListAfterFreeLe, TypeOK
<1>3. ServersAfterFreeLe(c, id) \in [Servers -> [CursorIds -> IdStates]]
  <2>1. CASE OnList(c, id)
    <3>1. /\ connection[c] \in Conns
          /\ id \in CursorIds
      BY <2>1 DEF OnList, Node, TypeOK
    <3>2. server[connection[c]] \in Servers /\ "gone" \in IdStates
      BY <3>1 DEF TypeOK, IdStates
    <3> QED BY <3>1, <3>2, SetIdType DEF ServersAfterFreeLe, TypeOK
  <2>2. CASE ~OnList(c, id)
    BY <2>2 DEF ServersAfterFreeLe, TypeOK
  <2> QED BY <2>1, <2>2
<1> QED BY <1>1, <1>2, <1>3

\* The same of a step that calls mongo_cursor_free_le.
LEMMA FreeLeStepType ==
  ASSUME TypeOK, ConstantsAssumption, NEW c \in Cursors,
         NEW id \in CursorIds \cup {0}, FreeLe(c, id)
  PROVE  /\ cleanup_list' \in [Conns -> [Cursors -> Nat]]
         /\ cursor_list' \subseteq CursorIds \X Sockets
         /\ srv' \in [Servers -> [CursorIds -> IdStates]]
BY FreeLeType DEF FreeLe

\* mongo_connection_destroy, whoever calls it, keeps the types of what it touches.
LEMMA DestroyType ==
  ASSUME TypeOK, NEW D, NEW F, D \subseteq pool,
         NEW f \in [Servers -> [CursorIds -> IdStates]],
         Destroy(D, F, f)
  PROVE  /\ pool' \subseteq Conns
         /\ hash' \in [Conns -> Hashes]
         /\ server' \in [Conns -> Servers]
         /\ socket' \in [Conns -> Sockets]
         /\ cleanup_list' \in [Conns -> [Cursors -> Nat]]
         /\ broken' \subseteq pool'
         /\ connection' \in [Cursors -> Conns \cup {NULL}]
         /\ dead' \in [Cursors -> BOOLEAN]
         /\ srv' \in [Servers -> [CursorIds -> IdStates]]
<1>1. srv' \in [Servers -> [CursorIds -> IdStates]]
  BY DEF Destroy, Orphaned, IdStates
<1>2. cleanup_list' \in [Conns -> [Cursors -> Nat]]
  BY DEF Destroy, NoCallbacks, TypeOK
<1>3. connection' \in [Cursors -> Conns \cup {NULL}]
  BY DEF Destroy, TypeOK
<1>4. dead' \in [Cursors -> BOOLEAN]
  <2> DEFINE P(c) == dead[c] \/ c \in HasCallbackOn(D) \cup F
  <2>1. dead' = [c \in Cursors |-> P(c)]
    BY DEF Destroy
  <2>2. \A c \in Cursors : P(c) \in BOOLEAN
    OBVIOUS
  <2> HIDE DEF P
  <2> QED BY <2>1, <2>2
<1>5. /\ pool' \subseteq Conns
      /\ hash' \in [Conns -> Hashes]
      /\ server' \in [Conns -> Servers]
      /\ socket' \in [Conns -> Sockets]
      /\ broken' \subseteq pool'
  BY DEF Destroy, TypeOK
<1> QED BY <1>1, <1>2, <1>3, <1>4, <1>5

-----------------------------------------------------------------------------
(* Type correctness, action by action *)

\* A call that returns leaves the call variables well typed.
LEMMA ReturnType ==
  ASSUME ConstantsAssumption, Return
  PROVE  /\ pc' \in {"idle", "seeds", "pick", "query", "body", "getmore"}
         /\ self' \in Cursors \cup {NULL}
         /\ fn' \in {"hasNext", "next", "write"}
         /\ seed' \in 1 .. Len(Seeds)
BY DEF Return, ConstantsAssumption

\* So does a call that begins.
LEMMA EnterType ==
  ASSUME ConstantsAssumption, NEW w \in {"seeds", "body"},
         NEW c \in Cursors \cup {NULL}, NEW f \in {"hasNext", "next", "write"},
         Enter(w, c, f)
  PROVE  /\ pc' \in {"idle", "seeds", "pick", "query", "body", "getmore"}
         /\ self' \in Cursors \cup {NULL}
         /\ fn' \in {"hasNext", "next", "write"}
         /\ seed' \in 1 .. Len(Seeds)
BY DEF Enter, ConstantsAssumption

\* The loop of mongo_get_connection_multiple stays within servers->server[].
LEMMA NextSeedType ==
  ASSUME ConstantsAssumption, TypeOK, NextSeed
  PROVE  /\ pc' \in {"idle", "seeds", "pick", "query", "body", "getmore"}
         /\ self' \in Cursors \cup {NULL}
         /\ fn' \in {"hasNext", "next", "write"}
         /\ seed' \in 1 .. Len(Seeds)
BY DEF NextSeed, ConstantsAssumption, TypeOK

\* mongo_util_cursor_reset keeps the types of the fields it clears.
LEMMA ResetFieldsType ==
  ASSUME TypeOK, NEW c \in Cursors, ResetFields(c)
  PROVE  /\ cursor_id' \in [Cursors -> CursorIds \cup {0}]
         /\ started_iterating' \in [Cursors -> BOOLEAN]
         /\ at' \in [Cursors -> Nat]
         /\ num' \in [Cursors -> Nat]
BY DEF ResetFields, TypeOK

\* new MongoCursor keeps every type.
LEMMA NewCursorType ==
  ASSUME ConstantsAssumption, TypeOK, NEW c \in Cursors, NewCursor(c)
  PROVE  TypeOK'
<1>1. /\ cursor_id' \in [Cursors -> CursorIds \cup {0}]
      /\ started_iterating' \in [Cursors -> BOOLEAN]
      /\ at' \in [Cursors -> Nat]
      /\ num' \in [Cursors -> Nat]
  BY ResetFieldsType DEF NewCursor
<1>2. /\ alive' \subseteq Cursors
      /\ connection' \in [Cursors -> Conns \cup {NULL}]
      /\ dead' \in [Cursors -> BOOLEAN]
      /\ limit' \in [Cursors -> Limits \cup {0}]
  BY DEF NewCursor, TypeOK
<1> QED BY <1>1, <1>2 DEF NewCursor, TypeOK, connVars, callVars

\* php_mongo_cursor_free keeps every type, with or without a server cursor.
LEMMA FreeCursorType ==
  ASSUME ConstantsAssumption, TypeOK, NEW c \in Cursors, FreeCursor(c)
  PROVE  TypeOK'
<1>1. /\ cursor_id' \in [Cursors -> CursorIds \cup {0}]
      /\ started_iterating' \in [Cursors -> BOOLEAN]
      /\ at' \in [Cursors -> Nat]
      /\ num' \in [Cursors -> Nat]
  BY ResetFieldsType DEF FreeCursor
<1>2. /\ alive' \subseteq Cursors
      /\ connection' \in [Cursors -> Conns \cup {NULL}]
      /\ dead' \in [Cursors -> BOOLEAN]
      /\ limit' \in [Cursors -> Limits \cup {0}]
  BY DEF FreeCursor, TypeOK
<1>3. /\ cleanup_list' \in [Conns -> [Cursors -> Nat]]
      /\ cursor_list' \subseteq CursorIds \X Sockets
      /\ srv' \in [Servers -> [CursorIds -> IdStates]]
  <2>0. cursor_id[c] \in CursorIds \cup {0}
    BY DEF TypeOK
  <2>1. CASE cursor_id[c] # 0
    <3>1. FreeLe(c, cursor_id[c])
      BY <2>1 DEF FreeCursor
    <3> QED BY <2>0, <3>1, FreeLeStepType
  <2>2. CASE cursor_id[c] = 0 /\ connection[c] # NULL
    <3>1. connection[c] \in Conns
      BY <2>2 DEF TypeOK
    <3>2. /\ cleanup_list' = Unhook(cleanup_list, connection[c], c)
          /\ UNCHANGED <<cursor_list, srv>>
      BY <2>2 DEF FreeCursor
    <3>3. cleanup_list' \in [Conns -> [Cursors -> Nat]]
      BY <3>1, <3>2, UnhookType DEF TypeOK
    <3> QED BY <3>2, <3>3 DEF TypeOK
  <2>3. CASE cursor_id[c] = 0 /\ connection[c] = NULL
    BY <2>3 DEF FreeCursor, TypeOK
  <2> QED BY <2>1, <2>2, <2>3
<1> QED BY <1>1, <1>2, <1>3 DEF FreeCursor, TypeOK, callVars

\* MongoCursor::reset keeps every type.
LEMMA CallResetType ==
  ASSUME ConstantsAssumption, TypeOK, NEW c \in Cursors, CallReset(c)
  PROVE  TypeOK'
<1>1. /\ cursor_id' \in [Cursors -> CursorIds \cup {0}]
      /\ started_iterating' \in [Cursors -> BOOLEAN]
      /\ at' \in [Cursors -> Nat]
      /\ num' \in [Cursors -> Nat]
  BY ResetFieldsType DEF CallReset, Reset
<1>2. /\ cleanup_list' \in [Conns -> [Cursors -> Nat]]
      /\ cursor_list' \subseteq CursorIds \X Sockets
      /\ srv' \in [Servers -> [CursorIds -> IdStates]]
  <2>0. cursor_id[c] \in CursorIds \cup {0}
    BY DEF TypeOK
  <2>1. CASE cursor_id[c] # 0
    <3>1. FreeLe(c, cursor_id[c])
      BY <2>1 DEF CallReset, Reset
    <3> QED BY <2>0, <3>1, FreeLeStepType
  <2>2. CASE cursor_id[c] = 0
    BY <2>2 DEF CallReset, Reset, TypeOK
  <2> QED BY <2>1, <2>2
<1> QED BY <1>1, <1>2 DEF CallReset, TypeOK, callVars

\* doQuery up to the choice of a connection keeps every type.
LEMMA BeginQueryType ==
  ASSUME ConstantsAssumption, TypeOK, NEW c \in Cursors,
         NEW f \in {"hasNext", "next"}, BeginQuery(c, f)
  PROVE  TypeOK'
<1>1. /\ cursor_id' \in [Cursors -> CursorIds \cup {0}]
      /\ started_iterating' \in [Cursors -> BOOLEAN]
      /\ at' \in [Cursors -> Nat]
      /\ num' \in [Cursors -> Nat]
  BY ResetFieldsType DEF BeginQuery
<1>2. cursor_id[c] \in CursorIds \cup {0}
  BY DEF TypeOK
<1>3. cleanup_list' \in [Conns -> [Cursors -> Nat]]
  <2> DEFINE cl == IF cursor_id[c] # 0 THEN UnhookedByFreeLe(c) ELSE cleanup_list
  <2>1. cl \in [Conns -> [Cursors -> Nat]]
    BY <1>2, FreeLeType DEF TypeOK
  <2>2. cleanup_list' = IF connection[c] # NULL THEN Unhook(cl, connection[c], c) ELSE cl
    BY DEF BeginQuery
  <2> HIDE DEF cl
  <2>3. connection[c] # NULL => connection[c] \in Conns
    BY DEF TypeOK
  <2> QED BY <2>1, <2>2, <2>3, UnhookType
<1>4. /\ cursor_list' \subseteq CursorIds \X Sockets
      /\ srv' \in [Servers -> [CursorIds -> IdStates]]
  <2>1. CASE cursor_id[c] # 0
    <3>1. /\ cursor_list' = ListAfterFreeLe(c, cursor_id[c])
          /\ srv' = ServersAfterFreeLe(c, cursor_id[c])
      BY <2>1 DEF BeginQuery
    <3> QED BY <1>2, <3>1, FreeLeType
  <2>2. CASE cursor_id[c] = 0
    BY <2>2 DEF BeginQuery, TypeOK
  <2> QED BY <2>1, <2>2
<1>5. /\ pc' \in {"idle", "seeds", "pick", "query", "body", "getmore"}
      /\ self' \in Cursors \cup {NULL}
      /\ fn' \in {"hasNext", "next", "write"}
      /\ seed' \in 1 .. Len(Seeds)
  BY EnterType DEF BeginQuery
<1> QED BY <1>1, <1>3, <1>4, <1>5 DEF BeginQuery, TypeOK

\* hasNext and next keep every type as they begin.
LEMMA IterateType ==
  ASSUME ConstantsAssumption, TypeOK, NEW c \in Cursors,
         NEW f \in {"hasNext", "next"}, Iterate(c, f)
  PROVE  TypeOK'
<1>1. CASE BeginQuery(c, f)
  BY <1>1, BeginQueryType
<1>2. CASE ContinueIteration(c, f)
  <2>1. /\ pc' \in {"idle", "seeds", "pick", "query", "body", "getmore"}
        /\ self' \in Cursors \cup {NULL}
        /\ fn' \in {"hasNext", "next", "write"}
        /\ seed' \in 1 .. Len(Seeds)
    BY <1>2, EnterType DEF ContinueIteration
  <2> QED BY <1>2, <2>1 DEF ContinueIteration, TypeOK, connVars, cursorVars
<1> QED BY <1>1, <1>2 DEF Iterate

\* A write keeps every type as it begins.
LEMMA CallWriteType ==
  ASSUME ConstantsAssumption, TypeOK, CallWrite
  PROVE  TypeOK'
<1>1. /\ pc' \in {"idle", "seeds", "pick", "query", "body", "getmore"}
      /\ self' \in Cursors \cup {NULL}
      /\ fn' \in {"hasNext", "next", "write"}
      /\ seed' \in 1 .. Len(Seeds)
  BY EnterType DEF CallWrite
<1> QED BY <1>1 DEF CallWrite, TypeOK, connVars, cursorVars

\* A seed that answers its ping keeps every type.
LEMMA SeedIsConnectedType ==
  ASSUME ConstantsAssumption, TypeOK, SeedIsConnected
  PROVE  TypeOK'
BY NextSeedType DEF SeedIsConnected, TypeOK, connVars, cursorVars

\* Destroying the connection of a seed that does not keeps every type.
LEMMA SeedPingFailsType ==
  ASSUME ConstantsAssumption, TypeOK, SeedPingFails
  PROVE  TypeOK'
<1>1. PICK a \in FindByHash(Seeds[seed]) : Destroy({a}, {}, srv)
  BY DEF SeedPingFails
<1>2. {a} \subseteq pool
  BY <1>1 DEF FindByHash
<1>3. srv \in [Servers -> [CursorIds -> IdStates]]
  BY DEF TypeOK
<1>4. NextSeed
  BY DEF SeedPingFails
<1> QED BY <1>1, <1>2, <1>3, <1>4, DestroyType, NextSeedType DEF SeedPingFails, TypeOK

\* Registering a new connection keeps every type.
LEMMA SeedConnectsType ==
  ASSUME ConstantsAssumption, TypeOK, SeedConnects
  PROVE  TypeOK'
<1>1. PICK a \in Conns \ pool, k \in Sockets :
         /\ pool' = pool \cup {a}
         /\ hash' = [hash EXCEPT ![a] = Seeds[seed]]
         /\ server' = [server EXCEPT ![a] = ServerOf[Seeds[seed]]]
         /\ socket' = [socket EXCEPT ![a] = k]
         /\ cleanup_list' = [cleanup_list EXCEPT ![a] = NoCallbacks]
  BY DEF SeedConnects
<1>2. Seeds[seed] \in Hashes /\ ServerOf[Seeds[seed]] \in Servers
  BY DEF TypeOK, ConstantsAssumption
<1>3. NoCallbacks \in [Cursors -> Nat]
  BY DEF NoCallbacks
<1>4. /\ pool' \subseteq Conns
      /\ hash' \in [Conns -> Hashes]
      /\ server' \in [Conns -> Servers]
      /\ socket' \in [Conns -> Sockets]
      /\ cleanup_list' \in [Conns -> [Cursors -> Nat]]
  BY <1>1, <1>2, <1>3 DEF TypeOK
<1>5. broken' \subseteq pool'
  BY <1>1 DEF TypeOK, SeedConnects
<1> QED BY <1>4, <1>5, NextSeedType DEF SeedConnects, TypeOK, cursorVars

\* Failing to connect a seed keeps every type.
LEMMA SeedConnectFailsType ==
  ASSUME ConstantsAssumption, TypeOK, SeedConnectFails
  PROVE  TypeOK'
BY NextSeedType DEF SeedConnectFails, TypeOK, connVars, cursorVars

\* Finding no candidate server keeps every type.
LEMMA PickFailsType ==
  ASSUME ConstantsAssumption, TypeOK, PickFails
  PROVE  TypeOK'
<1>1. /\ connection' \in [Cursors -> Conns \cup {NULL}]
      /\ started_iterating' \in [Cursors -> BOOLEAN]
  BY DEF PickFails, TypeOK
<1> QED BY <1>1, ReturnType DEF PickFails, TypeOK, connVars

\* Hooking the cursor to the picked connection keeps every type.
LEMMA PickForCursorType ==
  ASSUME ConstantsAssumption, TypeOK, PickForCursor
  PROVE  TypeOK'
<1>1. PICK a \in Candidates :
         /\ connection' = [connection EXCEPT ![self] = a]
         /\ cleanup_list' = [cleanup_list EXCEPT ![a][self] = @ + 1]
  BY DEF PickForCursor
<1>2. a \in Conns /\ self \in Cursors
  BY <1>1 DEF Candidates, TypeOK, PickForCursor
<1>3. connection' \in [Cursors -> Conns \cup {NULL}]
  BY <1>1, <1>2 DEF TypeOK
<1>4. cleanup_list' \in [Conns -> [Cursors -> Nat]]
  BY <1>1, <1>2 DEF TypeOK
<1> QED BY <1>3, <1>4 DEF PickForCursor, TypeOK

\* A write that was sent keeps every type.
LEMMA WriteDoneType ==
  ASSUME ConstantsAssumption, TypeOK, WriteDone
  PROVE  TypeOK'
BY ReturnType DEF WriteDone, TypeOK, connVars, cursorVars

\* do_safe_op failing to send keeps every type.
LEMMA WriteSendFailsType ==
  ASSUME ConstantsAssumption, TypeOK, WriteSendFails
  PROVE  TypeOK'
<1>1. PICK a \in Candidates \cap broken : Destroy({a}, {}, srv)
  BY DEF WriteSendFails
<1>2. {a} \subseteq pool
  BY <1>1 DEF Candidates
<1>3. srv \in [Servers -> [CursorIds -> IdStates]]
  BY DEF TypeOK
<1>4. Return
  BY DEF WriteSendFails
<1> QED BY <1>1, <1>2, <1>3, <1>4, DestroyType, ReturnType DEF WriteSendFails, TypeOK

\* A failed query leaves a Boolean started_iterating and returns.
LEMMA QueryFailedType ==
  ASSUME ConstantsAssumption, TypeOK, QueryFailed
  PROVE  /\ started_iterating' \in [Cursors -> BOOLEAN]
         /\ pc' \in {"idle", "seeds", "pick", "query", "body", "getmore"}
         /\ self' \in Cursors \cup {NULL}
         /\ fn' \in {"hasNext", "next", "write"}
         /\ seed' \in 1 .. Len(Seeds)
<1>1. started_iterating' \in [Cursors -> BOOLEAN]
  BY DEF QueryFailed, TypeOK
<1> QED BY <1>1, ReturnType DEF QueryFailed

\* php_mongo_write_query throwing keeps every type.
LEMMA QueryEncodeFailsType ==
  ASSUME ConstantsAssumption, TypeOK, QueryEncodeFails
  PROVE  TypeOK'
BY QueryFailedType DEF QueryEncodeFails, TypeOK, connVars

\* A query that could not be sent keeps every type.
LEMMA QuerySendFailsType ==
  ASSUME ConstantsAssumption, TypeOK, QuerySendFails
  PROVE  TypeOK'
<1>1. Destroy({connection[self]}, {self}, srv) /\ QueryFailed
  BY DEF QuerySendFails
<1>2. {connection[self]} \subseteq pool
  BY DEF QuerySendFails, TypeOK
<1>3. srv \in [Servers -> [CursorIds -> IdStates]]
  BY DEF TypeOK
<1> QED BY <1>1, <1>2, <1>3, DestroyType, QueryFailedType DEF QuerySendFails, TypeOK

\* get_cursor_header reads a cursor id and a count.
LEMMA HeaderReadType ==
  ASSUME ConstantsAssumption, TypeOK, NEW id \in CursorIds \cup {0},
         NEW n \in 0 .. MaxDocs, HeaderRead(id, n)
  PROVE  /\ cursor_id' \in [Cursors -> CursorIds \cup {0}]
         /\ num' \in [Cursors -> Nat]
<1>1. n \in Nat
  BY DEF ConstantsAssumption
<1>2. cursor_id' \in [Cursors -> CursorIds \cup {0}]
  BY DEF HeaderRead, TypeOK
<1>3. num' \in [Cursors -> Nat]
  <2>1. num' = [num EXCEPT ![self] = num[self] + n]
    BY DEF HeaderRead
  <2>2. num \in [Cursors -> Nat]
    BY DEF TypeOK
  <2>3. CASE self \in Cursors
    BY <1>1, <2>1, <2>2, <2>3
  <2>4. CASE self \notin Cursors
    BY <2>1, <2>2, <2>4
  <2> QED BY <2>3, <2>4
<1> QED BY <1>2, <1>3

\* So does a reply that fails, before or after its header.
LEMMA ReplyFailsType ==
  ASSUME ConstantsAssumption, TypeOK, ReplyFails
  PROVE  /\ cursor_id' \in [Cursors -> CursorIds \cup {0}]
         /\ num' \in [Cursors -> Nat]
         /\ alive' \subseteq Cursors
         /\ at' \in [Cursors -> Nat]
         /\ limit' \in [Cursors -> Limits \cup {0}]
         /\ cursor_list' \subseteq CursorIds \X Sockets
<1>1. CASE UNCHANGED <<cursor_id, num>>
  BY <1>1 DEF ReplyFails, TypeOK
<1>2. CASE \E id \in CursorIds \cup {0}, n \in 0 .. MaxDocs : HeaderRead(id, n)
  <2>1. /\ cursor_id' \in [Cursors -> CursorIds \cup {0}]
        /\ num' \in [Cursors -> Nat]
    BY <1>2, HeaderReadType
  <2> QED BY <2>1 DEF ReplyFails, TypeOK
<1> QED BY <1>1, <1>2 DEF ReplyFails

\* The first batch keeps every type, the new node of cursor_list included.
LEMMA QueryReplyType ==
  ASSUME ConstantsAssumption, TypeOK, CallInv, QueryReply
  PROVE  TypeOK'
<1> DEFINE a == connection[self]
<1>1. self \in Cursors /\ a \in Conns /\ server[a] \in Servers /\ socket[a] \in Sockets
  BY DEF QueryReply, CallInv, TypeOK
<1>2. a \in IdStates
  BY <1>1 DEF IdStates
<1>3. started_iterating' \in [Cursors -> BOOLEAN]
  BY DEF QueryReply, TypeOK
<1>4. /\ cursor_id' \in [Cursors -> CursorIds \cup {0}]
      /\ num' \in [Cursors -> Nat]
      /\ cursor_list' \subseteq CursorIds \X Sockets
      /\ srv' \in [Servers -> [CursorIds -> IdStates]]
  <2>1. CASE (\E n \in 0 .. MaxDocs : HeaderRead(0, n)) /\ UNCHANGED <<cursor_list, srv>>
    BY <2>1, HeaderReadType DEF TypeOK
  <2>2. ASSUME NEW id \in CursorIds, NEW n \in 0 .. MaxDocs,
               HeaderRead(id, n),
               srv' = SetId(server[a], id, a),
               cursor_list' = Noted(self, id)
        PROVE  <1>4
    <3>1. srv' \in [Servers -> [CursorIds -> IdStates]]
      BY <1>1, <1>2, <2>2, SetIdType
    <3>2. cursor_list' \subseteq CursorIds \X Sockets
      BY <1>1, <2>2 DEF Noted, Node, TypeOK
    <3> QED BY <2>2, <3>1, <3>2, HeaderReadType
  <2> QED BY <2>1, <2>2 DEF QueryReply
<1> QED BY <1>3, <1>4 DEF QueryReply, TypeOK, connVars

\* A failed reply to a query keeps every type.
LEMMA QueryReplyFailsType ==
  ASSUME ConstantsAssumption, TypeOK, CallInv, QueryReplyFails
  PROVE  TypeOK'
<1> DEFINE a == connection[self]
<1>1. {a} \subseteq pool /\ a \in Conns /\ server[a] \in Servers /\ a \in IdStates
  BY DEF QueryReplyFails, CallInv, TypeOK, IdStates
<1>2. PICK f \in [Servers -> [CursorIds -> IdStates]] : Destroy({a}, {self}, f)
  <2>1. srv \in [Servers -> [CursorIds -> IdStates]]
    BY DEF TypeOK
  <2>2. \A id \in CursorIds :
          SetId(server[a], id, a) \in [Servers -> [CursorIds -> IdStates]]
    BY <1>1, SetIdType
  <2>3. \/ Destroy({a}, {self}, srv)
        \/ \E id \in CursorIds : Destroy({a}, {self}, SetId(server[a], id, a))
    BY DEF QueryReplyFails
  <2> HIDE DEF a
  <2> QED BY <2>1, <2>2, <2>3
<1>3. ReplyFails /\ QueryFailed
  BY DEF QueryReplyFails
<1> HIDE DEF a
<1> QED BY <1>1, <1>2, <1>3, DestroyType, ReplyFailsType, QueryFailedType DEF TypeOK

\* hasNext and next after the query keep every type, whatever they find.
LEMMA BodyType ==
  ASSUME ConstantsAssumption, TypeOK, NEW c \in Cursors,
         \/ BodyUninitialized(c) \/ BodyDone(c) \/ BodyHasDocument(c)
         \/ BodyExhausted(c) \/ BodyGetMore(c)
  PROVE  TypeOK'
<1>1. CASE BodyUninitialized(c) \/ BodyExhausted(c)
  BY <1>1, ReturnType DEF BodyUninitialized, BodyExhausted, Stop, TypeOK
<1>2. CASE BodyDone(c)
  <2>1. /\ cleanup_list' \in [Conns -> [Cursors -> Nat]]
        /\ cursor_list' \subseteq CursorIds \X Sockets
        /\ srv' \in [Servers -> [CursorIds -> IdStates]]
        /\ cursor_id' \in [Cursors -> CursorIds \cup {0}]
    <3>1. CASE cursor_id[c] # 0
      <4>1. FreeLe(c, cursor_id[c])
        BY <1>2, <3>1 DEF BodyDone
      <4>2. cursor_id[c] \in CursorIds \cup {0}
        BY DEF TypeOK
      <4>3. cursor_id' \in [Cursors -> CursorIds \cup {0}]
        BY <1>2, <3>1, <4>2 DEF BodyDone, TypeOK
      <4> QED BY <4>1, <4>2, <4>3, FreeLeStepType
    <3>2. CASE cursor_id[c] = 0
      BY <1>2, <3>2 DEF BodyDone, TypeOK
    <3> QED BY <3>1, <3>2
  <2> QED BY <1>2, <2>1, ReturnType DEF BodyDone, Stop, TypeOK
<1>3. CASE BodyHasDocument(c)
  <2>1. at' \in [Cursors -> Nat]
    <3>1. at' = at \/ at' = [at EXCEPT ![c] = @ + 1]
      BY <1>3 DEF BodyHasDocument, Deliver
    <3>2. at \in [Cursors -> Nat] /\ at[c] + 1 \in Nat
      BY DEF TypeOK
    <3> QED BY <3>1, <3>2
  <2> QED BY <1>3, <2>1, ReturnType DEF BodyHasDocument, TypeOK, connVars
<1>4. CASE BodyGetMore(c)
  BY <1>4 DEF BodyGetMore, TypeOK, connVars, cursorVars
<1> QED BY <1>1, <1>2, <1>3, <1>4

\* OP_GET_MORE failing to be sent keeps every type.
LEMMA GetMoreSendFailsType ==
  ASSUME ConstantsAssumption, TypeOK, GetMoreSendFails
  PROVE  TypeOK'
<1>1. Destroy({connection[self]}, {self}, srv) /\ Return
  BY DEF GetMoreSendFails
<1>2. {connection[self]} \subseteq pool
  BY DEF GetMoreSendFails, TypeOK
<1>3. srv \in [Servers -> [CursorIds -> IdStates]]
  BY DEF TypeOK
<1> QED BY <1>1, <1>2, <1>3, DestroyType, ReturnType DEF GetMoreSendFails, TypeOK

\* A cursor that waits for a batch has a connection and an id.
LEMMA GetMoreTarget ==
  ASSUME TypeOK, CallInv, SessionsAreSound, pc = "getmore"
  PROVE  /\ self \in Cursors
         /\ connection[self] \in Conns
         /\ connection[self] \in pool
         /\ server[connection[self]] \in Servers
         /\ cursor_id[self] \in CursorIds
<1>1. self \in Cursors /\ HasSession(self)
  BY DEF CallInv, TypeOK
<1> QED BY <1>1 DEF HasSession, SessionsAreSound, TypeOK

\* A further batch keeps every type.
LEMMA GetMoreReplyType ==
  ASSUME ConstantsAssumption, TypeOK, CallInv, SessionsAreSound, GetMoreReply
  PROVE  TypeOK'
<1>1. /\ self \in Cursors
      /\ server[connection[self]] \in Servers
      /\ cursor_id[self] \in CursorIds
  BY GetMoreTarget DEF GetMoreReply
<1>2. /\ cursor_id' \in [Cursors -> CursorIds \cup {0}]
      /\ num' \in [Cursors -> Nat]
      /\ cleanup_list' \in [Conns -> [Cursors -> Nat]]
      /\ cursor_list' \subseteq CursorIds \X Sockets
      /\ srv' \in [Servers -> [CursorIds -> IdStates]]
  <2>1. CASE /\ \E n \in 0 .. MaxDocs : HeaderRead(cursor_id[self], n)
             /\ UNCHANGED <<cleanup_list, cursor_list, srv>>
    BY <1>1, <2>1, HeaderReadType DEF TypeOK
  <2>2. CASE /\ \E n \in 0 .. MaxDocs : HeaderRead(0, n)
             /\ cleanup_list' = UnhookedByFreeLe(self)
             /\ cursor_list' = ListAfterFreeLe(self, 0)
             /\ srv' = SetId(server[connection[self]], cursor_id[self], "gone")
    <3>1. srv' \in [Servers -> [CursorIds -> IdStates]]
      BY <1>1, <2>2, SetIdType DEF IdStates
    <3>2. /\ cleanup_list' \in [Conns -> [Cursors -> Nat]]
          /\ cursor_list' \subseteq CursorIds \X Sockets
      BY <1>1, <2>2, FreeLeType
    <3> QED BY <2>2, <3>1, <3>2, HeaderReadType
  <2> QED BY <2>1, <2>2 DEF GetMoreReply
<1>3. at' \in [Cursors -> Nat]
  <2>1. at' = at \/ at' = [at EXCEPT ![self] = @ + 1]
    BY DEF GetMoreReply, Deliver
  <2>2. at \in [Cursors -> Nat]
    BY DEF TypeOK
  <2>3. CASE at' = at
    BY <2>2, <2>3
  <2>4. CASE at' = [at EXCEPT ![self] = @ + 1]
    <3>1. at[self] + 1 \in Nat
      BY <1>1, <2>2
    <3> QED BY <2>2, <2>4, <3>1
  <2> QED BY <2>1, <2>3, <2>4
<1> QED BY <1>2, <1>3, ReturnType DEF GetMoreReply, TypeOK

\* "cursor not found" keeps every type.
LEMMA GetMoreNotFoundType ==
  ASSUME ConstantsAssumption, TypeOK, CallInv, SessionsAreSound, GetMoreNotFound
  PROVE  TypeOK'
<1>1. self \in Cursors
  BY GetMoreTarget DEF GetMoreNotFound
<1>2. HeaderRead(0, 0) /\ FreeLe(self, 0) /\ Return
  BY DEF GetMoreNotFound
<1>3. 0 \in 0 .. MaxDocs
  BY DEF ConstantsAssumption
<1>4. /\ cursor_id' \in [Cursors -> CursorIds \cup {0}]
      /\ num' \in [Cursors -> Nat]
  BY <1>2, <1>3, HeaderReadType
<1> QED BY <1>1, <1>2, <1>4, FreeLeStepType, ReturnType DEF GetMoreNotFound, TypeOK

\* A failed reply to OP_GET_MORE keeps every type.
LEMMA GetMoreReplyFailsType ==
  ASSUME ConstantsAssumption, TypeOK, CallInv, SessionsAreSound, GetMoreReplyFails
  PROVE  TypeOK'
<1> DEFINE a == connection[self]
<1>1. {a} \subseteq pool /\ server[a] \in Servers /\ cursor_id[self] \in CursorIds
  BY GetMoreTarget DEF GetMoreReplyFails
<1>2. PICK f \in [Servers -> [CursorIds -> IdStates]] : Destroy({a}, {self}, f)
  <2>1. SetId(server[a], cursor_id[self], "gone") \in [Servers -> [CursorIds -> IdStates]]
    BY <1>1, SetIdType DEF IdStates
  <2> QED BY <2>1 DEF GetMoreReplyFails, TypeOK
<1>3. ReplyFails /\ Return /\ UNCHANGED started_iterating
  BY DEF GetMoreReplyFails
<1> HIDE DEF a
<1> QED BY <1>1, <1>2, <1>3, DestroyType, ReplyFailsType, ReturnType DEF TypeOK

\* MongoClient::close keeps every type.
LEMMA CloseType ==
  ASSUME ConstantsAssumption, TypeOK, CloseOne \/ CloseAll
  PROVE  TypeOK'
<1>1. PICK D : D \subseteq pool /\ Destroy(D, {}, srv)
  BY DEF CloseOne, CloseAll
<1>2. srv \in [Servers -> [CursorIds -> IdStates]]
  BY DEF TypeOK
<1>3. UNCHANGED <<alive, cursor_id, started_iterating, at, num, limit, cursor_list, callVars>>
  BY DEF CloseOne, CloseAll
<1> QED BY <1>1, <1>2, <1>3, DestroyType DEF TypeOK, callVars

\* A stream breaking keeps every type.
LEMMA BreakType ==
  ASSUME TypeOK, NEW a \in Conns, Break(a)
  PROVE  TypeOK'
BY DEF Break, TypeOK, cursorVars, callVars

\* A server timing a cursor out keeps every type.
LEMMA ExpireType ==
  ASSUME TypeOK, NEW s \in Servers, NEW id \in CursorIds, Expire(s, id)
  PROVE  TypeOK'
<1>1. srv' \in [Servers -> [CursorIds -> IdStates]]
  BY SetIdType DEF Expire, IdStates
<1> QED BY <1>1 DEF Expire, TypeOK, connVars, cursorVars, callVars

\* A worker starting anew keeps every type.
LEMMA WorkerDiesType ==
  ASSUME ConstantsAssumption, TypeOK, WorkerDies
  PROVE  TypeOK'
<1>1. srv' \in [Servers -> [CursorIds -> IdStates]]
  BY DEF WorkerDies, Orphaned, IdStates, TypeOK
<1>2. cleanup_list' \in [Conns -> [Cursors -> Nat]]
  BY DEF WorkerDies, NoCallbacks
<1> QED BY <1>1, <1>2, ReturnType DEF WorkerDies, TypeOK

\* Every step of a call keeps the types.
LEMMA StepType ==
  ASSUME ConstantsAssumption, TypeOK, CallInv, SessionsAreSound, Step
  PROVE  TypeOK'
BY SeedIsConnectedType, SeedPingFailsType, SeedConnectsType, SeedConnectFailsType,
   PickFailsType, PickForCursorType, WriteDoneType, WriteSendFailsType,
   QueryEncodeFailsType, QuerySendFailsType, QueryReplyType, QueryReplyFailsType,
   BodyType, GetMoreSendFailsType, GetMoreReplyType, GetMoreNotFoundType,
   GetMoreReplyFailsType
   DEF Step

\* Every call keeps them as it begins.
LEMMA CallType ==
  ASSUME ConstantsAssumption, TypeOK, Call
  PROVE  TypeOK'
<1>1. ASSUME NEW c \in Cursors, CallHasNext(c) \/ CallNext(c)
      PROVE  TypeOK'
  BY <1>1, IterateType DEF CallHasNext, CallNext
<1>2. ASSUME NEW c \in Cursors, CallRewind(c)
      PROVE  TypeOK'
  BY <1>2, CallResetType, BeginQueryType DEF CallRewind
<1> QED BY <1>1, <1>2, NewCursorType, FreeCursorType, CallResetType, CallWriteType,
           CloseType DEF Call

\* So does everything the driver does not decide.
LEMMA EnvironmentType ==
  ASSUME ConstantsAssumption, TypeOK, Environment
  PROVE  TypeOK'
BY BreakType, ExpireType, WorkerDiesType DEF Environment

-----------------------------------------------------------------------------
(* The core of the invariant, by what a step does to it *)

\* Connections of D are destroyed.  The servers may have closed cursors of D or
\* opened one over D before; the ids of cursors that lose their connection
\* may have changed.
Destroys(D, F, f) ==
    /\ D \subseteq pool
    /\ Destroy(D, F, f)
    /\ UNCHANGED <<alive, cursor_list>>
    /\ \A c \in Cursors : cursor_id'[c] = cursor_id[c] \/ c \in HasCallbackOn(D)
    /\ \/ f = srv
       \/ \E a \in D, id \in CursorIds :
            /\ f = SetId(server[a], id, "gone")
            /\ srv[server[a]][id] \in {a, "gone"}
       \/ \E a \in D, id \in CursorIds :
            /\ f = SetId(server[a], id, a)
            /\ srv[server[a]][id] = "fresh"

\* What the servers did before the connections went.
ServersBefore(D, f) ==
    \A s \in Servers, i \in CursorIds :
        \/ f[s][i] = srv[s][i]
        \/ f[s][i] = "gone"
        \/ srv[s][i] = "fresh" /\ f[s][i] \in D

LEMMA DestroysServers ==
  ASSUME TypeOK, NEW D, NEW F, NEW f, Destroys(D, F, f)
  PROVE  ServersBefore(D, f)
<1>1. \A s \in Servers, id \in CursorIds : \A x :
        \A t \in Servers, i \in CursorIds :
           SetId(s, id, x)[t][i] = IF t = s /\ i = id THEN x ELSE srv[t][i]
  BY DEF SetId, TypeOK
<1>2. \A a \in D : server[a] \in Servers
  BY DEF Destroys, TypeOK
<1>3. CASE f = srv
  BY <1>3 DEF ServersBefore
<1>4. ASSUME NEW a \in D, NEW id \in CursorIds, f = SetId(server[a], id, "gone")
      PROVE  \A s \in Servers, i \in CursorIds : f[s][i] = srv[s][i] \/ f[s][i] = "gone"
  BY <1>1, <1>2, <1>4
<1>5. ASSUME NEW a \in D, NEW id \in CursorIds, f = SetId(server[a], id, a),
             srv[server[a]][id] = "fresh"
      PROVE  \A s \in Servers, i \in CursorIds :
                f[s][i] = srv[s][i] \/ (srv[s][i] = "fresh" /\ f[s][i] \in D)
  BY <1>1, <1>2, <1>5
<1> QED BY <1>3, <1>4, <1>5 DEF Destroys, ServersBefore

\* The invariant survives the destruction of connections.
LEMMA DestroyCore ==
  ASSUME ConstantsAssumption, TypeOK, CoreInv, NEW D, NEW F, NEW f, Destroys(D, F, f)
  PROVE  CoreInv'
<1>a. /\ D \subseteq pool /\ Destroy(D, F, f)
       /\ UNCHANGED <<alive, cursor_list>>
       /\ \A c \in Cursors : cursor_id'[c] = cursor_id[c] \/ c \in HasCallbackOn(D)
  BY DEF Destroys
<1>b. ServersBefore(D, f)
  BY DestroysServers
<1>c. \A s \in Servers, i \in CursorIds :
          \/ f[s][i] = srv[s][i]
          \/ f[s][i] = "gone"
          \/ srv[s][i] = "fresh" /\ f[s][i] \in D
  BY <1>b DEF ServersBefore
<1> USE <1>a, <1>c
<1>0. "fresh" \notin Conns /\ "gone" \notin Conns /\ "orphan" \notin Conns
  BY DEF ConstantsAssumption
<1>1. \A c \in Cursors :
        /\ c \in HasCallbackOn(D) => connection'[c] = NULL
        /\ c \notin HasCallbackOn(D) => /\ connection'[c] = connection[c]
                                       /\ cursor_id'[c] = cursor_id[c]
  BY DEF Destroy
<1>2. \A a \in Conns, c \in Cursors :
        /\ a \in D => cleanup_list'[a][c] = 0
        /\ a \notin D => cleanup_list'[a][c] = cleanup_list[a][c]
  BY DEF Destroy, NoCallbacks
<1>3. \A c \in Cursors : c \in HasCallbackOn(D) =>
         connection[c] \in D
  BY DEF HasCallbackOn, CoreInv, CallbacksAreSound, TypeOK
<1>4. /\ pool' = pool \ D
      /\ broken' = broken \ D
      /\ hash' = hash
      /\ server' = server
      /\ socket' = socket
  BY DEF Destroy
<1>5. \A s \in Servers, i \in CursorIds :
        srv'[s][i] = IF f[s][i] \in D THEN "orphan" ELSE f[s][i]
  BY DEF Destroy, Orphaned
<1>6. CallbacksAreSound'
  BY <1>1, <1>2, <1>3, <1>4 DEF CoreInv, CallbacksAreSound
\* Who keeps a session had it before, on a connection that stays.
<1>7. \A c \in Cursors : HasSession(c)' =>
        /\ HasSession(c)
        /\ connection'[c] = connection[c]
        /\ cursor_id'[c] = cursor_id[c]
        /\ connection[c] \in pool \ D
  <2> SUFFICES ASSUME NEW c \in Cursors, HasSession(c)'
               PROVE  /\ HasSession(c)
                      /\ connection'[c] = connection[c]
                      /\ cursor_id'[c] = cursor_id[c]
                      /\ connection[c] \in pool \ D
    OBVIOUS
  <2>1. c \notin HasCallbackOn(D)
    BY <1>1 DEF HasSession
  <2>2. HasSession(c) /\ connection'[c] = connection[c] /\ cursor_id'[c] = cursor_id[c]
    BY <1>1, <2>1 DEF HasSession
  <2>3. connection[c] \in pool /\ cleanup_list[connection[c]][c] = 1
    BY <2>2 DEF CoreInv, SessionsAreSound
  <2> QED BY <2>1, <2>2, <2>3 DEF HasCallbackOn
<1>8. SessionsAreSound'
  BY <1>2, <1>4, <1>7 DEF CoreInv, SessionsAreSound, OnList, Node, TypeOK
<1>9. PoolInv'
  BY <1>4 DEF CoreInv, PoolInv
<1>10. ServerInv'
  <2>1. \A s \in Servers, i \in CursorIds : srv'[s][i] \in Conns =>
          srv'[s][i] \in pool' /\ server'[srv'[s][i]] = s
    BY <1>4, <1>5 DEF CoreInv, ServerInv, ConstantsAssumption
  <2>2. \A c \in Cursors : HasSession(c)' =>
          srv'[server'[connection'[c]]][cursor_id'[c]] \in {connection'[c], "gone"}
    <3> SUFFICES ASSUME NEW c \in Cursors, HasSession(c)'
                 PROVE  srv'[server'[connection'[c]]][cursor_id'[c]]
                          \in {connection'[c], "gone"}
      OBVIOUS
    <3>1. /\ HasSession(c) /\ connection'[c] = connection[c]
          /\ cursor_id'[c] = cursor_id[c] /\ connection[c] \in pool \ D
      BY <1>7
    <3>2. srv[server[connection[c]]][cursor_id[c]] \in {connection[c], "gone"}
      BY <3>1 DEF CoreInv, ServerInv
    <3>3. server[connection[c]] \in Servers /\ cursor_id[c] \in CursorIds
      BY <3>1 DEF HasSession, TypeOK
    <3>4. srv[server[connection[c]]][cursor_id[c]] # "fresh"
      BY <1>0, <3>1, <3>2 DEF TypeOK
    <3>5. f[server[connection[c]]][cursor_id[c]] \in {connection[c], "gone"}
      BY <3>2, <3>3, <3>4
    <3>6. f[server[connection[c]]][cursor_id[c]] \notin D
      BY <1>0, <3>1, <3>5 DEF TypeOK
    <3>7. srv'[server[connection[c]]][cursor_id[c]] \in {connection[c], "gone"}
      BY <1>5, <3>3, <3>5, <3>6
    <3> QED BY <1>4, <3>1, <3>7
  <2>3. \A c, d \in Cursors :
          /\ c # d
          /\ HasSession(c)' /\ HasSession(d)'
          /\ server'[connection'[c]] = server'[connection'[d]]
          => cursor_id'[c] # cursor_id'[d]
    BY <1>4, <1>7 DEF CoreInv, ServerInv
  <2> QED BY <2>1, <2>2, <2>3 DEF ServerInv
<1>11. NoForgottenServerCursor'
  <2> SUFFICES ASSUME NEW s \in Servers, NEW i \in CursorIds,
                      srv'[s][i] \in pool' \ broken'
               PROVE  \E c \in alive' : cursor_id'[c] = i /\ connection'[c] = srv'[s][i]
    BY DEF NoForgottenServerCursor
  <2>1. srv'[s][i] = srv[s][i] /\ srv[s][i] \in pool \ broken /\ srv[s][i] \notin D
    <3>1. f[s][i] \notin D /\ srv'[s][i] = f[s][i]
      BY <1>0, <1>4, <1>5 DEF TypeOK
    <3>2. f[s][i] \in Conns
      BY <1>4, <3>1 DEF TypeOK
    <3>3. f[s][i] = srv[s][i]
      BY <1>0, <3>1, <3>2
    <3> QED BY <1>4, <3>1, <3>3
  <2>2. PICK c \in alive : cursor_id[c] = i /\ connection[c] = srv[s][i]
    BY <2>1 DEF CoreInv, NoForgottenServerCursor
  <2>3. c \in Cursors /\ c \notin HasCallbackOn(D)
    BY <1>3, <2>1, <2>2 DEF TypeOK
  <2> QED BY <1>1, <2>1, <2>2, <2>3
<1> QED BY <1>6, <1>8, <1>9, <1>10, <1>11 DEF CoreInv

\* The session of c, if it has one, is closed: its node leaves the list, its
\* server's cursor is closed unless the connection is broken.
SessionCloses(c) ==
    /\ cursor_list' \subseteq cursor_list
    /\ \A n \in cursor_list \ cursor_list' :
          HasSession(c) /\ n = Node(c, cursor_id[c])
    /\ \A s \in Servers, i \in CursorIds :
          \/ srv'[s][i] = srv[s][i]
          \/ /\ srv'[s][i] = "gone"
             /\ HasSession(c) /\ s = server[connection[c]] /\ i = cursor_id[c]
    /\ HasSession(c) =>
          \/ connection[c] \in broken
          \/ srv'[server[connection[c]]][cursor_id[c]] = "gone"

\* Nothing else happens but that the id of c goes; its callback may stay only
\* if its connection does.
Releases(c) ==
    /\ c \in alive
    /\ UNCHANGED <<pool, hash, server, socket, broken>>
    /\ cursor_id' = [cursor_id EXCEPT ![c] = 0]
    /\ \A a \in Conns, d \in Cursors :
          /\ d # c => cleanup_list'[a][d] = cleanup_list[a][d]
          /\ cleanup_list'[a][c] \in {0, cleanup_list[a][c]}
    /\ \/ alive' = alive /\ connection' = connection
       \/ /\ alive' \in {alive, alive \ {c}}
          /\ connection' = [connection EXCEPT ![c] = NULL]
          /\ \A a \in Conns : cleanup_list'[a][c] = 0
    /\ SessionCloses(c)

\* Closing one session keeps the core.
LEMMA ReleaseCore ==
  ASSUME ConstantsAssumption, TypeOK, CoreInv, NEW c \in Cursors, Releases(c)
  PROVE  CoreInv'
<1> USE DEF Releases, SessionCloses
<1>0. "fresh" \notin Conns /\ "gone" \notin Conns /\ "orphan" \notin Conns
  BY DEF ConstantsAssumption
<1>1. \A d \in Cursors : d # c =>
        /\ connection'[d] = connection[d]
        /\ cursor_id'[d] = cursor_id[d]
        /\ d \in alive' <=> d \in alive
  BY DEF TypeOK
<1>2. cursor_id'[c] = 0
  BY DEF TypeOK
<1>3. \A d \in Cursors : HasSession(d)' =>
        /\ d # c
        /\ HasSession(d)
        /\ connection'[d] = connection[d]
        /\ cursor_id'[d] = cursor_id[d]
  BY <1>1, <1>2 DEF HasSession
<1>4. CallbacksAreSound'
  <2> SUFFICES ASSUME NEW a \in Conns, NEW d \in Cursors, cleanup_list'[a][d] > 0
               PROVE  /\ cleanup_list'[a][d] = 1
                      /\ a \in pool'
                      /\ d \in alive'
                      /\ connection'[d] = a
    BY DEF CallbacksAreSound
  <2>1. cleanup_list'[a][d] = cleanup_list[a][d]
    OBVIOUS
  <2>2. cleanup_list[a][d] = 1 /\ a \in pool /\ d \in alive /\ connection[d] = a
    BY <2>1 DEF CoreInv, CallbacksAreSound
  <2> QED BY <1>1, <2>1, <2>2
<1>5. SessionsAreSound'
  <2> SUFFICES ASSUME NEW d \in Cursors, HasSession(d)'
               PROVE  /\ connection'[d] \in pool'
                      /\ cleanup_list'[connection'[d]][d] = 1
                      /\ OnList(d, cursor_id[d])'
    BY DEF SessionsAreSound
  <2>1. /\ d # c /\ HasSession(d)
        /\ connection'[d] = connection[d] /\ cursor_id'[d] = cursor_id[d]
    BY <1>3
  <2>2. /\ connection[d] \in pool
        /\ cleanup_list[connection[d]][d] = 1
        /\ Node(d, cursor_id[d]) \in cursor_list
    BY <2>1 DEF CoreInv, SessionsAreSound, OnList
  <2>3. Node(d, cursor_id[d]) \in cursor_list'
    <3> SUFFICES ASSUME HasSession(c), Node(d, cursor_id[d]) = Node(c, cursor_id[c])
                 PROVE  FALSE
      BY <2>2
    <3>1. connection[c] \in pool
      BY DEF CoreInv, SessionsAreSound
    <3>2. cursor_id[d] = cursor_id[c] /\ socket[connection[d]] = socket[connection[c]]
      BY DEF Node
    <3>3. connection[c] = connection[d]
      BY <2>2, <3>1, <3>2 DEF CoreInv, PoolInv
    <3> QED BY <2>1, <3>2, <3>3 DEF CoreInv, ServerInv
  <2> QED BY <2>1, <2>2, <2>3 DEF TypeOK, OnList, Node, HasSession
<1>6. PoolInv'
  BY DEF CoreInv, PoolInv
<1>7. ServerInv'
  <2>1. \A s \in Servers, i \in CursorIds : srv'[s][i] \in Conns =>
          srv'[s][i] \in pool' /\ server'[srv'[s][i]] = s
    BY <1>0 DEF CoreInv, ServerInv
  <2>2. \A d \in Cursors : HasSession(d)' =>
          srv'[server'[connection'[d]]][cursor_id'[d]] \in {connection'[d], "gone"}
    <3> SUFFICES ASSUME NEW d \in Cursors, HasSession(d)'
                 PROVE  srv'[server[connection[d]]][cursor_id[d]]
                          \in {connection[d], "gone"}
      BY <1>3
    <3>1. HasSession(d)
      BY <1>3
    <3>2. srv[server[connection[d]]][cursor_id[d]] \in {connection[d], "gone"}
      BY <3>1 DEF CoreInv, ServerInv
    <3>3. server[connection[d]] \in Servers /\ cursor_id[d] \in CursorIds
      BY <3>1 DEF HasSession, TypeOK
    <3> QED BY <3>2, <3>3
  <2>3. \A d, e \in Cursors :
          /\ d # e
          /\ HasSession(d)' /\ HasSession(e)'
          /\ server'[connection'[d]] = server'[connection'[e]]
          => cursor_id'[d] # cursor_id'[e]
    BY <1>3 DEF CoreInv, ServerInv
  <2> QED BY <2>1, <2>2, <2>3 DEF ServerInv
<1>8. NoForgottenServerCursor'
  <2> SUFFICES ASSUME NEW s \in Servers, NEW i \in CursorIds,
                      srv'[s][i] \in pool \ broken
               PROVE  \E d \in alive' : cursor_id'[d] = i /\ connection'[d] = srv'[s][i]
    BY DEF NoForgottenServerCursor
  <2>1. srv'[s][i] = srv[s][i]
    BY <1>0 DEF TypeOK
  <2>2. PICK d \in alive : cursor_id[d] = i /\ connection[d] = srv[s][i]
    BY <2>1 DEF CoreInv, NoForgottenServerCursor
  <2>3. d # c
    <3> SUFFICES ASSUME d = c
                 PROVE  FALSE
      OBVIOUS
    <3>1. connection[c] \in pool \ broken /\ cursor_id[c] = i /\ i # 0
      BY <2>1, <2>2 DEF ConstantsAssumption
    <3>2. HasSession(c)
      BY <3>1 DEF HasSession, TypeOK, ConstantsAssumption
    <3>3. server[connection[c]] = s
      BY <2>1, <2>2, <3>1 DEF CoreInv, ServerInv, TypeOK
    <3>4. srv'[s][i] = "gone"
      BY <3>1, <3>2, <3>3
    <3> QED BY <1>0, <3>4 DEF TypeOK
  <2> QED BY <1>1, <2>1, <2>2, <2>3 DEF TypeOK
<1> QED BY <1>4, <1>5, <1>6, <1>7, <1>8 DEF CoreInv

\* The core says nothing of the other variables.
Quiet ==
    UNCHANGED <<pool, hash, server, socket, broken, cleanup_list, alive, connection, cursor_id,
                cursor_list, srv>>

\* A step that changes nothing of the core keeps it.
LEMMA CoreUnchanged ==
  ASSUME CoreInv, Quiet
  PROVE  CoreInv'
BY DEF Quiet, CoreInv, CallbacksAreSound, SessionsAreSound, NoForgottenServerCursor,
       PoolInv, ServerInv, HasSession, OnList, Node

\* Taken off its own connection, a cursor has no callback left anywhere; no
\* other cursor is concerned.
LEMMA UnhookClears ==
  ASSUME TypeOK, CallbacksAreSound, NEW c \in Cursors, connection[c] \in Conns
  PROVE  \A a \in Conns, d \in Cursors :
           Unhook(cleanup_list, connection[c], c)[a][d] =
             IF d = c THEN 0 ELSE cleanup_list[a][d]
<1> SUFFICES ASSUME NEW a \in Conns, NEW d \in Cursors
             PROVE  Unhook(cleanup_list, connection[c], c)[a][d] =
                      IF d = c THEN 0 ELSE cleanup_list[a][d]
  OBVIOUS
<1>1. cleanup_list[a][c] \in Nat /\ cleanup_list[a][d] \in Nat
  BY DEF TypeOK
<1>2. CASE a = connection[c]
  BY <1>1, <1>2 DEF Unhook, TypeOK, CallbacksAreSound
<1>3. CASE a # connection[c]
  BY <1>1, <1>3 DEF Unhook, TypeOK, CallbacksAreSound
<1> QED BY <1>2, <1>3

\* Once off, it is off: a second removal changes nothing.
LEMMA UnhookTwice ==
  ASSUME NEW cl \in [Conns -> [Cursors -> Nat]], NEW b \in Conns, NEW c \in Cursors,
         cl[b][c] = 0
  PROVE  \A a \in Conns, d \in Cursors : Unhook(cl, b, c)[a][d] = cl[a][d]
BY DEF Unhook

\* A cursor without a connection has no callback.
LEMMA NoConnectionNoCallback ==
  ASSUME ConstantsAssumption, TypeOK, CallbacksAreSound, NEW c \in Cursors,
         connection[c] = NULL
  PROVE  \A a \in Conns : cleanup_list[a][c] = 0
<1> SUFFICES ASSUME NEW a \in Conns
             PROVE  cleanup_list[a][c] = 0
  OBVIOUS
<1>1. cleanup_list[a][c] \in Nat /\ ~(cleanup_list[a][c] > 0)
  BY DEF TypeOK, CallbacksAreSound, ConstantsAssumption
<1> QED BY <1>1

\* mongo_cursor_free_le for a cursor that has not been exhausted.
LEMMA FreeLeReleases ==
  ASSUME ConstantsAssumption, TypeOK, CoreInv, NEW c \in Cursors, c \in alive,
         cursor_id[c] # 0
  PROVE  /\ \A a \in Conns, d \in Cursors :
              UnhookedByFreeLe(c)[a][d] = IF d = c THEN 0 ELSE cleanup_list[a][d]
         /\ ListAfterFreeLe(c, cursor_id[c]) \subseteq cursor_list
         /\ \A n \in cursor_list \ ListAfterFreeLe(c, cursor_id[c]) :
              HasSession(c) /\ n = Node(c, cursor_id[c])
         /\ \A s \in Servers, i \in CursorIds :
              \/ ServersAfterFreeLe(c, cursor_id[c])[s][i] = srv[s][i]
              \/ /\ ServersAfterFreeLe(c, cursor_id[c])[s][i] = "gone"
                 /\ HasSession(c) /\ s = server[connection[c]] /\ i = cursor_id[c]
         /\ HasSession(c) =>
              \/ connection[c] \in broken
              \/ ServersAfterFreeLe(c, cursor_id[c])[server[connection[c]]][cursor_id[c]]
                   = "gone"
<1>1. CASE connection[c] = NULL
  <2>1. ~HasSession(c) /\ ~OnList(c, cursor_id[c])
    BY <1>1 DEF HasSession, OnList
  <2>2. \A a \in Conns : cleanup_list[a][c] = 0
    BY <1>1, NoConnectionNoCallback DEF CoreInv
  <2> QED BY <1>1, <2>1, <2>2 DEF UnhookedByFreeLe, ListAfterFreeLe, ServersAfterFreeLe
<1>2. CASE connection[c] # NULL
  <2>1. HasSession(c) /\ connection[c] \in Conns
    BY <1>2 DEF HasSession, TypeOK
  <2>2. OnList(c, cursor_id[c])
    BY <2>1 DEF CoreInv, SessionsAreSound
  <2>3. UnhookedByFreeLe(c) = Unhook(cleanup_list, connection[c], c)
    BY <1>2, <2>2 DEF UnhookedByFreeLe, OnList
  <2>4. \A a \in Conns, d \in Cursors :
           UnhookedByFreeLe(c)[a][d] = IF d = c THEN 0 ELSE cleanup_list[a][d]
    BY <2>1, <2>3, UnhookClears DEF CoreInv
  <2>5. server[connection[c]] \in Servers /\ cursor_id[c] \in CursorIds
    BY <2>1, <1>2 DEF TypeOK, HasSession
  <2>6. \A s \in Servers, i \in CursorIds :
          \/ ServersAfterFreeLe(c, cursor_id[c])[s][i] = srv[s][i]
          \/ /\ ServersAfterFreeLe(c, cursor_id[c])[s][i] = "gone"
             /\ s = server[connection[c]] /\ i = cursor_id[c]
    BY <2>2, <2>5 DEF ServersAfterFreeLe, SetId, TypeOK
  <2>7. \/ connection[c] \in broken
        \/ ServersAfterFreeLe(c, cursor_id[c])[server[connection[c]]][cursor_id[c]] = "gone"
    BY <2>2, <2>5 DEF ServersAfterFreeLe, SetId, TypeOK
  <2> QED BY <2>1, <2>2, <2>4, <2>6, <2>7 DEF ListAfterFreeLe
<1> QED BY <1>1, <1>2

\* The same of a step that calls it.
LEMMA FreeLeCloses ==
  ASSUME ConstantsAssumption, TypeOK, CoreInv, NEW c \in Cursors, c \in alive,
         cursor_id[c] # 0,
         cursor_list' = ListAfterFreeLe(c, cursor_id[c]),
         srv' = ServersAfterFreeLe(c, cursor_id[c])
  PROVE  SessionCloses(c)
BY FreeLeReleases DEF SessionCloses

-----------------------------------------------------------------------------
(* The core of the invariant, action by action *)

\* A new object had no connection and no id in its memory (CallInv).
LEMMA NewCursorCore ==
  ASSUME ConstantsAssumption, TypeOK, CallInv, CoreInv, NEW c \in Cursors, NewCursor(c)
  PROVE  CoreInv'
<1>1. connection[c] = NULL /\ cursor_id[c] = 0
  BY DEF NewCursor, CallInv
<1>2. connection' = connection /\ cursor_id' = cursor_id
  BY <1>1 DEF NewCursor, ResetFields, TypeOK
<1>3. UNCHANGED <<pool, hash, server, socket, broken, cleanup_list, cursor_list, srv>>
  BY DEF NewCursor, connVars
<1>4. \A d \in Cursors : HasSession(d)' <=> HasSession(d)
  BY <1>1, <1>2 DEF HasSession, NewCursor
<1>5. alive' = alive \cup {c}
  BY DEF NewCursor
<1>6. CallbacksAreSound'
  BY <1>2, <1>3, <1>5 DEF CoreInv, CallbacksAreSound
<1>7. SessionsAreSound'
  BY <1>2, <1>3, <1>4 DEF CoreInv, SessionsAreSound, OnList, Node
<1>8. NoForgottenServerCursor'
  BY <1>2, <1>3, <1>5 DEF CoreInv, NoForgottenServerCursor
<1>9. PoolInv' /\ ServerInv'
  BY <1>2, <1>3, <1>4 DEF CoreInv, PoolInv, ServerInv
<1> QED BY <1>6, <1>7, <1>8, <1>9 DEF CoreInv

\* php_mongo_cursor_free closes the session of the object and no other, and leaves
\* no callback on a freed object.
LEMMA FreeCursorReleases ==
  ASSUME ConstantsAssumption, TypeOK, CoreInv, NEW c \in Cursors, FreeCursor(c)
  PROVE  Releases(c)
<1>0. c \in alive
  BY DEF FreeCursor
<1>1. /\ UNCHANGED <<pool, hash, server, socket, broken>>
      /\ cursor_id' = [cursor_id EXCEPT ![c] = 0]
      /\ alive' = alive \ {c}
      /\ connection' = [connection EXCEPT ![c] = NULL]
  BY DEF FreeCursor, ResetFields
<1>2. CASE cursor_id[c] # 0
  <2>1. /\ cleanup_list' = UnhookedByFreeLe(c)
        /\ cursor_list' = ListAfterFreeLe(c, cursor_id[c])
        /\ srv' = ServersAfterFreeLe(c, cursor_id[c])
    BY <1>2 DEF FreeCursor, FreeLe
  <2>2. \A a \in Conns, d \in Cursors :
           cleanup_list'[a][d] = IF d = c THEN 0 ELSE cleanup_list[a][d]
    BY <1>0, <1>2, <2>1, FreeLeReleases
  <2>3. SessionCloses(c)
    BY <1>0, <1>2, <2>1, FreeLeCloses
  <2> QED BY <1>0, <1>1, <2>2, <2>3 DEF Releases
<1>3. CASE cursor_id[c] = 0
  <2>1. ~HasSession(c)
    BY <1>3 DEF HasSession
  <2>2. UNCHANGED <<cursor_list, srv>>
    BY <1>3 DEF FreeCursor
  <2>3. \A a \in Conns, d \in Cursors :
           cleanup_list'[a][d] = IF d = c THEN 0 ELSE cleanup_list[a][d]
    <3>1. CASE connection[c] # NULL
      <4>1. cleanup_list' = Unhook(cleanup_list, connection[c], c)
        BY <1>3, <3>1 DEF FreeCursor
      <4>2. connection[c] \in Conns
        BY <3>1 DEF TypeOK
      <4> QED BY <4>1, <4>2, UnhookClears DEF CoreInv
    <3>2. CASE connection[c] = NULL
      BY <1>3, <3>2, NoConnectionNoCallback DEF FreeCursor, CoreInv
    <3> QED BY <3>1, <3>2
  <2> QED BY <1>0, <1>1, <2>1, <2>2, <2>3 DEF Releases, SessionCloses
<1> QED BY <1>2, <1>3

\* MongoCursor::reset closes the session of the cursor and no other.
LEMMA CallResetReleases ==
  ASSUME ConstantsAssumption, TypeOK, CoreInv, NEW c \in Cursors, CallReset(c)
  PROVE  Releases(c)
<1>0. c \in alive
  BY DEF CallReset
<1>1. /\ UNCHANGED <<pool, hash, server, socket, broken, alive, connection>>
      /\ cursor_id' = [cursor_id EXCEPT ![c] = 0]
  BY DEF CallReset, Reset, ResetFields
<1>2. CASE cursor_id[c] # 0
  <2>1. /\ cleanup_list' = UnhookedByFreeLe(c)
        /\ cursor_list' = ListAfterFreeLe(c, cursor_id[c])
        /\ srv' = ServersAfterFreeLe(c, cursor_id[c])
    BY <1>2 DEF CallReset, Reset, FreeLe
  <2>2. \A a \in Conns, d \in Cursors :
           cleanup_list'[a][d] = IF d = c THEN 0 ELSE cleanup_list[a][d]
    BY <1>0, <1>2, <2>1, FreeLeReleases
  <2>3. SessionCloses(c)
    BY <1>0, <1>2, <2>1, FreeLeCloses
  <2> QED BY <1>0, <1>1, <2>2, <2>3 DEF Releases
<1>3. CASE cursor_id[c] = 0
  <2>1. ~HasSession(c)
    BY <1>3 DEF HasSession
  <2>2. UNCHANGED <<cleanup_list, cursor_list, srv>>
    BY <1>3 DEF CallReset, Reset
  <2> QED BY <1>0, <1>1, <2>1, <2>2 DEF Releases, SessionCloses
<1> QED BY <1>2, <1>3

\* What a new query leaves of the callbacks: none of the cursor's.
LEMMA BeginQueryUnhooks ==
  ASSUME ConstantsAssumption, TypeOK, CoreInv, NEW c \in Cursors, c \in alive,
         NEW f, BeginQuery(c, f)
  PROVE  \A a \in Conns, d \in Cursors :
           cleanup_list'[a][d] = IF d = c THEN 0 ELSE cleanup_list[a][d]
<1> DEFINE cl == IF cursor_id[c] # 0 THEN UnhookedByFreeLe(c) ELSE cleanup_list
<1>1. cleanup_list' = IF connection[c] # NULL THEN Unhook(cl, connection[c], c) ELSE cl
  BY DEF BeginQuery
<1>2. CASE cursor_id[c] # 0
  <2>1. \A a \in Conns, d \in Cursors :
           cl[a][d] = IF d = c THEN 0 ELSE cleanup_list[a][d]
    BY <1>2, FreeLeReleases
  <2>2. cursor_id[c] \in CursorIds \cup {0}
    BY DEF TypeOK
  <2>3. cl \in [Conns -> [Cursors -> Nat]]
    BY <1>2, <2>2, FreeLeType
  <2> HIDE DEF cl
  <2>4. CASE connection[c] # NULL
    <3>1. connection[c] \in Conns
      BY <2>4 DEF TypeOK
    <3>2. \A a \in Conns, d \in Cursors :
             Unhook(cl, connection[c], c)[a][d] = cl[a][d]
      BY <2>1, <2>3, <3>1, UnhookTwice
    <3> QED BY <1>1, <2>1, <2>4, <3>2
  <2>5. CASE connection[c] = NULL
    BY <1>1, <2>1, <2>5
  <2> QED BY <2>4, <2>5
<1>3. CASE cursor_id[c] = 0
  <2>1. cl = cleanup_list
    BY <1>3
  <2> HIDE DEF cl
  <2>2. CASE connection[c] # NULL
    <3>1. connection[c] \in Conns
      BY <2>2 DEF TypeOK
    <3> QED BY <1>1, <2>1, <2>2, <3>1, UnhookClears DEF CoreInv
  <2>3. CASE connection[c] = NULL
    BY <1>1, <2>1, <2>3, NoConnectionNoCallback DEF CoreInv
  <2> QED BY <2>2, <2>3
<1> QED BY <1>2, <1>3

\* So does a new query, which takes the old callback off as well.
LEMMA BeginQueryReleases ==
  ASSUME ConstantsAssumption, TypeOK, CoreInv, NEW c \in Cursors, c \in alive,
         NEW f, BeginQuery(c, f)
  PROVE  Releases(c)
<1>1. /\ UNCHANGED <<pool, hash, server, socket, broken, alive, connection>>
      /\ cursor_id' = [cursor_id EXCEPT ![c] = 0]
  BY DEF BeginQuery, ResetFields
<1>2. \A a \in Conns, d \in Cursors :
         cleanup_list'[a][d] = IF d = c THEN 0 ELSE cleanup_list[a][d]
  BY BeginQueryUnhooks
<1>3. CASE cursor_id[c] # 0
  <2>1. /\ cursor_list' = ListAfterFreeLe(c, cursor_id[c])
        /\ srv' = ServersAfterFreeLe(c, cursor_id[c])
    BY <1>3 DEF BeginQuery
  <2>2. SessionCloses(c)
    BY <1>3, <2>1, FreeLeCloses
  <2> QED BY <1>1, <1>2, <2>2 DEF Releases
<1>4. CASE cursor_id[c] = 0
  <2>1. ~HasSession(c)
    BY <1>4 DEF HasSession
  <2>2. UNCHANGED <<cursor_list, srv>>
    BY <1>4 DEF BeginQuery
  <2> QED BY <1>1, <1>2, <2>1, <2>2 DEF Releases, SessionCloses
<1> QED BY <1>3, <1>4

\* hasNext and next begin with such a query, or change nothing of the core.
LEMMA IterateReleases ==
  ASSUME ConstantsAssumption, TypeOK, CoreInv, NEW c \in Cursors, c \in alive,
         NEW f, Iterate(c, f)
  PROVE  Releases(c) \/ Quiet
<1>1. CASE BeginQuery(c, f)
  BY <1>1, BeginQueryReleases
<1>2. CASE ContinueIteration(c, f)
  BY <1>2 DEF Quiet, ContinueIteration, connVars, cursorVars
<1> QED BY <1>1, <1>2 DEF Iterate

\* No node has the id of an exhausted cursor.
LEMMA ZeroIsNotListed ==
  ASSUME ConstantsAssumption, TypeOK, NEW c \in Cursors
  PROVE  ~OnList(c, 0)
BY DEF OnList, Node, ConstantsAssumption, TypeOK

\* A cursor that finds no server gives up a connection it has no callback on.
LEMMA PickFailsReleases ==
  ASSUME ConstantsAssumption, TypeOK, CallInv, CoreInv, PickFails
  PROVE  Quiet \/ (self \in Cursors /\ Releases(self))
<1>1. CASE self = NULL
  BY <1>1 DEF Quiet, PickFails, connVars
<1>2. CASE self # NULL
  <2>1. /\ self \in Cursors /\ self \in alive
        /\ cursor_id[self] = 0
        /\ \A a \in Conns : cleanup_list[a][self] = 0
    BY <1>2 DEF PickFails, CallInv, TypeOK
  <2>2. ~HasSession(self)
    BY <2>1 DEF HasSession
  <2>3. /\ UNCHANGED <<pool, hash, server, socket, broken, cleanup_list, alive, cursor_id,
                       cursor_list, srv>>
        /\ connection' = [connection EXCEPT ![self] = NULL]
    BY <1>2 DEF PickFails, connVars
  <2>4. cursor_id' = [cursor_id EXCEPT ![self] = 0]
    BY <2>1, <2>3 DEF TypeOK
  <2> QED BY <2>1, <2>2, <2>3, <2>4 DEF Releases, SessionCloses
<1> QED BY <1>1, <1>2

\* At the limit, or with nothing found, hasNext closes the session of its cursor.
LEMMA BodyDoneReleases ==
  ASSUME ConstantsAssumption, TypeOK, CallInv, CoreInv, NEW c \in Cursors, BodyDone(c)
  PROVE  Releases(c)
<1>1. /\ c \in alive /\ connection[c] # NULL
      /\ UNCHANGED <<pool, hash, server, socket, broken, alive, connection>>
  BY DEF BodyDone, Body, Stop, CallInv
<1>2. CASE cursor_id[c] # 0
  <2>1. HasSession(c)
    BY <1>1, <1>2 DEF HasSession
  <2>2. OnList(c, cursor_id[c])
    BY <2>1 DEF CoreInv, SessionsAreSound
  <2>3. cursor_id' = [cursor_id EXCEPT ![c] = 0]
    BY <1>2, <2>2 DEF BodyDone
  <2>4. /\ cleanup_list' = UnhookedByFreeLe(c)
        /\ cursor_list' = ListAfterFreeLe(c, cursor_id[c])
        /\ srv' = ServersAfterFreeLe(c, cursor_id[c])
    BY <1>2 DEF BodyDone, FreeLe
  <2>5. \A a \in Conns, d \in Cursors :
           cleanup_list'[a][d] = IF d = c THEN 0 ELSE cleanup_list[a][d]
    BY <1>1, <1>2, <2>4, FreeLeReleases
  <2>6. SessionCloses(c)
    BY <1>1, <1>2, <2>4, FreeLeCloses
  <2> QED BY <1>1, <2>3, <2>5, <2>6 DEF Releases
<1>3. CASE cursor_id[c] = 0
  <2>1. /\ UNCHANGED <<cleanup_list, cursor_list, srv>>
        /\ cursor_id' = [cursor_id EXCEPT ![c] = 0]
    BY <1>3 DEF BodyDone, TypeOK
  <2>2. ~HasSession(c)
    BY <1>3 DEF HasSession
  <2> QED BY <1>1, <2>1, <2>2 DEF Releases, SessionCloses
<1> QED BY <1>2, <1>3

\* The last batch or an error for the whole cursor: the server has closed it.
LEMMA ServerClosedReleases ==
  ASSUME ConstantsAssumption, TypeOK, CallInv, CoreInv, pc = "getmore",
         UNCHANGED <<pool, hash, server, socket, broken, alive, connection>>,
         cursor_id' = [cursor_id EXCEPT ![self] = 0],
         cleanup_list' = UnhookedByFreeLe(self),
         cursor_list' = ListAfterFreeLe(self, 0),
         srv' = SetId(server[connection[self]], cursor_id[self], "gone")
  PROVE  self \in Cursors /\ Releases(self)
<1>1. /\ self \in Cursors /\ self \in alive
      /\ HasSession(self) /\ connection[self] \in Conns /\ connection[self] # NULL
      /\ server[connection[self]] \in Servers
      /\ cursor_id[self] \in CursorIds
  <2>1. HasSession(self)
    BY DEF CallInv
  <2> QED BY <2>1, GetMoreTarget DEF CoreInv, HasSession
<1>2. OnList(self, cursor_id[self])
  BY <1>1 DEF CoreInv, SessionsAreSound
<1>3. cleanup_list' = Unhook(cleanup_list, connection[self], self)
  BY <1>1, <1>2 DEF UnhookedByFreeLe, OnList
<1>4. \A a \in Conns, d \in Cursors :
         cleanup_list'[a][d] = IF d = self THEN 0 ELSE cleanup_list[a][d]
  BY <1>1, <1>3, UnhookClears DEF CoreInv
<1>5. cursor_list' = cursor_list
  BY <1>1, ZeroIsNotListed DEF ListAfterFreeLe
<1>6. \A s \in Servers, i \in CursorIds :
        srv'[s][i] = IF s = server[connection[self]] /\ i = cursor_id[self]
                     THEN "gone" ELSE srv[s][i]
  BY <1>1 DEF SetId, TypeOK
<1>7. SessionCloses(self)
  BY <1>1, <1>5, <1>6 DEF SessionCloses
<1> QED BY <1>1, <1>4, <1>7 DEF Releases

\* A batch keeps the session, the last one closes it.
LEMMA GetMoreReplyReleases ==
  ASSUME ConstantsAssumption, TypeOK, CallInv, CoreInv, GetMoreReply
  PROVE  Quiet \/ (self \in Cursors /\ Releases(self))
<1>0. pc = "getmore" /\ UNCHANGED <<pool, hash, server, socket, broken, alive, connection>>
  BY DEF GetMoreReply
<1>1. CASE /\ \E n \in 0 .. MaxDocs : HeaderRead(cursor_id[self], n)
           /\ UNCHANGED <<cleanup_list, cursor_list, srv>>
  <2>1. cursor_id' = cursor_id
    BY <1>1 DEF HeaderRead, TypeOK
  <2> QED BY <1>0, <1>1, <2>1 DEF Quiet
<1>2. CASE /\ \E n \in 0 .. MaxDocs : HeaderRead(0, n)
           /\ cleanup_list' = UnhookedByFreeLe(self)
           /\ cursor_list' = ListAfterFreeLe(self, 0)
           /\ srv' = SetId(server[connection[self]], cursor_id[self], "gone")
  <2>1. cursor_id' = [cursor_id EXCEPT ![self] = 0]
    BY <1>2 DEF HeaderRead
  <2> QED BY <1>0, <1>2, <2>1, ServerClosedReleases
<1> QED BY <1>1, <1>2 DEF GetMoreReply

\* "cursor not found" closes the session the server had closed before.
LEMMA GetMoreNotFoundReleases ==
  ASSUME ConstantsAssumption, TypeOK, CallInv, CoreInv, GetMoreNotFound
  PROVE  self \in Cursors /\ Releases(self)
<1>1. /\ pc = "getmore"
      /\ UNCHANGED <<pool, hash, server, socket, broken, alive, connection>>
      /\ cursor_id' = [cursor_id EXCEPT ![self] = 0]
      /\ cleanup_list' = UnhookedByFreeLe(self)
      /\ cursor_list' = ListAfterFreeLe(self, 0)
      /\ srv' = ServersAfterFreeLe(self, 0)
  BY DEF GetMoreNotFound, HeaderRead, FreeLe
<1>2. /\ self \in Cursors
      /\ server[connection[self]] \in Servers
      /\ cursor_id[self] \in CursorIds
  BY <1>1, GetMoreTarget DEF CoreInv
<1>3. srv[server[connection[self]]][cursor_id[self]] = "gone"
  BY DEF GetMoreNotFound
<1>4. srv' = srv
  BY <1>1, <1>2, ZeroIsNotListed DEF ServersAfterFreeLe
<1>5. srv = SetId(server[connection[self]], cursor_id[self], "gone")
  <2>1. [srv[server[connection[self]]] EXCEPT ![cursor_id[self]] = "gone"]
           = srv[server[connection[self]]]
    BY <1>2, <1>3 DEF TypeOK
  <2> QED BY <1>2, <2>1 DEF SetId, TypeOK
<1> QED BY <1>1, <1>4, <1>5, ServerClosedReleases

\* A failed ping destroys one connection, which may be that of any cursor.
LEMMA SeedPingFailsDestroys ==
  ASSUME ConstantsAssumption, TypeOK, CoreInv, SeedPingFails
  PROVE  \E D, F, f : Destroys(D, F, f)
<1>1. PICK a \in FindByHash(Seeds[seed]) : Destroy({a}, {}, srv)
  BY DEF SeedPingFails
<1>2. {a} \subseteq pool
  BY DEF FindByHash
<1>3. UNCHANGED <<alive, cursor_list, cursor_id>>
  BY DEF SeedPingFails
<1> QED BY <1>1, <1>2, <1>3 DEF Destroys

\* So does a write that could not be sent.
LEMMA WriteSendFailsDestroys ==
  ASSUME ConstantsAssumption, TypeOK, CoreInv, WriteSendFails
  PROVE  \E D, F, f : Destroys(D, F, f)
<1>1. PICK a \in Candidates \cap broken : Destroy({a}, {}, srv)
  BY DEF WriteSendFails
<1>2. {a} \subseteq pool
  BY DEF Candidates
<1>3. UNCHANGED <<alive, cursor_list, cursor_id>>
  BY DEF WriteSendFails
<1> QED BY <1>1, <1>2, <1>3 DEF Destroys

\* So does a query that could not be sent.
LEMMA QuerySendFailsDestroys ==
  ASSUME ConstantsAssumption, TypeOK, CoreInv, QuerySendFails
  PROVE  \E D, F, f : Destroys(D, F, f)
<1>1. Destroy({connection[self]}, {self}, srv)
  BY DEF QuerySendFails
<1>2. {connection[self]} \subseteq pool
  BY DEF QuerySendFails, TypeOK
<1>3. UNCHANGED <<alive, cursor_list, cursor_id>>
  BY DEF QuerySendFails
<1> QED BY <1>1, <1>2, <1>3 DEF Destroys

\* So does an OP_GET_MORE that could not be sent.
LEMMA GetMoreSendFailsDestroys ==
  ASSUME ConstantsAssumption, TypeOK, CoreInv, GetMoreSendFails
  PROVE  \E D, F, f : Destroys(D, F, f)
<1>1. Destroy({connection[self]}, {self}, srv)
  BY DEF GetMoreSendFails
<1>2. {connection[self]} \subseteq pool
  BY DEF GetMoreSendFails, TypeOK
<1>3. UNCHANGED <<alive, cursor_list, cursor_id>>
  BY DEF GetMoreSendFails
<1> QED BY <1>1, <1>2, <1>3 DEF Destroys

\* MongoClient::close destroys one connection or all of them.
LEMMA CloseDestroys ==
  ASSUME ConstantsAssumption, TypeOK, CoreInv, CloseOne \/ CloseAll
  PROVE  \E D, F, f : Destroys(D, F, f)
<1>1. PICK D : D \subseteq pool /\ Destroy(D, {}, srv)
  BY DEF CloseOne, CloseAll
<1>2. UNCHANGED <<alive, cursor_list, cursor_id>>
  BY DEF CloseOne, CloseAll
<1> QED BY <1>1, <1>2 DEF Destroys

\* Whatever is read of a header before a reply fails, is read for the cursor
\* of the call.
LEMMA ReplyFailsOnlySelf ==
  ASSUME TypeOK, ReplyFails
  PROVE  /\ UNCHANGED <<alive, cursor_list>>
         /\ \A c \in Cursors : c # self => cursor_id'[c] = cursor_id[c]
BY DEF ReplyFails, HeaderRead, TypeOK

\* A failed reply destroys the connection, whatever the server had opened over it
\* and whatever of the header had been read.
LEMMA QueryReplyFailsDestroys ==
  ASSUME ConstantsAssumption, TypeOK, CallInv, CoreInv, QueryReplyFails
  PROVE  \E D, F, f : Destroys(D, F, f)
<1>1. /\ self \in Cursors
      /\ connection[self] \in pool /\ connection[self] \in Conns
      /\ cleanup_list[connection[self]][self] = 1
      /\ server[connection[self]] \in Servers
  BY DEF QueryReplyFails, CallInv, TypeOK
<1>2. /\ UNCHANGED <<alive, cursor_list>>
      /\ \A c \in Cursors : c # self => cursor_id'[c] = cursor_id[c]
  BY ReplyFailsOnlySelf DEF QueryReplyFails
<1>3. \A c \in Cursors :
         cursor_id'[c] = cursor_id[c] \/ c \in HasCallbackOn({connection[self]})
  BY <1>1, <1>2 DEF HasCallbackOn
<1>4. CASE Destroy({connection[self]}, {self}, srv)
  BY <1>1, <1>2, <1>3, <1>4 DEF Destroys
<1>5. ASSUME NEW id \in CursorIds,
             srv[server[connection[self]]][id] = "fresh",
             Destroy({connection[self]}, {self},
                     SetId(server[connection[self]], id, connection[self]))
      PROVE  \E D, F, f : Destroys(D, F, f)
  BY <1>1, <1>2, <1>3, <1>5 DEF Destroys
<1> QED BY <1>4, <1>5 DEF QueryReplyFails

\* The same of a reply to OP_GET_MORE.
LEMMA GetMoreReplyFailsDestroys ==
  ASSUME ConstantsAssumption, TypeOK, CallInv, CoreInv, GetMoreReplyFails
  PROVE  \E D, F, f : Destroys(D, F, f)
<1>0. pc = "getmore" /\ HasSession(self) /\ SessionsAreSound
  BY DEF GetMoreReplyFails, CallInv, CoreInv
<1>1. /\ self \in Cursors
      /\ connection[self] \in pool /\ connection[self] \in Conns
      /\ server[connection[self]] \in Servers
      /\ cursor_id[self] \in CursorIds
  BY <1>0, GetMoreTarget
<1>2. /\ UNCHANGED <<alive, cursor_list>>
      /\ \A c \in Cursors : c # self => cursor_id'[c] = cursor_id[c]
  BY ReplyFailsOnlySelf DEF GetMoreReplyFails
<1>3. \A c \in Cursors :
         cursor_id'[c] = cursor_id[c] \/ c \in HasCallbackOn({connection[self]})
  <2>1. cleanup_list[connection[self]][self] = 1
    BY <1>0, <1>1 DEF SessionsAreSound
  <2> QED BY <1>1, <1>2, <2>1 DEF HasCallbackOn
<1>4. CASE Destroy({connection[self]}, {self}, srv)
  BY <1>1, <1>2, <1>3, <1>4 DEF Destroys
<1>5. CASE Destroy({connection[self]}, {self},
                   SetId(server[connection[self]], cursor_id[self], "gone"))
  <2>1. srv[server[connection[self]]][cursor_id[self]] \in {connection[self], "gone"}
    BY <1>0, <1>1 DEF CoreInv, ServerInv, ConstantsAssumption
  <2> QED BY <1>1, <1>2, <1>3, <1>5, <2>1 DEF Destroys
<1> QED BY <1>4, <1>5 DEF GetMoreReplyFails

\* A new connection may have the address of one that stale cursors still
\* point to, but none of them has a session or a callback.
LEMMA SeedConnectsCore ==
  ASSUME ConstantsAssumption, TypeOK, CoreInv, SeedConnects
  PROVE  CoreInv'
<1>1. PICK a \in Conns \ pool, k \in Sockets :
         /\ \A b \in pool : socket[b] # k
         /\ pool' = pool \cup {a}
         /\ hash' = [hash EXCEPT ![a] = Seeds[seed]]
         /\ server' = [server EXCEPT ![a] = ServerOf[Seeds[seed]]]
         /\ socket' = [socket EXCEPT ![a] = k]
         /\ cleanup_list' = [cleanup_list EXCEPT ![a] = NoCallbacks]
  BY DEF SeedConnects
<1>2. UNCHANGED <<broken, alive, connection, cursor_id, cursor_list, srv>>
  BY DEF SeedConnects, cursorVars
<1>3. \A b \in Conns, d \in Cursors :
         cleanup_list'[b][d] = IF b = a THEN 0 ELSE cleanup_list[b][d]
  BY <1>1 DEF NoCallbacks, TypeOK
<1>4. \A b \in pool : /\ b # a
                     /\ hash'[b] = hash[b] /\ server'[b] = server[b]
                     /\ socket'[b] = socket[b]
  BY <1>1 DEF TypeOK
<1>5. /\ hash'[a] = Seeds[seed] /\ server'[a] = ServerOf[Seeds[seed]]
      /\ socket'[a] = k
  BY <1>1 DEF TypeOK
<1>6. CallbacksAreSound'
  BY <1>1, <1>2, <1>3 DEF CoreInv, CallbacksAreSound
<1>7. \A d \in Cursors : HasSession(d)' <=> HasSession(d)
  BY <1>2 DEF HasSession
<1>8. \A d \in Cursors : HasSession(d) => connection[d] \in pool
  BY DEF CoreInv, SessionsAreSound
<1>9. SessionsAreSound'
  <2> SUFFICES ASSUME NEW d \in Cursors, HasSession(d)
               PROVE  /\ connection[d] \in pool'
                      /\ cleanup_list'[connection[d]][d] = 1
                      /\ OnList(d, cursor_id[d])'
    BY <1>2, <1>7 DEF SessionsAreSound
  <2>1. /\ connection[d] \in pool
        /\ cleanup_list[connection[d]][d] = 1
        /\ OnList(d, cursor_id[d])
    BY DEF CoreInv, SessionsAreSound
  <2>2. connection[d] # a /\ connection[d] \in Conns
    BY <1>4, <2>1 DEF TypeOK
  <2> QED BY <1>1, <1>2, <1>3, <1>4, <2>1, <2>2 DEF OnList, Node
<1>10. NoForgottenServerCursor'
  <2>1. \A s \in Servers, i \in CursorIds : srv[s][i] # a
    BY <1>1 DEF CoreInv, ServerInv
  <2> QED BY <1>1, <1>2, <2>1 DEF CoreInv, NoForgottenServerCursor
<1>11. PoolInv'
  <2>1. \A b \in pool : hash[b] # Seeds[seed]
    BY DEF SeedConnects, FindByHash
  <2> QED BY <1>1, <1>4, <1>5, <2>1 DEF CoreInv, PoolInv
<1>12. ServerInv'
  <2>1. \A s \in Servers, i \in CursorIds : srv'[s][i] \in Conns =>
          srv'[s][i] \in pool' /\ server'[srv'[s][i]] = s
    BY <1>1, <1>2, <1>4 DEF CoreInv, ServerInv
  <2>2. \A c \in Cursors : HasSession(c)' =>
          srv'[server'[connection'[c]]][cursor_id'[c]] \in {connection'[c], "gone"}
    BY <1>2, <1>4, <1>7, <1>8 DEF CoreInv, ServerInv
  <2>3. \A c, d \in Cursors :
          /\ c # d
          /\ HasSession(c)' /\ HasSession(d)'
          /\ server'[connection'[c]] = server'[connection'[d]]
          => cursor_id'[c] # cursor_id'[d]
    BY <1>2, <1>4, <1>7, <1>8 DEF CoreInv, ServerInv
  <2> QED BY <2>1, <2>2, <2>3 DEF ServerInv
<1> QED BY <1>6, <1>9, <1>10, <1>11, <1>12 DEF CoreInv

\* The cursor, free of callbacks, gets one on the connection it will query.
LEMMA PickForCursorCore ==
  ASSUME ConstantsAssumption, TypeOK, CallInv, CoreInv, PickForCursor
  PROVE  CoreInv'
<1>1. PICK a \in Candidates :
         /\ connection' = [connection EXCEPT ![self] = a]
         /\ cleanup_list' = [cleanup_list EXCEPT ![a][self] = @ + 1]
  BY DEF PickForCursor
<1>2. /\ self \in Cursors /\ self \in alive
      /\ cursor_id[self] = 0
      /\ \A b \in Conns : cleanup_list[b][self] = 0
  BY DEF PickForCursor, CallInv, TypeOK
<1>3. a \in pool /\ a \in Conns
  BY DEF Candidates, TypeOK
<1>4. UNCHANGED <<pool, hash, server, socket, broken, alive, cursor_id, cursor_list, srv>>
  BY DEF PickForCursor
<1>5. \A b \in Conns, d \in Cursors :
         cleanup_list'[b][d] = IF b = a /\ d = self THEN 1 ELSE cleanup_list[b][d]
  <2>1. cleanup_list'[a][self] = 1
    BY <1>1, <1>2, <1>3 DEF TypeOK
  <2>2. \A b \in Conns, d \in Cursors :
           b # a \/ d # self => cleanup_list'[b][d] = cleanup_list[b][d]
    BY <1>1, <1>2, <1>3 DEF TypeOK
  <2> QED BY <2>1, <2>2
<1>6. connection'[self] = a /\ \A d \in Cursors : d # self => connection'[d] = connection[d]
  BY <1>1, <1>2 DEF TypeOK
<1>7. \A d \in Cursors : HasSession(d)' <=> HasSession(d)
  BY <1>2, <1>4, <1>6 DEF HasSession
<1>8. ~HasSession(self)
  BY <1>2 DEF HasSession
<1>9. CallbacksAreSound'
  BY <1>2, <1>3, <1>4, <1>5, <1>6 DEF CoreInv, CallbacksAreSound
<1>10. SessionsAreSound'
  <2> SUFFICES ASSUME NEW d \in Cursors, HasSession(d)
               PROVE  /\ connection'[d] \in pool'
                      /\ cleanup_list'[connection'[d]][d] = 1
                      /\ OnList(d, cursor_id[d])'
    BY <1>7 DEF SessionsAreSound
  <2>1. /\ connection[d] \in pool
        /\ cleanup_list[connection[d]][d] = 1
        /\ OnList(d, cursor_id[d])
    BY DEF CoreInv, SessionsAreSound
  <2>2. d # self /\ connection'[d] = connection[d] /\ connection[d] \in Conns
    BY <1>6, <1>8, <2>1 DEF TypeOK
  <2> QED BY <1>4, <1>5, <2>1, <2>2 DEF OnList, Node
<1>11. NoForgottenServerCursor'
  <2> SUFFICES ASSUME NEW s \in Servers, NEW i \in CursorIds,
                      srv[s][i] \in pool \ broken
               PROVE  \E d \in alive : cursor_id[d] = i /\ connection'[d] = srv[s][i]
    BY <1>4 DEF NoForgottenServerCursor
  <2>1. PICK d \in alive : cursor_id[d] = i /\ connection[d] = srv[s][i]
    BY DEF CoreInv, NoForgottenServerCursor
  <2>2. d \in Cursors /\ d # self
    BY <1>2, <2>1 DEF TypeOK, ConstantsAssumption
  <2> QED BY <1>6, <2>1, <2>2
<1>12. PoolInv'
  BY <1>4 DEF CoreInv, PoolInv
<1>13. ServerInv'
  BY <1>4, <1>6, <1>7, <1>8 DEF CoreInv, ServerInv
<1> QED BY <1>9, <1>10, <1>11, <1>12, <1>13 DEF CoreInv

\* A first batch with an id opens one session, noted under an id no other session
\* of the server has.
LEMMA QueryReplyCore ==
  ASSUME ConstantsAssumption, TypeOK, CallInv, CoreInv, QueryReply
  PROVE  CoreInv'
<1> DEFINE a == connection[self]
<1>1. /\ self \in Cursors /\ self \in alive
      /\ cursor_id[self] = 0
      /\ a \in pool /\ a \in Conns /\ a # NULL /\ a \notin broken
      /\ cleanup_list[a][self] = 1
      /\ server[a] \in Servers
  BY DEF QueryReply, CallInv, TypeOK, ConstantsAssumption
<1>2. UNCHANGED <<pool, hash, server, socket, cleanup_list, broken, alive, connection>>
  BY DEF QueryReply, connVars
<1>3. CASE (\E n \in 0 .. MaxDocs : HeaderRead(0, n)) /\ UNCHANGED <<cursor_list, srv>>
  <2>1. cursor_id' = cursor_id
    BY <1>1, <1>3 DEF HeaderRead, TypeOK
  <2> QED BY <1>2, <1>3, <2>1, CoreUnchanged DEF Quiet
<1>4. ASSUME NEW id \in CursorIds, NEW n \in 0 .. MaxDocs,
             srv[server[a]][id] = "fresh",
             HeaderRead(id, n),
             srv' = SetId(server[a], id, a),
             cursor_list' = Noted(self, id)
      PROVE  CoreInv'
  <2>1. cursor_id'[self] = id /\ \A d \in Cursors : d # self => cursor_id'[d] = cursor_id[d]
    BY <1>1, <1>4 DEF HeaderRead, TypeOK
  <2>2. \A s \in Servers, i \in CursorIds :
           srv'[s][i] = IF s = server[a] /\ i = id THEN a ELSE srv[s][i]
    BY <1>1, <1>4 DEF SetId, TypeOK
  <2>3. "fresh" \notin Conns /\ id # 0
    BY DEF ConstantsAssumption
  <2>4. \A d \in Cursors : HasSession(d)' <=> d = self \/ HasSession(d)
    BY <1>1, <1>2, <2>1, <2>3 DEF HasSession
  <2>5. CallbacksAreSound'
    BY <1>2 DEF CoreInv, CallbacksAreSound
  <2>6. PoolInv'
    BY <1>2 DEF CoreInv, PoolInv
  <2>7. SessionsAreSound'
    BY <1>1, <1>2, <1>4, <2>1, <2>4 DEF CoreInv, SessionsAreSound, OnList, Noted, Node
  \* Another session of the same server has another id: this one is fresh.
  <2>8. \A d \in Cursors : HasSession(d) /\ d # self /\ server[connection[d]] = server[a]
           => cursor_id[d] # id
    BY <1>1, <1>4, <2>3 DEF CoreInv, ServerInv, HasSession, TypeOK
  <2>9. ServerInv'
    <3>1. \A s \in Servers, i \in CursorIds : srv'[s][i] \in Conns =>
            srv'[s][i] \in pool' /\ server'[srv'[s][i]] = s
      <4> SUFFICES ASSUME NEW s \in Servers, NEW i \in CursorIds, srv'[s][i] \in Conns
                   PROVE  srv'[s][i] \in pool /\ server[srv'[s][i]] = s
        BY <1>2
      <4>1. CASE s = server[a] /\ i = id
        BY <1>1, <2>2, <4>1
      <4>2. CASE ~(s = server[a] /\ i = id)
        <5>1. srv'[s][i] = srv[s][i]
          BY <2>2, <4>2
        <5>2. \A t \in Servers, k \in CursorIds : srv[t][k] \in Conns =>
                srv[t][k] \in pool /\ server[srv[t][k]] = t
          BY DEF CoreInv, ServerInv
        <5> QED BY <5>1, <5>2
      <4> QED BY <4>1, <4>2
    <3>2. \A d \in Cursors : HasSession(d)' =>
            srv'[server'[connection'[d]]][cursor_id'[d]] \in {connection'[d], "gone"}
      <4> SUFFICES ASSUME NEW d \in Cursors, HasSession(d)'
                   PROVE  srv'[server[connection[d]]][cursor_id'[d]]
                            \in {connection[d], "gone"}
        BY <1>2
      <4>1. CASE d = self
        BY <1>1, <2>1, <2>2, <4>1
      <4>2. CASE d # self
        <5>1. HasSession(d) /\ cursor_id'[d] = cursor_id[d]
          BY <2>1, <2>4, <4>2
        <5>2. srv[server[connection[d]]][cursor_id[d]] \in {connection[d], "gone"}
          BY <5>1 DEF CoreInv, ServerInv
        <5>3. /\ connection[d] \in Conns /\ server[connection[d]] \in Servers
              /\ cursor_id[d] \in CursorIds
          BY <5>1 DEF HasSession, TypeOK
        <5>4. srv[server[connection[d]]][cursor_id[d]] # "fresh"
          BY <2>3, <5>2, <5>3
        <5>5. ~(server[connection[d]] = server[a] /\ cursor_id[d] = id)
          BY <1>4, <5>4
        <5>6. srv'[server[connection[d]]][cursor_id[d]]
                = srv[server[connection[d]]][cursor_id[d]]
          BY <2>2, <5>3, <5>5
        <5> QED BY <5>1, <5>2, <5>6
      <4> QED BY <4>1, <4>2
    <3>3. \A c, d \in Cursors :
            /\ c # d
            /\ HasSession(c)' /\ HasSession(d)'
            /\ server'[connection'[c]] = server'[connection'[d]]
            => cursor_id'[c] # cursor_id'[d]
      BY <1>2, <2>1, <2>4, <2>8 DEF CoreInv, ServerInv
    <3> QED BY <3>1, <3>2, <3>3 DEF ServerInv
  <2>10. NoForgottenServerCursor'
    <3> SUFFICES ASSUME NEW s \in Servers, NEW i \in CursorIds,
                        srv'[s][i] \in pool \ broken
                 PROVE  \E c \in alive : cursor_id'[c] = i /\ connection[c] = srv'[s][i]
      BY <1>2 DEF NoForgottenServerCursor
    <3>1. CASE s = server[a] /\ i = id
      BY <1>1, <2>1, <2>2, <3>1
    <3>2. CASE ~(s = server[a] /\ i = id)
      <4>1. srv'[s][i] = srv[s][i]
        BY <2>2, <3>2
      <4>2. PICK c \in alive : cursor_id[c] = i /\ connection[c] = srv[s][i]
        BY <4>1 DEF CoreInv, NoForgottenServerCursor
      <4>3. c # self /\ c \in Cursors
        BY <1>1, <4>2 DEF TypeOK, ConstantsAssumption
      <4> QED BY <2>1, <4>1, <4>2, <4>3
    <3> QED BY <3>1, <3>2
  <2> QED BY <2>5, <2>6, <2>7, <2>9, <2>10 DEF CoreInv
<1> HIDE DEF a
<1> QED BY <1>3, <1>4 DEF QueryReply, a

\* A broken stream concerns the servers' cursors only.
LEMMA BreakCore ==
  ASSUME CoreInv, NEW a \in Conns, Break(a)
  PROVE  CoreInv'
BY DEF Break, cursorVars, CoreInv, CallbacksAreSound, SessionsAreSound,
       NoForgottenServerCursor, PoolInv, ServerInv, HasSession, OnList, Node

\* A server timing a cursor out ends no session: it answers "not found" later.
LEMMA ExpireCore ==
  ASSUME ConstantsAssumption, TypeOK, CoreInv,
         NEW s \in Servers, NEW id \in CursorIds, Expire(s, id)
  PROVE  CoreInv'
<1>1. \A t \in Servers, i \in CursorIds :
         srv'[t][i] = IF t = s /\ i = id THEN "gone" ELSE srv[t][i]
  BY DEF Expire, SetId, TypeOK
<1>2. "gone" \notin Conns
  BY DEF ConstantsAssumption
<1>3. UNCHANGED <<pool, hash, server, socket, broken, cleanup_list, alive, connection,
                  cursor_id, cursor_list>>
  BY DEF Expire, connVars, cursorVars
<1>4. \A d \in Cursors : HasSession(d)' <=> HasSession(d)
  BY <1>3 DEF HasSession
<1>5. CallbacksAreSound' /\ SessionsAreSound' /\ PoolInv'
  BY <1>3, <1>4 DEF CoreInv, CallbacksAreSound, SessionsAreSound,
                    PoolInv, OnList, Node
<1>6. NoForgottenServerCursor'
  BY <1>1, <1>2, <1>3 DEF CoreInv, NoForgottenServerCursor, TypeOK
<1>7. ServerInv'
  <2>1. \A t \in Servers, i \in CursorIds : srv'[t][i] \in Conns =>
          srv'[t][i] \in pool' /\ server'[srv'[t][i]] = t
    BY <1>1, <1>2, <1>3 DEF CoreInv, ServerInv
  <2>2. \A d \in Cursors : HasSession(d)' =>
          srv'[server'[connection'[d]]][cursor_id'[d]] \in {connection'[d], "gone"}
    <3> SUFFICES ASSUME NEW d \in Cursors, HasSession(d)
                 PROVE  srv'[server[connection[d]]][cursor_id[d]]
                          \in {connection[d], "gone"}
      BY <1>3, <1>4
    <3>1. server[connection[d]] \in Servers /\ cursor_id[d] \in CursorIds
      BY DEF HasSession, TypeOK
    <3>2. srv[server[connection[d]]][cursor_id[d]] \in {connection[d], "gone"}
      BY DEF CoreInv, ServerInv
    <3> QED BY <1>1, <3>1, <3>2
  <2>3. \A c, d \in Cursors :
          /\ c # d
          /\ HasSession(c)' /\ HasSession(d)'
          /\ server'[connection'[c]] = server'[connection'[d]]
          => cursor_id'[c] # cursor_id'[d]
    BY <1>3, <1>4 DEF CoreInv, ServerInv
  <2> QED BY <2>1, <2>2, <2>3 DEF ServerInv
<1> QED BY <1>5, <1>6, <1>7 DEF CoreInv

\* Nothing of the driver's state survives the worker.
LEMMA WorkerDiesCore ==
  ASSUME ConstantsAssumption, TypeOK, WorkerDies
  PROVE  CoreInv'
<1>1. \A s \in Servers, i \in CursorIds : srv'[s][i] \notin Conns
  BY DEF WorkerDies, Orphaned, ConstantsAssumption
<1>2. alive' = {} /\ pool' = {}
  BY DEF WorkerDies
<1>3. \A a \in Conns, c \in Cursors : cleanup_list'[a][c] = 0
  BY DEF WorkerDies, NoCallbacks
<1>4. \A c \in Cursors : ~HasSession(c)'
  BY <1>2 DEF HasSession
<1> QED BY <1>1, <1>2, <1>3, <1>4
        DEF CoreInv, CallbacksAreSound, SessionsAreSound, NoForgottenServerCursor,
            PoolInv, ServerInv

-----------------------------------------------------------------------------
(* What the call in progress relies on *)

\* Between two calls only the first part of CallInv says anything.
LEMMA IdleCallInv ==
  ASSUME pc' = "idle",
         \A c \in Cursors : c \notin alive' => connection'[c] = NULL /\ cursor_id'[c] = 0
  PROVE  CallInv'
BY DEF CallInv

\* A step that ends the call and touches no object but living ones, unless to
\* take their connections away.
LEMMA ReturnCallInv ==
  ASSUME CallInv, pc' = "idle", UNCHANGED alive,
         \A c \in Cursors : c \notin alive =>
            connection'[c] \in {connection[c], NULL} /\ cursor_id'[c] = cursor_id[c]
  PROVE  CallInv'
<1>1. \A c \in Cursors : c \notin alive' => connection'[c] = NULL /\ cursor_id'[c] = 0
  BY DEF CallInv
<1> QED BY <1>1, IdleCallInv

\* Destroying connections only ever takes them away.
LEMMA DestroyTakes ==
  ASSUME NEW D, NEW F, NEW f, Destroy(D, F, f)
  PROVE  /\ \A c \in Cursors : connection'[c] \in {connection[c], NULL}
         /\ \A a \in Conns, c \in Cursors : cleanup_list'[a][c] \in {cleanup_list[a][c], 0}
BY DEF Destroy, NoCallbacks

\* A step that ends the call leaves nothing to rely on.
LEMMA StepReturnsCallInv ==
  ASSUME ConstantsAssumption, TypeOK, CallInv, CoreInv,
         \/ PickFails \/ WriteDone \/ WriteSendFails \/ QueryEncodeFails
         \/ QuerySendFails \/ QueryReplyFails
         \/ GetMoreSendFails \/ GetMoreReply \/ GetMoreNotFound \/ GetMoreReplyFails
  PROVE  CallInv'
<1>1. CASE PickFails
  <2>1. self # NULL => self \in alive
    BY <1>1 DEF PickFails, CallInv
  <2>2. UNCHANGED <<alive, cursor_id>> /\ pc' = "idle"
    BY <1>1 DEF PickFails, Return
  <2>3. \A c \in Cursors : connection'[c] \in {connection[c], NULL}
    BY <1>1 DEF PickFails, TypeOK
  <2> QED BY <2>2, <2>3, ReturnCallInv
<1>2. CASE WriteDone
  BY <1>2, ReturnCallInv DEF WriteDone, Return, cursorVars
<1>3. CASE WriteSendFails
  <2>1. PICK a \in Candidates \cap broken : Destroy({a}, {}, srv)
    BY <1>3 DEF WriteSendFails
  <2>2. UNCHANGED <<alive, cursor_id>> /\ pc' = "idle"
    BY <1>3 DEF WriteSendFails, Return
  <2> QED BY <2>1, <2>2, DestroyTakes, ReturnCallInv
<1>4. CASE QueryEncodeFails
  BY <1>4, ReturnCallInv DEF QueryEncodeFails, QueryFailed, Return
<1>5. CASE QuerySendFails
  <2>1. Destroy({connection[self]}, {self}, srv)
    BY <1>5 DEF QuerySendFails
  <2>2. UNCHANGED <<alive, cursor_id>> /\ pc' = "idle"
    BY <1>5 DEF QuerySendFails, QueryFailed, Return
  <2> QED BY <2>1, <2>2, DestroyTakes, ReturnCallInv
<1>6. CASE QueryReplyFails
  <2>1. PICK f : Destroy({connection[self]}, {self}, f)
    BY <1>6 DEF QueryReplyFails
  <2>2. self \in alive /\ pc' = "idle"
    BY <1>6 DEF QueryReplyFails, QueryFailed, Return, CallInv
  <2>3. UNCHANGED alive /\ \A c \in Cursors : c # self => cursor_id'[c] = cursor_id[c]
    BY <1>6, ReplyFailsOnlySelf DEF QueryReplyFails
  <2> QED BY <2>1, <2>2, <2>3, DestroyTakes, ReturnCallInv
<1>7. CASE GetMoreSendFails
  <2>1. Destroy({connection[self]}, {self}, srv)
    BY <1>7 DEF GetMoreSendFails
  <2>2. UNCHANGED <<alive, cursor_id>> /\ pc' = "idle"
    BY <1>7 DEF GetMoreSendFails, Return
  <2> QED BY <2>1, <2>2, DestroyTakes, ReturnCallInv
<1>8. CASE GetMoreReply \/ GetMoreNotFound
  <2>1. /\ self \in alive /\ pc' = "idle"
        /\ UNCHANGED <<alive, connection>>
    BY <1>8 DEF GetMoreReply, GetMoreNotFound, Return, CallInv
  <2>2. \A c \in Cursors : c # self => cursor_id'[c] = cursor_id[c]
    BY <1>8 DEF GetMoreReply, GetMoreNotFound, HeaderRead, TypeOK
  <2> QED BY <2>1, <2>2, ReturnCallInv
<1>9. CASE GetMoreReplyFails
  <2>1. PICK f : Destroy({connection[self]}, {self}, f)
    BY <1>9 DEF GetMoreReplyFails
  <2>2. self \in alive /\ pc' = "idle"
    BY <1>9 DEF GetMoreReplyFails, Return, CallInv
  <2>3. UNCHANGED alive /\ \A c \in Cursors : c # self => cursor_id'[c] = cursor_id[c]
    BY <1>9, ReplyFailsOnlySelf DEF GetMoreReplyFails
  <2> QED BY <2>1, <2>2, <2>3, DestroyTakes, ReturnCallInv
<1> QED BY <1>1, <1>2, <1>3, <1>4, <1>5, <1>6, <1>7, <1>8, <1>9

\* hasNext and next go on to OP_GET_MORE with a session, or return.
LEMMA BodyCallInv ==
  ASSUME ConstantsAssumption, TypeOK, CallInv, NEW c \in Cursors,
         \/ BodyUninitialized(c) \/ BodyDone(c) \/ BodyHasDocument(c)
         \/ BodyExhausted(c) \/ BodyGetMore(c)
  PROVE  CallInv'
<1>1. c \in alive /\ self = c
  BY DEF BodyUninitialized, BodyDone, BodyHasDocument, BodyExhausted, BodyGetMore, Body,
         CallInv
<1>2. CASE BodyUninitialized(c) \/ BodyExhausted(c)
  BY <1>2, ReturnCallInv DEF BodyUninitialized, BodyExhausted, Stop, Return
<1>3. CASE BodyHasDocument(c)
  BY <1>3, ReturnCallInv DEF BodyHasDocument, Return
<1>4. CASE BodyDone(c)
  <2>1. UNCHANGED <<alive, connection>> /\ pc' = "idle"
    BY <1>4 DEF BodyDone, Stop, Return
  <2>2. \A d \in Cursors : d # c => cursor_id'[d] = cursor_id[d]
    BY <1>4 DEF BodyDone, TypeOK
  <2> QED BY <1>1, <2>1, <2>2, ReturnCallInv
<1>5. CASE BodyGetMore(c)
  <2>1. /\ UNCHANGED <<alive, connection, cursor_id>>
        /\ pc' = "getmore" /\ self' = c
    BY <1>1, <1>5 DEF BodyGetMore, cursorVars
  <2>2. HasSession(c)'
    BY <1>1, <1>5, <2>1 DEF BodyGetMore, HasSession
  <2> QED BY <1>1, <2>1, <2>2 DEF CallInv
<1> QED BY <1>2, <1>3, <1>4, <1>5

\* While the seeds are tried, the cursor of the call has no callback.
LEMMA SeedCallInv ==
  ASSUME ConstantsAssumption, TypeOK, CallInv, CoreInv,
         SeedIsConnected \/ SeedPingFails \/ SeedConnects \/ SeedConnectFails
  PROVE  CallInv'
<1>1. pc = "seeds" /\ pc' \in {"seeds", "pick"} /\ self' = self
  BY DEF SeedIsConnected, SeedPingFails, SeedConnects, SeedConnectFails, NextSeed
<1>2. /\ UNCHANGED <<alive, cursor_id>>
      /\ \A c \in Cursors : connection'[c] \in {connection[c], NULL}
      /\ \A a \in Conns, c \in Cursors : cleanup_list'[a][c] \in {cleanup_list[a][c], 0}
  <2>1. CASE SeedIsConnected \/ SeedConnectFails
    BY <2>1 DEF SeedIsConnected, SeedConnectFails, connVars, cursorVars
  <2>2. CASE SeedPingFails
    <3>1. PICK a \in FindByHash(Seeds[seed]) : Destroy({a}, {}, srv)
      BY <2>2 DEF SeedPingFails
    <3> QED BY <2>2, <3>1, DestroyTakes DEF SeedPingFails
  <2>3. CASE SeedConnects
    <3>1. \A a \in Conns, c \in Cursors : cleanup_list'[a][c] \in {cleanup_list[a][c], 0}
      BY <2>3 DEF SeedConnects, NoCallbacks, TypeOK
    <3> QED BY <2>3, <3>1 DEF SeedConnects, cursorVars
  <2> QED BY <2>1, <2>2, <2>3
<1>3. self # NULL =>
        /\ self \in alive /\ self \in Cursors /\ cursor_id[self] = 0
        /\ \A a \in Conns : cleanup_list[a][self] = 0
  BY <1>1 DEF CallInv, TypeOK
<1>4. self' # NULL =>
        /\ self' \in alive' /\ cursor_id'[self'] = 0
        /\ \A a \in Conns : cleanup_list'[a][self'] = 0
  BY <1>1, <1>2, <1>3
<1>5. \A c \in Cursors : c \notin alive' => connection'[c] = NULL /\ cursor_id'[c] = 0
  BY <1>2 DEF CallInv
<1> QED BY <1>1, <1>4, <1>5 DEF CallInv

\* The query is sent over an allocated connection that calls its cursor back.
LEMMA PickForCursorCallInv ==
  ASSUME ConstantsAssumption, TypeOK, CallInv, PickForCursor
  PROVE  CallInv'
<1>1. PICK a \in Candidates :
         /\ connection' = [connection EXCEPT ![self] = a]
         /\ cleanup_list' = [cleanup_list EXCEPT ![a][self] = @ + 1]
  BY DEF PickForCursor
<1>2. /\ self \in Cursors /\ self \in alive /\ cursor_id[self] = 0
      /\ \A b \in Conns : cleanup_list[b][self] = 0
      /\ a \in pool /\ a \in Conns
  BY DEF PickForCursor, CallInv, Candidates, TypeOK
<1>3. UNCHANGED <<pool, alive, cursor_id, self>> /\ pc' = "query"
  BY DEF PickForCursor
<1>4. connection'[self] = a /\ cleanup_list'[a][self] = 1
  BY <1>1, <1>2 DEF TypeOK
<1>5. \A c \in Cursors : c \notin alive => connection'[c] = NULL /\ cursor_id[c] = 0
  BY <1>1, <1>2 DEF CallInv, TypeOK
<1> QED BY <1>2, <1>3, <1>4, <1>5 DEF CallInv

\* After the first batch the cursor of the call still exists.
LEMMA QueryReplyCallInv ==
  ASSUME ConstantsAssumption, TypeOK, CallInv, QueryReply
  PROVE  CallInv'
<1>1. /\ self \in alive /\ self' = self /\ pc' = "body"
      /\ UNCHANGED <<alive, connection>>
  BY DEF QueryReply, CallInv
<1>2. \A c \in Cursors : c # self => cursor_id'[c] = cursor_id[c]
  BY DEF QueryReply, HeaderRead, TypeOK
<1> QED BY <1>1, <1>2 DEF CallInv

\* doQuery enters the seed loop with an exhausted cursor without callbacks.
LEMMA BeginQueryCallInv ==
  ASSUME ConstantsAssumption, TypeOK, CallInv, CoreInv, NEW c \in Cursors, c \in alive,
         NEW f, BeginQuery(c, f)
  PROVE  CallInv'
<1>1. /\ pc' = "seeds" /\ self' = c
      /\ UNCHANGED <<alive, connection>>
      /\ cursor_id' = [cursor_id EXCEPT ![c] = 0]
  BY DEF BeginQuery, Enter, ResetFields
<1>2. \A a \in Conns : cleanup_list'[a][c] = 0
  BY BeginQueryUnhooks
<1>3. cursor_id'[c] = 0 /\ \A d \in Cursors : d # c => cursor_id'[d] = cursor_id[d]
  BY <1>1 DEF TypeOK
<1> QED BY <1>1, <1>2, <1>3 DEF CallInv

\* hasNext and next begin as they rely on.
LEMMA IterateCallInv ==
  ASSUME ConstantsAssumption, TypeOK, CallInv, CoreInv, NEW c \in Cursors, c \in alive,
         NEW f, Iterate(c, f)
  PROVE  CallInv'
<1>1. CASE BeginQuery(c, f)
  BY <1>1, BeginQueryCallInv
<1>2. CASE ContinueIteration(c, f)
  BY <1>2 DEF ContinueIteration, Enter, cursorVars, CallInv
<1> QED BY <1>1, <1>2 DEF Iterate

\* The calls without a network step leave objects that are gone blank.
LEMMA IdleCallsCallInv ==
  ASSUME ConstantsAssumption, TypeOK, CallInv,
         \/ \E c \in Cursors : NewCursor(c) \/ FreeCursor(c) \/ CallReset(c)
         \/ CloseOne \/ CloseAll
  PROVE  CallInv'
<1>1. pc' = "idle"
  BY DEF NewCursor, FreeCursor, CallReset, CloseOne, CloseAll, callVars
<1>2. ASSUME NEW c \in Cursors, NewCursor(c)
      PROVE  CallInv'
  <2>1. \A d \in Cursors : d \notin alive' => connection'[d] = NULL /\ cursor_id'[d] = 0
    BY <1>2 DEF NewCursor, ResetFields, CallInv, TypeOK
  <2> QED BY <1>1, <2>1, IdleCallInv
<1>3. ASSUME NEW c \in Cursors, FreeCursor(c)
      PROVE  CallInv'
  <2>1. \A d \in Cursors : d \notin alive' => connection'[d] = NULL /\ cursor_id'[d] = 0
    BY <1>3 DEF FreeCursor, ResetFields, CallInv, TypeOK
  <2> QED BY <1>1, <2>1, IdleCallInv
<1>4. ASSUME NEW c \in Cursors, CallReset(c)
      PROVE  CallInv'
  <2>1. \A d \in Cursors : d \notin alive' => connection'[d] = NULL /\ cursor_id'[d] = 0
    BY <1>4 DEF CallReset, Reset, ResetFields, CallInv, TypeOK
  <2> QED BY <1>1, <2>1, IdleCallInv
<1>5. CASE CloseOne \/ CloseAll
  <2>1. PICK D : Destroy(D, {}, srv)
    BY <1>5 DEF CloseOne, CloseAll
  <2>2. UNCHANGED <<alive, cursor_id>>
    BY <1>5 DEF CloseOne, CloseAll
  <2> QED BY <1>1, <2>1, <2>2, DestroyTakes, ReturnCallInv
<1> QED BY <1>2, <1>3, <1>4, <1>5

\* Every call begins as its steps rely on.
LEMMA CallCallInv ==
  ASSUME ConstantsAssumption, TypeOK, CallInv, CoreInv, Call
  PROVE  CallInv'
<1>1. ASSUME NEW c \in Cursors, CallHasNext(c) \/ CallNext(c)
      PROVE  CallInv'
  BY <1>1, IterateCallInv DEF CallHasNext, CallNext
<1>2. ASSUME NEW c \in Cursors, CallRewind(c)
      PROVE  CallInv'
  <2>1. CASE CallReset(c)
    BY <2>1, IdleCallsCallInv
  <2>2. CASE BeginQuery(c, "next")
    BY <1>2, <2>2, BeginQueryCallInv DEF CallRewind
  <2> QED BY <1>2, <2>1, <2>2 DEF CallRewind
<1>3. CASE CallWrite
  BY <1>3 DEF CallWrite, Enter, cursorVars, CallInv
<1> QED BY <1>1, <1>2, <1>3, IdleCallsCallInv DEF Call

\* What the environment does leaves the call what it relies on.
LEMMA EnvironmentCallInv ==
  ASSUME ConstantsAssumption, TypeOK, CallInv, Environment
  PROVE  CallInv'
<1>1. ASSUME NEW a \in Conns, Break(a)
      PROVE  CallInv'
  BY <1>1 DEF Break, cursorVars, callVars, CallInv, HasSession
<1>2. ASSUME NEW s \in Servers, NEW id \in CursorIds, Expire(s, id)
      PROVE  CallInv'
  BY <1>2 DEF Expire, connVars, cursorVars, callVars, CallInv, HasSession
<1>3. CASE WorkerDies
  BY <1>3, IdleCallInv DEF WorkerDies, Return
<1> QED BY <1>1, <1>2, <1>3 DEF Environment

\* A call begins with a new object, closes the session of its cursor, destroys
\* connections, or changes nothing of the core.
LEMMA CallKinds ==
  ASSUME ConstantsAssumption, TypeOK, CallInv, CoreInv, Call
  PROVE  \/ Quiet
         \/ \E c \in Cursors : Releases(c)
         \/ \E D, F, f : Destroys(D, F, f)
         \/ \E c \in Cursors : NewCursor(c)
<1>1. ASSUME NEW c \in Cursors, CallHasNext(c) \/ CallNext(c)
      PROVE  Releases(c) \/ Quiet
  BY <1>1, IterateReleases DEF CallHasNext, CallNext
<1>2. ASSUME NEW c \in Cursors, CallRewind(c)
      PROVE  Releases(c)
  BY <1>2, CallResetReleases, BeginQueryReleases DEF CallRewind
<1>3. CASE CallWrite
  BY <1>3 DEF Quiet, CallWrite, connVars, cursorVars
<1> QED BY <1>1, <1>2, <1>3, FreeCursorReleases, CallResetReleases, CloseDestroys DEF Call

\* Every call keeps the core as it begins.
LEMMA CallCore ==
  ASSUME ConstantsAssumption, TypeOK, CallInv, CoreInv, Call
  PROVE  CoreInv'
BY CallKinds, CoreUnchanged, ReleaseCore, DestroyCore, NewCursorCore

\* The other steps of a call only move it on.
LEMMA QuietSteps ==
  ASSUME \/ SeedIsConnected \/ SeedConnectFails \/ WriteDone \/ QueryEncodeFails
         \/ \E c \in Cursors : \/ BodyUninitialized(c) \/ BodyHasDocument(c)
                               \/ BodyExhausted(c) \/ BodyGetMore(c)
  PROVE  Quiet
BY DEF Quiet, SeedIsConnected, SeedConnectFails, WriteDone, QueryEncodeFails,
       BodyUninitialized, BodyHasDocument, BodyExhausted, BodyGetMore, Stop,
       connVars, cursorVars

\* A step of a call closes the session of its cursor, destroys connections,
\* connects one, picks one, opens a session, or changes nothing of the core.
LEMMA StepKinds ==
  ASSUME ConstantsAssumption, TypeOK, CallInv, CoreInv, Step
  PROVE  \/ Quiet
         \/ \E c \in Cursors : Releases(c)
         \/ \E D, F, f : Destroys(D, F, f)
         \/ SeedConnects \/ PickForCursor \/ QueryReply
BY QuietSteps, SeedPingFailsDestroys, PickFailsReleases, WriteSendFailsDestroys,
   QuerySendFailsDestroys, QueryReplyFailsDestroys, BodyDoneReleases,
   GetMoreSendFailsDestroys, GetMoreReplyReleases, GetMoreNotFoundReleases,
   GetMoreReplyFailsDestroys
   DEF Step

\* Every step of a call keeps the core.
LEMMA StepCore ==
  ASSUME ConstantsAssumption, TypeOK, CallInv, CoreInv, Step
  PROVE  CoreInv'
BY StepKinds, CoreUnchanged, ReleaseCore, DestroyCore, SeedConnectsCore, PickForCursorCore,
   QueryReplyCore

\* Every step of a call leaves the next one what it relies on.
LEMMA StepCallInv ==
  ASSUME ConstantsAssumption, TypeOK, CallInv, CoreInv, Step
  PROVE  CallInv'
BY StepReturnsCallInv, BodyCallInv, SeedCallInv, PickForCursorCallInv, QueryReplyCallInv
   DEF Step

\* What the environment does keeps the core.
LEMMA EnvironmentCore ==
  ASSUME ConstantsAssumption, TypeOK, CoreInv, Environment
  PROVE  CoreInv'
BY BreakCore, ExpireCore, WorkerDiesCore DEF Environment

-----------------------------------------------------------------------------
(* The theorems *)

\* The invariant holds of a new worker.
LEMMA InitIInv ==
  ASSUME ConstantsAssumption, Init
  PROVE  IInv
<1>1. Seeds[1] \in Hashes /\ ServerOf[Seeds[1]] \in Servers /\ 1 \in 1 .. Len(Seeds)
  BY DEF ConstantsAssumption
<1>2. PICK k \in Sockets : socket = [a \in Conns |-> k]
  BY DEF Init
<1>3. TypeOK
  BY <1>1, <1>2 DEF Init, TypeOK, NoCallbacks, IdStates
<1>4. CallInv
  BY DEF Init, CallInv
<1>5. \A s \in Servers, i \in CursorIds : srv[s][i] \notin Conns
  BY DEF Init, ConstantsAssumption
<1>6. /\ \A a \in Conns, c \in Cursors : ~(cleanup_list[a][c] > 0)
      /\ \A c \in Cursors : ~HasSession(c)
  BY DEF Init, NoCallbacks, HasSession
<1>7. CoreInv
  BY <1>5, <1>6 DEF CoreInv, CallbacksAreSound, SessionsAreSound, NoForgottenServerCursor,
                    PoolInv, ServerInv, Init
<1> QED BY <1>3, <1>4, <1>7 DEF IInv

\* No step breaks the invariant.
LEMMA NextIInv ==
  ASSUME ConstantsAssumption, IInv, [Next]_vars
  PROVE  IInv'
<1>1. TypeOK /\ CallInv /\ CoreInv /\ SessionsAreSound
  BY DEF IInv, CoreInv
<1>2. CASE Step
  BY <1>1, <1>2, StepType, StepCallInv, StepCore DEF IInv
<1>3. CASE Call
  BY <1>1, <1>3, CallType, CallCallInv, CallCore DEF IInv
<1>4. CASE Environment
  BY <1>1, <1>4, EnvironmentType, EnvironmentCallInv, EnvironmentCore DEF IInv
<1>5. CASE UNCHANGED vars
  <2>1. TypeOK' /\ CallInv'
    BY <1>1, <1>5 DEF vars, connVars, cursorVars, callVars, TypeOK, CallInv, HasSession
  <2>2. CoreInv'
    BY <1>1, <1>5, CoreUnchanged DEF Quiet, vars, connVars, cursorVars
  <2> QED BY <2>1, <2>2 DEF IInv
<1> QED BY <1>2, <1>3, <1>4, <1>5 DEF Next

\* The inductive invariant: what the servers, the cursors, the connections and
\* the cursor list know of each other always agrees.
THEOREM IInvHolds == Spec => []IInv
<1>1. Init => IInv
  BY InitIInv, ConstantsAssumption
<1>2. IInv /\ [Next]_vars => IInv'
  BY NextIInv, ConstantsAssumption
<1> QED BY <1>1, <1>2, PTL DEF Spec

\* Every field keeps to its type, connection pointers and ids included.
THEOREM TypeCorrect == Spec => []TypeOK
<1>1. IInv => TypeOK
  BY DEF IInv
<1> QED BY <1>1, IInvHolds, PTL

\* mongo_connection_destroy calls back only living cursors that point to the
\* connection, each once.
THEOREM CallbacksSound == Spec => []CallbacksAreSound
<1>1. IInv => CallbacksAreSound
  BY DEF IInv, CoreInv
<1> QED BY <1>1, IInvHolds, PTL

\* A cursor that may fetch more does so over an allocated connection that
\* knows of it, and has its node on the cursor list.
THEOREM SessionsSound == Spec => []SessionsAreSound
<1>1. IInv => SessionsAreSound
  BY DEF IInv, CoreInv
<1> QED BY <1>1, IInvHolds, PTL

\* No cursor a server keeps open for a working connection is forgotten.
THEOREM NoneForgotten == Spec => []NoForgottenServerCursor
<1>1. IInv => NoForgottenServerCursor
  BY DEF IInv, CoreInv
<1> QED BY <1>1, IInvHolds, PTL
=============================================================================
