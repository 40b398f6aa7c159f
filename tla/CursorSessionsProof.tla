------------------------- MODULE CursorSessionsProof -------------------------
(***************************************************************************)
(* Proof that CursorLifecycle implements CursorSessions, from the kinds of *)
(* step that CursorLifecycleProof sorts the actions into: a step that      *)
(* Releases a cursor closes its session, one that Destroys connections     *)
(* loses the sessions over them, a first batch with an id opens            *)
(* one, and nothing else touches a session.                                *)
(***************************************************************************)
EXTENDS CursorLifecycleProof

\* The refinement mapping of Sessions, by name.
sessions == [c \in Cursors |-> SessionOf(c)]
allotted == {p \in Servers \X CursorIds : srv[p[1]][p[2]] # "fresh"}

\* A step that changes nothing of the core changes no session.
LEMMA QuietSessions ==
  ASSUME Quiet
  PROVE  UNCHANGED <<sessions, allotted>>
BY DEF Quiet, sessions, allotted, SessionOf, HasSession

\* The session a cursor gives up is its own.
LEMMA ReleaseKeepsOthers ==
  ASSUME ConstantsAssumption, TypeOK, CoreInv, NEW c \in Cursors, Releases(c)
  PROVE  /\ SessionOf(c)' = NULL
         /\ \A d \in Cursors : d # c => SessionOf(d)' = SessionOf(d)
<1>1. cursor_id'[c] = 0
  BY DEF Releases, TypeOK
<1>2. \A d \in Cursors : d # c =>
        /\ connection'[d] = connection[d]
        /\ cursor_id'[d] = cursor_id[d]
        /\ d \in alive' <=> d \in alive
  BY DEF Releases, TypeOK
<1>3. hash' = hash
  BY DEF Releases
<1> QED BY <1>1, <1>2, <1>3 DEF SessionOf, HasSession

\* reset, rewind, exhaustion, a reached limit and destruction close a session.
LEMMA ReleaseSessions ==
  ASSUME ConstantsAssumption, TypeOK, CoreInv, NEW c \in Cursors, Releases(c)
  PROVE  Sessions!Close(c)
<1>1. sessions' = [sessions EXCEPT ![c] = NULL]
  BY ReleaseKeepsOthers DEF sessions
<1>2. \A s \in Servers, i \in CursorIds :
        srv'[s][i] = "fresh" <=> srv[s][i] = "fresh"
  <2>1. SUFFICES ASSUME NEW s \in Servers, NEW i \in CursorIds,
                        srv'[s][i] = "gone", HasSession(c),
                        s = server[connection[c]], i = cursor_id[c]
                 PROVE  srv[s][i] # "fresh"
    BY DEF Releases, SessionCloses
  <2>2. srv[s][i] \in {connection[c], "gone"}
    BY <2>1 DEF CoreInv, ServerInv
  <2> QED BY <2>1, <2>2 DEF HasSession, ConstantsAssumption, TypeOK
<1>3. allotted' = allotted
  BY <1>2 DEF allotted
<1> QED BY <1>1, <1>3 DEF Sessions!Close, sessions, allotted

\* The destruction of connections ends the sessions over them and no other.
LEMMA DestroyKeepsOthers ==
  ASSUME ConstantsAssumption, TypeOK, CoreInv, NEW D, NEW F, NEW f, Destroys(D, F, f)
  PROVE  /\ hash' = hash /\ server' = server
         /\ \A c \in Cursors :
              /\ HasSession(c)' <=> HasSession(c) /\ connection[c] \notin D
              /\ HasSession(c)' => /\ connection'[c] = connection[c]
                                   /\ cursor_id'[c] = cursor_id[c]
                                   /\ \A a \in D : hash[a] # hash[connection[c]]
<1>1. /\ hash' = hash /\ server' = server /\ alive' = alive /\ D \subseteq pool
      /\ \A c \in Cursors :
           /\ c \in HasCallbackOn(D) => connection'[c] = NULL
           /\ c \notin HasCallbackOn(D) => /\ connection'[c] = connection[c]
                                          /\ cursor_id'[c] = cursor_id[c]
  BY DEF Destroys, Destroy
<1>2. \A c \in Cursors : c \in HasCallbackOn(D) => connection[c] \in D
  BY <1>1 DEF HasCallbackOn, CoreInv, CallbacksAreSound, TypeOK
<1>3. \A c \in Cursors : HasSession(c) /\ connection[c] \in D => c \in HasCallbackOn(D)
  BY DEF HasCallbackOn, CoreInv, SessionsAreSound
<1>4. \A c \in Cursors : HasSession(c)' <=> HasSession(c) /\ connection[c] \notin D
  BY <1>1, <1>2, <1>3 DEF HasSession
<1>5. \A c \in Cursors : HasSession(c)' =>
         /\ connection'[c] = connection[c]
         /\ cursor_id'[c] = cursor_id[c]
         /\ \A a \in D : hash[a] # hash[connection[c]]
  <2> SUFFICES ASSUME NEW c \in Cursors, HasSession(c)'
               PROVE  /\ connection'[c] = connection[c]
                      /\ cursor_id'[c] = cursor_id[c]
                      /\ \A a \in D : hash[a] # hash[connection[c]]
    OBVIOUS
  <2>1. HasSession(c) /\ connection[c] \notin D
    BY <1>4
  <2>2. connection[c] \in pool
    BY <2>1 DEF CoreInv, SessionsAreSound
  <2> QED BY <1>1, <1>2, <2>1, <2>2 DEF CoreInv, PoolInv
<1> QED BY <1>1, <1>4, <1>5

\* One pair more is allotted when one id of a server stops being fresh.
LEMMA OneMoreAllotted ==
  ASSUME NEW s \in Servers, NEW id \in CursorIds, srv[s][id] = "fresh",
         \A t \in Servers, i \in CursorIds :
            srv'[t][i] # "fresh" <=> srv[t][i] # "fresh" \/ (t = s /\ i = id)
  PROVE  /\ <<s, id>> \notin allotted
         /\ allotted' = allotted \cup {<<s, id>>}
<1>1. \A p \in Servers \X CursorIds :
        srv'[p[1]][p[2]] # "fresh" <=> srv[p[1]][p[2]] # "fresh" \/ p = <<s, id>>
  OBVIOUS
<1> QED BY <1>1 DEF allotted

\* A lost connection loses every session over it.
LEMMA DestroySessions ==
  ASSUME ConstantsAssumption, TypeOK, CoreInv, NEW D, NEW F, NEW f, Destroys(D, F, f)
  PROVE  \E S \in SUBSET Hashes : Sessions!Lose(S)
<1> DEFINE S == {hash[a] : a \in D}
<1>0. "fresh" \notin Conns /\ "gone" \notin Conns /\ "orphan" \notin Conns
  BY DEF ConstantsAssumption
<1>1. /\ D \subseteq Conns /\ S \subseteq Hashes
      /\ \A a \in D : server[a] \in Servers /\ server[a] = ServerOf[hash[a]]
  BY DEF Destroys, TypeOK, CoreInv, PoolInv
<1>2. \A c \in Cursors :
        SessionOf(c)' = IF Sessions!Over(c, S) THEN NULL ELSE SessionOf(c)
  <2> SUFFICES ASSUME NEW c \in Cursors
               PROVE  SessionOf(c)' = IF Sessions!Over(c, S) THEN NULL ELSE SessionOf(c)
    OBVIOUS
  <2>1. Sessions!Over(c, S) <=> SessionOf(c) # NULL /\ SessionOf(c)[1] \in S
    BY DEF Sessions!Over
  <2>2. CASE HasSession(c) /\ connection[c] \in D
    <3>1. SessionOf(c)' = NULL
      BY <2>2, DestroyKeepsOthers DEF SessionOf
    <3>2. SessionOf(c)[1] \in S
      BY <2>2 DEF SessionOf
    <3> QED BY <2>1, <3>1, <3>2
  <2>3. CASE HasSession(c) /\ connection[c] \notin D
    <3>1. SessionOf(c)' = SessionOf(c)
      BY <2>3, DestroyKeepsOthers DEF SessionOf
    <3>2. SessionOf(c)[1] \notin S
      BY <2>3, DestroyKeepsOthers DEF SessionOf
    <3> QED BY <2>1, <3>1, <3>2
  <2>4. CASE ~HasSession(c)
    BY <2>1, <2>4, DestroyKeepsOthers DEF SessionOf
  <2> QED BY <2>2, <2>3, <2>4
<1>3. sessions' = [c \in Cursors |->
                     IF Sessions!Over(c, S) THEN NULL ELSE SessionOf(c)]
  BY <1>2 DEF sessions
<1>4. \/ allotted' = allotted
      \/ \E p \in S \X CursorIds :
           /\ Sessions!OnItsServer(p) \notin allotted
           /\ allotted' = allotted \cup {Sessions!OnItsServer(p)}
  <2>1. \A s \in Servers, i \in CursorIds :
          srv'[s][i] = "fresh" <=> f[s][i] = "fresh"
    BY <1>0, <1>1 DEF Destroys, Destroy, Orphaned
  <2>3. CASE f = srv
    BY <2>1, <2>3 DEF allotted
  <2>4. ASSUME NEW a \in D, NEW id \in CursorIds, f = SetId(server[a], id, "gone"),
               srv[server[a]][id] \in {a, "gone"}
        PROVE  allotted' = allotted
    <3>1. server[a] \in Servers /\ srv[server[a]][id] # "fresh"
      BY <1>0, <1>1, <2>4
    <3>2. \A s \in Servers, i \in CursorIds :
            srv'[s][i] = "fresh" <=> srv[s][i] = "fresh"
      BY <2>1, <2>4, <3>1 DEF SetId, TypeOK
    <3> QED BY <3>2 DEF allotted
  <2>5. ASSUME NEW a \in D, NEW id \in CursorIds, f = SetId(server[a], id, a),
               srv[server[a]][id] = "fresh"
        PROVE  /\ hash[a] \in S
               /\ <<server[a], id>> \notin allotted
               /\ allotted' = allotted \cup {<<server[a], id>>}
    <3>1. server[a] \in Servers /\ a # "fresh"
      BY <1>0, <1>1
    <3>2. \A s \in Servers, i \in CursorIds :
            f[s][i] = IF s = server[a] /\ i = id THEN a ELSE srv[s][i]
      BY <2>5, <3>1 DEF SetId, TypeOK
    <3>3. \A s \in Servers, i \in CursorIds :
            srv'[s][i] # "fresh" <=> srv[s][i] # "fresh" \/ (s = server[a] /\ i = id)
      <4> TAKE s \in Servers, i \in CursorIds
      <4>1. srv'[s][i] = "fresh" <=> f[s][i] = "fresh"
        BY <2>1
      <4>2. CASE s = server[a] /\ i = id
        BY <3>1, <3>2, <4>1, <4>2
      <4>3. CASE ~(s = server[a] /\ i = id)
        BY <3>2, <4>1, <4>3
      <4> QED BY <4>2, <4>3
    <3>4. hash[a] \in S
      OBVIOUS
    <3> QED BY <2>5, <3>1, <3>3, <3>4, OneMoreAllotted
  <2>6. CASE \E a \in D, id \in CursorIds :
               f = SetId(server[a], id, "gone") /\ srv[server[a]][id] \in {a, "gone"}
    BY <2>4, <2>6
  <2>7. CASE \E a \in D, id \in CursorIds :
               f = SetId(server[a], id, a) /\ srv[server[a]][id] = "fresh"
    <3>1. PICK a \in D, id \in CursorIds :
                f = SetId(server[a], id, a) /\ srv[server[a]][id] = "fresh"
      BY <2>7
    <3>2. /\ hash[a] \in S
          /\ <<server[a], id>> \notin allotted
          /\ allotted' = allotted \cup {<<server[a], id>>}
      BY <2>5, <3>1
    <3>3. <<hash[a], id>> \in S \X CursorIds
      BY <3>2
    <3>4. Sessions!OnItsServer(<<hash[a], id>>) = <<server[a], id>>
      BY <1>1 DEF Sessions!OnItsServer
    <3> HIDE DEF S
    <3> QED BY <3>2, <3>3, <3>4
  <2> QED BY <2>3, <2>6, <2>7 DEF Destroys
<1> HIDE DEF S
<1> QED BY <1>1, <1>3, <1>4 DEF Sessions!Lose, sessions, allotted

\* Connecting, and picking a connection for a cursor that has no session, leave
\* every session as it is; so does a new object.
LEMMA OtherStepsSessions ==
  ASSUME ConstantsAssumption, TypeOK, CallInv, CoreInv,
         SeedConnects \/ PickForCursor \/ \E c \in Cursors : NewCursor(c)
  PROVE  UNCHANGED <<sessions, allotted>>
<1>1. srv' = srv
  BY DEF SeedConnects, PickForCursor, NewCursor, cursorVars
<1>2. CASE SeedConnects
  <2>1. PICK a \in Conns \ pool : hash' = [hash EXCEPT ![a] = Seeds[seed]]
    BY <1>2 DEF SeedConnects
  <2>2. UNCHANGED <<alive, connection, cursor_id>>
    BY <1>2 DEF SeedConnects, cursorVars
  <2>3. \A c \in Cursors : HasSession(c) => hash'[connection[c]] = hash[connection[c]]
    BY <2>1 DEF CoreInv, SessionsAreSound, TypeOK
  <2>4. \A c \in Cursors : SessionOf(c)' = SessionOf(c)
    BY <2>2, <2>3 DEF SessionOf, HasSession
  <2> QED BY <1>1, <2>4 DEF sessions, allotted
<1>3. CASE PickForCursor
  <2>1. /\ UNCHANGED <<hash, alive, cursor_id>>
        /\ \A c \in Cursors : c # self => connection'[c] = connection[c]
        /\ self \in Cursors => cursor_id[self] = 0
    BY <1>3 DEF PickForCursor, CallInv, TypeOK
  <2>2. \A c \in Cursors : SessionOf(c)' = SessionOf(c)
    BY <2>1 DEF SessionOf, HasSession
  <2> QED BY <1>1, <2>2 DEF sessions, allotted
<1>4. ASSUME NEW c \in Cursors, NewCursor(c)
      PROVE  UNCHANGED <<sessions, allotted>>
  <2>1. connection[c] = NULL /\ cursor_id[c] = 0
    BY <1>4 DEF NewCursor, CallInv
  <2>2. /\ connection' = connection /\ cursor_id' = cursor_id /\ hash' = hash
        /\ alive' = alive \cup {c}
    BY <1>4, <2>1 DEF NewCursor, ResetFields, TypeOK, connVars
  <2>3. \A d \in Cursors : SessionOf(d)' = SessionOf(d)
    BY <2>1, <2>2 DEF SessionOf, HasSession
  <2> QED BY <1>1, <2>3 DEF sessions, allotted
<1> QED BY <1>2, <1>3, <1>4

\* A first batch opens a session for the cursor of the call, or none.
LEMMA QueryReplySessions ==
  ASSUME ConstantsAssumption, TypeOK, CallInv, CoreInv, QueryReply
  PROVE  \/ UNCHANGED <<sessions, allotted>>
         \/ \E p \in Hashes \X CursorIds : Sessions!Open(self, p) /\ self \in Cursors
<1> DEFINE a == connection[self]
<1>1. /\ self \in Cursors /\ self \in alive /\ cursor_id[self] = 0
      /\ a \in Conns /\ a # NULL /\ server[a] \in Servers /\ hash[a] \in Hashes
      /\ server[a] = ServerOf[hash[a]]
      /\ UNCHANGED <<hash, server, alive, connection, self>>
  BY DEF QueryReply, CallInv, TypeOK, ConstantsAssumption, connVars, CoreInv, PoolInv
<1>2. CASE (\E n \in 0 .. MaxDocs : HeaderRead(0, n)) /\ UNCHANGED <<cursor_list, srv>>
  <2>1. cursor_id' = cursor_id
    BY <1>1, <1>2 DEF HeaderRead, TypeOK
  <2> QED BY <1>1, <1>2, <2>1 DEF sessions, allotted, SessionOf, HasSession
<1>3. ASSUME NEW id \in CursorIds, NEW n \in 0 .. MaxDocs,
             srv[server[a]][id] = "fresh",
             HeaderRead(id, n),
             srv' = SetId(server[a], id, a),
             cursor_list' = Noted(self, id)
      PROVE  Sessions!Open(self, <<hash[a], id>>)
  <2>1. id # 0 /\ a # "fresh"
    BY <1>1 DEF ConstantsAssumption
  <2>2. cursor_id'[self] = id /\ \A d \in Cursors : d # self => cursor_id'[d] = cursor_id[d]
    BY <1>1, <1>3 DEF HeaderRead, TypeOK
  <2>3. SessionOf(self) = NULL
    BY <1>1, <2>1 DEF SessionOf, HasSession
  <2>4. \A d \in Cursors :
          SessionOf(d)' = IF d = self THEN <<hash[a], id>> ELSE SessionOf(d)
    BY <1>1, <2>1, <2>2 DEF SessionOf, HasSession
  <2>5. sessions' = [sessions EXCEPT ![self] = <<hash[a], id>>] /\ sessions[self] = NULL
    <3>1. sessions' = [d \in Cursors |->
                         IF d = self THEN <<hash[a], id>> ELSE SessionOf(d)]
      BY <2>4 DEF sessions
    <3> HIDE DEF a
    <3> QED BY <1>1, <2>3, <3>1 DEF sessions
  <2>6. \A s \in Servers, i \in CursorIds :
          srv'[s][i] = IF s = server[a] /\ i = id THEN a ELSE srv[s][i]
    BY <1>1, <1>3 DEF SetId, TypeOK
  <2>7. /\ <<server[a], id>> \notin allotted
        /\ allotted' = allotted \cup {<<server[a], id>>}
    <3>1. \A t \in Servers, i \in CursorIds :
            srv'[t][i] # "fresh" <=> srv[t][i] # "fresh" \/ (t = server[a] /\ i = id)
      <4> TAKE t \in Servers, i \in CursorIds
      <4>1. CASE t = server[a] /\ i = id
        BY <2>1, <2>6, <4>1
      <4>2. CASE ~(t = server[a] /\ i = id)
        BY <2>6, <4>2
      <4> QED BY <4>1, <4>2
    <3> QED BY <1>1, <1>3, <3>1, OneMoreAllotted
  <2>8. Sessions!OnItsServer(<<hash[a], id>>) = <<server[a], id>>
    BY <1>1 DEF Sessions!OnItsServer
  <2> QED BY <2>5, <2>7, <2>8 DEF Sessions!Open, sessions, allotted
<1>4. ASSUME NEW id \in CursorIds, NEW n \in 0 .. MaxDocs,
             srv[server[a]][id] = "fresh",
             HeaderRead(id, n),
             srv' = SetId(server[a], id, a),
             cursor_list' = Noted(self, id)
      PROVE  \E p \in Hashes \X CursorIds : Sessions!Open(self, p) /\ self \in Cursors
  <2>1. <<hash[a], id>> \in Hashes \X CursorIds
    BY <1>1
  <2>2. Sessions!Open(self, <<hash[a], id>>)
    BY <1>3, <1>4
  <2> QED BY <1>1, <2>1, <2>2 DEF Sessions!Open
<1>5. \/ (\E n \in 0 .. MaxDocs : HeaderRead(0, n)) /\ UNCHANGED <<cursor_list, srv>>
      \/ \E id \in CursorIds, n \in 0 .. MaxDocs :
           /\ srv[server[a]][id] = "fresh"
           /\ HeaderRead(id, n)
           /\ srv' = SetId(server[a], id, a)
           /\ cursor_list' = Noted(self, id)
  BY DEF QueryReply
<1> HIDE DEF a
<1> QED BY <1>2, <1>4, <1>5

\* A server's timeout closes no session, and the end of the worker loses all.
LEMMA EnvironmentSessions ==
  ASSUME ConstantsAssumption, TypeOK, CoreInv, Environment
  PROVE  UNCHANGED <<sessions, allotted>> \/ Sessions!Lose(Hashes)
<1>0. "fresh" \notin Conns /\ "gone" \notin Conns /\ "orphan" \notin Conns
  BY DEF ConstantsAssumption
<1>1. ASSUME NEW a \in Conns, Break(a)
      PROVE  UNCHANGED <<sessions, allotted>>
  BY <1>1 DEF Break, cursorVars, sessions, allotted, SessionOf, HasSession
<1>2. ASSUME NEW s \in Servers, NEW id \in CursorIds, Expire(s, id)
      PROVE  UNCHANGED <<sessions, allotted>>
  <2>1. \A t \in Servers, i \in CursorIds :
          srv'[t][i] = "fresh" <=> srv[t][i] = "fresh"
    BY <1>2 DEF Expire, SetId, TypeOK
  <2>2. UNCHANGED <<hash, alive, connection, cursor_id>>
    BY <1>2 DEF Expire, connVars, cursorVars
  <2>3. allotted' = allotted
    BY <2>1 DEF allotted
  <2> QED BY <2>2, <2>3 DEF sessions, SessionOf, HasSession
<1>3. CASE WorkerDies
  <2>1. \A c \in Cursors : SessionOf(c)' = NULL
    BY <1>3 DEF WorkerDies, SessionOf, HasSession
  <2>2. \A c \in Cursors : ~Sessions!Over(c, Hashes) => SessionOf(c) = NULL
    BY DEF Sessions!Over, SessionOf, HasSession, TypeOK
  <2>3. sessions' = [c \in Cursors |->
                       IF Sessions!Over(c, Hashes) THEN NULL ELSE SessionOf(c)]
    BY <2>1, <2>2 DEF sessions
  <2>4. \A s \in Servers, i \in CursorIds :
          srv'[s][i] = "fresh" <=> srv[s][i] = "fresh"
    BY <1>0, <1>3 DEF WorkerDies, Orphaned
  <2>5. allotted' = allotted
    BY <2>4 DEF allotted
  <2> QED BY <2>3, <2>5 DEF Sessions!Lose, sessions, allotted
<1> QED BY <1>1, <1>2, <1>3 DEF Environment

\* Every step of the driver is a step of CursorSessions, or touches no session.
LEMMA NextSessions ==
  ASSUME ConstantsAssumption, IInv, [Next]_vars
  PROVE  Sessions!Next \/ UNCHANGED <<sessions, allotted>>
<1>1. TypeOK /\ CallInv /\ CoreInv
  BY DEF IInv
<1>2. \A c \in Cursors : Sessions!Close(c) => Sessions!Next
  BY DEF Sessions!Next
<1>3. \A S \in SUBSET Hashes : Sessions!Lose(S) => Sessions!Next
  BY DEF Sessions!Next
<1>4. \A c \in Cursors, p \in Hashes \X CursorIds : Sessions!Open(c, p) => Sessions!Next
  BY DEF Sessions!Next, Sessions!Session
<1>5. CASE Step
  BY <1>1, <1>2, <1>3, <1>4, <1>5, StepKinds, QuietSessions, ReleaseSessions,
     DestroySessions, OtherStepsSessions, QueryReplySessions
<1>6. CASE Call
  BY <1>1, <1>2, <1>3, <1>6, CallKinds, QuietSessions, ReleaseSessions, DestroySessions,
     OtherStepsSessions
<1>7. CASE Environment
  BY <1>1, <1>3, <1>7, EnvironmentSessions
<1>8. CASE UNCHANGED vars
  BY <1>8, QuietSessions DEF vars, connVars, cursorVars, Quiet
<1> QED BY <1>5, <1>6, <1>7, <1>8 DEF Next

\* The driver keeps what CursorSessions promises: a query opens a session no one
\* ever had, which stays with its cursor until it is closed or the connection
\* to its server goes.
THEOREM SessionsImplemented == Spec => ImplementsSessions
<1>1. Init => Sessions!Init
  <2> SUFFICES ASSUME Init PROVE Sessions!Init
    OBVIOUS
  <2>1. \A c \in Cursors : SessionOf(c) = NULL
    BY DEF Init, SessionOf, HasSession
  <2>2. \A s \in Servers, i \in CursorIds : srv[s][i] = "fresh"
    BY DEF Init
  <2> QED BY <2>1, <2>2 DEF Sessions!Init
<1>2. IInv /\ [Next]_vars => [Sessions!Next]_<<sessions, allotted>>
  BY NextSessions, ConstantsAssumption
<1>3. IInv /\ [Next]_vars =>
        [Sessions!Next]_<<[c \in Cursors |-> SessionOf(c)],
                          {p \in Servers \X CursorIds : srv[p[1]][p[2]] # "fresh"}>>
  BY <1>2 DEF sessions, allotted
<1> QED BY <1>1, <1>3, IInvHolds, PTL DEF Spec, ImplementsSessions, Sessions!Spec

-----------------------------------------------------------------------------
(* No session is killed under a cursor that goes on to use it *)

\* OnlyEndedSessionsAreKilled, of one cursor and one step.
Spared(c) ==
    SessionOf(c) # NULL /\ SessionOf(c)' = SessionOf(c) =>
        srv'[server[connection[c]]][cursor_id[c]] = srv[server[connection[c]]][cursor_id[c]]

\* A session is open over its connection, or gone.
LEMMA SessionState ==
  ASSUME ConstantsAssumption, TypeOK, CoreInv, NEW c \in Cursors, SessionOf(c) # NULL
  PROVE  /\ HasSession(c)
         /\ connection[c] \in Conns /\ connection[c] \in pool
         /\ server[connection[c]] \in Servers /\ cursor_id[c] \in CursorIds
         /\ srv[server[connection[c]]][cursor_id[c]] \in {connection[c], "gone"}
         /\ srv[server[connection[c]]][cursor_id[c]] # "fresh"
<1>1. HasSession(c)
  BY DEF SessionOf
<1>3. connection[c] \in Conns /\ connection[c] \in pool
  BY <1>1 DEF HasSession, TypeOK, CoreInv, SessionsAreSound
<1>4. server[connection[c]] \in Servers /\ cursor_id[c] \in CursorIds
  BY <1>1, <1>3 DEF HasSession, TypeOK
<1>5. srv[server[connection[c]]][cursor_id[c]] \in {connection[c], "gone"}
  BY <1>1 DEF CoreInv, ServerInv
<1> QED BY <1>1, <1>3, <1>4, <1>5 DEF ConstantsAssumption

\* Two sessions differ in the server or in the id.
LEMMA SessionsDiffer ==
  ASSUME ConstantsAssumption, TypeOK, CoreInv, NEW c \in Cursors, NEW d \in Cursors,
         c # d, HasSession(c), HasSession(d),
         server[connection[c]] = server[connection[d]]
  PROVE  cursor_id[c] # cursor_id[d]
BY DEF CoreInv, ServerInv

\* Whoever ends a session ends no other.
LEMMA ReleaseSpares ==
  ASSUME ConstantsAssumption, TypeOK, CoreInv, NEW c \in Cursors, Releases(c),
         NEW d \in Cursors
  PROVE  Spared(d)
<1> SUFFICES ASSUME SessionOf(d) # NULL, SessionOf(d)' = SessionOf(d)
             PROVE  srv'[server[connection[d]]][cursor_id[d]]
                      = srv[server[connection[d]]][cursor_id[d]]
  BY DEF Spared
<1>1. c # d
  BY ReleaseKeepsOthers
<1>2. ~(/\ HasSession(c) /\ server[connection[d]] = server[connection[c]]
        /\ cursor_id[d] = cursor_id[c])
  BY <1>1, SessionState, SessionsDiffer
<1>3. /\ server[connection[d]] \in Servers /\ cursor_id[d] \in CursorIds
  BY SessionState
<1>4. \A s \in Servers, i \in CursorIds :
        \/ srv'[s][i] = srv[s][i]
        \/ HasSession(c) /\ s = server[connection[c]] /\ i = cursor_id[c]
  BY DEF Releases, SessionCloses
<1>5. \/ srv'[server[connection[d]]][cursor_id[d]] = srv[server[connection[d]]][cursor_id[d]]
      \/ /\ HasSession(c) /\ server[connection[d]] = server[connection[c]]
         /\ cursor_id[d] = cursor_id[c]
  BY <1>3, <1>4
<1> QED BY <1>2, <1>3, <1>5

\* The sessions that outlive a connection were not opened over it.
LEMMA DestroySpares ==
  ASSUME ConstantsAssumption, TypeOK, CoreInv, NEW D, NEW F, NEW f, Destroys(D, F, f),
         NEW d \in Cursors
  PROVE  Spared(d)
<1> SUFFICES ASSUME SessionOf(d) # NULL, SessionOf(d)' = SessionOf(d)
             PROVE  srv'[server[connection[d]]][cursor_id[d]]
                      = srv[server[connection[d]]][cursor_id[d]]
  BY DEF Spared
<1> DEFINE s == server[connection[d]]
           i == cursor_id[d]
<1>1. HasSession(d)'
  BY DEF SessionOf
<1>2. connection[d] \notin D
  BY <1>1, DestroyKeepsOthers
<1>3. D \subseteq Conns /\ \A a \in D : server[a] \in Servers
  BY DEF Destroys, TypeOK
<1>4. s \in Servers /\ i \in CursorIds /\ srv[s][i] \in {connection[d], "gone"}
  BY SessionState
<1>5. f[s][i] = srv[s][i]
  \* An id that a session over another connection has is closed already.
  <2>0. srv[s][i] # "fresh" /\ "gone" \notin Conns
    BY SessionState DEF ConstantsAssumption
  <2>1. ASSUME NEW a \in D, NEW id \in CursorIds, NEW x,
               \/ x = "gone" /\ srv[server[a]][id] \in {a, "gone"}
               \/ srv[server[a]][id] = "fresh"
        PROVE  SetId(server[a], id, x)[s][i] = srv[s][i]
    <3>1. SetId(server[a], id, x)[s][i]
            = IF s = server[a] /\ i = id THEN x ELSE srv[s][i]
      BY <1>3, <1>4 DEF SetId, TypeOK
    <3>2. CASE s = server[a] /\ i = id
      <4>1. srv[s][i] \in {a, "gone"} /\ x = "gone"
        BY <2>0, <2>1, <3>2
      <4>2. srv[s][i] = "gone"
        BY <1>2, <1>3, <1>4, <2>0, <4>1
      <4> QED BY <3>1, <3>2, <4>1, <4>2
    <3> HIDE DEF s, i
    <3> QED BY <3>1, <3>2
  <2>2. \/ f = srv
        \/ \E a \in D, id \in CursorIds :
             f = SetId(server[a], id, "gone") /\ srv[server[a]][id] \in {a, "gone"}
        \/ \E a \in D, id \in CursorIds :
             f = SetId(server[a], id, a) /\ srv[server[a]][id] = "fresh"
    BY DEF Destroys
  <2> HIDE DEF s, i
  <2>3. CASE f = srv
    BY <2>3
  <2>4. ASSUME NEW a \in D, NEW id \in CursorIds,
               f = SetId(server[a], id, "gone"), srv[server[a]][id] \in {a, "gone"}
        PROVE  f[s][i] = srv[s][i]
    <3>1. SetId(server[a], id, "gone")[s][i] = srv[s][i]
      BY <2>1, <2>4
    <3> QED BY <2>4, <3>1
  <2>5. ASSUME NEW a \in D, NEW id \in CursorIds,
               f = SetId(server[a], id, a), srv[server[a]][id] = "fresh"
        PROVE  f[s][i] = srv[s][i]
    <3>1. SetId(server[a], id, a)[s][i] = srv[s][i]
      BY <2>1, <2>5
    <3> QED BY <2>5, <3>1
  <2> QED BY <2>2, <2>3, <2>4, <2>5
<1>6. srv'[s][i] = IF f[s][i] \in D THEN "orphan" ELSE f[s][i]
  BY <1>4 DEF Destroys, Destroy, Orphaned
<1>7. srv[s][i] \notin D
  BY <1>2, <1>3, <1>4 DEF ConstantsAssumption
<1> QED BY <1>4, <1>5, <1>6, <1>7

\* A first batch changes an id nobody had.
LEMMA QueryReplySpares ==
  ASSUME ConstantsAssumption, TypeOK, CallInv, CoreInv, QueryReply, NEW d \in Cursors
  PROVE  Spared(d)
<1> SUFFICES ASSUME SessionOf(d) # NULL, SessionOf(d)' = SessionOf(d)
             PROVE  srv'[server[connection[d]]][cursor_id[d]]
                      = srv[server[connection[d]]][cursor_id[d]]
  BY DEF Spared
<1>1. \/ srv' = srv
      \/ \E id \in CursorIds :
           /\ srv[server[connection[self]]][id] = "fresh"
           /\ srv' = SetId(server[connection[self]], id, connection[self])
  BY DEF QueryReply
<1>2. server[connection[self]] \in Servers
  BY DEF QueryReply, CallInv, TypeOK
<1>3. CASE srv' = srv
  BY <1>3
<1>4. ASSUME NEW id \in CursorIds,
             srv[server[connection[self]]][id] = "fresh",
             srv' = SetId(server[connection[self]], id, connection[self])
      PROVE  srv'[server[connection[d]]][cursor_id[d]]
                      = srv[server[connection[d]]][cursor_id[d]]
  <2>1. /\ server[connection[d]] \in Servers /\ cursor_id[d] \in CursorIds
        /\ srv[server[connection[d]]][cursor_id[d]] # "fresh"
    BY SessionState
  <2>2. \A t \in Servers, i \in CursorIds :
          srv'[t][i] = IF t = server[connection[self]] /\ i = id
                       THEN connection[self] ELSE srv[t][i]
    BY <1>2, <1>4 DEF SetId, TypeOK
  <2>3. ~(server[connection[d]] = server[connection[self]] /\ cursor_id[d] = id)
    BY <1>4, <2>1
  <2> QED BY <2>1, <2>2, <2>3
<1> QED BY <1>1, <1>3, <1>4

\* OP_KILL_CURSORS reaches the session that ends, and no other; only a server's
\* own timeout closes a cursor somebody still has.
THEOREM KillsOnlyTheEnded == Spec => OnlyEndedSessionsAreKilled
<1> DEFINE Kept(c) ==
      SessionOf(c) # NULL /\ SessionOf(c)' = SessionOf(c) =>
        LET s == server[connection[c]] IN
        \/ srv'[s][cursor_id[c]] = srv[s][cursor_id[c]]
        \/ \E id \in CursorIds : Expire(s, id)
<1>1. IInv /\ [Next]_vars => \A c \in Cursors : Kept(c)
  <2> SUFFICES ASSUME IInv, [Next]_vars, NEW c \in Cursors
               PROVE  Kept(c)
    OBVIOUS
  <2>1. TypeOK /\ CallInv /\ CoreInv
    BY DEF IInv
  <2>2. Spared(c) => Kept(c)
    BY DEF Spared
  <2>3. srv' = srv => Spared(c)
    BY DEF Spared
  <2>5. Step => Spared(c)
    BY <2>1, <2>3, StepKinds, ReleaseSpares, DestroySpares, QueryReplySpares,
       ConstantsAssumption DEF Quiet, SeedConnects, PickForCursor
  <2>6. Call => Spared(c)
    BY <2>1, <2>3, CallKinds, ReleaseSpares, DestroySpares, ConstantsAssumption
       DEF Quiet, NewCursor
  <2>7. CASE Environment
    <3>1. CASE WorkerDies
      <4>1. SessionOf(c)' = NULL
        BY <3>1 DEF WorkerDies, SessionOf, HasSession
      <4> QED BY <4>1
    <3>2. ASSUME NEW a \in Conns, Break(a)
          PROVE  Kept(c)
      BY <2>2, <2>3, <3>2 DEF Break
    <3>3. ASSUME NEW s \in Servers, NEW id \in CursorIds, Expire(s, id),
                 SessionOf(c) # NULL, server[connection[c]] # s
          PROVE  srv'[server[connection[c]]][cursor_id[c]]
                   = srv[server[connection[c]]][cursor_id[c]]
      <4>1. server[connection[c]] \in Servers /\ cursor_id[c] \in CursorIds
        BY <2>1, <3>3, SessionState, ConstantsAssumption
      <4>2. \A t \in Servers, i \in CursorIds :
              srv'[t][i] = IF t = s /\ i = id THEN "gone" ELSE srv[t][i]
        BY <2>1, <3>3 DEF Expire, SetId, TypeOK
      <4> QED BY <3>3, <4>1, <4>2
    <3> QED BY <2>7, <3>1, <3>2, <3>3 DEF Environment
  <2>8. UNCHANGED vars => Spared(c)
    BY <2>3 DEF vars
  <2> HIDE DEF Kept
  <2> QED BY <2>2, <2>5, <2>6, <2>7, <2>8 DEF Next
<1>2. IInv /\ [Next]_vars => [\A c \in Cursors : Kept(c)]_vars
  BY <1>1
<1> QED BY <1>2, IInvHolds, PTL DEF Spec, OnlyEndedSessionsAreKilled
=============================================================================
