-------------------------- MODULE CursorLimitProof --------------------------
(***************************************************************************)
(* Proof that limit() holds.  Two steps consume a document:                *)
(* BodyHasDocument has just compared at with the limit; GetMoreReply       *)
(* relies on what was compared before OP_GET_MORE was sent, which nothing  *)
(* may change until the reply.                                             *)
(***************************************************************************)
EXTENDS CursorLifecycleProof

\* Limits are numbers.
LEMMA LimitType ==
  ASSUME ConstantsAssumption, TypeOK
  PROVE  limit \in [Cursors -> Nat]
<1>1. Limits \cup {0} \subseteq Nat
  BY DEF ConstantsAssumption
<1>2. limit \in [Cursors -> Limits \cup {0}]
  BY DEF TypeOK
<1> QED BY <1>1, <1>2

\* Most steps leave at and limit alone, and do not go on to OP_GET_MORE.
LEMMA NoDocument ==
  ASSUME LimitInv, UNCHANGED <<at, limit>>, pc' # "getmore"
  PROVE  LimitInv'
BY DEF LimitInv

\* Those that start over set at to 0, for one cursor.
LEMMA StartOver ==
  ASSUME TypeOK, LimitInv, NEW c \in Cursors,
         at' = [at EXCEPT ![c] = 0],
         \A d \in Cursors : d # c => limit'[d] = limit[d],
         limit'[c] \in Nat,
         pc' # "getmore"
  PROVE  LimitInv'
BY DEF LimitInv, TypeOK

\* One document more is within a limit that is not reached.
LEMMA DeliverLimit ==
  ASSUME ConstantsAssumption, TypeOK, LimitInv, NEW c \in Cursors,
         ~LimitReached(c), Deliver(c), limit' = limit, pc' # "getmore"
  PROVE  LimitInv'
<1>1. limit \in [Cursors -> Nat] /\ at \in [Cursors -> Nat]
  BY LimitType DEF TypeOK
<1>2. \/ at' = at
      \/ at' = [at EXCEPT ![c] = @ + 1]
  BY DEF Deliver
<1> QED BY <1>1, <1>2 DEF LimitInv, LimitReached

\* The steps of a call keep to the limit.
LEMMA StepLimit ==
  ASSUME ConstantsAssumption, TypeOK, CallInv, LimitInv, Step
  PROVE  LimitInv'
<1>1. CASE SeedIsConnected \/ SeedPingFails \/ SeedConnects \/ SeedConnectFails
  <2>1. UNCHANGED <<at, limit>>
    BY <1>1 DEF SeedIsConnected, SeedPingFails, SeedConnects, SeedConnectFails, cursorVars
  <2>2. pc' # "getmore"
    BY <1>1 DEF SeedIsConnected, SeedPingFails, SeedConnects, SeedConnectFails, NextSeed
  <2> QED BY <2>1, <2>2, NoDocument
<1>2. CASE PickFails \/ PickForCursor \/ WriteDone \/ WriteSendFails
  <2>1. UNCHANGED <<at, limit>>
    BY <1>2 DEF PickFails, PickForCursor, WriteDone, WriteSendFails, cursorVars
  <2>2. pc' # "getmore"
    BY <1>2 DEF PickFails, PickForCursor, WriteDone, WriteSendFails, Return
  <2> QED BY <2>1, <2>2, NoDocument
<1>3. CASE QueryEncodeFails \/ QuerySendFails \/ QueryReply \/ QueryReplyFails
  <2>1. UNCHANGED <<at, limit>>
    BY <1>3 DEF QueryEncodeFails, QuerySendFails, QueryReply, QueryReplyFails, ReplyFails
  <2>2. pc' # "getmore"
    BY <1>3 DEF QueryEncodeFails, QuerySendFails, QueryReply, QueryReplyFails,
       QueryFailed, Return
  <2> QED BY <2>1, <2>2, NoDocument
<1>4. ASSUME NEW c \in Cursors, BodyUninitialized(c) \/ BodyDone(c) \/ BodyExhausted(c)
      PROVE  LimitInv'
  <2>1. UNCHANGED <<at, limit>> /\ pc' # "getmore"
    BY <1>4 DEF BodyUninitialized, BodyDone, BodyExhausted, Stop, Return
  <2> QED BY <2>1, NoDocument
<1>5. ASSUME NEW c \in Cursors, BodyHasDocument(c)
      PROVE  LimitInv'
  <2>1. ~LimitReached(c) /\ Deliver(c) /\ limit' = limit /\ pc' # "getmore"
    BY <1>5 DEF BodyHasDocument, NoMoreWanted, Return
  <2> QED BY <2>1, DeliverLimit
<1>6. ASSUME NEW c \in Cursors, BodyGetMore(c)
      PROVE  LimitInv'
  <2>1. /\ UNCHANGED <<at, limit>> /\ self' = self /\ self = c
        /\ ~LimitReached(c)
    BY <1>6 DEF BodyGetMore, Body, NoMoreWanted, cursorVars
  <2> QED BY <2>1 DEF LimitInv, LimitReached
<1>7. CASE GetMoreReply
  <2>1. /\ self \in Cursors /\ ~LimitReached(self)
        /\ limit' = limit /\ pc' # "getmore"
        /\ at' = at \/ Deliver(self)
    BY <1>7 DEF GetMoreReply, CallInv, LimitInv, TypeOK, HasSession, Return
  <2> QED BY <2>1, NoDocument, DeliverLimit
<1>8. CASE GetMoreSendFails \/ GetMoreNotFound \/ GetMoreReplyFails
  <2>1. UNCHANGED <<at, limit>> /\ pc' # "getmore"
    BY <1>8 DEF GetMoreSendFails, GetMoreNotFound, GetMoreReplyFails, ReplyFails, Return
  <2> QED BY <2>1, NoDocument
<1> QED BY <1>1, <1>2, <1>3, <1>4, <1>5, <1>6, <1>7, <1>8 DEF Step

\* So do the calls: a query, a reset and a new object start over at 0.
LEMMA CallLimit ==
  ASSUME ConstantsAssumption, TypeOK, LimitInv, Call
  PROVE  LimitInv'
<1>1. ASSUME NEW c \in Cursors, NewCursor(c) \/ FreeCursor(c)
      PROVE  LimitInv'
  <2>1. /\ at' = [at EXCEPT ![c] = 0] /\ pc' # "getmore"
        /\ limit'[c] \in Nat
        /\ \A d \in Cursors : d # c => limit'[d] = limit[d]
    BY <1>1 DEF NewCursor, FreeCursor, ResetFields, callVars, TypeOK, ConstantsAssumption
  <2> QED BY <2>1, StartOver
<1>2. ASSUME NEW c \in Cursors, NEW f, CallReset(c) \/ BeginQuery(c, f)
      PROVE  LimitInv'
  <2>1. at' = [at EXCEPT ![c] = 0] /\ limit' = limit /\ pc' # "getmore"
    BY <1>2 DEF CallReset, BeginQuery, Reset, ResetFields, Enter, callVars
  <2> QED BY <2>1, StartOver, LimitType
<1>3. ASSUME NEW c \in Cursors, NEW f, ContinueIteration(c, f)
      PROVE  LimitInv'
  <2>1. UNCHANGED <<at, limit>> /\ pc' # "getmore"
    BY <1>3 DEF ContinueIteration, Enter, cursorVars
  <2> QED BY <2>1, NoDocument
<1>4. CASE CallWrite \/ CloseOne \/ CloseAll
  <2>1. UNCHANGED <<at, limit>> /\ pc' # "getmore"
    BY <1>4 DEF CallWrite, CloseOne, CloseAll, Enter, cursorVars, callVars
  <2> QED BY <2>1, NoDocument
<1> QED BY <1>1, <1>2, <1>3, <1>4 DEF Call, CallHasNext, CallNext, CallRewind, Iterate

\* Nothing outside the driver moves a cursor, but for the end of the worker.
LEMMA EnvironmentLimit ==
  ASSUME ConstantsAssumption, TypeOK, LimitInv, Environment
  PROVE  LimitInv'
<1>1. CASE WorkerDies
  BY <1>1 DEF WorkerDies, Return, LimitInv
<1>2. CASE (\E a \in Conns : Break(a)) \/ (\E s \in Servers, id \in CursorIds : Expire(s, id))
  <2>1. UNCHANGED <<at, limit, pc, self>>
    BY <1>2 DEF Break, Expire, cursorVars, callVars
  <2> QED BY <2>1 DEF LimitInv, LimitReached
<1> QED BY <1>1, <1>2 DEF Environment

\* hasNext and next hand out at most limit() documents for a query, however
\* many the server sends and whatever happens between its batches.
THEOREM LimitHolds == Spec => []LimitIsRespected
<1>1. Init => LimitInv
  BY DEF Init, LimitInv
<1>2. IInv /\ LimitInv /\ [Next]_vars => LimitInv'
  <2> SUFFICES ASSUME IInv, LimitInv, [Next]_vars
               PROVE  LimitInv'
    OBVIOUS
  <2>1. TypeOK /\ CallInv
    BY DEF IInv
  <2>2. CASE Next
    BY <2>1, <2>2, StepLimit, CallLimit, EnvironmentLimit, ConstantsAssumption DEF Next
  <2>3. CASE UNCHANGED vars
    BY <2>3 DEF LimitInv, LimitReached, vars, cursorVars, callVars
  <2> QED BY <2>2, <2>3
<1>3. IInv /\ LimitInv => LimitIsRespected
  BY DEF LimitInv, LimitIsRespected, IInv, TypeOK
<1> QED BY <1>1, <1>2, <1>3, IInvHolds, PTL DEF Spec
=============================================================================
