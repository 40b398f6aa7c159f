----------------------------- MODULE WritesProof -----------------------------
(***************************************************************************)
(* A success is one's own, and an undisturbed connection owes nothing, for *)
(* any number of calls, any settings and any options.                      *)
(*                                                                         *)
(* Three facts about the connection make the invariant.  Ids: what is on   *)
(* it has an id given out before, and what carries the id that is waited   *)
(* for is of this call.  Truth: an answer that says ok speaks of a call    *)
(* that was executed, because a getlasterror directly follows its write.   *)
(* Debt: as long as no read failed and nothing broke, an answer is under   *)
(* way or on the stream exactly while a ping or a reply is waited for.     *)
(*                                                                         *)
(* What is sent of a write concern is proved apart, from the two functions *)
(* that look at the options.                                               *)
(***************************************************************************)
EXTENDS Writes, SequenceTheorems, TLAPS

Ids == {"php", "con"} \X Nat

Messages == [kind : {"write", "getlasterror", "command", "ping"}, id : Ids, call : Nat]

Answers == [to : Ids, call : Nat, ok : BOOLEAN]

Connections ==
    [reqid : Nat, pingDue : BOOLEAN, inbox : Seq(Messages), stream : Seq(Answers),
     lasterr : BOOLEAN, aligned : BOOLEAN, missed : BOOLEAN, broken : BOOLEAN]

Results == [call : 1..MaxCalls, status : Statuses]

Typed ==
    /\ request_id \in Nat
    /\ pc \in {"idle", "connection", "ping", "send", "reply"}
    /\ call.n \in 0..MaxCalls
    /\ pc # "idle" => call.n > 0
    /\ pc # "idle" /\ call.op = "command" => call.waits
    /\ result \in Results \cup {NULL}
    /\ applied \subseteq 1..MaxCalls

\* Given out by the counter at php, or by the one at own.
GivenOut(id, php, own) == id[2] < IF id[1] = "php" THEN php ELSE own + 1

\* Everything on the connection has an id that was given out.
Issued(c, php) ==
    /\ \A n \in 1..Len(c.inbox) : GivenOut(c.inbox[n].id, php, c.reqid)
    /\ \A n \in 1..Len(c.stream) : GivenOut(c.stream[n].to, php, c.reqid)

\* What carries an id belongs to a call, and is of a call that was begun.
Belongs(c, id, k) ==
    /\ \A n \in 1..Len(c.inbox) : c.inbox[n].id = id => c.inbox[n].call = k
    /\ \A n \in 1..Len(c.stream) : c.stream[n].to = id => c.stream[n].call = k

Begun(c, k) == \A n \in 1..Len(c.inbox) : c.inbox[n].call \in 1..k

\* A getlasterror follows its write, or the write was executed or refused; pings
\* have ids of their own.
Backed(c, done) ==
    \A n \in 1..Len(c.inbox) :
        /\ c.inbox[n].kind = "getlasterror" =>
             IF n = 1 THEN c.lasterr \/ c.inbox[n].call \in done
             ELSE c.inbox[n - 1].kind = "write" /\ c.inbox[n - 1].call = c.inbox[n].call
        /\ c.inbox[n].kind = "ping" => c.inbox[n].id[1] = "con"

\* An answer to a request of the PHP side that says ok tells the truth.
Truthful(c, done) ==
    \A n \in 1..Len(c.stream) :
        c.stream[n].to[1] = "php" /\ c.stream[n].ok => c.stream[n].call \in done

\* Nothing is owed; one answer is.
Silent(c) ==
    /\ c.stream = <<>>
    /\ \A n \in 1..Len(c.inbox) : c.inbox[n].kind = "write"

Owing(c) ==
    \/ /\ c.stream = <<>>
       /\ Len(c.inbox) > 0
       /\ \A n \in 1..Len(c.inbox) : c.inbox[n].kind = "write" <=> n < Len(c.inbox)
    \/ /\ Len(c.stream) = 1
       /\ c.inbox = <<>>

Debt(c, waiting) ==
    \/ c.missed \/ c.broken
    \/ c.aligned /\ IF waiting THEN Owing(c) ELSE Silent(c)

Sound(c, php, k, done) ==
    /\ c \in Connections
    /\ Issued(c, php)
    /\ Begun(c, k)
    /\ Backed(c, done)
    /\ Truthful(c, done)

Waiting == pc \in {"ping", "reply"}

\* No connection is needed, or there is one and all of this holds of it.
Unconnected == con = NULL /\ pc \in {"idle", "connection"}

Connected ==
    /\ Sound(con, request_id, call.n, applied)
    /\ pc = "reply" => Belongs(con, OwnId, call.n)
    /\ Debt(con, Waiting)

IInv ==
    /\ Typed
    /\ Unconnected \/ Connected
    /\ SuccessIsOwn

-----------------------------------------------------------------------------
(* Operations on a connection *)

LEMMA FreshSound ==
  ASSUME NEW php \in Nat, NEW done, call.n \in Nat \ {0}, NEW c \in NewConnections
  PROVE  Sound(c, php, call.n, done) /\ Debt(c, FALSE)
<1> DEFINE asked == Request("ping", <<"con", Fresh.reqid>>)
           late  == Answer(asked, TRUE)
<1>1. /\ asked \in Messages /\ asked.kind = "ping" /\ asked.call = call.n
      /\ asked.id[1] = "con" /\ asked.id[2] = 1
  BY DEF Request, Fresh, Messages, Ids
<1>2. /\ late \in Answers /\ late.call = call.n
      /\ late.to[1] = "con" /\ late.to[2] = 1
  BY <1>1 DEF Answer, Answers, Messages
<1> HIDE DEF asked, late
<1>3. CASE c = Fresh
  <2>1. Fresh \in Connections
    BY EmptySeq DEF Fresh, Connections
  <2> QED BY <1>3, <2>1, EmptySeq DEF Fresh, Sound, Issued, Begun, Backed, Truthful, Debt, Silent
<1>4. CASE c = [Fresh EXCEPT !.inbox = <<asked>>, !.missed = TRUE]
  <2>1. /\ <<asked>> \in Seq(Messages) /\ Len(<<asked>>) = 1 /\ <<asked>>[1] = asked
        /\ <<>> \in Seq(Answers) /\ Len(<<>>) = 0
    BY <1>1, EmptySeq
  <2>2. c.inbox = <<asked>> /\ c.stream = <<>> /\ c.missed /\ c.reqid = 1
    BY <1>4 DEF Fresh
  <2>3. c \in Connections
    BY <1>4, <2>1 DEF Fresh, Connections
  <2>4. Issued(c, php) /\ Begun(c, call.n) /\ Backed(c, done) /\ Truthful(c, done)
    BY <1>1, <2>1, <2>2 DEF Issued, GivenOut, Begun, Backed, Truthful
  <2> QED BY <2>2, <2>3, <2>4 DEF Sound, Debt
<1>5. CASE c = [Fresh EXCEPT !.stream = <<late>>, !.missed = TRUE, !.aligned = FALSE]
  <2>1. /\ <<late>> \in Seq(Answers) /\ Len(<<late>>) = 1 /\ <<late>>[1] = late
        /\ <<>> \in Seq(Messages) /\ Len(<<>>) = 0
    BY <1>2, EmptySeq
  <2>2. c.stream = <<late>> /\ c.inbox = <<>> /\ c.missed /\ c.reqid = 1
    BY <1>5 DEF Fresh
  <2>3. c \in Connections
    BY <1>5, <2>1 DEF Fresh, Connections
  <2>4. Issued(c, php) /\ Begun(c, call.n) /\ Backed(c, done) /\ Truthful(c, done)
    BY <1>2, <2>1, <2>2 DEF Issued, GivenOut, Begun, Backed, Truthful
  <2> QED BY <2>2, <2>3, <2>4 DEF Sound, Debt
<1> QED BY <1>3, <1>4, <1>5 DEF NewConnections, asked, late

LEMMA ElementsTyped ==
  ASSUME NEW c \in Connections
  PROVE  /\ c.inbox \in Seq(Messages) /\ Len(c.inbox) \in Nat
         /\ c.stream \in Seq(Answers) /\ Len(c.stream) \in Nat
         /\ \A n \in 1..Len(c.inbox) : /\ c.inbox[n] \in Messages
                                      /\ c.inbox[n].id \in Ids /\ c.inbox[n].call \in Nat
         /\ \A n \in 1..Len(c.stream) : /\ c.stream[n] \in Answers
                                       /\ c.stream[n].to \in Ids /\ c.stream[n].call \in Nat
<1>1. c.inbox \in Seq(Messages) /\ c.stream \in Seq(Answers)
  BY DEF Connections
<1>2. Len(c.inbox) \in Nat /\ Len(c.stream) \in Nat
  BY <1>1, LenProperties
<1>3. \A n \in 1..Len(c.inbox) : c.inbox[n] \in Messages
  BY <1>1, ElementOfSeq
<1>4. \A n \in 1..Len(c.stream) : c.stream[n] \in Answers
  BY <1>1, ElementOfSeq
<1> QED BY <1>1, <1>2, <1>3, <1>4 DEF Messages, Answers

\* Later counters and more executed calls do no harm.
LEMMA SoundLater ==
  ASSUME NEW c, NEW php \in Nat, NEW k \in Nat, NEW done, Sound(c, php, k, done),
         NEW php2 \in Nat, NEW k2 \in Nat, NEW done2,
         php <= php2, k <= k2, done \subseteq done2
  PROVE  Sound(c, php2, k2, done2)
<1>1. /\ c \in Connections /\ c.inbox \in Seq(Messages) /\ c.stream \in Seq(Answers)
      /\ c.reqid \in Nat
  BY DEF Sound, Connections
<1>2. \A n \in 1..Len(c.inbox) : c.inbox[n].id \in Ids
  BY <1>1, ElementsTyped
<1>3. \A n \in 1..Len(c.stream) : c.stream[n].to \in Ids
  BY <1>1, ElementsTyped
<1>4. \A id \in Ids : GivenOut(id, php, c.reqid) => GivenOut(id, php2, c.reqid)
  BY DEF Ids, GivenOut
<1>5. Issued(c, php2)
  BY <1>2, <1>3, <1>4 DEF Sound, Issued
<1>6. Begun(c, k2)
  BY DEF Sound, Begun
<1>7. Backed(c, done2) /\ Truthful(c, done2)
  BY DEF Sound, Backed, Truthful
<1> QED BY <1>1, <1>5, <1>6, <1>7 DEF Sound

\* Flags that no fact about the content depends on.
LEMMA SoundFlags ==
  ASSUME NEW c, NEW php, NEW k, NEW done, Sound(c, php, k, done),
         NEW p \in BOOLEAN, NEW a \in BOOLEAN, NEW m \in BOOLEAN, NEW b \in BOOLEAN
  PROVE  LET d == [c EXCEPT !.pingDue = p, !.aligned = a, !.missed = m, !.broken = b] IN
         /\ Sound(d, php, k, done)
         /\ d.inbox = c.inbox /\ d.stream = c.stream /\ d.lasterr = c.lasterr
         /\ d.aligned = a /\ d.missed = m /\ d.broken = b
<1> DEFINE d == [c EXCEPT !.pingDue = p, !.aligned = a, !.missed = m, !.broken = b]
<1>1. /\ d \in Connections /\ d.reqid = c.reqid
      /\ d.inbox = c.inbox /\ d.stream = c.stream /\ d.lasterr = c.lasterr
      /\ d.aligned = a /\ d.missed = m /\ d.broken = b
  BY DEF Sound, Connections
<1> HIDE DEF d
<1>2. Sound(d, php, k, done)
  BY <1>1 DEF Sound, Issued, Begun, Backed, Truthful
<1> QED BY <1>1, <1>2 DEF d

\* The server takes the first request and says nothing: it was a write.
LEMMA SoundWriteServed ==
  ASSUME NEW c, NEW php, NEW k \in Nat, NEW done, Sound(c, php, k, done), c.inbox # <<>>,
         Head(c.inbox).kind = "write", NEW e \in BOOLEAN, NEW done2, done \subseteq done2,
         e \/ Head(c.inbox).call \in done2
  PROVE  Sound([c EXCEPT !.inbox = Tail(@), !.lasterr = e], php, k, done2)
<1> DEFINE d == [c EXCEPT !.inbox = Tail(@), !.lasterr = e]
<1>1. c \in Connections
  BY DEF Sound
<1>2. /\ Tail(c.inbox) \in Seq(Messages)
      /\ Len(c.inbox) \in Nat
      /\ Len(Tail(c.inbox)) = Len(c.inbox) - 1
      /\ \A n \in 1..Len(Tail(c.inbox)) : Tail(c.inbox)[n] = c.inbox[n + 1]
      /\ Head(c.inbox) = c.inbox[1]
  BY <1>1, ElementsTyped, HeadTailProperties
<1>3. /\ d \in Connections /\ d.inbox = Tail(c.inbox) /\ d.stream = c.stream
      /\ d.lasterr = e /\ d.reqid = c.reqid
  BY <1>1, <1>2 DEF Connections
<1> HIDE DEF d
<1>4. \A n \in 1..Len(d.inbox) : n + 1 \in 1..Len(c.inbox) /\ d.inbox[n] = c.inbox[n + 1]
  BY <1>2, <1>3
<1>5. Issued(d, php) /\ Begun(d, k)
  BY <1>3, <1>4 DEF Sound, Issued, Begun
<1>6. Truthful(d, done2)
  BY <1>3 DEF Sound, Truthful
<1>7. Backed(d, done2)
  <2> SUFFICES ASSUME NEW n \in 1..Len(d.inbox)
               PROVE  /\ d.inbox[n].kind = "getlasterror" =>
                           IF n = 1 THEN d.lasterr \/ d.inbox[n].call \in done2
                           ELSE d.inbox[n - 1].kind = "write" /\ d.inbox[n - 1].call = d.inbox[n].call
                      /\ d.inbox[n].kind = "ping" => d.inbox[n].id[1] = "con"
    BY DEF Backed
  <2>1. d.inbox[n].kind = "ping" => d.inbox[n].id[1] = "con"
    BY <1>4 DEF Sound, Backed
  <2>2. CASE d.inbox[n].kind = "getlasterror"
    <3>1. c.inbox[n].kind = "write" /\ c.inbox[n].call = c.inbox[n + 1].call
      BY <1>2, <1>4, <2>2 DEF Sound, Backed
    <3>2. CASE n = 1
      BY <1>2, <1>3, <1>4, <2>1, <3>1, <3>2
    <3>3. CASE n # 1
      <4>1. n - 1 \in 1..Len(d.inbox) /\ d.inbox[n - 1] = c.inbox[n]
        BY <1>2, <1>3, <1>4, <3>3
      <4> QED BY <1>4, <2>1, <3>1, <3>3, <4>1
    <3> QED BY <3>2, <3>3
  <2> QED BY <2>1, <2>2
<1> QED BY <1>3, <1>5, <1>6, <1>7 DEF Sound, d

\* The server takes the first request and answers it, if it can.
LEMMA SoundAnswered ==
  ASSUME NEW c, NEW php, NEW k \in Nat, NEW done, Sound(c, php, k, done), c.inbox # <<>>,
         Head(c.inbox).kind # "write", NEW e \in BOOLEAN, NEW done2, done \subseteq done2,
         NEW ok \in BOOLEAN, Head(c.inbox).id[1] = "php" /\ ok => Head(c.inbox).call \in done2
  PROVE  Sound([c EXCEPT !.inbox = Tail(@), !.lasterr = e,
                         !.stream = IF c.broken THEN @ ELSE Append(@, Answer(Head(c.inbox), ok))],
               php, k, done2)
<1> DEFINE h == Head(c.inbox)
           a == Answer(h, ok)
           st == IF c.broken THEN c.stream ELSE Append(c.stream, a)
           d == [c EXCEPT !.inbox = Tail(@), !.lasterr = e,
                          !.stream = IF c.broken THEN @ ELSE Append(@, a)]
<1>1. c \in Connections
  BY DEF Sound
<1>2. /\ Tail(c.inbox) \in Seq(Messages)
      /\ Len(c.inbox) \in Nat /\ Len(c.inbox) > 0
      /\ Len(Tail(c.inbox)) = Len(c.inbox) - 1
      /\ \A n \in 1..Len(Tail(c.inbox)) : Tail(c.inbox)[n] = c.inbox[n + 1]
      /\ h = c.inbox[1]
  BY <1>1, ElementsTyped, HeadTailProperties, EmptySeq
<1>3. h \in Messages /\ h.id \in Ids /\ h.call \in Nat
  BY <1>1, <1>2, ElementsTyped
<1>4. a \in Answers /\ a.to = h.id /\ a.call = h.call /\ a.ok = ok
  BY <1>3 DEF Answer, Answers
<1> HIDE DEF h, a
<1>5. /\ st \in Seq(Answers)
      /\ \A n \in 1..Len(st) : st[n] = a \/ (n \in 1..Len(c.stream) /\ st[n] = c.stream[n])
  <2>1. c.stream \in Seq(Answers) /\ Len(c.stream) \in Nat
    BY <1>1, ElementsTyped
  <2>2. CASE c.broken
    BY <2>1, <2>2
  <2>3. CASE ~c.broken
    <3>1. st = Append(c.stream, a)
      BY <2>3
    <3>2. /\ st \in Seq(Answers) /\ Len(st) = Len(c.stream) + 1
          /\ \A n \in 1..Len(c.stream) : st[n] = c.stream[n]
          /\ st[Len(c.stream) + 1] = a
      BY <1>4, <2>1, <3>1, AppendProperties
    <3> QED BY <2>1, <3>2
  <2> QED BY <2>2, <2>3
<1> HIDE DEF st
<1>6. /\ d \in Connections /\ d.inbox = Tail(c.inbox) /\ d.stream = st
      /\ d.lasterr = e /\ d.reqid = c.reqid
  BY <1>1, <1>2, <1>5 DEF Connections, st
<1> HIDE DEF d
<1>7. \A n \in 1..Len(d.inbox) : n + 1 \in 1..Len(c.inbox) /\ d.inbox[n] = c.inbox[n + 1]
  BY <1>2, <1>6
<1>8. Issued(d, php)
  BY <1>2, <1>4, <1>5, <1>6, <1>7 DEF Sound, Issued
<1>9. Begun(d, k)
  BY <1>7 DEF Sound, Begun
<1>10. Truthful(d, done2)
  BY <1>4, <1>5, <1>6 DEF Sound, Truthful, h
<1>11. Backed(d, done2)
  <2> SUFFICES ASSUME NEW n \in 1..Len(d.inbox)
               PROVE  /\ d.inbox[n].kind = "getlasterror" =>
                           IF n = 1 THEN d.lasterr \/ d.inbox[n].call \in done2
                           ELSE d.inbox[n - 1].kind = "write" /\ d.inbox[n - 1].call = d.inbox[n].call
                      /\ d.inbox[n].kind = "ping" => d.inbox[n].id[1] = "con"
    BY DEF Backed
  <2>1. d.inbox[n].kind = "ping" => d.inbox[n].id[1] = "con"
    BY <1>7 DEF Sound, Backed
  <2>2. CASE d.inbox[n].kind = "getlasterror"
    <3>1. c.inbox[n].kind = "write" /\ c.inbox[n].call = c.inbox[n + 1].call
      BY <1>2, <1>7, <2>2 DEF Sound, Backed
    <3>2. n # 1
      BY <1>2, <3>1 DEF h
    <3>3. n - 1 \in 1..Len(d.inbox) /\ d.inbox[n - 1] = c.inbox[n]
      BY <1>2, <1>6, <1>7, <3>2
    <3> QED BY <1>7, <2>1, <3>1, <3>2, <3>3
  <2> QED BY <2>1, <2>2
<1> QED BY <1>6, <1>8, <1>9, <1>10, <1>11 DEF Sound, d, a, h

\* Requests are sent.
LEMMA SoundPushed ==
  ASSUME NEW c, NEW php \in Nat, NEW k \in Nat, NEW done, Sound(c, php, k, done), k > 0,
         NEW rs \in Seq(Messages), NEW php2 \in Nat, php <= php2,
         NEW own2 \in Nat, c.reqid <= own2,
         \A m \in 1..Len(rs) :
            /\ GivenOut(rs[m].id, php2, own2)
            /\ rs[m].call = k
            /\ rs[m].kind = "getlasterror" => m > 1 /\ rs[m - 1].kind = "write"
            /\ rs[m].kind = "ping" => rs[m].id[1] = "con"
  PROVE  Sound([c EXCEPT !.inbox = @ \o rs, !.reqid = own2], php2, k, done)
<1> DEFINE d == [c EXCEPT !.inbox = @ \o rs, !.reqid = own2]
           L == Len(c.inbox)
<1>1. c \in Connections /\ c.reqid \in Nat
  BY DEF Sound, Connections
<1>2. L \in Nat /\ Len(rs) \in Nat /\ c.inbox \in Seq(Messages)
  BY <1>1, ElementsTyped, LenProperties
<1>3. /\ c.inbox \o rs \in Seq(Messages)
      /\ Len(c.inbox \o rs) = L + Len(rs)
      /\ \A n \in 1..(L + Len(rs)) : (c.inbox \o rs)[n] = IF n <= L THEN c.inbox[n] ELSE rs[n - L]
  BY <1>2, ConcatProperties
<1>4. /\ d \in Connections /\ d.inbox = c.inbox \o rs /\ d.stream = c.stream
      /\ d.lasterr = c.lasterr /\ d.reqid = own2
  BY <1>1, <1>3 DEF Connections
<1> HIDE DEF d
<1>5. \A n \in 1..Len(d.inbox) :
        \/ n \in 1..L /\ d.inbox[n] = c.inbox[n]
        \/ n - L \in 1..Len(rs) /\ n > L /\ d.inbox[n] = rs[n - L]
  BY <1>2, <1>3, <1>4
<1>6. \A id \in Ids : GivenOut(id, php, c.reqid) => GivenOut(id, php2, own2)
  BY <1>1 DEF Ids, GivenOut
<1>7. Issued(d, php2)
  <2>1. \A n \in 1..Len(d.inbox) : GivenOut(d.inbox[n].id, php2, d.reqid)
    <3> SUFFICES ASSUME NEW n \in 1..Len(d.inbox) PROVE GivenOut(d.inbox[n].id, php2, own2)
      BY <1>4
    <3>1. CASE n \in 1..L /\ d.inbox[n] = c.inbox[n]
      <4>1. GivenOut(c.inbox[n].id, php, c.reqid) /\ c.inbox[n].id \in Ids
        BY <1>1, <3>1, ElementsTyped DEF Sound, Issued
      <4> QED BY <1>6, <3>1, <4>1
    <3>2. CASE n - L \in 1..Len(rs) /\ d.inbox[n] = rs[n - L]
      BY <3>2
    <3> QED BY <1>5, <3>1, <3>2
  <2>2. \A n \in 1..Len(d.stream) : GivenOut(d.stream[n].to, php2, d.reqid)
    <3> SUFFICES ASSUME NEW n \in 1..Len(c.stream) PROVE GivenOut(c.stream[n].to, php2, own2)
      BY <1>4
    <3>1. GivenOut(c.stream[n].to, php, c.reqid) /\ c.stream[n].to \in Ids
      BY <1>1, ElementsTyped DEF Sound, Issued
    <3> QED BY <1>6, <3>1
  <2> QED BY <2>1, <2>2 DEF Issued
<1>8. Begun(d, k)
  <2>1. \A n \in 1..L : c.inbox[n].call \in 1..k
    BY DEF Sound, Begun
  <2>2. \A m \in 1..Len(rs) : rs[m].call \in 1..k
    OBVIOUS
  <2> QED BY <1>5, <2>1, <2>2 DEF Begun
<1>9. Truthful(d, done)
  BY <1>4 DEF Sound, Truthful
<1>10. Backed(d, done)
  <2> SUFFICES ASSUME NEW n \in 1..Len(d.inbox)
               PROVE  /\ d.inbox[n].kind = "getlasterror" =>
                           IF n = 1 THEN d.lasterr \/ d.inbox[n].call \in done
                           ELSE d.inbox[n - 1].kind = "write" /\ d.inbox[n - 1].call = d.inbox[n].call
                      /\ d.inbox[n].kind = "ping" => d.inbox[n].id[1] = "con"
    BY DEF Backed
  <2>0. n \in Nat /\ n <= L + Len(rs) /\ n >= 1
    BY <1>2, <1>3, <1>4
  <2>1. CASE n \in 1..L
    <3>1. d.inbox[n] = c.inbox[n]
      BY <1>2, <1>5, <2>1
    <3>2. n # 1 => d.inbox[n - 1] = c.inbox[n - 1]
      BY <1>2, <1>3, <1>4, <2>1
    <3> QED BY <1>4, <2>1, <3>1, <3>2 DEF Sound, Backed
  <2>2. CASE n > L
    <3>1. n - L \in 1..Len(rs) /\ d.inbox[n] = rs[n - L]
      BY <1>2, <1>3, <1>4, <2>0, <2>2
    <3>2. CASE d.inbox[n].kind = "getlasterror"
      <4>1. n - L > 1 /\ rs[(n - L) - 1].kind = "write"
        BY <3>1, <3>2
      <4>2. n # 1 /\ d.inbox[n - 1] = rs[(n - L) - 1] /\ (n - L) - 1 \in 1..Len(rs)
        <5>1. n - 1 \in 1..(L + Len(rs)) /\ ~(n - 1 <= L) /\ (n - 1) - L = (n - L) - 1
          BY <1>2, <2>0, <4>1
        <5>2. d.inbox[n - 1] = rs[(n - 1) - L]
          BY <1>3, <1>4, <5>1
        <5>3. n # 1 /\ (n - L) - 1 \in 1..Len(rs)
          BY <1>2, <2>0, <4>1
        <5> QED BY <5>1, <5>2, <5>3
      <4> QED BY <3>1, <3>2, <4>1, <4>2
    <3> QED BY <3>1, <3>2
  <2> QED BY <1>2, <2>0, <2>1, <2>2
<1> QED BY <1>4, <1>7, <1>8, <1>9, <1>10 DEF Sound, d

LEMMA ZeroLength ==
  /\ \A s \in Seq(Messages) : Len(s) = 0 => s = <<>>
  /\ \A s \in Seq(Answers) : Len(s) = 0 => s = <<>>
BY EmptySeq

\* The driver takes the answer at the head of the stream.
LEMMA SoundTaken ==
  ASSUME NEW c, NEW php, NEW k, NEW done, Sound(c, php, k, done), c.stream # <<>>
  PROVE  /\ Sound([c EXCEPT !.stream = Tail(@)], php, k, done)
         /\ Head(c.stream) = c.stream[1] /\ 1 \in 1..Len(c.stream)
<1> DEFINE d == [c EXCEPT !.stream = Tail(@)]
<1>1. c \in Connections
  BY DEF Sound
<1>2. /\ Tail(c.stream) \in Seq(Answers)
      /\ Len(c.stream) \in Nat /\ Len(c.stream) > 0
      /\ Len(Tail(c.stream)) = Len(c.stream) - 1
      /\ \A n \in 1..Len(Tail(c.stream)) : Tail(c.stream)[n] = c.stream[n + 1]
      /\ Head(c.stream) = c.stream[1]
  BY <1>1, ElementsTyped, HeadTailProperties, EmptySeq
<1>3. /\ d \in Connections /\ d.inbox = c.inbox /\ d.stream = Tail(c.stream)
      /\ d.lasterr = c.lasterr /\ d.reqid = c.reqid
  BY <1>1, <1>2 DEF Connections
<1> HIDE DEF d
<1>4. \A n \in 1..Len(d.stream) : n + 1 \in 1..Len(c.stream) /\ d.stream[n] = c.stream[n + 1]
  BY <1>2, <1>3
<1>5. Issued(d, php) /\ Begun(d, k)
  BY <1>3, <1>4 DEF Sound, Issued, Begun
<1>6. Truthful(d, done) /\ Backed(d, done)
  BY <1>3, <1>4 DEF Sound, Truthful, Backed
<1> QED BY <1>2, <1>3, <1>5, <1>6 DEF Sound, d

-----------------------------------------------------------------------------
(* What is owed *)

\* A write is served: nothing changes about the debt.
LEMMA DebtWriteServed ==
  ASSUME NEW c \in Connections, NEW w \in BOOLEAN, Debt(c, w), c.inbox # <<>>,
         Head(c.inbox).kind = "write", NEW e \in BOOLEAN
  PROVE  Debt([c EXCEPT !.inbox = Tail(@), !.lasterr = e], w)
<1> DEFINE d == [c EXCEPT !.inbox = Tail(@), !.lasterr = e]
<1>1. /\ d.inbox = Tail(c.inbox) /\ d.stream = c.stream /\ d.missed = c.missed
      /\ d.broken = c.broken /\ d.aligned = c.aligned
  BY DEF Connections
<1>2. /\ Len(c.inbox) \in Nat /\ Len(c.inbox) > 0
      /\ Len(Tail(c.inbox)) = Len(c.inbox) - 1
      /\ \A n \in 1..Len(Tail(c.inbox)) : Tail(c.inbox)[n] = c.inbox[n + 1]
      /\ Head(c.inbox) = c.inbox[1]
  BY ElementsTyped, HeadTailProperties, EmptySeq
<1> HIDE DEF d
<1>3. \A n \in 1..Len(d.inbox) : n + 1 \in 1..Len(c.inbox) /\ d.inbox[n] = c.inbox[n + 1]
  BY <1>1, <1>2
<1>4. Silent(c) => Silent(d)
  BY <1>1, <1>3 DEF Silent
<1>5. Owing(c) => Owing(d)
  <2> SUFFICES ASSUME Owing(c) PROVE Owing(d)
    OBVIOUS
  <2>1. /\ c.stream = <<>>
        /\ \A n \in 1..Len(c.inbox) : c.inbox[n].kind = "write" <=> n < Len(c.inbox)
    BY <1>2, EmptySeq DEF Owing
  <2>2. 1 < Len(c.inbox)
    BY <1>2, <2>1
  <2>3. Len(d.inbox) > 0 /\ Len(d.inbox) = Len(c.inbox) - 1
    BY <1>1, <1>2, <2>2
  <2>4. ASSUME NEW n \in 1..Len(d.inbox)
        PROVE  d.inbox[n].kind = "write" <=> n < Len(d.inbox)
    <3>1. c.inbox[n + 1].kind = "write" <=> n + 1 < Len(c.inbox)
      BY <1>3, <2>1
    <3> QED BY <1>2, <1>3, <2>3, <3>1
  <2> QED BY <1>1, <2>1, <2>3, <2>4 DEF Owing
<1> QED BY <1>1, <1>4, <1>5 DEF Debt, d

\* Something else is served only while it is owed, and then it is on the stream.
LEMMA DebtAnswered ==
  ASSUME NEW c \in Connections, NEW w \in BOOLEAN, Debt(c, w), c.inbox # <<>>,
         Head(c.inbox).kind # "write", NEW e \in BOOLEAN, NEW ok \in BOOLEAN
  PROVE  Debt([c EXCEPT !.inbox = Tail(@), !.lasterr = e,
                        !.stream = IF c.broken THEN @ ELSE Append(@, Answer(Head(c.inbox), ok))], w)
<1> DEFINE a == Answer(Head(c.inbox), ok)
           d == [c EXCEPT !.inbox = Tail(@), !.lasterr = e,
                          !.stream = IF c.broken THEN @ ELSE Append(@, a)]
<1>1. /\ d.inbox = Tail(c.inbox) /\ d.missed = c.missed
      /\ d.broken = c.broken /\ d.aligned = c.aligned
      /\ ~c.broken => d.stream = Append(c.stream, a)
  BY DEF Connections
<1>2. /\ Len(c.inbox) \in Nat /\ Len(c.inbox) > 0
      /\ Tail(c.inbox) \in Seq(Messages)
      /\ Len(Tail(c.inbox)) = Len(c.inbox) - 1
      /\ Head(c.inbox) = c.inbox[1] /\ 1 \in 1..Len(c.inbox)
  BY ElementsTyped, HeadTailProperties, EmptySeq
<1>3. a \in Answers
  BY <1>2, ElementsTyped DEF Answer, Answers
<1> HIDE DEF d, a
<1>4. CASE c.missed \/ c.broken
  BY <1>1, <1>4 DEF Debt, d, a
<1>5. CASE ~c.missed /\ ~c.broken
  <2>1. ~Silent(c)
    BY <1>2 DEF Silent
  <2>2. w /\ Owing(c) /\ c.aligned
    BY <1>5, <2>1 DEF Debt
  <2>3. /\ c.stream = <<>>
        /\ c.inbox[1].kind = "write" <=> 1 < Len(c.inbox)
    BY <1>2, <2>2, EmptySeq DEF Owing
  <2>4. Len(c.inbox) = 1
    <3>1. c.inbox[1].kind # "write"
      BY <1>2
    <3>2. ~(1 < Len(c.inbox))
      BY <2>3, <3>1
    <3>3. Len(c.inbox) \in Nat /\ Len(c.inbox) > 0
      BY <1>2
    <3>4. \A x \in Nat : x > 0 /\ ~(1 < x) => x = 1
      OBVIOUS
    <3> QED BY <3>2, <3>3, <3>4
  <2>5. d.inbox = <<>>
    <3>1. Len(Tail(c.inbox)) = 0
      BY <1>2, <2>4
    <3> QED BY <1>1, <1>2, <3>1, ZeroLength
  <2>6. Len(d.stream) = 1
    <3>1. <<>> \in Seq(Answers) /\ Len(<<>>) = 0
      BY EmptySeq
    <3>2. Len(Append(<<>>, a)) = Len(<<>>) + 1
      BY <1>3, <3>1, AppendProperties
    <3>3. d.stream = Append(<<>>, a)
      BY <1>1, <1>5, <2>3
    <3> QED BY <3>1, <3>2, <3>3
  <2>7. Owing(d)
    BY <2>5, <2>6 DEF Owing
  <2> QED BY <1>1, <2>2, <2>7 DEF Debt, d, a
<1> QED BY <1>4, <1>5

\* The answer that is owed is taken.
LEMMA DebtTaken ==
  ASSUME NEW c \in Connections, Debt(c, TRUE), c.aligned, c.stream # <<>>, NEW p \in BOOLEAN
  PROVE  Debt([c EXCEPT !.pingDue = p, !.stream = Tail(@)], FALSE)
<1> DEFINE d == [c EXCEPT !.pingDue = p, !.stream = Tail(@)]
<1>1. /\ d.inbox = c.inbox /\ d.missed = c.missed /\ d.stream = Tail(c.stream)
      /\ d.broken = c.broken /\ d.aligned = c.aligned
  BY DEF Connections
<1>2. /\ Tail(c.stream) \in Seq(Answers)
      /\ Len(Tail(c.stream)) = Len(c.stream) - 1
  BY ElementsTyped, HeadTailProperties
<1> HIDE DEF d
<1>3. Owing(c) => Silent(d)
  <2> SUFFICES ASSUME Owing(c) PROVE Silent(d)
    OBVIOUS
  <2>1. Len(c.stream) = 1 /\ c.inbox = <<>>
    BY DEF Owing
  <2>2. Tail(c.stream) = <<>>
    <3>1. Len(Tail(c.stream)) = 0
      BY <1>2, <2>1
    <3> QED BY <1>2, <3>1, ZeroLength
  <2> QED BY <1>1, <2>1, <2>2, EmptySeq DEF Silent
<1> QED BY <1>1, <1>3 DEF Debt, d

\* Requests are sent over a silent connection: if the last of them is not a write,
\* and only that one, an answer is owed.
LEMMA DebtPushed ==
  ASSUME NEW c \in Connections, Debt(c, FALSE), NEW rs \in Seq(Messages), NEW own \in Nat,
         Len(rs) > 0, NEW w \in BOOLEAN,
         \A m \in 1..Len(rs) : rs[m].kind = "write" <=> (w => m < Len(rs))
  PROVE  Debt([c EXCEPT !.inbox = @ \o rs, !.reqid = own], w)
<1> DEFINE d == [c EXCEPT !.inbox = @ \o rs, !.reqid = own]
           L == Len(c.inbox)
<1>1. /\ d.inbox = c.inbox \o rs /\ d.missed = c.missed /\ d.stream = c.stream
      /\ d.broken = c.broken /\ d.aligned = c.aligned
  BY DEF Connections
<1>2. L \in Nat /\ Len(rs) \in Nat /\ c.inbox \in Seq(Messages)
  BY ElementsTyped, LenProperties
<1>3. /\ Len(d.inbox) = L + Len(rs)
      /\ \A n \in 1..(L + Len(rs)) : d.inbox[n] = IF n <= L THEN c.inbox[n] ELSE rs[n - L]
  BY <1>1, <1>2, ConcatProperties
<1> HIDE DEF d
<1>4. ASSUME Silent(c) PROVE IF w THEN Owing(d) ELSE Silent(d)
  <2>1. \A n \in 1..L : c.inbox[n].kind = "write"
    BY <1>4 DEF Silent
  <2>2. ASSUME NEW n \in 1..Len(d.inbox)
        PROVE  d.inbox[n].kind = "write" <=> (w => n < Len(d.inbox))
    <3>1. CASE n <= L
      <4>1. d.inbox[n] = c.inbox[n] /\ n < Len(d.inbox) /\ n \in 1..L
        BY <1>2, <1>3, <3>1
      <4> QED BY <2>1, <4>1
    <3>2. CASE ~(n <= L)
      <4>1. d.inbox[n] = rs[n - L] /\ n - L \in 1..Len(rs)
        BY <1>2, <1>3, <3>2
      <4>2. n < Len(d.inbox) <=> n - L < Len(rs)
        BY <1>2, <1>3
      <4>3. rs[n - L].kind = "write" <=> (w => n - L < Len(rs))
        BY <4>1
      <4> QED BY <4>1, <4>2, <4>3
    <3> QED BY <3>1, <3>2
  <2>3. Len(d.inbox) > 0 /\ d.stream = <<>>
    BY <1>1, <1>2, <1>3, <1>4 DEF Silent
  <2> QED BY <2>2, <2>3 DEF Owing, Silent
<1> QED BY <1>1, <1>4 DEF Debt, d

-----------------------------------------------------------------------------
(* Whose id it is *)

\* What was given out before differs from an id that is given out now.
LEMMA NewIdBelongs ==
  ASSUME NEW c \in Connections, NEW php \in Nat, Issued(c, php), NEW p \in Nat, php <= p, NEW k
  PROVE  Belongs(c, <<"php", p>>, k)
<1>1. /\ \A n \in 1..Len(c.inbox) : c.inbox[n].id \in Ids
      /\ \A n \in 1..Len(c.stream) : c.stream[n].to \in Ids
  BY ElementsTyped
<1>2. c.reqid \in Nat
  BY DEF Connections
<1>3. \A id \in Ids : GivenOut(id, php, c.reqid) => id # <<"php", p>>
  BY <1>2 DEF Ids, GivenOut
<1> QED BY <1>1, <1>3 DEF Issued, Belongs

LEMMA BelongsPushed ==
  ASSUME NEW c \in Connections, NEW id, NEW k, Belongs(c, id, k), NEW rs \in Seq(Messages),
         \A m \in 1..Len(rs) : rs[m].call = k, NEW own
  PROVE  Belongs([c EXCEPT !.inbox = @ \o rs, !.reqid = own], id, k)
<1> DEFINE d == [c EXCEPT !.inbox = @ \o rs, !.reqid = own]
           L == Len(c.inbox)
<1>1. d.inbox = c.inbox \o rs /\ d.stream = c.stream
  BY DEF Connections
<1>2. L \in Nat /\ Len(rs) \in Nat /\ c.inbox \in Seq(Messages)
  BY ElementsTyped, LenProperties
<1>3. /\ Len(d.inbox) = L + Len(rs)
      /\ \A n \in 1..(L + Len(rs)) : d.inbox[n] = IF n <= L THEN c.inbox[n] ELSE rs[n - L]
  BY <1>1, <1>2, ConcatProperties
<1> HIDE DEF d
<1>4. \A n \in 1..Len(d.inbox) :
        \/ n \in 1..L /\ d.inbox[n] = c.inbox[n]
        \/ n - L \in 1..Len(rs) /\ d.inbox[n] = rs[n - L]
  BY <1>2, <1>3
<1> QED BY <1>1, <1>4 DEF Belongs, d

LEMMA BelongsServed ==
  ASSUME NEW c \in Connections, NEW id, NEW k, Belongs(c, id, k), c.inbox # <<>>, NEW e, NEW ok
  PROVE  /\ Belongs([c EXCEPT !.inbox = Tail(@), !.lasterr = e], id, k)
         /\ ok \in BOOLEAN =>
              Belongs([c EXCEPT !.inbox = Tail(@), !.lasterr = e,
                                !.stream = IF c.broken THEN @ ELSE Append(@, Answer(Head(c.inbox), ok))],
                      id, k)
<1> DEFINE a == Answer(Head(c.inbox), ok)
           st == IF c.broken THEN c.stream ELSE Append(c.stream, a)
           d == [c EXCEPT !.inbox = Tail(@), !.lasterr = e]
           f == [c EXCEPT !.inbox = Tail(@), !.lasterr = e,
                          !.stream = IF c.broken THEN @ ELSE Append(@, a)]
<1>1. /\ d.inbox = Tail(c.inbox) /\ d.stream = c.stream
      /\ f.inbox = Tail(c.inbox) /\ f.stream = st
  BY DEF Connections
<1>2. /\ Len(c.inbox) \in Nat /\ Len(c.inbox) > 0
      /\ Len(Tail(c.inbox)) = Len(c.inbox) - 1
      /\ \A n \in 1..Len(Tail(c.inbox)) : Tail(c.inbox)[n] = c.inbox[n + 1]
      /\ Head(c.inbox) = c.inbox[1] /\ 1 \in 1..Len(c.inbox)
  BY ElementsTyped, HeadTailProperties, EmptySeq
<1>3. \A n \in 1..Len(Tail(c.inbox)) : Tail(c.inbox)[n].id = id => Tail(c.inbox)[n].call = k
  <2>1. \A n \in 1..Len(Tail(c.inbox)) : n + 1 \in 1..Len(c.inbox)
    BY <1>2
  <2> QED BY <1>2, <2>1 DEF Belongs
<1>4. a.to = Head(c.inbox).id /\ a.call = Head(c.inbox).call
  BY DEF Answer
<1>5. ok \in BOOLEAN => a \in Answers
  BY <1>2, ElementsTyped DEF Answer, Answers
<1> HIDE DEF a, d, f
<1>6. Belongs(d, id, k)
  BY <1>1, <1>3 DEF Belongs
<1>7. ASSUME ok \in BOOLEAN PROVE Belongs(f, id, k)
  <2>1. c.stream \in Seq(Answers) /\ Len(c.stream) \in Nat
    BY ElementsTyped
  <2>2. \A n \in 1..Len(st) : st[n] = a \/ (n \in 1..Len(c.stream) /\ st[n] = c.stream[n])
    <3>1. CASE c.broken
      BY <2>1, <3>1
    <3>2. CASE ~c.broken
      <4>1. st = Append(c.stream, a)
        BY <3>2
      <4>2. /\ Len(st) = Len(c.stream) + 1
            /\ \A n \in 1..Len(c.stream) : st[n] = c.stream[n]
            /\ st[Len(c.stream) + 1] = a
        BY <1>5, <1>7, <2>1, <4>1, AppendProperties
      <4> QED BY <2>1, <4>2
    <3> QED BY <3>1, <3>2
  <2> HIDE DEF st
  <2>3. a.to = id => a.call = k
    BY <1>2, <1>4 DEF Belongs
  <2> QED BY <1>1, <1>3, <2>2, <2>3 DEF Belongs
<1> QED BY <1>6, <1>7 DEF d, f, a

-----------------------------------------------------------------------------
(* The invariant holds *)

LEMMA InvInit == Init => IInv
BY WritesAssumption DEF Init, IInv, Typed, Unconnected, SuccessIsOwn

\* A call begins.
LEMMA InvCall ==
  ASSUME IInv, Call
  PROVE  IInv'
<1>1. /\ pc = "idle" /\ call.n < MaxCalls /\ call'.n = call.n + 1
      /\ call'.op = "command" => call'.waits
      /\ pc' = "connection" /\ result' = NULL
      /\ UNCHANGED <<request_id, con, applied>>
  <2>1. CASE CallCommand
    BY <2>1 DEF CallCommand
  <2>2. ASSUME NEW op \in WriteOps, NEW argument \in Options, CallWrite(op, argument)
        PROVE  <1>1!:
    <3>1. op # "command"
      BY WritesAssumption
    <3> QED BY <2>2, <3>1 DEF CallWrite
  <2> QED BY <2>1, <2>2 DEF Call
<1>2. Typed'
  BY <1>1, WritesAssumption DEF IInv, Typed
<1>3. SuccessIsOwn'
  BY <1>1 DEF SuccessIsOwn
<1>4. CASE Unconnected
  BY <1>1, <1>2, <1>3, <1>4 DEF IInv, Unconnected
<1>5. CASE Connected
  <2>1. request_id \in Nat /\ call.n \in Nat /\ call'.n \in Nat /\ call.n <= call'.n
    BY <1>1 DEF IInv, Typed
  <2>2. Sound(con, request_id, call'.n, applied)
    BY <1>5, <2>1, SoundLater DEF Connected
  <2>3. Debt(con, FALSE)
    BY <1>1, <1>5 DEF Connected, Waiting, Debt
  <2>4. Connected'
    BY <1>1, <2>2, <2>3 DEF Connected, Waiting, Debt
  <2> QED BY <1>2, <1>3, <2>4 DEF IInv
<1> QED BY <1>4, <1>5 DEF IInv

\* The call ends, or goes on, over the same connection.
LEMMA InvSameConnection ==
  ASSUME IInv, Connected,
         pc \in {"connection", "send"}, pc' \in {"idle", "send"}, UNCHANGED <<con, call, applied>>,
         request_id' \in Nat, request_id <= request_id', result' \in Results \cup {NULL},
         result' = result \/ result'.status # "ok"
  PROVE  IInv'
<1>1. Typed'
  BY DEF IInv, Typed
<1>2. SuccessIsOwn'
  BY DEF IInv, SuccessIsOwn
<1>3. Sound(con, request_id', call.n, applied)
  BY SoundLater DEF Connected, IInv, Typed
<1>4. Debt(con, FALSE)
  BY DEF Connected, Waiting, Debt
<1>5. Connected'
  BY <1>3, <1>4 DEF Connected, Waiting, Debt
<1> QED BY <1>1, <1>2, <1>5 DEF IInv

\* The call ends and the connection is gone.
LEMMA InvNoConnection ==
  ASSUME IInv, con' = NULL, pc' = "idle", UNCHANGED <<call, applied>>, request_id' \in Nat,
         result' \in Results \cup {NULL}, result' = result \/ result'.status # "ok"
  PROVE  IInv'
<1>1. Typed' /\ SuccessIsOwn'
  BY DEF IInv, Typed, SuccessIsOwn
<1> QED BY <1>1 DEF IInv, Unconnected

\* The call fails and leaves a connection of which a read has failed.
LEMMA InvMissed ==
  ASSUME IInv, Connected, NEW a \in BOOLEAN,
         con' = [con EXCEPT !.missed = TRUE, !.aligned = a], pc' = "idle",
         UNCHANGED <<request_id, call, applied>>, result' \in Results, result'.status # "ok"
  PROVE  IInv'
<1>1. Typed' /\ SuccessIsOwn'
  BY DEF IInv, Typed, SuccessIsOwn
<1>2. con \in Connections /\ con.pingDue \in BOOLEAN /\ con.broken \in BOOLEAN
  BY DEF Connected, Sound, Connections
<1>3. con' = [con EXCEPT !.pingDue = con.pingDue, !.aligned = a, !.missed = TRUE,
                         !.broken = con.broken]
  BY <1>2 DEF Connections
<1>4. Sound(con', request_id, call.n, applied) /\ con'.missed
  <2>1. Sound(con, request_id, call.n, applied)
    BY DEF Connected
  <2>2. TRUE \in BOOLEAN
    OBVIOUS
  <2> DEFINE d == [con EXCEPT !.pingDue = con.pingDue, !.aligned = a, !.missed = TRUE,
                              !.broken = con.broken]
  <2>3. d.missed = TRUE
    BY <1>2 DEF Connections
  <2>4. Sound(d, request_id, call.n, applied)
    BY <1>2, <2>1, <2>2, SoundFlags, Zenon
  <2> HIDE DEF d
  <2>5. con' = d
    BY <1>3 DEF d
  <2> QED BY <2>3, <2>4, <2>5
<1>5. Connected'
  BY <1>4 DEF Connected, Debt
<1> QED BY <1>1, <1>5 DEF IInv

\* What a call returns when it is running.
LEMMA Returned ==
  ASSUME IInv, pc # "idle", NEW status \in Statuses, Return(status)
  PROVE  result' \in Results /\ result'.status = status /\ pc' = "idle"
BY DEF IInv, Typed, Return, Results

LEMMA InvConnect ==
  ASSUME IInv, Connect
  PROVE  IInv'
<1>1. pc = "connection" /\ con = NULL /\ UNCHANGED <<request_id, call, applied>>
  BY DEF Connect
<1>2. CASE con' \in NewConnections /\ UNCHANGED <<pc, result>>
  <2>1. Typed' /\ SuccessIsOwn'
    BY <1>1, <1>2 DEF IInv, Typed, SuccessIsOwn
  <2>2. Sound(con', request_id, call.n, applied) /\ Debt(con', FALSE)
    <3>1. request_id \in Nat /\ call.n \in Nat \ {0}
      BY <1>1, WritesAssumption DEF IInv, Typed
    <3> QED BY <1>2, <3>1, FreshSound
  <2>3. Connected'
    BY <1>1, <1>2, <2>2 DEF Connected, Waiting, Debt
  <2> QED BY <2>1, <2>3 DEF IInv
<1>3. CASE UNCHANGED con /\ Return("exception")
  <2>1. result' \in Results /\ result'.status = "exception" /\ pc' = "idle"
    BY <1>1, <1>3, Returned DEF Statuses
  <2>2. request_id' \in Nat /\ con' = NULL
    BY <1>1, <1>3 DEF IInv, Typed
  <2> QED BY <1>1, <2>1, <2>2, InvNoConnection
<1> QED BY <1>2, <1>3 DEF Connect

\* A ping is sent, if the socket takes it.
LEMMA InvSendPing ==
  ASSUME IInv, SendPing
  PROVE  IInv'
<1> DEFINE ping == Request("ping", <<"con", con.reqid + 1>>)
           own == con.reqid + 1
<1>1. /\ pc = "connection" /\ con # NULL /\ pc' = "ping"
      /\ con' = [Sent(<<ping>>) EXCEPT !.reqid = @ + 1]
      /\ UNCHANGED <<request_id, call, result, applied>>
  BY DEF SendPing
<1>2. Connected /\ Sound(con, request_id, call.n, applied) /\ con \in Connections
  BY <1>1 DEF IInv, Unconnected, Connected, Sound
<1>3. /\ request_id \in Nat /\ call.n \in Nat /\ call.n > 0
      /\ con.reqid \in Nat /\ own \in Nat /\ con.reqid <= own /\ request_id <= request_id
  BY <1>1, <1>2 DEF IInv, Typed, Connections
<1>4. Typed' /\ SuccessIsOwn'
  BY <1>1 DEF IInv, Typed, SuccessIsOwn
<1>5. ping \in Messages /\ ping.kind = "ping" /\ ping.call = call.n /\ ping.id = <<"con", own>>
  BY <1>3 DEF Request, Messages, Ids
<1>6. GivenOut(ping.id, request_id, own) /\ ping.id[1] = "con"
  BY <1>3, <1>5 DEF GivenOut
<1> HIDE DEF ping, own
<1>7. CASE ~con.broken
  <2> DEFINE rs == <<ping>>
  <2>1. rs \in Seq(Messages) /\ Len(rs) = 1 /\ rs[1] = ping
    BY <1>5
  <2>2. con' = [con EXCEPT !.inbox = @ \o rs, !.reqid = own]
    BY <1>1, <1>2, <1>7 DEF Sent, Connections, own
  <2> HIDE DEF rs
  <2>3. \A m \in 1..Len(rs) :
          /\ GivenOut(rs[m].id, request_id, own)
          /\ rs[m].call = call.n
          /\ rs[m].kind = "getlasterror" => m > 1 /\ rs[m - 1].kind = "write"
          /\ rs[m].kind = "ping" => rs[m].id[1] = "con"
    BY <1>5, <1>6, <2>1
  <2>4. Sound([con EXCEPT !.inbox = @ \o rs, !.reqid = own], request_id, call.n, applied)
    BY <1>2, <1>3, <2>1, <2>3, SoundPushed, Zenon
  <2>5. Debt(con, FALSE)
    BY <1>1, <1>2 DEF Connected, Waiting, Debt
  <2>6. Debt([con EXCEPT !.inbox = @ \o rs, !.reqid = own], TRUE)
    <3>1. \A m \in 1..Len(rs) : rs[m].kind = "write" <=> (TRUE => m < Len(rs))
      BY <1>5, <2>1
    <3>2. Len(rs) > 0 /\ TRUE \in BOOLEAN
      BY <2>1
    <3> QED BY <1>2, <1>3, <2>1, <2>5, <3>1, <3>2, DebtPushed, Zenon
  <2>7. Connected'
    BY <1>1, <2>2, <2>4, <2>6 DEF Connected, Waiting, Debt
  <2> QED BY <1>4, <2>7 DEF IInv
<1>8. CASE con.broken
  <2> DEFINE rs == <<>>
  <2>1. rs \in Seq(Messages) /\ Len(rs) = 0 /\ con.inbox \o rs = con.inbox
    BY <1>2, EmptySeq, ConcatEmptySeq DEF Connections
  <2>2. con' = [con EXCEPT !.inbox = @ \o rs, !.reqid = own] /\ con'.broken
    <3>1. con' = [con EXCEPT !.reqid = own]
      BY <1>1, <1>2, <1>8 DEF Sent, own
    <3> HIDE DEF rs
    <3> QED BY <1>2, <1>8, <2>1, <3>1 DEF Connections
  <2> HIDE DEF rs
  <2>3. \A m \in 1..Len(rs) :
          /\ GivenOut(rs[m].id, request_id, own)
          /\ rs[m].call = call.n
          /\ rs[m].kind = "getlasterror" => m > 1 /\ rs[m - 1].kind = "write"
          /\ rs[m].kind = "ping" => rs[m].id[1] = "con"
    BY <2>1
  <2>4. Sound([con EXCEPT !.inbox = @ \o rs, !.reqid = own], request_id, call.n, applied)
    BY <1>2, <1>3, <2>1, <2>3, SoundPushed, Zenon
  <2>5. Connected'
    BY <1>1, <2>2, <2>4 DEF Connected, Debt
  <2> QED BY <1>4, <2>5 DEF IInv
<1> QED BY <1>7, <1>8

\* Two ways to write what taking an answer does.
LEMMA TakenTwice ==
  ASSUME NEW c \in Connections, NEW s, NEW p
  PROVE  /\ [c EXCEPT !.pingDue = p, !.stream = s] = [[c EXCEPT !.stream = s] EXCEPT !.pingDue = p]
         /\ [c EXCEPT !.stream = s] = [c EXCEPT !.pingDue = c.pingDue, !.stream = s]
BY DEF Connections

\* Only the ping flag changes.
LEMMA SoundPing ==
  ASSUME NEW c, NEW php, NEW k, NEW done, Sound(c, php, k, done), NEW p \in BOOLEAN
  PROVE  Sound([c EXCEPT !.pingDue = p], php, k, done)
<1>1. /\ c \in Connections /\ c.aligned \in BOOLEAN /\ c.missed \in BOOLEAN
      /\ c.broken \in BOOLEAN
  BY DEF Sound, Connections
<1>2. [c EXCEPT !.pingDue = p] =
        [c EXCEPT !.pingDue = p, !.aligned = c.aligned, !.missed = c.missed, !.broken = c.broken]
  BY <1>1 DEF Connections
<1>3. Sound([c EXCEPT !.pingDue = p, !.aligned = c.aligned, !.missed = c.missed,
                      !.broken = c.broken], php, k, done)
  BY <1>1, SoundFlags, Zenon
<1> QED BY <1>2, <1>3

\* The ping takes an answer: its own, or another that is on the stream.
LEMMA InvPingAnswered ==
  ASSUME IInv, PingAnswered
  PROVE  IInv'
<1>1. /\ pc = "ping" /\ pc' = "send" /\ con.stream # <<>>
      /\ con' = [con EXCEPT !.pingDue = FALSE, !.stream = IF con.aligned THEN Tail(@) ELSE @]
      /\ UNCHANGED <<request_id, call, result, applied>>
  BY DEF PingAnswered
<1>2. Connected /\ Sound(con, request_id, call.n, applied) /\ con \in Connections
  BY <1>1 DEF IInv, Unconnected, Connected, Sound
<1>3. Typed' /\ SuccessIsOwn'
  BY <1>1 DEF IInv, Typed, SuccessIsOwn
<1>4. Debt(con, TRUE)
  BY <1>1, <1>2 DEF Connected, Waiting, Debt
<1>5. Sound(con', request_id, call.n, applied) /\ Debt(con', FALSE)
  <2>1. CASE con.aligned
    <3>1. con' = [con EXCEPT !.pingDue = FALSE, !.stream = Tail(@)]
      BY <1>1, <2>1
    <3>2. Debt(con', FALSE)
      BY <1>1, <1>2, <1>4, <2>1, <3>1, DebtTaken
    <3> DEFINE d == [con EXCEPT !.stream = Tail(@)]
    <3>3. Sound(d, request_id, call.n, applied)
      BY <1>1, <1>2, SoundTaken
    <3>4. con' = [d EXCEPT !.pingDue = FALSE]
      BY <1>2, <3>1, TakenTwice
    <3> HIDE DEF d
    <3>5. Sound(con', request_id, call.n, applied)
      BY <3>3, <3>4, SoundPing
    <3> QED BY <3>2, <3>5
  <2>2. CASE ~con.aligned
    <3>1. con' = [con EXCEPT !.pingDue = FALSE]
      BY <1>1, <1>2, <2>2 DEF Connections
    <3>2. Sound(con', request_id, call.n, applied)
      BY <1>2, <3>1, SoundPing
    <3>3. con'.missed \/ con'.broken
      BY <1>2, <1>4, <2>2, <3>1 DEF Debt, Connections
    <3> QED BY <3>2, <3>3 DEF Debt
  <2> QED BY <2>1, <2>2
<1>6. Connected'
  BY <1>1, <1>5 DEF Connected, Waiting, Debt
<1> QED BY <1>3, <1>6 DEF IInv

\* What a call sends: its write first, and one request that is answered if it waits.
LEMMA RequestsSent ==
  ASSUME IInv, pc = "send"
  PROVE  /\ Requests \in Seq(Messages) /\ Len(Requests) \in {1, 2}
         /\ NextId = request_id + Len(Requests) /\ NextId \in Nat
         /\ \A m \in 1..Len(Requests) :
              /\ GivenOut(Requests[m].id, NextId, con.reqid)
              /\ Requests[m].call = call.n
              /\ Requests[m].kind = "getlasterror" => m > 1 /\ Requests[m - 1].kind = "write"
              /\ Requests[m].kind = "ping" => Requests[m].id[1] = "con"
         /\ call.waits =>
              \A m \in 1..Len(Requests) : Requests[m].kind = "write" <=> (TRUE => m < Len(Requests))
         /\ ~call.waits =>
              \A m \in 1..Len(Requests) : Requests[m].kind = "write" <=> (FALSE => m < Len(Requests))
<1> DEFINE W == Request("write", <<"php", request_id>>)
           G == Request("getlasterror", <<"php", request_id + 1>>)
           C == Request("command", <<"php", request_id>>)
<1>1. request_id \in Nat /\ call.n \in Nat /\ (call.op = "command" => call.waits)
  BY DEF IInv, Typed
<1>2. /\ W \in Messages /\ W.kind = "write" /\ W.call = call.n /\ W.id = <<"php", request_id>>
      /\ G \in Messages /\ G.kind = "getlasterror" /\ G.call = call.n
      /\ G.id = <<"php", request_id + 1>>
      /\ C \in Messages /\ C.kind = "command" /\ C.call = call.n /\ C.id = <<"php", request_id>>
  BY <1>1 DEF Request, Messages, Ids
<1> HIDE DEF W, G, C
<1>3. CASE call.op = "command"
  <2>1. Requests = <<C>>
    BY <1>3 DEF Requests, C
  <2>2. Requests \in Seq(Messages) /\ Len(Requests) = 1 /\ Requests[1] = C
    BY <1>2, <2>1
  <2>3. NextId = request_id + 1
    BY <2>2 DEF NextId
  <2>4. GivenOut(C.id, NextId, con.reqid)
    BY <1>1, <1>2, <2>3 DEF GivenOut
  <2> QED BY <1>1, <1>2, <1>3, <2>2, <2>3, <2>4
<1>4. CASE call.op # "command" /\ call.waits
  <2>1. Requests = <<W>> \o <<G>>
    BY <1>4 DEF Requests, W, G
  <2>2. /\ <<W>> \in Seq(Messages) /\ Len(<<W>>) = 1 /\ <<W>>[1] = W
        /\ <<G>> \in Seq(Messages) /\ Len(<<G>>) = 1 /\ <<G>>[1] = G
    BY <1>2
  <2>3. Requests \in Seq(Messages) /\ Len(Requests) = 2 /\ Requests[1] = W /\ Requests[2] = G
    BY <2>1, <2>2, ConcatProperties
  <2>4. NextId = request_id + 2
    BY <2>3 DEF NextId
  <2>5. GivenOut(W.id, NextId, con.reqid) /\ GivenOut(G.id, NextId, con.reqid)
    BY <1>1, <1>2, <2>4 DEF GivenOut
  <2>6. \A m \in 1..Len(Requests) : m = 1 \/ m = 2
    BY <2>3
  <2>7. ASSUME NEW m \in 1..Len(Requests)
        PROVE  /\ GivenOut(Requests[m].id, NextId, con.reqid)
               /\ Requests[m].call = call.n
               /\ Requests[m].kind = "getlasterror" => m > 1 /\ Requests[m - 1].kind = "write"
               /\ Requests[m].kind = "ping" => Requests[m].id[1] = "con"
               /\ Requests[m].kind = "write" <=> (TRUE => m < Len(Requests))
    <3>1. CASE m = 1
      BY <1>2, <2>3, <2>5, <3>1
    <3>2. CASE m = 2
      BY <1>2, <2>3, <2>5, <3>2
    <3> QED BY <2>6, <3>1, <3>2
  <2>8. NextId = request_id + Len(Requests) /\ NextId \in Nat /\ Len(Requests) \in {1, 2}
    BY <1>1, <2>3, <2>4
  <2> QED BY <1>4, <2>3, <2>7, <2>8
<1>5. CASE call.op # "command" /\ ~call.waits
  <2>1. Requests = <<W>> \o <<>>
    BY <1>5 DEF Requests, W
  <2>2. <<W>> \o <<>> = <<W>>
    OBVIOUS
  <2>3. Requests \in Seq(Messages) /\ Len(Requests) = 1 /\ Requests[1] = W
    BY <1>2, <2>1, <2>2
  <2>4. NextId = request_id + 1
    BY <2>3 DEF NextId
  <2>5. GivenOut(W.id, NextId, con.reqid)
    BY <1>1, <1>2, <2>4 DEF GivenOut
  <2> QED BY <1>1, <1>2, <1>5, <2>3, <2>4, <2>5
<1> QED BY <1>3, <1>4, <1>5

\* A call's requests are sent, or lost on a socket that fails.
LEMMA InvSend ==
  ASSUME IInv, Send
  PROVE  IInv'
<1>1. /\ pc = "send" /\ con' = Sent(Requests) /\ request_id' = NextId
      /\ UNCHANGED <<call, applied>>
      /\ \/ call.waits /\ pc' = "reply" /\ UNCHANGED result
         \/ ~call.waits /\ Return(Unacknowledged(TRUE))
  BY DEF Send
<1>2. Connected /\ Sound(con, request_id, call.n, applied) /\ con \in Connections
  BY <1>1 DEF IInv, Unconnected, Connected, Sound
<1>3. /\ request_id \in Nat /\ call.n \in Nat /\ call.n > 0 /\ con.reqid \in Nat
      /\ con.reqid <= con.reqid
  BY <1>1, <1>2 DEF IInv, Typed, Connections
<1>4. ~call.waits => result' \in Results /\ result'.status = "true" /\ pc' = "idle"
  BY <1>1, Returned DEF Unacknowledged, Statuses
<1>5. /\ NextId \in Nat /\ request_id <= NextId
      /\ request_id <= NextId - 1 /\ NextId - 1 \in Nat
  <2>1. NextId = request_id + Len(Requests) /\ Len(Requests) \in {1, 2}
    BY <1>1, RequestsSent, Zenon
  <2>2. ASSUME NEW l \in {1, 2}, NEW next, next = request_id + l
        PROVE  /\ next \in Nat /\ request_id <= next
               /\ request_id <= next - 1 /\ next - 1 \in Nat
    BY <1>3, <2>2
  <2> QED BY <2>1, <2>2, Zenon
<1>6. Typed' /\ SuccessIsOwn'
  BY <1>1, <1>4, <1>5 DEF IInv, Typed, SuccessIsOwn
<1>7. Debt(con, FALSE) /\ Issued(con, request_id)
  BY <1>1, <1>2 DEF Connected, Waiting, Debt, Sound
<1>8. Belongs(con, <<"php", NextId - 1>>, call.n)
  BY <1>2, <1>3, <1>5, <1>7, NewIdBelongs
<1>9. CASE ~con.broken
  <2> DEFINE rs == Requests
             d == [con EXCEPT !.inbox = @ \o rs, !.reqid = con.reqid]
  <2>1. con' = d
    BY <1>1, <1>2, <1>9 DEF Sent, Connections
  <2>2. /\ rs \in Seq(Messages) /\ Len(rs) > 0
        /\ \A m \in 1..Len(rs) : rs[m].call = call.n
    <3>1. /\ rs \in Seq(Messages) /\ Len(rs) \in {1, 2}
          /\ \A m \in 1..Len(rs) : rs[m].call = call.n
      BY <1>1, RequestsSent, Zenon
    <3> HIDE DEF rs
    <3> QED BY <3>1
  <2>3. \A m \in 1..Len(rs) :
          /\ GivenOut(rs[m].id, NextId, con.reqid)
          /\ rs[m].call = call.n
          /\ rs[m].kind = "getlasterror" => m > 1 /\ rs[m - 1].kind = "write"
          /\ rs[m].kind = "ping" => rs[m].id[1] = "con"
    BY <1>1, RequestsSent
  <2>4. /\ call.waits =>
             \A m \in 1..Len(rs) : rs[m].kind = "write" <=> (TRUE => m < Len(rs))
        /\ ~call.waits =>
             \A m \in 1..Len(rs) : rs[m].kind = "write" <=> (FALSE => m < Len(rs))
    BY <1>1, RequestsSent
  <2> HIDE DEF rs
  <2>5. Sound(d, NextId, call.n, applied)
    BY <1>2, <1>3, <1>5, <2>2, <2>3, SoundPushed, Zenon
  <2>6. Belongs(d, <<"php", NextId - 1>>, call.n)
    BY <1>2, <1>8, <2>2, BelongsPushed, Zenon
  <2>7. call.waits => Debt(d, TRUE)
    <3>1. TRUE \in BOOLEAN
      OBVIOUS
    <3> QED BY <1>2, <1>3, <1>7, <2>2, <2>4, <3>1, DebtPushed, Zenon
  <2>8. ~call.waits => Debt(d, FALSE)
    <3>1. FALSE \in BOOLEAN
      OBVIOUS
    <3> QED BY <1>2, <1>3, <1>7, <2>2, <2>4, <3>1, DebtPushed, Zenon
  <2> HIDE DEF d
  <2>9. Connected'
    BY <1>1, <1>4, <2>1, <2>5, <2>6, <2>7, <2>8 DEF Connected, Waiting, Debt, OwnId
  <2> QED BY <1>6, <2>9 DEF IInv
<1>10. CASE con.broken
  <2>1. con' = con
    BY <1>1, <1>10 DEF Sent
  <2>2. call.n <= call.n /\ applied \subseteq applied
    BY <1>3
  <2>3. Sound(con, NextId, call.n, applied)
    BY <1>2, <1>3, <1>5, <2>2, SoundLater
  <2>4. Connected'
    BY <1>1, <1>8, <1>10, <2>1, <2>3 DEF Connected, Debt, OwnId
  <2> QED BY <1>6, <2>4 DEF IInv
<1> QED BY <1>9, <1>10

\* The call takes its answer, and no other.
LEMMA InvReplyTaken ==
  ASSUME IInv, ReplyTaken
  PROVE  IInv'
<1> DEFINE h == Head(con.stream)
<1>1. /\ pc = "reply" /\ con.stream # <<>> /\ con.aligned /\ h.to = OwnId
      /\ con' = [con EXCEPT !.stream = Tail(@)] /\ Return(Given(h))
      /\ UNCHANGED <<request_id, call, applied>>
  BY DEF ReplyTaken, ForMe
<1>2. Connected /\ Sound(con, request_id, call.n, applied) /\ con \in Connections
  BY <1>1 DEF IInv, Unconnected, Connected, Sound
<1>3. result' \in Results /\ result'.status = Given(h) /\ pc' = "idle"
  BY <1>1, Returned DEF Given, Statuses
<1>4. Typed'
  BY <1>1, <1>3 DEF IInv, Typed
<1>5. Sound(con', request_id, call.n, applied) /\ h = con.stream[1] /\ 1 \in 1..Len(con.stream)
  BY <1>1, <1>2, SoundTaken
<1>6. h.call = call.n /\ h.to[1] = "php"
  BY <1>1, <1>2, <1>5 DEF Connected, Belongs, OwnId
<1>7. h.ok => call.n \in applied
  BY <1>2, <1>5, <1>6 DEF Sound, Truthful
<1>8. SuccessIsOwn'
  BY <1>1, <1>3, <1>7 DEF SuccessIsOwn, Return, Given
<1>9. Debt(con', FALSE)
  <2>1. Debt(con, TRUE)
    BY <1>1, <1>2 DEF Connected, Waiting, Debt
  <2>2. con.pingDue \in BOOLEAN
    BY <1>2 DEF Connections
  <2>3. con' = [con EXCEPT !.pingDue = con.pingDue, !.stream = Tail(@)]
    BY <1>1, <1>2, TakenTwice
  <2> QED BY <1>1, <1>2, <2>1, <2>2, <2>3, DebtTaken
<1>10. Connected'
  BY <1>1, <1>3, <1>5, <1>9 DEF Connected, Waiting, Debt
<1> QED BY <1>4, <1>8, <1>10 DEF IInv

\* The other ways a step of the driver ends.
LEMMA InvEnds ==
  ASSUME IInv,
         \/ UseConnection \/ PingFails \/ EncodeFails \/ GleCrashes \/ SendFails
         \/ NoReply \/ ReplyFails
  PROVE  IInv'
<1>1. request_id \in Nat /\ result \in Results \cup {NULL} /\ {"exception", "true", "false", "null"} \subseteq Statuses
  BY DEF IInv, Typed, Statuses
<1>2. CASE UseConnection
  <2>1. Connected
    BY <1>2 DEF UseConnection, IInv, Unconnected
  <2> QED BY <1>1, <1>2, <2>1, InvSameConnection DEF UseConnection
<1>3. CASE PingFails
  <2>1. result' \in Results /\ result'.status = "exception" /\ pc' = "idle"
    BY <1>1, <1>3, Returned DEF PingFails
  <2> QED BY <1>1, <1>3, <2>1, InvNoConnection DEF PingFails
<1>4. CASE EncodeFails
  <2>1. result' \in Results /\ result'.status # "ok" /\ pc' = "idle"
    BY <1>1, <1>4, Returned DEF EncodeFails
  <2>2. Connected
    BY <1>4 DEF EncodeFails, IInv, Unconnected
  <2> QED BY <1>1, <1>4, <2>1, <2>2, InvSameConnection DEF EncodeFails
<1>5. CASE GleCrashes
  BY <1>1, <1>5, InvNoConnection DEF GleCrashes
<1>6. CASE SendFails
  <2>1. pc = "send" /\ request_id' = NextId /\ UNCHANGED <<call, applied>>
    BY <1>6 DEF SendFails
  <2>2. NextId \in Nat /\ request_id <= NextId
    <3>1. NextId = request_id + Len(Requests) /\ Len(Requests) \in {1, 2}
      BY <2>1, RequestsSent, Zenon
    <3>2. ASSUME NEW l \in {1, 2}, NEW next, next = request_id + l
          PROVE  next \in Nat /\ request_id <= next
      BY <1>1, <3>2
    <3> QED BY <3>1, <3>2, Zenon
  <2>3. Connected
    BY <2>1 DEF IInv, Unconnected
  <2>4. CASE con' = NULL /\ Return("exception")
    <3>1. result' \in Results /\ result'.status = "exception" /\ pc' = "idle"
      BY <1>1, <2>1, <2>4, Returned
    <3> QED BY <2>1, <2>2, <2>4, <3>1, InvNoConnection
  <2>5. CASE UNCHANGED con /\ Return(Unacknowledged(FALSE))
    <3>1. result' \in Results /\ result'.status # "ok" /\ pc' = "idle"
      BY <1>1, <2>1, <2>5, Returned DEF Unacknowledged
    <3> QED BY <2>1, <2>2, <2>3, <2>5, <3>1, InvSameConnection
  <2> QED BY <1>6, <2>4, <2>5 DEF SendFails
<1>7. ASSUME NEW a \in BOOLEAN, pc = "reply", Return("exception"),
             con' = AfterFailure([con EXCEPT !.missed = TRUE, !.aligned = a]),
             UNCHANGED <<request_id, call, applied>>
      PROVE  IInv'
  <2>1. result' \in Results /\ result'.status = "exception" /\ pc' = "idle"
    BY <1>1, <1>7, Returned
  <2>2. CASE con' = NULL
    BY <1>1, <1>7, <2>1, <2>2, InvNoConnection
  <2>3. CASE con' = [con EXCEPT !.missed = TRUE, !.aligned = a]
    <3>1. Connected
      BY <1>7 DEF IInv, Unconnected
    <3> QED BY <1>7, <2>1, <2>3, <3>1, InvMissed
  <2> QED BY <1>7, <2>2, <2>3 DEF AfterFailure
<1>8. CASE NoReply
  <2>1. con \in Connections /\ con.aligned \in BOOLEAN
    BY <1>8 DEF NoReply, IInv, Unconnected, Connected, Sound, Connections
  <2>2. [con EXCEPT !.missed = TRUE] = [con EXCEPT !.missed = TRUE, !.aligned = con.aligned]
    BY <2>1 DEF Connections
  <2> QED BY <1>7, <1>8, <2>1, <2>2 DEF NoReply
<1>9. CASE ReplyFails
  BY <1>7, <1>9 DEF ReplyFails
<1> QED BY <1>2, <1>3, <1>4, <1>5, <1>6, <1>8, <1>9

\* What the network and time do to a connection leaves its content alone.
LEMMA InvAround ==
  ASSUME IInv, Break \/ PingIntervalPasses
  PROVE  IInv'
<1>1. con # NULL /\ UNCHANGED <<request_id, pc, call, result, applied>>
  BY DEF Break, PingIntervalPasses
<1>2. Connected /\ Sound(con, request_id, call.n, applied) /\ con \in Connections
  BY <1>1 DEF IInv, Unconnected, Connected, Sound
<1>3. Typed' /\ SuccessIsOwn' /\ OwnId' = OwnId
  BY <1>1 DEF IInv, Typed, SuccessIsOwn, OwnId
<1>4. CASE Break
  <2> DEFINE d == [con EXCEPT !.pingDue = con.pingDue, !.aligned = con.aligned,
                              !.missed = con.missed, !.broken = TRUE]
  <2>1. /\ con.pingDue \in BOOLEAN /\ con.aligned \in BOOLEAN /\ con.missed \in BOOLEAN
        /\ TRUE \in BOOLEAN
    BY <1>2 DEF Connections
  <2>2. con' = d
    BY <1>2, <1>4 DEF Break, Connections
  <2>3. d.inbox = con.inbox /\ d.stream = con.stream /\ d.broken = TRUE
    BY <1>2 DEF Connections
  <2>4. Sound(d, request_id, call.n, applied)
    <3>1. TRUE \in BOOLEAN
      OBVIOUS
    <3> QED BY <1>2, <2>1, <3>1, SoundFlags, Zenon
  <2> HIDE DEF d
  <2>5. Connected'
    BY <1>1, <1>2, <1>3, <2>2, <2>3, <2>4 DEF Connected, Belongs, Debt
  <2> QED BY <1>3, <2>5 DEF IInv
<1>5. CASE PingIntervalPasses
  <2>1. con' = [con EXCEPT !.pingDue = TRUE] /\ pc = "idle"
    BY <1>5 DEF PingIntervalPasses
  <2>2. /\ con'.inbox = con.inbox /\ con'.stream = con.stream /\ con'.broken = con.broken
        /\ con'.missed = con.missed /\ con'.aligned = con.aligned
    BY <1>2, <2>1 DEF Connections
  <2>3. Sound(con', request_id, call.n, applied)
    BY <1>2, <2>1, SoundPing
  <2>4. Connected'
    BY <1>1, <1>2, <2>1, <2>2, <2>3 DEF Connected, Debt, Silent, Owing, Waiting
  <2> QED BY <1>3, <2>4 DEF IInv
<1> QED BY <1>4, <1>5

\* Ways to write what serving a request does to the connection.
LEMMA ServedTwice ==
  ASSUME NEW c \in Connections, NEW i, NEW s, NEW e
  PROVE  /\ [c EXCEPT !.inbox = i, !.stream = s] =
               [c EXCEPT !.inbox = i, !.lasterr = c.lasterr, !.stream = s]
         /\ [[c EXCEPT !.inbox = i, !.stream = s] EXCEPT !.lasterr = e] =
               [c EXCEPT !.inbox = i, !.lasterr = e, !.stream = s]
BY DEF Connections

\* The server takes a request, does it or refuses it, and answers if it has to.
LEMMA InvServe ==
  ASSUME IInv, Serve
  PROVE  IInv'
<1> DEFINE h == Head(con.inbox)
           Reply(e, ok) == [con EXCEPT !.inbox = Tail(@), !.lasterr = e,
                                !.stream = IF con.broken THEN @ ELSE Append(@, Answer(h, ok))]
<1>1. /\ con # NULL /\ con.inbox # <<>> /\ UNCHANGED <<request_id, pc, call, result>>
  BY DEF Serve
<1>2. Connected /\ Sound(con, request_id, call.n, applied) /\ con \in Connections
  BY <1>1 DEF IInv, Unconnected, Connected, Sound
<1>3. /\ h = con.inbox[1] /\ 1 \in 1..Len(con.inbox) /\ h \in Messages
      /\ con.lasterr \in BOOLEAN
  <2>1. con.inbox \in Seq(Messages) /\ Len(con.inbox) \in Nat /\ Len(con.inbox) > 0
    BY <1>1, <1>2, ElementsTyped, EmptySeq
  <2>2. h = con.inbox[1] /\ 1 \in 1..Len(con.inbox)
    BY <1>1, <2>1, HeadTailProperties
  <2> QED BY <1>2, <2>2, ElementsTyped DEF Connections
<1>4. request_id \in Nat /\ call.n \in Nat /\ call.n \in 0..MaxCalls
  BY WritesAssumption DEF IInv, Typed
<1>5. h.call \in 1..call.n /\ h.call \in 1..MaxCalls
  <2>1. h.call \in 1..call.n
    BY <1>2, <1>3 DEF Sound, Begun
  <2> QED BY <1>4, <2>1, WritesAssumption
<1>6. /\ h.kind = "getlasterror" => con.lasterr \/ h.call \in applied
      /\ h.kind = "ping" => h.id[1] = "con"
  BY <1>2, <1>3 DEF Sound, Backed
<1>7. \/ /\ h.kind = "write"
         /\ \E e \in BOOLEAN :
              /\ con' = [con EXCEPT !.inbox = Tail(@), !.lasterr = e]
              /\ applied' = IF e THEN applied ELSE applied \cup {h.call}
      \/ /\ h.kind # "write"
         /\ \E e \in BOOLEAN, ok \in BOOLEAN :
              /\ con' = Reply(e, ok)
              /\ applied' = applied \/ applied' = applied \cup {h.call}
              /\ h.id[1] = "php" /\ ok => h.call \in applied'
  <2> DEFINE Plain(ok) == [con EXCEPT !.inbox = Tail(@),
                                      !.stream = IF con.broken THEN @ ELSE Append(@, Answer(h, ok))]
  <2>1. \A ok : Plain(ok) = Reply(con.lasterr, ok)
    BY <1>2, ServedTwice, Zenon
  <2>2. \A e, ok : [Plain(ok) EXCEPT !.lasterr = e] = Reply(e, ok)
    BY <1>2, ServedTwice, Zenon
  <2>3. CASE h.kind = "write"
    <3>1. \/ /\ con' = [con EXCEPT !.inbox = Tail(@), !.lasterr = FALSE]
             /\ applied' = applied \cup {h.call}
          \/ /\ con' = [con EXCEPT !.inbox = Tail(@), !.lasterr = TRUE]
             /\ applied' = applied
      BY <2>3 DEF Serve
    <3> QED BY <2>3, <3>1, Zenon
  <2>4. CASE h.kind = "getlasterror"
    <3>1. PICK ok \in BOOLEAN : (con.lasterr => ~ok) /\ con' = Plain(ok)
      BY <2>4 DEF Serve
    <3>2. applied' = applied
      BY <2>4 DEF Serve
    <3> HIDE DEF Plain, Reply
    <3> QED BY <1>3, <1>6, <2>1, <2>4, <3>1, <3>2
  <2>5. CASE h.kind = "command"
    <3>1. PICK ok \in BOOLEAN :
             /\ con' = [Plain(ok) EXCEPT !.lasterr = ~ok]
             /\ applied' = IF ok THEN applied \cup {h.call} ELSE applied
      BY <2>5 DEF Serve
    <3>2. con' = Reply(~ok, ok)
      BY <2>2, <3>1, Zenon
    <3> HIDE DEF Plain, Reply
    <3> QED BY <2>5, <3>1, <3>2
  <2>6. CASE h.kind = "ping"
    <3>1. con' = Plain(TRUE) /\ applied' = applied
      BY <2>6 DEF Serve
    <3> HIDE DEF Plain, Reply
    <3> QED BY <1>3, <1>6, <2>1, <2>6, <3>1
  <2> QED BY <1>3, <2>3, <2>4, <2>5, <2>6 DEF Messages
<1>8. applied \subseteq applied' /\ applied' \subseteq 1..MaxCalls
  <2>1. applied \subseteq 1..MaxCalls
    BY DEF IInv, Typed
  <2> HIDE DEF Reply
  <2> QED BY <1>5, <1>7, <2>1
<1>9. Typed' /\ SuccessIsOwn' /\ OwnId' = OwnId
  BY <1>1, <1>8 DEF IInv, Typed, SuccessIsOwn, OwnId
<1>10. Debt(con, Waiting) /\ Waiting \in BOOLEAN /\ Waiting' = Waiting
  BY <1>1, <1>2 DEF Connected, Waiting
<1>11. CASE /\ h.kind = "write"
            /\ \E e \in BOOLEAN :
                 /\ con' = [con EXCEPT !.inbox = Tail(@), !.lasterr = e]
                 /\ applied' = IF e THEN applied ELSE applied \cup {h.call}
  <2> DEFINE Silently(e) == [con EXCEPT !.inbox = Tail(@), !.lasterr = e]
  <2>1. PICK e \in BOOLEAN : con' = Silently(e) /\ (e \/ h.call \in applied')
    BY <1>11
  <2>2. Sound(con', request_id, call.n, applied')
    <3>1. Sound(Silently(e), request_id, call.n, applied')
      BY <1>1, <1>2, <1>4, <1>8, <1>11, <2>1, SoundWriteServed, Zenon
    <3> QED BY <2>1, <3>1, Zenon
  <2>3. Debt(con', Waiting)
    BY <1>1, <1>2, <1>10, <1>11, <2>1, DebtWriteServed
  <2>4. pc = "reply" => Belongs(con', OwnId, call.n)
    <3> SUFFICES ASSUME Belongs(con, OwnId, call.n) PROVE Belongs(con', OwnId, call.n)
      BY <1>2 DEF Connected
    <3>1. Belongs(Silently(e), OwnId, call.n)
      BY <1>1, <1>2, BelongsServed, Zenon
    <3> QED BY <2>1, <3>1, Zenon
  <2>5. Connected'
    BY <1>1, <1>9, <1>10, <2>2, <2>3, <2>4 DEF Connected
  <2> QED BY <1>9, <2>5 DEF IInv
<1>12. CASE /\ h.kind # "write"
            /\ \E e \in BOOLEAN, ok \in BOOLEAN :
                 /\ con' = Reply(e, ok)
                 /\ applied' = applied \/ applied' = applied \cup {h.call}
                 /\ h.id[1] = "php" /\ ok => h.call \in applied'
  <2>1. PICK e \in BOOLEAN, ok \in BOOLEAN :
           con' = Reply(e, ok) /\ (h.id[1] = "php" /\ ok => h.call \in applied')
    BY <1>12, Zenon
  <2>2. Sound(con', request_id, call.n, applied')
    <3>1. Sound(Reply(e, ok), request_id, call.n, applied')
      BY <1>1, <1>2, <1>4, <1>8, <1>12, <2>1, SoundAnswered, Zenon
    <3> QED BY <2>1, <3>1, Zenon
  <2>3. Debt(con', Waiting)
    BY <1>1, <1>2, <1>10, <1>12, <2>1, DebtAnswered
  <2>4. pc = "reply" => Belongs(con', OwnId, call.n)
    <3> SUFFICES ASSUME Belongs(con, OwnId, call.n) PROVE Belongs(con', OwnId, call.n)
      BY <1>2 DEF Connected
    <3>1. Belongs(Reply(e, ok), OwnId, call.n)
      BY <1>1, <1>2, <2>1, BelongsServed, Zenon
    <3> QED BY <2>1, <3>1, Zenon
  <2>5. Connected'
    BY <1>1, <1>9, <1>10, <2>2, <2>3, <2>4 DEF Connected
  <2> QED BY <1>9, <2>5 DEF IInv
<1> QED BY <1>7, <1>11, <1>12

LEMMA InvStep ==
  ASSUME IInv, [Next]_vars
  PROVE  IInv'
<1>1. CASE Call
  BY <1>1, InvCall
<1>2. CASE Step
  BY <1>2, InvConnect, InvSendPing, InvPingAnswered, InvSend, InvReplyTaken, InvEnds DEF Step
<1>3. CASE Serve
  BY <1>3, InvServe
<1>4. CASE Break \/ PingIntervalPasses
  BY <1>4, InvAround
<1>5. CASE UNCHANGED vars
  BY <1>5 DEF vars, IInv, Typed, Unconnected, Connected, Sound, Issued, Begun, Backed, Truthful,
              Belongs, OwnId, Debt, Waiting, Silent, Owing, SuccessIsOwn
<1> QED BY <1>1, <1>2, <1>3, <1>4, <1>5 DEF Next

LEMMA Invariance == Spec => []IInv
BY InvInit, InvStep, PTL DEF Spec

-----------------------------------------------------------------------------
(* Theorems *)

\* Ids are given out in order, by the worker and by the connection, and whatever
\* a call returns is one of the known outcomes of a call that was made.
THEOREM WritesTyped == Spec => []TypeOK
<1>1. IInv => TypeOK
  <2> SUFFICES ASSUME IInv PROVE TypeOK
    OBVIOUS
  <2>1. result # NULL => result.status \in Statuses /\ result.call \in 1..MaxCalls
    BY DEF IInv, Typed, Results
  <2>2. con # NULL =>
          \A n \in 1..Len(con.inbox) :
             con.inbox[n].id[2] < (IF con.inbox[n].id[1] = "php" THEN request_id ELSE con.reqid + 1)
    BY DEF IInv, Unconnected, Connected, Sound, Issued, GivenOut
  <2> QED BY <2>1, <2>2 DEF IInv, Typed, TypeOK
<1> QED BY <1>1, Invariance, PTL

\* A write that waited, or a command, and that reports success was executed,
\* whatever late answers are on the stream and whatever a ping took from it.
THEOREM OwnAnswer == Spec => []SuccessIsOwn
<1>1. IInv => SuccessIsOwn
  BY DEF IInv
<1> QED BY <1>1, Invariance, PTL

\* Unless a read failed or the socket broke, an idle connection has no answer on
\* it and none coming: who sends getlasterror also reads what it returns.
THEOREM Nothing == Spec => []NothingLeftBehind
<1>1. IInv => NothingLeftBehind
  BY DEF IInv, Unconnected, Connected, Debt, Waiting, Silent, NothingLeftBehind
<1> QED BY <1>1, Invariance, PTL

-----------------------------------------------------------------------------
(* The write concern *)

\* What is asked for of a write was decided when it was called, from its options.
Asked ==
    /\ settings \in Settings
    /\ pc # "idle" /\ call.op # "command" =>
         /\ call.options \in Arguments
         /\ call.waits = Waits(call.op, call.options)
         /\ call.gle = GetLastError(settings, Property(call.op), call.options)

LEMMA OptionsTyped ==
  ASSUME NEW op, NEW argument \in Arguments
  PROVE  OptionsOf(op, argument) \in Arguments
<1>1. EmptyOptions \in Arguments
  <2>1. Absent \in Values /\ FALSE \in BOOLEAN
    <3>1. FALSE \in BOOLEAN
      BY Zenon
    <3> QED BY <3>1 DEF Absent, Values
  <2> HIDE DEF Absent
  <2> QED BY <2>1 DEF EmptyOptions, NoOptions, Arguments
<1>2. [argument EXCEPT !.kind = "array"] \in Arguments
  BY DEF Arguments
<1> QED BY <1>1, <1>2 DEF OptionsOf

LEMMA AskedInvariant == Spec => []Asked
<1>1. Init => Asked
  BY DEF Init, Asked
<1>2. Asked /\ [Next]_vars => Asked'
  <2> SUFFICES ASSUME Asked, [Next]_vars PROVE Asked'
    OBVIOUS
  <2>1. CASE pc # "idle" /\ UNCHANGED <<settings, call>>
    BY <2>1 DEF Asked, Waits, Property
  <2>2. CASE pc' = "idle" /\ UNCHANGED settings
    BY <2>2 DEF Asked
  <2>3. ASSUME NEW op \in WriteOps, NEW argument \in Options, CallWrite(op, argument)
        PROVE  Asked'
    <3>1. argument \in Arguments
      BY WritesAssumption
    <3>2. OptionsOf(op, argument) \in Arguments
      BY <3>1, OptionsTyped
    <3>3. settings' = settings
      BY <2>3 DEF CallWrite
    <3>4. /\ call'.op = op /\ call'.options = OptionsOf(op, argument)
          /\ call'.waits = Waits(op, OptionsOf(op, argument))
          /\ call'.gle = GetLastError(settings, Property(op), OptionsOf(op, argument))
      BY <2>3 DEF CallWrite
    <3> QED BY <3>2, <3>3, <3>4 DEF Asked, Waits, Property
  <2>4. CASE CallCommand
    BY <2>4 DEF CallCommand, Asked
  <2>5. CASE Connect \/ UseConnection \/ SendPing \/ PingAnswered \/ PingFails
    BY <2>1, <2>5 DEF Connect, UseConnection, SendPing, PingAnswered, PingFails
  <2>6. CASE EncodeFails \/ GleCrashes \/ Send \/ SendFails
    BY <2>1, <2>6 DEF EncodeFails, GleCrashes, Send, SendFails
  <2>7. CASE ReplyTaken \/ NoReply \/ ReplyFails
    BY <2>1, <2>7 DEF ReplyTaken, NoReply, ReplyFails
  <2>8. CASE Serve \/ Break \/ PingIntervalPasses
    BY <2>1, <2>2, <2>8 DEF Serve, Break, PingIntervalPasses
  <2>9. CASE UNCHANGED vars
    BY <2>1, <2>2, <2>9 DEF vars, Asked
  <2> QED BY <2>3, <2>4, <2>5, <2>6, <2>7, <2>8, <2>9 DEF Next, Call, Step
<1> QED BY <1>1, <1>2, PTL DEF Spec

LEMMA ValuesAre ==
  ASSUME NEW v \in Values
  PROVE  /\ v.type \in {"absent", "long", "bool", "string"} /\ v.n \in Int
         /\ v = [type |-> v.type, n |-> v.n]
         /\ v.type = "absent" => v = Absent
BY DEF Values, Absent, Bool

LEMMA GleOptionIs ==
  ASSUME NEW o \in Arguments
  PROVE  /\ o.w \in Values /\ o.safe \in Values /\ o.fsync \in Values /\ GleOption(o) \in Values
         /\ GleOption(o) = Absent <=> o.w = Absent /\ o.safe = Absent
         /\ o.w # Absent => GleOption(o) = o.w
         /\ o.w = Absent => GleOption(o) = o.safe
BY DEF Arguments, GleOption

\* What is set elsewhere, and what getlasterror makes of it and the options.
LEMMA ConcernIs ==
  ASSUME NEW s, NEW prop, NEW o
  PROVE  LET c == FromProperty(FromLink(s), prop)
             x == FromOptions(c, o)
             g == GetLastError(s, prop, o)
         IN  /\ c = [w |-> c.w, w_str |-> c.w_str]
             /\ g.w = IF x.w_str # Absent THEN x.w_str ELSE IF x.w > 1 THEN Long(x.w) ELSE Absent
             /\ g.fsync = (o.fsync.n # 0)
BY DEF FromProperty, FromLink, GetLastError

\* A mode stated by name is what is asked for, whatever else is set.
LEMMA ModeIsSent ==
  ASSUME NEW s, NEW prop, NEW o \in Arguments, GleOption(o).type = "string"
  PROVE  IsGleOp(s, o) /\ GetLastError(s, prop, o).w = GleOption(o)
<1> DEFINE c == FromProperty(FromLink(s), prop)
           v == GleOption(o)
<1>1. v # Absent /\ v.type = "string"
  BY DEF Absent
<1>2. IsGleOp(s, o)
  BY <1>1 DEF IsGleOp
<1>3. c = [w |-> c.w, w_str |-> c.w_str]
  BY ConcernIs
<1> HIDE DEF c, v
<1>4. FromW(c, v) = [w |-> c.w, w_str |-> v] /\ FromSafe(c, v) = [w |-> c.w, w_str |-> v]
  <2> DEFINE a == c.w
             b == c.w_str
  <2>1. c = [w |-> a, w_str |-> b]
    BY <1>3
  <2> HIDE DEF a, b
  <2>2. FromW(c, v) = [w |-> a, w_str |-> v] /\ FromSafe(c, v) = [w |-> a, w_str |-> v]
    BY <1>1, <2>1 DEF FromW, FromSafe
  <2> QED BY <2>2 DEF a
<1>5. FromOptions(c, o).w_str = v
  <2>1. CASE o.w # Absent
    <3>1. o.w = v
      BY <2>1, GleOptionIs DEF v
    <3> QED BY <1>4, <2>1, <3>1 DEF FromOptions
  <2>2. CASE o.w = Absent
    <3>1. o.safe = v
      BY <2>2, GleOptionIs DEF v
    <3> QED BY <1>1, <1>4, <2>2, <3>1 DEF FromOptions
  <2> QED BY <2>1, <2>2
<1>6. GetLastError(s, prop, o).w = v
  BY <1>1, <1>5, ConcernIs DEF c
<1> QED BY <1>2, <1>6 DEF v

\* A number above one is what is asked for, unless a mode is set elsewhere.
LEMMA NumberIsSent ==
  ASSUME NEW s, NEW prop, NEW o \in Arguments, GleOption(o).type = "long", GleOption(o).n > 1,
         s.default_wstring = Absent, prop.type # "string"
  PROVE  GetLastError(s, prop, o).w = GleOption(o)
<1> DEFINE c == FromProperty(FromLink(s), prop)
           v == GleOption(o)
<1>1. v # Absent /\ v.type = "long" /\ v.n > 1 /\ v = Long(v.n) /\ v.n \in Int
  BY GleOptionIs, ValuesAre DEF Absent, Long
<1>2. c.w_str = Absent /\ c = [w |-> c.w, w_str |-> c.w_str]
  BY ConcernIs DEF FromProperty, FromLink
<1> HIDE DEF c, v
<1>3. FromW(c, v) = [w |-> v.n, w_str |-> Absent] /\ FromSafe(c, v) = [w |-> v.n, w_str |-> Absent]
  <2> DEFINE a == c.w
  <2>1. c = [w |-> a, w_str |-> Absent]
    BY <1>2
  <2> HIDE DEF a
  <2> QED BY <1>1, <2>1 DEF FromW, FromSafe
<1>4. FromOptions(c, o) = [w |-> v.n, w_str |-> Absent]
  <2>1. CASE o.w # Absent
    <3>1. o.w = v
      BY <2>1, GleOptionIs DEF v
    <3> QED BY <1>1, <1>3, <2>1, <3>1 DEF FromOptions
  <2>2. CASE o.w = Absent
    <3>1. o.safe = v
      BY <2>2, GleOptionIs DEF v
    <3> QED BY <1>1, <1>3, <2>2, <3>1 DEF FromOptions
  <2> QED BY <2>1, <2>2
<1>5. GetLastError(s, prop, o).w = Long(v.n)
  BY <1>1, <1>4, ConcernIs DEF c
<1> QED BY <1>1, <1>5 DEF v

\* "safe" as TRUE, or nothing, does not weaken what the client was set to.
LEMMA DefaultIsSent ==
  ASSUME NEW s, s.default_w \in Int, s.default_w > 1, NEW o \in Arguments,
         GleOption(o) \in {Absent, Bool(TRUE)}, o.w = Absent
  PROVE  IsGleOp(s, o) /\ GetLastError(s, Long(1), o).w # Absent
<1> DEFINE c == FromProperty(FromLink(s), Long(1))
           t == Bool(TRUE)
<1>1. o.safe \in {Absent, t} /\ GleOption(o) = o.safe
  BY GleOptionIs
<1>2. t.type = "bool" /\ t.n = 1 /\ t # Bool(FALSE) /\ t # Absent
  BY DEF Bool, Absent
<1>3. c = [w |-> s.default_w, w_str |-> s.default_wstring]
  BY DEF FromProperty, FromLink, Long
<1> HIDE DEF c, t
<1>4. IsGleOp(s, o)
  <2>1. s.default_w \notin {-1, 0}
    OBVIOUS
  <2>2. GleOption(o) # Absent => GleOption(o).n >= 1
    BY <1>1, <1>2
  <2> QED BY <2>1, <2>2 DEF IsGleOp
<1>5. FromSafe(c, t) = c
  BY <1>2, <1>3 DEF FromSafe
<1>6. FromOptions(c, o) = c
  <2>1. c.w # 0
    BY <1>3
  <2>2. CASE o.safe = Absent
    BY <2>1, <2>2 DEF FromOptions
  <2>3. CASE o.safe = t
    BY <1>2, <1>5, <2>1, <2>3 DEF FromOptions
  <2> QED BY <1>1, <2>2, <2>3
<1>7. Long(s.default_w) # Absent
  BY DEF Long, Absent
<1>8. GetLastError(s, Long(1), o).w # Absent
  BY <1>3, <1>6, <1>7, ConcernIs DEF c
<1> QED BY <1>4, <1>8

\* For any settings and options: a write waits exactly if they ask for it, and what
\* they state is what getlasterror asks the server for.
THEOREM Honoured == Spec => []ConcernIsHonoured
<1>1. Asked => ConcernIsHonoured
  <2> DEFINE o == call.options
             prop == Property(call.op)
             stated == GleOption(o)
             fsync == o.fsync \in {Long(1), Bool(TRUE)}
  <2> SUFFICES ASSUME Asked, Writing
               PROVE  /\ IsNumber(stated) => (call.waits <=> stated.n >= 1 \/ fsync)
                      /\ stated.type = "string" => call.waits /\ call.gle.w = stated
                      /\ stated.type = "long" /\ stated.n > 1 /\ ~NamedMode => call.gle.w = stated
                      /\ /\ stated \in {Absent, Bool(TRUE)} /\ o.w = Absent
                         /\ settings.default_w > 1 /\ prop = Long(1)
                         => call.waits /\ call.gle.w # Absent
                      /\ fsync => call.waits /\ call.gle.fsync
    BY Zenon DEF ConcernIsHonoured
  <2>1. /\ o \in Arguments /\ settings \in Settings
        /\ call.waits = IsGleOp(settings, o)
        /\ call.gle = GetLastError(settings, prop, o)
    BY DEF Asked, Writing, Waits
  <2>2. settings.default_w \in Int
    BY <2>1, WritesAssumption
  <2> HIDE DEF o, prop
  <2>3. IsNumber(stated) => (call.waits <=> stated.n >= 1 \/ fsync)
    <3>1. IsNumber(stated) => stated # Absent /\ stated.type # "string"
      BY DEF IsNumber, Absent
    <3> QED BY <2>1, <3>1 DEF IsGleOp
  <2>4. stated.type = "string" => call.waits /\ call.gle.w = stated
    BY <2>1, ModeIsSent
  <2>5. stated.type = "long" /\ stated.n > 1 /\ ~NamedMode => call.gle.w = stated
    BY <2>1, NumberIsSent DEF NamedMode, prop
  <2>6. /\ stated \in {Absent, Bool(TRUE)} /\ o.w = Absent
        /\ settings.default_w > 1 /\ prop = Long(1)
        => call.waits /\ call.gle.w # Absent
    BY <2>1, <2>2, DefaultIsSent
  <2>7. fsync => call.waits /\ call.gle.fsync
    <3>1. fsync => o.fsync.n # 0
      BY DEF Long, Bool
    <3>2. call.gle.fsync = (o.fsync.n # 0)
      BY <2>1, ConcernIs
    <3> QED BY <2>1, <3>1, <3>2 DEF IsGleOp
  <2> QED BY <2>3, <2>4, <2>5, <2>6, <2>7
<1> QED BY <1>1, AskedInvariant, PTL
=============================================================================
