--------------------------- MODULE ReplicaSetProof ---------------------------
(***************************************************************************)
(* What a client of a replica set is given, and that discovery ends, for   *)
(* any sets of hosts, clients and processes.                               *)
(*                                                                         *)
(* The heart is what the pool knows.  A connection carries a type that an  *)
(* ismaster gave it, and then it leads to a member of the set under the    *)
(* name the member gives itself; or it was never asked, and then its hash  *)
(* has no set name, or the request that is under way still comes to it:    *)
(* nothing of that kind is left when a choice is made.                     *)
(***************************************************************************)
EXTENDS ReplicaSet, ReadPreferenceProof, FiniteSetTheorems, SequenceTheorems, TLAPS

SetNames == {SetOf[h] : h \in Hosts} \cup {c.set : c \in Clients}

ServerDefs == [host : Hosts, set : SetNames]

Types == {INVALID, STANDALONE, PRIMARY, SECONDARY, ARBITER, MONGOS}

Entries == [type : Types, tags : {<<>>} \cup {TagsOf[h] : h \in Hosts},
            pingDue : BOOLEAN, ismasterDue : BOOLEAN]

Typed ==
    /\ pid \in Pids
    /\ client \in Clients
    /\ servers \in Seq(ServerDefs)
    /\ setName \in SetNames
    /\ pc \in {"idle", "seeds", "discover", "hosts", "pick"}
    /\ dont \in BOOLEAN
    /\ i \in 1..Len(servers) + 1
    /\ found_hosts \subseteq Hosts

\* The definitions have no set name or the one that was given or adopted; the local
\* variables of mongo_discover_topology agree with that.
Consistent ==
    /\ ~client.replset => setName = None
    /\ \A n \in 1..Len(servers) : servers[n].set \in {None, setName}
    /\ pc = "idle" => i = 1
    /\ pc \in {"discover", "hosts"} => client.replset /\ repl_set_name = setName
    /\ pc = "hosts" => /\ i <= Len(servers)
                       /\ repl_set_name # None
                       /\ servers[i].set = repl_set_name
                       /\ found_hosts \subseteq Members(repl_set_name)

\* An ismaster was answered over the connection.
Verified(p, k) ==
    /\ p[k].type \in {PRIMARY, SECONDARY, INVALID}
    /\ Me[k.host] = k.host
    /\ SetOf[k.host] # None
    /\ k.set \in {None, SetOf[k.host]}

\* None was; if the hash has a set name it will be, as the hash is one of these.
Unverified(p, k, awaited) ==
    /\ p[k].type \in {STANDALONE, MONGOS}
    /\ k.set = None \/ (p[k].ismasterDue /\ k \in awaited)

Sound(p, awaited) ==
    /\ p \in [DOMAIN p -> Entries]
    /\ DOMAIN p \subseteq Hashes
    /\ IsFiniteSet(DOMAIN p)
    /\ \A k \in DOMAIN p : Verified(p, k) \/ Unverified(p, k, awaited)

\* The definitions whose connections this request may have made and not asked yet.
Outstanding ==
    {n \in 1..Len(servers) : \/ pc = "seeds" /\ ~dont /\ n < i
                             \/ pc = "discover" /\ n >= i
                             \/ pc = "hosts" /\ n > i}

Awaited == {Hash(servers[n]) : n \in Outstanding}

\* A choice is forgotten before anything else happens.
ChoiceIsSound ==
    chosen # NULL => pc = "idle" /\ ChosenIsVerified

IInv ==
    /\ Typed
    /\ Consistent
    /\ Sound(pool, Awaited)
    /\ ChoiceIsSound

-----------------------------------------------------------------------------
(* Operations on the pool *)

LEMMA Constant ==
  /\ IsFiniteSet(Hosts)
  /\ Me \in [Hosts -> Hosts]
  /\ \A h \in Hosts : SetOf[Me[h]] = SetOf[h]
  /\ \A c \in Clients : /\ c.seeds \in Seq(Hosts) /\ Len(c.seeds) <= MaxServers
                        /\ c.replset \in BOOLEAN
                        /\ c.set # None => c.replset
  /\ MaxServers \in Nat /\ MaxPing \in Nat
  /\ \A p \in Pings : p \in Nat /\ p < MaxPing
  /\ Pids \subseteq Nat
BY ReplicaSetAssumption DEF ReplicaSetAssumption

LEMMA HashTyped ==
  ASSUME NEW def \in ServerDefs, pid \in Pids, client \in Clients
  PROVE  /\ Hash(def) \in Hashes
         /\ Hash(def).host = def.host
         /\ Hash(def).set = def.set
         /\ Hash(def).pid = pid
BY DEF ServerDefs, Hash, Hashes, SetNames

\* Different things may be awaited, if nothing that is in the pool and was not
\* asked is forgotten.
LEMMA SoundForMore ==
  ASSUME NEW p, NEW A, NEW B, Sound(p, A),
         \A k \in DOMAIN p : k \in A /\ p[k].ismasterDue /\ k.set # None => k \in B
  PROVE  Sound(p, B)
BY DEF Sound, Verified, Unverified

LEMMA SoundWithout ==
  ASSUME NEW h, NEW A, NEW B, Sound(pool, A), A \subseteq B \cup {h}
  PROVE  Sound(Without(h), B)
<1> DEFINE q == Without(h)
<1>1. DOMAIN q = DOMAIN pool \ {h} /\ \A k \in DOMAIN q : q[k] = pool[k]
  BY DEF Without
<1>2. IsFiniteSet(DOMAIN q)
  BY <1>1, FS_RemoveElement DEF Sound
<1>3. q \in [DOMAIN q -> Entries]
  BY <1>1 DEF Sound, Without
<1>4. DOMAIN q \subseteq Hashes
  BY <1>1 DEF Sound
<1>5. \A k \in DOMAIN q : Verified(q, k) \/ Unverified(q, k, B)
  BY <1>1 DEF Sound, Verified, Unverified
<1> QED BY <1>2, <1>3, <1>4, <1>5 DEF Sound

\* A new connection has not been asked.
LEMMA CreatedTyped ==
  ASSUME NEW h \in Hashes, NEW con \in Created(h)
  PROVE  con \in Entries /\ con.type \in {STANDALONE, MONGOS} /\ con.ismasterDue
<1>1. PICK flags \in BOOLEAN :
        con = [type |-> IF flags /\ IsDbGrid[h.host] THEN MONGOS ELSE STANDALONE,
               tags |-> IF flags THEN TagsOf[h.host] ELSE <<>>,
               pingDue |-> FALSE, ismasterDue |-> TRUE]
  BY DEF Created
<1>2. h.host \in Hosts
  BY DEF Hashes
<1>3. con.tags \in {<<>>} \cup {TagsOf[x] : x \in Hosts}
  BY <1>1, <1>2
<1>4. con.type \in {STANDALONE, MONGOS} /\ con.type \in Types
  BY <1>1 DEF Types
<1> QED BY <1>1, <1>3, <1>4 DEF Entries

LEMMA SoundWith ==
  ASSUME NEW h \in Hashes, NEW con \in Created(h), NEW A, NEW B, Sound(pool, A),
         A \subseteq B, h \in B
  PROVE  Sound(With(h, con), B)
<1> DEFINE q == With(h, con)
<1>1. DOMAIN q = DOMAIN pool \cup {h} /\ \A k \in DOMAIN q : q[k] = IF k = h THEN con ELSE pool[k]
  BY DEF With
<1>2. IsFiniteSet(DOMAIN q)
  BY <1>1, FS_AddElement DEF Sound
<1>3. con \in Entries /\ con.type \in {STANDALONE, MONGOS} /\ con.ismasterDue
  BY CreatedTyped
<1>4. q \in [DOMAIN q -> Entries]
  BY <1>1, <1>3 DEF Sound, With
<1>5. DOMAIN q \subseteq Hashes
  BY <1>1 DEF Sound
<1>6. ASSUME NEW k \in DOMAIN q
      PROVE  Verified(q, k) \/ Unverified(q, k, B)
  <2>1. CASE k = h
    BY <1>1, <1>3, <2>1 DEF Unverified
  <2>2. CASE k # h
    <3>1. k \in DOMAIN pool /\ q[k] = pool[k]
      BY <1>1, <2>2
    <3>2. Verified(pool, k) \/ Unverified(pool, k, A)
      BY <3>1 DEF Sound
    <3> QED BY <3>1, <3>2 DEF Verified, Unverified
  <2> QED BY <2>1, <2>2
<1> QED BY <1>2, <1>4, <1>5, <1>6 DEF Sound

\* A ping changes nothing that matters, nor does the passing of time.
LEMMA SoundSameTypes ==
  ASSUME NEW A, Sound(pool, A), NEW q, DOMAIN q = DOMAIN pool, q \in [DOMAIN pool -> Entries],
         \A k \in DOMAIN pool : /\ q[k].type = pool[k].type
                                /\ pool[k].ismasterDue => q[k].ismasterDue
  PROVE  Sound(q, A)
BY DEF Sound, Verified, Unverified

LEMMA Pinged ==
  ASSUME NEW A, Sound(pool, A), NEW h \in DOMAIN pool
  PROVE  Sound([pool EXCEPT ![h].pingDue = FALSE], A)
<1> DEFINE q == [pool EXCEPT ![h].pingDue = FALSE]
           e == [pool[h] EXCEPT !.pingDue = FALSE]
<1>1. pool \in [DOMAIN pool -> Entries]
  BY DEF Sound
<1>2. e \in Entries /\ e.type = pool[h].type /\ e.ismasterDue = pool[h].ismasterDue
  BY <1>1 DEF Entries
<1>3. q = [pool EXCEPT ![h] = e]
  OBVIOUS
<1> HIDE DEF e, q
<1>4. /\ DOMAIN q = DOMAIN pool /\ q \in [DOMAIN pool -> Entries]
      /\ \A k \in DOMAIN pool : q[k] = IF k = h THEN e ELSE pool[k]
  BY <1>1, <1>2, <1>3
<1>5. \A k \in DOMAIN pool : /\ q[k].type = pool[k].type
                             /\ pool[k].ismasterDue => q[k].ismasterDue
  BY <1>2, <1>4
<1>6. Sound(q, A)
  BY <1>4, <1>5, SoundSameTypes
<1> QED BY <1>6 DEF q

LEMMA Elapsed ==
  ASSUME NEW A, Sound(pool, A), NEW long \in BOOLEAN
  PROVE  Sound([k \in DOMAIN pool |->
                  [pool[k] EXCEPT !.pingDue = TRUE, !.ismasterDue = @ \/ long]], A)
<1> DEFINE q == [k \in DOMAIN pool |->
                  [pool[k] EXCEPT !.pingDue = TRUE, !.ismasterDue = @ \/ long]]
<1>1. pool \in [DOMAIN pool -> Entries]
  BY DEF Sound
<1>2. \A e \in Entries :
        LET d == [e EXCEPT !.pingDue = TRUE, !.ismasterDue = @ \/ long] IN
        d \in Entries /\ d.type = e.type /\ (e.ismasterDue => d.ismasterDue)
  BY DEF Entries
<1>3. DOMAIN q = DOMAIN pool /\ q \in [DOMAIN pool -> Entries]
  BY <1>1, <1>2
<1>4. \A k \in DOMAIN pool : /\ q[k].type = pool[k].type
                             /\ pool[k].ismasterDue => q[k].ismasterDue
  BY <1>1, <1>2
<1> HIDE DEF q
<1>5. Sound(q, A)
  BY <1>3, <1>4, SoundSameTypes
<1> QED BY <1>5 DEF q

\* An answer that was accepted settles what the connection is.
LEMMA SoundReply ==
  ASSUME NEW A, NEW B, Sound(pool, A), NEW h \in DOMAIN pool, A \subseteq B \cup {h},
         NEW type \in {PRIMARY, SECONDARY, INVALID},
         Me[h.host] = h.host, SetOf[h.host] # None, h.set \in {None, SetOf[h.host]}
  PROVE  Sound([pool EXCEPT ![h].type = type, ![h].ismasterDue = FALSE], B)
<1> DEFINE q == [pool EXCEPT ![h].type = type, ![h].ismasterDue = FALSE]
           e == [pool[h] EXCEPT !.type = type, !.ismasterDue = FALSE]
<1>1. pool \in [DOMAIN pool -> Entries]
  BY DEF Sound
<1>2. e \in Entries /\ e.type = type
  BY <1>1 DEF Entries, Types
<1>3. q = [pool EXCEPT ![h] = e]
  OBVIOUS
<1> HIDE DEF e, q
<1>4. /\ DOMAIN q = DOMAIN pool /\ q \in [DOMAIN pool -> Entries]
      /\ \A k \in DOMAIN pool : q[k] = IF k = h THEN e ELSE pool[k]
  BY <1>1, <1>2, <1>3
<1>5. ASSUME NEW k \in DOMAIN q
      PROVE  Verified(q, k) \/ Unverified(q, k, B)
  <2>1. CASE k = h
    BY <1>2, <1>4, <2>1 DEF Verified
  <2>2. CASE k # h
    <3>1. k \in DOMAIN pool /\ q[k] = pool[k]
      BY <1>4, <2>2
    <3>2. Verified(pool, k) \/ Unverified(pool, k, A)
      BY <3>1 DEF Sound
    <3> QED BY <3>1, <3>2, <2>2 DEF Verified, Unverified
  <2> QED BY <2>1, <2>2
<1>6. Sound(q, B)
  BY <1>4, <1>5 DEF Sound
<1> QED BY <1>6 DEF q

-----------------------------------------------------------------------------
(* The initial states, and the actions between two requests *)

LEMMA DefinitionsTyped ==
  ASSUME NEW c \in Clients
  PROVE  /\ Definitions(c) \in Seq(ServerDefs)
         /\ Len(Definitions(c)) = Len(c.seeds) /\ Len(c.seeds) \in Nat
         /\ \A n \in 1..Len(Definitions(c)) : Definitions(c)[n].set = c.set
<1>1. c.seeds \in Seq(Hosts)
  BY Constant
<1>2. Len(c.seeds) \in Nat /\ \A n \in 1..Len(c.seeds) : c.seeds[n] \in Hosts
  BY <1>1, LenProperties, ElementOfSeq
<1>3. \A n \in 1..Len(c.seeds) : [host |-> c.seeds[n], set |-> c.set] \in ServerDefs
  BY <1>2 DEF ServerDefs, SetNames
<1>4. Definitions(c) \in [1..Len(c.seeds) -> ServerDefs]
  BY <1>3 DEF Definitions
<1>5. Definitions(c) \in Seq(ServerDefs)
  BY <1>2, <1>4, SeqDef
<1>6. Len(Definitions(c)) = Len(c.seeds)
  BY <1>2, <1>4, <1>5, LenProperties
<1> QED BY <1>2, <1>5, <1>6 DEF Definitions

\* What a client starts with.
LEMMA ConstructedTyped ==
  ASSUME NEW c \in Clients, NEW defs, defs = Definitions(c)
  PROVE  /\ defs \in Seq(ServerDefs) /\ Len(defs) <= MaxServers /\ Len(defs) \in Nat
         /\ 1 \in 1..Len(defs) + 1
         /\ c.set \in SetNames
         /\ ~c.replset => c.set = None
         /\ \A n \in 1..Len(defs) : defs[n].set \in {None, c.set}
<1>1. Len(defs) \in Nat /\ Len(defs) <= MaxServers
  BY DefinitionsTyped, Constant
<1>2. 1 \in 1..Len(defs) + 1
  BY <1>1
<1> QED BY <1>1, <1>2, DefinitionsTyped, Constant DEF SetNames

LEMMA EmptySound ==
  ASSUME NEW A
  PROVE  Sound(<< >>, A)
<1>1. DOMAIN << >> = {}
  OBVIOUS
<1>2. << >> \in [DOMAIN << >> -> Entries]
  OBVIOUS
<1> QED BY <1>1, <1>2, FS_EmptySet DEF Sound

LEMMA Initially ==
  ASSUME Init
  PROVE  IInv
<1>1. client \in Clients /\ servers = Definitions(client) /\ setName = client.set
  BY DEF Init
<1>2. /\ servers \in Seq(ServerDefs) /\ Len(servers) <= MaxServers
      /\ 1 \in 1..Len(servers) + 1
      /\ setName \in SetNames
      /\ ~client.replset => setName = None
      /\ \A n \in 1..Len(servers) : servers[n].set \in {None, setName}
  BY <1>1, ConstructedTyped
<1>3. Typed
  BY <1>2 DEF Init, Typed
<1>4. Consistent
  BY <1>2 DEF Init, Consistent
<1>5. Sound(pool, Awaited)
  BY EmptySound DEF Init
<1> QED BY <1>3, <1>4, <1>5 DEF IInv, ChoiceIsSound, Init

\* Nothing is awaited between two requests.
LEMMA NoneAwaited ==
  ASSUME IInv, pc \in {"idle", "pick"}, NEW B
  PROVE  Sound(pool, B)
<1>1. Awaited = {}
  BY DEF Awaited, Outstanding
<1> QED BY <1>1, SoundForMore DEF IInv

LEMMA NewClientStep ==
  ASSUME IInv, NewClient
  PROVE  IInv'
<1>1. client' \in Clients /\ servers' = Definitions(client') /\ setName' = client'.set
  BY DEF NewClient
<1>2. /\ servers' \in Seq(ServerDefs) /\ Len(servers') <= MaxServers
      /\ 1 \in 1..Len(servers') + 1
      /\ setName' \in SetNames
      /\ ~client'.replset => setName' = None
      /\ \A n \in 1..Len(servers') : servers'[n].set \in {None, setName'}
  BY <1>1, ConstructedTyped
<1>3. Typed'
  BY <1>2 DEF IInv, NewClient, Typed, Consistent
<1>4. Consistent'
  BY <1>2 DEF IInv, NewClient, Consistent
<1>5. Sound(pool, Awaited')
  BY NoneAwaited DEF NewClient
<1> QED BY <1>3, <1>4, <1>5 DEF IInv, NewClient, ChoiceIsSound

LEMMA GetConnectionStep ==
  ASSUME IInv, GetConnection
  PROVE  IInv'
<1>1. Len(servers) \in Nat
  BY LenProperties DEF IInv, Typed
<1>2. Typed'
  BY <1>1 DEF IInv, GetConnection, Typed, clientVars
<1>3. Consistent'
  BY DEF IInv, GetConnection, Consistent, clientVars
<1>4. Sound(pool, Awaited')
  BY NoneAwaited DEF GetConnection
<1> QED BY <1>2, <1>3, <1>4 DEF IInv, GetConnection, ChoiceIsSound

LEMMA ForkStep ==
  ASSUME IInv, Fork
  PROVE  IInv'
<1>1. Typed'
  BY DEF IInv, Fork, Typed, clientVars
<1>2. Consistent'
  BY DEF IInv, Fork, Consistent, clientVars
<1>3. Sound(pool, Awaited')
  BY NoneAwaited DEF Fork
<1> QED BY <1>1, <1>2, <1>3 DEF IInv, Fork, ChoiceIsSound

LEMMA ElectStep ==
  ASSUME IInv, Elect
  PROVE  IInv'
<1>1. Typed' /\ Consistent'
  BY DEF IInv, Elect, Typed, Consistent, Members, clientVars
<1>2. Awaited' = Awaited
  BY DEF Elect, Awaited, Outstanding, Hash, clientVars
<1> QED BY <1>1, <1>2 DEF IInv, Elect, ChoiceIsSound

LEMMA ElapseStep ==
  ASSUME IInv, Elapse
  PROVE  IInv'
<1>1. Typed' /\ Consistent'
  BY DEF IInv, Elapse, Typed, Consistent, Members, clientVars
<1>2. Awaited' = Awaited
  BY DEF Elapse, Awaited, Outstanding, Hash, clientVars
<1>3. PICK long \in BOOLEAN :
        pool' = [k \in DOMAIN pool |->
                   [pool[k] EXCEPT !.pingDue = TRUE, !.ismasterDue = @ \/ long]]
  BY DEF Elapse
<1>4. Sound(pool, Awaited)
  BY DEF IInv
<1>5. Sound(pool', Awaited)
  BY <1>3, <1>4, Elapsed
<1> QED BY <1>1, <1>2, <1>5 DEF IInv, Elapse, ChoiceIsSound

-----------------------------------------------------------------------------
(* Going through the seeds *)

\* What every step over a seed does, whatever it does to the pool.
LEMMA NextSeedStep ==
  ASSUME IInv, AtSeed, NEW con, NextSeed(con), Sound(pool', Awaited')
  PROVE  IInv'
<1>1. i \in Nat /\ Len(servers) \in Nat /\ i <= Len(servers)
  BY LenProperties DEF IInv, Typed, AtSeed
<1>2. Typed'
  BY <1>1 DEF IInv, AtSeed, NextSeed, Typed, clientVars
<1>3. Consistent'
  BY DEF IInv, AtSeed, NextSeed, Consistent, clientVars
<1> QED BY <1>2, <1>3 DEF IInv, AtSeed, NextSeed, ChoiceIsSound

LEMMA NextSeedAwaited ==
  ASSUME IInv, AtSeed, NEW con, NextSeed(con)
  PROVE  /\ Awaited \subseteq Awaited'
         /\ ~dont => Hash(servers[i]) \in Awaited'
<1>1. i \in Nat /\ Len(servers) \in Nat /\ i \in 1..Len(servers)
  BY LenProperties DEF IInv, Typed, AtSeed
<1>2. servers' = servers /\ client' = client /\ pid' = pid /\ pc' = pc /\ dont' = dont /\ i' = i + 1
  BY DEF NextSeed, clientVars
<1>3. Awaited' = {Hash(servers[n]) : n \in Outstanding'}
  BY <1>2 DEF Awaited, Hash
<1>4. Outstanding \subseteq Outstanding' /\ (~dont => i \in Outstanding')
  BY <1>1, <1>2 DEF AtSeed, Outstanding
<1> QED BY <1>3, <1>4 DEF Awaited

LEMMA SeedHash ==
  ASSUME IInv, i <= Len(servers)
  PROVE  /\ servers[i] \in ServerDefs
         /\ Hash(servers[i]) \in Hashes
         /\ Hash(servers[i]).host = servers[i].host
         /\ Hash(servers[i]).set = servers[i].set
<1>1. servers \in Seq(ServerDefs) /\ i \in 1..Len(servers)
  BY LenProperties DEF IInv, Typed
<1>2. servers[i] \in ServerDefs
  BY <1>1, ElementOfSeq
<1> QED BY <1>2, HashTyped DEF IInv, Typed

\* The pool stays as it is, or a connection goes.
LEMMA SeedLooked ==
  ASSUME IInv, AtSeed, NEW con, NextSeed(con), pool' = pool \/ pool' = Without(Hash(servers[i]))
  PROVE  IInv'
<1>1. Awaited \subseteq Awaited' /\ Sound(pool, Awaited)
  BY NextSeedAwaited DEF IInv
<1>2. CASE pool' = pool
  <2>1. Sound(pool, Awaited')
    BY <1>1, SoundForMore
  <2> QED BY <1>2, <2>1, NextSeedStep
<1>3. CASE pool' = Without(Hash(servers[i]))
  <2>1. Awaited \subseteq Awaited' \cup {Hash(servers[i])}
    BY <1>1
  <2>2. Sound(Without(Hash(servers[i])), Awaited')
    BY <1>1, <2>1, SoundWithout
  <2> QED BY <1>3, <2>2, NextSeedStep
<1> QED BY <1>2, <1>3

LEMMA SeedPingedStep ==
  ASSUME IInv, SeedPinged
  PROVE  IInv'
<1> DEFINE h == Hash(servers[i])
<1>1. AtSeed /\ h \in DOMAIN pool
  BY DEF SeedPinged, Registered
<1>2. CASE pool' = [pool EXCEPT ![h].pingDue = FALSE] /\ NextSeed(TRUE)
  <2>1. Awaited \subseteq Awaited' /\ Sound(pool, Awaited)
    BY <1>1, <1>2, NextSeedAwaited DEF IInv
  <2>2. Sound(pool, Awaited')
    BY <2>1, SoundForMore
  <2>3. Sound(pool', Awaited')
    BY <1>1, <1>2, <2>2, Pinged
  <2> QED BY <1>1, <1>2, <2>3, NextSeedStep
<1>3. CASE pool' = Without(h) /\ NextSeed(FALSE)
  BY <1>1, <1>3, SeedLooked
<1> QED BY <1>2, <1>3 DEF SeedPinged

LEMMA SeedConnectsStep ==
  ASSUME IInv, SeedConnects
  PROVE  IInv'
<1> DEFINE h == Hash(servers[i])
<1>1. AtSeed /\ ~dont /\ i <= Len(servers)
  BY DEF SeedConnects, AtSeed
<1>2. ASSUME NEW con \in Created(h), pool' = With(h, con), NextSeed(TRUE)
      PROVE  IInv'
  <2>1. Awaited \subseteq Awaited' /\ h \in Awaited' /\ Sound(pool, Awaited)
    BY <1>1, <1>2, NextSeedAwaited DEF IInv
  <2>2. h \in Hashes
    BY <1>1, SeedHash
  <2> HIDE DEF h
  <2>3. Sound(With(h, con), Awaited')
    BY <1>2, <2>1, <2>2, SoundWith
  <2> QED BY <1>1, <1>2, <2>3, NextSeedStep
<1>3. CASE pool' = pool /\ NextSeed(FALSE)
  BY <1>1, <1>3, SeedLooked
<1> QED BY <1>2, <1>3 DEF SeedConnects

\* A client that is not of the type REPLSET awaits nothing that has a set name.
LEMMA NoSetAwaited ==
  ASSUME IInv, ~client.replset, NEW B
  PROVE  Sound(pool, B)
<1>1. \A n \in 1..Len(servers) : servers[n].set = None
  BY DEF IInv, Consistent
<1>2. \A k \in Awaited : k.set = None
  BY <1>1 DEF Awaited, Outstanding, Hash
<1> QED BY <1>2, SoundForMore DEF IInv

LEMMA SeedsDoneStep ==
  ASSUME IInv, SeedsDone
  PROVE  IInv'
<1>1. /\ UNCHANGED <<pool, pid, client, servers, setName, chosen>>
      /\ pc = "seeds" /\ i' = 1
  BY DEF SeedsDone, Return, clientVars
<1>2. i \in 1..Len(servers) + 1 /\ Len(servers) \in Nat /\ i > Len(servers) /\ chosen = NULL
  BY <1>1, LenProperties DEF IInv, Typed, ChoiceIsSound, SeedsDone
<1>3. dont' = FALSE /\ pc' \in {"idle", "discover", "pick"} /\ found_hosts' \subseteq found_hosts
  BY DEF SeedsDone, Return
<1>4. Typed'
  <2>1. i' \in 1..Len(servers) + 1
    BY <1>1, <1>2
  <2>2. FALSE \in BOOLEAN
    OBVIOUS
  <2>3. dont' \in BOOLEAN
    BY <1>3, <2>2, Zenon
  <2>4. pc' \in {"idle", "seeds", "discover", "hosts", "pick"}
    BY <1>3
  <2> QED BY <1>1, <1>3, <2>1, <2>3, <2>4 DEF IInv, Typed
<1>5. pc' = "discover" => client.replset /\ repl_set_name' = setName
  BY DEF SeedsDone, Return
<1>6. Consistent'
  BY <1>1, <1>3, <1>5 DEF IInv, Consistent
<1>7. Sound(pool, Awaited')
  <2>1. CASE dont
    <3>1. Awaited = {}
      BY <1>1, <2>1 DEF Awaited, Outstanding
    <3> QED BY <3>1, SoundForMore DEF IInv
  <2>2. CASE ~dont /\ ~client.replset
    BY <2>2, NoSetAwaited
  <2>3. CASE ~dont /\ client.replset
    <3>1. pc' = "discover"
      BY <2>3 DEF SeedsDone
    <3>2. Awaited' = {Hash(servers[n]) : n \in Outstanding'}
      BY <1>1 DEF Awaited, Hash
    <3>3. Outstanding \subseteq Outstanding'
      BY <1>1, <1>2, <3>1 DEF Outstanding
    <3>4. Awaited \subseteq Awaited'
      BY <3>2, <3>3 DEF Awaited
    <3> QED BY <3>4, SoundForMore DEF IInv
  <2>4. dont \in BOOLEAN
    BY DEF IInv, Typed
  <2> QED BY <2>1, <2>2, <2>3, <2>4
<1> QED BY <1>1, <1>2, <1>4, <1>6, <1>7 DEF IInv, ChoiceIsSound

-----------------------------------------------------------------------------
(* Asking the servers *)

LEMMA RenamedTyped ==
  ASSUME NEW def \in ServerDefs
  PROVE  Renamed(def) \in ServerDefs /\ Renamed(def).set = def.set
<1>1. def.host \in Hosts /\ Me[def.host] \in Hosts
  BY Constant DEF ServerDefs
<1> QED BY <1>1 DEF Renamed, ServerDefs

LEMMA NamedTyped ==
  ASSUME NEW def \in ServerDefs, NEW set \in SetNames
  PROVE  /\ Named(def, set) \in ServerDefs
         /\ Named(def, set).set = IF def.set = None THEN set ELSE def.set
BY DEF Named, ServerDefs

\* The request comes to the next server of the list: the list keeps its length and
\* its set names, and what is still to be asked is as it was.
NextServer ==
    /\ AtServer
    /\ i' = i + 1
    /\ UNCHANGED <<pid, client, setName, pc, dont, repl_set_name, found_hosts, chosen>>
    /\ servers' \in Seq(ServerDefs)
    /\ Len(servers') = Len(servers)
    /\ \A n \in 1..Len(servers) : /\ servers'[n].set = servers[n].set
                                  /\ n # i => servers'[n] = servers[n]

LEMMA NextServerStep ==
  ASSUME IInv, NextServer, Sound(pool', Awaited')
  PROVE  IInv'
<1>1. i \in Nat /\ Len(servers) \in Nat /\ i <= Len(servers)
  BY LenProperties DEF IInv, Typed, NextServer, AtServer
<1>2. Typed'
  BY <1>1 DEF IInv, NextServer, Typed
<1>3. Consistent'
  BY DEF IInv, NextServer, AtServer, Consistent
<1> QED BY <1>2, <1>3 DEF IInv, NextServer, AtServer, ChoiceIsSound

LEMMA NextServerAwaited ==
  ASSUME IInv, NextServer
  PROVE  Awaited \subseteq Awaited' \cup {Con}
<1>1. i \in Nat /\ Len(servers) \in Nat /\ i <= Len(servers)
  BY LenProperties DEF IInv, Typed, NextServer, AtServer
<1>2. Awaited' = {Hash(servers'[n]) : n \in Outstanding'}
  BY DEF Awaited, Hash, NextServer
<1>3. Outstanding \subseteq Outstanding' \cup {i}
  BY <1>1 DEF NextServer, AtServer, Outstanding
<1>4. \A n \in Outstanding : n # i => servers'[n] = servers[n]
  BY DEF NextServer, Outstanding
<1>5. ASSUME NEW n \in Outstanding
      PROVE  Hash(servers[n]) \in Awaited' \cup {Con}
  <2>1. CASE n = i
    BY <2>1 DEF Con
  <2>2. CASE n # i
    BY <1>2, <1>3, <1>4, <2>2
  <2> QED BY <2>1, <2>2
<1> QED BY <1>5 DEF Awaited

LEMMA SameServers ==
  ASSUME IInv, AtServer, i' = i + 1,
         UNCHANGED <<pid, client, setName, pc, dont, repl_set_name, found_hosts, chosen, servers>>
  PROVE  NextServer
BY DEF IInv, Typed, NextServer

LEMMA DiscoverSkipsStep ==
  ASSUME IInv, DiscoverSkips
  PROVE  IInv'
<1>1. NextServer /\ pool' = pool
  BY SameServers DEF DiscoverSkips, clientVars
<1>2. Awaited \subseteq Awaited' \cup {Con} /\ Sound(pool, Awaited)
  BY <1>1, NextServerAwaited DEF IInv
<1>3. \A k \in DOMAIN pool : k \in Awaited /\ pool[k].ismasterDue => k \in Awaited'
  BY <1>2 DEF DiscoverSkips, Registered
<1>4. Sound(pool, Awaited')
  BY <1>2, <1>3, SoundForMore
<1> QED BY <1>1, <1>4, NextServerStep

LEMMA IsMasterFailsStep ==
  ASSUME IInv, IsMasterFails
  PROVE  IInv'
<1>1. NextServer /\ pool' = Without(Con)
  BY SameServers DEF IsMasterFails, IsMasterDue, clientVars
<1>2. Awaited \subseteq Awaited' \cup {Con} /\ Sound(pool, Awaited)
  BY <1>1, NextServerAwaited DEF IInv
<1>3. Sound(Without(Con), Awaited')
  BY <1>2, SoundWithout
<1> QED BY <1>1, <1>3, NextServerStep

\* One definition of the list is replaced.
LEMMA ReplacedTyped ==
  ASSUME IInv, AtServer, NEW def \in ServerDefs
  PROVE  LET new == [servers EXCEPT ![i] = def] IN
         /\ new \in Seq(ServerDefs) /\ Len(new) = Len(servers)
         /\ \A n \in 1..Len(servers) : new[n] = IF n = i THEN def ELSE servers[n]
<1>1. servers \in Seq(ServerDefs) /\ i \in 1..Len(servers)
  BY LenProperties DEF IInv, Typed, AtServer
<1> QED BY <1>1, ExceptSeq

LEMMA WrongSetGoesOn ==
  ASSUME IInv, IsMasterWrongSet
  PROVE  NextServer /\ pool' = Without(Con)
<1> DEFINE def == Renamed(servers[i])
<1>1. AtServer /\ i <= Len(servers)
  BY DEF IsMasterWrongSet, IsMasterDue, AtServer
<1>2. def \in ServerDefs /\ def.set = servers[i].set
  BY <1>1, SeedHash, RenamedTyped
<1>3. pool' = Without(Con) /\ servers' = [servers EXCEPT ![i] = def]
  BY DEF IsMasterWrongSet
<1> HIDE DEF def
<1>4. /\ servers' \in Seq(ServerDefs) /\ Len(servers') = Len(servers)
      /\ \A n \in 1..Len(servers) : servers'[n] = IF n = i THEN def ELSE servers[n]
  BY <1>1, <1>2, <1>3, ReplacedTyped
<1> QED BY <1>1, <1>2, <1>3, <1>4 DEF NextServer, IsMasterWrongSet

LEMMA IsMasterWrongSetStep ==
  ASSUME IInv, IsMasterWrongSet
  PROVE  IInv'
<1>1. NextServer /\ pool' = Without(Con)
  BY WrongSetGoesOn
<1>2. Awaited \subseteq Awaited' \cup {Con} /\ Sound(pool, Awaited)
  BY <1>1, NextServerAwaited DEF IInv
<1>3. Sound(Without(Con), Awaited')
  BY <1>2, SoundWithout
<1> QED BY <1>1, <1>3, NextServerStep

\* What an accepted answer leads to: from now on the set has one name everywhere.
LEMMA ReplyFacts ==
  ASSUME IInv, IsMasterReply
  PROVE  LET host == servers[i].host
             set  == SetOf[host] IN
         /\ host \in Hosts /\ set \in SetNames /\ set # None
         /\ setName \in {None, set} /\ repl_set_name = setName /\ client.replset
         /\ setName' = set /\ repl_set_name' = set
         /\ servers' \in Seq(ServerDefs) /\ Len(servers') = Len(servers)
         /\ servers'[i].set = set
         /\ \A n \in 1..Len(servers) : n # i => servers'[n] = servers[n]
         /\ i \in 1..Len(servers) /\ pc = "discover" /\ pc' = "hosts" /\ i' = i
         /\ Con \in DOMAIN pool /\ Con.host = host /\ Con.set \in {None, set}
         /\ found_hosts' = Members(set)
<1> DEFINE host == servers[i].host
           set == SetOf[host]
           def == Named(Renamed(servers[i]), set)
<1>1. AtServer /\ i <= Len(servers) /\ pc = "discover" /\ i \in 1..Len(servers)
  BY LenProperties DEF IInv, Typed, IsMasterReply, IsMasterDue, AtServer
<1>2. servers[i] \in ServerDefs /\ Con.host = host /\ Con.set = servers[i].set
  BY <1>1, SeedHash DEF Con
<1>3. host \in Hosts /\ set \in SetNames
  BY <1>2 DEF ServerDefs, SetNames
<1>4. repl_set_name = setName /\ client.replset /\ servers[i].set \in {None, setName}
  BY <1>1 DEF IInv, Consistent
<1>5. set # None /\ setName \in {None, set}
  BY <1>4 DEF IsMasterReply, WrongSet
<1>6. setName' = set /\ repl_set_name' = set
  BY <1>5 DEF IsMasterReply
<1>7. def \in ServerDefs /\ def.set = set
  BY <1>2, <1>3, <1>4, <1>5, RenamedTyped, NamedTyped
<1>8. servers' = [servers EXCEPT ![i] = def] /\ found_hosts' = Members(set)
  BY DEF IsMasterReply
<1>9. Con \in DOMAIN pool /\ pc' = "hosts" /\ i' = i
  BY DEF IsMasterReply, IsMasterDue, Registered
<1> HIDE DEF def
<1>10. /\ servers' \in Seq(ServerDefs) /\ Len(servers') = Len(servers)
       /\ \A n \in 1..Len(servers) : servers'[n] = IF n = i THEN def ELSE servers[n]
  BY <1>1, <1>7, <1>8, ReplacedTyped
<1> QED BY <1>1, <1>2, <1>3, <1>4, <1>5, <1>6, <1>7, <1>8, <1>9, <1>10

LEMMA IsMasterReplyStep ==
  ASSUME IInv, IsMasterReply
  PROVE  IInv'
<1> DEFINE host == servers[i].host
           set == SetOf[host]
<1>1. /\ host \in Hosts /\ set \in SetNames /\ set # None
      /\ setName \in {None, set} /\ client.replset
      /\ setName' = set /\ repl_set_name' = set
      /\ servers' \in Seq(ServerDefs) /\ Len(servers') = Len(servers)
      /\ servers'[i].set = set
      /\ \A n \in 1..Len(servers) : n # i => servers'[n] = servers[n]
      /\ i \in 1..Len(servers) /\ pc = "discover" /\ pc' = "hosts" /\ i' = i
      /\ Con \in DOMAIN pool /\ Con.host = host /\ Con.set \in {None, set}
      /\ found_hosts' = Members(set)
  BY ReplyFacts
<1>2. UNCHANGED <<pid, client, dont, chosen>>
  BY DEF IsMasterReply
<1>3. Len(servers) \in Nat /\ i <= Len(servers)
  BY <1>1, LenProperties DEF IInv, Typed
<1>4. Members(set) \subseteq Hosts
  BY DEF Members
<1>5. Typed'
  BY <1>1, <1>2, <1>4 DEF IInv, Typed
<1>6. \A n \in 1..Len(servers) : servers'[n].set \in {None, set}
  BY <1>1 DEF IInv, Consistent
<1>7. Consistent'
  BY <1>1, <1>2, <1>3, <1>6 DEF Consistent, Members
<1>8. Awaited \subseteq Awaited' \cup {Con}
  <2>1. Awaited' = {Hash(servers'[n]) : n \in Outstanding'}
    BY <1>2 DEF Awaited, Hash
  <2>2. \A n \in Outstanding : n = i \/ (n \in Outstanding' /\ servers'[n] = servers[n])
    BY <1>1, <1>3 DEF Outstanding
  <2>3. ASSUME NEW n \in Outstanding
        PROVE  Hash(servers[n]) \in Awaited' \cup {Con}
    BY <2>1, <2>2 DEF Con
  <2> QED BY <2>3 DEF Awaited
<1>9. Sound(pool, Awaited)
  BY DEF IInv
<1>10. Sound(pool', Awaited')
  <2>1. CASE Me[host] = host
    <3>1. PICK type \in TypesAnnounced(host) :
            pool' = [pool EXCEPT ![Con].type = type, ![Con].ismasterDue = FALSE]
      BY <2>1 DEF IsMasterReply
    <3>2. type \in {PRIMARY, SECONDARY, INVALID}
      BY DEF TypesAnnounced
    <3>3. Me[Con.host] = Con.host /\ SetOf[Con.host] # None /\ Con.set \in {None, SetOf[Con.host]}
      BY <1>1, <2>1
    <3> HIDE DEF host, set
    <3>4. Sound([pool EXCEPT ![Con].type = type, ![Con].ismasterDue = FALSE], Awaited')
      BY <1>1, <1>8, <1>9, <3>2, <3>3, SoundReply
    <3> QED BY <3>1, <3>4
  <2>2. CASE Me[host] # host
    <3>1. pool' = Without(Con)
      BY <2>2 DEF IsMasterReply
    <3> QED BY <1>8, <1>9, <3>1, SoundWithout
  <2> QED BY <2>1, <2>2
<1> QED BY <1>1, <1>2, <1>5, <1>7, <1>10 DEF IInv, ChoiceIsSound

-----------------------------------------------------------------------------
(* The members it named *)

\* A step that leaves the place in the list.
LEMMA HostLookedStep ==
  ASSUME IInv, pc = "hosts", found_hosts' \subseteq found_hosts,
         UNCHANGED <<pool, pid, client, servers, setName, pc, dont, i, repl_set_name, chosen>>
  PROVE  IInv'
<1>1. Typed' /\ Consistent'
  BY DEF IInv, Typed, Consistent, Members
<1>2. Awaited' = Awaited
  BY DEF Awaited, Outstanding, Hash
<1> QED BY <1>1, <1>2 DEF IInv, ChoiceIsSound

LEMMA HostsDoneStep ==
  ASSUME IInv, HostsDone
  PROVE  IInv'
<1>1. i \in Nat /\ Len(servers) \in Nat /\ i <= Len(servers)
  BY LenProperties DEF IInv, Typed, Consistent, HostsDone
<1>2. Typed'
  BY <1>1 DEF IInv, HostsDone, Typed, clientVars
<1>3. Consistent'
  BY DEF IInv, HostsDone, Consistent, clientVars
<1>4. Awaited' = Awaited
  <2>1. Outstanding' = Outstanding
    BY <1>1 DEF HostsDone, Outstanding, clientVars
  <2> QED BY <2>1 DEF HostsDone, Awaited, Hash, clientVars
<1> QED BY <1>2, <1>3, <1>4 DEF IInv, HostsDone, ChoiceIsSound

\* A member is connected and appended; it is asked in its turn.
LEMMA HostConnectsFacts ==
  ASSUME IInv, HostConnects
  PROVE  /\ pc = "hosts" /\ Len(servers) \in Nat
         /\ i \in 1..Len(servers)
         /\ UNCHANGED <<pid, client, setName, pc, dont, i, repl_set_name, chosen>>
         /\ \E host \in found_hosts :
              LET def == Found(host)
                  h   == Hash(def) IN
              /\ def \in ServerDefs /\ def.set = repl_set_name /\ def.host = host
              /\ h \in Hashes /\ ~Registered(h)
              /\ \E con \in Created(h) : pool' = With(h, con)
              /\ servers' = Append(servers, def)
              /\ servers' \in Seq(ServerDefs) /\ Len(servers') = Len(servers) + 1
              /\ servers'[Len(servers) + 1] = def
              /\ \A n \in 1..Len(servers) : servers'[n] = servers[n]
              /\ found_hosts' = found_hosts \ {host}
<1>1. pc = "hosts" /\ Len(servers) \in Nat /\ i \in 1..Len(servers)
  BY LenProperties DEF IInv, Typed, Consistent, HostConnects
<1>2. UNCHANGED <<pid, client, setName, pc, dont, i, repl_set_name, chosen>>
  BY DEF HostConnects
<1>3. PICK host \in found_hosts :
        /\ ~Registered(Hash(Found(host)))
        /\ \E con \in Created(Hash(Found(host))) : pool' = With(Hash(Found(host)), con)
        /\ servers' = Append(servers, Found(host))
        /\ found_hosts' = found_hosts \ {host}
  BY DEF HostConnects
<1> DEFINE def == Found(host)
<1>4. servers \in Seq(ServerDefs) /\ servers[i] \in ServerDefs /\ host \in Hosts
  BY <1>1, SeedHash DEF IInv, Typed
<1>5. def \in ServerDefs /\ def.set = repl_set_name /\ def.host = host
  BY <1>1, <1>4 DEF IInv, Consistent, Found, ServerDefs
<1> HIDE DEF def
<1>6. Hash(def) \in Hashes
  BY <1>5, HashTyped DEF IInv, Typed
<1>7. servers' = Append(servers, def)
  BY <1>3 DEF def
<1>8. /\ servers' \in Seq(ServerDefs) /\ Len(servers') = Len(servers) + 1
      /\ servers'[Len(servers) + 1] = def
      /\ \A n \in 1..Len(servers) : servers'[n] = servers[n]
  BY <1>4, <1>5, <1>7, AppendProperties
<1> QED BY <1>1, <1>2, <1>3, <1>5, <1>6, <1>7, <1>8 DEF def

LEMMA HostConnectsStep ==
  ASSUME IInv, HostConnects
  PROVE  IInv'
<1>1. /\ pc = "hosts" /\ Len(servers) \in Nat
      /\ i \in 1..Len(servers)
      /\ UNCHANGED <<pid, client, setName, pc, dont, i, repl_set_name, chosen>>
  BY HostConnectsFacts
<1>2. PICK host \in found_hosts :
        /\ Found(host) \in ServerDefs /\ Found(host).set = repl_set_name
        /\ Hash(Found(host)) \in Hashes
        /\ \E con \in Created(Hash(Found(host))) : pool' = With(Hash(Found(host)), con)
        /\ servers' \in Seq(ServerDefs) /\ Len(servers') = Len(servers) + 1
        /\ servers'[Len(servers) + 1] = Found(host)
        /\ \A n \in 1..Len(servers) : servers'[n] = servers[n]
        /\ found_hosts' = found_hosts \ {host}
  BY HostConnectsFacts
<1> DEFINE def == Found(host)
           h == Hash(def)
<1>3. PICK con \in Created(h) : pool' = With(h, con)
  BY <1>2
<1>4. i \in 1..Len(servers) + 1 + 1
  BY <1>1
<1>5. Typed'
  BY <1>1, <1>2, <1>4 DEF IInv, Typed
<1>6. \A n \in 1..Len(servers) + 1 : servers'[n].set \in {None, setName}
  <2>1. \A n \in 1..Len(servers) + 1 : n = Len(servers) + 1 \/ n \in 1..Len(servers)
    BY <1>1
  <2> QED BY <1>1, <1>2, <2>1 DEF IInv, Consistent
<1>7. Consistent'
  BY <1>1, <1>2, <1>6 DEF IInv, Consistent, Members
<1>8. Awaited \subseteq Awaited' /\ h \in Awaited'
  <2>1. Awaited' = {Hash(servers'[n]) : n \in Outstanding'}
    BY <1>1 DEF Awaited, Hash
  <2>2. Len(servers) + 1 \in Outstanding' /\ Outstanding \subseteq Outstanding'
    BY <1>1, <1>2 DEF Outstanding
  <2>3. h \in Awaited'
    BY <1>2, <2>1, <2>2
  <2>4. \A n \in Outstanding : servers'[n] = servers[n]
    BY <1>2 DEF Outstanding
  <2> QED BY <2>1, <2>2, <2>3, <2>4 DEF Awaited
<1>9. Sound(pool, Awaited) /\ h \in Hashes
  BY <1>2 DEF IInv
<1> HIDE DEF h
<1>10. Sound(With(h, con), Awaited')
  BY <1>8, <1>9, SoundWith
<1> QED BY <1>1, <1>3, <1>5, <1>7, <1>10 DEF IInv, ChoiceIsSound

LEMMA DiscoverDoneStep ==
  ASSUME IInv, DiscoverDone
  PROVE  IInv'
<1>1. i \in Nat /\ Len(servers) \in Nat /\ i > Len(servers) /\ 1 \in 1..Len(servers) + 1
  BY LenProperties DEF IInv, Typed, DiscoverDone
<1>2. Typed'
  BY <1>1 DEF IInv, DiscoverDone, Typed, clientVars
<1>3. Consistent'
  BY DEF IInv, DiscoverDone, Consistent, clientVars
<1>4. Awaited = {}
  BY <1>1 DEF DiscoverDone, Awaited, Outstanding
<1>5. Sound(pool, Awaited')
  BY <1>4, SoundForMore DEF IInv
<1> QED BY <1>2, <1>3, <1>5 DEF IInv, DiscoverDone, ChoiceIsSound

-----------------------------------------------------------------------------
(* The choice *)

LEMMA PickedFromCandidates ==
  ASSUME NEW cands, NEW mode, NEW con \in Pickable(cands, mode)
  PROVE  con \in cands
<1>1. PICK first \in FirstsOf(cands, mode) :
        con \in PickServer(SelectNearest(cands, first), mode)
  BY DEF Pickable
<1>2. con \in SelectNearest(cands, first)
  BY <1>1 DEF PickServer, FirstsOf
<1> QED BY <1>2 DEF SelectNearest

\* A candidate is a pooled connection of this process, of a type the mode admits; for
\* a client of the type REPLSET its hash has a set name, and the one expected, unless
\* that type has been overwritten.
LEMMA CandidateFacts ==
  ASSUME NEW write, NEW mode, NEW pings, NEW con \in Candidates(write, mode, pings)
  PROVE  /\ con.hash \in Own
         /\ con.hash \in DOMAIN pool /\ con.hash.pid = pid
         /\ con.type = pool[con.hash].type
         /\ con.ping = pings[con.hash]
         /\ con.type \in TypesFor(CandidateMode(write, mode))
         /\ client.replset /\ ~Overrun =>
              con.hash.set # None /\ setName \in {None, con.hash.set}
<1> DEFINE all == FindAllCandidates(Seen(pings), CandidateMode(write, mode), pid)
<1>1. con \in all /\ (client.replset /\ ~Overrun =>
                       con.hash.set # None /\ setName \in {None, con.hash.set})
  BY DEF Candidates, OwnCandidates, FilterBySetName, FilterBySeed
<1>2. /\ con \in Seen(pings) /\ con.hash.pid = pid
      /\ con.type \in TypesFor(CandidateMode(write, mode))
  BY <1>1 DEF FindAllCandidates, FilterConnections
<1>3. PICK k \in DOMAIN pool :
        con = [hash |-> k, type |-> pool[k].type, tags |-> pool[k].tags,
               ping |-> IF k \in Own THEN pings[k] ELSE 0]
  BY <1>2 DEF Seen
<1>4. con.hash = k /\ con.type = pool[k].type /\ con.ping = IF k \in Own THEN pings[k] ELSE 0
  BY <1>3
<1>5. k \in Own
  BY <1>2, <1>4 DEF Own
<1> QED BY <1>1, <1>2, <1>4, <1>5

LEMMA FoundAreCandidates ==
  ASSUME NEW own, NEW cred, NEW tagsets
  PROVE  FindCandidates(own, cred, tagsets) \subseteq own
BY DEF FindCandidates, FilterByTagsets, FilterByTagset, FilterByCredentials

\* What Pick chooses, if it chooses something.
LEMMA PickFacts ==
  ASSUME Pick, chosen' # NULL
  PROVE  \E write \in BOOLEAN, mode \in Modes, pings \in [Own -> Pings] :
           \E cands \in SUBSET Candidates(write, mode, pings) :
             \E con \in Pickable(cands, mode) :
               /\ con \in Candidates(write, mode, pings)
               /\ chosen' = Choice(con, cands, mode)
<1>1. PICK write \in BOOLEAN, mode \in Modes, pings \in [Own -> Pings],
           tagsets \in IF client.replset THEN TagSets ELSE {<<>>} :
        LET cands == FindCandidates(Candidates(write, mode, pings), client.cred, tagsets) IN
        IF cands = {} THEN chosen' = NULL
        ELSE \E con \in Pickable(cands, mode) : chosen' = Choice(con, cands, mode)
  BY DEF Pick
<1> DEFINE cands == FindCandidates(Candidates(write, mode, pings), client.cred, tagsets)
<1>2. PICK con \in Pickable(cands, mode) : chosen' = Choice(con, cands, mode)
  BY <1>1
<1>3. cands \subseteq Candidates(write, mode, pings)
  BY FoundAreCandidates
<1> HIDE DEF cands
<1>4. con \in Candidates(write, mode, pings)
  BY <1>3, PickedFromCandidates
<1> QED BY <1>2, <1>3, <1>4

LEMMA PickStep ==
  ASSUME IInv, Pick
  PROVE  IInv'
<1>1. /\ UNCHANGED <<pool, pid, client, servers, setName>>
      /\ pc = "pick" /\ pc' = "idle" /\ dont' = FALSE /\ i' = 1 /\ found_hosts' = {}
  BY DEF Pick, Return, clientVars
<1>2. Len(servers) \in Nat
  BY LenProperties DEF IInv, Typed
<1>3. 1 \in 1..Len(servers) + 1 /\ FALSE \in BOOLEAN
  BY <1>2
<1>4. Typed'
  <2>1. i' \in 1..Len(servers') + 1 /\ dont' \in BOOLEAN
    BY <1>1, <1>3, Zenon
  <2> QED BY <1>1, <2>1 DEF IInv, Typed
<1>5. Consistent'
  BY <1>1 DEF IInv, Consistent
<1>6. Sound(pool, Awaited') /\ Sound(pool, {})
  BY <1>1, NoneAwaited
<1>7. ASSUME chosen' # NULL
      PROVE  ChosenIsVerified'
  <2>1. PICK write \in BOOLEAN, mode \in Modes, pings \in [Own -> Pings] :
          \E cands \in SUBSET Candidates(write, mode, pings) :
            \E con \in Pickable(cands, mode) :
              /\ con \in Candidates(write, mode, pings)
              /\ chosen' = Choice(con, cands, mode)
    BY <1>7, PickFacts
  <2>2a. PICK cands \in SUBSET Candidates(write, mode, pings) :
          \E con \in Pickable(cands, mode) :
            con \in Candidates(write, mode, pings) /\ chosen' = Choice(con, cands, mode)
    BY <2>1
  <2>2. PICK con \in Pickable(cands, mode) :
          con \in Candidates(write, mode, pings) /\ chosen' = Choice(con, cands, mode)
    BY <2>2a
  <2>3. chosen'.hash = con.hash /\ chosen'.type = con.type
    BY <2>2 DEF Choice
  <2>4. /\ con.hash \in DOMAIN pool /\ con.hash.pid = pid
        /\ con.type = pool[con.hash].type
        /\ client.replset /\ ~Overrun =>
             con.hash.set # None /\ setName \in {None, con.hash.set}
    BY <2>2, CandidateFacts
  <2>5. Overrun' = Overrun
    BY <1>1 DEF Overrun
  <2>6. ASSUME client.replset, ~Overrun
        PROVE  /\ Me[con.hash.host] = con.hash.host
               /\ con.type # STANDALONE
               /\ SetOf[con.hash.host] # None
               /\ setName # None => SetOf[con.hash.host] = setName
    <3>1. con.hash.set # None /\ setName \in {None, con.hash.set}
      BY <2>4, <2>6
    <3>2. Verified(pool, con.hash)
      BY <1>6, <2>4, <3>1 DEF Sound, Unverified
    <3> QED BY <2>4, <3>1, <3>2 DEF Verified, PRIMARY, SECONDARY, INVALID, STANDALONE
  <2>7. ChosenIsVerified'
    BY <1>1, <2>3, <2>5, <2>6 DEF ChosenIsVerified
  <2> QED BY <2>7
<1>8. ChoiceIsSound'
  BY <1>1, <1>7 DEF ChoiceIsSound
<1> QED BY <1>1, <1>4, <1>5, <1>6, <1>8 DEF IInv

LEMMA WorkerLostStep ==
  ASSUME IInv, WorkerLost
  PROVE  IInv'
<1>1. /\ UNCHANGED <<pid, client>>
      /\ pool' = << >> /\ servers' = Definitions(client) /\ setName' = client.set
      /\ pc' = "idle" /\ dont' = FALSE /\ i' = 1 /\ found_hosts' = {} /\ chosen' = NULL
  BY DEF WorkerLost, Return
<1>2. client \in Clients
  BY DEF IInv, Typed
<1>3. /\ servers' \in Seq(ServerDefs) /\ Len(servers') <= MaxServers
      /\ 1 \in 1..Len(servers') + 1
      /\ setName' \in SetNames
      /\ ~client.replset => setName' = None
      /\ \A n \in 1..Len(servers') : servers'[n].set \in {None, setName'}
  BY <1>1, <1>2, ConstructedTyped
<1>4. FALSE \in BOOLEAN
  OBVIOUS
<1>5. dont' \in BOOLEAN
  BY <1>1, <1>4, Zenon
<1>6. Typed'
  BY <1>1, <1>3, <1>5 DEF IInv, Typed
<1>7. Consistent'
  BY <1>1, <1>3 DEF Consistent
<1>8. Sound(pool', Awaited')
  BY <1>1, EmptySound
<1> QED BY <1>1, <1>6, <1>7, <1>8 DEF IInv, ChoiceIsSound

-----------------------------------------------------------------------------
(* The invariant *)

LEMMA Inductive ==
  ASSUME IInv, [Next]_vars
  PROVE  IInv'
<1>1. CASE NewClient
  BY <1>1, NewClientStep
<1>2. CASE GetConnection
  BY <1>2, GetConnectionStep
<1>3. CASE SeedFound
  BY <1>3, SeedLooked DEF SeedFound
<1>4. CASE SeedNotFound
  BY <1>4, SeedLooked DEF SeedNotFound
<1>5. CASE SeedPinged
  BY <1>5, SeedPingedStep
<1>6. CASE SeedConnects
  BY <1>6, SeedConnectsStep
<1>7. CASE SeedsDone
  BY <1>7, SeedsDoneStep
<1>8. CASE DiscoverSkips
  BY <1>8, DiscoverSkipsStep
<1>9. CASE IsMasterFails
  BY <1>9, IsMasterFailsStep
<1>10. CASE IsMasterWrongSet
  BY <1>10, IsMasterWrongSetStep
<1>11. CASE IsMasterReply
  BY <1>11, IsMasterReplyStep
<1>12. CASE HostKnown
  BY <1>12, HostLookedStep DEF HostKnown, clientVars
<1>13. CASE HostConnects
  BY <1>13, HostConnectsStep
<1>14. CASE HostConnectFails
  BY <1>14, HostLookedStep DEF HostConnectFails, clientVars
<1>15. CASE HostsDone
  BY <1>15, HostsDoneStep
<1>16. CASE DiscoverDone
  BY <1>16, DiscoverDoneStep
<1>17. CASE Pick
  BY <1>17, PickStep
<1>18. CASE PickCrashes
  BY <1>18, WorkerLostStep DEF PickCrashes
<1>19. CASE Elect
  BY <1>19, ElectStep
<1>20. CASE Elapse
  BY <1>20, ElapseStep
<1>21. CASE Fork
  BY <1>21, ForkStep
<1>22. CASE OverrunCrashes
  BY <1>22, WorkerLostStep DEF OverrunCrashes
<1>23. CASE UNCHANGED vars
  <2>1. Awaited' = Awaited
    BY <1>23 DEF vars, clientVars, callVars, Awaited, Outstanding, Hash
  <2> QED BY <1>23, <2>1 DEF vars, clientVars, callVars, IInv, Typed, Consistent, Members,
                             ChoiceIsSound, ChosenIsVerified, Overrun
<1> QED BY <1>1, <1>2, <1>3, <1>4, <1>5, <1>6, <1>7, <1>8, <1>9, <1>10, <1>11, <1>12, <1>13,
           <1>14, <1>15, <1>16, <1>17, <1>18, <1>19, <1>20, <1>21, <1>22, <1>23 DEF Next, Step

\* The inductive invariant holds always.
THEOREM DiscoverySound == Spec => []IInv
<1>1. Init => IInv
  BY Initially
<1>2. IInv /\ [Next]_vars => IInv'
  BY Inductive
<1> QED BY <1>1, <1>2, PTL DEF Spec

\* The variables have their types, and no loop runs beyond the list of servers,
\* however long the process lives and however long the list gets.
THEOREM ReplicaSetTyped == Spec => []TypeOK
<1>1. IInv => TypeOK
  <2> SUFFICES ASSUME IInv PROVE TypeOK
    OBVIOUS
  <2>1. pool \in [DOMAIN pool -> Entries] /\ DOMAIN pool \subseteq Hashes
    BY DEF IInv, Sound
  <2>2. \A h \in DOMAIN pool :
          /\ pool[h].type \in {INVALID, STANDALONE, PRIMARY, SECONDARY, ARBITER, MONGOS}
          /\ {pool[h].pingDue, pool[h].ismasterDue} \subseteq BOOLEAN
    BY <2>1 DEF Entries, Types
  <2>3. servers \in Seq(ServerDefs) /\ Len(servers) \in Nat
    BY LenProperties DEF IInv, Typed
  <2>4. \A n \in 1..Len(servers) : servers[n] \in ServerDefs
    BY <2>3, ElementOfSeq
  <2>5. \A n \in 1..Len(servers) : servers[n].host \in Hosts
    BY <2>4 DEF ServerDefs
  <2> QED BY <2>1, <2>2, <2>5 DEF IInv, Typed, TypeOK
<1> QED BY <1>1, DiscoverySound, PTL

\* A client of a replica set is never given a server that was not asked who it is,
\* under another name than its own, or outside the set, as long as its list of
\* servers has not outgrown its array.
THEOREM Verification == Spec => []ChosenIsVerified
<1>1. IInv => ChosenIsVerified
  BY DEF IInv, ChoiceIsSound, ChosenIsVerified
<1> QED BY <1>1, DiscoverySound, PTL

-----------------------------------------------------------------------------
(* What the preference promises *)

LEMMA CandidatesFinite ==
  ASSUME IInv, NEW write, NEW mode, NEW pings
  PROVE  IsFiniteSet(Candidates(write, mode, pings))
<1> DEFINE f == [k \in DOMAIN pool |->
                   [hash |-> k, type |-> pool[k].type, tags |-> pool[k].tags,
                    ping |-> IF k \in Own THEN pings[k] ELSE 0]]
<1>1. IsFiniteSet(DOMAIN pool)
  BY DEF IInv, Sound
<1>2. f \in Surjection(DOMAIN pool, Seen(pings))
  BY DEF Surjection, Seen
<1>3. IsFiniteSet(Seen(pings))
  BY <1>1, <1>2, FS_Surjection
<1>4. Candidates(write, mode, pings) \subseteq Seen(pings)
  BY DEF Candidates, OwnCandidates, FilterBySetName, FilterBySeed, FindAllCandidates,
         FilterConnections
<1> QED BY <1>3, <1>4, FS_Subset

LEMMA CandidatesMeasured ==
  ASSUME IInv, NEW write, NEW mode, NEW pings \in [Own -> Pings],
         NEW con \in Candidates(write, mode, pings)
  PROVE  /\ con.ping \in Nat /\ con.ping < MaxPing
         /\ con.type \in Types /\ con.type \in Nat
<1>1. con.hash \in Own /\ con.ping = pings[con.hash]
      /\ con.hash \in DOMAIN pool /\ con.type = pool[con.hash].type
  BY CandidateFacts
<1>2. con.ping \in Pings
  BY <1>1
<1>3. pool[con.hash] \in Entries
  BY <1>1 DEF IInv, Sound
<1>4. con.type \in Types
  BY <1>1, <1>3 DEF Entries
<1>5. con.type \in Nat
  BY <1>4 DEF Types, INVALID, STANDALONE, PRIMARY, SECONDARY, ARBITER, MONGOS
<1> QED BY <1>2, <1>4, <1>5, Constant

\* The least ping is that of a connection no other one is nearer than; without
\* connections it is MaxPing.
LEMMA LeastPingOf ==
  ASSUME NEW cands, \A c \in cands : c.ping \in Nat /\ c.ping < MaxPing
  PROVE  /\ \A m \in cands : (\A c \in cands : m.ping <= c.ping) => LeastPing(cands) = m.ping
         /\ cands = {} => LeastPing(cands) = MaxPing
<1> DEFINE pings == {c.ping : c \in cands} \cup {MaxPing}
<1>1. MaxPing \in Nat /\ \A p \in pings : p \in Nat /\ p <= MaxPing
  BY Constant
<1>2. ASSUME NEW m \in cands, \A c \in cands : m.ping <= c.ping
      PROVE  LeastPing(cands) = m.ping
  <2>1. m.ping \in pings /\ \A q \in pings : m.ping <= q
    BY <1>1, <1>2
  <2> HIDE DEF pings
  <2>2. ASSUME NEW p \in pings, \A q \in pings : p <= q
        PROVE  p = m.ping
    <3>1. p <= m.ping /\ m.ping <= p
      BY <2>1, <2>2
    <3>2. p \in Nat /\ m.ping \in Nat
      BY <1>1, <2>1
    <3> QED BY <3>1, <3>2
  <2>3. (CHOOSE p \in pings : \A q \in pings : p <= q) = m.ping
    BY <2>1, <2>2
  <2> QED BY <2>3 DEF LeastPing, pings
<1>3. ASSUME cands = {}
      PROVE  LeastPing(cands) = MaxPing
  <2>1. pings = {MaxPing}
    BY <1>3
  <2> HIDE DEF pings
  <2>2. (CHOOSE p \in pings : \A q \in pings : p <= q) = MaxPing
    BY <1>1, <2>1
  <2> QED BY <2>2 DEF LeastPing, pings
<1> QED BY <1>2, <1>3

\* Types a client of the type REPLSET is offered.
LEMMA CandidateTypes ==
  ASSUME IInv, client.replset, NEW write \in BOOLEAN, NEW mode, NEW pings,
         mode \in {"primaryPreferred", "secondaryPreferred"},
         NEW con \in Candidates(write, mode, pings)
  PROVE  con.type \in {PRIMARY, SECONDARY}
<1>1. con.type \in TypesFor(CandidateMode(write, mode))
  BY CandidateFacts
<1>2. CandidateMode(write, mode) \in {"primary", "primaryPreferred", "secondaryPreferred"}
  BY DEF CandidateMode
<1> QED BY <1>1, <1>2 DEF TypesFor

\* A choice from candidates as they are meets the preference.
LEMMA ChoiceMeetsPreference ==
  ASSUME IInv, client.replset,
         NEW write \in BOOLEAN, NEW mode \in Modes, NEW pings \in [Own -> Pings],
         NEW cands \in SUBSET Candidates(write, mode, pings), NEW con \in Pickable(cands, mode),
         NEW c, c = Choice(con, cands, mode)
  PROVE  CASE c.mode = "primaryPreferred" /\ c.primaries > 0 -> c.type = PRIMARY
           [] c.mode = "secondaryPreferred" /\ c.nearestSecondary < MaxPing
              /\ c.primaries <= 1 ->
                c.type = SECONDARY /\ c.ping <= c.nearestSecondary + CUTOFF
           [] OTHER -> c.mode # "secondaryPreferred" => c.ping <= c.nearest + CUTOFF
<1> DEFINE primaries == OfType(cands, PRIMARY)
           secondaries == OfType(cands, SECONDARY)
<1>1. /\ c.type = con.type /\ c.ping = con.ping /\ c.mode = mode
      /\ c.nearest = LeastPing(cands) /\ c.nearestSecondary = LeastPing(secondaries)
      /\ c.primaries = Cardinality(primaries)
  BY DEF Choice
<1>2. Measured(cands) /\ \A d \in cands : d.ping \in Nat /\ d.ping < MaxPing
  BY CandidatesMeasured DEF Measured
<1>3. IsFiniteSet(cands) /\ IsFiniteSet(primaries)
  <2>1. IsFiniteSet(cands)
    BY CandidatesFinite, FS_Subset
  <2>2. primaries \in SUBSET cands
    BY DEF OfType
  <2> QED BY <2>1, <2>2, FS_Subset
<1>4. mode \in {"primaryPreferred", "secondaryPreferred"} =>
        \A d \in cands : d.type \in {PRIMARY, SECONDARY}
  BY CandidateTypes
<1>5. ASSUME mode = "primaryPreferred", Cardinality(primaries) > 0
      PROVE  con.type = PRIMARY
  <2>1. PICK p \in primaries : TRUE
    BY <1>5, FS_EmptySet
  <2>2. p \in cands /\ p.type = PRIMARY
    BY DEF OfType
  <2> QED BY <1>2, <1>4, <1>5, <2>2, PrimaryPicked
<1>6. ASSUME mode = "secondaryPreferred", LeastPing(secondaries) < MaxPing,
             Cardinality(primaries) <= 1
      PROVE  con.type = SECONDARY /\ con.ping <= LeastPing(secondaries) + CUTOFF
  <2>1. \A d \in secondaries : d.ping \in Nat /\ d.ping < MaxPing
    BY <1>2 DEF OfType
  <2>2. PICK s \in secondaries : TRUE
    <3>1. secondaries # {}
      BY <1>6, <2>1, LeastPingOf, Constant
    <3> QED BY <3>1
  <2>3. s \in cands /\ s.type = SECONDARY
    BY DEF OfType
  <2>4. ASSUME NEW d \in cands, NEW e \in cands, d.type = PRIMARY, e.type = PRIMARY
        PROVE  d = e
    <3>1. d \in primaries /\ e \in primaries
      BY <2>4 DEF OfType
    <3>2. Cardinality(primaries) \in Nat
      BY <1>3, FS_CardinalityType
    <3> QED BY <1>3, <1>6, <3>1, <3>2, TwoElements
  <2>5. \A d, e \in cands : d.type = PRIMARY /\ e.type = PRIMARY => d = e
    BY <2>4
  <2>6. con \in Pickable(cands, "secondaryPreferred")
    BY <1>6
  <2>7. con.type = SECONDARY
        /\ \E first \in cands :
              /\ first.type = SECONDARY
              /\ \A d \in cands : d.type = SECONDARY => first.ping <= d.ping
              /\ con.ping <= first.ping + CUTOFF
    BY <1>2, <1>3, <1>4, <1>6, <2>3, <2>5, <2>6, SecondaryPicked
  <2>8. PICK first \in cands :
              /\ first.type = SECONDARY
              /\ \A d \in cands : d.type = SECONDARY => first.ping <= d.ping
              /\ con.ping <= first.ping + CUTOFF
    BY <2>7
  <2>9. first \in secondaries /\ \A d \in secondaries : first.ping <= d.ping
    BY <2>8 DEF OfType
  <2>10. LeastPing(secondaries) = first.ping
    BY <2>1, <2>9, LeastPingOf
  <2> QED BY <2>7, <2>8, <2>10
<1>7. ASSUME ~(mode = "primaryPreferred" /\ Cardinality(primaries) > 0),
             mode # "secondaryPreferred"
      PROVE  con.ping <= LeastPing(cands) + CUTOFF
  <2>1. \/ mode \notin {"primaryPreferred", "secondaryPreferred"}
        \/ \A d, e \in cands : d.type = e.type
    <3>1. CASE mode = "primaryPreferred"
      <4>1. Cardinality(primaries) \in Nat
        BY <1>3, FS_CardinalityType
      <4>2. primaries = {}
        BY <1>3, <1>7, <3>1, <4>1, FS_EmptySet
      <4>3. \A d \in cands : d.type = SECONDARY
        BY <1>4, <3>1, <4>2 DEF OfType
      <4> QED BY <4>3
    <3>2. CASE mode # "primaryPreferred"
      BY <1>7, <3>2
    <3> QED BY <3>1, <3>2
  <2>2. PICK first \in cands : /\ \A d \in cands : first.ping <= d.ping
                               /\ con.ping <= first.ping + CUTOFF
    BY <1>2, <2>1, NearestPicked
  <2>3. LeastPing(cands) = first.ping
    BY <1>2, <2>2, LeastPingOf
  <2> QED BY <2>2, <2>3
<1> HIDE DEF primaries, secondaries
<1> QED BY <1>1, <1>5, <1>6, <1>7

\* A choice lasts until something else happens.
LEMMA ChosenByPick ==
  ASSUME [Next]_vars
  PROVE  Pick \/ chosen' = NULL \/ (chosen' = chosen /\ client' = client)
BY DEF Next, Step, vars, clientVars, callVars, NewClient, GetConnection, SeedFound, SeedNotFound,
       SeedPinged, SeedConnects, NextSeed, SeedsDone, DiscoverSkips, IsMasterFails,
       IsMasterWrongSet, IsMasterReply, HostKnown, HostConnects, HostConnectFails, HostsDone,
       DiscoverDone, PickCrashes, OverrunCrashes, WorkerLost, Elect, Elapse, Fork

\* Sorting, nearest_ping and picking together give what the read preference promises,
\* whatever the pool holds and whatever the round trip times are.
THEOREM PreferenceMet == Spec => []PickMeetsPreference
<1>1. Init => PickMeetsPreference
  BY DEF Init, PickMeetsPreference
<1>2. IInv /\ PickMeetsPreference /\ [Next]_vars => PickMeetsPreference'
  <2> SUFFICES ASSUME IInv, PickMeetsPreference, [Next]_vars, chosen' # NULL, client'.replset
               PROVE  PickMeetsPreference'
    BY DEF PickMeetsPreference
  <2>1. CASE Pick
    <3>1. client' = client /\ client.replset
      BY <2>1 DEF Pick, clientVars
    <3>2. PICK write \in BOOLEAN, mode \in Modes, pings \in [Own -> Pings] :
            \E cands \in SUBSET Candidates(write, mode, pings) :
              \E con \in Pickable(cands, mode) : chosen' = Choice(con, cands, mode)
      BY <2>1, PickFacts
    <3>3. PICK cands \in SUBSET Candidates(write, mode, pings) :
            \E con \in Pickable(cands, mode) : chosen' = Choice(con, cands, mode)
      BY <3>2
    <3>4. PICK con \in Pickable(cands, mode) : chosen' = Choice(con, cands, mode)
      BY <3>3
    <3>5. (CASE chosen'.mode = "primaryPreferred" /\ chosen'.primaries > 0 ->
                  chosen'.type = PRIMARY
             [] chosen'.mode = "secondaryPreferred" /\ chosen'.nearestSecondary < MaxPing
                /\ chosen'.primaries <= 1 ->
                  chosen'.type = SECONDARY
                  /\ chosen'.ping <= chosen'.nearestSecondary + CUTOFF
             [] OTHER ->
                  chosen'.mode # "secondaryPreferred" => chosen'.ping <= chosen'.nearest + CUTOFF)
      BY <3>1, <3>4, ChoiceMeetsPreference
    <3> QED BY <3>5 DEF PickMeetsPreference, WithinCutoff
  <2>2. CASE chosen' = chosen /\ client' = client
    BY <2>2 DEF PickMeetsPreference, WithinCutoff
  <2> QED BY <2>1, <2>2, ChosenByPick
<1> QED BY <1>1, <1>2, DiscoverySound, PTL DEF Spec

-----------------------------------------------------------------------------
(* Discovery ends *)

LEMMA UnconnectedFinite ==
  /\ Unconnected \subseteq Hosts
  /\ IsFiniteSet(Unconnected)
  /\ Cardinality(Unconnected) \in Nat
<1>1. Unconnected \in SUBSET Hosts
  BY DEF Unconnected, Members
<1> QED BY <1>1, Constant, FS_Subset, FS_CardinalityType

LEMMA UnconnectedFiniteNext ==
  ASSUME NEW S, S = Unconnected'
  PROVE  IsFiniteSet(S) /\ Cardinality(S) \in Nat
<1>1. S \in SUBSET Hosts
  BY DEF Unconnected, Members
<1> QED BY <1>1, Constant, FS_Subset, FS_CardinalityType

\* Which members are not connected, before and after a step that keeps the client.
LEMMA UnconnectedNext ==
  ASSUME UNCHANGED <<client, pid>>
  PROVE  Unconnected' =
           IF repl_set_name' = None THEN Hosts
           ELSE {h \in Members(repl_set_name') :
                   Hash([host |-> h, set |-> repl_set_name']) \notin DOMAIN pool'}
BY DEF Unconnected, Registered, Hash, Members

LEMMA PlaceNat ==
  ASSUME IInv
  PROVE  i \in Nat /\ Len(servers) \in Nat /\ i <= Len(servers) + 1
BY LenProperties DEF IInv, Typed

\* To ask a server in vain disconnects one member at most.
LEMMA LostIsOne ==
  ASSUME UNCHANGED <<client, pid, repl_set_name>>, pool' = Without(Con)
  PROVE  Cardinality(Unconnected') <= Cardinality(Unconnected) + 1
<1>1. DOMAIN pool' = DOMAIN pool \ {Con}
  BY DEF Without
<1>2. Unconnected' \subseteq Unconnected \cup {Con.host}
  <2>1. CASE repl_set_name = None
    BY <2>1, UnconnectedNext DEF Unconnected
  <2>2. CASE repl_set_name # None
    <3>1. \A h : Hash([host |-> h, set |-> repl_set_name]).host = h
      BY DEF Hash
    <3>2. ASSUME NEW h \in Unconnected', h # Con.host
          PROVE  h \in Unconnected
      <4>1. h \in Members(repl_set_name)
            /\ Hash([host |-> h, set |-> repl_set_name]) \notin DOMAIN pool'
        BY <2>2, <3>2, UnconnectedNext
      <4>2. Hash([host |-> h, set |-> repl_set_name]) # Con
        BY <3>1, <3>2
      <4>3. Hash([host |-> h, set |-> repl_set_name]) \notin DOMAIN pool
        BY <1>1, <4>1, <4>2
      <4> QED BY <2>2, <4>1, <4>3 DEF Unconnected, Registered
    <3> QED BY <3>2
  <2> QED BY <2>1, <2>2
<1> DEFINE more == Unconnected \cup {Con.host}
<1>3. IsFiniteSet(more) /\ Cardinality(more) <= Cardinality(Unconnected) + 1
      /\ Cardinality(more) \in Nat
  <2>1. IsFiniteSet(Unconnected) /\ Cardinality(Unconnected) \in Nat
    BY UnconnectedFinite
  <2>2. /\ IsFiniteSet(more)
        /\ Cardinality(more) = IF Con.host \in Unconnected THEN Cardinality(Unconnected)
                                ELSE Cardinality(Unconnected) + 1
    BY <2>1, FS_AddElement
  <2> HIDE DEF more
  <2>3. Cardinality(more) \in Nat
    BY <2>2, FS_CardinalityType
  <2> QED BY <2>1, <2>2, <2>3
<1>4. Cardinality(Unconnected') <= Cardinality(more)
  BY <1>2, <1>3, FS_Subset
<1>5. Cardinality(Unconnected') \in Nat
  BY UnconnectedFiniteNext
<1> QED BY <1>3, <1>4, <1>5, UnconnectedFinite

LEMMA AskedInVain ==
  ASSUME IInv, NextServer, pool' = pool \/ pool' = Without(Con)
  PROVE  Smaller(Measure', Measure)
<1>1. /\ i' = i + 1 /\ Len(servers') = Len(servers) /\ pc = "discover" /\ pc' = "discover"
      /\ UNCHANGED <<client, pid, repl_set_name>>
  BY DEF NextServer, AtServer
<1>2. Cardinality(Unconnected') <= Cardinality(Unconnected) + 1
  <2>1. CASE pool' = pool
    <3>1. Unconnected' = Unconnected
      BY <1>1, <2>1 DEF Unconnected, Registered, Hash, Members
    <3> QED BY <3>1, UnconnectedFinite
  <2>2. CASE pool' = Without(Con)
    BY <1>1, <2>2, LostIsOne
  <2> QED BY <2>1, <2>2
<1>3. Cardinality(Unconnected) \in Nat /\ Cardinality(Unconnected') \in Nat
  BY UnconnectedFinite, UnconnectedFiniteNext
<1>4. Unasked' = Unasked - 1 /\ Unasked \in Int
  BY <1>1, PlaceNat DEF Unasked
<1>5. Unasked' + Cardinality(Unconnected') <= Unasked + Cardinality(Unconnected)
  BY <1>2, <1>3, <1>4
<1> QED BY <1>1, <1>3, <1>4, <1>5 DEF Smaller, Measure

LEMMA ReplyAdvances ==
  ASSUME IInv, IsMasterReply
  PROVE  Smaller(Measure', Measure)
<1> DEFINE host == servers[i].host
           set == SetOf[host]
<1>1. /\ set # None /\ repl_set_name \in {None, set} /\ repl_set_name' = set
      /\ Len(servers') = Len(servers)
      /\ pc = "discover" /\ pc' = "hosts" /\ i' = i
      /\ Con.host = host
  BY ReplyFacts
<1>2. UNCHANGED <<client, pid>>
  BY DEF IsMasterReply
<1>3. Unconnected' \subseteq Unconnected
  <2>1. CASE repl_set_name = None
    BY <1>1, <2>1 DEF Unconnected, Members
  <2>2. CASE repl_set_name # None
    <3>1. repl_set_name = set
      BY <1>1, <2>2
    <3>2. \A h : Hash([host |-> h, set |-> set]).host = h
      BY DEF Hash
    <3>3. DOMAIN pool' = DOMAIN pool \/ (DOMAIN pool' = DOMAIN pool \ {Con} /\ Me[host] # host)
      BY DEF IsMasterReply, Without
    <3> HIDE DEF host, set
    <3>4. ASSUME NEW h \in Unconnected'
          PROVE  h \in Unconnected
      <4>1. h \in Members(set) /\ Hash([host |-> h, set |-> set]) \notin DOMAIN pool'
        BY <1>1, <1>2, <3>4, UnconnectedNext
      <4>2. Me[h] = h
        BY <4>1 DEF Members
      <4>3. Hash([host |-> h, set |-> set]) \notin DOMAIN pool
        BY <1>1, <3>2, <3>3, <4>1, <4>2
      <4> QED BY <2>2, <3>1, <4>1, <4>3 DEF Unconnected, Registered
    <3> QED BY <3>4
  <2> QED BY <2>1, <2>2
<1>4. Cardinality(Unconnected') <= Cardinality(Unconnected)
  BY <1>3, UnconnectedFinite, FS_Subset
<1>5. Cardinality(Unconnected) \in Nat /\ Cardinality(Unconnected') \in Nat
  BY UnconnectedFinite, UnconnectedFiniteNext
<1>6. Unasked' = Unasked - 1 /\ Unasked \in Int
  BY <1>1, PlaceNat DEF Unasked
<1>7. Unasked' + Cardinality(Unconnected') < Unasked + Cardinality(Unconnected)
  BY <1>4, <1>5, <1>6
<1> QED BY <1>7 DEF Smaller, Measure

\* A host less to look at.
LEMMA FoundFewer ==
  ASSUME IInv, NEW host \in found_hosts, found_hosts' = found_hosts \ {host}
  PROVE  /\ Cardinality(found_hosts) \in Nat /\ Cardinality(found_hosts') \in Nat
         /\ Cardinality(found_hosts') < Cardinality(found_hosts)
<1>1. IsFiniteSet(found_hosts)
  BY Constant, FS_Subset DEF IInv, Typed
<1>2. /\ Cardinality(found_hosts) \in Nat /\ Cardinality(found_hosts \ {host}) \in Nat
      /\ Cardinality(found_hosts \ {host}) = Cardinality(found_hosts) - 1
  BY <1>1, FS_RemoveElement, FS_CardinalityType
<1> QED BY <1>2

LEMMA HostAdvances ==
  ASSUME IInv, HostKnown \/ HostConnectFails
  PROVE  Smaller(Measure', Measure)
<1>1. PICK host \in found_hosts : found_hosts' = found_hosts \ {host}
  BY DEF HostKnown, HostConnectFails
<1>2. UNCHANGED <<pool, pid, client, servers, pc, i, repl_set_name>> /\ pc = "hosts"
  BY DEF HostKnown, HostConnectFails, clientVars
<1>3. Unconnected' = Unconnected
  BY <1>2 DEF Unconnected, Registered, Hash, Members
<1>4. Unasked' = Unasked
  BY <1>2 DEF Unasked
<1>5. Cardinality(found_hosts') < Cardinality(found_hosts)
  BY <1>1, FoundFewer
<1> QED BY <1>2, <1>3, <1>4, <1>5 DEF Smaller, Measure

LEMMA ConnectAdvances ==
  ASSUME IInv, HostConnects
  PROVE  Smaller(Measure', Measure)
<1>1. pc = "hosts" /\ UNCHANGED <<pid, client, pc, i, repl_set_name>>
  BY HostConnectsFacts
<1>2. PICK host \in found_hosts :
        /\ Found(host).set = repl_set_name
        /\ ~Registered(Hash(Found(host)))
        /\ \E con \in Created(Hash(Found(host))) : pool' = With(Hash(Found(host)), con)
        /\ Len(servers') = Len(servers) + 1
        /\ found_hosts' = found_hosts \ {host}
  BY HostConnectsFacts
<1>3. repl_set_name # None /\ host \in Members(repl_set_name)
  BY <1>1 DEF IInv, Consistent
<1>4. Found(host) = [host |-> host, set |-> repl_set_name]
  BY <1>2 DEF Found
<1>5. DOMAIN pool' = DOMAIN pool \cup {Hash([host |-> host, set |-> repl_set_name])}
  BY <1>2, <1>4 DEF With
<1>6. host \in Unconnected
  BY <1>2, <1>3, <1>4 DEF Unconnected
<1>7. Unconnected' \in SUBSET (Unconnected \ {host})
  <2>1. ASSUME NEW h \in Unconnected'
        PROVE  h \in Unconnected /\ h # host
    <3>1. /\ h \in Members(repl_set_name)
          /\ Hash([host |-> h, set |-> repl_set_name]) \notin DOMAIN pool'
      BY <1>1, <1>3, <2>1, UnconnectedNext
    <3> QED BY <1>3, <1>5, <3>1 DEF Unconnected, Registered
  <2> QED BY <2>1
<1>8. IsFiniteSet(Unconnected \ {host})
      /\ Cardinality(Unconnected \ {host}) = Cardinality(Unconnected) - 1
  BY <1>6, UnconnectedFinite, FS_RemoveElement
<1>9. Cardinality(Unconnected') <= Cardinality(Unconnected) - 1
  BY <1>7, <1>8, FS_Subset
<1>10. Cardinality(Unconnected) \in Nat /\ Cardinality(Unconnected') \in Nat
  BY UnconnectedFinite, UnconnectedFiniteNext
<1>11. Unasked' = Unasked + 1 /\ Unasked \in Int
  BY <1>1, <1>2, PlaceNat DEF Unasked
<1>12. Unasked' + Cardinality(Unconnected') <= Unasked + Cardinality(Unconnected)
  BY <1>9, <1>10, <1>11
<1>13. Cardinality(found_hosts') < Cardinality(found_hosts)
  BY <1>2, FoundFewer
<1> QED BY <1>1, <1>10, <1>11, <1>12, <1>13 DEF Smaller, Measure

LEMMA HostsDoneAdvances ==
  ASSUME IInv, HostsDone
  PROVE  Smaller(Measure', Measure)
<1>1. /\ pc = "hosts" /\ pc' = "discover" /\ i' = i + 1
      /\ UNCHANGED <<pool, pid, client, servers, repl_set_name>>
  BY DEF HostsDone, clientVars
<1>2. Unconnected' = Unconnected
  BY <1>1 DEF Unconnected, Registered, Hash, Members
<1>3. Unasked' = Unasked
  BY <1>1, PlaceNat DEF Unasked
<1> QED BY <1>1, <1>2, <1>3 DEF Smaller, Measure

\* A step of discovery, whatever a server answers, brings its end nearer.
LEMMA Advances ==
  ASSUME IInv, Next, Discovering, Discovering', ~Elect, ~Elapse
  PROVE  Smaller(Measure', Measure)
<1>1. CASE DiscoverSkips
  BY <1>1, SameServers, AskedInVain DEF DiscoverSkips, clientVars
<1>2. CASE IsMasterFails
  BY <1>2, SameServers, AskedInVain DEF IsMasterFails, IsMasterDue, clientVars
<1>3. CASE IsMasterWrongSet
  BY <1>3, WrongSetGoesOn, AskedInVain
<1>4. CASE IsMasterReply
  BY <1>4, ReplyAdvances
<1>5. CASE HostKnown \/ HostConnectFails
  BY <1>5, HostAdvances
<1>6. CASE HostConnects
  BY <1>6, ConnectAdvances
<1>7. CASE HostsDone
  BY <1>7, HostsDoneAdvances
<1>8. CASE NewClient \/ GetConnection \/ Fork
  BY <1>8 DEF NewClient, GetConnection, Fork, Discovering
<1>9. CASE SeedFound \/ SeedNotFound \/ SeedPinged \/ SeedConnects \/ SeedsDone
  BY <1>9 DEF SeedFound, SeedNotFound, SeedPinged, SeedConnects, AtSeed, SeedsDone, Discovering
<1>10. CASE DiscoverDone \/ Pick \/ PickCrashes \/ OverrunCrashes
  BY <1>10 DEF DiscoverDone, Pick, PickCrashes, OverrunCrashes, WorkerLost, Return, Discovering
<1> QED BY <1>1, <1>2, <1>3, <1>4, <1>5, <1>6, <1>7, <1>8, <1>9, <1>10 DEF Next, Step

\* Discovery ends for any number of hosts, however they fail and reconnect on the way.
THEOREM DiscoveryTerminates == Spec => DiscoveryEnds
<1>1. IInv /\ [Next]_vars =>
        [Discovering /\ Discovering' /\ ~Elect /\ ~Elapse => Smaller(Measure', Measure)]_vars
  BY Advances
<1> QED BY <1>1, DiscoverySound, PTL DEF Spec, DiscoveryEnds
=============================================================================
