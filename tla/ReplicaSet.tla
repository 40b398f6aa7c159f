----------------------------- MODULE ReplicaSet -----------------------------
(***************************************************************************)
(* How a client finds the members of its replica set and picks one         *)
(* (mcon/manager.c 51-322, mcon/connections.c 243-646).                    *)
(*                                                                         *)
(* The connections belong to the worker process and outlive clients; a     *)
(* client has a list of server definitions of its own, which discovery     *)
(* edits and extends.  The two are related only through hashes.  Every     *)
(* exchange with a server is a step, so elections, time and failures come  *)
(* between any two of them.                                                *)
(***************************************************************************)
EXTENDS ReadPreference

CONSTANTS
    Hosts,       \* addresses a client can connect to
    Me,          \* the name the server at an address gives itself
    SetOf,       \* the replica set of that server, None for a standalone or a mongos
    IsDbGrid,    \* is it a mongos?
    TagsOf,      \* the tags of the server at an address
    Electable,   \* members that may become primary
    Clients,     \* what a client may be constructed with: seeds, set, replset, cred
    TagSets,     \* lists of tag sets of a read preference
    Pings,       \* round trip times
    Pids,        \* process ids: the worker and the children it may fork into
    MaxPing,     \* more than any of them
    MaxServers,  \* length of the array servers->server (16), which nothing compares with count
    NULL

ASSUME ReplicaSetAssumption ==
    /\ Me \in [Hosts -> Hosts]
    /\ \A h \in Hosts : SetOf[Me[h]] = SetOf[h]
    /\ \A h \in Hosts : SetOf[h] # NULL
    /\ \A h \in Electable : h \in Hosts /\ SetOf[h] # None /\ Me[h] = h
    /\ Pids \subseteq Nat /\ Pids # {}
    /\ MaxServers \in Nat /\ MaxPing \in Nat
    /\ \A p \in Pings : p \in Nat /\ p < MaxPing
    /\ IsFiniteSet(Hosts)
    \* a set name makes a client of the type REPLSET (parse.c 323-349)
    /\ \A c \in Clients : /\ c.seeds \in Seq(Hosts) /\ Len(c.seeds) <= MaxServers
                          /\ c.replset \in BOOLEAN
                          /\ c.set # None => c.replset

VARIABLES
    pool,       \* the registered connections: a function from hashes to fields
    pid,        \* the running process
    primary,    \* the host that is primary of its set, or None
    client,     \* the client in use: an element of Clients
    servers,    \* its servers->server[0 .. count-1], which may be longer than the array
    setName,    \* its options.repl_set_name
    pc,         \* where the request for a connection is
    dont,       \* is it made with MONGO_CON_FLAG_DONT_CONNECT?
    i,          \* index into servers
    connected,  \* found_connected_server
    repl_set_name,  \* the local variable of mongo_discover_topology
    found_hosts,    \* hosts of the last ismaster not looked at yet
    chosen      \* the connection the last request returned, with its circumstances, until
                \* something else happens

clientVars == <<client, servers, setName>>
callVars   == <<pc, dont, i, connected, repl_set_name, found_hosts, chosen>>
vars       == <<pool, pid, primary, clientVars, callVars>>

-----------------------------------------------------------------------------
(* Connections *)

\* mongo_server_create_hash
Hash(def) == [host |-> def.host, set |-> def.set, cred |-> client.cred, pid |-> pid]

Registered(h) == h \in DOMAIN pool

\* mongo_manager_connection_deregister, and mongo_connection_destroy within it
Without(h) == [k \in DOMAIN pool \ {h} |-> pool[k]]

\* mongo_connection_create: what get_server_flags learns, if it works
Created(h) ==
    {[type |-> IF flags /\ IsDbGrid[h.host] THEN MONGOS ELSE STANDALONE,
      tags |-> IF flags THEN TagsOf[h.host] ELSE <<>>,
      pingDue |-> FALSE, ismasterDue |-> TRUE] : flags \in BOOLEAN}

With(h, con) == [k \in DOMAIN pool \cup {h} |-> IF k = h THEN con ELSE pool[k]]

Own == {k \in DOMAIN pool : k.pid = pid}

\* The entry after the array is options.con_type, the next one options.repl_set_name,
\* then come timeouts and write defaults (types.h 170-189).  The list can still be
\* read from there, but the type of the client is lost.
Overrun == Len(servers) > MaxServers

\* connections as mongo_find_candidate_servers sees them; those of a parent keep
\* the ping times they had
Seen(pings) ==
    {[hash |-> k, type |-> pool[k].type, tags |-> pool[k].tags,
      ping |-> IF k \in Own THEN pings[k] ELSE 0] : k \in DOMAIN pool}

-----------------------------------------------------------------------------
Definitions(c) == [n \in 1..Len(c.seeds) |-> [host |-> c.seeds[n], set |-> c.set]]

Init ==
    /\ pool = << >>
    /\ pid \in Pids
    /\ \A p \in Pids : pid <= p
    /\ primary = None
    /\ client \in Clients
    /\ servers = Definitions(client)
    /\ setName = client.set
    /\ pc = "idle"
    /\ dont = FALSE /\ i = 1 /\ connected = FALSE
    /\ repl_set_name = None /\ found_hosts = {} /\ chosen = NULL

\* a client goes, another is constructed (the next request of the worker)
NewClient ==
    /\ pc = "idle"
    /\ client' \in Clients
    /\ servers' = Definitions(client')
    /\ setName' = client'.set
    /\ chosen' = NULL
    /\ UNCHANGED <<pool, pid, primary, pc, dont, i, connected, repl_set_name, found_hosts>>

GetConnectionFromZero ==
    /\ pc = "idle" /\ ~Overrun
    /\ pc' = "seeds"
    /\ dont' \in BOOLEAN
    /\ i' = 0
    /\ connected' = FALSE
    /\ chosen' = NULL
    /\ UNCHANGED <<pool, pid, primary, clientVars, repl_set_name, found_hosts>>

\* after an overrun the switch has no case for con_type: the request fails, and
\* nothing changes
GetConnection ==
    /\ pc = "idle" /\ ~Overrun
    /\ pc' = "seeds"
    /\ dont' \in BOOLEAN
    /\ i' = 1
    /\ connected' = FALSE
    /\ chosen' = NULL
    /\ UNCHANGED <<pool, pid, primary, clientVars, repl_set_name, found_hosts>>

\* the local variables of the call are gone
Return ==
    /\ pc' = "idle"
    /\ dont' = FALSE
    /\ i' = 1
    /\ connected' = FALSE
    /\ repl_set_name' = None
    /\ found_hosts' = {}

\* the next worker starts without connections
WorkerLost ==
    /\ Return
    /\ chosen' = NULL
    /\ pool' = << >>
    /\ servers' = Definitions(client)
    /\ setName' = client.set
    /\ UNCHANGED <<pid, primary, client>>

-----------------------------------------------------------------------------
(* mongo_get_connection_single for every server of the list *)

AtSeed == pc = "seeds" /\ i <= Len(servers)

NextSeed(con) ==
    /\ i' = i + 1
    /\ connected' = (connected \/ con)
    /\ UNCHANGED <<pid, primary, clientVars, pc, dont, repl_set_name, found_hosts, chosen>>

\* DONT_CONNECT only looks the connection up; otherwise it is pinged, unless
\* that was done within the ping interval
SeedFound ==
    /\ AtSeed
    /\ Registered(Hash(servers[i]))
    /\ dont \/ ~pool[Hash(servers[i])].pingDue
    /\ UNCHANGED pool
    /\ NextSeed(TRUE)

SeedNotFound ==
    /\ AtSeed
    /\ dont /\ ~Registered(Hash(servers[i]))
    /\ UNCHANGED pool
    /\ NextSeed(FALSE)

SeedPinged ==
    LET h == Hash(servers[i]) IN
    /\ AtSeed
    /\ ~dont /\ Registered(h)
    /\ pool[h].pingDue
    /\ \/ pool' = [pool EXCEPT ![h].pingDue = FALSE] /\ NextSeed(TRUE)
       \/ pool' = Without(h) /\ NextSeed(FALSE)

SeedConnects ==
    LET h == Hash(servers[i]) IN
    /\ AtSeed
    /\ ~dont /\ ~Registered(h)
    /\ \/ \E con \in Created(h) : pool' = With(h, con) /\ NextSeed(TRUE)
       \/ UNCHANGED pool /\ NextSeed(FALSE)

SeedsDone ==
    /\ pc = "seeds"
    /\ i > Len(servers)
    /\ \/ dont /\ ~connected /\ Return
       \/ /\ dont => connected
          /\ i' = 1
          /\ repl_set_name' = setName
          /\ pc' = IF client.replset THEN "discover" ELSE "pick"
          /\ connected' = FALSE
          /\ dont' = FALSE
          /\ UNCHANGED found_hosts
    /\ UNCHANGED <<pool, pid, primary, clientVars, chosen>>

-----------------------------------------------------------------------------
(* mongo_discover_topology *)

AtServer == pc = "discover" /\ i <= Len(servers)

Con == Hash(servers[i])

\* not connected, or asked within the ismaster interval
DiscoverSkips ==
    /\ AtServer
    /\ Registered(Con) => ~pool[Con].ismasterDue
    /\ i' = i + 1
    /\ UNCHANGED <<pool, pid, primary, clientVars, pc, dont, connected, repl_set_name,
                   found_hosts, chosen>>

IsMasterDue == AtServer /\ Registered(Con) /\ pool[Con].ismasterDue

IsMasterFails ==
    /\ IsMasterDue
    /\ pool' = Without(Con)
    /\ i' = i + 1
    /\ UNCHANGED <<pid, primary, clientVars, pc, dont, connected, repl_set_name,
                   found_hosts, chosen>>

\* the server's own name replaces the one it was reached under, before anything
\* else of the reply is looked at; a reply without "me" changes nothing
Renamed(def) == IF SetOf[def.host] = None THEN def ELSE [def EXCEPT !.host = Me[def.host]]

\* a definition without a set name gets the one found
Named(def, set) == IF def.set = None THEN [def EXCEPT !.set = set] ELSE def

NoSet(host) == SetOf[host] = None

\* no setName, or not the one expected
WrongSet(host) == SetOf[host] = None \/ repl_set_name \notin {None, SetOf[host]}

IsMasterWrongSet ==
    /\ IsMasterDue
    /\ WrongSet(servers[i].host)
    /\ pool' = Without(Con)
    /\ servers' = [servers EXCEPT ![i] = Renamed(servers[i])]
    /\ i' = i + 1
    /\ UNCHANGED <<pid, primary, client, setName, pc, dont, connected, repl_set_name,
                   found_hosts, chosen>>

\* a member that is not primary is a secondary or, while it recovers, nothing
\* (arbiters are not among the hosts of a set)
TypesAnnounced(host) ==
    IF Me[host] = primary THEN {PRIMARY} ELSE {SECONDARY, INVALID}

Members(set) == {h \in Hosts : SetOf[h] = set /\ Me[h] = h}

\* results 1 and 3 of mongo_connection_ismaster; with 3 the seed's connection goes
IsMasterReply ==
    LET host == servers[i].host
        set  == SetOf[host]
    IN  /\ IsMasterDue
        /\ ~WrongSet(host)
        /\ repl_set_name' = set
        /\ setName' = IF setName = None THEN set ELSE setName
        /\ servers' = [servers EXCEPT ![i] = Named(Renamed(servers[i]), set)]
        /\ IF Me[host] = host
           THEN \E type \in TypesAnnounced(host) :
                  pool' = [pool EXCEPT ![Con].type = type, ![Con].ismasterDue = FALSE]
           ELSE pool' = Without(Con)
        /\ found_hosts' = Members(set)
        /\ pc' = "hosts"
        /\ UNCHANGED <<pid, primary, client, dont, i, connected, chosen>>

FoundUnnamed(host) == [host |-> host, set |-> client.set]

\* tmp_def: everything but the address from the server that named the host
Found(host) == [host |-> host, set |-> servers[i].set]

HostKnown ==
    /\ pc = "hosts"
    /\ \E host \in found_hosts :
         /\ Registered(Hash(Found(host)))
         /\ found_hosts' = found_hosts \ {host}
    /\ UNCHANGED <<pool, pid, primary, clientVars, pc, dont, i, connected, repl_set_name, chosen>>

\* appended without a look at the length of the array
HostConnects ==
    /\ pc = "hosts"
    /\ \E host \in found_hosts :
         LET h == Hash(Found(host)) IN
         /\ ~Registered(h)
         /\ \E con \in Created(h) : pool' = With(h, con)
         /\ servers' = Append(servers, Found(host))
         /\ found_hosts' = found_hosts \ {host}
    /\ UNCHANGED <<pid, primary, client, setName, pc, dont, i, connected, repl_set_name, chosen>>

HostConnectFails ==
    /\ pc = "hosts"
    /\ \E host \in found_hosts :
         /\ ~Registered(Hash(Found(host)))
         /\ found_hosts' = found_hosts \ {host}
    /\ UNCHANGED <<pool, pid, primary, clientVars, pc, dont, i, connected, repl_set_name, chosen>>

HostsDone ==
    /\ pc = "hosts"
    /\ found_hosts = {}
    /\ pc' = "discover"
    /\ i' = i + 1
    /\ UNCHANGED <<pool, pid, primary, clientVars, dont, connected, repl_set_name,
                   found_hosts, chosen>>

DiscoverDone ==
    /\ pc = "discover"
    /\ i > Len(servers)
    /\ pc' = "pick"
    /\ i' = 1
    /\ UNCHANGED <<pool, pid, primary, clientVars, dont, connected, repl_set_name,
                   found_hosts, chosen>>

-----------------------------------------------------------------------------
(* The choice.  A write looks for candidates with the mode primary, and a   *)
(* MULTIPLE client with nearest and no tag sets; sorting and picking use    *)
(* the client's own preference all the same.                                *)

CandidateMode(write, mode) ==
    IF ~client.replset THEN "nearest" ELSE IF write THEN "primary" ELSE mode

Candidates(write, mode, pings) ==
    OwnCandidates(Seen(pings), CandidateMode(write, mode), pid, client.replset /\ ~Overrun,
                  setName, {Hash(servers[n]) : n \in 1..Len(servers)})

OfType(cands, type) == {c \in cands : c.type = type}

\* the least ping of some connections, MaxPing if there are none
LeastPing(cands) ==
    LET pings == {c.ping : c \in cands} \cup {MaxPing}
    IN  CHOOSE p \in pings : \A q \in pings : p <= q

\* what the properties say of a choice: the connection, and from what it was chosen
Choice(con, cands, mode) ==
    [hash |-> con.hash, type |-> con.type, ping |-> con.ping, mode |-> mode,
     nearest |-> LeastPing(cands), nearestSecondary |-> LeastPing(OfType(cands, SECONDARY)),
     primaries |-> Cardinality(OfType(cands, PRIMARY))]

Pick ==
    /\ pc = "pick"
    /\ \E write \in BOOLEAN, mode \in Modes, pings \in [Own -> Pings],
          tagsets \in IF client.replset THEN TagSets ELSE {<<>>} :
         LET all   == Candidates(write, mode, pings)
             cands == FindCandidates(all, client.cred, tagsets)
         IN  /\ ~CredentialsCrash(all, client.cred)
             /\ IF cands = {} THEN chosen' = NULL
                ELSE \E con \in Pickable(cands, mode) :
                       chosen' = Choice(con, cands, mode)
    /\ Return
    /\ UNCHANGED <<pool, pid, primary, clientVars>>

\* strcmp with the NULL database of a hash without credentials
PickCrashes ==
    /\ pc = "pick"
    /\ \E write \in BOOLEAN, mode \in Modes :
         CredentialsCrash(Candidates(write, mode, [k \in Own |-> 0]), client.cred)
    /\ WorkerLost

\* Writing past the array is undefined, and what is written there is used later: the
\* set name is freed with the client, the timeouts are waited for.  The worker goes on
\* or is lost, at any moment from then on.
OverrunCrashes == Overrun /\ WorkerLost

-----------------------------------------------------------------------------
(* Everything else *)

\* the set elects a member, or loses its primary
Elect ==
    /\ primary' \in {None} \cup Electable
    /\ primary' # primary
    /\ chosen' = NULL
    /\ UNCHANGED <<pool, pid, clientVars, pc, dont, i, connected, repl_set_name, found_hosts>>

\* ping_interval, and ismaster_interval, pass
Elapse ==
    /\ \E long \in BOOLEAN :
         pool' = [k \in DOMAIN pool |->
                    [pool[k] EXCEPT !.pingDue = TRUE, !.ismasterDue = @ \/ long]]
    /\ pool' # pool
    /\ chosen' = NULL
    /\ UNCHANGED <<pid, primary, clientVars, pc, dont, i, connected, repl_set_name, found_hosts>>

\* the script goes on in a child, with the connections of its parent
Fork ==
    /\ pc = "idle"
    /\ \E p \in Pids : p > pid /\ pid' = p
    /\ chosen' = NULL
    /\ UNCHANGED <<pool, primary, clientVars, pc, dont, i, connected, repl_set_name, found_hosts>>

Step ==
    \/ SeedFound \/ SeedNotFound \/ SeedPinged \/ SeedConnects \/ SeedsDone
    \/ DiscoverSkips \/ IsMasterFails \/ IsMasterWrongSet \/ IsMasterReply
    \/ HostKnown \/ HostConnects \/ HostConnectFails \/ HostsDone \/ DiscoverDone
    \/ Pick \/ PickCrashes \/ OverrunCrashes

Next == NewClient \/ GetConnection \/ Step \/ Elect \/ Elapse \/ Fork

Spec == Init /\ [][Next]_vars


-----------------------------------------------------------------------------
(* Properties *)

Hashes == [host : Hosts, set : {SetOf[h] : h \in Hosts} \cup {c.set : c \in Clients},
           cred : {c.cred : c \in Clients}, pid : Pids]

\* The variables have their types: hashes lead to connections of known kinds, the
\* loops stay within the list of servers.
TypeOK ==
    /\ DOMAIN pool \subseteq Hashes
    /\ \A h \in DOMAIN pool :
         /\ pool[h].type \in {INVALID, STANDALONE, PRIMARY, SECONDARY, ARBITER, MONGOS}
         /\ {pool[h].pingDue, pool[h].ismasterDue} \subseteq BOOLEAN
    /\ pid \in Pids
    /\ client \in Clients
    /\ \A n \in 1..Len(servers) : servers[n].host \in Hosts
    /\ pc \in {"idle", "seeds", "discover", "hosts", "pick"}
    /\ i \in 1..Len(servers) + 1
    /\ found_hosts \subseteq Hosts

\* Whatever a replica-set client is given is a server that was asked who it is,
\* under the name it gives itself, and a member of the set the client was
\* constructed for or adopted: a seed that is an alias, a standalone or a member
\* of another set never gets through, whichever connections earlier clients of
\* the worker left in the pool.  (Not so once the list has outgrown its array:
\* candidates are then no longer compared with the set.)
ChosenIsVerified ==
    chosen # NULL /\ client.replset /\ ~Overrun =>
        LET host == chosen.hash.host IN
        /\ Me[host] = host
        /\ chosen.type # STANDALONE
        /\ SetOf[host] # None
        /\ setName # None => SetOf[host] = setName

\* no other one of these is more than the cutoff nearer
WithinCutoff(nearest) == chosen.ping <= nearest + CUTOFF

\* The chain of sorting, nearest_ping and picking gives what the read preference
\* promises: with primaryPreferred the primary if there is one, with
\* secondaryPreferred a secondary if there is one (and one primary at most), and
\* otherwise only servers within the cutoff of the nearest that qualifies.
PickMeetsPreference ==
    chosen # NULL /\ client.replset =>
        CASE chosen.mode = "primaryPreferred" /\ chosen.primaries > 0 ->
               chosen.type = PRIMARY
          [] chosen.mode = "secondaryPreferred" /\ chosen.nearestSecondary < MaxPing
             /\ chosen.primaries <= 1 ->
               chosen.type = SECONDARY /\ WithinCutoff(chosen.nearestSecondary)
          [] OTHER ->
               chosen.mode # "secondaryPreferred" => WithinCutoff(chosen.nearest)


\* What is left to do in mongo_discover_topology: servers not asked yet and members
\* that are not connected (all hosts, before a set name is known).
Unconnected ==
    IF repl_set_name = None THEN Hosts
    ELSE {h \in Members(repl_set_name) : ~Registered(Hash([host |-> h, set |-> repl_set_name]))}

Unasked == Len(servers) - i + (IF pc = "discover" THEN 1 ELSE 0)

Measure == << Unasked + Cardinality(Unconnected),
              IF pc = "hosts" THEN 1 ELSE 0,
              IF pc = "hosts" THEN Cardinality(found_hosts) ELSE Unasked >>

Smaller(m, n) ==
    \/ m[1] < n[1]
    \/ m[1] = n[1] /\ m[2] < n[2]
    \/ m[1] = n[1] /\ m[2] = n[2] /\ m[3] < n[3]

Discovering == pc \in {"discover", "hosts"}

\* Discovery goes through a list that it extends while it goes, and fails and
\* reconnects members on the way.  It ends all the same, whatever the servers
\* answer: every step of it makes the measure smaller, as a host is appended only
\* when it was not connected, and is connected then.
DiscoveryEnds ==
    [][Discovering /\ Discovering' /\ ~Elect /\ ~Elapse => Smaller(Measure', Measure)]_vars
=============================================================================
