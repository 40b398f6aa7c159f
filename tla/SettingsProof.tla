--------------------------- MODULE SettingsProof ---------------------------
(***************************************************************************)
(* Credentials and preferences stay where they were given, for any number  *)
(* of servers, databases, options and setter calls.                        *)
(*                                                                         *)
(* The first part says what the operations on one list of servers keep:    *)
(* it is typed, short enough, and its servers agree.  The second part puts *)
(* the lists of a client and its clones, the waiting call and the cursor   *)
(* into an inductive invariant.                                            *)
(***************************************************************************)
EXTENDS Settings, SequenceTheorems, TLAPS

Values ==
    UrlUsers \cup Users \cup Names \cup {o.value : o \in Options} \cup {"secret", "admin", NULL}

Defs == [user : Values, pass : Values, db : Values]

Lists == [servers : Seq(Defs), replset : BOOLEAN, pref : Preferences]

\* A user has a database.
Placed(def) == def.user # NULL => def.db # NULL

Agree(servers) ==
    \A n \in DOMAIN servers : servers[n] = servers[1] /\ Placed(servers[n])

\* What holds of one list.
Good(l) ==
    /\ l \in Lists
    /\ Len(l.servers) <= MaxServers + MaxSeeds
    /\ Agree(l.servers)

\* Rewriting every server in the same way.
LEMMA Rewritten ==
  ASSUME SettingsAssumption, NEW l, Good(l), NEW f,
         DOMAIN f = DOMAIN l.servers,
         \A n \in DOMAIN l.servers : f[n] \in Defs /\ f[n] = f[1] /\ Placed(f[n]),
         f \in [DOMAIN l.servers -> Defs]
  PROVE  /\ Good([l EXCEPT !.servers = f])
         /\ Len(f) = Len(l.servers)
<1>1. l.servers \in Seq(Defs) /\ Len(l.servers) \in Nat /\ DOMAIN l.servers = 1..Len(l.servers)
  BY LenProperties DEF Good, Lists
<1>2. f \in Seq(Defs) /\ Len(f) = Len(l.servers)
  BY <1>1
<1> QED BY <1>1, <1>2 DEF Good, Lists, Agree

\* Giving all servers the same credentials.
LEMMA GoodAll ==
  ASSUME SettingsAssumption, NEW l, Good(l), NEW def \in Defs, Placed(def)
  PROVE  /\ Good(All(l, def))
         /\ Len(All(l, def).servers) = Len(l.servers)
         /\ All(l, def).pref = l.pref
         /\ \A n \in DOMAIN All(l, def).servers : All(l, def).servers[n] = def
<1> DEFINE f == [n \in DOMAIN l.servers |-> def]
<1>1. 1 \in DOMAIN l.servers \/ DOMAIN l.servers = {}
  <2>1. Len(l.servers) \in Nat /\ DOMAIN l.servers = 1..Len(l.servers)
    BY LenProperties DEF Good, Lists
  <2> QED BY <2>1
<1>2. Good([l EXCEPT !.servers = f]) /\ Len(f) = Len(l.servers)
  BY <1>1, Rewritten
<1> QED BY <1>2 DEF All, Good, Lists

LEMMA NoneIsPlaced ==
  ASSUME SettingsAssumption
  PROVE  NoCredentials \in Defs /\ Placed(NoCredentials)
BY DEF NoCredentials, Defs, Values, Placed

\* Changing the preference.
LEMMA GoodPref ==
  ASSUME NEW l, Good(l), NEW p \in Preferences
  PROVE  /\ Good([l EXCEPT !.pref = p])
         /\ [l EXCEPT !.pref = p].servers = l.servers
         /\ [l EXCEPT !.pref = p].pref = p
BY DEF Good, Lists

\* Adding a server like one that is there.
LEMMA GoodAppend ==
  ASSUME SettingsAssumption, NEW l, Good(l), Len(l.servers) < MaxServers,
         NEW n \in DOMAIN l.servers
  PROVE  LET m == [l EXCEPT !.servers = Append(@, @[n])] IN
         /\ Good(m)
         /\ Len(m.servers) = Len(l.servers) + 1
         /\ m.pref = l.pref
<1> DEFINE s == l.servers
           t == Append(s, s[n])
<1>1. s \in Seq(Defs) /\ Len(s) \in Nat /\ DOMAIN s = 1..Len(s) /\ s[n] \in Defs
  BY LenProperties, ElementOfSeq DEF Good, Lists
<1>2. t \in Seq(Defs) /\ Len(t) = Len(s) + 1 /\ DOMAIN t = 1..(Len(s) + 1)
  BY <1>1
<1>3. \A m \in DOMAIN t : t[m] = IF m \in DOMAIN s THEN s[m] ELSE s[n]
  BY <1>1, <1>2
<1>4. 1 \in DOMAIN s
  BY <1>1
<1>5. Agree(t)
  BY <1>2, <1>3, <1>4 DEF Good, Agree
<1>6. Len(t) <= MaxServers + MaxSeeds
  BY <1>1, <1>2 DEF SettingsAssumption
<1> HIDE DEF t
<1>7. Good([l EXCEPT !.servers = t])
  BY <1>2, <1>5, <1>6 DEF Good, Lists
<1> QED BY <1>2, <1>7 DEF Good, Lists, t

LEMMA GoodBlank == SettingsAssumption => Good(Blank) /\ Blank.servers = <<>>
<1>1. ASSUME SettingsAssumption PROVE Blank \in Lists
  BY <1>1, EmptySeq DEF Blank, Lists, Default, Preferences, Types, SettingsAssumption
<1> QED BY <1>1, EmptySeq DEF Blank, Good, Agree, SettingsAssumption

\* Storing an option that is not refused.
LEMMA GoodStored ==
  ASSUME SettingsAssumption, NEW l, Good(l), NEW o \in Options, ~Refused(l, o)
  PROVE  /\ Good(Stored(l, o))
         /\ Len(Stored(l, o).servers) = Len(l.servers)
<1> DEFINE D == DOMAIN l.servers
<1>0. /\ D = 1..Len(l.servers) /\ Len(l.servers) \in Nat
      /\ \A n \in D : l.servers[n] \in Defs /\ l.servers[n] = l.servers[1] /\ Placed(l.servers[n])
      /\ D # {} => 1 \in D
  BY LenProperties, ElementOfSeq DEF Good, Lists, Agree
<1>1. o.value \in Values /\ o.value # NULL
  BY DEF Values, SettingsAssumption
<1>2. CASE o.name = "replicaSet"
  BY <1>2 DEF Stored, Good, Lists
<1>3. CASE o.name = "username"
  <2> DEFINE f == [n \in D |-> UserStored(l.servers[n], o.value)]
  <2>1. \A n \in D : UserStored(l.servers[n], o.value) \in Defs
    BY <1>0, <1>1 DEF UserStored, Defs, Values
  <2>2. \A n \in D : Placed(UserStored(l.servers[n], o.value))
    BY <1>0, <1>1 DEF UserStored, Placed, Defs, SettingsAssumption
  <2>3. \A n \in D : f[n] = f[1]
    BY <1>0
  <2>4. Good([l EXCEPT !.servers = f]) /\ Len(f) = Len(l.servers)
    BY <2>1, <2>2, <2>3, Rewritten
  <2> QED BY <1>3, <2>4 DEF Stored, Good, Lists
<1>4. CASE o.name = "password"
  <2> DEFINE g(d) == [d EXCEPT !.pass = o.value]
             f == [n \in D |-> [l.servers[n] EXCEPT !.pass = o.value]]
  <2>1. \A n \in D : f[n] \in Defs /\ Placed(f[n])
    BY <1>0, <1>1 DEF Defs, Placed
  <2>3. \A n \in D : f[n] = f[1]
    BY <1>0
  <2>4. Good([l EXCEPT !.servers = f]) /\ Len(f) = Len(l.servers)
    BY <2>1, <2>3, Rewritten
  <2> QED BY <1>4, <2>4 DEF Stored, Good, Lists
<1>5. CASE o.name = "db"
  <2> DEFINE f == [n \in D |-> [l.servers[n] EXCEPT !.db = o.value]]
  <2>1. \A n \in D : f[n] \in Defs /\ Placed(f[n])
    BY <1>0, <1>1 DEF Defs, Placed
  <2>3. \A n \in D : f[n] = f[1]
    BY <1>0
  <2>4. Good([l EXCEPT !.servers = f]) /\ Len(f) = Len(l.servers)
    BY <2>1, <2>3, Rewritten
  <2> QED BY <1>5, <2>4 DEF Stored, Good, Lists
<1>6. CASE o.name = "slaveOkay"
  BY <1>6 DEF Stored, Good, Lists, Preferences, Types
<1>7. CASE o.name = "readPreference"
  <2>1. o.value \in Types
    BY <1>7 DEF Refused
  <2> QED BY <1>7, <2>1 DEF Stored, Good, Lists, Preferences
<1>8. CASE o.name = "readPreferenceTags"
  BY <1>8 DEF Stored, Good, Lists, Preferences, SettingsAssumption
<1>9. CASE o.name \notin {"replicaSet", "username", "password", "db", "slaveOkay",
                          "readPreference", "readPreferenceTags"}
  BY <1>9 DEF Stored
<1> QED BY <1>2, <1>3, <1>4, <1>5, <1>6, <1>7, <1>8, <1>9

-----------------------------------------------------------------------------
(* The inductive invariant *)

Databases == [link : Links, pref : Preferences]

Collections == [kind : {"collection"}, link : Links, pref : Preferences]

Cursors ==
    [kind : {"cursor"}, link : Links, pref : Preferences, slaveOkay : BOOLEAN, started : BOOLEAN]

\* The script's objects and what the constructor is told.
Objects ==
    /\ pc \in {"new", "url", "options", "idle", "connecting"}
    /\ static \in BOOLEAN
    /\ url \in [user : UrlUsers \cup {NULL}, db : Names \cup {NULL}]
    /\ dbs \in [Names -> Databases \cup {NULL}]
    /\ x \in Collections \cup Cursors \cup {NULL}

LinksGood ==
    /\ links \in [Links -> Lists]
    /\ own \in [Links -> Preferences]
    /\ \A l \in Links : Good(links[l])
    /\ pc # "new" => Len(links[Main].servers) > 0

Queries == call.kind = "query"

\* What is waited for.
CallGood ==
    /\ pc = "connecting" => call \in Calls
    /\ pc # "connecting" => call = NULL
    /\ pc = "connecting" /\ call.kind = "construct" => call.on = Main

\* The preference a list has when the waiting call is done.
Due(l) == IF pc = "connecting" /\ Queries /\ call.on = l THEN call.rp ELSE links[l].pref

\* Once the client is constructed, all lists in use will have their own.
Kept ==
    \A l \in Links :
        /\ links[l].servers # <<>>
        /\ l # Main \/ pc \in {"idle", "connecting"}
        => Due(l) = own[l]

IInv == Objects /\ LinksGood /\ CallGood /\ Kept

LEMMA NonEmpty ==
  ASSUME NEW l \in Lists
  PROVE  /\ l.servers # <<>> <=> Len(l.servers) > 0
         /\ Len(l.servers) \in Nat
         /\ DOMAIN l.servers = 1..Len(l.servers)
BY LenProperties, EmptySeq DEF Lists

\* One list is replaced by a good one of its length, and its preference stays.
LEMMA Replaced ==
  ASSUME SettingsAssumption, LinksGood, NEW k \in Links, NEW m, Good(m),
         links' = [links EXCEPT ![k] = m], pc' # "new" => Len(m.servers) > 0 \/ k # Main,
         pc # "new" \/ pc' = "new" \/ k = Main, own' \in [Links -> Preferences]
  PROVE  LinksGood'
<1>1. m \in Lists
  BY DEF Good
<1>2. links' \in [Links -> Lists]
  BY <1>1 DEF LinksGood
<1>3. \A l \in Links : links'[l] = IF l = k THEN m ELSE links[l]
  BY DEF LinksGood
<1>4. \A l \in Links : Good(links'[l])
  BY <1>3 DEF LinksGood
<1>5. \A l \in Links : Good(links[l])'
  BY <1>4 DEF Good, Lists, Agree, Placed, Defs, Values, Preferences, Types
<1>6. (pc # "new" => Len(links[Main].servers) > 0)'
  BY <1>3 DEF LinksGood, SettingsAssumption
<1>7. (links \in [Links -> Lists])'
  BY <1>2 DEF Lists, Defs, Values, Preferences, Types
<1> QED BY <1>5, <1>6, <1>7 DEF LinksGood, Preferences, Types

\* Neither the lists nor what they were given change.
LEMMA Untouched ==
  ASSUME LinksGood, UNCHANGED <<links, own>>, pc' # "new" => pc # "new"
  PROVE  LinksGood'
BY DEF LinksGood, Good, Lists, Agree, Placed, Defs, Values, Preferences, Types

LEMMA ListsOf ==
  ASSUME IInv, NEW l \in Links
  PROVE  /\ links[l] \in Lists
         /\ Good(links[l])
         /\ links[l].pref \in Preferences
         /\ own[l] \in Preferences
BY DEF IInv, LinksGood, Lists

\* The same, with the waiting call and the cursor.
LEMMA AllUntouched ==
  ASSUME IInv, UNCHANGED <<pc, call, links, own>>, Objects', pc # "connecting"
  PROVE  IInv'
<1>1. LinksGood'
  BY Untouched DEF IInv
<1>2. CallGood'
  BY DEF IInv, CallGood
<1>3. Kept'
  BY DEF IInv, Kept, Due
<1> QED BY <1>1, <1>2, <1>3 DEF IInv

LEMMA InitInv ==
  ASSUME SettingsAssumption, Init
  PROVE  IInv
<1>1. Objects
  BY DEF Init, Objects, NoUrl
<1>2. Default \in Preferences
  BY DEF Default, Preferences, Types, SettingsAssumption
<1>3. LinksGood
  BY <1>2, GoodBlank DEF Init, LinksGood, Good
<1>4. CallGood
  BY DEF Init, CallGood
<1>5. Kept
  BY GoodBlank DEF Init, Kept
<1> QED BY <1>1, <1>3, <1>4, <1>5 DEF IInv

LEMMA ParseHostsInv ==
  ASSUME SettingsAssumption, IInv, ParseHosts
  PROVE  IInv'
<1>1. PICK seeds \in 1..MaxSeeds, user \in UrlUsers \cup {NULL}, db \in Names \cup {NULL} :
        /\ url' = [user |-> user, db |-> db]
        /\ links' = [links EXCEPT ![Main].servers = [n \in 1..seeds |-> NoCredentials]]
  BY DEF ParseHosts
<1> DEFINE f == [n \in 1..seeds |-> NoCredentials]
           m == [links[Main] EXCEPT !.servers = f]
<1>2. Main \in Links /\ seeds \in Nat /\ seeds > 0 /\ seeds <= MaxServers + MaxSeeds
  BY DEF SettingsAssumption
<1>3. f \in Seq(Defs) /\ Len(f) = seeds /\ DOMAIN f = 1..seeds
  BY <1>2, NoneIsPlaced
<1>4. Agree(f)
  BY <1>2, NoneIsPlaced DEF Agree
<1>5. links[Main] \in Lists
  BY <1>2, ListsOf
<1> HIDE DEF f
<1>6. Good(m) /\ Len(m.servers) > 0
  BY <1>2, <1>3, <1>4, <1>5 DEF Good, Lists
<1>7. links' = [links EXCEPT ![Main] = m]
  BY <1>1, <1>2 DEF f, IInv, LinksGood
<1>8. LinksGood'
  BY <1>2, <1>6, <1>7, Replaced DEF ParseHosts, IInv, LinksGood
<1>9. Objects'
  BY <1>1 DEF ParseHosts, IInv, Objects
<1>10. CallGood'
  BY DEF ParseHosts, IInv, CallGood
<1>11. Kept'
  BY <1>7 DEF ParseHosts, IInv, Kept, Due, LinksGood
<1> QED BY <1>8, <1>9, <1>10, <1>11 DEF IInv

\* An exception in the constructor.
LEMMA ThrowInv ==
  ASSUME SettingsAssumption, IInv, Throw, UNCHANGED <<static, dbs, x, own>>, call' = NULL,
         pc = "connecting" => call.kind = "construct"
  PROVE  IInv'
<1>1. Main \in Links
  BY DEF SettingsAssumption
<1>2. links' = [links EXCEPT ![Main] = Blank] /\ pc' = "new" /\ url' = NoUrl
  BY DEF Throw
<1>3. LinksGood'
  BY <1>1, <1>2, GoodBlank, Replaced DEF IInv, LinksGood
<1>4. Objects'
  BY <1>2 DEF IInv, Objects, NoUrl
<1>5. CallGood'
  BY <1>2 DEF CallGood
<1>6. Kept'
  BY <1>2 DEF IInv, Kept, Due, Queries, LinksGood
<1> QED BY <1>3, <1>4, <1>5, <1>6 DEF IInv

LEMMA GiveOptionInv ==
  ASSUME SettingsAssumption, IInv, GiveOption
  PROVE  IInv'
<1>0. /\ Main \in Links
      /\ Good(links[Main])
      /\ links[Main] \in Lists
      /\ pc \in {"url", "options"}
      /\ call = NULL
  BY ListsOf DEF GiveOption, SettingsAssumption, IInv, CallGood
<1>1. PICK o \in Options :
        IF Refused(links[Main], o) THEN Throw
        ELSE /\ links' = [links EXCEPT ![Main] = Stored(links[Main], o)]
             /\ options' = options + 1
             /\ UNCHANGED <<pc, url>>
  BY DEF GiveOption
<1>2. CASE Refused(links[Main], o)
  BY <1>0, <1>1, <1>2, ThrowInv DEF GiveOption
<1>3. CASE ~Refused(links[Main], o)
  <2> DEFINE m == Stored(links[Main], o)
  <2>1. Good(m) /\ Len(m.servers) = Len(links[Main].servers)
    BY <1>0, <1>3, GoodStored
  <2> HIDE DEF m
  <2>2. links' = [links EXCEPT ![Main] = m]
    BY <1>1, <1>3 DEF m
  <2>3. LinksGood'
    BY <1>0, <1>1, <1>3, <2>1, <2>2, Replaced DEF IInv, LinksGood, GiveOption
  <2>4. Objects'
    BY <1>1, <1>3 DEF IInv, Objects, GiveOption
  <2>5. CallGood'
    BY <1>0, <1>1, <1>3 DEF IInv, CallGood, GiveOption
  <2>6. Kept'
    BY <1>0, <1>1, <1>3, <2>2 DEF IInv, Kept, Due, LinksGood, GiveOption
  <2> QED BY <2>3, <2>4, <2>5, <2>6 DEF IInv
<1> QED BY <1>2, <1>3

LEMMA UrlDoneInv ==
  ASSUME SettingsAssumption, IInv, UrlDone
  PROVE  IInv'
<1>0. /\ Main \in Links
      /\ Good(links[Main])
      /\ links[Main] \in Lists
      /\ call = NULL
  BY ListsOf DEF UrlDone, SettingsAssumption, IInv, CallGood
<1>1. UrlCredentials \in Defs /\ Placed(UrlCredentials)
  BY DEF UrlCredentials, Defs, Values, Placed, IInv, Objects, SettingsAssumption
<1> DEFINE m == All(links[Main], UrlCredentials)
<1>2. Good(m) /\ Len(m.servers) = Len(links[Main].servers)
  BY <1>0, <1>1, GoodAll
<1>3. links' = [links EXCEPT ![Main] = m]
  BY DEF UrlDone
<1> HIDE DEF m
<1>4. LinksGood'
  BY <1>0, <1>2, <1>3, Replaced DEF IInv, LinksGood, UrlDone
<1>5. Objects'
  BY DEF IInv, Objects, UrlDone, NoUrl
<1>6. CallGood'
  BY <1>0 DEF IInv, CallGood, UrlDone
<1>7. Kept'
  BY <1>0, <1>3 DEF IInv, Kept, Due, LinksGood, UrlDone
<1> QED BY <1>4, <1>5, <1>6, <1>7 DEF IInv

LEMMA ConstructInv ==
  ASSUME SettingsAssumption, NULLAssumption, IInv, Construct
  PROVE  IInv'
<1>0. /\ Main \in Links
      /\ Good(links[Main])
      /\ links[Main] \in Lists
      /\ links[Main].pref \in Preferences
      /\ call = NULL /\ pc = "options"
  BY ListsOf DEF Construct, SettingsAssumption, IInv, CallGood
<1>1. CASE static /\ links[Main].pref.type # "primary"
  BY <1>0, <1>1, ThrowInv DEF Construct
<1>2. CASE ~(static /\ links[Main].pref.type # "primary")
  <2> DEFINE p == Raised(links[Main].pref)
             m == [links[Main] EXCEPT !.pref = p]
  <2>1. p \in Preferences
    BY <1>0 DEF Raised, Preferences, Types
  <2>2. /\ links' = [links EXCEPT ![Main] = m]
        /\ own' = [own EXCEPT ![Main] = p]
        /\ \/ pc' = "idle" /\ UNCHANGED call
           \/ pc' = "connecting" /\ call' = [kind |-> "construct", on |-> Main]
        /\ UNCHANGED <<static, url, dbs, x, sets>>
    BY <1>0, <1>2 DEF Construct, IInv, LinksGood
  <2> HIDE DEF p
  <2>3. Good(m) /\ m.servers = links[Main].servers /\ m.pref = p
    BY <1>0, <2>1, GoodPref
  <2> HIDE DEF m
  <2>4. own' \in [Links -> Preferences]
    BY <2>1, <2>2 DEF IInv, LinksGood
  <2>5. LinksGood'
    BY <1>0, <2>2, <2>3, <2>4, Replaced DEF IInv, LinksGood
  <2>6. Objects'
    BY <2>2 DEF IInv, Objects
  <2>7. CallGood'
    BY <1>0, <2>2 DEF IInv, CallGood, Calls, Queries
  <2>8. Kept'
    BY <1>0, <2>2, <2>3, <2>4 DEF IInv, Kept, Due, Queries, LinksGood
  <2> QED BY <2>5, <2>6, <2>7, <2>8 DEF IInv
<1> QED BY <1>1, <1>2

LEMMA DiscoverInv ==
  ASSUME SettingsAssumption, IInv, Discover
  PROVE  IInv'
<1>0. call \in Calls /\ call.on \in Links
  BY DEF Discover, IInv, CallGood, Calls
<1> DEFINE k == call.on
<1>1. Good(links[k]) /\ links[k] \in Lists
  BY <1>0, ListsOf
<1>2. PICK n \in DOMAIN links[k].servers :
        links' = [links EXCEPT ![k].servers = Append(@, @[n])]
  BY DEF Discover
<1> DEFINE m == [links[k] EXCEPT !.servers = Append(@, @[n])]
<1>3. /\ Good(m)
      /\ Len(m.servers) = Len(links[k].servers) + 1
      /\ m.pref = links[k].pref
  BY <1>1, GoodAppend DEF Discover
<1>4. links' = [links EXCEPT ![k] = m]
  BY <1>0, <1>2 DEF IInv, LinksGood
<1>5. m.servers # <<>> /\ links[k].servers # <<>> /\ Len(m.servers) > 0
  <2>1. m \in Lists
    BY <1>3 DEF Good
  <2>2. Len(links[k].servers) > 0 /\ Len(m.servers) > 0
    BY <1>1, <1>3, NonEmpty
  <2> QED BY <1>1, <2>1, <2>2, NonEmpty
<1> HIDE DEF m
<1>6. LinksGood'
  BY <1>0, <1>3, <1>4, <1>5, Replaced DEF IInv, LinksGood, Discover
<1>7. Objects'
  BY DEF IInv, Objects, Discover
<1>8. CallGood'
  BY DEF IInv, CallGood, Calls, Discover
<1>9. Kept'
  BY <1>0, <1>3, <1>4, <1>5 DEF IInv, Kept, Due, Queries, LinksGood, Discover
<1> QED BY <1>6, <1>7, <1>8, <1>9 DEF IInv

LEMMA ConnectInv ==
  ASSUME SettingsAssumption, IInv, Connect
  PROVE  IInv'
<1>1. LinksGood'
  BY Untouched DEF IInv, Connect
<1>2. Objects'
  BY DEF IInv, Objects, Connect
<1>3. CallGood'
  BY DEF IInv, CallGood, Calls, Queries, Connect, SettingsAssumption
<1>4. Kept'
  BY DEF IInv, Kept, Due, Queries, Connect
<1> QED BY <1>1, <1>2, <1>3, <1>4 DEF IInv

LEMMA ConnectedInv ==
  ASSUME SettingsAssumption, IInv, Connected
  PROVE  IInv'
<1>1. LinksGood'
  BY Untouched DEF IInv, Connected
<1>2. Objects'
  BY DEF IInv, Objects, Connected
<1>3. CallGood'
  BY DEF IInv, CallGood, Connected
<1>4. Kept'
  BY DEF IInv, Kept, Due, Queries, Connected
<1> QED BY <1>1, <1>2, <1>3, <1>4 DEF IInv

LEMMA ConnectFailsInv ==
  ASSUME SettingsAssumption, IInv, ConnectFails
  PROVE  IInv'
<1>1. CASE call.kind = "construct" /\ Throw
  BY <1>1, ThrowInv DEF ConnectFails
<1>2. CASE call.kind = "connect" /\ pc' = "idle" /\ UNCHANGED <<links, url, options>>
  <2>1. LinksGood'
    BY <1>2, Untouched DEF IInv, ConnectFails
  <2>2. Objects'
    BY <1>2 DEF IInv, Objects, ConnectFails
  <2>3. CallGood'
    BY <1>2 DEF IInv, CallGood, ConnectFails
  <2>4. Kept'
    BY <1>2 DEF IInv, Kept, Due, Queries, ConnectFails
  <2> QED BY <2>1, <2>2, <2>3, <2>4 DEF IInv
<1> QED BY <1>1, <1>2 DEF ConnectFails

\* All servers of a list are given the same, and nothing else of it changes.
LEMMA AllReplaced ==
  ASSUME SettingsAssumption, IInv, NEW k \in Links, NEW def \in Defs, Placed(def),
         links' = [links EXCEPT ![k] = All(links[k], def)],
         pc \in {"idle", "connecting"}, pc' \in {"idle", "connecting"}, own' = own
  PROVE  /\ LinksGood'
         /\ \A l \in Links : links'[l].pref = links[l].pref
         /\ \A l \in Links : links'[l].servers # <<>> => links[l].servers # <<>>
<1> DEFINE m == All(links[k], def)
<1>1. Good(links[k]) /\ links[k] \in Lists
  BY ListsOf
<1>2. Good(m) /\ Len(m.servers) = Len(links[k].servers) /\ m.pref = links[k].pref
  BY <1>1, GoodAll
<1>3. m.servers # <<>> => links[k].servers # <<>>
  <2>1. m \in Lists
    BY <1>2 DEF Good
  <2> QED BY <1>1, <1>2, <2>1, NonEmpty
<1> HIDE DEF m
<1>4. links' = [links EXCEPT ![k] = m]
  BY DEF m
<1>5. LinksGood'
  BY <1>2, <1>4, Replaced DEF IInv, LinksGood
<1>6. \A l \in Links : links'[l] = IF l = k THEN m ELSE links[l]
  BY <1>4 DEF IInv, LinksGood
<1> QED BY <1>2, <1>3, <1>5, <1>6

LEMMA AuthenticateInv ==
  ASSUME SettingsAssumption, NULLAssumption, IInv, NEW d \in Names, Authenticate(d)
  PROVE  IInv'
<1> DEFINE k == dbs[d].link
<1>0. k \in Links /\ pc = "idle" /\ call = NULL
  BY DEF Authenticate, IInv, Objects, Databases, CallGood
<1>1. PICK user \in Users :
        links' = [links EXCEPT ![k] = All(links[k], [user |-> user, pass |-> "secret", db |-> d])]
  BY DEF Authenticate
<1>2. /\ [user |-> user, pass |-> "secret", db |-> d] \in Defs
      /\ Placed([user |-> user, pass |-> "secret", db |-> d])
  BY DEF Defs, Values, Placed, SettingsAssumption
<1>3. /\ LinksGood'
      /\ \A l \in Links : links'[l].pref = links[l].pref
      /\ \A l \in Links : links'[l].servers # <<>> => links[l].servers # <<>>
  BY <1>0, <1>1, <1>2, AllReplaced DEF Authenticate
<1>4. Objects'
  BY DEF Authenticate, IInv, Objects
<1>5. CallGood'
  BY <1>0 DEF Authenticate, CallGood, Calls, Queries
<1>6. Kept'
  BY <1>0, <1>3 DEF Authenticate, IInv, Kept, Due, Queries
<1> QED BY <1>3, <1>4, <1>5, <1>6 DEF IInv

LEMMA AuthenticateFailsInv ==
  ASSUME SettingsAssumption, IInv, AuthenticateFails
  PROVE  IInv'
<1>0. call.on \in Links
  BY DEF AuthenticateFails, IInv, CallGood, Calls
<1>1. /\ LinksGood'
      /\ \A l \in Links : links'[l].pref = links[l].pref
      /\ \A l \in Links : links'[l].servers # <<>> => links[l].servers # <<>>
  BY <1>0, NoneIsPlaced, AllReplaced DEF AuthenticateFails, Cleared
<1>2. Objects'
  BY DEF AuthenticateFails, IInv, Objects
<1>3. CallGood'
  BY DEF AuthenticateFails, CallGood
<1>4. Kept'
  BY <1>1 DEF AuthenticateFails, IInv, Kept, Due, Queries
<1> QED BY <1>1, <1>2, <1>3, <1>4 DEF IInv

LEMMA SelectDBInv ==
  ASSUME SettingsAssumption, IInv, NEW d \in Names, SelectDB(d)
  PROVE  IInv'
<1>0. Main \in Links /\ Good(links[Main]) /\ links[Main].pref \in Preferences
      /\ own[Main] \in Preferences /\ links[Main] \in Lists
  BY ListsOf DEF SettingsAssumption
<1>1. CASE NeedsClone(First(links[Main]), d)
  <2>1. PICK k \in Unused :
          /\ links' = [links EXCEPT ![k] = Copied(links[Main])]
          /\ own' = [own EXCEPT ![k] = own[Main]]
          /\ dbs' = [dbs EXCEPT ![d] = DbObject(k, links[Main].pref)]
    BY <1>1 DEF SelectDB
  <2> DEFINE m == Copied(links[Main])
  <2>2. k \in Links /\ links[k].servers = <<>>
    BY DEF Unused
  <2>3. Good(m) /\ m.pref = links[Main].pref
    BY <1>0, NoneIsPlaced, GoodAll DEF Copied
  <2>4. k # Main
    BY <1>0, <2>2, NonEmpty DEF SelectDB, IInv, LinksGood
  <2> HIDE DEF m
  <2>5. links' = [links EXCEPT ![k] = m]
    BY <2>1 DEF m
  <2>6. own' \in [Links -> Preferences]
    BY <1>0, <2>1 DEF IInv, LinksGood
  <2>7. LinksGood'
    BY <2>2, <2>3, <2>4, <2>5, <2>6, Replaced DEF IInv, LinksGood, SelectDB
  <2>8. Objects'
    BY <1>0, <2>1, <2>2 DEF IInv, Objects, SelectDB, DbObject, Databases
  <2>9. CallGood'
    BY DEF IInv, CallGood, SelectDB
  <2>10. links[Main].pref = own[Main]
    BY <1>0, NonEmpty DEF IInv, LinksGood, Kept, Due, SelectDB
  <2>11. Kept'
    BY <1>0, <2>1, <2>2, <2>3, <2>5, <2>10 DEF IInv, Kept, Due, LinksGood, SelectDB
  <2> QED BY <2>7, <2>8, <2>9, <2>11 DEF IInv
<1>2. CASE ~NeedsClone(First(links[Main]), d)
  <2>1. Objects'
    BY <1>0, <1>2 DEF IInv, Objects, SelectDB, DbObject, Databases
  <2> QED BY <1>2, <2>1, AllUntouched DEF SelectDB
<1> QED BY <1>1, <1>2

\* Actions on databases, collections and cursors that leave the lists alone.
LEMMA ScriptInv ==
  ASSUME SettingsAssumption, IInv,
         \/ \E n \in Names : SelectCollection(n) \/ SetDB(n)
         \/ Find \/ NewCursor \/ SetCollection \/ SetCursor \/ SetFlag \/ SlaveOkay
         \/ SetStatic \/ Reset
  PROVE  IInv'
<1>0. /\ Main \in Links
      /\ Default \in Preferences
      /\ \A p \in Preferences : Raised(p) \in Preferences
      /\ \A p \in Preferences : Settable(p) \subseteq Preferences
  BY DEF SettingsAssumption, Default, Preferences, Types, Raised, Settable
<1>1. UNCHANGED <<pc, call, links, own, url>> /\ pc = "idle"
  BY DEF SelectCollection, SetDB, Find, NewCursor, SetCollection, SetCursor, SetFlag,
         SlaveOkay, SetStatic, Reset, Sets
<1>2. Objects'
  <2>1. ASSUME NEW n \in Names, SelectCollection(n) PROVE Objects'
    BY <2>1, <1>1 DEF SelectCollection, IInv, Objects, Databases, Collections
  <2>2. ASSUME NEW n \in Names, SetDB(n) PROVE Objects'
    BY <2>2, <1>0, <1>1 DEF SetDB, IInv, Objects, Databases
  <2>3. CASE Find
    BY <2>3, <1>0, <1>1 DEF Find, Cursor, IInv, Objects, Collections, Cursors
  <2>4. CASE NewCursor
    BY <2>4, <1>0, <1>1 DEF NewCursor, Cursor, IInv, Objects, Collections, Cursors
  <2>5. CASE SetCollection
    BY <2>5, <1>0, <1>1 DEF SetCollection, IInv, Objects, Collections, Cursors
  <2>6. CASE SetCursor
    BY <2>6, <1>0, <1>1 DEF SetCursor, IInv, Objects, Collections, Cursors
  <2>7. CASE SetFlag
    BY <2>7, <1>0, <1>1 DEF SetFlag, Fresh, IInv, Objects, Collections, Cursors
  <2>8. CASE SlaveOkay
    <3>1. x \in Cursors
      BY <2>8 DEF SlaveOkay, Fresh, IInv, Objects, Collections
    <3>2. PICK z \in BOOLEAN :
            x' = [x EXCEPT !.slaveOkay = z,
                           !.pref.type = IF ~z THEN "primary"
                                         ELSE IF @ = "primary" THEN "secondaryPreferred" ELSE @]
      BY <2>8 DEF SlaveOkay
    <3>3. \A type \in Types : [x.pref EXCEPT !.type = type] \in Preferences
      BY <3>1 DEF Cursors, Preferences
    <3>4. x.pref.type \in Types /\ {"primary", "secondaryPreferred"} \subseteq Types
      BY <3>1 DEF Cursors, Preferences, Types
    <3>5. x' \in Cursors
      BY <3>1, <3>2, <3>3, <3>4 DEF Cursors
    <3> QED BY <2>8, <3>5, <1>1 DEF SlaveOkay, IInv, Objects, Cursors
  <2>9. CASE SetStatic
    BY <2>9, <1>1 DEF SetStatic, IInv, Objects
  <2>10. CASE Reset
    BY <2>10, <1>1 DEF Reset, IInv, Objects, Collections, Cursors
  <2> QED BY <2>1, <2>2, <2>3, <2>4, <2>5, <2>6, <2>7, <2>8, <2>9, <2>10
<1> QED BY <1>1, <1>2, AllUntouched

LEMMA SetClientInv ==
  ASSUME SettingsAssumption, IInv, SetClient
  PROVE  IInv'
<1>0. /\ Main \in Links
      /\ Good(links[Main])
      /\ links[Main] \in Lists
      /\ links[Main].pref \in Preferences
  BY ListsOf DEF SettingsAssumption
<1>1. PICK p \in Settable(links[Main].pref) :
        /\ links' = [links EXCEPT ![Main].pref = p]
        /\ own' = [own EXCEPT ![Main] = p]
  BY DEF SetClient
<1>2. p \in Preferences
  BY <1>0 DEF Settable, Preferences, Types
<1> DEFINE m == [links[Main] EXCEPT !.pref = p]
<1>3. Good(m) /\ m.servers = links[Main].servers /\ m.pref = p
  BY <1>0, <1>2, GoodPref
<1>4. links' = [links EXCEPT ![Main] = m]
  BY <1>0, <1>1 DEF IInv, LinksGood
<1> HIDE DEF m
<1>5. own' \in [Links -> Preferences]
  BY <1>1, <1>2 DEF IInv, LinksGood
<1>6. LinksGood'
  BY <1>0, <1>3, <1>4, <1>5, Replaced DEF IInv, LinksGood, SetClient, Sets
<1>7. Objects'
  BY DEF IInv, Objects, SetClient
<1>8. CallGood'
  BY DEF IInv, CallGood, SetClient, Sets
<1>9. Kept'
  BY <1>0, <1>1, <1>3, <1>4 DEF IInv, Kept, Due, LinksGood, SetClient, Sets
<1> QED BY <1>6, <1>7, <1>8, <1>9 DEF IInv

\* A query puts the preference of its cursor in place of the client's.
LEMMA QueryInv ==
  ASSUME SettingsAssumption, NULLAssumption, IInv, Query
  PROVE  IInv'
<1>1. x \in Cursors /\ pc = "idle"
  BY DEF Query, Fresh, IInv, Objects, Collections
<1>2. x.link \in Links /\ x.pref \in Preferences
  BY <1>1 DEF Cursors
<1> DEFINE k == x.link
           m == [links[k] EXCEPT !.pref = x.pref]
<1>3. Good(links[k]) /\ links[k] \in Lists /\ links[k].pref \in Preferences
  BY <1>2, ListsOf
<1>4. Good(m) /\ m.servers = links[k].servers /\ m.pref = x.pref
  BY <1>2, <1>3, GoodPref
<1>5. links' = [links EXCEPT ![k] = m]
  BY <1>2 DEF Query, IInv, LinksGood
<1> HIDE DEF m
<1>6. LinksGood'
  BY <1>1, <1>2, <1>4, <1>5, Replaced DEF IInv, LinksGood, Query
<1>7. x' = [x EXCEPT !.started = TRUE, !.slaveOkay = (@ \/ x.pref.type # "primary")]
  BY DEF Query, Marked
<1>8. x' \in Cursors
  BY <1>1, <1>7 DEF Cursors
<1>9. Objects'
  BY <1>8 DEF IInv, Objects, Query, Cursors
<1>10. call' \in Calls /\ call'.kind = "query" /\ call'.on = k /\ call'.rp = links[k].pref
  BY <1>2, <1>3 DEF Query, Calls
<1>11. CallGood'
  BY <1>2, <1>4, <1>5, <1>8, <1>10 DEF CallGood, Queries, Query, IInv, LinksGood, Cursors
<1>12. Kept'
  BY <1>1, <1>2, <1>3, <1>4, <1>5, <1>10 DEF Kept, Due, Queries, Query, IInv, LinksGood
<1> QED BY <1>6, <1>9, <1>11, <1>12 DEF IInv

LEMMA QueryConnectedInv ==
  ASSUME SettingsAssumption, IInv, QueryConnected
  PROVE  IInv'
<1>1. call \in Calls /\ call.kind = "query" /\ pc = "connecting"
  BY DEF QueryConnected, IInv, CallGood
<1>2. call.on \in Links /\ call.rp \in Preferences
  BY <1>1 DEF Calls
<1> DEFINE k == call.on
           m == [links[k] EXCEPT !.pref = call.rp]
<1>3. Good(links[k])
  BY <1>2, ListsOf
<1>4. Good(m) /\ m.servers = links[k].servers /\ m.pref = call.rp
  BY <1>2, <1>3, GoodPref
<1>5. links' = [links EXCEPT ![k] = m]
  BY <1>2 DEF QueryConnected, Restored, IInv, LinksGood
<1> HIDE DEF m
<1>6. LinksGood'
  BY <1>1, <1>2, <1>4, <1>5, Replaced DEF IInv, LinksGood, QueryConnected
<1>7. Objects'
  BY DEF IInv, Objects, QueryConnected
<1>8. CallGood'
  BY DEF CallGood, QueryConnected
<1>9. Kept'
  BY <1>1, <1>2, <1>4, <1>5 DEF Kept, Due, Queries, QueryConnected, IInv, LinksGood
<1> QED BY <1>6, <1>7, <1>8, <1>9 DEF IInv

LEMMA StutterInv ==
  ASSUME IInv, UNCHANGED vars
  PROVE  IInv'
<1>1. LinksGood'
  BY Untouched DEF IInv, vars
<1>2. Objects'
  BY DEF IInv, Objects, vars
<1>3. CallGood'
  BY DEF IInv, CallGood, Calls, Queries, Cursors, vars
<1>4. Kept'
  BY DEF IInv, Kept, Due, Queries, vars
<1> QED BY <1>1, <1>2, <1>3, <1>4 DEF IInv

LEMMA StepInv ==
  ASSUME SettingsAssumption, NULLAssumption, IInv, [Next]_vars
  PROVE  IInv'
<1>1. CASE Constructing
  BY <1>1, ParseHostsInv, GiveOptionInv, UrlDoneInv, ConstructInv DEF Constructing
<1>2. CASE Connecting
  BY <1>2, DiscoverInv, ConnectInv, ConnectedInv, ConnectFailsInv, AuthenticateFailsInv
  DEF Connecting
<1>3. ASSUME NEW n \in Names, WithDB(n) PROVE IInv'
  BY <1>3, AuthenticateInv, SelectDBInv, ScriptInv DEF WithDB
<1>4. CASE Script
  BY <1>4, ScriptInv, SetClientInv, QueryInv, QueryConnectedInv DEF Script
<1>5. CASE UNCHANGED vars
  BY <1>5, StutterInv
<1> QED BY <1>1, <1>2, <1>3, <1>4, <1>5 DEF Next

LEMMA Invariance == Spec => []IInv
<1>1. Init => IInv
  BY InitInv, SettingsAssumption
<1>2. IInv /\ [Next]_vars => IInv'
  BY StepInv, SettingsAssumption, NULLAssumption
<1> QED BY <1>1, <1>2, PTL DEF Spec

-----------------------------------------------------------------------------
(* The theorems *)

\* Types, for any number of servers, tags, options and calls.
THEOREM SettingsTyped == Spec => []TypeOK
<1>1. IInv => TypeOK
  <2> SUFFICES ASSUME IInv PROVE TypeOK
    OBVIOUS
  <2>1. \A l \in Links :
          /\ links[l].pref \in Preferences /\ own[l] \in Preferences
          /\ links[l].replset \in BOOLEAN
          /\ Len(links[l].servers) \in 0..(MaxServers + MaxSeeds)
    <3> SUFFICES ASSUME NEW l \in Links
                 PROVE  /\ links[l].replset \in BOOLEAN
                        /\ Len(links[l].servers) \in 0..(MaxServers + MaxSeeds)
      BY ListsOf
    <3>1. Good(links[l]) /\ links[l] \in Lists /\ Len(links[l].servers) \in Nat
      BY ListsOf, NonEmpty
    <3> QED BY <3>1, SettingsAssumption DEF Good, Lists, SettingsAssumption
  <2>2. pc \in {"idle", "connecting"} => links[Main].servers # <<>>
    BY SettingsAssumption, NonEmpty, ListsOf DEF SettingsAssumption, IInv, LinksGood
  <2>3. \A n \in Names : dbs[n] # NULL => dbs[n].link \in Links /\ dbs[n].pref \in Preferences
    BY DEF IInv, Objects, Databases
  <2>4. x # NULL => x.link \in Links /\ x.pref \in Preferences
    BY DEF IInv, Objects, Collections, Cursors
  <2> QED BY <2>1, <2>2, <2>3, <2>4 DEF TypeOK, IInv, Objects, LinksGood, CallGood
<1> QED BY <1>1, Invariance, PTL

\* All servers of a client and of every clone have the same credentials.
THEOREM Agreement == Spec => []ServersAgree
<1>1. IInv => ServersAgree
  BY DEF IInv, LinksGood, Good, Agree, Placed, ServersAgree
<1> QED BY <1>1, Invariance, PTL

\* Between two calls the preference of a client is its own.
THEOREM Preference == Spec => []ClientKeepsPreference
<1>1. IInv => ClientKeepsPreference
  BY DEF IInv, Kept, Due, ClientKeepsPreference
<1> QED BY <1>1, Invariance, PTL

-----------------------------------------------------------------------------
(* The lists that are not the client's *)

Unmixed(l, n) ==
    \A m \in DOMAIN l.servers :
        Complete(l.servers[m]) => l.servers[m].db \in {n, "admin"}

\* A database with a list of its own shares it with no other one, and nobody else's
\* credentials are in it.
Separate ==
    \A n \in Names : dbs[n] # NULL /\ dbs[n].link # Main =>
        /\ links[dbs[n].link].servers # <<>>
        /\ Unmixed(links[dbs[n].link], n)
        /\ \A k \in Names : dbs[k] # NULL /\ dbs[k].link = dbs[n].link => k = n

LEMMA NoneIsUnmixed ==
  ASSUME SettingsAssumption, NEW l, Good(l), NEW n
  PROVE  Unmixed(All(l, NoCredentials), n)
BY NoneIsPlaced, GoodAll DEF Unmixed, Complete, NoCredentials

\* Steps that give no database another list and leave the lists of clones alone.
LEMMA Undisturbed ==
  ASSUME IInv, Separate,
         \A n \in Names : dbs'[n] # NULL => dbs[n] # NULL /\ dbs'[n].link = dbs[n].link,
         \A l \in Links \ {Main} : links'[l].servers = links[l].servers
  PROVE  Separate'
<1> SUFFICES ASSUME NEW n \in Names, dbs'[n] # NULL, dbs'[n].link # Main
             PROVE  /\ links'[dbs'[n].link].servers # <<>>
                    /\ Unmixed(links'[dbs'[n].link], n)
                    /\ \A k \in Names : dbs'[k] # NULL /\ dbs'[k].link = dbs'[n].link => k = n
  BY DEF Separate, Unmixed, Complete
<1>1. dbs[n] # NULL /\ dbs'[n].link = dbs[n].link /\ dbs[n].link \in Links \ {Main}
  BY DEF IInv, Objects, Databases
<1>2. links'[dbs'[n].link].servers = links[dbs[n].link].servers
  BY <1>1
<1> QED BY <1>1, <1>2 DEF Separate, Unmixed

\* Steps that change one list, whose servers stay the ones of its database.
LEMMA OneChanged ==
  ASSUME IInv, Separate, UNCHANGED dbs, NEW k \in Links,
         \A l \in Links \ {k} : links'[l] = links[l],
         links[k].servers # <<>> => links'[k].servers # <<>>,
         \A n \in Names : dbs[n] # NULL /\ dbs[n].link = k /\ k # Main => Unmixed(links'[k], n)
  PROVE  Separate'
<1> SUFFICES ASSUME NEW n \in Names, dbs[n] # NULL, dbs[n].link # Main
             PROVE  links'[dbs[n].link].servers # <<>> /\ Unmixed(links'[dbs[n].link], n)
  BY DEF Separate, Unmixed, Complete
<1>1. dbs[n].link \in Links
  BY DEF IInv, Objects, Databases
<1>2. links[dbs[n].link].servers # <<>> /\ Unmixed(links[dbs[n].link], n)
  BY DEF Separate
<1> QED BY <1>1, <1>2 DEF Unmixed

LEMMA DiscoverSeparate ==
  ASSUME SettingsAssumption, IInv, Separate, Discover
  PROVE  Separate'
<1> DEFINE k == call.on
<1>0. k \in Links
  BY DEF Discover, IInv, CallGood, Calls
<1>1. PICK i \in DOMAIN links[k].servers :
        links' = [links EXCEPT ![k].servers = Append(@, @[i])]
  BY DEF Discover
<1> DEFINE s == links[k].servers
<1>2. s \in Seq(Defs) /\ Len(s) \in Nat /\ DOMAIN s = 1..Len(s) /\ links[k] \in Lists
  BY <1>0, ListsOf, LenProperties DEF Lists
<1>3. links'[k].servers = Append(s, s[i]) /\ \A l \in Links \ {k} : links'[l] = links[l]
  BY <1>0, <1>1, <1>2 DEF IInv, LinksGood, Lists
<1>4. /\ Append(s, s[i]) # <<>>
      /\ \A m \in DOMAIN Append(s, s[i]) : \E j \in DOMAIN s : Append(s, s[i])[m] = s[j]
  BY <1>2
<1>5. \A n \in Names : Unmixed(links[k], n) => Unmixed(links'[k], n)
  BY <1>3, <1>4 DEF Unmixed
<1>6. \A n \in Names : dbs[n] # NULL /\ dbs[n].link = k /\ k # Main => Unmixed(links[k], n)
  BY DEF Separate
<1>7. UNCHANGED dbs
  BY DEF Discover
<1> QED BY <1>0, <1>3, <1>4, <1>5, <1>6, <1>7, OneChanged

LEMMA AuthenticateSeparate ==
  ASSUME SettingsAssumption, IInv, Separate, NEW d \in Names, Authenticate(d)
  PROVE  Separate'
<1> DEFINE k == dbs[d].link
<1>0. k \in Links /\ dbs[d] # NULL /\ UNCHANGED dbs
  BY DEF Authenticate, IInv, Objects, Databases
<1>1. PICK user \in Users :
        links' = [links EXCEPT ![k] = All(links[k], [user |-> user, pass |-> "secret", db |-> d])]
  BY DEF Authenticate
<1> DEFINE def == [user |-> user, pass |-> "secret", db |-> d]
<1>2. def \in Defs /\ Placed(def) /\ def.db = d
  BY DEF Defs, Values, Placed, SettingsAssumption
<1>3. Good(links[k]) /\ links[k] \in Lists
  BY <1>0, ListsOf
<1>4. /\ Good(All(links[k], def))
      /\ Len(All(links[k], def).servers) = Len(links[k].servers)
      /\ \A m \in DOMAIN All(links[k], def).servers : All(links[k], def).servers[m] = def
  BY <1>2, <1>3, GoodAll
<1> HIDE DEF def
<1>5. links'[k] = All(links[k], def) /\ \A l \in Links \ {k} : links'[l] = links[l]
  BY <1>0, <1>1 DEF IInv, LinksGood, def
<1>6. links[k].servers # <<>> => links'[k].servers # <<>>
  <2>1. All(links[k], def) \in Lists
    BY <1>4 DEF Good
  <2> QED BY <1>3, <1>4, <1>5, <2>1, NonEmpty
<1>7. Unmixed(links'[k], d)
  BY <1>2, <1>4, <1>5 DEF Unmixed
<1>8. \A n \in Names : dbs[n] # NULL /\ dbs[n].link = k /\ k # Main => n = d
  BY <1>0 DEF Separate
<1> QED BY <1>0, <1>5, <1>6, <1>7, <1>8, OneChanged

LEMMA AuthenticateFailsSeparate ==
  ASSUME SettingsAssumption, IInv, Separate, AuthenticateFails
  PROVE  Separate'
<1> DEFINE k == call.on
           m == All(links[k], NoCredentials)
<1>0. k \in Links /\ UNCHANGED dbs
  BY DEF AuthenticateFails, IInv, CallGood, Calls
<1>1. Good(links[k]) /\ links[k] \in Lists
  BY <1>0, ListsOf
<1>2. links'[k] = m /\ \A l \in Links \ {k} : links'[l] = links[l]
  BY <1>0 DEF AuthenticateFails, Cleared, IInv, LinksGood
<1>3. Good(m) /\ Len(m.servers) = Len(links[k].servers)
  BY <1>1, NoneIsPlaced, GoodAll
<1>4. \A n \in Names : Unmixed(m, n)
  BY <1>1, NoneIsUnmixed
<1> HIDE DEF m
<1>5. links[k].servers # <<>> => links'[k].servers # <<>>
  <2>1. m \in Lists
    BY <1>3 DEF Good
  <2> QED BY <1>1, <1>2, <1>3, <2>1, NonEmpty
<1> QED BY <1>0, <1>2, <1>4, <1>5, OneChanged

\* A database gets a list nobody has, with nothing in it, or that of the client.
LEMMA SelectDBSeparate ==
  ASSUME SettingsAssumption, IInv, Separate, NEW d \in Names, SelectDB(d)
  PROVE  Separate' /\ Unmixed(links'[dbs'[d].link], d)
<1>0. /\ Main \in Links /\ Good(links[Main]) /\ links[Main] \in Lists
      /\ dbs \in [Names -> Databases \cup {NULL}]
      /\ links[Main].servers # <<>>
  BY SettingsAssumption, ListsOf, NonEmpty
  DEF SettingsAssumption, IInv, Objects, LinksGood, SelectDB
<1>1. CASE NeedsClone(First(links[Main]), d)
  <2> DEFINE m == Copied(links[Main])
  <2>1. PICK k \in Unused :
          /\ links' = [links EXCEPT ![k] = m]
          /\ dbs' = [dbs EXCEPT ![d] = DbObject(k, links[Main].pref)]
    BY <1>1 DEF SelectDB
  <2>2. k \in Links /\ links[k].servers = <<>> /\ k # Main
    BY <1>0 DEF Unused
  <2>3. Unmixed(m, d) /\ m.servers # <<>>
    <3>1. Unmixed(m, d) /\ Good(m) /\ Len(m.servers) = Len(links[Main].servers)
      BY <1>0, NoneIsPlaced, NoneIsUnmixed, GoodAll DEF Copied
    <3>2. m \in Lists
      BY <3>1 DEF Good
    <3> QED BY <1>0, <3>1, <3>2, NonEmpty
  <2> HIDE DEF m
  <2>4. /\ links'[k] = m /\ \A l \in Links \ {k} : links'[l] = links[l]
        /\ dbs'[d].link = k /\ \A n \in Names \ {d} : dbs'[n] = dbs[n]
    BY <1>0, <2>1, <2>2 DEF IInv, LinksGood, DbObject
  <2>5. ASSUME NEW n \in Names, dbs[n] # NULL, dbs[n].link # Main
        PROVE  dbs[n].link \in Links /\ dbs[n].link # k
    BY <1>0, <2>2, <2>5 DEF Separate, Databases
  <2>6. ASSUME NEW n \in Names, dbs'[n] # NULL, dbs'[n].link # Main
        PROVE  /\ links'[dbs'[n].link].servers # <<>>
               /\ Unmixed(links'[dbs'[n].link], n)
               /\ \A j \in Names : dbs'[j] # NULL /\ dbs'[j].link = dbs'[n].link => j = n
    <3>1. CASE n = d
      BY <2>2, <2>3, <2>4, <2>5, <3>1
    <3>2. CASE n # d
      <4>1. dbs'[n] = dbs[n] /\ dbs[n].link \in Links \ {k}
        BY <2>4, <2>5, <2>6, <3>2
      <4>2. links'[dbs'[n].link] = links[dbs[n].link]
        BY <2>4, <4>1
      <4> QED BY <2>4, <2>6, <4>1, <4>2 DEF Separate
    <3> QED BY <3>1, <3>2
  <2> QED BY <2>3, <2>4, <2>6 DEF Separate, Unmixed, Complete
<1>2. CASE ~NeedsClone(First(links[Main]), d)
  <2>1. /\ dbs'[d].link = Main /\ links' = links
        /\ \A n \in Names \ {d} : dbs'[n] = dbs[n]
    BY <1>0, <1>2 DEF SelectDB, DbObject
  <2>2. Unmixed(links[Main], d)
    <3>1. ASSUME NEW i \in DOMAIN links[Main].servers
          PROVE  /\ links[Main].servers[i] = First(links[Main])
                 /\ Placed(links[Main].servers[i])
      BY <1>0 DEF Good, Agree, First
    <3> QED BY <1>2, <3>1 DEF Unmixed, NeedsClone, Complete, Placed
  <2>3. ASSUME NEW n \in Names, dbs'[n] # NULL, dbs'[n].link # Main
        PROVE  /\ links'[dbs'[n].link].servers # <<>>
               /\ Unmixed(links'[dbs'[n].link], n)
               /\ \A j \in Names : dbs'[j] # NULL /\ dbs'[j].link = dbs'[n].link => j = n
    BY <2>1, <2>3 DEF Separate
  <2> QED BY <2>1, <2>2, <2>3 DEF Separate, Unmixed, Complete
<1> QED BY <1>1, <1>2

LEMMA StepSeparate ==
  ASSUME SettingsAssumption, IInv, Separate, [Next]_vars
  PROVE  Separate'
<1>0. Main \in Links /\ links \in [Links -> Lists] /\ dbs \in [Names -> Databases \cup {NULL}]
  BY DEF SettingsAssumption, IInv, LinksGood, Objects
<1>1. CASE Constructing \/ Connect \/ Connected \/ ConnectFails \/ UNCHANGED vars
  <2>1. UNCHANGED dbs /\ \A l \in Links \ {Main} : links'[l].servers = links[l].servers
    BY <1>0, <1>1 DEF Constructing, ParseHosts, GiveOption, Throw, UrlDone, Construct, Connect,
                      Connected, ConnectFails, vars
  <2> QED BY <2>1, Undisturbed
<1>2. CASE Discover \/ AuthenticateFails
  BY <1>2, DiscoverSeparate, AuthenticateFailsSeparate
<1>3. ASSUME NEW n \in Names, WithDB(n) PROVE Separate'
  <2>1. CASE SelectCollection(n) \/ SetDB(n)
    <3>1. /\ links' = links
          /\ \A k \in Names : dbs'[k] # NULL => dbs[k] # NULL /\ dbs'[k].link = dbs[k].link
      BY <1>0, <2>1 DEF SelectCollection, SetDB, Databases
    <3> QED BY <3>1, Undisturbed
  <2> QED BY <1>3, <2>1, AuthenticateSeparate, SelectDBSeparate DEF WithDB
<1>4. CASE Script
  <2>1. UNCHANGED dbs /\ \A l \in Links : links'[l].servers = links[l].servers
    <3>1. CASE SetClient
      BY <1>0, <3>1 DEF SetClient, Lists
    <3>2. CASE Query
      BY <1>0, <3>2 DEF Query, Lists
    <3>3. CASE QueryConnected
      BY <1>0, <3>3 DEF QueryConnected, Restored, Lists
    <3> QED BY <1>4, <3>1, <3>2, <3>3
        DEF Script, Find, NewCursor, SetCollection, SetCursor, SetFlag, SlaveOkay, SetStatic, Reset
  <2> QED BY <2>1, Undisturbed
<1> QED BY <1>1, <1>2, <1>3, <1>4 DEF Next, Connecting

\* selectDB hands on no other database's credentials, and a list made for a database
\* never gets them, however authentications, discoveries and failures follow.
THEOREM Credentials == Spec => CredentialsStay
<1>1. Init => Separate
  BY DEF Init, Separate
<1>2. IInv /\ Separate /\ [Next]_vars => Separate'
  BY StepSeparate, SettingsAssumption
<1> DEFINE A == \A n \in Names :
                  dbs'[n] # NULL /\ (SelectDB(n) \/ dbs'[n].link # Main) =>
                    LET l == links'[dbs'[n].link] IN
                    \A m \in DOMAIN l.servers :
                      Complete(l.servers[m]) => l.servers[m].db \in {n, "admin"}
<1>3. IInv /\ Separate /\ [Next]_vars => [A]_vars
  <2> SUFFICES ASSUME IInv, Separate, [Next]_vars, NEW n \in Names, dbs'[n] # NULL,
                      SelectDB(n) \/ dbs'[n].link # Main
               PROVE  Unmixed(links'[dbs'[n].link], n)
    BY DEF Unmixed
  <2>1. CASE SelectDB(n)
    BY <2>1, SelectDBSeparate, SettingsAssumption
  <2>2. CASE dbs'[n].link # Main
    <3>1. Separate'
      BY StepSeparate, SettingsAssumption
    <3> QED BY <2>2, <3>1 DEF Separate, Unmixed, Complete
  <2> QED BY <2>1, <2>2
<1> QED BY <1>1, <1>2, <1>3, Invariance, PTL DEF Spec, CredentialsStay
=============================================================================
