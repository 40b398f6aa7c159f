------------------------------ MODULE Settings ------------------------------
(***************************************************************************)
(* What a client is told, and what becomes of it (mcon/parse.c,            *)
(* mongoclient.c, db.c, collection.c, cursor.c).                           *)
(*                                                                         *)
(* Credentials and read preference come in through the connection string,  *)
(* through the options of the constructor, through a static property and   *)
(* through setters.  They are kept in the list of servers of the client,   *)
(* which databases, collections and cursors share, clone or copy from, and *)
(* which a query borrows to pass on its own preference.                    *)
(*                                                                         *)
(* Of a tag list only its length is kept.  Timeouts, w and the name of the *)
(* replica set are stored without regard for anything else and are left    *)
(* out, but for the values that are refused.                               *)
(***************************************************************************)
EXTENDS Naturals, Sequences

CONSTANTS
    Links,       \* lists of servers: the client's and those of its clones
    Main,        \* that of the client
    Names,       \* databases
    Options,     \* options of a connection string or an array: name and value
    UrlUsers,    \* users a connection string may name
    Users,       \* users a script authenticates as
    MaxSeeds,    \* bound: servers named in the connection string
    MaxServers,  \* bound: those and the discovered ones
    MaxTags,     \* bound: tag sets of a preference
    MaxOptions,  \* bound: options given
    MaxSets,     \* bound: calls of setters
    NULL

ASSUME SettingsAssumption ==
    /\ Main \in Links
    /\ NULL \notin Names \cup {"admin"}
    /\ \A o \in Options : o.value # NULL
    /\ MaxSeeds \in Nat \ {0} /\ MaxServers \in Nat /\ MaxTags \in Nat
    /\ MaxOptions \in Nat /\ MaxSets \in Nat

VARIABLES
    pc,       \* "new", "url", "options", "idle", "connecting"
    static,   \* MongoCursor::$slaveOkay
    url,      \* user and database of the connection string
    links,    \* mongo_servers: servers, replset, pref
    dbs,      \* the script's MongoDB objects, by name
    x,        \* its collection or cursor
    call,     \* the call that waits for a connection
    options,  \* options given so far
    sets,     \* setters called so far
    own       \* history: the preference each client was given

vars == <<pc, static, url, links, dbs, x, call, options, sets, own>>

-----------------------------------------------------------------------------
Types == {"primary", "secondary", "secondaryPreferred"}

Preferences == [type : Types, tags : 0..MaxTags]

Default == [type |-> "primary", tags |-> 0]

\* what waits for a connection; a query remembers the preference it replaced
Calls ==
    [kind : {"construct", "connect", "authenticate"}, on : Links]
    \cup [kind : {"query"}, on : Links, rp : Preferences]

ASSUME NULLAssumption == NULL \notin Calls

NoCredentials == [user |-> NULL, pass |-> NULL, db |-> NULL]

NoUrl == [user |-> NULL, db |-> NULL]

\* mongo_parse_init
Blank == [servers |-> <<>>, replset |-> FALSE, pref |-> Default]

\* every server of a list is given the same
All(l, def) == [l EXCEPT !.servers = [n \in DOMAIN l.servers |-> def]]

First(l) == l.servers[1]

\* mongo_servers_copy without credentials
CopiedWhole(l) == l

Copied(l) == All(l, NoCredentials)

Init ==
    /\ pc = "new"
    /\ static = FALSE
    /\ url = NoUrl
    /\ links = [l \in Links |-> Blank]
    /\ dbs = [n \in Names |-> NULL]
    /\ x = NULL /\ call = NULL
    /\ options = 0 /\ sets = 0
    /\ own = [l \in Links |-> Default]

-----------------------------------------------------------------------------
(* The constructor *)

\* mongo_parse_server_spec up to the options
ParseHosts ==
    /\ pc = "new"
    /\ pc' = "url"
    /\ \E seeds \in 1..MaxSeeds, user \in UrlUsers \cup {NULL}, db \in Names \cup {NULL} :
         /\ url' = [user |-> user, db |-> db]
         /\ links' = [links EXCEPT ![Main].servers = [n \in 1..seeds |-> NoCredentials]]
    /\ UNCHANGED <<static, dbs, x, call, options, sets, own>>

RefusedByName(l, o) == o.name \in {"malformed", "unknown"}

\* an option that ends in an exception
Refused(l, o) ==
    \/ RefusedByName(l, o)
    \/ /\ o.name = "slaveOkay" /\ o.value = "true"
       /\ (l.pref.type # "primary" \/ l.pref.tags > 0)
    \/ o.name = "readPreference" /\ o.value \notin Types
    \/ o.name = "readPreferenceTags" /\ o.value = "no separator"
    \/ o.name = "w" /\ o.value = "negative"

\* a user without a database is one of "admin"
UserStored(def, user) ==
    [def EXCEPT !.user = user, !.db = IF @ = NULL THEN "admin" ELSE @]

\* mongo_store_option
Stored(l, o) ==
    CASE o.name = "replicaSet" ->
           [l EXCEPT !.replset = (@ \/ o.value # "")]
      [] o.name = "username" ->
           [l EXCEPT !.servers = [n \in DOMAIN l.servers |-> UserStored(l.servers[n], o.value)]]
      [] o.name = "password" ->
           [l EXCEPT !.servers = [n \in DOMAIN l.servers |-> [l.servers[n] EXCEPT !.pass = o.value]]]
      [] o.name = "db" ->
           [l EXCEPT !.servers = [n \in DOMAIN l.servers |-> [l.servers[n] EXCEPT !.db = o.value]]]
      [] o.name = "slaveOkay" ->
           [l EXCEPT !.pref.type = IF o.value = "true" THEN "secondaryPreferred" ELSE @]
      [] o.name = "readPreference" ->
           [l EXCEPT !.pref.type = o.value]
      [] o.name = "readPreferenceTags" ->
           [l EXCEPT !.pref.tags = IF @ < MaxTags THEN @ + 1 ELSE @]
      [] OTHER -> l

\* the object never gets to the script, which may try again
Throw ==
    /\ pc' = "new"
    /\ links' = [links EXCEPT ![Main] = Blank]
    /\ url' = NoUrl
    /\ options' = 0

GiveOption ==
    /\ pc \in {"url", "options"}
    /\ options < MaxOptions
    /\ \E o \in Options :
         IF Refused(links[Main], o) THEN Throw
         ELSE /\ links' = [links EXCEPT ![Main] = Stored(links[Main], o)]
              /\ options' = options + 1
              /\ UNCHANGED <<pc, url>>
    /\ UNCHANGED <<static, dbs, x, call, sets, own>>

\* user, password and database of the string itself come last, whatever the
\* options in it have said
UrlCredentials ==
    [user |-> url.user,
     pass |-> IF url.user = NULL THEN NULL ELSE "secret",
     db   |-> IF url.db = NULL /\ url.user # NULL THEN "admin" ELSE url.db]

UrlDone ==
    /\ pc = "url"
    /\ pc' = "options"
    /\ links' = [links EXCEPT ![Main] = All(links[Main], UrlCredentials)]
    /\ url' = NoUrl
    /\ UNCHANGED <<static, dbs, x, call, options, sets, own>>

\* what the static property makes of a preference
Raised(pref) ==
    IF static /\ pref.type = "primary" THEN [pref EXCEPT !.type = "secondaryPreferred"] ELSE pref

\* the static property conflicts with a preference; then the constructor connects,
\* unless it is told not to
Construct ==
    LET pref == links[Main].pref IN
    /\ pc = "options"
    /\ IF static /\ pref.type # "primary"
       THEN Throw /\ UNCHANGED <<call, own>>
       ELSE /\ links' = [links EXCEPT ![Main].pref = Raised(pref)]
            /\ own' = [own EXCEPT ![Main] = Raised(pref)]
            /\ \/ pc' = "idle" /\ UNCHANGED call
               \/ pc' = "connecting" /\ call' = [kind |-> "construct", on |-> Main]
            /\ options' = 0
            /\ UNCHANGED url
    /\ UNCHANGED <<static, dbs, x, sets>>

-----------------------------------------------------------------------------
(* Connecting: connect, authenticate and queries edit the list of servers *)

\* mongo_discover_topology: a new member gets the credentials of the one that named it
Discover ==
    /\ pc = "connecting"
    /\ links[call.on].replset
    /\ Len(links[call.on].servers) < MaxServers
    /\ \E n \in DOMAIN links[call.on].servers :
         links' = [links EXCEPT ![call.on].servers = Append(@, @[n])]
    /\ UNCHANGED <<pc, static, url, dbs, x, call, options, sets, own>>

Connect ==
    /\ pc = "idle"
    /\ pc' = "connecting"
    /\ call' = [kind |-> "connect", on |-> Main]
    /\ UNCHANGED <<static, url, links, dbs, x, options, sets, own>>

Connected ==
    /\ pc = "connecting"
    /\ call.kind \in {"construct", "connect", "authenticate"}
    /\ pc' = "idle" /\ call' = NULL
    /\ UNCHANGED <<static, url, links, dbs, x, options, sets, own>>

ConnectFails ==
    /\ pc = "connecting"
    /\ \/ call.kind = "construct" /\ Throw
       \/ call.kind = "connect" /\ pc' = "idle" /\ UNCHANGED <<links, url, options>>
    /\ call' = NULL
    /\ UNCHANGED <<static, dbs, x, sets, own>>

\* any of database, user and password is in the way
Authenticate(n) ==
    /\ pc = "idle"
    /\ dbs[n] # NULL
    /\ LET l == links[dbs[n].link] IN
       /\ First(l) = NoCredentials
       /\ \E user \in Users :
            links' = [links EXCEPT ![dbs[n].link] =
                        All(l, [user |-> user, pass |-> "secret", db |-> n])]
    /\ pc' = "connecting"
    /\ call' = [kind |-> "authenticate", on |-> dbs[n].link]
    /\ UNCHANGED <<static, url, dbs, x, options, sets, own>>

ClearedFirst(l) == [l EXCEPT !.servers[1] = NoCredentials]

Cleared(l) == All(l, NoCredentials)

AuthenticateFails ==
    /\ pc = "connecting"
    /\ call.kind = "authenticate"
    /\ links' = [links EXCEPT ![call.on] = Cleared(links[call.on])]
    /\ pc' = "idle" /\ call' = NULL
    /\ UNCHANGED <<static, url, dbs, x, options, sets, own>>

-----------------------------------------------------------------------------
(* Databases, collections, cursors *)

Complete(def) == def.user # NULL /\ def.pass # NULL

\* selectDB: credentials of another database are not taken along
NeedsClone(def, n) ==
    def.db \notin {NULL, n, "admin"} /\ Complete(def)

Unused == {l \in Links : links[l].servers = <<>>}

DbObject(l, pref) == [link |-> l, pref |-> pref]

SelectDB(n) ==
    /\ pc = "idle"
    /\ IF NeedsClone(First(links[Main]), n)
       THEN \E l \in Unused :
              /\ links' = [links EXCEPT ![l] = Copied(links[Main])]
              /\ own' = [own EXCEPT ![l] = own[Main]]
              /\ dbs' = [dbs EXCEPT ![n] = DbObject(l, links[Main].pref)]
       ELSE /\ dbs' = [dbs EXCEPT ![n] = DbObject(Main, links[Main].pref)]
            /\ UNCHANGED <<links, own>>
    /\ UNCHANGED <<pc, static, url, x, call, options, sets>>

SelectCollection(n) ==
    /\ pc = "idle"
    /\ dbs[n] # NULL
    /\ x' = [kind |-> "collection", link |-> dbs[n].link, pref |-> dbs[n].pref]
    /\ UNCHANGED <<pc, static, url, links, dbs, call, options, sets, own>>

Cursor(l, pref) ==
    [kind |-> "cursor", link |-> l, pref |-> Raised(pref), slaveOkay |-> FALSE, started |-> FALSE]

Find ==
    /\ pc = "idle"
    /\ x # NULL /\ x.kind = "collection"
    /\ x' = Cursor(x.link, x.pref)
    /\ UNCHANGED <<pc, static, url, links, dbs, call, options, sets, own>>

\* new MongoCursor, and the cursor of a command
NewCursor ==
    /\ pc = "idle"
    /\ x' = Cursor(Main, Default)
    /\ UNCHANGED <<pc, static, url, links, dbs, call, options, sets, own>>

-----------------------------------------------------------------------------
(* Setters *)

\* setReadPreference refuses tags with primary; setSlaveOkay changes the type only
Settable(pref) ==
    {p \in Preferences : p.type = "primary" => p.tags = 0}
    \cup {[pref EXCEPT !.type = type] : type \in {"primary", "secondaryPreferred"}}

Sets == pc = "idle" /\ sets < MaxSets /\ sets' = sets + 1

SetClient ==
    /\ Sets
    /\ \E p \in Settable(links[Main].pref) :
         /\ links' = [links EXCEPT ![Main].pref = p]
         /\ own' = [own EXCEPT ![Main] = p]
    /\ UNCHANGED <<pc, static, url, dbs, x, call, options>>

SetDB(n) ==
    /\ Sets
    /\ dbs[n] # NULL
    /\ \E p \in Settable(dbs[n].pref) : dbs' = [dbs EXCEPT ![n].pref = p]
    /\ UNCHANGED <<pc, static, url, links, x, call, options, own>>

SetCollection ==
    /\ Sets
    /\ x # NULL /\ x.kind = "collection"
    /\ \E p \in Settable(x.pref) : x' = [x EXCEPT !.pref = p]
    /\ UNCHANGED <<pc, static, url, links, dbs, call, options, own>>

\* at any time, and without a word about slaveOkay
SetCursor ==
    /\ Sets
    /\ x # NULL /\ x.kind = "cursor"
    /\ \E p \in Preferences :
         /\ p.type = "primary" => p.tags = 0
         /\ x' = [x EXCEPT !.pref = p]
    /\ UNCHANGED <<pc, static, url, links, dbs, call, options, own>>

Fresh == x # NULL /\ x.kind = "cursor" /\ ~x.started

\* setFlag
SetFlag ==
    /\ Sets
    /\ Fresh
    /\ \E z \in BOOLEAN : x' = [x EXCEPT !.slaveOkay = z]
    /\ UNCHANGED <<pc, static, url, links, dbs, call, options, own>>

SlaveOkay ==
    /\ Sets
    /\ Fresh
    /\ \E z \in BOOLEAN :
         x' = [x EXCEPT !.slaveOkay = z,
                        !.pref.type = IF ~z THEN "primary"
                                      ELSE IF @ = "primary" THEN "secondaryPreferred" ELSE @]
    /\ UNCHANGED <<pc, static, url, links, dbs, call, options, own>>

SetStatic ==
    /\ Sets
    /\ static' = ~static
    /\ UNCHANGED <<pc, url, links, dbs, x, call, options, own>>

-----------------------------------------------------------------------------
(* Queries *)

Reset ==
    /\ pc = "idle"
    /\ x # NULL /\ x.kind = "cursor"
    /\ x.started
    /\ x' = [x EXCEPT !.started = FALSE]
    /\ UNCHANGED <<pc, static, url, links, dbs, call, options, sets, own>>

\* the bit of the wire protocol is set, and never taken away
Marked(c) == [c EXCEPT !.started = TRUE, !.slaveOkay = (@ \/ c.pref.type # "primary")]

\* mongo_cursor__do_query: the client's preference is put aside
Query ==
    /\ pc = "idle"
    /\ Fresh
    /\ x' = Marked(x)
    /\ links' = [links EXCEPT ![x.link].pref = x.pref]
    /\ call' = [kind |-> "query", on |-> x.link, rp |-> links[x.link].pref]
    /\ pc' = "connecting"
    /\ UNCHANGED <<static, url, dbs, options, sets, own>>

RestoredIfFound(l, found) == IF found THEN [l EXCEPT !.pref = call.rp] ELSE l

\* before anybody looks at whether there is a connection
Restored(l, found) == [l EXCEPT !.pref = call.rp]

QueryConnected ==
    /\ pc = "connecting"
    /\ call.kind = "query"
    /\ \E found \in BOOLEAN :
         links' = [links EXCEPT ![call.on] = Restored(links[call.on], found)]
    /\ pc' = "idle" /\ call' = NULL
    /\ UNCHANGED <<static, url, dbs, x, options, sets, own>>

-----------------------------------------------------------------------------
Constructing == ParseHosts \/ GiveOption \/ UrlDone \/ Construct

Connecting == Discover \/ Connect \/ Connected \/ ConnectFails \/ AuthenticateFails

WithDB(n) == Authenticate(n) \/ SelectDB(n) \/ SelectCollection(n) \/ SetDB(n)

Script ==
    \/ Find \/ NewCursor \/ SetClient \/ SetCollection \/ SetCursor \/ SetFlag \/ SlaveOkay
    \/ SetStatic \/ Reset \/ Query \/ QueryConnected

Next == Constructing \/ Connecting \/ Script \/ \E n \in Names : WithDB(n)

Spec == Init /\ [][Next]_vars

-----------------------------------------------------------------------------
(* Properties *)

\* Types of the variables.
TypeOK ==
    /\ pc \in {"new", "url", "options", "idle", "connecting"}
    /\ DOMAIN links = Links /\ DOMAIN own = Links /\ DOMAIN dbs = Names
    /\ \A l \in Links :
         /\ links[l].pref \in Preferences /\ own[l] \in Preferences
         /\ links[l].replset \in BOOLEAN
         /\ Len(links[l].servers) \in 0..(MaxServers + MaxSeeds)
    /\ \A n \in Names : dbs[n] # NULL => dbs[n].link \in Links /\ dbs[n].pref \in Preferences
    /\ x # NULL => x.link \in Links /\ x.pref \in Preferences
    /\ IF pc = "connecting" THEN call \in Calls ELSE call = NULL
    /\ pc \in {"idle", "connecting"} => links[Main].servers # <<>>

\* All servers of a client have the same credentials, those discovered while it
\* authenticates included, and a user always comes with a database: selectDB,
\* authenticate and the hash of a connection look at one of them only.
ServersAgree ==
    \A l \in Links :
        LET servers == links[l].servers IN
        \A n \in DOMAIN servers :
            /\ servers[n] = servers[1]
            /\ servers[n].user # NULL => servers[n].db # NULL

\* selectDB does not hand a database the credentials of another one, unless they are
\* those of "admin"; and a database with a list of servers of its own never has them,
\* whatever is authenticated, discovered or selected later.  Databases on the list of
\* the client share what any of them authenticates with once they are selected.
CredentialsStay ==
    [][\A n \in Names :
         dbs'[n] # NULL /\ (SelectDB(n) \/ dbs'[n].link # Main) =>
           LET l == links'[dbs'[n].link] IN
           \A m \in DOMAIN l.servers :
             Complete(l.servers[m]) => l.servers[m].db \in {n, "admin"}]_vars

\* Whatever databases, collections and cursors are told, and however a query
\* ends, the preference of a client is the one it was given.
ClientKeepsPreference ==
    pc = "idle" => \A l \in Links : links[l].servers # <<>> => links[l].pref = own[l]
=============================================================================
