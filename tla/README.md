# A TLA+ model of the MongoDB PHP driver

The legacy `mongo` extension: a PHP worker talks to `mongod` and `mongos`
processes over pooled connections that outlive requests, through objects
(`MongoClient`, `MongoCursor`, `MongoCollection`, GridFS) that outlive
connections. Line numbers below are of `src/`.

## The system

| Component | Code | State | Operations |
| --- | --- | --- | --- |
| Connection manager | `mcon/manager.c`, `mcon/connections.c` | registered connections by hash, the callback list of each | connect, ping, ismaster, register, deregister, destroy, pick one for reading or writing |
| Cursor | `cursor.c` | `mongo_cursor`, the persistent `cursor_list` | doQuery, hasNext, next, reset, rewind, limit, destruction |
| Replica-set discovery | `mcon/manager.c` 97-254, `mongo_connection_ismaster` | `servers->server[16]`, the set name | ask every server, append the ones it names |
| Read preferences | `mcon/read_preference.c` | mode, tag sets | filter, sort, nearest, pick |
| Wire protocol | `mcon/io.c`, `cursor.c` 95-217, `connections.c` 323-392 | request ids, bytes left on a stream | send, wait with a timeout, read header and body |
| Client | `mongoclient.c` | servers, read preference | construct, connect, close |
| Collections, write concern | `collection.c` | `w`, `wtimeout` | insert, update, remove, batch, getLastError |
| Databases | `db.c` | write concern, slaveOkay | commands |
| GridFS | `gridfs/` | files and chunks collections, stream position | store, remove, read, stream |
| Connection string | `mcon/parse.c`, `mcon/utils.c` | parser state, options | parse, hash |
| BSON and types | `bson.c`, `types/` | buffers, the MongoId counter | encode, decode, generate |
| Logging, exceptions, start-up | `util/`, `exceptions/`, `php_mongo.c` | levels, INI settings | |

How they interact: every operation asks the manager for a connection. In a
client of type MULTIPLE the manager first goes round all seeds and pings or
connects each, so *any* operation may destroy *any* pooled connection. The
manager knows cursors only through callbacks a cursor leaves on its connection
(`mongo_cursor_mark_dead`). The servers keep cursors open for the driver; the
driver notes them in `cursor_list` by id and socket, and kills them when the
`MongoCursor` is done with them. Nothing runs in parallel within a worker
(the `LOCK` macros matter only for threaded builds): the hard interleavings are
those of calls on different objects with failures of the network and with
servers that close cursors by themselves.

What makes each part correct: for cursors and connections, that pointers,
callbacks, list nodes and the servers' cursors agree; for discovery, that it ends
and that what is picked is a verified member of the right set; for read preferences, that the chain of filters and sorting gives
what the mode promises; for the wire protocol, that an answer is taken only by
who asked; for write concern, that what is sent and what is waited for agree; for
GridFS, that what was stored stays whole and that a failed store takes exactly its
own chunks away; for the settings of a client, that they stay with the object they
were given to. PROJECT.json lists the hazards line by line, with the properties
that are about each.

## Modules

| Module | Models | Extends or uses |
| --- | --- | --- |
| `CursorLifecycle` | cursors over pooled connections, the core | |
| `CursorSessions` | what cursors promise, without connections: a session (link to a server, id) is opened fresh, belongs to one cursor, stays what it is, and is closed or lost with everything else over that link | |
| `ReadPreference` | candidates, filters, tag sets, sorting, nearness and choice, as operators | |
| `ReplicaSet` | clients in turn over the pool: discovery, elections, forks, the pick | `ReadPreference` |
| `WriteConcern` | `is_gle_op` and `append_getlasterror`, as operators | |
| `Writes` | writes and commands on one connection, and the answers that come back on it | `WriteConcern` |
| `GridFS` | stores, removes and readers over the two collections | |
| `Settings` | connection string, options, credentials, read preferences, `selectDB`, `authenticate` | |
| `CursorLifecycleProof`, `CursorSessionsProof`, `CursorLimitProof` | proofs about `CursorLifecycle`, one the refinement of `CursorSessions` | |
| `SettingsProof`, `WritesProof` | proofs about `Settings`, and about `Writes` with `WriteConcern` | |
| `ReadPreferenceProof` | lemmas about sorting, nearness and choice | |
| `ReplicaSetProof` | proofs about `ReplicaSet`, among them that discovery ends | `ReadPreferenceProof` |
| `GridFSProof` | proofs about `GridFS` | |
| `MCCursorLifecycle`, `MCReplicaSet`, `MCWrites`, `MCGridFS`, `MCSettings` | instances for TLC | |

### CursorLifecycle and the code

A call of the API is a sequence of steps, one for each exchange with a server,
because that is where other parties act. `pc` says where the call is:

| `pc` | code | steps |
| --- | --- | --- |
| `idle` | between two calls | `NewCursor`, `FreeCursor`, `CallReset`, `CallHasNext`, `CallNext`, `CallRewind`, `CallWrite`, `CloseOne`, `CloseAll` |
| `seeds` | loop of `mongo_get_connection_multiple` (`manager.c` 268-285) | `SeedIsConnected`, `SeedPingFails`, `SeedConnects`, `SeedConnectFails` |
| `pick` | the rest of it, and the callback (`manager.c` 376-405) | `PickForCursor`, `PickFails`, `WriteDone`, `WriteSendFails` |
| `query` | `mongo_cursor__do_query` from `cursor.c` 1026 | `QueryEncodeFails`, `QuerySendFails`, `QueryReply`, `QueryReplyFails` |
| `body` | `hasNext` from `cursor.c` 372 | `BodyUninitialized`, `BodyDone`, `BodyHasDocument`, `BodyExhausted`, `BodyGetMore` |
| `getmore` | its OP_GET_MORE | `GetMoreSendFails`, `GetMoreReply`, `GetMoreNotFound`, `GetMoreReplyFails` |

`Hashes` are what `mongo_server_create_hash` makes of server definitions (address,
set name, credentials, process id), and `ServerOf` says which server each leads
to: one server may be in the pool under several hashes, over several connections.
A client lists hashes; a connection is found by its hash and by nothing else.

`pool` is the set of allocated connections (outside
`mongo_get_connection_single` these are the registered ones), `cleanup_list`
counts the entries of each cursor on each connection, and the other variables
are the fields of the structures of the same name. `srv` is the state of every
cursor id at its server. Freed addresses and closed descriptors are used again.

`WorkerDies` is the worker process ending at any point. It is also one of the
two outcomes of reading a freed connection (`mongo_deregister_callback_from_connection`
on a dangling pointer); the other outcome, that nothing is found there, is what
`Unhook` does, as the model clears a callback list when its connection goes.
A third outcome, that the memory belongs to a new connection, is covered by
addresses being used again.

The environment: a server never allots an id twice (it draws 64-bit random
numbers); it may time any cursor out (`Expire`); a stream may break at any
moment and the client finds out when it next uses it (`Break`). After a break
the server's cursor is left to the server's own timeout (`"orphan"`).

### ReplicaSet and the code

| `pc` | code | steps |
| --- | --- | --- |
| `idle` | between two operations | a new client, an operation, a fork, time, an election |
| `seeds` | `mongo_get_connection_replicaset` and `_multiple`: the seeds are connected or pinged | one for each outcome of `mongo_get_connection_single` |
| `discover` | `mongo_discover_topology`, the outer loop: `ismaster` of the next server | new data, same data, refusals by set name or type, failure |
| `hosts` | its inner loop over the names a server gave | connect and append, or leave out |
| `pick` | `mongo_find_candidate_servers` to `mongo_pick_server_from_set` | a choice, no candidate, the crash over a missing database |

`pool` is a function from hashes to the fields of a connection: set name,
credentials and process id are part of the hash, so the same server may be there
several times. A client's `servers` list is an array of 16 (`MaxServers`), and
discovery appends to it without a check (`manager.c` 170-171): so does the model.
`Overrun` is the state afterwards. The entry behind the array is `options.con_type`,
so no further request finds a case in the switch of `manager.c` 349-374, and the
candidates of the running one are filtered by seed and not by set; what else is
overwritten may end the worker at any moment (`OverrunCrashes`). No property forbids
this, because the code does not prevent it; `TypeOK` and `DiscoveryEnds` hold all the
same, and `ChosenIsVerified` up to then. An election moves the type `PRIMARY` between
any two exchanges; what the pool says of a member changes only when it is asked.

### Writes and the code

A connection is made by `mongo_connection_create`, which asks for the server's flags
and does not look at whether there was an answer (`connections.c` 263): it may
come later, or its body may be left on the stream (`NewConnections`). The first ping
is due at once.

One connection with two queues: `inbox`, what the server has not read, and
`stream`, what the driver has not read. A call goes through `connection` (connect,
or a ping if one is due), `send` (`send_message` or the query of a command) and
`reply` (`php_mongo_get_reply`). The server executes requests in order and keeps
the last error of the connection; it may refuse any write. `missed` and `aligned`
remember that a read failed and that the rest of a message is still on the
stream. A write that fails in `reply` leaves the connection in the pool, a command
takes it along. `call.waits` and `call.gle` are what the two functions of
`WriteConcern` make of the connection string, the property `w` and the options:
the model keeps them apart as the code does.

### GridFS and the code

Workers store (`storeBytes`, `storeFile` from a name or a descriptor, `put`),
remove, drop and read (`getBytes`, `write`, a stream with seeks), one call to the
server at a time. A write is done or not, and is said to have worked or not: an
answer may be lost, or be an error (a `wtimeout`) of a write that is done, and a
write that is not acknowledged always seems to have worked (`Outcomes`). Chunks and
documents are acknowledged by the options of the store (`acked`); the index and the
removal of stale chunks are not given these, and the default of the client decides
(`default`; `gridfs.c` 157 and 381, `is_gle_op`). The comment in `gridfs.c` 119-120
("GridFS is forced in our codebase to be w=1") is not so for these two. Readers ensure
the index, too (`ReadIndex`), which drops duplicates.

A stream computes with ints and `size_t`: `IntSize` and `SizeT` are the numbers of
their values, `ToInt` and `ToSizeT` the conversions. A seek is refused behind the end
only, so a position may be negative and wraps around; `astray` remembers that. No
chunk fits the buffer of a file whose chunk size is -1, so each of its reads fails.

A byte is a pair of a store and a position, so that a property can say whose bytes a
reader got. `stored` and `touched` are history. `stored` are the stores that returned an
id and that nobody removes, of acknowledged stores by clients that wait for their
writes by default. Without the latter `StoredIsComplete` does not hold: the index may
be missing, two stores leave chunks of one number, and the next index drops one of
them. `leaves` is the history of a store that was told of a failure although the
write was done, or whose own removal failed.

### Settings and the code

The client goes through `ParseHosts`, `GiveOption` (from the URL), `UrlDone`,
`GiveOption` (from the array) and `Construct`; then databases, a collection or
cursor, authentication and queries, each of which may discover servers, fail to
connect, or fail to authenticate. `links` are the lists of servers: that of the
client and that of a clone (`selectDB` with credentials of another database).
Databases, collections and cursors copy the preference; a query lends its own to
the client and gives the client's back. `own` is history: the preference a client
was given.

Databases on the list of the client share its credentials. A database that was
selected before another one authenticates uses those of the other from then on
(`db.c` 771), which is what authenticating a connection means here; `CredentialsStay` is
about what `selectDB` hands on and about the lists that are not shared.

## Runs

| Run | Bounds | What it shows |
| --- | --- | --- |
| `lifecycle` | 1 server under 2 hashes, 2 seeds, 2 addresses, 2 descriptors, 2 cursors, 2 ids, 1 document | `TypeOK`, `CallbacksAreSound`, `SessionsAreSound`, `NoForgottenServerCursor`; the driver implements `CursorSessions` |
| `one_seed` | 1 server, 1 descriptor, 2 addresses, 2 cursors, 2 ids, 2 documents, limits 0 and 1 | two cursors on one connection do not disturb each other (`SessionsAreSound`, `OnlyEndedSessionsAreKilled`); `LimitIsRespected` |
| `calls_return` | 2 servers, 2 seeds, 2 addresses, 2 descriptors, 1 cursor, 1 document, and fairness | `EveryCallReturns` |
| `replica_set` | 4 names (2 members, an alias of one, a server of another set), 3 clients, 2 processes, 2 round trip times, an array of 3 | `DiscoveryEnds`; `ChosenIsVerified`, `PickMeetsPreference` |
| `writes` | 3 calls, 6 settings, 9 options, 4 methods and commands | `SuccessIsOwn`, `NothingLeftBehind`, `ConcernIsHonoured` |
| `gridfs` | 2 workers, 1 `_id`, files of 0 to 3 bytes in chunks of 1 or 2, chunk sizes 0 and -1, ints of 8 values, 2 stores, 1 remove, 1 stream | `StoredIsComplete`, `FailureLeavesNothing`, `ReadIsStored` |
| `settings` | 1 client and its clone, 2 databases, lists of 2 servers, 2 options, 1 tag set, 2 setter calls | `ServersAgree`, `CredentialsStay`, `ClientKeepsPreference` |
| `one_primary_candidate`, `failed_store` | as `replica_set` with 1 process, as `gridfs` | statements in the sources that the code does not keep; see Findings |
| `connection_is_allocated`, `open_cursor_has_server`, `dead_means_terminated` | as `calls_return`, with 2 cursors | statements in the sources that the code does not keep; see Findings |

Two seeds are the smallest instance in which one operation destroys the connection
of a cursor it has nothing to do with, and goes on; that both lead to one server
lets one connection be taken for the other, and two ids let two cursors be open
there at once (two servers allow no more, and are what `calls_return` has). Two
addresses and two descriptors let both be reused while the other is in use. On the
one connection of `one_seed` the cursors meet in the cursor list. One document makes
"exhausted" and "not exhausted" differ; two with limit 1 make the limit bite
within a batch. `MaxDocs` bounds the documents of one query, `CursorIds` the
sessions per server; both only cut executions short. Addresses, descriptors and
cursors are interchangeable (`MCSymmetry`), and `MCView` drops the fields of
unallocated connections, which no step reads while `SessionsAreSound` holds, and whether
a server has closed a cursor that nobody can ask for any more.
`calls_return` uses neither, as it checks liveness.

`replica_set`: the alias makes the name a server gives itself differ from the one it
was reached under, the other set makes a refusal possible, three clients in turn
(one without discovery) leave each other's connections in the pool, and an array of
three is as long as the list of a discovery in which nothing is asked in vain: a member
that is connected again is appended again, and the array overrun. Of a parent's connections the view keeps what the
properties of the child can see. `writes`: an answer that comes too late needs a
second call to take it and a third to be wrong because of that. `MCView` replaces
request ids by their distance to the counter and drops from later calls what they
have in common. Settings and options contain every type of value each of the two
functions treats differently, and the combinations in which they could disagree.
`gridfs`: two stores under one `_id` are what a failing store could damage; three
bytes are two chunks of which one is not full, and only from one full chunk to the
next does a stream read on in one call; a chunk size of 0 is kept in the
document and is what streams divide by; with ints of 8 values a file of 3 bytes is the
longest, and every seek before its beginning is tried. One stream at a time is enough,
as streams write nothing. `settings`: a second server is needed
for lists to disagree, two databases for credentials to be another's, two options to
give a user and a password, two setter calls to go to a preference and back. The two
databases are interchangeable (`MCSymmetry`).

Deadlock is not checked in `writes` and `gridfs`, where the number of calls is
bounded, and a call without a timeout waits for ever for an answer that is lost.

Fairness: `FairSpec` is weak fairness of `Step`, the steps of a call in
progress. The code runs by itself between two exchanges, and each exchange ends
by an answer, an error or a timeout (`connectTimeoutMS`, `socketTimeoutMS`, the
cursor's `timeout`). Two settings are outside that assumption: a cursor timeout of
-1, which waits for ever, and a stream of signals, as EINTR restarts the timeout
(`io.c` 62-68). Calls, failures and servers are never assumed to act.

### Findings

* A cursor that is exhausted or was killed keeps `connection`, without a
  callback (`cursor.c` 1567-1570); the pointer outlives the connection, against
  `php_mongo.h` 421-422.
* `mongo_cursor_mark_dead` leaves `cursor_id` set without a server, against
  `php_mongo.h` 419-420.
* `dead` is never cleared and `hasNext` does not look at it, so a cursor on a new,
  working connection still reports "the connection has been terminated"
  (`cursor.c` 59) from `next`.
* A member of the set that an earlier client connected to is not asked again by a
  client that does not list it (`manager.c` 158-163), so after an election two
  candidates may be of type `PRIMARY`, against `read_preference.c` 424-425
  ("there is only going to be one server").
* A store of which the insert into `fs.files` is done but not answered removes its
  chunks and leaves the document, against `gridfs.c` 519 ("nothing to cleanup
  there anyway").

A note without a run: `php_mongo.h` 445-446 says that a destroyed connection
sweeps the cursor list. `mongo_connection_destroy` does not. The model keeps the
stale nodes, and the properties hold all the same: a node is taken for a
cursor's only together with its socket, and ids are not used twice.

## Proofs

`CursorLifecycleProof` proves, for any servers, seeds, addresses, descriptors,
cursors, ids and bounds that satisfy `ConstantsAssumption`, that `Spec` implies
always `TypeOK`, `CallbacksAreSound`, `SessionsAreSound` and `NoForgottenServerCursor`. None of them is inductive by itself:

* `SessionsAreSound` needs to know that a query goes out over an allocated
  connection with the callback in place, and that OP_GET_MORE is sent only with a
  session: `CallInv`, what the next step of the call in progress relies on.
* `NoForgottenServerCursor` needs the converse of a session: what the server
  holds under the id of a cursor was opened over that cursor's connection or is
  gone, it is open over an allocated connection to that very server, and two
  cursors of one server, over one connection or two, have different ids: `ServerInv`.
* Both need that a hash or a descriptor names one connection and that it leads where
  its hash says: `PoolInv`.
* `CallbacksAreSound` needs an object that is not alive to have no connection, for
  its memory is used again: `CallInv`.

`IInv == TypeOK /\ CallInv /\ CoreInv` is the conjunction. `CallKinds` and
`StepKinds` sort the actions by what they do to the core: nothing (`Quiet`), give
up one cursor's session (`Releases`: exhaustion, a kill, a reset, the end of the
object), or end connections (`Destroys`: whoever destroys them, with whatever the
server did and whatever had been read of a header before). `CoreUnchanged`,
`ReleaseCore` and `DestroyCore` carry these; what is left are four actions
(`SeedConnects`, `PickForCursor`, `QueryReply`, `NewCursor`) and the environment,
each with lemmas of its own. `CallInv` has lemmas per group of actions.

`CursorSessionsProof` reuses the kinds. A step that releases is `Close`, one that
destroys is `Lose` for the links (hashes) of its connections, a first batch is `Open`,
and a server's timeout or a new connection touches no session: this gives
`SessionsImplemented`, the refinement. That two cursors of one server differ in the id
gives `KillsOnlyTheEnded`.

`CursorLimitProof` adds `LimitInv`: OP_GET_MORE is only sent when the limit has not
been reached, and neither `at` nor `limit` changes before the reply.

`SettingsProof` proves all four properties of `Settings`, for any names, users,
options and bounds that satisfy `SettingsAssumption`. Its invariant
says that every list is `Good` (its servers agree, and discovery, which appends a
copy of one of them, keeps that), what the call in progress relies on (`CallGood`), and `Kept`: a list
has its own preference, or a query holds it back and will restore it. `Kept` is
what makes `ClientKeepsPreference` inductive. `CredentialsStay` needs `Separate`
besides: no two databases share a list that is not the client's, so whoever
authenticates on one does it for itself.

`WritesProof` proves `TypeOK`, `SuccessIsOwn` and `NothingLeftBehind` for any number
of calls, any settings and any options. Its invariant has three facts about the
connection:

* ids: whatever is on the connection has an id given out before, so only a request
  of this call can have the id it waits for (`Issued`, `Belongs`);
* truth: a getlasterror directly follows its write, and the server's last error is
  of that write when its turn comes, so an answer that says ok speaks of a call that
  was executed, even if nobody reads it in time (`Backed`, `Truthful`);
* debt: as long as no read failed and nothing broke, exactly one answer is owed
  while a ping or a reply is waited for, and none otherwise (`Debt`).

Lemmas say what pushing, serving and taking a message does to each of the three;
the steps of the program are combinations of these.

`ConcernIsHonoured`, proved there too, needs `Asked`: from the call to its end, what is
waited for and what is sent are the two functions of `WriteConcern` applied to the
options as they were given. What the functions then make of a mode, of a number and of
nothing stated is a lemma each (`ModeIsSent`, `NumberIsSent`, `DefaultIsSent`), for every
number and every combination.

`ReplicaSetProof` proves `TypeOK`, `ChosenIsVerified`, `PickMeetsPreference` and `DiscoveryEnds` for any hosts, clients, processes, ping times
and forks. None is inductive, for a choice is made from what earlier clients left in
the pool. The invariant says of every pooled connection that an `ismaster` was
answered over it (`Verified`), which puts it in its set under the name it gives itself,
or that none was (`Unverified`), and then its hash has no set name or it belongs to one of
the servers that this very request has still to ask (`Outstanding`). A choice is made
when nothing is outstanding. A list that outgrows its array is not excluded; what is claimed of
a choice is claimed up to then. `Consistent` ties the local variables of
`mongo_discover_topology` to the list they iterate over.

`PickMeetsPreference` follows from lemmas about the operators of `ReadPreference`,
which `ReadPreferenceProof` proves by themselves: the first of some sorted order is a
least element of it, `SelectNearest` keeps what is within the cutoff of the first, and
whoever is picked is one of those. They hold for any finite set of candidates.

`DiscoveryEnds` is an action property: each step of a discovery makes `Measure` smaller
in the lexicographic order. Its first component counts the servers not asked yet
together with the members that are not connected (finite sets, with the theorems about
cardinality): a host that is appended is one more to ask, and one less that is not
connected. The other two order the steps between: whether the hosts of an answer are
being gone through, and how many of them are left. The case that needs care is a server that
is asked in vain: its connection is destroyed, so a member may have to be connected again, but
that server has been asked (`LostIsOne`, `AskedInVain`).

`GridFSProof` proves `TypeOK`, `StoredIsComplete`, `FailureLeavesNothing` and `ReadIsStored`
for any workers, ids, files, chunk sizes and numbers of stores and removes. Its
invariant has four parts, each needed because workers meet in the collections only:

* `Typed`: types, under the store numbers given out so far. A store that is refused
  by the index adds no chunk.
* `Owned`: running stores have numbers of their own, and one that knows the fate of what it
  sent remembers each of its chunks in `cleanup_ids`; so what it removes when it fails is its
  own, and all that is its own. From this follows `FailureLeavesNothing`.
* `Kept`: a store that nobody disturbs has all chunks up to its position, and a
  stored file keeps one for each piece of what was written. It needs that a remover
  has `touched` whomever it can hurt (`Clear`), and that there is an index as soon as a
  store has begun to send of which this is claimed: by a client that waits for the
  index. From this follows `StoredIsComplete`.
* `Known`: nobody has seen the document of a store that is under way (`Unseen`), and whoever
  reads a stored file has its bytes so far and stands at the end of a chunk; a stream's
  buffer is the chunk that `chunkId` says, and its place in it is that of the offset
  (`InStep`, `RightStream`); of one that is astray only what is needed once it is
  sought into the file again. From this follows `ReadIsStored`.

Storers, removers and readers disturb different parts. `TypedStep`, `OwnedStep`,
`KeptStep` and `KnownStep` carry what a worker leaves alone, `StoreStep`, `RemoverStep`
and `ReaderStep` say what is left to show for each kind; the rest is the arithmetic of
chunks and offsets (`DivMod`, `PieceIs`, `CopiedRight`).

Every invariant and every action property of the passing runs is proved. Only
model-checked is `EveryCallReturns`: liveness and ENABLED are out of the prover's
reach. No module uses RECURSIVE, and no theorem is by induction over data.

The proofs assume the named assumptions of the models and nothing else:

* `ConstantsAssumption`, `SettingsAssumption`: types of the constants, at least one seed, and
  ids other than 0, which is "no cursor".
* `WritesAssumption`: options are PHP values, absent, boolean, any number or any
  string (`Arguments`), and so are the settings of the connection string.
* `ReplicaSetAssumption`: finitely many hosts; the alias of a host is in the same set; who
  can be primary is a member under its own name; the seeds fit the array of servers
  (`parse.c` fills it without a check, too, and this is not modelled); a client with a set name discovers
  (`parse.c` 323-349). Round trip times are below `MaxPing`, the bound that stands for
  infinity.
* `GridFSAssumption`: an int has an even number of values, a `size_t` a multiple of it, and
  lengths, chunk sizes and the bytes asked of a stream are ints; PHP never asks for 0
  bytes, so `Counts` are positive. `NULLAssumption`, here and in
  `Settings`: the value for "nothing" is not a document, or a call.

## Not modelled

* BSON (`bson.c`) and the types: byte conversions without state. That encoding
  may fail in the middle of a request is in the models. MongoId's counter is listed
  as a hazard only: ids repeat after 2^24 of them within a second.
* Exceptions, logging, INI settings, class registration: no state that the
  properties could tell apart.
* In the cursor: `explain()`, negative limits, batch size, tailable cursors, the
  query options that are only stored, what is sent to a `mongos` about the
  preference.
* In the pool: the nonce and key of authentication (it succeeds or fails), SSL,
  threads. In `CursorLifecycle` also ping intervals (a ping that is skipped is
  `SeedIsConnected`) and the choice among near servers (any candidate), which
  `ReplicaSet` has.
* In the connection string: its characters, and the timeouts, which are stored
  without regard for anything else. In the hash: its characters, and MD5.
* In databases and collections: the helpers that only build the document of a
  command (`group`, `aggregate`, `distinct`, profiling, indexes but `ensureIndex`);
  `Writes` has the exchange they share.
* A header that arrives in two segments (`cursor.c` 118): a header is read as a
  whole.

## Plan

Done: `CursorLifecycle` with its proofs and refinement, `ReplicaSet` with
`ReadPreference`, `Writes` with `WriteConcern` (these include what was planned as a
module for the wire protocol), `GridFS`, `Settings` (the connection string).

Proved: every invariant, every action property and the refinement of `CursorSessions`.

Next, in this order:

1. An abstract specification of `GridFS` (a file is stored, removed or read as a whole)
   that undisturbed acknowledged stores implement, and the refinement proved with `IInv`.
2. An abstract specification of `Writes` (calls are executed at most once, in order), with
   what a late answer may and may not do to it, and its refinement.
3. A property about an answer that is skipped by its header (`cursor.c` 195) on the path of
   `CursorLifecycle`, where `Writes` has it for writes and commands only.
