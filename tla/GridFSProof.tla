----------------------------- MODULE GridFSProof -----------------------------
(***************************************************************************)
(* A stored file is complete and is read as it was stored, and a store     *)
(* that fails leaves nothing, for any workers, files, chunk sizes and      *)
(* numbers of stores and removes.                                          *)
(*                                                                         *)
(* The invariant has a part for each of the four.  Typed: what is stored   *)
(* and under way.  Owned: running stores have numbers of their own, and a  *)
(* store that knows the fate of what it sent remembers each chunk of it.   *)
(* Kept: a store nobody disturbs has, and a stored file keeps, one chunk   *)
(* for each piece of what was written.  Known: nobody has seen the file of *)
(* a store that is still under way, and whoever reads a stored file has    *)
(* read its bytes up to the end of a chunk.                                *)
(***************************************************************************)
EXTENDS GridFS, SequenceTheorems, TLAPS

-----------------------------------------------------------------------------
(* Types, n being the stores begun *)

Byte == Nat \X Nat

Docs(n) == [s : 1..n, length : Nat, chunkSize : Int]

Chunks(n) == [key : (1..n) \X Nat, files_id : Ids, n : Nat, data : Seq(Byte)]

Stored(n) ==
    [id : Ids, s : 1..n, length : Nat, size : Nat \ {0}, chunkSize : Int]

StoreResults(n) ==
    [kind : {"store"}, id : Ids, s : 1..n, acked : BOOLEAN, leaves : BOOLEAN,
     status : {"id", "exception"}]

Data(n) ==
    [kind : {"data"}, s : 1..n, from : Nat, all : BOOLEAN, astray : BOOLEAN,
     data : Seq(Byte \cup {NULL})]

Parts == [kind : {"part"}, data : Seq(Byte \cup {NULL}), count : Nat]

IdleOps(n) ==
    [kind : {"none"}, pc : {"idle"}, result : StoreResults(n) \cup Data(n) \cup {NULL}]

Storers(n) ==
    [kind : {"store"}, pc : {"index", "chunk", "gle", "gle more", "file", "cleanup"},
     id : Ids, f : Files, s : 1..n, n : Nat, pos : Nat, cleanup_ids : Seq((1..n) \X Nat),
     failed : BOOLEAN, leaves : BOOLEAN]

\* Nothing is sent before there is an index.
StoreOps(n) ==
    {o \in Storers(n) : o.pc = "index" => o.n = 0 /\ o.pos = 0 /\ ~o.failed}

RemoveOps ==
    [kind : {"remove"}, pc : {"find", "drop", "drop files"}, ids : SUBSET Ids,
     justOne : BOOLEAN]
    \cup [kind : {"remove"}, pc : {"chunks"}, ids : SUBSET Ids, justOne : BOOLEAN,
          found : SUBSET Ids]

ReadOps(n) ==
    [kind : {"read"}, pc : {"index", "next"}, id : Ids, doc : Docs(n), max : Nat,
     at : Nat \cup {-1}, data : Seq(Byte)]

OpenStreams(n) ==
    [kind : {"stream"}, pc : {"open"}, id : Ids, doc : Docs(n), offset : Nat,
     chunkId : Nat \cup {-1}, buffer : Seq(Byte), buffer_offset : Nat,
     astray : BOOLEAN, result : Data(n) \cup {NULL}]

SecondReads(n) ==
    [kind : {"stream"}, pc : {"second"}, id : Ids, doc : Docs(n), offset : Nat,
     chunkId : Nat \cup {-1}, buffer : Seq(Byte), buffer_offset : Nat,
     astray : BOOLEAN, result : Parts]

\* A stream has a buffer only if chunks have a size.
Streams(n) ==
    {o \in OpenStreams(n) : o.doc.chunkSize > 0 \/ (o.doc.chunkSize = -1 /\ o.chunkId = -1)}
    \cup {o \in SecondReads(n) : o.doc.chunkSize > 0 /\ Len(o.result.data) < o.result.count}

Readers(n) == IdleOps(n) \cup ReadOps(n) \cup Streams(n)

Ops(n) == Readers(n) \cup StoreOps(n) \cup RemoveOps

\* A chunk is found by its key, and says the same itself.
TypedChunks(C, U, n) ==
    /\ C \subseteq Chunks(n)
    /\ \A c \in C : c.key[2] = c.n
    /\ U => \A c, d \in C : SamePlace(c, d) => c = d

Typed ==
    /\ stores \in 0..MaxStores /\ removes \in 0..MaxRemoves
    /\ unique \in BOOLEAN
    /\ files \in [Ids -> Docs(stores) \cup {NULL}]
    /\ TypedChunks(chunks, unique, stores)
    /\ op \in [Workers -> Ops(stores)]
    /\ stored \subseteq Stored(stores)
    /\ touched \subseteq 1..stores

-----------------------------------------------------------------------------
(* Whose a chunk is *)

\* What a store removes if it fails is its own, and all that is its own.
Accounted(o, C) ==
    o.kind = "store" =>
        /\ \A i \in 1..Len(o.cleanup_ids) : o.cleanup_ids[i][1] = o.s
        /\ o.leaves \/ \A c \in C :
             c.key[1] = o.s => \E i \in 1..Len(o.cleanup_ids) : o.cleanup_ids[i] = c.key

\* A store that failed has left nothing, unless it could not help it.
Quiet(o, C) ==
    o.pc = "idle" /\ o.result # NULL /\ o.result.kind = "store"
        /\ o.result.status = "exception"
        => o.result.leaves \/ \A c \in C : c.key[1] # o.result.s

\* o is not the store that has number s, neither under way nor done.
NotOf(o, s) ==
    /\ o.kind = "store" => o.s # s
    /\ o.pc = "idle" /\ o.result # NULL /\ o.result.kind = "store" => o.result.s # s

Owned ==
    /\ \A v, w \in Workers : v # w /\ op[w].kind = "store" => NotOf(op[v], op[w].s)
    /\ \A w \in Workers : Accounted(op[w], chunks) /\ Quiet(op[w], chunks)

-----------------------------------------------------------------------------
(* What is kept of a file *)

\* The k-th chunk of a file, and each of them.
Piece(s, id, size, length, k) ==
    [key |-> <<s, k>>, files_id |-> id, n |-> k,
     data |-> Bytes(s, k * size, IF length - k * size < size THEN length - k * size ELSE size)]

Whole(s, id, size, length, C) ==
    \A k \in Nat : k * size < length => Piece(s, id, size, length, k) \in C

Undisturbed(o, T) ==
    o.kind = "store" /\ o.f.acked /\ o.f.default /\ o.s \notin T

Complete(o, C, U, T) ==
    Undisturbed(o, T) /\ o.pc \in {"chunk", "gle", "gle more", "file"} =>
        /\ U
        /\ ~o.failed
        /\ Whole(o.s, o.id, Size(o.f), o.pos, C)
        /\ o.pos <= o.f.length
        /\ o.pc \in {"chunk", "gle more"} =>
             \/ o.pos = o.n * Size(o.f)
             \/ o.f.source # "fd" /\ o.pos = o.f.length
        /\ o.pc \in {"gle", "file"} /\ o.f.source # "fd" => o.pos = o.f.length

\* A remover has touched every store under its ids, and none of them is stored.
Clear(o, O, S, T) ==
    o.kind = "remove" =>
        /\ o.pc \in {"drop", "drop files"} => o.ids = Ids
        /\ o.pc = "chunks" => o.found \subseteq o.ids
        /\ \A w \in Workers : O[w].kind = "store" /\ O[w].id \in o.ids => O[w].s \in T
        /\ \A f \in S : f.id \notin o.ids

FileKept(f, F, C) ==
    /\ F[f.id] = [s |-> f.s, length |-> f.length, chunkSize |-> f.chunkSize]
    /\ f.chunkSize > 0 => f.size = f.chunkSize
    /\ f.length < IntSize \div 2
    /\ Whole(f.s, f.id, f.size, f.length, C)

Kept ==
    /\ \A w \in Workers : Complete(op[w], chunks, unique, touched)
    /\ \A w \in Workers : Clear(op[w], op, stored, touched)
    /\ stored # {} => unique
    /\ \A f \in stored : FileKept(f, files, chunks)

-----------------------------------------------------------------------------
(* What is known of a file *)

\* o reads the file of store s, or has read it.
Speaks(o, s) ==
    \/ o.kind \in {"read", "stream"} /\ o.doc.s = s
    \/ o.pc \in {"idle", "open"} /\ o.result # NULL /\ o.result.kind = "data" /\ o.result.s = s

Unseen(s, F, O) ==
    /\ \A id \in Ids : F[id] # NULL => F[id].s # s
    /\ \A v \in Workers : ~Speaks(O[v], s)

\* These bytes are those of file f from a position on.
Same(f, data, from) ==
    \A k \in 1..Len(data) : from + k <= f.length => data[k] = <<f.s, from + k - 1>>

OfFile(o, f) ==
    o.id = f.id /\ o.doc.length = f.length /\ o.doc.chunkSize = f.chunkSize

RightReader(o, f) ==
    o.kind = "read" /\ o.doc.s = f.s =>
        /\ OfFile(o, f)
        /\ Same(f, o.data, 0)
        /\ Len(o.data) < f.length => Len(o.data) = (o.at + 1) * f.size

\* The buffer is the chunk chunkId says.  In a stream that is not astray buffer_offset
\* is the place in it, and none of the numbers has wrapped.
InStep(o, f) ==
    /\ o.chunkId # -1 /\ o.chunkId * f.size < f.length =>
         o.buffer = Piece(f.s, f.id, f.size, f.length, o.chunkId).data
    /\ ~o.astray => o.offset < IntSize \div 2
    /\ ~o.astray /\ o.chunkId # -1 =>
         o.buffer_offset <= o.offset /\ o.buffer_offset % f.size = o.offset % f.size

RightStream(o, f) ==
    o.kind = "stream" /\ o.doc.s = f.s =>
        /\ OfFile(o, f)
        /\ InStep(o, f)
        /\ o.pc = "second" /\ ~o.astray =>
             /\ Same(f, o.result.data, o.offset)
             /\ o.offset + Len(o.result.data) = (o.offset \div f.size + 1) * f.size
             /\ o.offset \div f.size + 1 < f.length \div f.size

RightResult(o, f) ==
    o.pc \in {"idle", "open"} /\ o.result # NULL /\ o.result.kind = "data"
        /\ o.result.s = f.s /\ ~o.result.astray =>
        /\ Same(f, o.result.data, o.result.from)
        /\ IF o.result.all THEN Len(o.result.data) = f.length
           ELSE o.result.from < f.length => o.result.data # <<>>

Right(o, f) == RightReader(o, f) /\ RightStream(o, f) /\ RightResult(o, f)

Known ==
    /\ \A w \in Workers :
         op[w].kind = "store" /\ op[w].pc # "cleanup" => Unseen(op[w].s, files, op)
    /\ \A f \in stored, w \in Workers :
         op[w].kind = "store" => op[w].s # f.s
    /\ \A f \in stored, id \in Ids : files[id] # NULL /\ files[id].s = f.s => id = f.id
    /\ \A f \in stored, w \in Workers : Right(op[w], f)

IInv == Typed /\ Owned /\ Kept /\ Known

-----------------------------------------------------------------------------
(* Operations *)

\* What a worker does is told by its kind, and often by where it is.
LEMMA Kinds ==
    ASSUME NEW n, NEW o \in Ops(n)
    PROVE  /\ o.kind = "none" => o \in IdleOps(n)
           /\ o.kind = "store" => o \in StoreOps(n)
           /\ o.kind = "remove" => o \in RemoveOps
           /\ o.kind = "read" => o \in ReadOps(n)
           /\ o.kind = "stream" => o \in Streams(n)
           /\ o.kind \in {"none", "store", "remove", "read", "stream"}
  BY DEF Ops, Readers, IdleOps, StoreOps, Storers, RemoveOps, ReadOps, Streams, OpenStreams,
         SecondReads

LEMMA Places ==
    ASSUME NEW n, NEW o \in Ops(n)
    PROVE  /\ o.pc = "idle" <=> o.kind = "none"
           /\ o.pc = "open" => o.kind = "stream"
           /\ o.kind = "read" => o.pc \in {"index", "next"}
           /\ o.kind = "stream" => o.pc \in {"open", "second"}
           /\ o.kind = "stream" /\ o.pc = "open" => o \in OpenStreams(n)
           /\ o.kind = "stream" /\ o.pc = "second" => o \in SecondReads(n)
           /\ o.kind = "remove" /\ o.pc = "chunks" => o.found \in SUBSET Ids
  BY DEF Ops, Readers, IdleOps, StoreOps, Storers, RemoveOps, ReadOps, Streams, OpenStreams,
         SecondReads

\* The types only grow with the number of stores.
LEMMA DocsGrow ==
    ASSUME NEW n \in Nat, NEW m \in Nat, n <= m
    PROVE  /\ Docs(n) \subseteq Docs(m)
           /\ Chunks(n) \subseteq Chunks(m)
           /\ Stored(n) \subseteq Stored(m)
           /\ StoreResults(n) \subseteq StoreResults(m)
           /\ Data(n) \subseteq Data(m)
           /\ (1..n) \X Nat \subseteq (1..m) \X Nat
  <1>1. 1..n \subseteq 1..m
    OBVIOUS
  <1> QED
    BY <1>1 DEF Docs, Chunks, Stored, StoreResults, Data

LEMMA OpsGrow ==
    ASSUME NEW n \in Nat, NEW m \in Nat, n <= m
    PROVE  Ops(n) \subseteq Ops(m)
  <1>1. IdleOps(n) \subseteq IdleOps(m)
    BY DocsGrow DEF IdleOps
  <1>2. ReadOps(n) \subseteq ReadOps(m)
    BY DocsGrow DEF ReadOps
  <1>3. OpenStreams(n) \subseteq OpenStreams(m)
    BY DocsGrow DEF OpenStreams
  <1>4. SecondReads(n) \subseteq SecondReads(m)
    BY DocsGrow DEF SecondReads
  <1>5. Streams(n) \subseteq Streams(m)
    BY <1>3, <1>4 DEF Streams
  <1>6. StoreOps(n) \subseteq StoreOps(m)
    <2>1. Seq((1..n) \X Nat) \subseteq Seq((1..m) \X Nat)
      BY DocsGrow
    <2>2. 1..n \subseteq 1..m
      OBVIOUS
    <2> QED
      BY <2>1, <2>2 DEF StoreOps, Storers
  <1> QED
    BY <1>1, <1>2, <1>5, <1>6 DEF Ops, Readers

LEMMA SomeNumbers ==
    ASSUME GridFSAssumption
    PROVE  /\ MaxStores \in Nat /\ MaxRemoves \in Nat /\ ChunkSize \in Nat \ {0}
           /\ Counts \subseteq Nat \ {0}
           /\ \A f \in Files : /\ f.length \in Nat /\ f.length < IntSize \div 2
                               /\ f.chunkSize \in Int
                               /\ f.acked \in BOOLEAN /\ f.default \in BOOLEAN
                               /\ f.source \in {"bytes", "file", "fd"}
                               /\ Size(f) \in Nat \ {0}
  BY DEF GridFSAssumption, Size

\* A document is not NULL.
LEMMA NoDoc ==
    ASSUME NULLAssumption, Typed, NEW d \in Docs(stores)
    PROVE  d # NULL
  <1>1. 1..stores \subseteq 1..MaxStores
    BY GridFSAssumption, SomeNumbers DEF Typed
  <1> QED
    BY <1>1 DEF NULLAssumption, Docs

-----------------------------------------------------------------------------
(* What fewer chunks leave true *)

LEMMA FewerAccounted ==
    ASSUME NEW o, NEW C, NEW D, D \subseteq C, Accounted(o, C)
    PROVE  Accounted(o, D)
  BY DEF Accounted

LEMMA FewerQuiet ==
    ASSUME NEW o, NEW C, NEW D, D \subseteq C, Quiet(o, C)
    PROVE  Quiet(o, D)
  BY DEF Quiet

LEMMA FewerTyped ==
    ASSUME NEW n, NEW C, NEW D, NEW U, D \subseteq C, TypedChunks(C, U, n)
    PROVE  TypedChunks(D, U, n)
  BY DEF TypedChunks

\* A worker that stores nothing and speaks of no failed store leaves Owned alone.
LEMMA OwnedStep ==
    ASSUME IInv, NEW w \in Workers, NEW o,
           op' = [op EXCEPT ![w] = o], op[w].kind # "store", o.kind # "store",
           o.pc = "idle" => o.result = NULL \/ o.result.kind # "store",
           chunks' \subseteq chunks
    PROVE  Owned'
  <1>1. \A v \in Workers : op'[v] = IF v = w THEN o ELSE op[v]
    BY DEF IInv, Typed
  <1>2. \A s : NotOf(o, s)
    BY DEF NotOf
  <1>3. Accounted(o, chunks') /\ Quiet(o, chunks')
    BY DEF Accounted, Quiet
  <1>4. ASSUME NEW v \in Workers, NEW u \in Workers, v # u, op'[u].kind = "store"
        PROVE  NotOf(op'[v], op'[u].s)
    BY <1>1, <1>2, <1>4 DEF IInv, Owned
  <1>5. ASSUME NEW v \in Workers
        PROVE  Accounted(op'[v], chunks') /\ Quiet(op'[v], chunks')
    <2>1. CASE v = w
      BY <2>1, <1>1, <1>3
    <2>2. CASE v # w
      <3>1. Accounted(op[v], chunks) /\ Quiet(op[v], chunks)
        BY DEF IInv, Owned
      <3> QED
        BY <2>2, <1>1, <3>1, FewerAccounted, FewerQuiet
    <2> QED
      BY <2>1, <2>2
  <1> QED
    BY <1>4, <1>5 DEF Owned

\* One that speaks of no file but those that are there, or that it spoke of, leaves
\* Known alone, files and stored files may go.
LEMMA KnownStep ==
    ASSUME IInv, NEW w \in Workers, NEW o,
           op' = [op EXCEPT ![w] = o], op[w].kind # "store", o.kind # "store",
           \A id \in Ids : files'[id] = files[id] \/ files'[id] = NULL,
           stored' \subseteq stored,
           \A f \in stored' : Right(o, f),
           \A s : Speaks(o, s) => \/ Speaks(op[w], s)
                                  \/ \E id \in Ids : files[id] # NULL /\ files[id].s = s
    PROVE  Known'
  <1>1. \A v \in Workers : op'[v] = IF v = w THEN o ELSE op[v]
    BY DEF IInv, Typed
  <1>2. ASSUME NEW v \in Workers, op'[v].kind = "store", op'[v].pc # "cleanup"
        PROVE  Unseen(op'[v].s, files', op')
    <2>1. v # w /\ op'[v] = op[v]
      BY <1>1, <1>2
    <2>2. Unseen(op[v].s, files, op)
      BY <1>2, <2>1 DEF IInv, Known
    <2>3. \A u \in Workers : ~Speaks(op'[u], op[v].s)
      BY <1>1, <2>2 DEF Unseen
    <2> QED
      BY <2>1, <2>2, <2>3 DEF Unseen
  <1>3. ASSUME NEW f \in stored', NEW v \in Workers
        PROVE  (op'[v].kind = "store" => op'[v].s # f.s) /\ Right(op'[v], f)
    BY <1>1 DEF IInv, Known
  <1>4. ASSUME NEW f \in stored', NEW id \in Ids, files'[id] # NULL /\ files'[id].s = f.s
        PROVE  id = f.id
    BY <1>4 DEF IInv, Known
  <1> QED
    BY <1>2, <1>3, <1>4 DEF Known

\* Neither storing nor removing leaves Kept alone.
\* One that does may only remove duplicates while there is no index.
LEMMA KeptStep ==
    ASSUME IInv, NEW w \in Workers, NEW o,
           op' = [op EXCEPT ![w] = o], op[w].kind # "store", o.kind \notin {"store", "remove"},
           UNCHANGED <<files, stored, touched>>, unique => unique' /\ chunks' = chunks
    PROVE  Kept'
  <1>1. \A v \in Workers : op'[v] = IF v = w THEN o ELSE op[v]
    BY DEF IInv, Typed
  <1>2. ASSUME NEW v \in Workers
        PROVE  Complete(op'[v], chunks', unique', touched)
    <2>1. CASE v = w
      BY <2>1, <1>1 DEF Complete, Undisturbed
    <2>2. CASE v # w
      <3>1. Complete(op[v], chunks, unique, touched) /\ op'[v] = op[v]
        BY <2>2, <1>1 DEF IInv, Kept
      <3>2. CASE unique
        BY <3>1, <3>2 DEF Complete
      <3>3. CASE ~unique
        BY <3>1, <3>3 DEF Complete
      <3> QED
        BY <3>2, <3>3
    <2> QED
      BY <2>1, <2>2
  <1>3. ASSUME NEW v \in Workers
        PROVE  Clear(op'[v], op', stored, touched)
    <2>1. CASE v = w
      BY <2>1, <1>1 DEF Clear
    <2>2. CASE v # w
      <3>1. Clear(op[v], op, stored, touched)
        BY DEF IInv, Kept
      <3>2. \A u \in Workers : op'[u].kind = "store" => op'[u] = op[u]
        BY <1>1
      <3> QED
        BY <2>2, <1>1, <3>1, <3>2 DEF Clear
    <2> QED
      BY <2>1, <2>2
  <1>4. /\ stored # {} => unique
        /\ \A f \in stored : FileKept(f, files, chunks)
    BY DEF IInv, Kept
  <1>5. (stored # {} => unique') /\ \A f \in stored : FileKept(f, files, chunks')
    BY <1>4
  <1> QED
    BY <1>2, <1>3, <1>5 DEF Kept

\* A step of a reader that ensures the index.
LEMMA IndexStep ==
    ASSUME IInv, NEW w \in Workers, NEW o \in Readers(stores),
           op' = [op EXCEPT ![w] = o], op[w].kind # "store",
           UNCHANGED <<files, stores, removes, stored, touched>>,
           unique' \in BOOLEAN, TypedChunks(chunks', unique', stores), chunks' \subseteq chunks,
           unique => unique' /\ chunks' = chunks,
           o.pc = "idle" => o.result = NULL \/ o.result.kind # "store",
           \A f \in stored : Right(o, f),
           \A s : Speaks(o, s) => \/ Speaks(op[w], s)
                                  \/ \E id \in Ids : files[id] # NULL /\ files[id].s = s
    PROVE  IInv'
  <1>1. o.kind \notin {"store", "remove"}
    BY DEF Readers, IdleOps, ReadOps, Streams, OpenStreams, SecondReads
  <1>2. o \in Ops(stores)
    BY DEF Ops
  <1>3. Typed'
    <2>1. op' \in [Workers -> Ops(stores)]
      BY <1>2 DEF IInv, Typed
    <2> QED
      BY <2>1 DEF IInv, Typed
  <1>4. Owned'
    BY <1>1, OwnedStep
  <1>5. Kept'
    BY <1>1, KeptStep
  <1>6. Known'
    BY <1>1, KnownStep
  <1> QED
    BY <1>3, <1>4, <1>5, <1>6 DEF IInv

\* A step of a reader.
LEMMA ReaderStep ==
    ASSUME IInv, NEW w \in Workers, NEW o \in Readers(stores),
           op' = [op EXCEPT ![w] = o], op[w].kind # "store",
           UNCHANGED <<files, chunks, unique, stores, removes, stored, touched>>,
           o.pc = "idle" => o.result = NULL \/ o.result.kind # "store",
           \A f \in stored : Right(o, f),
           \A s : Speaks(o, s) => \/ Speaks(op[w], s)
                                  \/ \E id \in Ids : files[id] # NULL /\ files[id].s = s
    PROVE  IInv'
  <1>1. unique \in BOOLEAN /\ TypedChunks(chunks, unique, stores)
    BY DEF IInv, Typed
  <1>2. /\ unique' \in BOOLEAN /\ TypedChunks(chunks', unique', stores)
        /\ chunks' \subseteq chunks
        /\ unique => unique' /\ chunks' = chunks
    BY <1>1
  <1> QED
    BY <1>2, IndexStep

\* One that ends with nothing.
LEMMA IdleReader ==
    ASSUME NEW n
    PROVE  /\ Idle(NULL) \in Readers(n)
           /\ Idle(NULL).kind = "none" /\ Idle(NULL).pc = "idle" /\ Idle(NULL).result = NULL
           /\ \A s : ~Speaks(Idle(NULL), s)
           /\ \A f : Right(Idle(NULL), f)
           /\ Idle(NULL) \in Ops(n)
  <1>1. /\ Idle(NULL) \in IdleOps(n)
        /\ Idle(NULL).kind = "none" /\ Idle(NULL).pc = "idle" /\ Idle(NULL).result = NULL
    BY DEF Idle, IdleOps
  <1>2. \A s : ~Speaks(Idle(NULL), s)
    BY <1>1 DEF Speaks
  <1>3. \A f : Right(Idle(NULL), f)
    BY <1>1 DEF Right, RightReader, RightStream, RightResult
  <1> QED
    BY <1>1, <1>2, <1>3 DEF Readers, Ops

LEMMA ReaderFails ==
    ASSUME IInv, NEW w \in Workers, op[w].kind # "store", Fails(w),
           UNCHANGED <<files, chunks, unique, stores, removes, stored, touched>>
    PROVE  IInv'
  <1>1. op' = [op EXCEPT ![w] = Idle(NULL)]
    BY DEF Fails
  <1> QED
    BY <1>1, IdleReader, ReaderStep

-----------------------------------------------------------------------------
(* Division *)

LEMMA MultMonotone ==
    ASSUME NEW m \in Nat \ {0}, NEW a \in Int, NEW b \in Int
    PROVE  /\ a <= b <=> a * m <= b * m
           /\ a < b <=> a * m < b * m
           /\ (a + 1) * m = a * m + m
           /\ a * m \in Int
           /\ a \in Nat => a * m \in Nat
  OBVIOUS

LEMMA DivMod ==
    ASSUME NEW m \in Nat \ {0}, NEW n \in Int
    PROVE  /\ n \div m \in Int /\ n % m \in 0..(m - 1)
           /\ n = (n \div m) * m + (n % m)
           /\ n \in Nat => n \div m \in Nat
  <1>1. n \div m \in Int /\ n % m \in 0..(m - 1) /\ n = (n \div m) * m + (n % m)
    OBVIOUS
  <1>2. ASSUME n \in Nat, n \div m < 0
        PROVE  FALSE
    <2>1. n \div m + 1 <= 0
      BY <1>1, <1>2
    <2>2. (n \div m + 1) * m <= 0 * m
      BY <1>1, <2>1, MultMonotone
    <2> QED
      BY <1>1, <1>2, <2>2, MultMonotone
  <1> QED
    BY <1>1, <1>2

LEMMA Division ==
    \A n \in Nat, m \in Nat \ {0} :
        /\ n \div m \in Nat /\ n % m \in Nat /\ n % m < m
        /\ n = (n \div m) * m + (n % m)
  <1> TAKE n \in Nat, m \in Nat \ {0}
  <1>1. n \div m \in Nat
    BY DivMod
  <1>2. n % m \in 0..(m - 1) /\ n = (n \div m) * m + (n % m)
    OBVIOUS
  <1> QED
    BY <1>1, <1>2

LEMMA NextPlace ==
    \A k \in Nat, m \in Nat \ {0} :
        /\ k * m \in Nat /\ k + 1 \in Nat
        /\ (k + 1) * m = k * m + m /\ (k + 1) * m \in Nat
  BY MultMonotone

LEMMA DivModUnique ==
    ASSUME NEW m \in Nat \ {0}, NEW q \in Int, NEW r \in 0..(m - 1)
    PROVE  (q * m + r) \div m = q /\ (q * m + r) % m = r
  <1> DEFINE n == q * m + r
             d == n \div m
             t == n % m
  <1>1. n \in Int /\ d \in Int /\ t \in 0..(m - 1) /\ n = d * m + t
    BY MultMonotone, DivMod
  <1>2. ~(d < q)
    <2>1. SUFFICES ASSUME d + 1 <= q
                   PROVE  FALSE
      BY <1>1
    <2>2. (d + 1) * m <= q * m
      BY <1>1, <2>1, MultMonotone
    <2>3. (d + 1) * m = d * m + m /\ d * m \in Int /\ q * m \in Int
      BY <1>1, MultMonotone
    <2> HIDE DEF d, t
    <2> QED
      BY <1>1, <2>2, <2>3
  <1>3. ~(q < d)
    <2>1. SUFFICES ASSUME q + 1 <= d
                   PROVE  FALSE
      BY <1>1
    <2>2. (q + 1) * m <= d * m
      BY <1>1, <2>1, MultMonotone
    <2>3. (q + 1) * m = q * m + m /\ d * m \in Int /\ q * m \in Int
      BY <1>1, MultMonotone
    <2> HIDE DEF d, t
    <2> QED
      BY <1>1, <2>2, <2>3
  <1>4. d = q
    BY <1>1, <1>2, <1>3
  <1> QED
    BY <1>1, <1>4, MultMonotone

LEMMA RemainderOfLess ==
    \A m \in Nat \ {0}, x \in Nat : x < m => x % m = x /\ x \div m = 0
  <1> TAKE m \in Nat \ {0}, x \in Nat
  <1> HAVE x < m
  <1>1. x \in 0..(m - 1) /\ 0 \in Int /\ 0 * m + x = x
    OBVIOUS
  <1> QED
    BY <1>1, DivModUnique

\* A number of a file is an int, and an int is a size_t.
LEMMA Widths ==
    /\ IntSize \in Nat /\ IntSize \div 2 \in Nat /\ 0 < IntSize \div 2
    /\ \A x \in Int : ToSizeT(x) \in Nat /\ ToInt(x) \in Int
    /\ \A x \in Nat : x < IntSize \div 2 => ToSizeT(x) = x /\ ToInt(x) = x
  <1> DEFINE half == IntSize \div 2
  <1>1. /\ IntSize \in Nat \ {0} /\ half \in Nat /\ 0 < half
        /\ half + half = IntSize /\ SizeT \in Nat \ {0} /\ half < SizeT
    BY GridFSAssumption
  <1> HIDE DEF half
  <1>2. \A x \in Int : x % SizeT \in Nat /\ ((x + half) % IntSize) - half \in Int
    BY <1>1
  <1>3. \A x \in Nat : x < SizeT => x % SizeT = x
    BY <1>1, RemainderOfLess
  <1>4. \A x \in Nat : x < half => (x + half) % IntSize = x + half
    BY <1>1, RemainderOfLess
  <1>5. \A x \in Nat : x < half => x < SizeT /\ (x + half) - half = x
    BY <1>1
  <1> QED
    BY <1>1, <1>2, <1>3, <1>4, <1>5 DEF ToSizeT, ToInt, half

LEMMA ModAdd ==
    \A a, b, c \in Nat, m \in Nat \ {0} : a % m = b % m => (a + c) % m = (b + c) % m
  <1> TAKE a, b, c \in Nat, m \in Nat \ {0}
  <1> HAVE a % m = b % m
  <1> DEFINE q == a \div m - b \div m + (b + c) \div m
             r == (b + c) % m
  <1>1. q \in Int /\ r \in 0..(m - 1)
    BY DivMod
  <1>2. a = (a \div m) * m + (a % m) /\ b = (b \div m) * m + (a % m)
    BY DivMod
  <1>3. b + c = ((b + c) \div m) * m + r
    BY DivMod
  <1>4. q * m = (a \div m) * m - (b \div m) * m + ((b + c) \div m) * m
    <2>1. a \div m \in Int /\ b \div m \in Int /\ (b + c) \div m \in Int
      BY DivMod
    <2>2. \A x, y, z \in Int : (x - y + z) * m = x * m - y * m + z * m
      OBVIOUS
    <2> QED
      BY <2>1, <2>2
  <1>5. a + c = q * m + r
    <2> DEFINE x == (a \div m) * m
               y == (b \div m) * m
               z == ((b + c) \div m) * m
               t == a % m
               k == q * m
    <2>1. x \in Int /\ y \in Int /\ z \in Int /\ t \in Int /\ r \in Int
      BY DivMod, MultMonotone
    <2>2. a = x + t /\ b = y + t /\ b + c = z + r /\ k = x - y + z
      BY <1>2, <1>3, <1>4
    <2> HIDE DEF x, y, z, t, k, q, r
    <2>3. a + c = k + r
      BY <2>1, <2>2
    <2> QED
      BY <2>3 DEF k
  <1> HIDE DEF q, r
  <1>6. (a + c) % m = r
    BY <1>1, <1>5, DivModUnique
  <1> QED
    BY <1>6 DEF r

LEMMA ModMod ==
    ASSUME NEW m \in Nat \ {0}, NEW a \in Nat
    PROVE  (a % m) % m = a % m
  <1>1. a % m \in 0..(m - 1)
    BY DivMod
  <1>2. \A r \in 0..(m - 1) : (0 * m + r) % m = r
    BY DivModUnique
  <1>3. \A r \in 0..(m - 1) : r % m = r
    BY <1>2
  <1> QED
    BY <1>1, <1>3

-----------------------------------------------------------------------------
(* The chunks of a file *)

LEMMA BytesAre ==
    ASSUME NEW s \in Nat, NEW from \in Nat, NEW n \in Nat
    PROVE  /\ Bytes(s, from, n) \in Seq(Byte)
           /\ Len(Bytes(s, from, n)) = n
           /\ \A i \in 1..n : Bytes(s, from, n)[i] = <<s, from + i - 1>>
  BY DEF Bytes, Byte

\* The bytes of a piece.
PieceData(s, id, size, length, k) == Piece(s, id, size, length, k).data

LEMMA PieceIs ==
    ASSUME NEW s \in Nat, NEW id, NEW size \in Nat \ {0}, NEW length \in Nat, NEW k \in Nat,
           k * size < length
    PROVE  /\ PieceData(s, id, size, length, k) \in Seq(Byte)
           /\ Len(PieceData(s, id, size, length, k)) \in 1..size
           /\ k * size + Len(PieceData(s, id, size, length, k)) <= length
           /\ k * size + Len(PieceData(s, id, size, length, k)) < length
                => Len(PieceData(s, id, size, length, k)) = size
           /\ \A i \in 1..Len(PieceData(s, id, size, length, k)) :
                PieceData(s, id, size, length, k)[i] = <<s, k * size + i - 1>>
           /\ k * size \in Nat
  <1> DEFINE d == PieceData(s, id, size, length, k)
             from == k * size
             n == IF length - from < size THEN length - from ELSE size
  <1>1. from \in Nat
    BY MultMonotone
  <1>2. from < length
    OBVIOUS
  <1>3. d = Bytes(s, from, n)
    BY DEF Piece, PieceData
  <1> HIDE DEF from, d
  <1>4. /\ n \in 1..size /\ n \in Nat
        /\ from + n <= length
        /\ from + n < length => n = size
    BY <1>1, <1>2
  <1> HIDE DEF n
  <1>5. /\ Bytes(s, from, n) \in Seq(Byte)
        /\ Len(Bytes(s, from, n)) = n
        /\ \A i \in 1..n : Bytes(s, from, n)[i] = <<s, from + i - 1>>
    BY <1>1, <1>4, BytesAre, Zenon
  <1>6. d \in Seq(Byte) /\ Len(d) = n /\ \A i \in 1..n : d[i] = <<s, from + i - 1>>
    BY <1>3, <1>5, Zenon
  <1> QED
    BY <1>1, <1>4, <1>6 DEF from, d

LEMMA StoredTypes ==
    ASSUME IInv, NEW f \in stored
    PROVE  /\ f.id \in Ids /\ f.s \in Nat /\ f.length \in Nat /\ f.size \in Nat \ {0}
           /\ f.chunkSize \in Int /\ f.s \in 1..stores /\ stores \in Nat
  BY GridFSAssumption DEF IInv, Typed, Stored

\* Under the place of a chunk of a stored file that chunk is found, and no other.
LEMMA FoundPiece ==
    ASSUME IInv, NEW f \in stored, NEW k \in Nat, k * f.size < f.length
    PROVE  /\ Piece(f.s, f.id, f.size, f.length, k) \in chunks
           /\ \A c \in chunks :
                c.files_id = f.id /\ c.n = k => c = Piece(f.s, f.id, f.size, f.length, k)
  <1>1. Piece(f.s, f.id, f.size, f.length, k) \in chunks
    BY DEF IInv, Kept, FileKept, Whole
  <1>2. unique
    BY DEF IInv, Kept
  <1>3. \A c, d \in chunks : SamePlace(c, d) => c = d
    BY <1>2 DEF IInv, Typed, TypedChunks
  <1>4. \A c \in chunks : c.files_id = f.id /\ c.n = k
                             => SamePlace(c, Piece(f.s, f.id, f.size, f.length, k))
    BY DEF SamePlace, Piece
  <1> QED
    BY <1>1, <1>3, <1>4

-----------------------------------------------------------------------------
(* Reading *)

LEMMA StoreOfFile ==
    ASSUME IInv, NEW f \in stored, NEW id \in Ids, files[id] # NULL, files[id].s = f.s
    PROVE  id = f.id /\ files[id].length = f.length /\ files[id].chunkSize = f.chunkSize
  <1>1. id = f.id
    BY DEF IInv, Known
  <1>2. files[f.id] = [s |-> f.s, length |-> f.length, chunkSize |-> f.chunkSize]
    BY DEF IInv, Kept, FileKept
  <1> QED
    BY <1>1, <1>2

LEMMA FilesTyped ==
    ASSUME IInv, NEW id \in Ids, files[id] # NULL
    PROVE  files[id] \in Docs(stores) /\ files[id].length \in Nat /\ files[id].chunkSize \in Int
  BY DEF IInv, Typed, Docs

LEMMA IndexIs ==
    ASSUME NEW n, TypedChunks(chunks, unique, n), unique \in BOOLEAN,
           NEW done \in BOOLEAN, EnsuredIndex(done)
    PROVE  /\ chunks' \subseteq chunks
           /\ unique' \in BOOLEAN
           /\ TypedChunks(chunks', unique', n)
           /\ unique => unique' /\ chunks' = chunks
           /\ done => unique'
  <1>1. CASE ~done \/ unique
    <2>1. unique' = unique /\ chunks' = chunks
      BY <1>1 DEF EnsuredIndex
    <2> QED
      BY <1>1, <2>1
  <1>2. CASE ~(~done \/ unique)
    <2>1. unique' = TRUE
      BY <1>2 DEF EnsuredIndex
    <2>2. PICK kept \in SUBSET chunks :
             /\ \A c, d \in kept : SamePlace(c, d) => c = d
             /\ chunks' = kept
      BY <1>2 DEF EnsuredIndex
    <2>3. TypedChunks(chunks', unique', n)
      BY <2>2 DEF TypedChunks
    <2>4. unique' \in BOOLEAN
      BY <2>1
    <2> QED
      BY <1>2, <2>1, <2>2, <2>3, <2>4
  <1> QED
    BY <1>1, <1>2

LEMMA OutcomesAre ==
    ASSUME NEW acked \in BOOLEAN, NEW refused \in BOOLEAN, NEW r \in Outcomes(acked, refused)
    PROVE  /\ r.done \in BOOLEAN /\ r.ok \in BOOLEAN
           /\ r.done => ~refused
           /\ acked /\ r.ok => r.done
  BY DEF Outcomes

LEMMA UnsureOutcomes ==
    ASSUME NEW acked \in BOOLEAN, NEW r \in Outcomes(acked, FALSE)
    PROVE  r.done \in BOOLEAN /\ r.ok \in BOOLEAN /\ (acked /\ r.ok => r.done)
  <1>1. FALSE \in BOOLEAN
    BY Zenon
  <1> QED
    BY <1>1, OutcomesAre, Zenon

LEMMA FindFilePreserves ==
    ASSUME IInv, NEW w \in Workers, FindFile(w)
    PROVE  IInv'
  <1>1. PICK id \in Ids, room \in {0, 1} :
           /\ files[id] # NULL
           /\ op' = [op EXCEPT ![w] = [kind |-> "read", pc |-> "index", id |-> id,
                                       doc |-> files[id], max |-> files[id].length + room,
                                       at |-> -1, data |-> <<>>]]
    BY DEF FindFile
  <1> DEFINE o == [kind |-> "read", pc |-> "index", id |-> id, doc |-> files[id],
                   max |-> files[id].length + room, at |-> -1, data |-> <<>>]
  <1>2. o \in Readers(stores)
    <2>1. files[id] \in Docs(stores) /\ files[id].length + room \in Nat
      BY <1>1, FilesTyped
    <2>2. <<>> \in Seq(Byte)
      OBVIOUS
    <2> QED
      BY <2>1, <2>2 DEF ReadOps, Readers
  <1>3. op[w].kind # "store"
    BY Places DEF FindFile, IInv, Typed
  <1>4. ASSUME NEW f \in stored
        PROVE  Right(o, f)
    <2>1. RightReader(o, f)
      <3>1. SUFFICES ASSUME o.doc.s = f.s
                     PROVE  /\ OfFile(o, f)
                            /\ Same(f, o.data, 0)
                            /\ Len(o.data) = (o.at + 1) * f.size
        BY DEF RightReader
      <3>2. OfFile(o, f)
        BY <1>1, <3>1, StoreOfFile DEF OfFile
      <3>3. Same(f, o.data, 0)
        BY DEF Same
      <3>4. Len(o.data) = 0 /\ o.at + 1 = 0
        OBVIOUS
      <3>5. 0 * f.size = 0
        BY StoredTypes
      <3> QED
        BY <3>2, <3>3, <3>4, <3>5
    <2>2. RightStream(o, f) /\ RightResult(o, f)
      BY DEF RightStream, RightResult
    <2> QED
      BY <2>1, <2>2 DEF Right
  <1>5. ASSUME NEW s, Speaks(o, s)
        PROVE  \E i \in Ids : files[i] # NULL /\ files[i].s = s
    BY <1>1, <1>5 DEF Speaks
  <1>6. o.pc # "idle"
    OBVIOUS
  <1>7. op' = [op EXCEPT ![w] = o]
    BY <1>1
  <1> HIDE DEF o
  <1> QED
    BY <1>2, <1>3, <1>4, <1>5, <1>6, <1>7, ReaderStep DEF FindFile

\* Whoever reads a stored file finds the index there and drops nothing.
LEMMA ReadIndexPreserves ==
    ASSUME IInv, NEW w \in Workers, ReadIndex(w)
    PROVE  IInv'
  <1>1. /\ op[w].kind = "read" /\ op[w].pc = "index"
        /\ UNCHANGED <<files, stores, removes, stored, touched>>
    BY DEF ReadIndex, In
  <1>2. PICK r \in Outcomes(FALSE, FALSE) :
          /\ EnsuredIndex(r.done)
          /\ IF r.ok THEN op' = [op EXCEPT ![w].pc = "next"] ELSE Fails(w)
    BY DEF ReadIndex
  <1>3. /\ chunks' \subseteq chunks
        /\ unique' \in BOOLEAN
        /\ TypedChunks(chunks', unique', stores)
        /\ unique => unique' /\ chunks' = chunks
    <2>1. TypedChunks(chunks, unique, stores) /\ unique \in BOOLEAN
      BY DEF IInv, Typed
    <2>2. FALSE \in BOOLEAN
      BY Zenon
    <2>3. r.done \in BOOLEAN
      BY <2>2, UnsureOutcomes, Zenon
    <2> QED
      BY <1>2, <2>1, <2>3, IndexIs
  <1> DEFINE o == [op[w] EXCEPT !.pc = "next"]
  <1>4. CASE op' = [op EXCEPT ![w] = o]
    <2>1. op[w] \in ReadOps(stores) /\ \A f \in stored : Right(op[w], f)
      BY <1>1, Kinds DEF IInv, Typed, Known
    <2>2. /\ o \in ReadOps(stores) /\ o.kind = "read" /\ o.pc = "next"
          /\ o.id = op[w].id /\ o.doc = op[w].doc /\ o.data = op[w].data /\ o.at = op[w].at
      BY <2>1 DEF ReadOps
    <2> HIDE DEF o
    <2>3. o \in Readers(stores)
      BY <2>2 DEF Readers
    <2>4. ASSUME NEW f \in stored
          PROVE  Right(o, f)
      <3>1. RightReader(op[w], f)
        BY <2>1 DEF Right
      <3> QED
        BY <1>1, <2>2, <3>1 DEF Right, RightReader, RightStream, RightResult, OfFile
    <2>5. ASSUME NEW s, Speaks(o, s)
          PROVE  Speaks(op[w], s)
      BY <1>1, <2>2, <2>5 DEF Speaks
    <2> QED
      BY <1>1, <1>3, <1>4, <2>2, <2>3, <2>4, <2>5, IndexStep
  <1>5. CASE Fails(w)
    <2>1. op' = [op EXCEPT ![w] = Idle(NULL)]
      BY <1>5 DEF Fails
    <2> QED
      BY <1>1, <1>3, <2>1, IdleReader, IndexStep
  <1> QED
    BY <1>2, <1>4, <1>5

\* What follows what is the file's, and is the file's, is the file's.
LEMMA SameConcat ==
    ASSUME NEW f, f.length \in Nat, NEW S, NEW d \in Seq(S), NEW e \in Seq(S), NEW from \in Nat,
           Same(f, d, from),
           from + Len(d) < f.length => Same(f, e, from + Len(d))
    PROVE  Same(f, d \o e, from)
  <1>1. /\ Len(d) \in Nat /\ Len(e) \in Nat
        /\ Len(d \o e) = Len(d) + Len(e)
        /\ \A i \in 1..(Len(d) + Len(e)) : (d \o e)[i] = IF i <= Len(d) THEN d[i] ELSE e[i - Len(d)]
    OBVIOUS
  <1>2. ASSUME NEW k \in 1..Len(d \o e), from + k <= f.length
        PROVE  (d \o e)[k] = <<f.s, from + k - 1>>
    <2>1. CASE k <= Len(d)
      <3>1. k \in 1..Len(d)
        BY <1>1, <2>1
      <3> QED
        BY <1>1, <1>2, <2>1, <3>1 DEF Same
    <2>2. CASE k > Len(d)
      <3> DEFINE i == k - Len(d)
      <3>1. i \in 1..Len(e) /\ (from + Len(d)) + i <= f.length /\ from + Len(d) < f.length
        BY <1>1, <1>2, <2>2
      <3>2. e[i] = <<f.s, (from + Len(d)) + i - 1>>
        BY <3>1 DEF Same
      <3>3. (from + Len(d)) + i - 1 = from + k - 1
        BY <1>1
      <3> QED
        BY <1>1, <2>2, <3>2, <3>3
    <2> QED
      BY <1>1, <2>1, <2>2
  <1> QED
    BY <1>2 DEF Same

\* A piece is the file's, and reaches to its end or is full.
LEMMA PieceSame ==
    ASSUME IInv, NEW f \in stored, NEW k \in Nat, k * f.size < f.length
    PROVE  LET d == PieceData(f.s, f.id, f.size, f.length, k) IN
           /\ d \in Seq(Byte)
           /\ Len(d) \in 1..f.size
           /\ k * f.size + Len(d) <= f.length
           /\ k * f.size + Len(d) < f.length => Len(d) = f.size
           /\ Same(f, d, k * f.size)
           /\ k * f.size \in Nat
  <1> DEFINE d == PieceData(f.s, f.id, f.size, f.length, k)
  <1>1. f.s \in Nat /\ f.size \in Nat \ {0} /\ f.length \in Nat
    BY StoredTypes
  <1>2. /\ d \in Seq(Byte)
        /\ Len(d) \in 1..f.size
        /\ k * f.size + Len(d) <= f.length
        /\ k * f.size + Len(d) < f.length => Len(d) = f.size
        /\ \A i \in 1..Len(d) : d[i] = <<f.s, k * f.size + i - 1>>
        /\ k * f.size \in Nat
    BY <1>1, PieceIs
  <1>3. Same(f, d, k * f.size)
    BY <1>2 DEF Same
  <1> QED
    BY <1>2, <1>3

LEMMA ReadChunkRight ==
    ASSUME IInv, NEW w \in Workers, op[w] \in ReadOps(stores), NEW c \in chunks,
           NextInOrder(op[w], c), NEW f \in stored, op[w].doc.s = f.s
    PROVE  /\ Same(f, op[w].data \o c.data, 0)
           /\ Len(op[w].data \o c.data) < f.length
                => Len(op[w].data \o c.data) = (c.n + 1) * f.size
  <1> DEFINE o == op[w]
  <1>1. /\ o.kind = "read" /\ o.at \in Nat \cup {-1} /\ o.data \in Seq(Byte)
        /\ c.n \in Nat /\ c.data \in Seq(Byte)
    BY DEF ReadOps, IInv, Typed, TypedChunks, Chunks
  <1>2. /\ OfFile(o, f)
        /\ Same(f, o.data, 0)
        /\ Len(o.data) < f.length => Len(o.data) = (o.at + 1) * f.size
    BY <1>1 DEF IInv, Known, Right, RightReader
  <1>3. /\ Len(o.data) \in Nat /\ Len(c.data) \in Nat
        /\ Len(o.data \o c.data) = Len(o.data) + Len(c.data)
    BY <1>1
  <1>4. CASE Len(o.data) < f.length
    <2> DEFINE k == o.at + 1
               p == Piece(f.s, f.id, f.size, f.length, k)
    <2>1. k \in Nat
      BY <1>1
    <2>2. Len(o.data) = k * f.size
      BY <1>2, <1>4
    <2>3. p \in chunks
      BY <1>4, <2>1, <2>2, FoundPiece
    <2>4. p.files_id = f.id /\ p.n = k
      BY DEF Piece
    <2>5. p \in Unread(o)
      BY <1>1, <1>2, <2>3, <2>4 DEF Unread, OfFile
    <2>6. c.files_id = f.id /\ c.n = k
      <3>1. c \in Unread(o) /\ c.n <= p.n
        BY <2>5 DEF NextInOrder
      <3> QED
        BY <1>1, <1>2, <2>4, <3>1 DEF Unread, OfFile
    <2>7. c = p
      BY <1>4, <2>1, <2>2, <2>6, FoundPiece
    <2>8. /\ Len(c.data) \in 1..f.size
          /\ Same(f, c.data, k * f.size)
          /\ k * f.size + Len(c.data) < f.length => Len(c.data) = f.size
      <3>1. c.data = PieceData(f.s, f.id, f.size, f.length, k)
        BY <2>7 DEF PieceData
      <3> QED
        BY <1>4, <2>1, <2>2, <3>1, PieceSame
    <2> HIDE DEF k
    <2>9. Same(f, o.data \o c.data, 0)
      <3>1. 0 + Len(o.data) = k * f.size
        BY <1>3, <2>2
      <3> QED
        BY <1>1, <1>2, <2>8, <3>1, StoredTypes, SameConcat
    <2>10. ASSUME Len(o.data \o c.data) < f.length
           PROVE  Len(o.data \o c.data) = (c.n + 1) * f.size
      <3>1. Len(c.data) = f.size
        BY <1>3, <2>2, <2>8, <2>10
      <3>2. (k + 1) * f.size = k * f.size + f.size
        BY <2>1, StoredTypes, MultMonotone
      <3> QED
        BY <1>3, <2>2, <2>6, <3>1, <3>2
    <2> QED
      BY <2>9, <2>10
  <1>5. CASE ~(Len(o.data) < f.length)
    <2>1. ~(0 + Len(o.data) < f.length)
      BY <1>3, <1>5
    <2>2. Same(f, o.data \o c.data, 0)
      BY <1>1, <1>2, <2>1, StoredTypes, SameConcat
    <2>3. ~(Len(o.data \o c.data) < f.length)
      <3>1. f.length \in Nat
        BY StoredTypes
      <3>2. \A x, y, l \in Nat : ~(x < l) => ~(x + y < l)
        OBVIOUS
      <3> QED
        BY <1>3, <1>5, <3>1, <3>2, Zenon
    <2> QED
      BY <2>2, <2>3
  <1> QED
    BY <1>4, <1>5

LEMMA ReadChunkPreserves ==
    ASSUME IInv, NEW w \in Workers, ReadChunk(w)
    PROVE  IInv'
  <1> DEFINE o == op[w]
  <1>1. PICK c \in chunks :
           /\ NextInOrder(o, c)
           /\ IF Len(o.data) + Len(c.data) > o.max THEN Fails(w)
              ELSE op' = [op EXCEPT ![w].data = @ \o c.data, ![w].at = c.n]
    BY DEF ReadChunk
  <1>2. o \in ReadOps(stores) /\ o.kind = "read" /\ o.pc = "next"
    BY Kinds DEF ReadChunk, In, IInv, Typed
  <1>3. CASE Fails(w)
    BY <1>2, <1>3, ReaderFails DEF ReadChunk
  <1>4. CASE ~Fails(w)
    <2> DEFINE new == [o EXCEPT !.data = @ \o c.data, !.at = c.n]
    <2>1. c.n \in Nat /\ c.data \in Seq(Byte)
      BY DEF IInv, Typed, TypedChunks, Chunks
    <2>2. new \in ReadOps(stores)
      <3>1. o.data \o c.data \in Seq(Byte)
        BY <1>2, <2>1 DEF ReadOps
      <3> QED
        BY <1>2, <2>1, <3>1 DEF ReadOps
    <2>3. /\ new.kind = "read" /\ new.pc = "next" /\ new.doc = o.doc /\ new.id = o.id
          /\ new.data = o.data \o c.data /\ new.at = c.n
      BY <1>2 DEF ReadOps
    <2>4. op' = [op EXCEPT ![w] = new]
      BY <1>1, <1>4
    <2>5. \A f \in stored : Right(new, f)
      <3> SUFFICES ASSUME NEW f \in stored
                   PROVE  Right(new, f)
        OBVIOUS
      <3>1. ASSUME o.doc.s = f.s
            PROVE  /\ OfFile(o, f)
                   /\ Same(f, o.data \o c.data, 0)
                   /\ Len(o.data \o c.data) < f.length
                        => Len(o.data \o c.data) = (c.n + 1) * f.size
        <4>1. OfFile(o, f)
          BY <1>2, <3>1 DEF IInv, Known, Right, RightReader
        <4> QED
          BY <1>1, <1>2, <3>1, <4>1, ReadChunkRight
      <3>2. RightReader(new, f)
        BY <2>3, <3>1 DEF RightReader, OfFile
      <3>3. RightStream(new, f) /\ RightResult(new, f)
        BY <2>3 DEF RightStream, RightResult
      <3> QED
        BY <3>2, <3>3 DEF Right
    <2>6. \A s : Speaks(new, s) => Speaks(o, s)
      BY <1>2, <2>3 DEF Speaks
    <2> HIDE DEF new
    <2>7. new \in Readers(stores) /\ new.pc # "idle" /\ op[w].kind # "store"
      BY <1>2, <2>2, <2>3 DEF Readers
    <2> QED
      BY <2>4, <2>5, <2>6, <2>7, ReaderStep DEF ReadChunk
  <1> QED
    BY <1>3, <1>4

LEMMA ReadFailsPreserves ==
    ASSUME IInv, NEW w \in Workers, ReadFails(w)
    PROVE  IInv'
  BY ReaderFails DEF ReadFails, In

LEMMA EndOfFilePreserves ==
    ASSUME IInv, NEW w \in Workers, EndOfFile(w)
    PROVE  IInv'
  <1> DEFINE o == op[w]
             data == [k \in 1..o.doc.length |-> IF k <= Len(o.data) THEN o.data[k] ELSE NULL]
             r == [kind |-> "data", s |-> o.doc.s, from |-> 0, all |-> TRUE,
                   astray |-> FALSE, data |-> data]
             new == Idle(r)
  <1>1. o \in ReadOps(stores) /\ o.kind = "read"
    BY Kinds DEF EndOfFile, In, IInv, Typed
  <1>2. Unread(o) = {} /\ op' = [op EXCEPT ![w] = new]
    BY DEF EndOfFile
  <1>3. /\ o.doc \in Docs(stores) /\ o.doc.length \in Nat /\ o.doc.s \in 1..stores
        /\ o.data \in Seq(Byte) /\ o.at \in Nat \cup {-1}
    BY <1>1 DEF ReadOps, Docs
  <1>4. data \in Seq(Byte \cup {NULL}) /\ Len(data) = o.doc.length
    BY <1>3
  <1>6. r \in Data(stores)
    BY <1>3, <1>4 DEF Data
  <1>7. new \in Readers(stores)
    BY <1>6 DEF Idle, IdleOps, Readers
  <1>8. new.kind = "none" /\ new.pc = "idle" /\ new.result = r
    BY DEF Idle
  <1>9. /\ r.kind = "data" /\ r.s = o.doc.s /\ r.from = 0 /\ r.all = TRUE /\ r.data = data
    OBVIOUS
  <1>10. ASSUME NEW f \in stored
         PROVE  Right(new, f)
    <2>1. RightReader(new, f) /\ RightStream(new, f)
      BY <1>8 DEF RightReader, RightStream
    <2>2. ASSUME o.doc.s = f.s
          PROVE  Same(f, data, 0) /\ Len(data) = f.length
      <3>1. /\ OfFile(o, f)
            /\ Same(f, o.data, 0)
            /\ Len(o.data) < f.length => Len(o.data) = (o.at + 1) * f.size
        BY <1>1, <2>2 DEF IInv, Known, Right, RightReader
      <3>2. ~(Len(o.data) < f.length)
        <4>1. SUFFICES ASSUME Len(o.data) < f.length
                       PROVE  FALSE
          OBVIOUS
        <4> DEFINE k == o.at + 1
                   p == Piece(f.s, f.id, f.size, f.length, k)
        <4>2. k \in Nat /\ k * f.size < f.length
          BY <1>3, <3>1, <4>1
        <4>3. p \in chunks
          BY <4>2, FoundPiece
        <4>4. p.files_id = f.id /\ p.n = k
          BY DEF Piece
        <4>5. p \in Unread(o)
          BY <1>3, <3>1, <4>3, <4>4 DEF Unread, OfFile
        <4> QED
          BY <1>2, <4>5
      <3>3. Len(data) = f.length
        BY <1>4, <3>1 DEF OfFile
      <3>4. ASSUME NEW k \in 1..Len(data), 0 + k <= f.length
            PROVE  data[k] = <<f.s, 0 + k - 1>>
        <4>1. k \in 1..Len(o.data) /\ k <= Len(o.data) /\ k \in 1..o.doc.length
          BY <1>3, <1>4, <3>2, <3>3, <3>4, StoredTypes
        <4>2. data[k] = o.data[k]
          BY <4>1
        <4> QED
          BY <3>1, <3>4, <4>1, <4>2 DEF Same
      <3> QED
        BY <3>3, <3>4 DEF Same
    <2> HIDE DEF r, data, new
    <2>3. RightResult(new, f)
      BY <1>8, <1>9, <2>2 DEF RightResult
    <2> QED
      BY <2>1, <2>3 DEF Right
  <1> HIDE DEF r, data, new
  <1>11. ASSUME NEW s, Speaks(new, s)
         PROVE  Speaks(o, s)
    BY <1>1, <1>8, <1>9, <1>11 DEF Speaks
  <1>12. new.result.kind # "store" /\ op[w].kind # "store"
    BY <1>1, <1>8, <1>9
  <1> QED
    BY <1>2, <1>7, <1>10, <1>11, <1>12, ReaderStep DEF EndOfFile

\* A stream that has read nothing.
LEMMA OpenStreamPreserves ==
    ASSUME IInv, NEW w \in Workers, OpenStream(w)
    PROVE  IInv'
  <1>1. PICK id \in Ids :
           /\ files[id] # NULL
           /\ op' = [op EXCEPT ![w] =
                IF files[id].chunkSize = 0 \/ files[id].chunkSize < -1 THEN Idle(NULL)
                ELSE [kind |-> "stream", pc |-> "open", id |-> id, doc |-> files[id],
                      offset |-> 0, chunkId |-> -1, buffer |-> <<>>, buffer_offset |-> 0,
                      astray |-> FALSE, result |-> NULL]]
    BY DEF OpenStream
  <1>2. op[w].kind # "store"
    BY Places DEF OpenStream, IInv, Typed
  <1>3. CASE Fails(w)
    BY <1>2, <1>3, ReaderFails DEF OpenStream
  <1>4. CASE ~Fails(w)
    <2> DEFINE o == [kind |-> "stream", pc |-> "open", id |-> id, doc |-> files[id],
                     offset |-> 0, chunkId |-> -1, buffer |-> <<>>, buffer_offset |-> 0,
                     astray |-> FALSE, result |-> NULL]
    <2>1. op' = [op EXCEPT ![w] = o] /\ ~(files[id].chunkSize = 0 \/ files[id].chunkSize < -1)
      BY <1>1, <1>4 DEF Fails
    <2>2. files[id] \in Docs(stores) /\ (files[id].chunkSize > 0 \/ files[id].chunkSize = -1)
      BY <1>1, <2>1, FilesTyped
    <2>3. o \in OpenStreams(stores)
      <3>1. <<>> \in Seq(Byte)
        OBVIOUS
      <3> QED
        BY <2>2, <3>1 DEF OpenStreams
    <2>4. /\ o.kind = "stream" /\ o.pc = "open" /\ o.doc = files[id] /\ o.id = id
          /\ o.chunkId = -1 /\ o.result = NULL /\ o.offset = 0
      OBVIOUS
    <2> HIDE DEF o
    <2>5. o \in Readers(stores)
      BY <2>2, <2>3, <2>4 DEF Readers, Streams
    <2>6. ASSUME NEW f \in stored
          PROVE  Right(o, f)
      <3>1. o.doc.s = f.s => OfFile(o, f)
        BY <1>1, <2>4, StoreOfFile DEF OfFile
      <3>2. InStep(o, f)
        BY <2>4, Widths DEF InStep
      <3> QED
        BY <2>4, <3>1, <3>2 DEF Right, RightReader, RightStream, RightResult
    <2>7. ASSUME NEW s, Speaks(o, s)
          PROVE  \E i \in Ids : files[i] # NULL /\ files[i].s = s
      BY <1>1, <2>4, <2>7 DEF Speaks
    <2> QED
      BY <1>2, <2>1, <2>4, <2>5, <2>6, <2>7, ReaderStep DEF OpenStream
  <1> QED
    BY <1>3, <1>4

LEMMA ClosePreserves ==
    ASSUME IInv, NEW w \in Workers, Close(w)
    PROVE  IInv'
  BY ReaderFails DEF Close, In, Fails

\* What a stream is in the middle of a file that is stored.
LEMMA StreamIs ==
    ASSUME IInv, NEW w \in Workers, op[w].kind = "stream"
    PROVE  /\ op[w] \in Streams(stores)
           /\ op[w].pc \in {"open", "second"}
           /\ op[w].pc = "open" => op[w] \in OpenStreams(stores)
           /\ op[w].pc = "second" => op[w] \in SecondReads(stores) /\ op[w].doc.chunkSize > 0
                                     /\ Len(op[w].result.data) < op[w].result.count
           /\ op[w].doc.chunkSize > 0 \/ (op[w].doc.chunkSize = -1 /\ op[w].chunkId = -1)
           /\ \A f \in stored : RightStream(op[w], f)
           /\ op[w].id \in Ids /\ op[w].doc \in Docs(stores) /\ op[w].offset \in Nat
           /\ op[w].chunkId \in Nat \cup {-1} /\ op[w].buffer \in Seq(Byte)
           /\ op[w].buffer_offset \in Nat /\ op[w].astray \in BOOLEAN
  <1>1. op[w] \in Streams(stores)
    BY Kinds DEF IInv, Typed
  <1>2. \A f \in stored : RightStream(op[w], f)
    BY DEF IInv, Known, Right
  <1> QED
    BY <1>1, <1>2 DEF Streams, OpenStreams, SecondReads

\* A stream that forgets its result, or returns some other.
LEMMA StreamStep ==
    ASSUME IInv, NEW w \in Workers, op[w].kind = "stream", NEW o \in Streams(stores),
           o.kind = "stream", o.pc \in {"open", "second"}, o.doc = op[w].doc,
           o.pc = "open" /\ o.result # NULL /\ o.result.kind = "data" => o.result.s = o.doc.s,
           op' = [op EXCEPT ![w] = o],
           UNCHANGED <<files, chunks, unique, stores, removes, stored, touched>>,
           \A f \in stored : o.doc.s = f.s => RightStream(o, f) /\ RightResult(o, f)
    PROVE  IInv'
  <1>1. o \in Readers(stores)
    BY DEF Readers
  <1>2. ASSUME NEW f \in stored
        PROVE  Right(o, f)
    BY DEF Right, RightReader, RightStream, RightResult
  <1>3. ASSUME NEW s, Speaks(o, s)
        PROVE  Speaks(op[w], s)
    BY <1>3 DEF Speaks
  <1> QED
    BY <1>1, <1>2, <1>3, ReaderStep

LEMMA StreamFailsPreserves ==
    ASSUME IInv, NEW w \in Workers, StreamFails(w)
    PROVE  IInv'
  <1> DEFINE o == op[w]
             new == [o EXCEPT !.pc = "open", !.result = NULL]
  <1>1. o.kind = "stream" /\ op' = [op EXCEPT ![w] = new]
    BY DEF StreamFails
  <1>2. o \in OpenStreams(stores) \cup SecondReads(stores)
    BY <1>1, StreamIs
  <1>3. new \in OpenStreams(stores)
    BY <1>2 DEF OpenStreams, SecondReads
  <1>4. /\ new.kind = "stream" /\ new.pc = "open" /\ new.doc = o.doc /\ new.id = o.id
        /\ new.chunkId = o.chunkId /\ new.result = NULL /\ new.offset = o.offset
        /\ new.buffer = o.buffer /\ new.buffer_offset = o.buffer_offset
        /\ new.astray = o.astray
    BY <1>2 DEF OpenStreams, SecondReads
  <1> HIDE DEF new
  <1>5. new \in Streams(stores)
    BY <1>1, <1>3, <1>4, StreamIs DEF Streams
  <1>6. ASSUME NEW f \in stored, new.doc.s = f.s
        PROVE  RightStream(new, f) /\ RightResult(new, f)
    <2>1. RightStream(o, f)
      BY <1>1, StreamIs
    <2> QED
      BY <1>1, <1>4, <1>6, <2>1 DEF RightStream, RightResult, OfFile, InStep
  <1> QED
    BY <1>1, <1>4, <1>5, <1>6, StreamStep DEF StreamFails

\* A stored file of which there are chunks of a size has them.
LEMMA SizeOf ==
    ASSUME IInv, NEW f \in stored, NEW o, OfFile(o, f), o.doc.chunkSize > 0
    PROVE  o.doc.chunkSize = f.size
  BY DEF IInv, Kept, FileKept, OfFile

\* What Remainder returns, and that of a position in a file.
LEMMA RemainderIs ==
    ASSUME NEW x \in Int, NEW y \in Nat \ {0}
    PROVE  /\ Remainder(x, y) \in Int
           /\ x >= 0 => Remainder(x, y) = x % y /\ x % y \in Nat /\ x % y <= x
  <1>1. CASE x < 0
    <2>1. -x \in Nat
      BY <1>1
    <2>2. (-x) % y \in Nat
      BY <2>1, Division
    <2> QED
      BY <1>1, <2>2 DEF Remainder
  <1>2. CASE x >= 0
    <2>1. x \in Nat
      BY <1>2
    <2>2. x % y \in Nat /\ x % y <= x
      <3>1. x \div y \in Nat /\ x % y \in Nat /\ x = (x \div y) * y + (x % y)
        BY <2>1, Division
      <3>2. (x \div y) * y \in Nat
        BY <3>1, NextPlace
      <3> QED
        BY <2>1, <3>1, <3>2
    <2> QED
      BY <1>2, <2>2 DEF Remainder
  <1> QED
    BY <1>1, <1>2

LEMMA SeekPreserves ==
    ASSUME IInv, NEW w \in Workers, Seek(w)
    PROVE  IInv'
  <1> DEFINE o == op[w]
  <1>1. PICK offset \in (-(IntSize \div 2))..o.doc.length :
           op' = [op EXCEPT ![w] = Sought(o, offset)]
    BY DEF Seek
  <1> DEFINE new == Sought(o, offset)
             rest == Remainder(offset, o.doc.chunkSize)
             place == IF o.chunkId = -1 THEN o.buffer_offset ELSE ToSizeT(rest)
             astray == offset < 0
  <1>2. o.kind = "stream" /\ o.pc = "open"
    BY DEF Seek, In
  <1>3. /\ o \in OpenStreams(stores)
        /\ o.doc.chunkSize > 0 \/ (o.doc.chunkSize = -1 /\ o.chunkId = -1)
        /\ o.doc.chunkSize \in Int
        /\ o.doc.length \in Nat /\ o.buffer_offset \in Nat
    BY <1>2, StreamIs DEF OpenStreams, Docs
  <1>4. offset \in Int /\ offset <= o.doc.length /\ ToSizeT(offset) \in Nat
    BY <1>1, Widths
  <1>5. o.chunkId # -1 => o.doc.chunkSize \in Nat \ {0}
    BY <1>3
  <1>6. place \in Nat
    <2>1. CASE o.chunkId # -1
      <3>1. rest \in Int
        BY <1>4, <1>5, <2>1, RemainderIs
      <3> QED
        BY <2>1, <3>1, Widths
    <2>2. CASE o.chunkId = -1
      BY <1>3, <2>2
    <2> QED
      BY <2>1, <2>2
  <1>7. astray \in BOOLEAN /\ (astray <=> offset < 0)
    BY <1>4
  <1>8. new = [o EXCEPT !.offset = ToSizeT(offset), !.astray = astray, !.result = NULL,
                        !.buffer_offset = place]
    BY <1>3 DEF Sought, OpenStreams
  <1> HIDE DEF place, astray, new
  <1>9. new \in OpenStreams(stores)
    BY <1>3, <1>4, <1>6, <1>7, <1>8 DEF OpenStreams
  <1>10. /\ new.kind = "stream" /\ new.pc = "open" /\ new.doc = o.doc /\ new.id = o.id
         /\ new.chunkId = o.chunkId /\ new.result = NULL /\ new.offset = ToSizeT(offset)
         /\ new.buffer = o.buffer /\ new.buffer_offset = place /\ new.astray = astray
    BY <1>3, <1>8 DEF OpenStreams
  <1>11. op' = [op EXCEPT ![w] = new]
    BY <1>1 DEF new
  <1>12. new \in Streams(stores)
    BY <1>3, <1>9, <1>10 DEF Streams
  <1>13. ASSUME NEW f \in stored, new.doc.s = f.s
         PROVE  RightStream(new, f) /\ RightResult(new, f)
    <2>1. OfFile(o, f) /\ InStep(o, f)
      BY <1>2, <1>10, <1>13, StreamIs DEF RightStream
    <2>2. OfFile(new, f)
      BY <1>10, <2>1 DEF OfFile
    <2>3. f.length \in Nat /\ f.length < IntSize \div 2 /\ o.doc.length = f.length
      BY <2>1, StoredTypes DEF IInv, Kept, FileKept, OfFile
    <2>4. ~astray => offset \in Nat /\ offset < IntSize \div 2 /\ ToSizeT(offset) = offset
      BY <1>4, <1>7, <2>3, Widths
    <2>5. ASSUME ~astray, o.chunkId # -1
          PROVE  place <= offset /\ place % f.size = offset % f.size
      <3>1. o.doc.chunkSize = f.size /\ f.size \in Nat \ {0}
        BY <1>5, <2>1, <2>5, SizeOf, StoredTypes
      <3>2. rest = offset % f.size /\ rest \in Nat /\ rest <= offset
        <4>1. offset \in Int /\ offset >= 0
          BY <2>4, <2>5
        <4> QED
          BY <3>1, <4>1, RemainderIs
      <3>3. rest < IntSize \div 2
        BY <2>4, <2>5, <3>2, Widths
      <3>4. place = rest
        BY <2>5, <3>2, <3>3, Widths DEF place
      <3> QED
        BY <2>4, <2>5, <3>1, <3>2, <3>4, ModMod
    <2>6. InStep(new, f)
      BY <1>10, <2>1, <2>4, <2>5 DEF InStep
    <2> QED
      BY <1>10, <2>2, <2>6 DEF RightStream, RightResult
  <1> QED
    BY <1>2, <1>10, <1>11, <1>12, <1>13, StreamStep DEF Seek

\* What a stream that has read data returns.
ReadData(o, data) ==
    [kind |-> "data", s |-> o.doc.s, from |-> o.offset, all |-> FALSE,
     astray |-> o.astray, data |-> data]

LEMMA AdvancedIs ==
    ASSUME NEW n, NEW o \in OpenStreams(n) \cup SecondReads(n),
           NEW data \in Seq(Byte \cup {NULL})
    PROVE  /\ Advanced(o, data) \in OpenStreams(n)
           /\ Advanced(o, data).kind = "stream" /\ Advanced(o, data).pc = "open"
           /\ Advanced(o, data).doc = o.doc /\ Advanced(o, data).id = o.id
           /\ Advanced(o, data).chunkId = o.chunkId /\ Advanced(o, data).buffer = o.buffer
           /\ Advanced(o, data).offset = ToSizeT(o.offset + Len(data))
           /\ Advanced(o, data).buffer_offset = ToSizeT(o.buffer_offset + Len(data))
           /\ Advanced(o, data).astray
                <=> o.astray \/ o.offset + Len(data) >= IntSize \div 2
           /\ Advanced(o, data).result = ReadData(o, data)
  <1> DEFINE r == ReadData(o, data)
             new == Advanced(o, data)
             offset == ToSizeT(o.offset + Len(data))
             place == ToSizeT(o.buffer_offset + Len(data))
             astray == o.astray \/ o.offset + Len(data) >= IntSize \div 2
  <1>1. /\ o.kind = "stream" /\ o.offset \in Nat /\ o.buffer_offset \in Nat
        /\ o.doc \in Docs(n) /\ o.chunkId \in Nat \cup {-1} /\ o.id \in Ids
        /\ o.buffer \in Seq(Byte) /\ o.astray \in BOOLEAN
    BY DEF OpenStreams, SecondReads
  <1>2. Len(data) \in Nat
    OBVIOUS
  <1>3. offset \in Nat /\ place \in Nat
    <2>1. o.offset + Len(data) \in Int /\ o.buffer_offset + Len(data) \in Int
      BY <1>1, <1>2
    <2> QED
      BY <2>1, Widths, Zenon
  <1>4. r \in Data(n)
    BY <1>1 DEF Data, Docs, ReadData
  <1>5. astray \in BOOLEAN
    OBVIOUS
  <1>6. new = [o EXCEPT !.pc = "open", !.offset = offset, !.buffer_offset = place,
                        !.astray = astray, !.result = r]
    BY DEF Advanced, OpenStreams, SecondReads, ReadData
  <1> HIDE DEF r, new, offset, place, astray
  <1>7. /\ new \in OpenStreams(n)
        /\ new.kind = "stream" /\ new.pc = "open" /\ new.doc = o.doc /\ new.id = o.id
        /\ new.chunkId = o.chunkId /\ new.buffer = o.buffer /\ new.result = r
        /\ new.offset = offset /\ new.buffer_offset = place /\ new.astray = astray
    <2>1. CASE o \in OpenStreams(n)
      BY <2>1, <1>1, <1>3, <1>4, <1>5, <1>6 DEF OpenStreams
    <2>2. CASE o \in SecondReads(n)
      BY <2>2, <1>1, <1>3, <1>4, <1>5, <1>6 DEF OpenStreams, SecondReads
    <2> QED
      BY <2>1, <2>2
  <1> QED
    BY <1>7 DEF new, r, offset, place, astray

\* These bytes are the file's, and there are some.
Returns(o, data, f) ==
    /\ Same(f, data, o.offset)
    /\ o.offset < f.length => data # <<>>

\* One whose buffer stays in step has read what is right.
LEMMA AdvancedStep ==
    ASSUME IInv, NEW w \in Workers, op[w].kind = "stream",
           NEW o \in OpenStreams(stores) \cup SecondReads(stores), o.doc = op[w].doc,
           NEW data \in Seq(Byte \cup {NULL}),
           op' = [op EXCEPT ![w] = Advanced(o, data)],
           UNCHANGED <<files, chunks, unique, stores, removes, stored, touched>>,
           o.doc.chunkSize > 0,
           \A f \in stored :
               o.doc.s = f.s => OfFile(o, f) /\ InStep(o, f)
                                /\ (~o.astray => Returns(o, data, f))
    PROVE  IInv'
  <1> DEFINE new == Advanced(o, data)
             r == ReadData(o, data)
  <1>1. /\ new \in OpenStreams(stores)
        /\ new.kind = "stream" /\ new.pc = "open" /\ new.doc = o.doc /\ new.id = o.id
        /\ new.chunkId = o.chunkId /\ new.buffer = o.buffer
        /\ new.offset = ToSizeT(o.offset + Len(data))
        /\ new.buffer_offset = ToSizeT(o.buffer_offset + Len(data))
        /\ new.astray <=> o.astray \/ o.offset + Len(data) >= IntSize \div 2
        /\ new.result = r
    BY AdvancedIs, Zenon
  <1>2. o.offset \in Nat /\ o.buffer_offset \in Nat /\ Len(data) \in Nat
    BY DEF OpenStreams, SecondReads
  <1>3. /\ r.kind = "data" /\ r.s = o.doc.s /\ r.from = o.offset /\ r.all = FALSE
        /\ r.data = data /\ r.astray = o.astray
    BY DEF ReadData
  <1>4. op' = [op EXCEPT ![w] = new]
    OBVIOUS
  <1> HIDE DEF new, r
  <1>5. new \in Streams(stores)
    BY <1>1 DEF Streams
  <1>6. ASSUME NEW f \in stored, new.doc.s = f.s
        PROVE  RightStream(new, f) /\ RightResult(new, f)
    <2>1. OfFile(o, f) /\ InStep(o, f) /\ (~o.astray => Returns(o, data, f))
      BY <1>1, <1>6
    <2>2. ASSUME ~new.astray
          PROVE  /\ new.offset < IntSize \div 2
                 /\ o.chunkId # -1 => /\ new.buffer_offset <= new.offset
                                      /\ new.buffer_offset % f.size = new.offset % f.size
      <3>1. ~o.astray /\ o.offset + Len(data) < IntSize \div 2
        <4>1. o.offset + Len(data) \in Nat
          BY <1>2
        <4>3. IntSize \div 2 \in Nat
          BY Widths
        <4>2. \A x, y \in Nat : x < y \/ x >= y
          OBVIOUS
        <4> QED
          BY <1>1, <2>2, <4>1, <4>2, <4>3, Zenon
      <3>2. new.offset = o.offset + Len(data)
        <4>1. o.offset + Len(data) \in Nat
          BY <1>2
        <4> QED
          BY <1>1, <3>1, <4>1, Widths, Zenon
      <3>3. ASSUME o.chunkId # -1
            PROVE  /\ new.buffer_offset <= new.offset
                   /\ new.buffer_offset % f.size = new.offset % f.size
        <4>1. o.buffer_offset <= o.offset /\ o.buffer_offset % f.size = o.offset % f.size
          BY <2>1, <3>1, <3>3 DEF InStep
        <4>2. o.buffer_offset + Len(data) < IntSize \div 2
          <5>1. IntSize \div 2 \in Nat
            BY Widths
          <5> QED
            BY <1>2, <3>1, <4>1, <5>1
        <4>3. new.buffer_offset = o.buffer_offset + Len(data)
          <5>1. o.buffer_offset + Len(data) \in Nat
            BY <1>2
          <5> QED
            BY <1>1, <4>2, <5>1, Widths, Zenon
        <4>4. (o.buffer_offset + Len(data)) % f.size = (o.offset + Len(data)) % f.size
          <5>1. f.size \in Nat \ {0} /\ Len(data) \in Nat
            BY <1>2, StoredTypes
          <5> QED
            BY <1>2, <4>1, <5>1, ModAdd
        <4> QED
          BY <1>2, <3>2, <4>1, <4>3, <4>4
      <3> QED
        BY <3>1, <3>2, <3>3
    <2>3. RightResult(new, f)
      BY <1>1, <1>3, <2>1 DEF RightResult, Returns
    <2>4. InStep(new, f)
      BY <1>1, <2>1, <2>2 DEF InStep
    <2>5. RightStream(new, f)
      BY <1>1, <2>1, <2>4 DEF RightStream, OfFile
    <2> QED
      BY <2>3, <2>5
  <1>7. new.result.s = new.doc.s /\ new.doc = op[w].doc
    BY <1>1, <1>3
  <1>8. \A f \in stored : new.doc.s = f.s => RightStream(new, f) /\ RightResult(new, f)
    BY <1>6
  <1> QED
    BY <1>1, <1>4, <1>5, <1>7, <1>8, StreamStep

\* What the stream is with chunk k.
LEMMA LoadedIs ==
    ASSUME IInv, NEW w \in Workers, op[w].kind = "stream", op[w].doc.chunkSize > 0,
           NEW k \in Int, NEW l \in Loaded(op[w], k)
    PROVE  /\ op[w].pc = "open" => l \in OpenStreams(stores)
           /\ op[w].pc = "second" => l \in SecondReads(stores)
           /\ l.kind = "stream" /\ l.pc = op[w].pc /\ l.doc = op[w].doc /\ l.id = op[w].id
           /\ l.offset = op[w].offset /\ l.chunkId = k /\ l.chunkId \in Nat \cup {-1}
           /\ l.result = op[w].result /\ l.astray = op[w].astray
           /\ l.buffer \in Seq(Byte) /\ l.buffer_offset \in Nat
           /\ \A f \in stored : op[w].doc.s = f.s => OfFile(l, f) /\ InStep(l, f)
  <1> DEFINE o == op[w]
  <1>1. /\ o.pc \in {"open", "second"}
        /\ o.pc = "open" => o \in OpenStreams(stores)
        /\ o.pc = "second" => o \in SecondReads(stores)
        /\ o.id \in Ids /\ o.doc \in Docs(stores) /\ o.offset \in Nat
        /\ o.buffer \in Seq(Byte) /\ o.buffer_offset \in Nat
        /\ o.chunkId \in Nat \cup {-1}
        /\ o.doc.chunkSize \in Nat \ {0}
        /\ \A f \in stored : RightStream(o, f)
    BY StreamIs DEF Docs
  <1>2. CASE o.chunkId = k
    <2>1. l = o
      BY <1>2 DEF Loaded
    <2>2. \A f \in stored : o.doc.s = f.s => OfFile(o, f) /\ InStep(o, f)
      BY <1>1 DEF RightStream
    <2> QED
      BY <1>1, <1>2, <2>1, <2>2
  <1>3. CASE o.chunkId # k
    <2> DEFINE place == o.offset % o.doc.chunkSize
    <2>1. PICK c \in chunks :
             /\ c.files_id = o.id /\ c.n = k
             /\ l = [o EXCEPT !.chunkId = k, !.buffer = c.data, !.buffer_offset = place]
      BY <1>3 DEF Loaded
    <2>2. place \in Nat /\ place <= o.offset
      <3>1. o.offset \in Int /\ o.offset >= 0
        BY <1>1
      <3> QED
        BY <1>1, <3>1, RemainderIs
    <2>3. c.data \in Seq(Byte) /\ k \in Nat
      BY <2>1 DEF IInv, Typed, TypedChunks, Chunks
    <2> HIDE DEF place
    <2>4. /\ o.pc = "open" => l \in OpenStreams(stores)
          /\ o.pc = "second" => l \in SecondReads(stores)
          /\ l.kind = "stream" /\ l.pc = o.pc /\ l.doc = o.doc /\ l.id = o.id
          /\ l.offset = o.offset /\ l.chunkId = k /\ l.result = o.result
          /\ l.buffer = c.data /\ l.buffer_offset = place /\ l.astray = o.astray
      BY <1>1, <2>1, <2>2, <2>3 DEF OpenStreams, SecondReads
    <2>5. ASSUME NEW f \in stored, o.doc.s = f.s
          PROVE  OfFile(l, f) /\ InStep(l, f)
      <3>1. OfFile(o, f) /\ InStep(o, f)
        BY <1>1, <2>5 DEF RightStream
      <3>2. OfFile(l, f)
        BY <2>4, <3>1 DEF OfFile
      <3>3. place % f.size = o.offset % f.size
        <4>1. o.doc.chunkSize = f.size /\ f.size \in Nat \ {0}
          BY <1>1, <3>1, SizeOf
        <4>2. place = o.offset % f.size
          BY <4>1 DEF place
        <4> QED
          BY <1>1, <4>1, <4>2, ModMod
      <3>4. k * f.size < f.length => c.data = Piece(f.s, f.id, f.size, f.length, k).data
        BY <2>1, <2>3, <3>1, FoundPiece DEF OfFile
      <3>5. ~o.astray => o.offset < IntSize \div 2
        BY <3>1 DEF InStep
      <3> QED
        BY <2>2, <2>4, <3>2, <3>3, <3>4, <3>5 DEF InStep
    <2> QED
      BY <2>2, <2>3, <2>4, <2>5
  <1> QED
    BY <1>2, <1>3

\* What is copied.
LEMMA CopiedIs ==
    ASSUME NEW o, o.buffer \in Seq(Byte), NEW from \in Nat, NEW count \in Nat
    PROVE  /\ Copied(o, from, count) \in Seq(Byte \cup {NULL})
           /\ Len(Copied(o, from, count)) \in 0..count
           /\ from <= Len(o.buffer) =>
                /\ Len(Copied(o, from, count)) < count =>
                     Len(Copied(o, from, count)) = Len(o.buffer) - from
                /\ from + Len(Copied(o, from, count)) <= Len(o.buffer)
                /\ count > 0 /\ from < Len(o.buffer) => Len(Copied(o, from, count)) > 0
           /\ \A i \in 1..Len(Copied(o, from, count)) :
                from + i <= Len(o.buffer) => Copied(o, from, count)[i] = o.buffer[from + i]
  <1> DEFINE L == Len(o.buffer)
             size == IF from > L \/ count < L - from THEN count ELSE L - from
             data == [k \in 1..size |-> IF from + k <= L THEN o.buffer[from + k] ELSE NULL]
  <1>1. Copied(o, from, count) = data
    BY DEF Copied
  <1>2. L \in Nat
    OBVIOUS
  <1>3. \A i \in 1..L : o.buffer[i] \in Byte
    OBVIOUS
  <1> HIDE DEF L
  <1>4. /\ size \in 0..count
        /\ from <= L => /\ size < count => size = L - from
                        /\ from + size <= L
                        /\ count > 0 /\ from < L => size > 0
    BY <1>2
  <1> HIDE DEF size
  <1>5. data \in Seq(Byte \cup {NULL}) /\ Len(data) = size
    <2>1. ASSUME NEW k \in 1..size
          PROVE  (IF from + k <= L THEN o.buffer[from + k] ELSE NULL) \in Byte \cup {NULL}
      <3>1. CASE from + k <= L
        <4>1. from + k \in 1..L
          BY <1>2, <1>4, <3>1
        <4> QED
          BY <1>3, <3>1, <4>1
      <3>2. CASE ~(from + k <= L)
        BY <3>2
      <3> QED
        BY <3>1, <3>2
    <2>2. size \in Nat
      BY <1>4
    <2> QED
      BY <2>1, <2>2
  <1>6. \A i \in 1..size : from + i <= L => data[i] = o.buffer[from + i]
    OBVIOUS
  <1> HIDE DEF data
  <1> QED
    BY <1>1, <1>4, <1>5, <1>6 DEF L

\* Below the last but one chunk there is a chunk more.
LEMMA ChunksBelow ==
    \A k, n \in Nat, m \in Nat \ {0} : k < n \div m => (k + 1) * m <= n /\ k * m < n
  <1> TAKE k, n \in Nat, m \in Nat \ {0}
  <1> HAVE k < n \div m
  <1> DEFINE q == n \div m
             r == n % m
  <1>1. q \in Nat /\ r \in Nat /\ n = q * m + r /\ k < q
    BY Division
  <1> HIDE DEF q, r
  <1>2. (k + 1) * m <= q * m
    BY <1>1, MultMonotone
  <1>3. /\ (k + 1) * m = k * m + m /\ k * m \in Nat
        /\ q * m \in Nat
    BY <1>1, NextPlace, Zenon
  <1> QED
    BY <1>1, <1>2, <1>3

\* What is copied from a chunk in which a file is whole is right.
LEMMA CopiedRight ==
    ASSUME IInv, NEW f \in stored, NEW l, l.buffer \in Seq(Byte), NEW k \in Nat,
           k * f.size < f.length, l.buffer = PieceData(f.s, f.id, f.size, f.length, k),
           NEW from \in Nat, k * f.size + from < f.length, from < f.size,
           NEW count \in Nat \ {0}
    PROVE  /\ Same(f, Copied(l, from, count), k * f.size + from)
           /\ Copied(l, from, count) # <<>>
           /\ Len(Copied(l, from, count)) < count /\ (k + 1) * f.size <= f.length
                => k * f.size + from + Len(Copied(l, from, count)) = (k + 1) * f.size
  <1> DEFINE data == Copied(l, from, count)
             L == Len(l.buffer)
             start == k * f.size
  <1>1. f.s \in Nat /\ f.size \in Nat \ {0} /\ f.length \in Nat
    BY StoredTypes
  <1>2. /\ L \in 1..f.size
        /\ start + L <= f.length
        /\ start + L < f.length => L = f.size
        /\ Same(f, l.buffer, start)
        /\ start \in Nat
    BY PieceSame
  <1>3. (k + 1) * f.size = start + f.size
    BY <1>1, NextPlace, Zenon
  <1> HIDE DEF start
  <1>4. start + from < f.length
    BY DEF start
  <1>5. from < L
    BY <1>1, <1>2, <1>4
  <1>6. /\ data \in Seq(Byte \cup {NULL})
        /\ Len(data) \in 0..count
        /\ Len(data) < count => Len(data) = L - from
        /\ from + Len(data) <= L
        /\ Len(data) > 0
        /\ \A i \in 1..Len(data) : from + i <= L => data[i] = l.buffer[from + i]
    <2>1. count \in Nat /\ from <= L /\ count > 0
      BY <1>2, <1>5
    <2> QED
      BY <1>5, <2>1, CopiedIs
  <1> HIDE DEF data, L
  <1>7. ASSUME NEW i \in 1..Len(data), start + from + i <= f.length
        PROVE  data[i] = <<f.s, start + from + i - 1>>
    <2>1. from + i \in 1..L /\ from + i <= L /\ start + (from + i) <= f.length
      BY <1>1, <1>2, <1>6, <1>7
    <2>2. data[i] = l.buffer[from + i]
      BY <1>6, <2>1
    <2>3. l.buffer[from + i] = <<f.s, start + (from + i) - 1>>
      BY <1>2, <2>1 DEF Same, L
    <2>4. start + (from + i) - 1 = start + from + i - 1
      BY <1>2
    <2> QED
      BY <2>2, <2>3, <2>4
  <1>8. Same(f, data, start + from)
    BY <1>7 DEF Same
  <1>9. data # <<>>
    BY <1>6
  <1>10. ASSUME Len(data) < count, (k + 1) * f.size <= f.length
         PROVE  start + from + Len(data) = (k + 1) * f.size
    <2>1. start + f.size <= f.length
      BY <1>3, <1>10
    <2>2. L = f.size
      BY <1>1, <1>2, <2>1
    <2>3. Len(data) = f.size - from
      BY <1>6, <1>10, <2>2, Zenon
    <2>4. start + from + (f.size - from) = start + f.size
      BY <1>1, <1>2
    <2> QED
      BY <1>3, <2>3, <2>4
  <1> QED
    BY <1>8, <1>9, <1>10 DEF data, start

\* The first of two reads, or the only one.
LEMMA FirstRead ==
    ASSUME IInv, NEW f \in stored, NEW l, l.buffer \in Seq(Byte), l.buffer_offset \in Nat,
           l.offset \in Nat, l.doc.chunkSize = f.size, l.doc.length = f.length,
           l.chunkId = l.offset \div f.size, InStep(l, f), ~l.astray,
           NEW count \in Nat \ {0}
    PROVE  LET data == Copied(l, l.buffer_offset % l.doc.chunkSize, count) IN
           /\ Returns(l, data, f)
           /\ Len(data) < count /\ l.offset \div f.size + 1 < TotalChunks(l)
                => /\ l.offset + Len(data) = (l.offset \div f.size + 1) * f.size
                   /\ l.offset \div f.size + 1 < f.length \div f.size
  <1> DEFINE size == f.size
             k == l.offset \div size
             from == l.offset % size
             data == Copied(l, from, count)
  <1>1. size \in Nat \ {0} /\ f.length \in Nat
    BY StoredTypes
  <1>2. k \in Nat /\ from \in Nat /\ from < size /\ l.offset = k * size + from
    BY <1>1, Division
  <1>3. l.chunkId = k
    OBVIOUS
  <1>4. l.buffer_offset % l.doc.chunkSize = from
    <2>1. l.chunkId # -1
      BY <1>2, <1>3
    <2> QED
      BY <2>1 DEF InStep
  <1>5. TotalChunks(l) = f.length \div size
    BY DEF TotalChunks
  <1> HIDE DEF k, from, data
  <1>6. CASE l.offset < f.length
    <2>1. k * size \in Nat /\ k * size < f.length
      BY <1>1, <1>2, <1>6, MultMonotone
    <2>2. l.buffer = PieceData(f.s, f.id, f.size, f.length, k)
      BY <1>2, <1>3, <2>1 DEF InStep, PieceData
    <2>3. k * f.size < f.length /\ k * f.size + from < f.length /\ from < f.size
      BY <1>2, <1>6, <2>1
    <2>4. /\ Same(f, data, l.offset)
          /\ data # <<>>
          /\ Len(data) < count /\ (k + 1) * size <= f.length
               => l.offset + Len(data) = (k + 1) * size
      <3>1. /\ Same(f, Copied(l, from, count), k * f.size + from)
            /\ Copied(l, from, count) # <<>>
            /\ Len(Copied(l, from, count)) < count /\ (k + 1) * f.size <= f.length
                => k * f.size + from + Len(Copied(l, from, count)) = (k + 1) * f.size
        BY <1>2, <2>2, <2>3, CopiedRight
      <3> QED
        BY <1>2, <3>1 DEF data
    <2>5. k + 1 < f.length \div size => (k + 1) * size <= f.length
      <3>1. k + 1 \in Nat /\ (k + 1) * size \in Nat
        BY <1>1, <1>2, NextPlace, Zenon
      <3> DEFINE next == k + 1
      <3>2. next \in Nat
        BY <3>1
      <3> HIDE DEF next
      <3>3. next < f.length \div size => next * size < f.length
        BY <1>1, <3>2, ChunksBelow, Zenon
      <3> QED
        BY <1>1, <3>1, <3>3 DEF next
    <2> QED
      BY <1>4, <1>5, <2>4, <2>5 DEF Returns, data, k
  <1>7. CASE ~(l.offset < f.length)
    <2>1. Len(data) \in Nat
      BY <1>2, CopiedIs DEF data
    <2>2. Same(f, data, l.offset)
      BY <1>1, <1>7, <2>1 DEF Same
    <2>3. ~(k + 1 < f.length \div size)
      <3>1. SUFFICES ASSUME k + 1 < f.length \div size
                     PROVE  FALSE
        OBVIOUS
      <3> DEFINE next == k + 1
      <3>2. next * size < f.length
        <4>1. next \in Nat /\ next < f.length \div size
          BY <1>2, <3>1
        <4> HIDE DEF next
        <4> QED
          BY <1>1, <4>1, ChunksBelow, Zenon
      <3>3. next * size = k * size + size /\ k * size \in Nat
        BY <1>1, <1>2, NextPlace, Zenon
      <3> HIDE DEF size
      <3> QED
        BY <1>1, <1>2, <1>7, <3>2, <3>3
    <2> QED
      BY <1>4, <1>5, <1>7, <2>2, <2>3 DEF Returns, data, k
  <1> QED
    BY <1>6, <1>7

LEMMA ChunkAtIs ==
    ASSUME NEW o, o.offset \in Nat, o.doc.chunkSize \in Nat \ {0}
    PROVE  /\ ChunkAt(o) \in Int
           /\ o.offset < IntSize \div 2 => ChunkAt(o) = o.offset \div o.doc.chunkSize
  <1> DEFINE q == o.offset \div o.doc.chunkSize
  <1>1. q \in Nat /\ q <= o.offset
    <2>1. q \in Nat /\ o.offset % o.doc.chunkSize \in Nat
          /\ o.offset = q * o.doc.chunkSize + (o.offset % o.doc.chunkSize)
      BY Division
    <2> DEFINE y == o.doc.chunkSize
               r == o.offset % y
    <2>2. q \in Nat /\ r \in Nat /\ o.offset = q * y + r /\ y \in Nat \ {0}
      BY <2>1
    <2> HIDE DEF q, r, y
    <2>3. q <= q * y /\ q * y \in Nat
      <3>1. y = 1 \/ 1 < y
        BY <2>2
      <3>2. q * y = y * q /\ 1 * q = q
        BY <2>2
      <3>3. q = 0 \/ q \in Nat \ {0}
        BY <2>2
      <3> QED
        BY <2>2, <3>1, <3>2, <3>3, MultMonotone
    <2> QED
      BY <2>2, <2>3
  <1>2. ChunkAt(o) = ToInt(q)
    BY DEF ChunkAt
  <1> HIDE DEF q
  <1>3. o.offset < IntSize \div 2 => ToInt(q) = q
    BY <1>1, Widths
  <1>4. ToInt(q) \in Int
    BY <1>1, Widths
  <1> QED
    BY <1>2, <1>3, <1>4 DEF q

LEMMA ReadPreserves ==
    ASSUME IInv, NEW w \in Workers, Read(w)
    PROVE  IInv'
  <1> DEFINE o == op[w]
             k == ChunkAt(o)
  <1>1. /\ o.kind = "stream" /\ o.pc = "open" /\ o.doc.chunkSize > 0
        /\ UNCHANGED <<files, chunks, unique, stores, removes, stored, touched>>
    BY DEF Read, In
  <1>2. PICK count \in Counts, l \in Loaded(o, k) :
           LET data == Copied(l, l.buffer_offset % o.doc.chunkSize, count) IN
           op' = [op EXCEPT ![w] =
                    IF Len(data) < count /\ k + 1 < TotalChunks(o)
                    THEN [l EXCEPT !.pc = "second",
                                   !.result = [kind |-> "part", data |-> data, count |-> count]]
                    ELSE Advanced(l, data)]
    BY DEF Read
  <1>3. o.doc.chunkSize \in Nat \ {0} /\ o.offset \in Nat /\ o.doc.length \in Nat
    BY <1>1, StreamIs DEF Docs
  <1>4. k \in Int /\ (o.offset < IntSize \div 2 => k = o.offset \div o.doc.chunkSize)
    BY <1>3, ChunkAtIs
  <1>5. /\ l \in OpenStreams(stores)
        /\ l.kind = "stream" /\ l.pc = "open" /\ l.doc = o.doc /\ l.id = o.id
        /\ l.offset = o.offset /\ l.chunkId = k /\ l.chunkId \in Nat \cup {-1}
        /\ l.astray = o.astray
        /\ l.buffer \in Seq(Byte) /\ l.buffer_offset \in Nat
        /\ \A f \in stored : o.doc.s = f.s => OfFile(l, f) /\ InStep(l, f)
    BY <1>1, <1>4, LoadedIs
  <1> DEFINE data == Copied(l, l.buffer_offset % l.doc.chunkSize, count)
             part == [kind |-> "part", data |-> data, count |-> count]
             new == [l EXCEPT !.pc = "second", !.result = part]
  <1>6. count \in Nat \ {0}
    BY SomeNumbers, GridFSAssumption
  <1>7. data \in Seq(Byte \cup {NULL}) /\ Len(data) \in 0..count
    <2>1. l.buffer_offset % l.doc.chunkSize \in Nat
      BY <1>3, <1>5, Division
    <2> QED
      BY <1>5, <1>6, <2>1, CopiedIs
  <1>8. ASSUME NEW f \in stored, o.doc.s = f.s
        PROVE  /\ OfFile(l, f) /\ InStep(l, f)
               /\ ~o.astray =>
                    /\ Returns(l, data, f)
                    /\ k = o.offset \div f.size
                    /\ Len(data) < count /\ k + 1 < TotalChunks(l) =>
                         /\ o.offset + Len(data) = (k + 1) * f.size
                         /\ k + 1 < f.length \div f.size
    <2>1. OfFile(l, f) /\ InStep(l, f)
      BY <1>5, <1>8
    <2>6. SUFFICES ASSUME ~o.astray
                   PROVE  /\ Returns(l, data, f)
                          /\ k = o.offset \div f.size
                          /\ Len(data) < count /\ k + 1 < TotalChunks(l) =>
                               /\ o.offset + Len(data) = (k + 1) * f.size
                               /\ k + 1 < f.length \div f.size
      BY <2>1
    <2>7. l.offset < IntSize \div 2 /\ ~l.astray
      BY <1>5, <2>1, <2>6 DEF InStep
    <2>2. l.doc.chunkSize = f.size
      BY <1>3, <1>5, <2>1, SizeOf
    <2>3. l.doc.length = f.length
      BY <2>1 DEF OfFile
    <2>4. l.chunkId = l.offset \div f.size
      BY <1>4, <1>5, <2>2, <2>7
    <2>5. /\ Returns(l, data, f)
          /\ Len(data) < count /\ l.offset \div f.size + 1 < TotalChunks(l)
                => /\ l.offset + Len(data) = (l.offset \div f.size + 1) * f.size
                   /\ l.offset \div f.size + 1 < f.length \div f.size
      BY <1>3, <1>5, <1>6, <2>1, <2>2, <2>3, <2>4, <2>7, FirstRead
    <2> QED
      BY <1>5, <2>2, <2>4, <2>5
  <1>9. TotalChunks(o) = TotalChunks(l)
    BY <1>5 DEF TotalChunks
  <1>10. op' = [op EXCEPT ![w] = IF Len(data) < count /\ k + 1 < TotalChunks(l) THEN new
                                 ELSE Advanced(l, data)]
    BY <1>2, <1>5, <1>9
  <1> HIDE DEF data, k
  <1>11. CASE Len(data) < count /\ k + 1 < TotalChunks(l)
    <2>1. part \in Parts /\ part.data = data /\ part.count = count /\ part.kind = "part"
      BY <1>6, <1>7 DEF Parts
    <2> HIDE DEF part
    <2>2. new \in SecondReads(stores)
      BY <1>5, <2>1 DEF OpenStreams, SecondReads
    <2>3. /\ new.kind = "stream" /\ new.pc = "second" /\ new.doc = o.doc /\ new.id = o.id
          /\ new.offset = o.offset /\ new.chunkId = k /\ new.buffer = l.buffer
          /\ new.buffer_offset = l.buffer_offset /\ new.result = part
          /\ new.astray = o.astray
      BY <1>5 DEF OpenStreams
    <2>4. op' = [op EXCEPT ![w] = new]
      BY <1>10, <1>11
    <2> HIDE DEF new
    <2>5. new \in Streams(stores)
      BY <1>1, <1>11, <2>1, <2>2, <2>3 DEF Streams
    <2>6. ASSUME NEW f \in stored, new.doc.s = f.s
          PROVE  RightStream(new, f) /\ RightResult(new, f)
      <3>1. /\ OfFile(l, f) /\ InStep(l, f)
            /\ ~o.astray => /\ Returns(l, data, f)
                            /\ k = o.offset \div f.size
                            /\ o.offset + Len(data) = (k + 1) * f.size
                            /\ k + 1 < f.length \div f.size
        BY <1>8, <1>11, <2>3, <2>6
      <3>2. OfFile(new, f)
        BY <1>5, <2>3, <3>1 DEF OfFile
      <3>3. InStep(new, f)
        BY <1>5, <2>3, <3>1 DEF InStep
      <3>5. ~new.astray =>
              /\ Same(f, new.result.data, new.offset)
              /\ new.offset + Len(new.result.data) = (new.offset \div f.size + 1) * f.size
              /\ new.offset \div f.size + 1 < f.length \div f.size
        BY <1>5, <2>1, <2>3, <3>1 DEF Returns
      <3>6. RightStream(new, f)
        BY <3>2, <3>3, <3>5 DEF RightStream
      <3>7. RightResult(new, f)
        BY <2>3 DEF RightResult
      <3> QED
        BY <3>6, <3>7
    <2> QED
      BY <1>1, <2>3, <2>4, <2>5, <2>6, StreamStep
  <1>12. CASE ~(Len(data) < count /\ k + 1 < TotalChunks(l))
    <2>1. op' = [op EXCEPT ![w] = Advanced(l, data)]
      BY <1>10, <1>12
    <2>2. \A f \in stored :
            l.doc.s = f.s => OfFile(l, f) /\ InStep(l, f) /\ (~l.astray => Returns(l, data, f))
      BY <1>5, <1>8
    <2> QED
      BY <1>1, <1>5, <1>7, <2>1, <2>2, AdvancedStep
  <1> QED
    BY <1>11, <1>12

\* The second of two reads.
LEMMA SecondRead ==
    ASSUME IInv, NEW f \in stored, NEW l, l.buffer \in Seq(Byte), l.offset \in Nat,
           NEW k \in Nat, l.chunkId = k, k < f.length \div f.size, InStep(l, f),
           NEW first \in Seq(Byte \cup {NULL}), Same(f, first, l.offset),
           l.offset + Len(first) = k * f.size,
           NEW count \in Nat \ {0}
    PROVE  Returns(l, first \o Copied(l, 0, count), f)
  <1> DEFINE second == Copied(l, 0, count)
  <1>1. f.size \in Nat \ {0} /\ f.length \in Nat
    BY StoredTypes
  <1>2. k * f.size \in Nat /\ k * f.size < f.length
    BY <1>1, ChunksBelow, NextPlace, Zenon
  <1>3. l.buffer = PieceData(f.s, f.id, f.size, f.length, k)
    BY <1>2 DEF InStep, PieceData
  <1>4. k * f.size + 0 = k * f.size /\ 0 < f.size
    BY <1>1, <1>2
  <1>5. Same(f, second, k * f.size) /\ second # <<>>
    <2>1. 0 \in Nat
      OBVIOUS
    <2> QED
      BY <1>2, <1>3, <1>4, <2>1, CopiedRight
  <1>6. second \in Seq(Byte \cup {NULL})
    <2>1. count \in Nat /\ 0 \in Nat
      OBVIOUS
    <2> QED
      BY <2>1, CopiedIs
  <1> HIDE DEF second
  <1>7. Same(f, first \o second, l.offset)
    BY <1>1, <1>5, <1>6, SameConcat
  <1>8. first \o second # <<>>
    BY <1>5, <1>6
  <1> QED
    BY <1>7, <1>8 DEF Returns, second

LEMMA ReadSecondPreserves ==
    ASSUME IInv, NEW w \in Workers, ReadSecond(w)
    PROVE  IInv'
  <1> DEFINE o == op[w]
             k == ChunkAt(o) + 1
  <1>1. /\ o.kind = "stream" /\ o.pc = "second"
        /\ UNCHANGED <<files, chunks, unique, stores, removes, stored, touched>>
    BY DEF ReadSecond, In
  <1>2. PICK l \in Loaded(o, k) :
           op' = [op EXCEPT ![w] =
             Advanced(l, o.result.data \o Copied(l, 0, o.result.count - Len(o.result.data)))]
    BY DEF ReadSecond
  <1>3. /\ o.doc.chunkSize \in Nat \ {0} /\ o.offset \in Nat /\ o.doc.chunkSize > 0
        /\ o.result \in Parts /\ Len(o.result.data) < o.result.count
        /\ \A f \in stored : RightStream(o, f)
    BY <1>1, StreamIs DEF Docs, SecondReads
  <1> DEFINE first == o.result.data
             count == o.result.count - Len(first)
             second == Copied(l, 0, count)
  <1>4. first \in Seq(Byte \cup {NULL}) /\ count \in Nat \ {0}
    <2>1. first \in Seq(Byte \cup {NULL}) /\ o.result.count \in Nat /\ Len(first) \in Nat
      BY <1>3 DEF Parts
    <2>2. \A x, y \in Nat : x < y => y - x \in Nat \ {0}
      OBVIOUS
    <2>3. Len(first) < o.result.count
      BY <1>3
    <2> QED
      BY <2>1, <2>2, <2>3, Zenon
  <1>5. k \in Int /\ (o.offset < IntSize \div 2 => k = o.offset \div o.doc.chunkSize + 1)
    BY <1>3, ChunkAtIs
  <1>6. /\ l \in SecondReads(stores)
        /\ l.doc = o.doc /\ l.offset = o.offset /\ l.chunkId = k /\ l.astray = o.astray
        /\ l.buffer \in Seq(Byte)
        /\ \A f \in stored : o.doc.s = f.s => OfFile(l, f) /\ InStep(l, f)
    BY <1>1, <1>3, <1>5, LoadedIs
  <1>7. second \in Seq(Byte \cup {NULL})
    <2>1. count \in Nat /\ 0 \in Nat
      BY <1>4
    <2> HIDE DEF count
    <2> QED
      BY <1>6, <2>1, CopiedIs
  <1>8. first \o second \in Seq(Byte \cup {NULL})
    BY <1>4, <1>7
  <1>9. ASSUME NEW f \in stored, l.doc.s = f.s
        PROVE  OfFile(l, f) /\ InStep(l, f) /\ (~l.astray => Returns(l, first \o second, f))
    <2>1. OfFile(l, f) /\ InStep(l, f)
      BY <1>6, <1>9
    <2>5. SUFFICES ASSUME ~l.astray
                   PROVE  Returns(l, first \o second, f)
      BY <2>1
    <2>6. o.offset < IntSize \div 2 /\ ~o.astray
      BY <1>6, <2>1, <2>5 DEF InStep
    <2>2. o.doc.chunkSize = f.size
      BY <1>3, <1>6, <2>1, SizeOf
    <2>3. /\ Same(f, first, o.offset)
          /\ o.offset + Len(first) = k * f.size
          /\ k < f.length \div f.size
      BY <1>1, <1>3, <1>5, <1>6, <1>9, <2>2, <2>6 DEF RightStream
    <2>7. k \in Nat
      <3>1. o.offset \div o.doc.chunkSize \in Nat
        BY <1>3, Division
      <3>2. o.offset \div o.doc.chunkSize + 1 \in Nat
        BY <3>1
      <3> QED
        BY <1>5, <2>6, <3>2, Zenon
    <2> HIDE DEF k, first, count
    <2>4. Returns(l, first \o second, f)
      BY <1>3, <1>4, <1>6, <2>1, <2>3, <2>7, SecondRead
    <2> QED
      BY <2>4
  <1>10. op' = [op EXCEPT ![w] = Advanced(l, first \o second)]
    BY <1>2
  <1> HIDE DEF first, second, k
  <1> QED
    BY <1>1, <1>3, <1>6, <1>8, <1>9, <1>10, AdvancedStep

\* No step of a reader breaks the invariant.
LEMMA ReadingPreserves ==
    ASSUME IInv, NEW w \in Workers, Reading(w)
    PROVE  IInv'
  BY FindFilePreserves, ReadIndexPreserves, ReadChunkPreserves, ReadFailsPreserves,
     EndOfFilePreserves,
     OpenStreamPreserves, ReadPreserves, ReadSecondPreserves,
     StreamFailsPreserves, SeekPreserves, ClosePreserves DEF Reading

-----------------------------------------------------------------------------
(* Removing *)

\* A remover reads nothing and returns nothing.
LEMMA RemoverIs ==
    ASSUME NEW n, NEW o \in RemoveOps \cup {Idle(NULL)}
    PROVE  /\ o \in Ops(n)
           /\ o.kind \in {"remove", "none"}
           /\ o.pc = "idle" => o.result = NULL
           /\ \A f : Right(o, f)
           /\ \A s : ~Speaks(o, s)
  <1>1. CASE o = Idle(NULL)
    BY <1>1, IdleReader
  <1>2. CASE o \in RemoveOps
    <2>1. o.kind = "remove" /\ o.pc \notin {"idle", "open"}
      BY <1>2 DEF RemoveOps
    <2>2. \A f : Right(o, f)
      BY <2>1 DEF Right, RightReader, RightStream, RightResult
    <2>3. \A s : ~Speaks(o, s)
      BY <2>1 DEF Speaks
    <2> QED
      BY <1>2, <2>1, <2>2, <2>3 DEF Ops
  <1> QED
    BY <1>1, <1>2

\* A remover that leaves alone what others have under ids that it does not remove.
LEMMA RemoverStep ==
    ASSUME IInv, NEW w \in Workers, op[w].kind # "store",
           NEW o \in RemoveOps \cup {Idle(NULL)}, op' = [op EXCEPT ![w] = o],
           UNCHANGED stores, removes' \in 0..MaxRemoves,
           unique' \in BOOLEAN, TypedChunks(chunks', unique', stores), chunks' \subseteq chunks,
           files' \in [Ids -> Docs(stores) \cup {NULL}],
           \A id \in Ids : files'[id] = files[id] \/ files'[id] = NULL,
           stored' \subseteq stored,
           touched \subseteq touched', touched' \subseteq 1..stores,
           \A v \in Workers : op[v].kind = "store" /\ op[v].s \notin touched' /\ unique =>
               unique' /\ \A c \in chunks : c.files_id = op[v].id => c \in chunks',
           \A f \in stored' : unique =>
               /\ unique'
               /\ files'[f.id] = files[f.id]
               /\ \A c \in chunks : c.files_id = f.id => c \in chunks',
           Clear(o, op, stored', touched')
    PROVE  IInv'
  <1>1. /\ o \in Ops(stores) /\ o.kind # "store"
        /\ o.pc = "idle" => o.result = NULL
        /\ \A f : Right(o, f)
        /\ \A s : ~Speaks(o, s)
    BY RemoverIs
  <1>2. \A v \in Workers : op'[v] = IF v = w THEN o ELSE op[v]
    BY DEF IInv, Typed
  <1>3. Typed'
    <2>1. op' \in [Workers -> Ops(stores)]
      BY <1>1 DEF IInv, Typed
    <2>2. stores \in 0..MaxStores /\ stored \subseteq Stored(stores)
      BY DEF IInv, Typed
    <2> QED
      BY <2>1, <2>2 DEF Typed
  <1>4. Owned'
    BY <1>1, OwnedStep
  <1>5. Known'
    BY <1>1, KnownStep
  <1>6. ASSUME NEW v \in Workers
        PROVE  Complete(op'[v], chunks', unique', touched')
    <2>1. CASE v = w
      BY <1>1, <1>2, <2>1 DEF Complete, Undisturbed
    <2>2. CASE v # w
      <3>1. Complete(op[v], chunks, unique, touched)
        BY DEF IInv, Kept
      <3>2. SUFFICES Complete(op[v], chunks', unique', touched')
        BY <1>2, <2>2
      <3>3. SUFFICES ASSUME Undisturbed(op[v], touched'),
                            op[v].pc \in {"chunk", "gle", "gle more", "file"}
                     PROVE  unique' /\ Whole(op[v].s, op[v].id, Size(op[v].f), op[v].pos, chunks')
        BY <3>1 DEF Complete, Undisturbed
      <3>4. unique /\ Whole(op[v].s, op[v].id, Size(op[v].f), op[v].pos, chunks)
        BY <3>1, <3>3 DEF Complete, Undisturbed
      <3>5. unique' /\ \A c \in chunks : c.files_id = op[v].id => c \in chunks'
        BY <3>3, <3>4 DEF Undisturbed
      <3> QED
        BY <3>4, <3>5 DEF Whole, Piece
    <2> QED
      BY <2>1, <2>2
  <1>7. ASSUME NEW v \in Workers
        PROVE  Clear(op'[v], op', stored', touched')
    <2>1. \A u \in Workers : op'[u].kind = "store" => op'[u] = op[u]
      BY <1>1, <1>2
    <2>2. CASE v = w
      BY <1>2, <2>1, <2>2 DEF Clear
    <2>3. CASE v # w
      <3>1. Clear(op[v], op, stored, touched)
        BY DEF IInv, Kept
      <3> QED
        BY <1>2, <2>1, <2>3, <3>1 DEF Clear
    <2> QED
      BY <2>2, <2>3
  <1>8. ASSUME NEW f \in stored'
        PROVE  unique' /\ FileKept(f, files', chunks')
    <2>1. unique /\ FileKept(f, files, chunks)
      BY DEF IInv, Kept
    <2>2. /\ unique' /\ files'[f.id] = files[f.id]
          /\ \A c \in chunks : c.files_id = f.id => c \in chunks'
      BY <2>1
    <2>3. Whole(f.s, f.id, f.size, f.length, chunks')
      BY <2>1, <2>2 DEF FileKept, Whole, Piece
    <2> QED
      BY <2>1, <2>2, <2>3 DEF FileKept
  <1>9. Kept'
    BY <1>6, <1>7, <1>8 DEF Kept
  <1> QED
    BY <1>3, <1>4, <1>5, <1>9 DEF IInv

LEMMA RemovePreserves ==
    ASSUME IInv, NEW w \in Workers, Remove(w)
    PROVE  IInv'
  <1>1. PICK ids \in {Ids} \cup {{id} : id \in Ids}, justOne \in BOOLEAN, drop \in BOOLEAN :
          /\ drop => ids = Ids /\ ~justOne
          /\ op' = [op EXCEPT ![w] = [kind |-> "remove", pc |-> IF drop THEN "drop" ELSE "find",
                                      ids |-> ids, justOne |-> justOne]]
          /\ touched' = touched \cup
               {op[v].s : v \in {v \in Workers : op[v].kind = "store" /\ op[v].id \in ids}}
          /\ stored' = {f \in stored : f.id \notin ids}
    BY DEF Remove
  <1>2. UNCHANGED <<files, chunks, unique, stores>> /\ removes' = removes + 1 /\ removes < MaxRemoves
    BY DEF Remove
  <1> DEFINE o == [kind |-> "remove", pc |-> IF drop THEN "drop" ELSE "find", ids |-> ids,
                   justOne |-> justOne]
  <1>3. o \in RemoveOps
    <2>1. ids \in SUBSET Ids
      OBVIOUS
    <2>2. (IF drop THEN "drop" ELSE "find") \in {"find", "drop", "drop files"}
      OBVIOUS
    <2> QED
      BY <2>1, <2>2 DEF RemoveOps
  <1>4. /\ o.kind = "remove" /\ o.ids = ids
        /\ o.pc # "chunks"
        /\ o.pc \in {"drop", "drop files"} => ids = Ids
    BY <1>1
  <1>5. op' = [op EXCEPT ![w] = o]
    BY <1>1
  <1> HIDE DEF o
  <1>6. op[w].kind # "store"
    BY Places DEF Remove, IInv, Typed
  <1>7. removes' \in 0..MaxRemoves
    BY <1>2, SomeNumbers, GridFSAssumption DEF IInv, Typed
  <1>8. touched \subseteq touched' /\ touched' \subseteq 1..stores
    <2>1. \A v \in Workers : op[v].kind = "store" => op[v].s \in 1..stores
      BY Kinds DEF IInv, Typed, StoreOps, Storers
    <2>2. touched \subseteq 1..stores
      BY DEF IInv, Typed
    <2> QED
      BY <1>1, <2>1, <2>2
  <1>9. Clear(o, op, stored', touched')
    BY <1>1, <1>4 DEF Clear
  <1>10. /\ unique' \in BOOLEAN /\ TypedChunks(chunks', unique', stores)
         /\ files' \in [Ids -> Docs(stores) \cup {NULL}]
    BY <1>2 DEF IInv, Typed
  <1>11. stored' \subseteq stored
    BY <1>1
  <1>12. o \in RemoveOps \cup {Idle(NULL)}
    BY <1>3
  <1> QED
    BY <1>2, <1>5, <1>6, <1>7, <1>8, <1>9, <1>10, <1>11, <1>12, RemoverStep

\* A remover that ends.
LEMMA ClearNothing ==
    ASSUME NEW O, NEW S, NEW T
    PROVE  Clear(Idle(NULL), O, S, T)
  BY DEF Clear, Idle

\* What holds of a remover under way.
LEMMA RemoverWay ==
    ASSUME IInv, NEW w \in Workers, op[w].kind = "remove"
    PROVE  /\ op[w] \in RemoveOps
           /\ op[w].ids \in SUBSET Ids
           /\ Clear(op[w], op, stored, touched)
           /\ op[w].pc = "chunks" => op[w].found \subseteq op[w].ids
           /\ op[w].pc \in {"drop", "drop files"} => op[w].ids = Ids
           /\ \A v \in Workers :
                op[v].kind = "store" /\ op[v].s \notin touched => op[v].id \notin op[w].ids
           /\ \A f \in stored : f.id \notin op[w].ids
  <1>1. op[w] \in RemoveOps
    BY Kinds DEF IInv, Typed
  <1>2. Clear(op[w], op, stored, touched)
    BY DEF IInv, Kept
  <1> QED
    BY <1>1, <1>2 DEF RemoveOps, Clear

\* A remover that has the invariant's view of files, removes, stored and touched.
LEMMA ChunksRemoverStep ==
    ASSUME IInv, NEW w \in Workers, op[w].kind = "remove",
           NEW o \in RemoveOps \cup {Idle(NULL)}, op' = [op EXCEPT ![w] = o],
           UNCHANGED <<files, stores, removes, stored, touched>>,
           unique' \in BOOLEAN, TypedChunks(chunks', unique', stores), chunks' \subseteq chunks,
           unique => \A id \in Ids \ op[w].ids :
               unique' /\ \A c \in chunks : c.files_id = id => c \in chunks',
           o.kind = "remove" => Clear(o, op, stored, touched)
    PROVE  IInv'
  <1>1. removes' \in 0..MaxRemoves /\ touched \subseteq touched' /\ touched' \subseteq 1..stores
    BY DEF IInv, Typed
  <1>2. files' \in [Ids -> Docs(stores) \cup {NULL}]
    BY DEF IInv, Typed
  <1>3. ASSUME NEW v \in Workers, op[v].kind = "store", op[v].s \notin touched', unique
        PROVE  unique' /\ \A c \in chunks : c.files_id = op[v].id => c \in chunks'
    <2>1. op[v].id \in Ids
      BY <1>3, Kinds DEF IInv, Typed, StoreOps, Storers
    <2> QED
      BY <1>3, <2>1, RemoverWay
  <1>4. ASSUME NEW f \in stored', unique
        PROVE  /\ unique'
               /\ files'[f.id] = files[f.id]
               /\ \A c \in chunks : c.files_id = f.id => c \in chunks'
    <2>1. f.id \in Ids /\ f.id \notin op[w].ids
      BY StoredTypes, RemoverWay
    <2> QED
      BY <1>4, <2>1
  <1>5. Clear(o, op, stored', touched')
    BY ClearNothing DEF Clear
  <1> QED
    BY <1>1, <1>2, <1>3, <1>4, <1>5, RemoverStep

LEMMA FindFilesPreserves ==
    ASSUME IInv, NEW w \in Workers, FindFiles(w)
    PROVE  IInv'
  <1>1. /\ op[w].kind = "remove" /\ op[w].pc = "find"
        /\ UNCHANGED <<files, stores, removes, stored, touched>>
    BY DEF FindFiles, In
  <1>2. PICK r \in Outcomes(FALSE, FALSE) : EnsuredIndex(r.done)
    BY DEF FindFiles
  <1>3. r.done \in BOOLEAN
    <2>1. FALSE \in BOOLEAN
      BY Zenon
    <2> QED
      BY <2>1, OutcomesAre, Zenon
  <1>4. /\ chunks' \subseteq chunks
        /\ unique' \in BOOLEAN
        /\ TypedChunks(chunks', unique', stores)
        /\ unique => unique' /\ chunks' = chunks
    <2>1. TypedChunks(chunks, unique, stores) /\ unique \in BOOLEAN
      BY DEF IInv, Typed
    <2> QED
      BY <1>2, <1>3, <2>1, IndexIs
  <1> DEFINE o == [kind |-> "remove", pc |-> "chunks", ids |-> op[w].ids,
                   justOne |-> op[w].justOne,
                   found |-> {id \in op[w].ids : files[id] # NULL}]
  <1>5. op' = [op EXCEPT ![w] = o] \/ op' = [op EXCEPT ![w] = Idle(NULL)]
    BY DEF FindFiles, Fails
  <1>6. op[w] \in RemoveOps /\ op[w].ids \in SUBSET Ids /\ op[w].justOne \in BOOLEAN
    BY <1>1, RemoverWay DEF RemoveOps
  <1>7. o \in RemoveOps
    <2>1. {id \in op[w].ids : files[id] # NULL} \in SUBSET Ids
      BY <1>6
    <2> QED
      BY <1>6, <2>1 DEF RemoveOps
  <1>8. Clear(o, op, stored, touched)
    BY <1>1, RemoverWay DEF Clear
  <1>9. CASE op' = [op EXCEPT ![w] = o]
    <2> HIDE DEF o
    <2> QED
      BY <1>1, <1>4, <1>7, <1>8, <1>9, ChunksRemoverStep
  <1>10. CASE op' = [op EXCEPT ![w] = Idle(NULL)]
    <2>1. Idle(NULL).kind # "remove"
      BY DEF Idle
    <2> QED
      BY <1>1, <1>4, <1>10, <2>1, ChunksRemoverStep
  <1> QED
    BY <1>5, <1>9, <1>10

LEMMA RemoveChunksPreserves ==
    ASSUME IInv, NEW w \in Workers, RemoveChunks(w)
    PROVE  IInv'
  <1>1. /\ op[w].kind = "remove" /\ op[w].pc = "chunks"
        /\ UNCHANGED <<files, unique, stores, removes, stored, touched>>
    BY DEF RemoveChunks, In
  <1>2. PICK id \in op[w].found, r \in Outcomes(FALSE, FALSE) :
          /\ chunks' = IF r.done THEN {c \in chunks : c.files_id # id} ELSE chunks
          /\ IF r.ok THEN op' = [op EXCEPT ![w].found = @ \ {id}] ELSE Fails(w)
    BY DEF RemoveChunks
  <1> DEFINE o == [op[w] EXCEPT !.found = @ \ {id}]
  <1>3. /\ op[w] \in RemoveOps /\ op[w].found \subseteq op[w].ids /\ op[w].ids \in SUBSET Ids
        /\ Clear(op[w], op, stored, touched)
    BY <1>1, RemoverWay
  <1>4. chunks' \subseteq chunks /\ \A c \in chunks : c.files_id # id => c \in chunks'
    BY <1>2
  <1>5. unique' \in BOOLEAN /\ TypedChunks(chunks', unique', stores)
    <2>1. unique \in BOOLEAN /\ TypedChunks(chunks, unique, stores)
      BY DEF IInv, Typed
    <2> QED
      BY <1>1, <1>4, <2>1, FewerTyped
  <1>6. id \in op[w].ids
    BY <1>3
  <1>7. unique => \A i \in Ids \ op[w].ids :
                    unique' /\ \A c \in chunks : c.files_id = i => c \in chunks'
    BY <1>1, <1>4, <1>6
  <1>8. CASE op' = [op EXCEPT ![w] = o]
    <2>1. op[w].found \in SUBSET Ids
      BY <1>3
    <2>2. o \in RemoveOps
      BY <1>1, <1>3, <2>1 DEF RemoveOps
    <2>3. o.pc = "chunks" /\ o.ids = op[w].ids /\ o.found \subseteq op[w].found
      BY <1>1, <1>3 DEF RemoveOps
    <2>4. Clear(o, op, stored, touched)
      BY <1>1, <1>3, <2>3 DEF Clear
    <2> HIDE DEF o
    <2> QED
      BY <1>1, <1>4, <1>5, <1>7, <1>8, <2>2, <2>4, ChunksRemoverStep
  <1>9. CASE op' = [op EXCEPT ![w] = Idle(NULL)]
    <2>1. Idle(NULL).kind # "remove"
      BY DEF Idle
    <2> QED
      BY <1>1, <1>4, <1>5, <1>7, <1>9, <2>1, ChunksRemoverStep
  <1> QED
    BY <1>2, <1>8, <1>9 DEF Fails

LEMMA DropPreserves ==
    ASSUME IInv, NEW w \in Workers, Drop(w)
    PROVE  IInv'
  <1>1. /\ op[w].kind = "remove" /\ op[w].pc = "drop"
        /\ UNCHANGED <<files, stores, removes, stored, touched>>
    BY DEF Drop, In
  <1>2. PICK r \in Outcomes(TRUE, FALSE) :
          /\ IF r.done THEN chunks' = {} /\ unique' = FALSE ELSE UNCHANGED <<chunks, unique>>
          /\ IF r.ok THEN op' = [op EXCEPT ![w].pc = "drop files"] ELSE Fails(w)
    BY DEF Drop
  <1> DEFINE o == [op[w] EXCEPT !.pc = "drop files"]
  <1>3. /\ op[w] \in RemoveOps /\ op[w].ids = Ids
        /\ Clear(op[w], op, stored, touched)
    BY <1>1, RemoverWay
  <1>4. chunks' \subseteq chunks
    BY <1>2
  <1>5. unique' \in BOOLEAN /\ TypedChunks(chunks', unique', stores)
    <2>1. unique \in BOOLEAN /\ TypedChunks(chunks, unique, stores)
      BY DEF IInv, Typed
    <2>2. TypedChunks({}, FALSE, stores) /\ FALSE \in BOOLEAN
      BY DEF TypedChunks
    <2>3. CASE r.done
      <3>1. chunks' = {} /\ unique' = FALSE
        BY <1>2, <2>3
      <3> QED
        BY <2>2, <3>1
    <2>4. CASE ~r.done
      BY <1>2, <2>1, <2>4
    <2> QED
      BY <2>3, <2>4
  <1>6. Ids \ op[w].ids = {}
    BY <1>3
  <1>7. CASE op' = [op EXCEPT ![w] = o]
    <2>1. o \in RemoveOps
      BY <1>1, <1>3 DEF RemoveOps
    <2>2. o.pc = "drop files" /\ o.ids = op[w].ids
      BY <1>1, <1>3 DEF RemoveOps
    <2>3. Clear(o, op, stored, touched)
      BY <1>1, <1>3, <2>2 DEF Clear
    <2> HIDE DEF o
    <2> QED
      BY <1>1, <1>4, <1>5, <1>6, <1>7, <2>1, <2>3, ChunksRemoverStep
  <1>8. CASE op' = [op EXCEPT ![w] = Idle(NULL)]
    <2>1. Idle(NULL).kind # "remove"
      BY DEF Idle
    <2> QED
      BY <1>1, <1>4, <1>5, <1>6, <1>8, <2>1, ChunksRemoverStep
  <1> QED
    BY <1>2, <1>7, <1>8 DEF Fails

\* A remover that takes documents under its own ids away, and ends.
LEMMA FilesRemoverStep ==
    ASSUME IInv, NEW w \in Workers, op[w].kind = "remove",
           op' = [op EXCEPT ![w] = Idle(NULL)],
           UNCHANGED <<chunks, unique, stores, removes, stored, touched>>,
           files' \in [Ids -> Docs(stores) \cup {NULL}],
           \A id \in Ids : files'[id] = files[id] \/ files'[id] = NULL,
           \A id \in Ids \ op[w].ids : files'[id] = files[id]
    PROVE  IInv'
  <1>1. /\ removes' \in 0..MaxRemoves /\ touched \subseteq touched' /\ touched' \subseteq 1..stores
        /\ unique' \in BOOLEAN /\ TypedChunks(chunks', unique', stores)
    BY DEF IInv, Typed
  <1>2. ASSUME NEW f \in stored', unique
        PROVE  unique' /\ files'[f.id] = files[f.id] /\ \A c \in chunks : c.files_id = f.id => c \in chunks'
    <2>1. f.id \in Ids /\ f.id \notin op[w].ids
      BY StoredTypes, RemoverWay
    <2> QED
      BY <1>2, <2>1
  <1>3. Clear(Idle(NULL), op, stored', touched')
    BY ClearNothing
  <1> QED
    BY <1>1, <1>2, <1>3, RemoverStep

LEMMA RemoveFilesPreserves ==
    ASSUME IInv, NEW w \in Workers, RemoveFiles(w)
    PROVE  IInv'
  <1> DEFINE o == op[w]
             matching == {id \in o.ids : files[id] # NULL}
  <1>1. /\ o.kind = "remove" /\ o.pc = "chunks"
        /\ UNCHANGED <<chunks, unique, stores, removes, stored, touched>>
    BY DEF RemoveFiles, In
  <1>2. PICK gone \in IF o.justOne /\ matching # {} THEN {{id} : id \in matching} ELSE {matching},
             r \in Outcomes(FALSE, FALSE) :
          /\ files' = [id \in Ids |-> IF r.done /\ id \in gone THEN NULL ELSE files[id]]
          /\ op' = [op EXCEPT ![w] = Idle(NULL)]
    BY DEF RemoveFiles
  <1>3. gone \subseteq o.ids
    BY <1>2
  <1>4. files \in [Ids -> Docs(stores) \cup {NULL}]
    BY DEF IInv, Typed
  <1>5. files' \in [Ids -> Docs(stores) \cup {NULL}]
    BY <1>2, <1>4
  <1>6. \A id \in Ids : files'[id] = files[id] \/ files'[id] = NULL
    BY <1>2
  <1>7. \A id \in Ids \ o.ids : files'[id] = files[id]
    BY <1>2, <1>3
  <1> QED
    BY <1>1, <1>2, <1>5, <1>6, <1>7, FilesRemoverStep

LEMMA DropFilesPreserves ==
    ASSUME IInv, NEW w \in Workers, DropFiles(w)
    PROVE  IInv'
  <1>1. /\ op[w].kind = "remove" /\ op[w].pc = "drop files"
        /\ op' = [op EXCEPT ![w] = Idle(NULL)]
        /\ UNCHANGED <<chunks, unique, stores, removes, stored, touched>>
    BY DEF DropFiles, In
  <1>2. PICK r \in Outcomes(TRUE, FALSE) :
          files' = IF r.done THEN [id \in Ids |-> NULL] ELSE files
    BY DEF DropFiles
  <1>3. files \in [Ids -> Docs(stores) \cup {NULL}]
    BY DEF IInv, Typed
  <1>4. /\ files' \in [Ids -> Docs(stores) \cup {NULL}]
        /\ \A id \in Ids : files'[id] = files[id] \/ files'[id] = NULL
    BY <1>2, <1>3
  <1>5. op[w].ids = Ids
    BY <1>1, RemoverWay
  <1> QED
    BY <1>1, <1>4, <1>5, FilesRemoverStep

\* No step of a remover breaks the invariant.
LEMMA DeletingPreserves ==
    ASSUME IInv, NEW w \in Workers, Deleting(w)
    PROVE  IInv'
  BY RemovePreserves, FindFilesPreserves, RemoveChunksPreserves, RemoveFilesPreserves,
     DropPreserves, DropFilesPreserves DEF Deleting

-----------------------------------------------------------------------------
(* Storing *)

\* A store under way.
LEMMA StoreIs ==
    ASSUME IInv, NEW w \in Workers, op[w].kind = "store"
    PROVE  /\ op[w] \in StoreOps(stores)
           /\ op[w].id \in Ids /\ op[w].f \in Files /\ op[w].s \in 1..stores
           /\ op[w].n \in Nat /\ op[w].pos \in Nat
           /\ op[w].cleanup_ids \in Seq((1..stores) \X Nat)
           /\ op[w].f.length \in Nat /\ op[w].f.length < IntSize \div 2
           /\ op[w].f.acked \in BOOLEAN /\ op[w].f.default \in BOOLEAN
           /\ op[w].f.source \in {"bytes", "file", "fd"} /\ op[w].f.chunkSize \in Int
           /\ Size(op[w].f) \in Nat \ {0}
           /\ Accounted(op[w], chunks)
           /\ Complete(op[w], chunks, unique, touched)
           /\ \A v \in Workers : v # w => NotOf(op[v], op[w].s)
           /\ \A f \in stored : f.s # op[w].s
           /\ stores \in Nat
  <1>1. op[w] \in StoreOps(stores)
    BY Kinds DEF IInv, Typed
  <1>2. op[w].id \in Ids /\ op[w].f \in Files /\ op[w].s \in 1..stores
        /\ op[w].n \in Nat /\ op[w].pos \in Nat
        /\ op[w].cleanup_ids \in Seq((1..stores) \X Nat)
    BY <1>1 DEF StoreOps, Storers
  <1>3. op[w].f.length \in Nat /\ op[w].f.length < IntSize \div 2
        /\ op[w].f.acked \in BOOLEAN /\ op[w].f.default \in BOOLEAN
        /\ op[w].f.source \in {"bytes", "file", "fd"} /\ op[w].f.chunkSize \in Int
        /\ Size(op[w].f) \in Nat \ {0}
    BY <1>2, GridFSAssumption, SomeNumbers
  <1>4. Accounted(op[w], chunks) /\ \A v \in Workers : v # w => NotOf(op[v], op[w].s)
    BY DEF IInv, Owned
  <1>5. Complete(op[w], chunks, unique, touched)
    BY DEF IInv, Kept
  <1>6. \A f \in stored : f.s # op[w].s
    BY DEF IInv, Known
  <1>7. stores \in Nat
    BY SomeNumbers, GridFSAssumption DEF IInv, Typed
  <1> QED
    BY <1>1, <1>2, <1>3, <1>4, <1>5, <1>6, <1>7

\* Who stores reads nothing and has returned nothing.
LEMMA StoreReadsNothing ==
    ASSUME NEW n, NEW o \in StoreOps(n)
    PROVE  /\ o.kind = "store" /\ o.pc \notin {"idle", "open"}
           /\ \A f : Right(o, f)
           /\ \A s : ~Speaks(o, s)
           /\ o \in Ops(n)
           /\ \A C : Quiet(o, C)
  <1>1. o.kind = "store" /\ o.pc \notin {"idle", "open"}
    BY DEF StoreOps, Storers
  <1>2. \A f : Right(o, f)
    BY <1>1 DEF Right, RightReader, RightStream, RightResult
  <1>3. \A s : ~Speaks(o, s)
    BY <1>1 DEF Speaks
  <1>4. \A C : Quiet(o, C)
    BY <1>1 DEF Quiet
  <1> QED
    BY <1>1, <1>2, <1>3, <1>4 DEF Ops

\* A store that changes its own chunks only, and is complete and accounted for.
LEMMA StoreStep ==
    ASSUME IInv, NEW w \in Workers, op[w].kind = "store", NEW o \in StoreOps(stores),
           o.s = op[w].s, o.id = op[w].id, o.pc # "cleanup" => op[w].pc # "cleanup",
           op' = [op EXCEPT ![w] = o],
           UNCHANGED <<files, stores, removes, stored, touched>>,
           unique' \in BOOLEAN, unique => unique', TypedChunks(chunks', unique', stores),
           \A c \in chunks' : c \in chunks \/ c.key[1] = o.s,
           unique => \A c \in chunks : c \in chunks' \/ c.key[1] = o.s,
           Accounted(o, chunks'),
           Complete(o, chunks', unique', touched)
    PROVE  IInv'
  <1>1. /\ o.kind = "store" /\ o.pc \notin {"idle", "open"}
        /\ \A f : Right(o, f)
        /\ \A s : ~Speaks(o, s)
        /\ o \in Ops(stores)
        /\ \A C : Quiet(o, C)
    BY StoreReadsNothing
  <1>2. \A v \in Workers : op'[v] = IF v = w THEN o ELSE op[v]
    BY DEF IInv, Typed
  <1>3. Typed'
    <2>1. op' \in [Workers -> Ops(stores)]
      BY <1>1 DEF IInv, Typed
    <2> QED
      BY <2>1 DEF IInv, Typed
  <1>4. Owned'
    <2>1. ASSUME NEW v \in Workers, NEW u \in Workers, v # u, op'[u].kind = "store"
          PROVE  NotOf(op'[v], op'[u].s)
      <3>1. op[u].kind = "store" /\ op'[u].s = op[u].s
        BY <1>2, <2>1
      <3>2. NotOf(op[v], op[u].s)
        BY <2>1, <3>1 DEF IInv, Owned
      <3>3. CASE v = w
        BY <1>1, <1>2, <3>1, <3>2, <3>3 DEF NotOf
      <3>4. CASE v # w
        BY <1>2, <3>1, <3>2, <3>4
      <3> QED
        BY <3>3, <3>4
    <2>2. ASSUME NEW v \in Workers
          PROVE  Accounted(op'[v], chunks') /\ Quiet(op'[v], chunks')
      <3>1. CASE v = w
        BY <1>1, <1>2, <3>1
      <3>2. CASE v # w
        <4>1. Accounted(op[v], chunks) /\ Quiet(op[v], chunks)
          BY DEF IInv, Owned
        <4>2. NotOf(op[v], o.s)
          BY <3>2 DEF IInv, Owned
        <4>3. Accounted(op[v], chunks')
          BY <4>1, <4>2 DEF Accounted, NotOf
        <4>4. Quiet(op[v], chunks')
          BY <4>1, <4>2 DEF Quiet, NotOf
        <4> QED
          BY <1>2, <3>2, <4>3, <4>4
      <3> QED
        BY <3>1, <3>2
    <2> QED
      BY <2>1, <2>2 DEF Owned
  <1>5. Kept'
    <2>1. ASSUME NEW v \in Workers
          PROVE  Complete(op'[v], chunks', unique', touched')
      <3>1. CASE v = w
        BY <1>2, <3>1
      <3>2. CASE v # w
        <4>1. Complete(op[v], chunks, unique, touched)
          BY DEF IInv, Kept
        <4>2. op[v].kind = "store" => op[v].s # o.s
          BY <3>2 DEF IInv, Owned, NotOf
        <4>3. SUFFICES Complete(op[v], chunks', unique', touched)
          BY <1>2, <3>2
        <4>4. SUFFICES ASSUME Undisturbed(op[v], touched),
                              op[v].pc \in {"chunk", "gle", "gle more", "file"}
                       PROVE  unique' /\ Whole(op[v].s, op[v].id, Size(op[v].f), op[v].pos, chunks')
          BY <4>1 DEF Complete
        <4>5. unique /\ Whole(op[v].s, op[v].id, Size(op[v].f), op[v].pos, chunks)
          BY <4>1, <4>4 DEF Complete
        <4>6. op[v].s # o.s
          BY <4>2, <4>4 DEF Undisturbed
        <4> QED
          BY <4>5, <4>6 DEF Whole, Piece
      <3> QED
        BY <3>1, <3>2
    <2>2. ASSUME NEW v \in Workers
          PROVE  Clear(op'[v], op', stored', touched')
      <3>1. CASE v = w
        BY <1>1, <1>2, <3>1 DEF Clear
      <3>2. CASE v # w
        <4>1. Clear(op[v], op, stored, touched)
          BY DEF IInv, Kept
        <4>2. \A u \in Workers : /\ op'[u].kind = op[u].kind
                                 /\ op[u].kind = "store" => op'[u].s = op[u].s /\ op'[u].id = op[u].id
          BY <1>1, <1>2
        <4>3. op'[v] = op[v] /\ stored' = stored /\ touched' = touched
          BY <1>2, <3>2
        <4>4. SUFFICES ASSUME op[v].kind = "remove"
                       PROVE  Clear(op[v], op', stored, touched)
          BY <4>3 DEF Clear
        <4>5. \A u \in Workers : op'[u].kind = "store" /\ op'[u].id \in op[v].ids
                                => op'[u].s \in touched
          <5>1. SUFFICES ASSUME NEW u \in Workers, op'[u].kind = "store", op'[u].id \in op[v].ids
                         PROVE  op'[u].s \in touched
            OBVIOUS
          <5>2. op[u].kind = "store" /\ op[u].id \in op[v].ids /\ op'[u].s = op[u].s
            BY <4>2, <5>1
          <5> QED
            BY <4>1, <4>4, <5>2 DEF Clear
        <4> QED
          BY <4>1, <4>4, <4>5 DEF Clear
      <3> QED
        BY <3>1, <3>2
    <2>3. ASSUME NEW f \in stored
          PROVE  unique' /\ FileKept(f, files, chunks')
      <3>1. unique /\ FileKept(f, files, chunks)
        BY DEF IInv, Kept
      <3>2. f.s # o.s
        BY DEF IInv, Known
      <3>3. Whole(f.s, f.id, f.size, f.length, chunks')
        BY <3>1, <3>2 DEF FileKept, Whole, Piece
      <3> QED
        BY <3>1, <3>3 DEF FileKept
    <2> QED
      BY <2>1, <2>2, <2>3 DEF Kept
  <1>6. Known'
    <2>1. ASSUME NEW v \in Workers, op'[v].kind = "store", op'[v].pc # "cleanup"
          PROVE  Unseen(op'[v].s, files, op')
      <3>1. op[v].kind = "store" /\ op[v].pc # "cleanup" /\ op'[v].s = op[v].s
        BY <1>2, <2>1
      <3>2. Unseen(op[v].s, files, op)
        BY <3>1 DEF IInv, Known
      <3> QED
        BY <1>1, <1>2, <3>1, <3>2 DEF Unseen
    <2>2. ASSUME NEW f \in stored, NEW v \in Workers
          PROVE  (op'[v].kind = "store" => op'[v].s # f.s) /\ Right(op'[v], f)
      BY <1>1, <1>2 DEF IInv, Known
    <2>3. \A f \in stored, id \in Ids : files[id] # NULL /\ files[id].s = f.s => id = f.id
      BY DEF IInv, Known
    <2> QED
      BY <2>1, <2>2, <2>3 DEF Known
  <1> QED
    BY <1>3, <1>4, <1>5, <1>6 DEF IInv

\* A store begins: its number is new.
LEMMA StorePreserves ==
    ASSUME IInv, NEW w \in Workers, Store(w)
    PROVE  IInv'
  <1> DEFINE m == stores + 1
  <1>1. /\ op[w].pc = "idle" /\ stores < MaxStores /\ stores' = m
        /\ UNCHANGED <<files, chunks, unique, removes, stored>>
    BY DEF Store
  <1>2. PICK id \in Ids, f \in Files :
         /\ op' = [op EXCEPT ![w] =
                      [kind |-> "store", pc |-> "index", id |-> id, f |-> f, s |-> m,
                       n |-> 0, pos |-> 0, cleanup_ids |-> <<>>, failed |-> FALSE,
                       leaves |-> FALSE]]
         /\ touched' = IF Removing(id) THEN touched \cup {m} ELSE touched
    BY DEF Store
  <1> DEFINE o == [kind |-> "store", pc |-> "index", id |-> id, f |-> f, s |-> m,
                   n |-> 0, pos |-> 0, cleanup_ids |-> <<>>, failed |-> FALSE, leaves |-> FALSE]
  <1>3. stores \in Nat /\ m \in Nat /\ stores <= m /\ m \in 1..m /\ m \notin 1..stores
    BY SomeNumbers, GridFSAssumption DEF IInv, Typed
  <1>4. o \in StoreOps(m)
    <2>1. <<>> \in Seq((1..m) \X Nat)
      OBVIOUS
    <2>2. FALSE \in BOOLEAN
      BY Zenon
    <2> QED
      BY <1>3, <2>1, <2>2 DEF StoreOps, Storers
  <1>5. /\ o.kind = "store" /\ o.pc = "index" /\ o.s = m /\ o.id = id /\ o.cleanup_ids = <<>>
        /\ op' = [op EXCEPT ![w] = o]
    BY <1>2
  <1> HIDE DEF o
  <1>6. /\ o.pc \notin {"idle", "open"}
        /\ \A g : Right(o, g)
        /\ \A s : ~Speaks(o, s)
        /\ o \in Ops(m)
        /\ \A C : Quiet(o, C)
    BY <1>4, StoreReadsNothing
  <1>7. \A v \in Workers : op'[v] = IF v = w THEN o ELSE op[v]
    BY <1>5 DEF IInv, Typed
  <1>8. op[w].kind = "none"
    BY <1>1, Places DEF IInv, Typed
  <1>9. stores' \in 0..MaxStores
    BY <1>1, <1>3, SomeNumbers, GridFSAssumption
  <1>10. touched \subseteq touched' /\ touched' \subseteq 1..m /\ touched' \ {m} = touched
    <2>1. touched \subseteq 1..stores
      BY DEF IInv, Typed
    <2>2. touched \subseteq 1..m /\ m \notin touched
      BY <1>3, <2>1
    <2> QED
      BY <1>2, <1>3, <2>2
  <1>11. Typed'
    <2>1. op' \in [Workers -> Ops(m)]
      BY <1>3, <1>5, <1>6, OpsGrow DEF IInv, Typed
    <2>2. files \in [Ids -> Docs(m) \cup {NULL}]
      BY <1>3, DocsGrow DEF IInv, Typed
    <2>3. TypedChunks(chunks, unique, m) /\ stored \subseteq Stored(m)
      BY <1>3, DocsGrow DEF IInv, Typed, TypedChunks
    <2>4. unique \in BOOLEAN /\ removes \in 0..MaxRemoves
      BY DEF IInv, Typed
    <2> QED
      BY <1>1, <1>9, <1>10, <2>1, <2>2, <2>3, <2>4 DEF Typed
  <1>12. \A c \in chunks : c.key[1] # m
    BY <1>3 DEF IInv, Typed, TypedChunks, Chunks
  <1>13. \A id2 \in Ids : files[id2] # NULL => files[id2].s # m
    <2>1. \A id2 \in Ids : files[id2] # NULL => files[id2] \in Docs(stores)
      BY DEF IInv, Typed
    <2> QED
      BY <1>3, <2>1 DEF Docs
  <1>14. ASSUME NEW v \in Workers
         PROVE  NotOf(op[v], m) /\ ~Speaks(op[v], m)
    <2>1. op[v] \in Ops(stores)
      BY DEF IInv, Typed
    <2>2. op[v].kind = "store" => op[v].s \in 1..stores
      BY <2>1, Kinds DEF StoreOps, Storers
    <2>3. op[v].pc = "idle" => op[v].result \in StoreResults(stores) \cup Data(stores) \cup {NULL}
      BY <2>1, Kinds, Places DEF IdleOps
    <2>4. op[v].pc = "open" => op[v].result \in Data(stores) \cup {NULL}
      BY <2>1, Places DEF OpenStreams
    <2>5. op[v].kind \in {"read", "stream"} => op[v].doc \in Docs(stores)
      BY <2>1, Kinds DEF ReadOps, Streams, OpenStreams, SecondReads
    <2>6. NotOf(op[v], m)
      BY <1>3, <2>2, <2>3 DEF NotOf, StoreResults, Data
    <2>7. ~Speaks(op[v], m)
      BY <1>3, <2>3, <2>4, <2>5 DEF Speaks, StoreResults, Data, Docs
    <2> QED
      BY <2>6, <2>7
  <1>15. Owned'
    <2>1. ASSUME NEW v \in Workers, NEW u \in Workers, v # u, op'[u].kind = "store"
          PROVE  NotOf(op'[v], op'[u].s)
      <3>1. CASE u = w
        BY <1>5, <1>7, <1>14, <2>1, <3>1
      <3>2. CASE v = w
        <4>1. op'[u] = op[u] /\ op[u].s \in 1..stores
          BY <1>7, <2>1, <3>2, StoreIs
        <4> QED
          BY <1>3, <1>5, <1>6, <1>7, <3>2, <4>1 DEF NotOf
      <3>3. CASE v # w /\ u # w
        BY <1>7, <2>1, <3>3 DEF IInv, Owned
      <3> QED
        BY <3>1, <3>2, <3>3
    <2>2. ASSUME NEW v \in Workers
          PROVE  Accounted(op'[v], chunks) /\ Quiet(op'[v], chunks)
      <3>1. CASE v = w
        <4>1. Accounted(o, chunks)
          BY <1>5, <1>12 DEF Accounted
        <4> QED
          BY <1>6, <1>7, <3>1, <4>1
      <3>2. CASE v # w
        BY <1>7, <3>2 DEF IInv, Owned
      <3> QED
        BY <3>1, <3>2
    <2> QED
      BY <1>1, <2>1, <2>2 DEF Owned
  <1>16. Kept'
    <2>1. ASSUME NEW v \in Workers
          PROVE  Complete(op'[v], chunks, unique, touched')
      <3>1. CASE v = w
        BY <1>5, <1>7, <3>1 DEF Complete
      <3>2. CASE v # w
        <4>1. Complete(op[v], chunks, unique, touched)
          BY DEF IInv, Kept
        <4> QED
          BY <1>7, <1>10, <3>2, <4>1 DEF Complete, Undisturbed
      <3> QED
        BY <3>1, <3>2
    <2>2. ASSUME NEW v \in Workers
          PROVE  Clear(op'[v], op', stored, touched')
      <3>1. CASE v = w
        BY <1>5, <1>7, <3>1 DEF Clear
      <3>2. CASE v # w
        <4>1. Clear(op[v], op, stored, touched) /\ op'[v] = op[v]
          BY <1>7, <3>2 DEF IInv, Kept
        <4>2. SUFFICES ASSUME op[v].kind = "remove"
                       PROVE  Clear(op[v], op', stored, touched')
          BY <4>1 DEF Clear
        <4>3. ASSUME NEW u \in Workers, op'[u].kind = "store", op'[u].id \in op[v].ids
              PROVE  op'[u].s \in touched'
          <5>1. CASE u = w
            <6>1. Removing(id)
              BY <1>5, <1>7, <4>2, <4>3, <5>1 DEF Removing
            <6> QED
              BY <1>2, <1>5, <1>7, <5>1, <6>1
          <5>2. CASE u # w
            BY <1>7, <1>10, <4>1, <4>2, <4>3, <5>2 DEF Clear
          <5> QED
            BY <5>1, <5>2
        <4> QED
          BY <4>1, <4>2, <4>3 DEF Clear
      <3> QED
        BY <3>1, <3>2
    <2>3. (stored # {} => unique) /\ \A g \in stored : FileKept(g, files, chunks)
      BY DEF IInv, Kept
    <2> QED
      BY <1>1, <2>1, <2>2, <2>3 DEF Kept
  <1>17. Known'
    <2>1. ASSUME NEW v \in Workers, op'[v].kind = "store", op'[v].pc # "cleanup"
          PROVE  Unseen(op'[v].s, files, op')
      <3>1. CASE v = w
        BY <1>5, <1>6, <1>7, <1>13, <1>14, <3>1 DEF Unseen
      <3>2. CASE v # w
        <4>1. Unseen(op[v].s, files, op) /\ op'[v] = op[v]
          BY <1>7, <2>1, <3>2 DEF IInv, Known
        <4> QED
          BY <1>6, <1>7, <4>1 DEF Unseen
      <3> QED
        BY <3>1, <3>2
    <2>2. ASSUME NEW g \in stored, NEW v \in Workers
          PROVE  (op'[v].kind = "store" => op'[v].s # g.s) /\ Right(op'[v], g)
      <3>1. g.s # m
        BY <1>3 DEF IInv, Typed, Stored
      <3> QED
        BY <1>5, <1>6, <1>7, <3>1 DEF IInv, Known
    <2>3. \A g \in stored, i \in Ids : files[i] # NULL /\ files[i].s = g.s => i = g.id
      BY DEF IInv, Known
    <2> QED
      BY <1>1, <2>1, <2>2, <2>3 DEF Known
  <1> QED
    BY <1>11, <1>15, <1>16, <1>17 DEF IInv

\* The index is there, or the store has failed or did not ask.
LEMMA EnsureIndexPreserves ==
    ASSUME IInv, NEW w \in Workers, EnsureIndex(w)
    PROVE  IInv'
  <1>1. /\ op[w].kind = "store" /\ op[w].pc = "index"
        /\ UNCHANGED <<files, stores, removes, stored, touched>>
    BY DEF EnsureIndex, In
  <1>2. PICK r \in Outcomes(op[w].f.default, FALSE) :
         /\ EnsuredIndex(r.done)
         /\ op' = [op EXCEPT ![w].pc = IF r.ok THEN "chunk" ELSE "cleanup"]
    BY DEF EnsureIndex
  <1> DEFINE o == [op[w] EXCEPT !.pc = IF r.ok THEN "chunk" ELSE "cleanup"]
  <1>3. /\ op[w] \in StoreOps(stores)
        /\ op[w].f.default \in BOOLEAN /\ op[w].f.length \in Nat /\ Size(op[w].f) \in Nat \ {0}
        /\ Accounted(op[w], chunks)
    BY <1>1, StoreIs
  <1>4. /\ r.done \in BOOLEAN /\ r.ok \in BOOLEAN
        /\ op[w].f.default /\ r.ok => r.done
    BY <1>3, UnsureOutcomes
  <1>5. /\ chunks' \subseteq chunks
        /\ unique' \in BOOLEAN
        /\ TypedChunks(chunks', unique', stores)
        /\ unique => unique' /\ chunks' = chunks
        /\ r.done => unique'
    <2>1. TypedChunks(chunks, unique, stores) /\ unique \in BOOLEAN
      BY DEF IInv, Typed
    <2> QED
      BY <1>2, <1>4, <2>1, IndexIs
  <1>6. op[w].n = 0 /\ op[w].pos = 0 /\ ~op[w].failed
    BY <1>1, <1>3 DEF StoreOps
  <1>7. op' = [op EXCEPT ![w] = o] /\ o \in StoreOps(stores)
    BY <1>1, <1>2, <1>3 DEF StoreOps, Storers
  <1>8. /\ o.kind = "store" /\ o.s = op[w].s /\ o.id = op[w].id /\ o.f = op[w].f
        /\ o.n = 0 /\ o.pos = 0 /\ ~o.failed /\ o.cleanup_ids = op[w].cleanup_ids
        /\ o.leaves = op[w].leaves
        /\ o.pc = IF r.ok THEN "chunk" ELSE "cleanup"
    BY <1>3, <1>6 DEF StoreOps, Storers
  <1> HIDE DEF o
  <1>9. Accounted(o, chunks')
    <2>1. Accounted(o, chunks)
      BY <1>1, <1>3, <1>8 DEF Accounted
    <2> QED
      BY <1>5, <2>1, FewerAccounted
  <1>10. Complete(o, chunks', unique', touched)
    <2>1. SUFFICES ASSUME Undisturbed(o, touched), o.pc \in {"chunk", "gle", "gle more", "file"}
                   PROVE  /\ unique' /\ Whole(o.s, o.id, Size(o.f), o.pos, chunks')
                          /\ o.pc = "chunk" /\ o.pos <= o.f.length /\ o.pos = o.n * Size(o.f)
      BY <1>8 DEF Complete
    <2>2. r.ok /\ o.pc = "chunk"
      BY <1>8, <2>1
    <2>3. unique'
      BY <1>4, <1>5, <1>8, <2>1, <2>2 DEF Undisturbed
    <2>4. \A k \in Nat : ~(k * Size(o.f) < 0)
      BY <1>3, <1>8, MultMonotone
    <2>5. 0 <= o.f.length /\ 0 = 0 * Size(o.f)
      BY <1>3, <1>8
    <2> QED
      BY <1>8, <2>2, <2>3, <2>4, <2>5 DEF Whole
  <1>11. unique => \A c \in chunks : c \in chunks' \/ c.key[1] = o.s
    BY <1>5
  <1> QED
    BY <1>1, <1>5, <1>7, <1>8, <1>9, <1>10, <1>11, StoreStep

\* Chunks that are whole so far stay whole with the next one.
LEMMA WholeExtends ==
    ASSUME NEW s, NEW id, NEW size \in Nat \ {0}, NEW n \in Nat, NEW len \in 0..size,
           NEW C, NEW D, C \subseteq D, Whole(s, id, size, n * size, C),
           [key |-> <<s, n>>, files_id |-> id, n |-> n, data |-> Bytes(s, n * size, len)] \in D
    PROVE  Whole(s, id, size, n * size + len, D)
  <1>1. SUFFICES ASSUME NEW k \in Nat, k * size < n * size + len
                 PROVE  Piece(s, id, size, n * size + len, k) \in D
    BY DEF Whole
  <1>2. k * size \in Nat /\ n * size \in Nat
    BY MultMonotone
  <1>3. k <= n
    <2>1. SUFFICES ASSUME n + 1 <= k
                   PROVE  FALSE
      OBVIOUS
    <2>2. (n + 1) * size <= k * size
      BY <2>1, MultMonotone
    <2>3. (n + 1) * size = n * size + size
      BY MultMonotone
    <2> QED
      BY <1>1, <1>2, <2>2, <2>3
  <1>4. CASE k = n
    <2>1. (n * size + len) - n * size = len
      BY <1>2
    <2>2. (IF len < size THEN len ELSE size) = len
      OBVIOUS
    <2> QED
      BY <1>4, <2>1, <2>2 DEF Piece
  <1>5. CASE k # n
    <2> DEFINE a == k * size
               b == n * size
    <2>1. a + size <= b
      <3>1. (k + 1) * size <= n * size
        BY <1>3, <1>5, MultMonotone
      <3>2. (k + 1) * size = k * size + size
        BY MultMonotone
      <3> QED
        BY <3>1, <3>2
    <2>2. Piece(s, id, size, b, k) \in C
      <3>1. a < b
        <4> HIDE DEF a, b
        <4> QED
          BY <2>1, <1>2 DEF a, b
      <3> QED
        BY <3>1 DEF Whole
    <2>3. a \in Nat /\ b \in Nat
      BY <1>2
    <2> HIDE DEF a, b
    <2>4. (IF (b + len) - a < size THEN (b + len) - a ELSE size) = size
      BY <2>1, <2>3
    <2>5. (IF b - a < size THEN b - a ELSE size) = size
      BY <2>1, <2>3
    <2>6. Piece(s, id, size, b + len, k) = Piece(s, id, size, b, k)
      BY <2>4, <2>5 DEF Piece, a
    <2> QED
      BY <2>2, <2>6 DEF b
  <1> QED
    BY <1>4, <1>5


\* How far the next chunk goes.
LEMMA ChunkLengthsAre ==
    ASSUME NEW o, o.f.length \in Nat, o.pos \in Nat, Size(o.f) \in Nat \ {0},
           NEW len \in ChunkLengths(o), MoreChunks(o)
    PROVE  /\ len \in Nat
           /\ o.pos <= o.f.length =>
                /\ len \in 0..Size(o.f)
                /\ o.pos + len <= o.f.length
                /\ o.f.source # "fd" => len = Size(o.f) \/ o.pos + len = o.f.length
  <1> DEFINE left == o.f.length - o.pos
             full == IF left < Size(o.f) THEN left ELSE Size(o.f)
  <1>1. left \in Int /\ full \in Int /\ full <= Size(o.f) /\ o.pos + full <= o.f.length
    OBVIOUS
  <1>2. full = Size(o.f) \/ o.pos + full = o.f.length
    OBVIOUS
  <1>3. o.pos <= o.f.length => full \in Nat
    OBVIOUS
  <1>4. o.f.source = "fd" \/ o.pos <= o.f.length
    BY DEF MoreChunks
  <1>5. len \in IF o.f.source = "fd" THEN 0..full ELSE {full}
    BY DEF ChunkLengths
  <1> HIDE DEF full, left
  <1> QED
    BY <1>1, <1>2, <1>3, <1>4, <1>5

\* A chunk is sent, is there or not, and is remembered if the store goes on.
LEMMA InsertChunkPreserves ==
    ASSUME IInv, NEW w \in Workers, InsertChunk(w)
    PROVE  IInv'
  <1> DEFINE o == op[w]
             size == Size(o.f)
  <1>1. /\ o.kind = "store" /\ o.pc = "chunk" /\ MoreChunks(o)
        /\ UNCHANGED <<files, unique, stores, removes, stored, touched>>
    BY DEF InsertChunk, In
  <1> DEFINE C(len) == [key |-> <<o.s, o.n>>, files_id |-> o.id, n |-> o.n,
                        data |-> Bytes(o.s, o.pos, len)]
             Refused(len) == unique /\ \E d \in chunks : SamePlace(C(len), d)
             To(len, r) == IF ~r.ok THEN [o EXCEPT !.pc = "cleanup", !.leaves = @ \/ r.done]
                           ELSE [o EXCEPT !.pos = @ + len, !.n = @ + 1,
                                          !.cleanup_ids = Remembered(o, C(len)),
                                          !.failed = ~r.done,
                                          !.pc = IF o.f.source = "bytes" THEN "chunk"
                                                 ELSE IF LastChunk(o, len) THEN "gle"
                                                 ELSE "gle more"]
  <1>2. \E len \in ChunkLengths(o) : \E r \in Outcomes(o.f.acked, Refused(len)) :
          /\ chunks' = IF r.done THEN chunks \cup {C(len)} ELSE chunks
          /\ op' = [op EXCEPT ![w] = To(len, r)]
    BY DEF InsertChunk
  <1>3. PICK len \in ChunkLengths(o) : \E r \in Outcomes(o.f.acked, Refused(len)) :
          /\ chunks' = IF r.done THEN chunks \cup {C(len)} ELSE chunks
          /\ op' = [op EXCEPT ![w] = To(len, r)]
    BY <1>2
  <1>4. PICK r \in Outcomes(o.f.acked, Refused(len)) :
          /\ chunks' = IF r.done THEN chunks \cup {C(len)} ELSE chunks
          /\ op' = [op EXCEPT ![w] = To(len, r)]
    BY <1>3
  <1> DEFINE c == C(len)
             p == To(len, r)
  <1>5. /\ o \in StoreOps(stores) /\ o.id \in Ids /\ o.f \in Files /\ o.s \in 1..stores
        /\ o.n \in Nat /\ o.pos \in Nat /\ o.cleanup_ids \in Seq((1..stores) \X Nat)
        /\ o.f.length \in Nat /\ o.f.acked \in BOOLEAN /\ o.f.source \in {"bytes", "file", "fd"}
        /\ size \in Nat \ {0} /\ stores \in Nat
        /\ Accounted(o, chunks) /\ Complete(o, chunks, unique, touched)
    BY <1>1, StoreIs
  <1>6. /\ len \in Nat
        /\ o.pos <= o.f.length =>
             /\ len \in 0..size
             /\ o.pos + len <= o.f.length
             /\ o.f.source # "fd" => len = size \/ o.pos + len = o.f.length
    BY <1>1, <1>5, ChunkLengthsAre
  <1>7. /\ r.done \in BOOLEAN /\ r.ok \in BOOLEAN
        /\ r.done => ~Refused(len)
        /\ o.f.acked /\ r.ok => r.done
    <2>1. Refused(len) \in BOOLEAN
      BY Zenon
    <2> HIDE DEF Refused, o
    <2> QED
      BY <1>5, <2>1, OutcomesAre
  <1>8. /\ c.key = <<o.s, o.n>> /\ c.files_id = o.id /\ c.n = o.n
        /\ c.data = Bytes(o.s, o.pos, len) /\ c \in Chunks(stores)
        /\ c.key[1] = o.s /\ c.key[2] = c.n
    <2>1. Bytes(o.s, o.pos, len) \in Seq(Byte)
      <3>1. o.s \in Nat
        BY <1>5
      <3> HIDE DEF o
      <3> QED
        BY <1>5, <1>6, <3>1, BytesAre, Zenon
    <2> QED
      BY <1>5, <2>1 DEF Chunks
  <1>9. \A d \in chunks' : d \in chunks \/ d = c
    BY <1>4
  <1>10. chunks \subseteq chunks' /\ (r.done => c \in chunks') /\ (~r.done => chunks' = chunks)
    BY <1>4
  <1>11. TypedChunks(chunks', unique', stores) /\ unique' \in BOOLEAN
    <2>1. TypedChunks(chunks, unique, stores) /\ unique \in BOOLEAN
      BY DEF IInv, Typed
    <2>2. CASE r.done
      <3>1. unique => \A d \in chunks : ~SamePlace(c, d)
        BY <1>7, <2>2
      <3> HIDE DEF c
      <3>2. unique => \A d, e \in chunks' : SamePlace(d, e) => d = e
        BY <1>9, <2>1, <3>1 DEF TypedChunks, SamePlace
      <3>3. chunks' \subseteq Chunks(stores) /\ \A d \in chunks' : d.key[2] = d.n
        BY <1>8, <1>9, <2>1 DEF TypedChunks
      <3> QED
        BY <1>1, <2>1, <3>2, <3>3 DEF TypedChunks
    <2>3. CASE ~r.done
      BY <1>1, <1>10, <2>1, <2>3
    <2> QED
      BY <2>2, <2>3
  <1>12. /\ \A d \in chunks' : d \in chunks \/ d.key[1] = o.s
         /\ unique => \A d \in chunks : d \in chunks' \/ d.key[1] = o.s
    BY <1>8, <1>9, <1>10
  <1> HIDE DEF c
  <1>13. CASE ~r.ok
    <2> DEFINE q == [o EXCEPT !.pc = "cleanup", !.leaves = @ \/ r.done]
    <2>1. op' = [op EXCEPT ![w] = q]
      BY <1>4, <1>13
    <2>2. /\ q \in StoreOps(stores) /\ q.s = o.s /\ q.id = o.id /\ q.pc = "cleanup"
          /\ q.kind = "store" /\ q.cleanup_ids = o.cleanup_ids
          /\ (q.leaves <=> o.leaves \/ r.done)
      <3>1. (o.leaves \/ r.done) \in BOOLEAN
        BY Zenon
      <3> QED
        BY <1>5, <3>1 DEF StoreOps, Storers
    <2> HIDE DEF q
    <2>3. Accounted(q, chunks')
      BY <1>1, <1>5, <1>7, <1>10, <1>13, <2>2 DEF Accounted
    <2>4. Complete(q, chunks', unique', touched)
      BY <2>2 DEF Complete
    <2> QED
      BY <1>1, <1>11, <1>12, <2>1, <2>2, <2>3, <2>4, StoreStep
  <1>14. CASE r.ok
    <2> DEFINE pc == IF o.f.source = "bytes" THEN "chunk"
                     ELSE IF LastChunk(o, len) THEN "gle" ELSE "gle more"
               ids == Append(o.cleanup_ids, c.key)
               q == [o EXCEPT !.pos = @ + len, !.n = @ + 1, !.cleanup_ids = ids,
                              !.failed = ~r.done, !.pc = pc]
    <2>1. op' = [op EXCEPT ![w] = q]
      BY <1>4, <1>14 DEF Remembered, c
    <2>2. /\ ids \in Seq((1..stores) \X Nat) /\ Len(ids) = Len(o.cleanup_ids) + 1
          /\ \A i \in 1..Len(o.cleanup_ids) : ids[i] = o.cleanup_ids[i]
          /\ ids[Len(ids)] = <<o.s, o.n>>
      BY <1>5, <1>8
    <2>3. pc \in {"chunk", "gle", "gle more"} /\ (~r.done) \in BOOLEAN
      BY Zenon
    <2> HIDE DEF ids, pc
    <2>4. /\ q \in StoreOps(stores) /\ q.s = o.s /\ q.id = o.id /\ q.pc = pc
          /\ q.kind = "store" /\ q.cleanup_ids = ids /\ q.leaves = o.leaves
          /\ q.f = o.f /\ q.pos = o.pos + len /\ q.n = o.n + 1 /\ (q.failed <=> ~r.done)
      <3>1. o.pos + len \in Nat /\ o.n + 1 \in Nat
        BY <1>5, <1>6
      <3>2. pc # "index" /\ pc \in {"index", "chunk", "gle", "gle more", "file", "cleanup"}
        BY <2>3
      <3>3. o \in Storers(stores)
        BY <1>5 DEF StoreOps
      <3> HIDE DEF o
      <3>4. q \in Storers(stores)
        BY <2>2, <2>3, <3>1, <3>2, <3>3 DEF Storers
      <3>5. /\ q.s = o.s /\ q.id = o.id /\ q.pc = pc
            /\ q.kind = "store" /\ q.cleanup_ids = ids /\ q.leaves = o.leaves
            /\ q.f = o.f /\ q.pos = o.pos + len /\ q.n = o.n + 1
        BY <3>3 DEF Storers
      <3>6. q.failed <=> ~r.done
        BY <2>3, <3>3 DEF Storers
      <3> QED
        BY <3>2, <3>4, <3>5, <3>6 DEF StoreOps
    <2> HIDE DEF q
    <2>5. Accounted(q, chunks')
      <3>1. \A i \in 1..Len(ids) : ids[i][1] = o.s
        <4>1. \A i \in 1..Len(o.cleanup_ids) : o.cleanup_ids[i][1] = o.s
          BY <1>1, <1>5 DEF Accounted
        <4>2. Len(o.cleanup_ids) \in Nat
          BY <1>5
        <4>3. \A i \in 1..Len(ids) : i \in 1..Len(o.cleanup_ids) \/ i = Len(ids)
          BY <2>2, <4>2
        <4>4. <<o.s, o.n>>[1] = o.s
          OBVIOUS
        <4>5. SUFFICES ASSUME NEW i \in 1..Len(ids)
                       PROVE  ids[i][1] = o.s
          OBVIOUS
        <4>6. CASE i \in 1..Len(o.cleanup_ids)
          <5>1. ids[i] = o.cleanup_ids[i] /\ o.cleanup_ids[i][1] = o.s
            BY <2>2, <4>1, <4>6
          <5> QED
            BY <5>1
        <4>7. CASE i = Len(ids)
          BY <2>2, <4>4, <4>7, Zenon
        <4> QED
          BY <4>3, <4>6, <4>7
      <3>2. ASSUME ~o.leaves, NEW d \in chunks', d.key[1] = o.s
            PROVE  \E i \in 1..Len(ids) : ids[i] = d.key
        <4>1. CASE d \in chunks
          <5>1. PICK i \in 1..Len(o.cleanup_ids) : o.cleanup_ids[i] = d.key
            BY <1>1, <1>5, <3>2, <4>1 DEF Accounted
          <5> QED
            BY <1>5, <2>2, <5>1
        <4>2. CASE d = c
          <5>1. Len(ids) \in 1..Len(ids)
            BY <1>5, <2>2
          <5> QED
            BY <1>8, <2>2, <4>2, <5>1
        <4> QED
          BY <1>9, <4>1, <4>2
      <3> QED
        BY <2>4, <3>1, <3>2 DEF Accounted
    <2>6. Complete(q, chunks', unique', touched)
      <3>1. SUFFICES ASSUME Undisturbed(q, touched)
                     PROVE  /\ unique'
                            /\ ~q.failed
                            /\ Whole(q.s, q.id, Size(q.f), q.pos, chunks')
                            /\ q.pos <= q.f.length
                            /\ q.pc \in {"chunk", "gle more"} =>
                                 \/ q.pos = q.n * Size(q.f)
                                 \/ q.f.source # "fd" /\ q.pos = q.f.length
                            /\ q.pc \in {"gle", "file"} => q.f.source = "fd"
        BY DEF Complete
      <3>2. Undisturbed(o, touched)
        BY <1>1, <2>4, <3>1 DEF Undisturbed
      <3>3. /\ unique /\ Whole(o.s, o.id, size, o.pos, chunks) /\ o.pos <= o.f.length
            /\ o.pos = o.n * size \/ (o.f.source # "fd" /\ o.pos = o.f.length)
        BY <1>1, <1>5, <3>2 DEF Complete
      <3>4. r.done
        BY <1>7, <1>14, <3>2 DEF Undisturbed
      <3>5. o.pos = o.n * size
        BY <1>1, <1>5, <3>3 DEF MoreChunks
      <3>6. /\ len \in 0..size /\ o.pos + len <= o.f.length
            /\ o.f.source # "fd" => len = size \/ o.pos + len = o.f.length
        BY <1>6, <3>3
      <3>7. Whole(o.s, o.id, size, o.n * size + len, chunks')
        <4>1. c = [key |-> <<o.s, o.n>>, files_id |-> o.id, n |-> o.n,
                   data |-> Bytes(o.s, o.n * size, len)]
          BY <3>5 DEF c
        <4>2. c \in chunks' /\ chunks \subseteq chunks'
          BY <1>10, <3>4
        <4>3. Whole(o.s, o.id, size, o.n * size, chunks)
          BY <3>3, <3>5
        <4> HIDE DEF o, size
        <4> QED
          BY <1>5, <3>6, <4>1, <4>2, <4>3, WholeExtends
      <3>8. pc = "gle more" /\ o.f.source = "fd" => len = size
        BY <3>6, <1>5 DEF pc, LastChunk
      <3>9. pc = "chunk" => o.f.source # "fd"
        BY DEF pc
      <3>10. pc = "gle" => o.f.source = "fd"
        BY DEF pc, LastChunk
      <3>11. pc # "file"
        BY <2>3
      <3>12. (o.n + 1) * size = o.n * size + size
        BY <1>5, MultMonotone
      <3> HIDE DEF o, size
      <3>13. q.pc \in {"chunk", "gle more"} =>
               q.pos = q.n * size \/ (q.f.source # "fd" /\ q.pos = q.f.length)
        BY <2>4, <3>5, <3>6, <3>8, <3>9, <3>12
      <3>14. Size(q.f) = size
        BY <2>4 DEF size
      <3> QED
        BY <1>1, <2>4, <3>3, <3>4, <3>5, <3>6, <3>7, <3>10, <3>11, <3>13, <3>14
    <2> QED
      BY <1>1, <1>11, <1>12, <2>1, <2>4, <2>5, <2>6, StoreStep
  <1> QED
    BY <1>7, <1>13, <1>14

\* A store that only moves on, or turns to what it has to clean up.
LEMMA StoreMoves ==
    ASSUME IInv, NEW w \in Workers, op[w].kind = "store", op[w].pc # "cleanup",
           NEW pc \in {"chunk", "gle", "file", "cleanup"},
           op' = [op EXCEPT ![w] = [op[w] EXCEPT !.pc = pc]],
           UNCHANGED <<files, chunks, unique, stores, removes, stored, touched>>,
           Complete([op[w] EXCEPT !.pc = pc], chunks, unique, touched)
    PROVE  IInv'
  <1> DEFINE q == [op[w] EXCEPT !.pc = pc]
  <1>1. op[w] \in StoreOps(stores) /\ Accounted(op[w], chunks)
    BY StoreIs
  <1>2. q \in StoreOps(stores)
    BY <1>1 DEF StoreOps, Storers
  <1>3. /\ q.s = op[w].s /\ q.id = op[w].id /\ q.kind = "store" /\ q.leaves = op[w].leaves
        /\ q.cleanup_ids = op[w].cleanup_ids
    BY <1>1 DEF StoreOps, Storers
  <1> HIDE DEF q
  <1>4. Accounted(q, chunks)
    BY <1>1, <1>3 DEF Accounted
  <1>5. TypedChunks(chunks', unique', stores) /\ unique' \in BOOLEAN /\ (unique => unique')
    BY DEF IInv, Typed
  <1>6. /\ \A c \in chunks' : c \in chunks \/ c.key[1] = q.s
        /\ unique => \A c \in chunks : c \in chunks' \/ c.key[1] = q.s
    OBVIOUS
  <1>7. Accounted(q, chunks') /\ Complete(q, chunks', unique', touched)
    BY <1>4 DEF q
  <1>8. op' = [op EXCEPT ![w] = q]
    BY DEF q
  <1> QED
    BY <1>2, <1>3, <1>5, <1>6, <1>7, <1>8, StoreStep

LEMMA EndOfChunksPreserves ==
    ASSUME IInv, NEW w \in Workers, EndOfChunks(w)
    PROVE  IInv'
  <1> DEFINE o == op[w]
             pc == IF o.f.source = "bytes" THEN "gle" ELSE "file"
             q == [o EXCEPT !.pc = pc]
  <1>1. /\ o.kind = "store" /\ o.pc = "chunk" /\ ~MoreChunks(o)
        /\ op' = [op EXCEPT ![w] = q]
        /\ UNCHANGED <<files, chunks, unique, stores, removes, stored, touched>>
    BY DEF EndOfChunks, In
  <1>2. /\ o \in StoreOps(stores) /\ Complete(o, chunks, unique, touched)
        /\ o.pos \in Nat /\ o.f.length \in Nat
    BY <1>1, StoreIs
  <1>3. o.f.source # "fd" /\ o.f.length <= o.pos
    BY <1>1, <1>2 DEF MoreChunks
  <1>4. pc \in {"gle", "file"}
    OBVIOUS
  <1> HIDE DEF pc
  <1>5. /\ q.kind = "store" /\ q.s = o.s /\ q.id = o.id /\ q.f = o.f /\ q.pos = o.pos
        /\ q.n = o.n /\ q.failed = o.failed /\ q.pc = pc
    BY <1>2 DEF StoreOps, Storers
  <1>6. Complete(q, chunks, unique, touched)
    <2> HIDE DEF q, o
    <2>1. SUFFICES ASSUME Undisturbed(q, touched)
                   PROVE  /\ unique /\ ~q.failed
                          /\ Whole(q.s, q.id, Size(q.f), q.pos, chunks)
                          /\ q.pos <= q.f.length /\ q.pos = q.f.length
      <3>1. q.pc \notin {"chunk", "gle more"}
        BY <1>4, <1>5
      <3> QED
        BY <3>1 DEF Complete
    <2>2. Undisturbed(o, touched)
      BY <1>1, <1>5, <2>1 DEF Undisturbed
    <2>3. unique /\ ~o.failed /\ Whole(o.s, o.id, Size(o.f), o.pos, chunks) /\ o.pos <= o.f.length
      BY <1>1, <1>2, <2>2 DEF Complete
    <2> QED
      BY <1>2, <1>3, <1>5, <2>3
  <1> QED
    BY <1>1, <1>4, <1>6, StoreMoves

LEMMA GetLastErrorPreserves ==
    ASSUME IInv, NEW w \in Workers, GetLastError(w)
    PROVE  IInv'
  <1> DEFINE o == op[w]
             To(pc) == [o EXCEPT !.pc = pc]
  <1>1. /\ o.kind = "store" /\ o.pc \in {"gle", "gle more"}
        /\ UNCHANGED <<files, chunks, unique, stores, removes, stored, touched>>
    BY DEF GetLastError
  <1>2. o \in StoreOps(stores) /\ Complete(o, chunks, unique, touched)
    BY <1>1, StoreIs
  <1>3. PICK pc \in {"file", "chunk", "cleanup"} :
          /\ op' = [op EXCEPT ![w] = To(pc)]
          /\ pc # "cleanup" => pc = IF o.pc = "gle" THEN "file" ELSE "chunk"
    BY DEF GetLastError
  <1>4. /\ To(pc).kind = "store" /\ To(pc).s = o.s /\ To(pc).id = o.id /\ To(pc).f = o.f
        /\ To(pc).pos = o.pos /\ To(pc).n = o.n /\ To(pc).failed = o.failed /\ To(pc).pc = pc
    BY <1>2 DEF StoreOps, Storers
  <1>5. Complete(To(pc), chunks, unique, touched)
    <2>1. CASE pc = "cleanup"
      BY <1>4, <2>1 DEF Complete
    <2>2. CASE pc # "cleanup"
      <3>1. Undisturbed(To(pc), touched) => Undisturbed(o, touched)
        BY <1>1, <1>4 DEF Undisturbed
      <3> HIDE DEF To
      <3> QED
        BY <1>1, <1>2, <1>3, <1>4, <2>2, <3>1 DEF Complete
    <2> QED
      BY <2>1, <2>2
  <1> QED
    BY <1>1, <1>3, <1>5, StoreMoves

\* A chunk that was remembered is removed, and forgotten, or none is removed any more.
LEMMA CleanupPreserves ==
    ASSUME IInv, NEW w \in Workers, Cleanup(w)
    PROVE  IInv'
  <1> DEFINE o == op[w]
             ids == o.cleanup_ids
  <1>1. /\ o.kind = "store" /\ o.pc = "cleanup" /\ ids # <<>>
        /\ UNCHANGED <<files, unique, stores, removes, stored, touched>>
    BY DEF Cleanup, In
  <1>2. PICK r \in Outcomes(o.f.default, FALSE) :
         /\ chunks' = IF r.done THEN chunks \ Cleaned(o) ELSE chunks
         /\ op' = [op EXCEPT ![w] = [o EXCEPT !.cleanup_ids = IF r.ok THEN Tail(@) ELSE <<>>,
                                              !.leaves = @ \/ ~r.done \/ ~r.ok]]
    BY DEF Cleanup
  <1>3. /\ o \in StoreOps(stores) /\ Accounted(o, chunks) /\ o.f.default \in BOOLEAN
        /\ ids \in Seq((1..stores) \X Nat)
    BY <1>1, StoreIs
  <1>4. r.done \in BOOLEAN /\ r.ok \in BOOLEAN
    BY <1>3, UnsureOutcomes
  <1> DEFINE rest == IF r.ok THEN Tail(ids) ELSE <<>>
             leaves == o.leaves \/ ~r.done \/ ~r.ok
             q == [o EXCEPT !.cleanup_ids = rest, !.leaves = leaves]
  <1>5. /\ Tail(ids) \in Seq((1..stores) \X Nat) /\ Len(ids) \in Nat \ {0}
        /\ Len(Tail(ids)) = Len(ids) - 1 /\ Head(ids) = ids[1]
        /\ \A i \in 1..Len(Tail(ids)) : Tail(ids)[i] = ids[i + 1]
    BY <1>1, <1>3
  <1>6. op' = [op EXCEPT ![w] = q]
    BY <1>2
  <1>7. /\ q \in StoreOps(stores) /\ q.kind = "store" /\ q.s = o.s /\ q.id = o.id
        /\ q.pc = "cleanup" /\ q.cleanup_ids = rest /\ (q.leaves <=> leaves)
    <2>1. leaves \in BOOLEAN
      BY Zenon
    <2>2. rest \in Seq((1..stores) \X Nat)
      BY <1>5
    <2> HIDE DEF rest, leaves
    <2> QED
      BY <1>1, <1>3, <2>1, <2>2 DEF StoreOps, Storers
  <1> HIDE DEF q
  <1>8. ids[1][1] = o.s
    BY <1>1, <1>3, <1>5 DEF Accounted
  <1>9. /\ chunks' \subseteq chunks
        /\ \A c \in chunks : c \in chunks' \/ c.key = ids[1]
        /\ r.done => \A c \in chunks' : c.key # ids[1]
    BY <1>2, <1>5 DEF Cleaned
  <1>10. Accounted(q, chunks')
    <2>1. \A i \in 1..Len(ids) : ids[i][1] = o.s
      BY <1>1, <1>3 DEF Accounted
    <2>2. \A i \in 1..Len(rest) : rest[i][1] = o.s
      <3>1. CASE r.ok
        <4>1. \A i \in 1..Len(Tail(ids)) : i + 1 \in 1..Len(ids)
          BY <1>5
        <4> QED
          BY <1>5, <2>1, <3>1, <4>1
      <3>2. CASE ~r.ok
        BY <3>2
      <3> QED
        BY <3>1, <3>2
    <2>3. ASSUME ~leaves, NEW c \in chunks', c.key[1] = o.s
          PROVE  \E i \in 1..Len(rest) : rest[i] = c.key
      <3>1. r.done /\ r.ok /\ ~o.leaves
        BY <1>4, <2>3
      <3>2. PICK i \in 1..Len(ids) : ids[i] = c.key
        BY <1>1, <1>3, <1>9, <2>3, <3>1 DEF Accounted
      <3>3. i # 1
        BY <1>9, <3>1, <3>2
      <3>4. i - 1 \in 1..Len(Tail(ids)) /\ (i - 1) + 1 = i
        BY <1>5, <3>2, <3>3
      <3>5. Tail(ids)[i - 1] = c.key
        BY <1>5, <3>2, <3>4
      <3> QED
        BY <3>1, <3>4, <3>5
    <2> HIDE DEF rest, leaves
    <2> QED
      BY <1>7, <2>2, <2>3 DEF Accounted
  <1>11. Complete(q, chunks', unique', touched)
    BY <1>7 DEF Complete
  <1>12. TypedChunks(chunks', unique', stores) /\ unique' \in BOOLEAN
    BY <1>1, <1>9, FewerTyped DEF IInv, Typed
  <1>13. /\ \A c \in chunks' : c \in chunks \/ c.key[1] = q.s
         /\ unique => \A c \in chunks : c \in chunks' \/ c.key[1] = q.s
    BY <1>7, <1>8, <1>9
  <1> QED
    BY <1>1, <1>6, <1>7, <1>10, <1>11, <1>12, <1>13, StoreStep

\* Whoever does not speak of a file says nothing wrong of it.
LEMMA SaysNothing ==
    ASSUME NEW o, NEW f, ~Speaks(o, f.s)
    PROVE  Right(o, f)
  BY DEF Speaks, Right, RightReader, RightStream, RightResult

\* A store that ends, or turns to what it has to clean up: it may have a document now.
LEMMA StoreEnds ==
    ASSUME IInv, NULLAssumption, NEW w \in Workers, op[w].kind = "store",
           NEW p \in Ops(stores), op' = [op EXCEPT ![w] = p],
           p.kind # "remove", \A s : ~Speaks(p, s),
           p.kind = "store" => p.pc = "cleanup" /\ p.s = op[w].s /\ p.id = op[w].id,
           \A s : s # op[w].s => NotOf(p, s),
           Accounted(p, chunks), Quiet(p, chunks),
           UNCHANGED <<chunks, unique, stores, removes, touched>>,
           files' \in [Ids -> Docs(stores) \cup {NULL}], stored' \subseteq Stored(stores),
           stored \subseteq stored',
           \A id \in Ids : files'[id] = files[id]
                           \/ (files[id] = NULL /\ id = op[w].id /\ files'[id].s = op[w].s),
           \A f \in stored' :
              \/ f \in stored
              \/ /\ f.s = op[w].s /\ f.id = op[w].id /\ op[w].s \notin touched
                 /\ unique /\ FileKept(f, files', chunks)
                 /\ p.kind # "store" /\ op[w].pc # "cleanup"
    PROVE  IInv'
  <1> DEFINE o == op[w]
  <1>1. \A v \in Workers : op'[v] = IF v = w THEN p ELSE op[v]
    BY DEF IInv, Typed
  <1>2. /\ \A v \in Workers : v # w => NotOf(op[v], o.s)
        /\ \A f \in stored : f.s # o.s
    BY StoreIs
  <1>3. Typed'
    <2>1. op' \in [Workers -> Ops(stores)]
      BY DEF IInv, Typed
    <2> QED
      BY <2>1 DEF IInv, Typed
  <1>4. Owned'
    <2>1. ASSUME NEW v \in Workers, NEW u \in Workers, v # u, op'[u].kind = "store"
          PROVE  NotOf(op'[v], op'[u].s)
      <3>1. op[u].kind = "store" /\ op'[u].s = op[u].s
        BY <1>1, <2>1
      <3>2. NotOf(op[v], op[u].s)
        BY <2>1, <3>1 DEF IInv, Owned
      <3>3. CASE v = w
        <4>1. op[u].s # o.s
          BY <3>2, <3>3 DEF NotOf
        <4> QED
          BY <1>1, <3>1, <3>3, <4>1
      <3>4. CASE v # w
        BY <1>1, <3>1, <3>2, <3>4
      <3> QED
        BY <3>3, <3>4
    <2>2. \A v \in Workers : Accounted(op'[v], chunks) /\ Quiet(op'[v], chunks)
      BY <1>1 DEF IInv, Owned
    <2> QED
      BY <2>1, <2>2 DEF Owned
  <1>5. \A f \in stored : FileKept(f, files', chunks) /\ unique
    <2>1. SUFFICES ASSUME NEW f \in stored
                   PROVE  FileKept(f, files', chunks) /\ unique
      OBVIOUS
    <2>2. FileKept(f, files, chunks) /\ unique /\ f.id \in Ids
      BY StoredTypes DEF IInv, Kept
    <2>3. files[f.id] # NULL
      <3>1. [s |-> f.s, length |-> f.length, chunkSize |-> f.chunkSize] \in Docs(stores)
        BY DEF IInv, Typed, Stored, Docs
      <3> QED
        BY <2>2, <3>1, NoDoc DEF IInv, FileKept
    <2> QED
      BY <2>2, <2>3 DEF FileKept
  <1>6. Kept'
    <2>1. ASSUME NEW v \in Workers
          PROVE  Complete(op'[v], chunks, unique, touched)
      <3>1. CASE v = w
        BY <1>1, <3>1 DEF Complete, Undisturbed
      <3>2. CASE v # w
        BY <1>1, <3>2 DEF IInv, Kept
      <3> QED
        BY <3>1, <3>2
    <2>2. ASSUME NEW v \in Workers
          PROVE  Clear(op'[v], op', stored', touched)
      <3>1. CASE v = w
        BY <1>1, <3>1 DEF Clear
      <3>2. CASE v # w
        <4>1. Clear(op[v], op, stored, touched) /\ op'[v] = op[v]
          BY <1>1, <3>2 DEF IInv, Kept
        <4>2. SUFFICES ASSUME op[v].kind = "remove"
                       PROVE  Clear(op[v], op', stored', touched)
          BY <4>1 DEF Clear
        <4>3. ASSUME NEW u \in Workers, op'[u].kind = "store", op'[u].id \in op[v].ids
              PROVE  op'[u].s \in touched
          <5>1. op[u].kind = "store" /\ op[u].id = op'[u].id /\ op[u].s = op'[u].s
            BY <1>1, <4>3
          <5> QED
            BY <4>1, <4>2, <4>3, <5>1 DEF Clear
        <4>4. ASSUME NEW f \in stored'
              PROVE  f.id \notin op[v].ids
          <5>1. o.id \in op[v].ids => o.s \in touched
            BY <4>1, <4>2 DEF Clear
          <5>2. f \in stored => f.id \notin op[v].ids
            BY <4>1, <4>2 DEF Clear
          <5> QED
            BY <5>1, <5>2
        <4> QED
          BY <4>1, <4>2, <4>3, <4>4 DEF Clear
      <3> QED
        BY <3>1, <3>2
    <2>3. \A f \in stored' : unique /\ FileKept(f, files', chunks)
      BY <1>5
    <2> QED
      BY <2>1, <2>2, <2>3 DEF Kept
  <1>7. Known'
    <2>1. ASSUME NEW v \in Workers, op'[v].kind = "store", op'[v].pc # "cleanup"
          PROVE  Unseen(op'[v].s, files', op')
      <3>1. v # w /\ op'[v] = op[v]
        BY <1>1, <2>1
      <3>2. Unseen(op[v].s, files, op)
        BY <2>1, <3>1 DEF IInv, Known
      <3>3. op[v].s # o.s
        BY <1>2, <2>1, <3>1 DEF NotOf
      <3>4. \A id \in Ids : files'[id] # NULL => files'[id].s # op[v].s
        BY <3>2, <3>3 DEF Unseen
      <3>5. \A u \in Workers : ~Speaks(op'[u], op[v].s)
        BY <1>1, <3>2 DEF Unseen
      <3> QED
        BY <3>1, <3>4, <3>5 DEF Unseen
    <2>2. ASSUME NEW f \in stored'
          PROVE  /\ \A v \in Workers : (op'[v].kind = "store" => op'[v].s # f.s) /\ Right(op'[v], f)
                 /\ \A id \in Ids : files'[id] # NULL /\ files'[id].s = f.s => id = f.id
      <3>1. CASE f \in stored
        <4>1. f.s # o.s
          BY <1>2, <3>1
        <4>2. \A v \in Workers : (op[v].kind = "store" => op[v].s # f.s) /\ Right(op[v], f)
          BY <3>1 DEF IInv, Known
        <4>3. Right(p, f)
          BY SaysNothing
        <4>4. \A id \in Ids : files[id] # NULL /\ files[id].s = f.s => id = f.id
          BY <3>1 DEF IInv, Known
        <4> QED
          BY <1>1, <4>1, <4>2, <4>3, <4>4
      <3>2. CASE f \notin stored
        <4>1. f.s = o.s /\ f.id = o.id /\ p.kind # "store" /\ o.pc # "cleanup"
          BY <3>2
        <4>2. Unseen(o.s, files, op)
          BY <4>1 DEF IInv, Known
        <4>3. \A v \in Workers : ~Speaks(op'[v], f.s)
          BY <1>1, <4>1, <4>2 DEF Unseen
        <4>4. \A v \in Workers : Right(op'[v], f)
          BY <4>3, SaysNothing
        <4>5. \A v \in Workers : op'[v].kind = "store" => op'[v].s # f.s
          BY <1>1, <1>2, <4>1 DEF NotOf
        <4>6. \A id \in Ids : files'[id] # NULL /\ files'[id].s = f.s => id = f.id
          BY <4>1, <4>2 DEF Unseen
        <4> QED
          BY <4>4, <4>5, <4>6
      <3> QED
        BY <3>1, <3>2
    <2> QED
      BY <2>1, <2>2 DEF Known
  <1> QED
    BY <1>3, <1>4, <1>6, <1>7 DEF IInv

\* What a store returns.
LEMMA ResultIs ==
    ASSUME IInv, NEW w \in Workers, op[w].kind = "store", NEW status \in {"id", "exception"}
    PROVE  LET p == Idle(StoreResult(op[w], status)) IN
           /\ p \in Ops(stores) /\ p.kind = "none" /\ p.pc = "idle"
           /\ p.result = StoreResult(op[w], status)
           /\ p.result.status = status /\ p.result.s = op[w].s /\ p.result.leaves = op[w].leaves
           /\ \A s : ~Speaks(p, s)
           /\ \A s : s # op[w].s => NotOf(p, s)
           /\ Accounted(p, chunks)
  <1> DEFINE o == op[w]
             r == StoreResult(o, status)
             p == Idle(r)
  <1>1. /\ o \in StoreOps(stores) /\ o.id \in Ids /\ o.s \in 1..stores /\ o.f.acked \in BOOLEAN
    BY StoreIs
  <1>2. o.leaves \in BOOLEAN
    BY <1>1 DEF StoreOps, Storers
  <1>3. /\ r \in StoreResults(stores) /\ r.kind = "store" /\ r.s = o.s /\ r.leaves = o.leaves
        /\ r.status = status
    BY <1>1, <1>2 DEF StoreResult, StoreResults
  <1> HIDE DEF r
  <1>4. p \in IdleOps(stores) /\ p.kind = "none" /\ p.pc = "idle" /\ p.result = r
    BY <1>3 DEF Idle, IdleOps
  <1> HIDE DEF p
  <1>5. \A s : ~Speaks(p, s)
    BY <1>3, <1>4 DEF Speaks
  <1>6. \A s : s # o.s => NotOf(p, s)
    BY <1>3, <1>4 DEF NotOf
  <1>7. Accounted(p, chunks)
    BY <1>4 DEF Accounted
  <1>8. p \in Ops(stores)
    BY <1>4 DEF Ops, Readers
  <1> QED
    BY <1>3, <1>4, <1>5, <1>6, <1>7, <1>8 DEF p, r

LEMMA StoreFailsPreserves ==
    ASSUME IInv, NULLAssumption, NEW w \in Workers, StoreFails(w)
    PROVE  IInv'
  <1> DEFINE o == op[w]
             p == Idle(StoreResult(o, "exception"))
  <1>1. /\ o.kind = "store" /\ o.pc = "cleanup" /\ o.cleanup_ids = <<>>
        /\ op' = [op EXCEPT ![w] = p]
        /\ UNCHANGED <<files, chunks, unique, stores, removes, stored, touched>>
    BY DEF StoreFails, In
  <1>2. /\ p \in Ops(stores) /\ p.kind = "none" /\ p.pc = "idle"
        /\ p.result.s = o.s /\ p.result.leaves = o.leaves
        /\ \A s : ~Speaks(p, s)
        /\ \A s : s # o.s => NotOf(p, s)
        /\ Accounted(p, chunks)
    BY <1>1, ResultIs
  <1> HIDE DEF p
  <1>3. Quiet(p, chunks)
    <2>1. Accounted(o, chunks)
      BY <1>1, StoreIs
    <2>2. o.leaves \/ \A c \in chunks : c.key[1] # o.s
      BY <1>1, <2>1 DEF Accounted
    <2> QED
      BY <1>2, <2>2 DEF Quiet
  <1>4. files' \in [Ids -> Docs(stores) \cup {NULL}] /\ stored' \subseteq Stored(stores)
    BY <1>1 DEF IInv, Typed
  <1>5. stored' = stored /\ files' = files
    BY <1>1
  <1> QED
    BY <1>1, <1>2, <1>3, <1>4, <1>5, StoreEnds

\* What an acknowledged store that nobody disturbed has when it writes the document.
LEMMA WholeFile ==
    ASSUME IInv, NEW w \in Workers, In(w, "store", "file"), op[w].f.acked, op[w].f.default,
           op[w].s \notin touched
    PROVE  /\ unique /\ Whole(op[w].s, op[w].id, Size(op[w].f), Length(op[w]), chunks)
           /\ Length(op[w]) < IntSize \div 2
  <1>1. op[w].kind = "store" /\ op[w].pc = "file"
    BY DEF In
  <1>2. Complete(op[w], chunks, unique, touched)
    BY <1>1, StoreIs
  <1>3. Undisturbed(op[w], touched)
    BY <1>1 DEF Undisturbed
  <1>4. Length(op[w]) = op[w].pos
    BY <1>1, <1>2, <1>3 DEF Complete, Length
  <1>5. op[w].pos < IntSize \div 2
    <2>1. op[w].pos <= op[w].f.length
      BY <1>1, <1>2, <1>3 DEF Complete
    <2> QED
      <3>1. /\ op[w].pos \in Nat /\ op[w].f.length \in Nat
            /\ op[w].f.length < IntSize \div 2 /\ IntSize \div 2 \in Nat
        BY <1>1, StoreIs, Widths
      <3>2. \A x, y, z \in Nat : x <= y /\ y < z => x < z
        OBVIOUS
      <3> QED
        BY <2>1, <3>1, <3>2, Zenon
  <1> QED
    BY <1>1, <1>2, <1>3, <1>4, <1>5 DEF Complete

LEMMA InsertFilePreserves ==
    ASSUME IInv, NULLAssumption, NEW w \in Workers, InsertFile(w)
    PROVE  IInv'
  <1> DEFINE o == op[w]
             doc == [s |-> o.s, length |-> Length(o), chunkSize |-> o.f.chunkSize]
             new == [id |-> o.id, s |-> o.s, length |-> Length(o), size |-> Size(o.f),
                     chunkSize |-> o.f.chunkSize]
             refused == files[o.id] # NULL
             p(r) == IF r.ok THEN Idle(StoreResult(o, "id"))
                     ELSE [o EXCEPT !.pc = "cleanup"]
  <1>1. /\ o.kind = "store" /\ o.pc = "file" /\ In(w, "store", "file")
        /\ UNCHANGED <<chunks, unique, stores, removes, touched>>
    BY DEF InsertFile, In
  <1>2. PICK r \in Outcomes(o.f.acked, refused) :
          /\ files' = IF r.done THEN [files EXCEPT ![o.id] = doc] ELSE files
          /\ op' = [op EXCEPT ![w] = p(r)]
          /\ stored' = IF r.ok /\ o.f.acked /\ o.f.default /\ o.s \notin touched
                       THEN stored \cup {new} ELSE stored
    BY DEF InsertFile
  <1>3. /\ o \in StoreOps(stores) /\ o.id \in Ids /\ o.s \in 1..stores
        /\ o.pos \in Nat /\ o.f.length \in Nat /\ o.f.acked \in BOOLEAN /\ o.f.chunkSize \in Int
        /\ Size(o.f) \in Nat \ {0}
        /\ Accounted(o, chunks)
    BY <1>1, StoreIs
  <1>4. /\ r.done \in BOOLEAN /\ r.ok \in BOOLEAN
        /\ r.done => ~refused
        /\ o.f.acked /\ r.ok => r.done
    <2>1. refused \in BOOLEAN
      BY Zenon
    <2> HIDE DEF refused, o
    <2> QED
      BY <1>3, <2>1, OutcomesAre
  <1>5. Length(o) \in Nat
    BY <1>3 DEF Length
  <1>6. doc \in Docs(stores) /\ new \in Stored(stores)
    BY <1>3, <1>5 DEF Docs, Stored
  <1>7. /\ files' \in [Ids -> Docs(stores) \cup {NULL}]
        /\ \A id \in Ids : files'[id] = IF r.done /\ id = o.id THEN doc ELSE files[id]
    <2>1. files \in [Ids -> Docs(stores) \cup {NULL}]
      BY DEF IInv, Typed
    <2> HIDE DEF doc
    <2> QED
      BY <1>2, <1>6, <2>1
  <1>8. stored' \subseteq Stored(stores) /\ stored \subseteq stored'
    <2>1. stored \subseteq Stored(stores)
      BY DEF IInv, Typed
    <2> HIDE DEF new
    <2> QED
      BY <1>2, <1>6, <2>1
  <1>9. \A id \in Ids : files'[id] = files[id]
                        \/ (files[id] = NULL /\ id = o.id /\ files'[id].s = o.s)
    BY <1>4, <1>7
  <1>10. CASE r.ok
    <2> DEFINE q == Idle(StoreResult(o, "id"))
    <2>1. /\ q \in Ops(stores) /\ q.kind = "none" /\ q.pc = "idle"
          /\ q.result.status = "id"
          /\ \A s : ~Speaks(q, s)
          /\ \A s : s # o.s => NotOf(q, s)
          /\ Accounted(q, chunks)
      BY <1>1, ResultIs
    <2>2. op' = [op EXCEPT ![w] = q]
      BY <1>2, <1>10
    <2> HIDE DEF q
    <2>3. Quiet(q, chunks)
      BY <2>1 DEF Quiet
    <2>4. ASSUME NEW f \in stored', f \notin stored
          PROVE  /\ f.s = o.s /\ f.id = o.id /\ o.s \notin touched
                 /\ unique /\ FileKept(f, files', chunks)
      <3>1. f = new /\ o.f.acked /\ o.f.default /\ o.s \notin touched
        BY <1>2, <2>4
      <3>2. /\ f.id = o.id /\ f.s = o.s /\ f.length = Length(o) /\ f.size = Size(o.f)
            /\ f.chunkSize = o.f.chunkSize
        BY <3>1
      <3>3. /\ unique /\ Whole(o.s, o.id, Size(o.f), Length(o), chunks)
            /\ Length(o) < IntSize \div 2
        BY <1>1, <3>1, WholeFile
      <3>4. files'[f.id] = [s |-> f.s, length |-> f.length, chunkSize |-> f.chunkSize]
        BY <1>3, <1>4, <1>7, <1>10, <3>1, <3>2
      <3>5. f.chunkSize > 0 => f.size = f.chunkSize
        BY <3>2 DEF Size
      <3> QED
        BY <3>1, <3>2, <3>3, <3>4, <3>5 DEF FileKept
    <2> QED
      BY <1>1, <1>7, <1>8, <1>9, <2>1, <2>2, <2>3, <2>4, StoreEnds
  <1>11. CASE ~r.ok
    <2> DEFINE q == [o EXCEPT !.pc = "cleanup"]
    <2>1. op' = [op EXCEPT ![w] = q]
      BY <1>2, <1>11
    <2>2. /\ q \in StoreOps(stores) /\ q.s = o.s /\ q.id = o.id /\ q.pc = "cleanup"
          /\ q.kind = "store" /\ q.cleanup_ids = o.cleanup_ids /\ q.leaves = o.leaves
      BY <1>3 DEF StoreOps, Storers
    <2> HIDE DEF q
    <2>3. Accounted(q, chunks)
      BY <1>1, <1>3, <2>2 DEF Accounted
    <2>4. /\ q \in Ops(stores) /\ Quiet(q, chunks) /\ \A s : ~Speaks(q, s)
      BY <2>2, StoreReadsNothing
    <2>5. \A s : s # o.s => NotOf(q, s)
      BY <2>2 DEF NotOf
    <2>6. stored' = stored
      BY <1>2, <1>11
    <2> QED
      BY <1>1, <1>7, <1>8, <1>9, <2>1, <2>2, <2>3, <2>4, <2>5, <2>6, StoreEnds
  <1> QED
    BY <1>4, <1>10, <1>11

\* No step of a store breaks the invariant.
LEMMA StoringPreserves ==
    ASSUME IInv, NULLAssumption, NEW w \in Workers, Storing(w)
    PROVE  IInv'
  BY StorePreserves, EnsureIndexPreserves, InsertChunkPreserves, EndOfChunksPreserves,
     GetLastErrorPreserves, InsertFilePreserves, CleanupPreserves, StoreFailsPreserves
     DEF Storing

-----------------------------------------------------------------------------
(* The theorems *)

LEMMA InitSound == GridFSAssumption /\ Init => IInv
  <1> SUFFICES ASSUME GridFSAssumption, Init
               PROVE  IInv
    OBVIOUS
  <1>1. \A w \in Workers : op[w] = Idle(NULL)
    BY DEF Init
  <1>2. /\ Idle(NULL).kind = "none" /\ Idle(NULL).pc = "idle" /\ Idle(NULL).result = NULL
        /\ Idle(NULL) \in Ops(0)
    BY IdleReader
  <1>3. Typed
    <2>1. /\ stores \in 0..MaxStores /\ removes \in 0..MaxRemoves
          /\ unique \in BOOLEAN
      <3>1. unique \in BOOLEAN
        BY Zenon DEF Init
      <3> QED
        BY <3>1, SomeNumbers DEF Init
    <2>2. op \in [Workers -> Ops(stores)]
      BY <1>2 DEF Init
    <2>3. TypedChunks(chunks, unique, stores)
      BY DEF Init, TypedChunks
    <2> QED
      BY <2>1, <2>2, <2>3 DEF Init, Typed
  <1>4. Owned
    BY <1>1, <1>2 DEF Owned, Accounted, Quiet, Init
  <1>5. Kept
    BY <1>1, <1>2 DEF Kept, Complete, Undisturbed, Clear, Init
  <1>6. Known
    BY <1>1, <1>2 DEF Known, Init
  <1> QED
    BY <1>3, <1>4, <1>5, <1>6 DEF IInv

LEMMA StepSound ==
    ASSUME NULLAssumption, IInv, [Next]_vars
    PROVE  IInv'
  <1>1. ASSUME NEW w \in Workers, Storing(w)
        PROVE  IInv'
    BY <1>1, StoringPreserves
  <1>2. ASSUME NEW w \in Workers, Deleting(w)
        PROVE  IInv'
    BY <1>2, DeletingPreserves
  <1>3. ASSUME NEW w \in Workers, Reading(w)
        PROVE  IInv'
    BY <1>3, ReadingPreserves
  <1>4. CASE UNCHANGED vars
    <2>1. Typed'
      BY <1>4 DEF vars, IInv, Typed
    <2>2. Owned'
      BY <1>4 DEF vars, IInv, Owned
    <2>3. Kept'
      BY <1>4 DEF vars, IInv, Kept
    <2>4. Known'
      BY <1>4 DEF vars, IInv, Known
    <2> QED
      BY <2>1, <2>2, <2>3, <2>4 DEF IInv
  <1> QED
    BY <1>1, <1>2, <1>3, <1>4 DEF Next

\* Whatever workers store, remove, drop and read, in any order of their calls to the
\* server and whichever of these fail, or are done and reported as failed, or are not
\* acknowledged: running stores own their chunks, what is stored is kept, and readers
\* have what they should, wherever their streams are sought (IInv).
THEOREM GridFSSound == Spec => []IInv
  <1>1. Init => IInv
    BY GridFSAssumption, InitSound
  <1>2. IInv /\ [Next]_vars => IInv'
    BY NULLAssumption, StepSound
  <1> QED
    BY <1>1, <1>2, PTL DEF Spec

\* Documents and chunks belong to stores that were begun, a chunk has the number its
\* key says, and under the index no file has two chunks of one number: a store that is
\* refused adds none.
THEOREM GridFSTyped == Spec => []TypeOK
  <1>1. IInv => TypeOK
    <2> SUFFICES ASSUME IInv
                 PROVE  TypeOK
      OBVIOUS
    <2>1. \A id \in Ids : files[id] # NULL => files[id].s \in 1..stores /\ files[id].length \in Nat
      <3>1. \A id \in Ids : files[id] # NULL => files[id] \in Docs(stores)
        BY DEF IInv, Typed
      <3> QED
        BY <3>1 DEF Docs
    <2>2. \A c \in chunks : c.key[1] \in 1..stores /\ c.files_id \in Ids /\ c.key[2] = c.n
      BY DEF IInv, Typed, TypedChunks, Chunks
    <2>3. unique => \A c, d \in chunks : SamePlace(c, d) => c = d
      BY DEF IInv, Typed, TypedChunks
    <2>4. stores \in 0..MaxStores /\ removes \in 0..MaxRemoves
      BY DEF IInv, Typed
    <2> QED
      BY <2>1, <2>2, <2>3, <2>4 DEF TypeOK
  <1> QED
    BY <1>1, GridFSSound, PTL

\* Where a byte is.
LEMMA ByteOfPiece ==
    ASSUME NEW id
    PROVE  \A s \in Nat, size \in Nat \ {0}, length \in Nat : \A pos \in 0..(length - 1) :
             /\ pos \div size \in Nat /\ (pos \div size) * size < length
             /\ PieceData(s, id, size, length, pos \div size)[(pos % size) + 1] = <<s, pos>>
  <1> TAKE s \in Nat, size \in Nat \ {0}, length \in Nat
  <1> TAKE pos \in 0..(length - 1)
  <1> DEFINE k == pos \div size
             t == pos % size
             a == k * size
             d == PieceData(s, id, size, length, k)
  <1>1. k \in Nat /\ t \in Nat /\ t < size /\ pos = a + t
    BY Division
  <1>2. a \in Nat
    BY <1>1, MultMonotone
  <1>3. a < length
    <2> HIDE DEF a, t
    <2> QED
      BY <1>1, <1>2
  <1> HIDE DEF t, k
  <1>4. /\ Len(d) \in 1..size
        /\ a + Len(d) <= length
        /\ a + Len(d) < length => Len(d) = size
        /\ \A i \in 1..Len(d) : d[i] = <<s, a + i - 1>>
    BY <1>1, <1>3, PieceIs
  <1> HIDE DEF d, a
  <1>5. t + 1 \in 1..Len(d)
    BY <1>1, <1>2, <1>3, <1>4
  <1>6. d[t + 1] = <<s, a + (t + 1) - 1>> /\ a + (t + 1) - 1 = pos
    BY <1>1, <1>2, <1>4, <1>5
  <1> QED
    BY <1>1, <1>3, <1>6 DEF d, a, k, t

\* An acknowledged store that returned an id, from a client whose writes are
\* acknowledged by default (the index is ensured with that default), left all of its
\* file on the server, and it stays there until somebody removes or drops it: no other
\* store, under the same id or not, failed or not, and no index that is ensured later,
\* takes a byte of it.
THEOREM Completeness == Spec => []StoredIsComplete
  <1>1. IInv => StoredIsComplete
    <2> SUFFICES ASSUME IInv, NEW f \in stored
                 PROVE  /\ files[f.id] = [s |-> f.s, length |-> f.length, chunkSize |-> f.chunkSize]
                        /\ \A pos \in 0..(f.length - 1) :
                             \E c \in chunks :
                                 /\ c.files_id = f.id /\ c.n = pos \div f.size
                                 /\ c.data[(pos % f.size) + 1] = <<f.s, pos>>
      BY DEF StoredIsComplete
    <2>1. FileKept(f, files, chunks)
      BY DEF IInv, Kept
    <2>2. f.s \in Nat /\ f.length \in Nat /\ f.size \in Nat \ {0}
      BY GridFSAssumption, SomeNumbers DEF IInv, Typed, Stored
    <2>3. ASSUME NEW pos \in 0..(f.length - 1)
          PROVE  \E c \in chunks :
                   /\ c.files_id = f.id /\ c.n = pos \div f.size
                   /\ c.data[(pos % f.size) + 1] = <<f.s, pos>>
      <3> DEFINE k == pos \div f.size
                 c == Piece(f.s, f.id, f.size, f.length, k)
      <3>1. /\ k \in Nat /\ k * f.size < f.length
            /\ PieceData(f.s, f.id, f.size, f.length, k)[(pos % f.size) + 1] = <<f.s, pos>>
        <4>1. \A q \in 0..(f.length - 1) :
                /\ q \div f.size \in Nat /\ (q \div f.size) * f.size < f.length
                /\ PieceData(f.s, f.id, f.size, f.length, q \div f.size)[(q % f.size) + 1]
                     = <<f.s, q>>
          <5>1. f.s \in Nat /\ f.size \in Nat \ {0} /\ f.length \in Nat
            BY <2>2
          <5>2. \A s \in Nat, size \in Nat \ {0}, length \in Nat : \A q \in 0..(length - 1) :
                  /\ q \div size \in Nat /\ (q \div size) * size < length
                  /\ PieceData(s, f.id, size, length, q \div size)[(q % size) + 1] = <<s, q>>
            BY ByteOfPiece, Zenon
          <5> QED
            BY <5>1, <5>2, Zenon
        <4> QED
          BY <4>1, Zenon
      <3>2. c.files_id = f.id /\ c.n = k
        BY DEF Piece
      <3> HIDE DEF k
      <3>3. c \in chunks
        BY <2>1, <3>1 DEF FileKept, Whole
      <3>4. c.data[(pos % f.size) + 1] = <<f.s, pos>>
        BY <3>1 DEF PieceData
      <3> HIDE DEF c
      <3> QED
        BY <3>2, <3>3, <3>4 DEF k
    <2> QED
      BY <2>1, <2>3 DEF FileKept
  <1> QED
    BY <1>1, GridFSSound, PTL

\* A store that ended with an exception left no chunk behind, unless an insert it was
\* told had failed was done or its own removes did not work.
THEOREM NothingLeft == Spec => []FailureLeavesNothing
  <1>1. IInv => FailureLeavesNothing
    BY DEF IInv, Owned, Quiet, FailureLeavesNothing
  <1> QED
    BY <1>1, GridFSSound, PTL

\* Whoever reads a stored file that nobody removed, at once or as a stream, in any number
\* of reads and seeks, is given its bytes, and none of whoever stores under the same id,
\* while the stream is not before the beginning of the file: seek lets it go there, and
\* its numbers wrap, but once it is sought into the file it is right again, whatever it
\* has in its buffer.
THEOREM Faithfulness == Spec => []ReadIsStored
  <1>1. IInv => ReadIsStored
    BY DEF IInv, Known, Right, RightResult, Same, ReadIsStored
  <1> QED
    BY <1>1, GridFSSound, PTL
=============================================================================
