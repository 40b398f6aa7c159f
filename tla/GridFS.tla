------------------------------- MODULE GridFS -------------------------------
(***************************************************************************)
(* Files in two collections (gridfs/gridfs.c, gridfs_file.c,               *)
(* gridfs_stream.c, gridfs_cursor.c).                                      *)
(*                                                                         *)
(* A file is a document of fs.files and a document of fs.chunks for each   *)
(* piece of it.  Nothing makes the two agree but the order in which the    *)
(* driver writes and removes them, one call to the server at a time, any   *)
(* of which may fail, and the unique index over files_id and n, while      *)
(* other workers store, remove and read.                                   *)
(*                                                                         *)
(* A byte is a pair: the number of the store it belongs to, its position.  *)
(***************************************************************************)
EXTENDS Integers, Sequences, FiniteSets

CONSTANTS
    Workers,
    Ids,         \* _id of files
    Files,       \* what may be stored, and how: length, chunkSize, source; acked, by the
                 \* options of the store; default, by those of the client
    ChunkSize,   \* MonGlo(chunk_size)
    Counts,      \* numbers of bytes asked of a stream
    IntSize,     \* values of an int
    SizeT,       \* values of a size_t
    MaxStores,   \* bound: stores of a behaviour
    MaxRemoves,  \* bound: removes and drops of a behaviour
    MaxStreams,  \* bound: streams open at a time; they write nothing
    NULL

\* Lengths and chunk sizes are ints.
ASSUME GridFSAssumption ==
    /\ IntSize \in Nat /\ IntSize > 3 /\ IntSize % 2 = 0
    /\ SizeT \in Nat /\ SizeT % IntSize = 0 /\ SizeT > IntSize
    /\ ChunkSize \in 1..(IntSize \div 2 - 1)
    /\ \A f \in Files :
         /\ f.length \in 0..(IntSize \div 2 - 1)
         /\ f.chunkSize \in Int /\ f.chunkSize < IntSize \div 2
         /\ f.acked \in BOOLEAN /\ f.default \in BOOLEAN
         /\ f.source \in {"bytes", "file", "fd"}
    /\ Counts \subseteq 1..(IntSize \div 2 - 1)
    /\ MaxStores \in Nat /\ MaxRemoves \in Nat /\ MaxStreams \in Nat

\* NULL is no document.
ASSUME NULLAssumption == NULL \notin [s : 1..MaxStores, length : Nat, chunkSize : Int]

VARIABLES
    files,    \* fs.files: documents by _id, or NULL
    chunks,   \* fs.chunks
    unique,   \* has fs.chunks its index?
    op,       \* what each worker does
    stores,   \* stores begun
    removes,  \* removes and drops begun
    stored,   \* history: acknowledged stores that returned an id and that nobody removes
    touched   \* history: stores during which the file was being removed, or its collections dropped

vars == <<files, chunks, unique, op, stores, removes, stored, touched>>

-----------------------------------------------------------------------------
\* get_chunk_size: the document keeps what was given
Size(f) == IF f.chunkSize > 0 THEN f.chunkSize ELSE ChunkSize

\* the bytes of store s from a position on
Bytes(s, from, n) == [k \in 1..n |-> <<s, from + k - 1>>]

Idle(result) == [kind |-> "none", pc |-> "idle", result |-> result]

In(w, kind, pc) == op[w].kind = kind /\ op[w].pc = pc

Removing(id) == \E w \in Workers : op[w].kind = "remove" /\ id \in op[w].ids

SamePlace(c, d) == c.files_id = d.files_id /\ c.n = d.n

\* What a write does and says.  A failure may be reported of a write that is done: the
\* answer was lost, or is an error (wtimeout) all the same.  A write that is not
\* acknowledged, by its options, the client or the collection, fails silently.
Outcomes(acked, refused) ==
    {r \in [done : BOOLEAN, ok : BOOLEAN] :
        (r.done => ~refused) /\ (acked /\ r.ok => r.done)}

IndexOverDuplicates(done) ==
    IF done THEN unique' = TRUE /\ UNCHANGED chunks ELSE UNCHANGED <<unique, chunks>>

\* php_mongo_ensure_gridfs_index: unique, and of duplicates all but one is dropped
EnsuredIndex(done) ==
    IF ~done \/ unique THEN UNCHANGED <<unique, chunks>>
    ELSE /\ unique' = TRUE
         /\ \E kept \in SUBSET chunks :
              /\ \A c \in chunks : \E d \in kept : SamePlace(c, d)
              /\ \A c, d \in kept : SamePlace(c, d) => c = d
              /\ chunks' = kept

-----------------------------------------------------------------------------
Init ==
    /\ files = [id \in Ids |-> NULL]
    /\ chunks = {}
    /\ unique = FALSE
    /\ op = [w \in Workers |-> Idle(NULL)]
    /\ stores = 0 /\ removes = 0
    /\ stored = {} /\ touched = {}

-----------------------------------------------------------------------------
(* storeBytes, storeFile, put *)

Store(w) ==
    /\ op[w].pc = "idle"
    /\ stores < MaxStores
    /\ stores' = stores + 1
    /\ \E id \in Ids, f \in Files :
         /\ op' = [op EXCEPT ![w] =
                      [kind |-> "store", pc |-> "index", id |-> id, f |-> f, s |-> stores + 1,
                       n |-> 0, pos |-> 0, cleanup_ids |-> <<>>, failed |-> FALSE,
                       leaves |-> FALSE]]
         /\ touched' = IF Removing(id) THEN touched \cup {stores + 1} ELSE touched
    /\ UNCHANGED <<files, chunks, unique, removes, stored>>

StoreResult(o, status) ==
    [kind |-> "store", id |-> o.id, s |-> o.s, acked |-> o.f.acked, leaves |-> o.leaves,
     status |-> status]

\* php_mongo_ensure_gridfs_index does not pass on the options of the store.
\* After an exception nothing can be encoded any more until it is put away:
\* no document is written, and what cleanup_ids holds is removed
EnsureIndex(w) ==
    /\ In(w, "store", "index")
    /\ \E r \in Outcomes(op[w].f.default, FALSE) :
         /\ EnsuredIndex(r.done)
         /\ op' = [op EXCEPT ![w].pc = IF r.ok THEN "chunk" ELSE "cleanup"]
    /\ UNCHANGED <<files, stores, removes, stored, touched>>

\* how many bytes the next chunk has; a descriptor may deliver fewer than asked for
ChunkLengths(o) ==
    LET left == o.f.length - o.pos
        full == IF left < Size(o.f) THEN left ELSE Size(o.f)
    IN  IF o.f.source = "fd" THEN 0..full ELSE {full}

MoreChunks(o) == o.f.source = "fd" \/ o.pos < o.f.length

\* the end of a descriptor is a chunk that is not full
LastChunk(o, len) == o.f.source = "fd" /\ len < Size(o.f)

RememberedLast(o, c) == <<c.key>>

\* insert_chunk returns the _id it gave unless there is an exception
Remembered(o, c) == Append(o.cleanup_ids, c.key)

InsertChunk(w) ==
    LET o == op[w] IN
    /\ In(w, "store", "chunk")
    /\ MoreChunks(o)
    /\ \E len \in ChunkLengths(o) :
         LET c == [key |-> <<o.s, o.n>>, files_id |-> o.id, n |-> o.n,
                   data |-> Bytes(o.s, o.pos, len)]
             refused == unique /\ \E d \in chunks : SamePlace(c, d)
         IN  \E r \in Outcomes(o.f.acked, refused) :
               /\ chunks' = IF r.done THEN chunks \cup {c} ELSE chunks
               /\ op' = [op EXCEPT ![w] =
                    IF ~r.ok THEN [o EXCEPT !.pc = "cleanup", !.leaves = @ \/ r.done]
                    ELSE [o EXCEPT !.pos = @ + len, !.n = @ + 1,
                                   !.cleanup_ids = Remembered(o, c),
                                   !.failed = ~r.done,
                                   !.pc = IF o.f.source = "bytes" THEN "chunk"
                                          ELSE IF LastChunk(o, len) THEN "gle"
                                          ELSE "gle more"]]
    /\ UNCHANGED <<files, unique, stores, removes, stored, touched>>

\* the end of the loop: storeBytes asks once, storeFile has asked for each chunk
EndOfChunks(w) ==
    /\ In(w, "store", "chunk")
    /\ ~MoreChunks(op[w])
    /\ op' = [op EXCEPT ![w].pc = IF op[w].f.source = "bytes" THEN "gle" ELSE "file"]
    /\ UNCHANGED <<files, chunks, unique, stores, removes, stored, touched>>

\* getlasterror knows about the last write only; a connection that lost it fails
GetLastError(w) ==
    /\ op[w].kind = "store" /\ op[w].pc \in {"gle", "gle more"}
    /\ \/ /\ ~op[w].failed
          /\ op' = [op EXCEPT ![w].pc = IF @ = "gle" THEN "file" ELSE "chunk"]
       \/ op' = [op EXCEPT ![w].pc = "cleanup"]
    /\ UNCHANGED <<files, chunks, unique, stores, removes, stored, touched>>

\* the length of what came from a descriptor is counted
Length(o) == IF o.f.source = "fd" THEN o.pos ELSE o.f.length

\* add_md5 and the insert; if the first fails the second is not sent
InsertFile(w) ==
    LET o == op[w]
        doc == [s |-> o.s, length |-> Length(o), chunkSize |-> o.f.chunkSize]
    IN
    /\ In(w, "store", "file")
    /\ \E r \in Outcomes(o.f.acked, files[o.id] # NULL) :
         /\ files' = IF r.done THEN [files EXCEPT ![o.id] = doc] ELSE files
         /\ op' = [op EXCEPT ![w] = IF r.ok THEN Idle(StoreResult(o, "id"))
                                    ELSE [o EXCEPT !.pc = "cleanup"]]
         /\ stored' = IF r.ok /\ o.f.acked /\ o.f.default /\ o.s \notin touched
                      THEN stored \cup {[id |-> o.id, s |-> o.s, length |-> Length(o),
                                         size |-> Size(o.f), chunkSize |-> o.f.chunkSize]}
                      ELSE stored
    /\ UNCHANGED <<chunks, unique, stores, removes, touched>>

\* files_id would find the chunks of whoever stores under the same id, too
CleanedByFile(o) == {c \in chunks : c.files_id = o.id}

Cleaned(o) == {c \in chunks : c.key = Head(o.cleanup_ids)}

\* cleanup_stale_chunks, without the options of the store either: once a remove has
\* failed the others are not sent
Cleanup(w) ==
    LET o == op[w] IN
    /\ In(w, "store", "cleanup")
    /\ o.cleanup_ids # <<>>
    /\ \E r \in Outcomes(o.f.default, FALSE) :
         /\ chunks' = IF r.done THEN chunks \ Cleaned(o) ELSE chunks
         /\ op' = [op EXCEPT ![w] = [o EXCEPT !.cleanup_ids = IF r.ok THEN Tail(@) ELSE <<>>,
                                              !.leaves = @ \/ ~r.done \/ ~r.ok]]
    /\ UNCHANGED <<files, unique, stores, removes, stored, touched>>

\* gridfs_rewrite_cursor_exception
StoreFails(w) ==
    /\ In(w, "store", "cleanup")
    /\ op[w].cleanup_ids = <<>>
    /\ op' = [op EXCEPT ![w] = Idle(StoreResult(op[w], "exception"))]
    /\ UNCHANGED <<files, chunks, unique, stores, removes, stored, touched>>

-----------------------------------------------------------------------------
(* remove, delete; drop *)

Remove(w) ==
    /\ op[w].pc = "idle"
    /\ removes < MaxRemoves
    /\ removes' = removes + 1
    /\ \E ids \in {Ids} \cup {{id} : id \in Ids}, justOne \in BOOLEAN, drop \in BOOLEAN :
         /\ drop => ids = Ids /\ ~justOne
         /\ op' = [op EXCEPT ![w] = [kind |-> "remove", pc |-> IF drop THEN "drop" ELSE "find",
                                     ids |-> ids, justOne |-> justOne]]
         /\ touched' = touched \cup
              {op[v].s : v \in {v \in Workers : op[v].kind = "store" /\ op[v].id \in ids}}
         /\ stored' = {f \in stored : f.id \notin ids}
    /\ UNCHANGED <<files, chunks, unique, stores>>

Fails(w) == op' = [op EXCEPT ![w] = Idle(NULL)]

\* the index, and the _ids of the files the criteria match
FindFiles(w) ==
    /\ In(w, "remove", "find")
    /\ \E r \in Outcomes(FALSE, FALSE) : EnsuredIndex(r.done)
    /\ \/ op' = [op EXCEPT ![w] =
            [kind |-> "remove", pc |-> "chunks", ids |-> @.ids, justOne |-> @.justOne,
             found |-> {id \in @.ids : files[id] # NULL}]]
       \/ Fails(w)
    /\ UNCHANGED <<files, stores, removes, stored, touched>>

\* justOne is off for these
RemoveChunks(w) ==
    /\ In(w, "remove", "chunks")
    /\ \E id \in op[w].found, r \in Outcomes(FALSE, FALSE) :
         /\ chunks' = IF r.done THEN {c \in chunks : c.files_id # id} ELSE chunks
         /\ IF r.ok THEN op' = [op EXCEPT ![w].found = @ \ {id}] ELSE Fails(w)
    /\ UNCHANGED <<files, unique, stores, removes, stored, touched>>

\* the criteria again, with justOne back in force
RemoveFiles(w) ==
    LET o == op[w]
        matching == {id \in o.ids : files[id] # NULL}
    IN
    /\ In(w, "remove", "chunks")
    /\ o.found = {}
    /\ \E gone \in IF o.justOne /\ matching # {} THEN {{id} : id \in matching} ELSE {matching},
          r \in Outcomes(FALSE, FALSE) :
         /\ files' = [id \in Ids |-> IF r.done /\ id \in gone THEN NULL ELSE files[id]]
         /\ op' = [op EXCEPT ![w] = Idle(NULL)]
    /\ UNCHANGED <<chunks, unique, stores, removes, stored, touched>>

\* two commands; the second is not sent after an exception of the first
Drop(w) ==
    /\ In(w, "remove", "drop")
    /\ \E r \in Outcomes(TRUE, FALSE) :
         /\ IF r.done THEN chunks' = {} /\ unique' = FALSE ELSE UNCHANGED <<chunks, unique>>
         /\ IF r.ok THEN op' = [op EXCEPT ![w].pc = "drop files"] ELSE Fails(w)
    /\ UNCHANGED <<files, stores, removes, stored, touched>>

DropFiles(w) ==
    /\ In(w, "remove", "drop files")
    /\ \E r \in Outcomes(TRUE, FALSE) :
         /\ files' = IF r.done THEN [id \in Ids |-> NULL] ELSE files
         /\ op' = [op EXCEPT ![w] = Idle(NULL)]
    /\ UNCHANGED <<chunks, unique, stores, removes, stored, touched>>

-----------------------------------------------------------------------------
(* findOne, get, a MongoGridFSCursor; then getBytes or write *)

\* getBytes has room for one byte more than the length says, write has not
FindFile(w) ==
    /\ op[w].pc = "idle"
    /\ \E id \in Ids, room \in {0, 1} :
         /\ files[id] # NULL
         /\ op' = [op EXCEPT ![w] = [kind |-> "read", pc |-> "index", id |-> id,
                                     doc |-> files[id], max |-> files[id].length + room,
                                     at |-> -1, data |-> <<>>]]
    /\ UNCHANGED <<files, chunks, unique, stores, removes, stored, touched>>

\* these ensure the index, too, which may drop what others have stored
ReadIndex(w) ==
    /\ In(w, "read", "index")
    /\ \E r \in Outcomes(FALSE, FALSE) :
         /\ EnsuredIndex(r.done)
         /\ IF r.ok THEN op' = [op EXCEPT ![w].pc = "next"] ELSE Fails(w)
    /\ UNCHANGED <<files, stores, removes, stored, touched>>

Unread(o) == {c \in chunks : c.files_id = o.id /\ c.n > o.at}

NextUnsorted(o, c) == c \in Unread(o)

\* sort by n
NextInOrder(o, c) == c \in Unread(o) /\ \A d \in Unread(o) : c.n <= d.n

\* apply_to_cursor
ReadChunk(w) ==
    LET o == op[w] IN
    /\ In(w, "read", "next")
    /\ \E c \in chunks :
         /\ NextInOrder(o, c)
         /\ IF Len(o.data) + Len(c.data) > o.max THEN Fails(w)
            ELSE op' = [op EXCEPT ![w].data = @ \o c.data, ![w].at = c.n]
    /\ UNCHANGED <<files, chunks, unique, stores, removes, stored, touched>>

ReadFails(w) ==
    /\ In(w, "read", "next")
    /\ Fails(w)
    /\ UNCHANGED <<files, chunks, unique, stores, removes, stored, touched>>

\* getBytes returns as many bytes as the document says, whatever they are
EndOfFile(w) ==
    LET o == op[w] IN
    /\ In(w, "read", "next")
    /\ Unread(o) = {}
    /\ op' = [op EXCEPT ![w] = Idle([kind |-> "data", s |-> o.doc.s, from |-> 0, all |-> TRUE,
                  astray |-> FALSE,
                  data |-> [k \in 1..o.doc.length |->
                              IF k <= Len(o.data) THEN o.data[k] ELSE NULL]])]
    /\ UNCHANGED <<files, chunks, unique, stores, removes, stored, touched>>

-----------------------------------------------------------------------------
(* getResource: a stream.  Its offset and buffer_offset are size_t, what is computed
   from them is an int again. *)

ToInt(x) == ((x + IntSize \div 2) % IntSize) - IntSize \div 2

ToSizeT(x) == x % SizeT

\* % of int: the sign of the dividend
Remainder(x, y) == IF x < 0 THEN -((-x) % y) ELSE x % y

\* a chunk size of 0 divides by zero, and of one below -1 there is no buffer: the
\* worker dies
OpenStream(w) ==
    /\ op[w].pc = "idle"
    /\ Cardinality({v \in Workers : op[v].kind = "stream"}) < MaxStreams
    /\ \E id \in Ids :
         /\ files[id] # NULL
         /\ LET doc == files[id] IN
            op' = [op EXCEPT ![w] =
              IF doc.chunkSize = 0 \/ doc.chunkSize < -1 THEN Idle(NULL)
              ELSE [kind |-> "stream", pc |-> "open", id |-> id, doc |-> doc, offset |-> 0,
                    chunkId |-> -1, buffer |-> <<>>, buffer_offset |-> 0,
                    astray |-> FALSE, result |-> NULL]]
    /\ UNCHANGED <<files, chunks, unique, stores, removes, stored, touched>>

\* gridfs_read_chunk: what the stream is after it has the chunk
Loaded(o, n) ==
    IF o.chunkId = n THEN {o}
    ELSE {[o EXCEPT !.chunkId = n, !.buffer = c.data,
                    !.buffer_offset = o.offset % o.doc.chunkSize] :
             c \in {d \in chunks : d.files_id = o.id /\ d.n = n /\ Len(d.data) <= o.doc.chunkSize}}

\* what may be copied from the buffer; what lies behind its end is anything
Copied(o, from, count) ==
    LET size == IF from > Len(o.buffer) \/ count < Len(o.buffer) - from THEN count
                ELSE Len(o.buffer) - from
    IN  [k \in 1..size |-> IF from + k <= Len(o.buffer) THEN o.buffer[from + k] ELSE NULL]

\* the chunk the position is in; that of a negative position may be -1, like that of
\* a stream that has read none
ChunkAt(o) == ToInt(o.offset \div o.doc.chunkSize)

\* ceil of an integer division
TotalChunks(o) == o.doc.length \div o.doc.chunkSize

\* History: astray, a stream whose position is none of a file.
Advanced(o, data) ==
    [o EXCEPT !.pc = "open", !.offset = ToSizeT(@ + Len(data)),
              !.buffer_offset = ToSizeT(@ + Len(data)),
              !.astray = @ \/ o.offset + Len(data) >= IntSize \div 2,
              !.result = [kind |-> "data", s |-> o.doc.s, from |-> o.offset, all |-> FALSE,
                          astray |-> o.astray, data |-> data]]

\* no chunk fits a buffer of -1 bytes: all a stream can do then is fail
Read(w) ==
    LET o == op[w] IN
    /\ In(w, "stream", "open")
    /\ o.doc.chunkSize > 0
    /\ \E count \in Counts, l \in Loaded(o, ChunkAt(o)) :
         LET data == Copied(l, l.buffer_offset % o.doc.chunkSize, count) IN
         op' = [op EXCEPT ![w] =
                  IF Len(data) < count /\ ChunkAt(o) + 1 < TotalChunks(o)
                  THEN [l EXCEPT !.pc = "second",
                                 !.result = [kind |-> "part", data |-> data, count |-> count]]
                  ELSE Advanced(l, data)]
    /\ UNCHANGED <<files, chunks, unique, stores, removes, stored, touched>>

\* the rest, from the beginning of the next chunk
ReadSecond(w) ==
    LET o == op[w] IN
    /\ In(w, "stream", "second")
    /\ \E l \in Loaded(o, ChunkAt(o) + 1) :
         op' = [op EXCEPT ![w] =
                  Advanced(l, o.result.data \o Copied(l, 0, o.result.count - Len(o.result.data)))]
    /\ UNCHANGED <<files, chunks, unique, stores, removes, stored, touched>>

\* the chunk is not there, is too large, or cannot be asked for
StreamFails(w) ==
    /\ op[w].kind = "stream"
    /\ op' = [op EXCEPT ![w].pc = "open", ![w].result = NULL]
    /\ UNCHANGED <<files, chunks, unique, stores, removes, stored, touched>>

SoughtInFile(o, newoffset) ==
    [o EXCEPT !.offset = ToSizeT(newoffset), !.astray = newoffset < 0, !.result = NULL]

\* the place in the chunk moves along
Sought(o, newoffset) ==
    [o EXCEPT !.offset = ToSizeT(newoffset), !.astray = newoffset < 0, !.result = NULL,
              !.buffer_offset = IF o.chunkId = -1 THEN @
                                ELSE ToSizeT(Remainder(newoffset, o.doc.chunkSize))]

\* refused behind the end only
Seek(w) ==
    /\ In(w, "stream", "open")
    /\ \E newoffset \in (-(IntSize \div 2))..op[w].doc.length :
         op' = [op EXCEPT ![w] = Sought(@, newoffset)]
    /\ UNCHANGED <<files, chunks, unique, stores, removes, stored, touched>>

Close(w) ==
    /\ In(w, "stream", "open")
    /\ op' = [op EXCEPT ![w] = Idle(NULL)]
    /\ UNCHANGED <<files, chunks, unique, stores, removes, stored, touched>>

-----------------------------------------------------------------------------
Storing(w) ==
    \/ Store(w) \/ EnsureIndex(w) \/ InsertChunk(w) \/ EndOfChunks(w) \/ GetLastError(w)
    \/ InsertFile(w) \/ Cleanup(w) \/ StoreFails(w)

Deleting(w) ==
    Remove(w) \/ FindFiles(w) \/ RemoveChunks(w) \/ RemoveFiles(w) \/ Drop(w) \/ DropFiles(w)

Reading(w) ==
    \/ FindFile(w) \/ ReadIndex(w) \/ ReadChunk(w) \/ ReadFails(w) \/ EndOfFile(w)
    \/ OpenStream(w) \/ Read(w) \/ ReadSecond(w) \/ StreamFails(w)
    \/ Seek(w) \/ Close(w)

Next == \E w \in Workers : Storing(w) \/ Deleting(w) \/ Reading(w)

Spec == Init /\ [][Next]_vars

-----------------------------------------------------------------------------
(* Properties *)

\* Types, and what the index promises: no two chunks of one file have one number.
TypeOK ==
    /\ \A id \in Ids : files[id] # NULL => files[id].s \in 1..stores /\ files[id].length \in Nat
    /\ \A c \in chunks : c.key[1] \in 1..stores /\ c.files_id \in Ids /\ c.key[2] = c.n
    /\ unique => \A c, d \in chunks : SamePlace(c, d) => c = d
    /\ stores \in 0..MaxStores /\ removes \in 0..MaxRemoves

\* An acknowledged store that returned an id, from a client that has its writes
\* acknowledged by default, left all of its file on the server,
\* and nobody else's failure takes a chunk of it away: a store under the same id
\* that fails removes what it wrote itself and nothing else.
StoredIsComplete ==
    \A f \in stored :
        /\ files[f.id] = [s |-> f.s, length |-> f.length, chunkSize |-> f.chunkSize]
        /\ \A pos \in 0..(f.length - 1) :
             \E c \in chunks :
                 /\ c.files_id = f.id /\ c.n = pos \div f.size
                 /\ c.data[(pos % f.size) + 1] = <<f.s, pos>>

\* A store that ended with an exception left no chunk behind, unless the insert it was
\* told had failed was done or a remove of its own did not work.
FailureLeavesNothing ==
    \A w \in Workers :
        LET r == op[w].result IN
        op[w].pc = "idle" /\ r # NULL /\ r.kind = "store" /\ r.status = "exception" /\ r.acked
            => r.leaves \/ \A c \in chunks : c.key[1] # r.s

\* What getBytes, write or a stream return of a file that was stored and is not
\* removed are the bytes of that file at that place, whatever is being stored under
\* the same id and wherever in the file, or before it, the stream was sought; and a
\* stream returns some unless it is at the end.  (Behind the end it takes what chunks
\* there are; sought before the beginning, and until it is sought into the file again,
\* it returns anything.)
ReadIsStored ==
    \A w \in Workers, f \in stored :
        op[w].pc \in {"idle", "open"} =>
        LET r == op[w].result IN
        r # NULL /\ r.kind = "data" /\ r.s = f.s /\ ~r.astray =>
            /\ \A k \in 1..Len(r.data) :
                 r.from + k <= f.length => r.data[k] = <<f.s, r.from + k - 1>>
            /\ IF r.all THEN Len(r.data) = f.length
               ELSE r.from < f.length => r.data # <<>>

=============================================================================
