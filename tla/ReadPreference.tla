--------------------------- MODULE ReadPreference ---------------------------
(***************************************************************************)
(* Which of the pooled connections may serve an operation                  *)
(* (mcon/read_preference.c).  A connection is seen as a record with fields *)
(* hash (host, set, cred, pid), type, ping and tags.  A mcon_collection is *)
(* modelled by the set of its elements: duplicates do not occur, and the   *)
(* only positions the code looks at are the first and the last one after   *)
(* sorting.  qsort is not stable, so each of several equal elements may    *)
(* come first or last.                                                     *)
(***************************************************************************)
EXTENDS Naturals, FiniteSets, Sequences

\* connection types (types.h); SECONDARY has to be greater than PRIMARY
INVALID    == 0
STANDALONE == 1
PRIMARY    == 2
SECONDARY  == 4
ARBITER    == 8
MONGOS     == 16

Modes == {"primary", "primaryPreferred", "secondary", "secondaryPreferred", "nearest"}

CUTOFF == 15

\* hashes write an absent set name as "-" and absent credentials as "X"
None == "none"

-----------------------------------------------------------------------------
(* Collecting candidates *)

FilterConnections(pool, types, pid) ==
    {c \in pool : c.hash.pid = pid /\ c.type \in types}

TypesFor(mode) ==
    CASE mode = "primary"   -> {PRIMARY}
      [] mode = "secondary" -> {SECONDARY}
      [] mode = "nearest"   -> {STANDALONE, PRIMARY, SECONDARY, MONGOS}
      [] OTHER              -> {PRIMARY, SECONDARY}

FindAllCandidates(pool, mode, pid) == FilterConnections(pool, TypesFor(mode), pid)

\* the pairs of equal strings are counted, and compared with the tag count
MatchesTags(c, tagset) ==
    Cardinality({m \in (1..Len(tagset)) \X (1..Len(c.tags)) : tagset[m[1]] = c.tags[m[2]]})
        = Len(tagset)

FilterByTagset(cands, tagset) == {c \in cands : MatchesTags(c, tagset)}

\* connections without a set name in their hash are never kept
FilterBySetName(cands, setName) ==
    {c \in cands : /\ c.hash.set # None
                   /\ setName \in {None, c.hash.set}}

FilterBySeed(cands, hashes) == {c \in cands : c.hash \in hashes}

\* strcmp with the NULL a hash without credentials gives
CredentialsCrash(cands, cred) ==
    cred # None /\ \E c \in cands : c.hash.cred = None

FilterByCredentials(cands, cred) ==
    {c \in cands : cred \in {None, c.hash.cred}}

\* NULL (here {}) when there are tag sets and none of them matches
FilterByTagsets(cands, tagsets) ==
    LET matching == {n \in 1..Len(tagsets) : FilterByTagset(cands, tagsets[n]) # {}}
    IN  IF tagsets = <<>> THEN cands
        ELSE IF matching = {} THEN {}
        ELSE FilterByTagset(cands, tagsets[CHOOSE n \in matching : \A m \in matching : n <= m])

\* candidates that belong to the client: "all" before the credentials are looked at
OwnCandidates(pool, mode, pid, replset, setName, hashes) ==
    LET all == FindAllCandidates(pool, mode, pid)
    IN  IF replset THEN FilterBySetName(all, setName) ELSE FilterBySeed(all, hashes)

FindCandidates(own, cred, tagsets) ==
    FilterByTagsets(FilterByCredentials(own, cred), tagsets)

-----------------------------------------------------------------------------
(* Sorting, nearness, choice *)

Before(mode, a, b) ==
    \/ mode = "primaryPreferred"   /\ a.type < b.type
    \/ mode = "secondaryPreferred" /\ a.type > b.type
    \/ /\ mode \in {"primaryPreferred", "secondaryPreferred"} => a.type = b.type
       /\ a.ping < b.ping

FirstsOf(col, mode) == {a \in col : \A b \in col : ~Before(mode, b, a)}
LastsOf(col, mode)  == {a \in col : \A b \in col : ~Before(mode, a, b)}

NearestOfAll(col, first) == {c \in col : \A d \in col : c.ping <= d.ping + CUTOFF}

\* nearest_ping is the ping of the first element
SelectNearest(col, first) == {c \in col : c.ping <= first.ping + CUTOFF}

\* what mongo_pick_server_from_set may return: the first element if that is the
\* primary preferred, any but the last if that is the primary not preferred, or any
PickServer(col, mode) ==
    LET preferred == {c \in FirstsOf(col, mode) : c.type = PRIMARY}
        ignored   == {c \in LastsOf(col, mode) : c.type = PRIMARY}
    IN  IF mode = "primaryPreferred" /\ preferred # {} THEN preferred
        ELSE IF mode = "secondaryPreferred" /\ Cardinality(col) > 1 /\ ignored # {}
        THEN UNION {col \ {c} : c \in ignored}
        ELSE col

Pickable(cands, mode) ==
    UNION {PickServer(SelectNearest(cands, first), mode) : first \in FirstsOf(cands, mode)}
=============================================================================
