------------------------------ MODULE LruCache ------------------------------
(***************************************************************************)
(* A peer's cache (peer/cache.py) as operators on a cache value: storage,  *)
(* the OrderedDict, is a sequence of entries with the least recently used  *)
(* first; metadata maps an object to what it was last stored under; used   *)
(* is current_size_bytes.  Cache.tla is the cache by itself; the peer's    *)
(* modules apply the operators to the caches of several peers.             *)
(*                                                                         *)
(* Abstractions.  Bytes are a content with a size, and a checksum is that  *)
(* content; the hit, miss, eviction and rejection counters, which no       *)
(* decision reads, are left out.                                           *)
(***************************************************************************)
EXTENDS Integers, SequencesExt

CONSTANTS
    Capacity,             \* capacity_bytes
    SizeOf,               \* length of each content
    NoTime                \* None as an expires_at

EmptyCache == [storage |-> << >>, metadata |-> [o \in {} |-> o], used |-> 0]

Keys(entries) == {e.object : e \in ToSet(entries)}

Stored(c) == Keys(c.storage)

Bytes(entries) == FoldLeft(LAMBDA total, e : total + SizeOf[e.content], 0, entries)

\* storage.pop: the entry of an object, its size, and the others as they were.
Entry(c, o) == CHOOSE e \in ToSet(c.storage) : e.object = o

SizeIn(c, o) == IF o \in Stored(c) THEN SizeOf[Entry(c, o).content] ELSE 0

Others(c, o) ==
    IF o \in Stored(c)
    THEN RemoveAt(c.storage, CHOOSE i \in DOMAIN c.storage : c.storage[i].object = o)
    ELSE c.storage

Dropped(metadata, objects) == Restrict(metadata, DOMAIN metadata \ objects)

\* _is_stale: what has no metadata never is.
IsStale(c, o, now) ==
    /\ o \in DOMAIN c.metadata
    /\ c.metadata[o].cacheability # "immutable"
    /\ IF c.metadata[o].expires = NoTime
       THEN c.metadata[o].cacheability = "dynamic"
       ELSE now >= c.metadata[o].expires

\* Mutant: a removed entry is not subtracted from the count.
MutInvalidated(c, o) ==
    [storage |-> Others(c, o), metadata |-> Dropped(c.metadata, {o}), used |-> c.used]

\* invalidate
Invalidated(c, o) ==
    [storage  |-> Others(c, o),
     metadata |-> Dropped(c.metadata, {o}),
     used     |-> c.used - SizeIn(c, o)]

\* invalidate_prefix: the keys in storage, one after the other.
PrefixInvalidated(c, objects) ==
    FoldLeft(LAMBDA rest, e : IF e.object \in objects THEN Invalidated(rest, e.object)
                              ELSE rest,
             c, c.storage)

\* Mutant: a hit does not renew the entry.
MutTouched(c, o) == c

\* move_to_end
Touched(c, o) ==
    IF o \in Stored(c) THEN [c EXCEPT !.storage = Append(Others(c, o), Entry(c, o))]
    ELSE c

\* get: what it leaves, and whether it hits.
AfterGet(c, o, now) ==
    IF IsStale(c, o, now) THEN Invalidated(c, o) ELSE Touched(c, o)

Hits(c, o, now) == ~IsStale(c, o, now) /\ o \in Stored(c)

Data(c, o) == Entry(c, o).content

\* get_metadata: as get, but an entry without metadata is not touched.
AfterGetMetadata(c, o, now) ==
    IF IsStale(c, o, now) THEN Invalidated(c, o)
    ELSE IF o \in DOMAIN c.metadata THEN Touched(c, o) ELSE c

Knows(c, o, now) == ~IsStale(c, o, now) /\ o \in DOMAIN c.metadata

\* How many of the oldest entries go, until the new one fits or none is left.
Evictions(entries, used, size) ==
    Min({k \in 0..Len(entries) :
            \/ used - Bytes(SubSeq(entries, 1, k)) + size <= Capacity
            \/ k = Len(entries)})

\* Mutant: the size of a write is not looked at.
MutRejected(m) == FALSE

Rejected(m) == SizeOf[m.content] > Capacity

\* put, of data that matches the checksum in the metadata (it raises otherwise).
\* The entry of the object itself is taken out first, so it is not evicted.
AfterPut(c, m) ==
    LET size    == SizeOf[m.content]
        others  == Others(c, m.object)
        used    == c.used - SizeIn(c, m.object)
        k       == Evictions(others, used, size)
        evicted == SubSeq(others, 1, k)
    IN  IF Rejected(m) THEN c
        ELSE [storage  |-> Append(SubSeq(others, k + 1, Len(others)),
                                  [object |-> m.object, content |-> m.content]),
              metadata |-> [o \in (DOMAIN c.metadata \ Keys(evicted)) \cup {m.object} |->
                               IF o = m.object THEN m ELSE c.metadata[o]],
              used     |-> used - Bytes(evicted) + size]
=============================================================================
