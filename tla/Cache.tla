-------------------------------- MODULE Cache --------------------------------
(***************************************************************************)
(* One peer's cache (peer/cache.py) under any sequence of the calls the    *)
(* peer makes, while the clock runs.  No call awaits, so each is an action.*)
(***************************************************************************)
EXTENDS LruCache, FiniteSets

CONSTANTS
    Objects,
    Catalogue,            \* the ObjectMetadata that may be stored
    PrefixSets,           \* the sets of objects that share a prefix
    NoContent,            \* None as data
    MaxNow                \* bound on the clock

ASSUME CacheAssumption ==
    /\ Capacity \in Nat \ {0}
    /\ \A m \in Catalogue : /\ m.object \in Objects /\ SizeOf[m.content] \in Nat
                            /\ m.expires \in Nat \cup {NoTime}
    /\ NoTime \notin Nat
    /\ MaxNow \in Nat

VARIABLES
    cache,
    answer,               \* what the latest read or write returned
    now

cacheVars == <<cache, answer, now>>

Answer(o, content) == [object |-> o, content |-> content]

Put(m) ==
    /\ cache' = AfterPut(cache, m)
    /\ answer' = Answer(m.object, IF Rejected(m) THEN NoContent ELSE m.content)
    /\ UNCHANGED now

Get(o) ==
    /\ cache' = AfterGet(cache, o, now)
    /\ answer' = Answer(o, IF Hits(cache, o, now) THEN Data(cache, o) ELSE NoContent)
    /\ UNCHANGED now

GetMetadata(o) ==
    /\ cache' = AfterGetMetadata(cache, o, now)
    /\ answer' = Answer(o, IF Knows(cache, o, now) THEN cache.metadata[o].content
                           ELSE NoContent)
    /\ UNCHANGED now

Invalidate(o) ==
    /\ cache' = Invalidated(cache, o)
    /\ UNCHANGED <<answer, now>>

InvalidatePrefix(objects) ==
    /\ cache' = PrefixInvalidated(cache, objects)
    /\ UNCHANGED <<answer, now>>

PassTime ==
    /\ now < MaxNow                                            \* bound
    /\ now' = now + 1
    /\ UNCHANGED <<cache, answer>>

Init ==
    /\ cache = EmptyCache
    /\ answer = Answer(NoContent, NoContent)
    /\ now = 0

Next ==
    \/ \E m \in Catalogue : Put(m)
    \/ \E o \in Objects : Get(o) \/ GetMetadata(o) \/ Invalidate(o)
    \/ \E objects \in PrefixSets : InvalidatePrefix(objects)
    \/ PassTime

Spec == Init /\ [][Next]_cacheVars

-----------------------------------------------------------------------------
\* Type invariant; in particular the capacity is never exceeded.
CacheTypeOK ==
    /\ Stored(cache) \subseteq Objects
    /\ DOMAIN cache.metadata \subseteq Objects
    /\ \A o \in DOMAIN cache.metadata : cache.metadata[o] \in Catalogue
    /\ cache.used \in 0..Capacity
    /\ answer.object \in Objects \cup {NoContent}
    /\ now \in 0..MaxNow

\* An object is stored once, exactly while it has metadata, and with the content
\* that metadata describes.
EntriesMatchMetadata ==
    /\ Cardinality(Stored(cache)) = Len(cache.storage)
    /\ DOMAIN cache.metadata = Stored(cache)
    /\ \A e \in ToSet(cache.storage) :
          /\ cache.metadata[e.object].object = e.object
          /\ cache.metadata[e.object].content = e.content

\* The running count of bytes, which decides what is evicted.
AccountsForBytes == cache.used = Bytes(cache.storage)

\* Through any overwrites, evictions, expiries and invalidations the two
\* dictionaries and the count stay in step: an entry without metadata would never
\* be stale and be served forever, and a count that drifts would evict too much or
\* overfill the cache (cache.py:48-66, 100-106, 115-118).
CacheIsConsistent == EntriesMatchMetadata /\ AccountsForBytes

\* The order of storage, read as a relation.
Order(entries) ==
    {<<entries[ij[1]].object, entries[ij[2]].object>> :
        ij \in {ij \in (DOMAIN entries) \X (DOMAIN entries) : ij[1] < ij[2]}}

L == INSTANCE LeastRecentlyUsed
        WITH entries <- cache.metadata, older <- Order(cache.storage)

\* The OrderedDict with its running count is a cache that evicts the least
\* recently used: a write drops exactly the entries that are in its way, a hit
\* renews its entry, what is returned is fresh and what was last stored, and
\* nothing leaves but for these reasons (cache.py:32-127).
ImplementsLeastRecentlyUsed == L!LruSpec
=============================================================================
