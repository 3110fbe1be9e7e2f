------------------------- MODULE LeastRecentlyUsed -------------------------
(***************************************************************************)
(* What a peer's cache promises: a bounded map from objects to what was    *)
(* last stored of them, and an order of use.  A read answers with a fresh  *)
(* entry, which becomes the latest used, or with nothing, and then none is *)
(* left.  A write makes room by dropping the least recently used entries,  *)
(* and no more of them than it must; one that cannot fit changes nothing.  *)
(* Cache.tla implements it with an OrderedDict and a count of bytes        *)
(* (peer/cache.py).                                                        *)
(***************************************************************************)
EXTENDS Naturals, FiniteSetsExt

CONSTANTS Objects, Catalogue, Capacity, SizeOf, NoTime, NoContent

VARIABLES
    entries,     \* object -> the metadata it was last stored under
    older,       \* the pairs <<a, b>> of which a was used before b
    answer,      \* the latest answer: an object and its content, or nothing
    now

lruVars == <<entries, older, answer, now>>

Answer(o, content) == [object |-> o, content |-> content]

Size(o) == SizeOf[entries[o].content]

Held(objects) == MapThenSumSet(Size, objects)

Fresh(o) ==
    \/ entries[o].cacheability = "immutable"
    \/ entries[o].expires # NoTime /\ now < entries[o].expires
    \/ entries[o].expires = NoTime /\ entries[o].cacheability # "dynamic"

Readable == {o \in DOMAIN entries : Fresh(o)}

Among(objects) == older \cap (objects \X objects)

\* The order of some entries and a, when a is the latest used.
LatestUsed(a, objects) == Among(objects \ {a}) \cup ((objects \ {a}) \X {a})

Drop(objects) ==
    /\ entries' = [x \in DOMAIN entries \ objects |-> entries[x]]
    /\ older' = Among(DOMAIN entries \ objects)

Read(o) ==
    /\ o \in Readable
    /\ older' = LatestUsed(o, DOMAIN entries)
    /\ answer' = Answer(o, entries[o].content)
    /\ UNCHANGED <<entries, now>>

Miss(o) ==
    /\ o \notin Readable
    /\ Drop({o})
    /\ answer' = Answer(o, NoContent)
    /\ UNCHANGED now

Store(m, gone) ==
    LET o    == m.object
        size == SizeOf[m.content]
        kept == DOMAIN entries \ (gone \cup {o})
    IN  /\ o \notin gone
        /\ Held(kept) + size <= Capacity
        /\ \A g \in gone :
              /\ \A k \in kept : <<g, k>> \in older
              /\ Held(kept \cup {x \in gone : x = g \/ <<g, x>> \in older}) + size
                    > Capacity
        /\ entries' = [x \in kept \cup {o} |-> IF x = o THEN m ELSE entries[x]]
        /\ older' = LatestUsed(o, kept \cup {o})
        /\ answer' = Answer(o, m.content)
        /\ UNCHANGED now

Refuse(m) ==
    /\ SizeOf[m.content] > Capacity
    /\ answer' = Answer(m.object, NoContent)
    /\ UNCHANGED <<entries, older, now>>

\* Somebody asks for objects to be forgotten.
Forget(objects) ==
    /\ Drop(objects)
    /\ UNCHANGED <<answer, now>>

Tick ==
    /\ now' = now + 1
    /\ UNCHANGED <<entries, older, answer>>

LruInit ==
    /\ entries = [x \in {} |-> x]
    /\ older = {}
    /\ answer = Answer(NoContent, NoContent)
    /\ now = 0

LruNext ==
    \/ \E m \in Catalogue, gone \in SUBSET DOMAIN entries : Store(m, gone)
    \/ \E m \in Catalogue : Refuse(m)
    \/ \E o \in Objects : Read(o) \/ Miss(o)
    \/ \E objects \in SUBSET Objects : Forget(objects)
    \/ Tick

LruSpec == LruInit /\ [][LruNext]_lruVars
=============================================================================
