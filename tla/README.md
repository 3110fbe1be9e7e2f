# ResilientP2P in TLA+

A specification of ResilientP2P: peers on a campus cache objects, find each
other through a coordinator (and a DHT), and fall back to an origin server. The
modules are read side by side with the Python sources they are translated from;
`PROJECT.json` maps each definition to its lines.

## 1. Inventory

Two stacks share most of their code: `p2p-coordinator/` (coordinator first, DHT
as its fallback) and `p2p-dht/` (DHT first, coordinator as its fallback; it uses
the same coordinator). Every process is a single asyncio event loop: code
between two `await`s is atomic, and everything interesting happens at the awaits
and between processes.

| component | source | state | operations |
|---|---|---|---|
| store | `coordinator/store.py` | `peers` (with `last_seen`), `peer_loads`, `index`, `object_metadata`, `object_provider_versions` | register, heartbeat, publish, report_transfer, get_providers, get_object_metadata, invalidate, invalidate_prefix, cleanup |
| reputation tracker | `coordinator/reputation.py` | `_peers` (state, score, `quarantined_at`), `_dedupe` | record_incident, tick_cooldowns, remove |
| coordinator service | `coordinator/main.py` | the two above; the timer of `periodic_cleanup` | one endpoint per store operation, report-bad-peer, the invalidation fan-out to peers |
| peer cache | `peer/cache.py` | `storage` (LRU order), `metadata`, `current_size_bytes` | put, get, get_metadata, invalidate, invalidate_prefix |
| peer client | `peer/client.py` | the cache, `_register_lock`, fetches in progress, scheduled tasks | register, heartbeat, fetch_object, publish, report_bad_peer, report_transfer, republish_all, re-register |
| peer service | `peer/main.py` | the loops of heartbeat, republish, rebootstrap | get-object, invalidate, trigger-fetch, shutdown, crash |
| DHT node | `dht/node.py` | an external Kademlia store of provider lists | announce (with retry), lookup, remove_peer, invalidate_object |
| experiment runner | `experiments/runner.py` | the plan of a scenario, its results, port forwards (processes); Docker or Kubernetes are external | build and sort the events, reset the stack, execute fetch, kill, restart, disconnect, connect, delay, clear_delay, invalidate and sleep, summarize and write |
| auth | `common/auth.py` | none | who is calling |
| origin | `origin/main.py` | none | content per object and version |

How they interact. Peers call the coordinator over HTTP (register, heartbeat,
publish, lookup, reports); the coordinator calls peers only to tell them of an
invalidation, best effort; peers fetch from each other and from the origin, and
read and write the DHT. The runner drives a whole stack from outside: it kills,
cuts off and slows the services by commands, and asks peers to fetch. Store and
tracker share one process: a publish reads and
charges reputation, a lookup filters and ranks by it, and the cleanup that
evicts peers also removes their records and ends quarantines.

What is hard: the store keeps one fact in four dictionaries; versions, expiry,
eviction and invalidation change it in different orders; the tracker's scores are
charged and halved over and over while its labels must follow; timers (timeout,
cleanup, cooldown, dedupe window) race with heartbeats, reports and
registrations; nothing is persisted, so a coordinator restart forgets everything
and a peer restart forgets what it advertised; publishes and announces run after
the store that caused them, when the object may be gone again; notices and
announces get lost; lists in the DHT are read, changed and written back; the
DHT's path takes providers without asking the coordinator, which alone knows who
is in quarantine; the runner's commands fail or time out while the pods behind
its port forwards are replaced.

What makes each part correct:

- *tracker*: label, score and cooldown clock agree; quarantine lasts a full
  silent cooldown and not much longer; offenders stay marked; reports are rate
  limited;
- *store*: the dictionaries agree; providers are registered; live peers are not
  evicted and dead ones are, in bounded time; a lookup answers with healthy
  holders of the current version first; a version has one content;
- *cache*: bytes are accounted for and bounded; nothing stale is returned; the
  least recently used goes first;
- *membership*: a live peer whose coordinator restarted is registered and listed
  again; a listing names a peer that has the object;
- *fetch*: returned bytes have the version and checksum asked for; an honest
  provider is not charged; the origin is reached when no provider serves;
- *invalidation*: what was invalidated is not served again once the notices have
  been delivered and running fetches are over;
- *DHT*: a list names a peer once; what updates that overlap, get lost or come
  late have done to it is healed by the next republish; undisturbed, it is exact;
- *DHT-primary fetch*: as *fetch*, though each provider brings the metadata it is
  judged by; a bad candidate does not hide the good one behind it;
- *runner*: a plan is the script that was written; the stack is in the state the
  results report; no process outlives the run; every run ends.

## 2. Modules

| module | what it is |
|---|---|
| `Reputation` | the tracker: one action per method, and its properties |
| `Directory` | abstract specification of what registry and index promise together: members, adverts, one current description per object |
| `Coordinator` | store, tracker (it extends `Reputation` and shares its variables), endpoints, cleanup task, restart; lookups as operators; the refinements of `Directory` and `Reputation` |
| `CoordinatorHistory` | `Coordinator` with a history variable, for a property about what was accepted earlier |
| `LruCache` | the peer cache's dictionaries and methods, as operators from one cache to the next |
| `LeastRecentlyUsed` | abstract specification of a cache: a bounded map and an order of use |
| `Cache` | one cache under any calls, while time passes; the refinement of `LeastRecentlyUsed` |
| `Membership` | one peer's tasks against the registry: heartbeats, publishes, re-registration under the lock, failing calls, crashes of either side |
| `Fetch` | peers fetching one object from each other and the origin, publishing and announcing it, while it is evicted and invalidated |
| `Dht` | the provider list of one object in the DHT and the peers' tasks that read, change and write it back |
| `DhtFetch` | peers of the DHT-primary stack fetching one object: DHT, then coordinator, then origin; every malicious mode |
| `Sorting` | Python's `sorted()`, which the coordinator and the runner call, as an operator |
| `Workload` | operators: from a scenario to its plan of events, from results to the summary |
| `Runner` | the runner executing a plan against a stack under Docker Compose or Kubernetes (it extends `Workload`) |
| `MC...` | small instances of each for TLC |
| `Sorting_proofs` | lemmas about sorting, and the induction over sets of numbers the other proofs share |
| `Coordinator_proofs`, `Membership_proofs`, `Fetch_proofs`, `Dht_proofs`, `DhtFetch_proofs`, `Cache_proofs`, `Runner_proofs` | theorems checked by TLAPS; those about `Reputation` are in `Coordinator_proofs` |

### State and actions against the code

`rep` is `_peers` of the tracker, a function from accused ids to records of
state, score and `quarantined_at`; `dedupe` is `_dedupe`. `lastSeen`, `loads`,
`index`, `metadata` and `versions` are the store's five dictionaries (of a
`PeerInfo` only `last_seen` changes; location and URL are constants of a peer).
`cleanupDue` is when the sleep in `periodic_cleanup` ends. Each handler is an
action of the same name; a handler's refusal (404, 409, 403, a dropped report)
changes nothing and is not an action, with one exception: a conflicting publish
is refused *and* charged (`PublishConflict`). `LookupExpired` is the one effect a
lookup has. `PeriodicCleanup` is the body of the loop: evict the dead and drop
what has expired (`Evict`), remove their records and tick the cooldowns
(`EvictAndTick`), go back to sleep. `Restart` is a crash and restart of the
process at any point between handlers.

`LruCache` keeps the cache of `peer/cache.py` as a record of `storage` (a sequence
of entries, oldest first), `metadata` and `current_size_bytes`, which the code
updates one by one and so does each operator. `Cache` has one action per method;
no method awaits.

`Membership` has one `pc` per asyncio task of a peer: the heartbeat loop, one
post-store update per object and a transfer report. A task asks the coordinator,
and on a 404 waits for `_register_lock`, registers, walks the cache's metadata
publishing each object, and tries again; each answer is a step, each failed call
another, after which the coordinator may still apply it (`late`). `walk` is the
iterator over the live dictionary: what is left of it and whether the number of
entries changed, in which case its next turn raises, and with it ends a
heartbeat task. `Crash`, `Boot`, `RestartCoordinator` and the cleanup complete it.

`Fetch` has one record per peer for the `fetch_object` in progress: where it is,
which version it wants, the candidates left, the metadata it judges answers by.
`posts` are scheduled `_post_store_updates` and rounds of `republish_all`. An
invalidation takes the listings and then tells the peers that advertised the
object one at a time (`telling`); each drops its copy and then leaves the DHT's
list (`unlisting`). `old` and `quiet` are history variables of the properties
about invalidation.

`Dht` has one read-modify-write (`op`) per peer and task: the update after a
store, the republish loop, and a removal (a notice of invalidation or the graceful
shutdown). `Read` is the await on `get`, `Write` the await on `set`, which may fail
with or without effect, or take effect later (`late`); `Failed` is
`announce_with_retry`'s next attempt. `joined` are the nodes with neighbours: the
others read nothing and write into the void, and the code does not look. `Close`
and `Closed` are the two ends of `lifespan` after its yield, `Crash` is
`/suicide`. `quiet` is a history variable.

`DhtFetch` has one record per peer for the fetch in progress, with one step per
await: the two lookups, a request to a provider (`Ask`, `Serve`, `Unreachable`), how
its answer is taken (`NotFound`, `WrongVersion`, `WrongChecksum`, `Accept`), the
origin. `fallback` says which of the two lookups the candidates came from, `meta`
is the one metadata variable of the loop. `posts` are the updates after a store:
announce, publish, and after a 404 register, republish, publish again. The
entries of `Dht` are a register per peer here, and `Overwritten` is what
overlapping updates of `Dht` do to one; the quarantine of `Reputation` is any set of
peers that were reported (`Judge`).

`Workload` is `_build_events_for_scenario`, `_priority_for_action`, the churn and
request generators (any outcome of the random generator) and
`_summarize_results`. `Runner` is at one `place` of `run` and `run_scenario`; every
event is a step, with its commands' effect on the services (`up`, `attached`,
`qdisc`) and on the forwards (`live`), or an exception (`Abort`), after which the
run's `finally` stops the forwards. `stray` are forwards that are alive and no longer
known to the runner; a started-over forward would be one. `Lost` is a container or pod that
dies by itself. A pod that `Stop` scales down stays (`leaving`) until `Gone`, as
`kubectl scale` does not wait for it: until then it may be led to by the forwards that
are started again, serve requests, and take commands (`Shape`) that were meant for its
successor, which `missed` remembers. Under compose a service is started with those it
depends on (`Starts`, from `docker-compose.yml:84-87`).

How they fit together: `Coordinator` contains `Reputation`; `Cache` gives `LruCache`
to the world; `Fetch` composes peers, coordinator, DHT and origin for the
coordinator-primary stack, and `DhtFetch` for the DHT-primary one, each with as much
of the others' state as a fetch can tell apart; `Membership` and `Dht` zoom in on
the tasks that keep the coordinator's index and the DHT's lists up to date.

Abstractions, beyond those named in the modules' headers:

- A handler is one action. None of them awaits between its first read and its
  last write of coordinator state; the invalidation handlers await only after
  the store has changed.
- Time is a counter, and clocks (wall clock in the store, monotonic in the
  tracker) are one. The readings one handler takes are one reading. The code
  sleeps between cleanups and does its handlers in negligible time, so the
  cleanup happens at its due time and not later (`PassTime` waits for it): the
  two "in bounded time" properties are about this ideal timer.
- Scores are naturals in a unit fine enough that halving is exact within the
  bound (`HalvingIsExact` checks the unit). The code's floats are exact on these
  values.
- A checksum and a size are one `content`. Prefixes are the sets of objects that
  start with them. Who is calling (`Reporters`) is what authentication found out:
  a peer, or nobody under `AUTH_MODE=none`.

## 3. What TLC checks

| run | instance | checks |
|---|---|---|
| `reputation` | 2 peers and the exempt origin, 1 object, clock to 4, scores to the 4th point | types, `StateMatchesScore`, `QuarantineNeedsSilence`, `OffenderStaysMarked`, `ReportsAreRateLimited` |
| `store` | `CoordinatorHistory` with 2 peers, 2 objects, 2 versions (two contents of one), a TTL and a dynamic object, clock to 5, timeout 1, cleanup every 2, restarts | types, `StoreIsConsistent`, `SilenceIsBounded`, `OneContentPerVersion`, `ImplementsDirectory` |
| `store_reputation` | 2 peers, one of which reports, 1 object with two contents, one of them with a TTL, loads to 1, answers cut at 1, clock to 4, cooldown and window 2, restarts | `QuarantineIsBounded`, `EvictionIsEarned`, `AnswerPrefersHealthy`, `ImplementsReputation` |
| `cache` | 4 objects, contents of 1, 2, 3 and 5 bytes in a cache of 4, versions that expire, clock to 2 | types, `CacheIsConsistent`, `ImplementsLeastRecentlyUsed` |
| `membership` | 1 peer with 2 objects, 1 failed call or unearned eviction, 1 crash of either side | types, `BeatingPeerIsRegistered`, `HeldIsListed` (liveness) |
| `fetch` | 3 peers (an honest, a corrupting, one that advertises what it lacks), 2 versions, 3 fetches, 1 failed call, 1 invalidation | types, `CachesAreGenuine`, `VersionIsHonoured`, `QuietInvalidationHolds` |
| `dht` | 2 peers, a lasting and an expiring description, 3 events (stores, drops, notices, stops, faults), 2 attempts, clock to 1 | types, `OneEntryPerPeer`, `QuietListIsExact`, `HolderIsFoundAgain` (liveness) |
| `dht_fetch` | 3 peers, one in each malicious mode, 2 versions, answers cut at 2, 3 fetches, 1 fault | types, `CachesAreGenuine`, `VersionIsHonoured`, `SteadyHolderIsAsked`, `HonestIsNotAccused` |
| `runner` | 1 peer, coordinator and origin under both orchestrators; scripts of every ordered pair of the peer's six disturbances, of a fetch or an invalidation with a kill or restart of peer or coordinator, seven longer ones that mix disturbances, after another scenario, and random requests under churn; 1 command that fails or service that dies; pods that leave at any later point | types, `PlanKeepsScript`, `StackIsAsScripted`, `UpIsForwarded`, `ForwardsAreStopped`, `SummaryIsCoherent`, `RunEnds` (liveness) |
| `membership_heart`, `fetch_invalidation`, `dht_quarantine` | as above, or smaller | what a document says and the code does not do (section 5) |

Bounds and why they are enough. The clock runs long enough for two full rounds
of every timer in the run: two cleanups, two cooldowns, two dedupe windows, so a
quarantine is served, interrupted and re-entered, and a peer evicted comes back
and is evicted again. `MaxScore` lets a peer reach quarantine, be charged there,
recover and be quarantined again. Two peers suffice for every pairwise
interaction of the store: a publisher and the holder it conflicts with, a reporter
and an accused, a suspect and a healthy holder that meet a cut of one.
`MaxTransfers` bounds loads, which only the sort key reads. `ReputationEnabled` is
off in `store` (the code builds the store with no tracker then) and on in
`store_reputation`, where the trackers' own invariants are not repeated:
`ImplementsReputation` brings them along. The cache run has a write that evicts
none, one or several entries, and one that cannot fit. One fault and one restart
are enough in `membership` for every pair of a lost call, a late one, an eviction
and a crash in either order, with up to four tasks in the queue for the lock. Three
fetches let two peers hold copies of different versions, or of different worth,
while the third chooses; the bound on faults keeps `fetch` and `dht_fetch` from
losing every call, which would only send every fetch to the origin. Three events
in `dht` are two peers' stores and one more of anything: a third update that
overlaps, a removal, a write that fails and comes late, a crash; republishing is
not an event, so every one of them meets the healing loop. Two attempts are a
first and a last one. In `runner` every pair of disturbances meets on one service, in
both orders and with time in between, so that neither is moved by priority; what the
two leave is what a third meets, and the longer scripts follow a disconnect and a delay
by what ends either, and a kill by what restarts, shapes or cuts off. Waits, requests
and churn add events at the same and at different times, and one or two fetches (or
none) are the cases of the interpolated percentiles that differ. There are 450,000
states; the theorem is for scripts of any length.

Deadlock checking is on in the `cache`, `membership` and `membership_heart` runs.
Elsewhere the bounded model stops at the clock's, the events' or the counters'
bound, where the program does not; a runner that is over has really stopped.

Liveness. The coordinator's obligations in time are stated as bounds
(`SilenceIsBounded`, `QuarantineIsBounded`), which say more than "eventually".
`Membership` has the obligations of a peer, under weak fairness of what the code
schedules: the heartbeat loop and scheduled updates run, a call ends in an answer
or an error because the HTTP client has a timeout, asyncio's lock serves its
queue, and the coordinator's cleanup runs. Nobody is obliged to fetch, serve,
evict, crash, boot or apply a late call. `BeatingPeerIsRegistered` assumes that
the heartbeat task stays alive from some point on; `membership_heart` shows that
the code does not guarantee that. `HeldIsListed` assumes no failed call and no
change of the cache under a republish loop, and leaves out metadata with an
expiry: the loop passes `req.dict()` to the HTTP client (`client.py:715-719`),
which cannot serialise a datetime, and skips the object. In `Dht`, calls
end (with a result or an exception), the republish loop comes round and the
rebootstrap loop goes on until the node has neighbours; nobody has to store, drop,
stop or boot. `HolderIsFoundAgain` is about a peer that from some point on keeps
its copy: it is listed again and again, as a late write may take it off once more.
`Runner` has weak fairness on its own steps: each command, request and poll has a
deadline (`subprocess` timeouts, `httpx` timeouts, `_wait_for_*`). Nothing obliges a
service to live or die. `Fetch` and `DhtFetch` have no fairness and no liveness: a
fetch is a loop over a finite list.

Every property of a passing run has a wrong variant of a definition (`Mut...`)
under which TLC finds it violated: a dropped guard, an off-by-one at a timeout, a
record that is not reset, keys in another order.

## 4. What is proved

For all sets of peers, objects and metadata, all thresholds, weights and timers
that satisfy the named assumptions (`ThresholdAssumption`, `TimingAssumption`,
`SignalAssumption`, `CoordinatorTimingAssumption`, `CatalogueAssumption`,
`SelectionAssumption`, `CacheAssumption`, `MembershipAssumption`, `FetchAssumption`,
`DhtAssumption`, `DhtFetchAssumption`, `RunnerAssumption`):

- *Tracker.* `RepInv` is type correctness and `StateMatchesScore` together; neither
  is inductive alone (a recovery halves a score that must be a natural; a charge
  needs label and clock to agree to stay well formed). Both are about single
  records, so the proof works on one record: a charge, a recovery and a fresh
  record are well formed (`WellFormed`), hence every step keeps `RepInv`.
  `QuarantineServed`, `OffenderMarked` and `RateLimited` are the action
  properties, from `RepInv` and the same lemmas.
- *Store.* `StoreInv` is the store's types and `StoreIsConsistent`: the types
  need consistency (an entry is read before it is rewritten) and consistency
  needs the types. One lemma per action (`EvictFacts`, `PublishFacts` say what
  the two hard ones leave).
- *A lookup's answer.* `sorted()` gives each candidate the rank one more than the number
  of candidates before it. With a strict total order of finitely many places these
  ranks are a bijection (`RanksAreBijective`: a later place has strictly more places
  below it, and an injection between finite sets of one size is onto), so the answer is
  a beginning of the candidates in order (`AnswerIsRanked`). The order is strict and
  total because the last part of a key is the peer's id (`KeyLessIsTotal`, hence the
  assumption in `SelectionAssumption` that ids differ), and the number of candidates is
  finite because each registration adds one peer (`RegistryFinite`): `Peers` itself may
  be infinite. The keys are numbers by `StoreInv`. Whoever is before a listed candidate
  is then listed too, and a healthy one is before every suspect one.
- *The coordinator implements the tracker.* Every step is a step of `RepSpec` or
  leaves the tracker alone, so the tracker's theorems carry over without being
  proved again (`RepInvariantHere`).
- *Timing.* `SilenceIsBounded` and `QuarantineIsBounded` are not inductive: they
  hold because the last cleanup left nothing overdue. `Timely` says so relative to
  `cleanupDue`, and `CoordInv` adds it to the other two invariants.
- *The coordinator implements the directory.* A registration is a `Join`, an
  accepted publish an `Advertise`; every removal (lookup of something expired,
  invalidation, cleanup, restart) is a `Withdraw` of some members and objects.
  The step that needs the invariant is that an object keeps its description
  exactly as long as an advert of it is left (`KnownIsIndexed`).

- *Fetches.* `FetchInv` is the types, `CachesAreGenuine` and `FetchingIsMissing`
  (while a peer fetches it has no copy). Genuineness is inductive with the types:
  only `Accept` and `OriginAnswered` fill a cache, the first after the checksum
  agrees with the metadata the answer is judged by. `VersionHonoured` needs
  `FetchingIsMissing`: whatever is in the cache when a fetch ends was put there by
  its last step. There is no assumption on who corrupts, or how many.

- *Quiet invalidations.* `QuietInvalidationHolds` speaks of the moment when everybody
  has been told. `QuietInv` says how it is until then: an old copy is with a peer that
  is still to be told, nobody fetches meanwhile, and nobody's answer is old.
- *A peer's tasks.* The types of `Membership` need that a republish loop that waits for
  an answer waits for the publish of an object (`WalkIsAtObject`). As all tasks share
  the one `walk`, that needs that one task at most is behind the lock
  (`LockIsExclusive`).
- *One content per version.* `ClaimsAgree`: what each listed provider claimed agrees
  in version and content with the metadata in force. A publish that is accepted
  either replaces the version, and with it the claims, or agrees with the metadata
  (`PublishAgrees`); every other step only removes, and what remains is described as
  before (`DescriptionsKept`). It needs the store's consistency: an object that is
  still listed still has its metadata.
- *The DHT's list.* `DhtInv` says of every list, stored, read or late, that it is
  typed and names a peer once: `Changed` takes the writer out before it puts it in.
  `QuietListIsExact` needs `Settled`: while nothing has gone wrong there is at most
  one writer, its read is still what is stored, each pending task is about to write
  what its peer offers, and the entries of idle peers are exact already. The
  assumption that an expiry is a number or `None` is used where time passes: an
  entry and its copy expire together.
- *DHT-primary fetches.* `DhtFetchInv` is the types, genuineness and
  `FetchingIsMissing`, as in `Fetch`, though answers are judged by metadata that
  comes from the providers: a copy is taken only after its checksum agrees with
  metadata of the version it claims. `SteadyHolderIsAsked` needs
  `Sound`: a candidate that is steady holds a genuine copy of the version looked for
  and is among those that are left, so an answer that is rejected was not its own.
  That the cut loses nobody unless it cuts (`UncutIsWhole`) is about cardinalities,
  hence the assumptions that `Peers` is finite and that nobody is nearer than
  itself.

- *The cache.* `CacheInv` says of the record that holds the dictionaries that it is one
  of `Caches` (types, each object stored once, bytes in `used`, at most the capacity)
  and that storage and metadata agree (`Matches`). Each operator of `LruCache` leads
  from such a cache to one that `Remains` of it: nothing new, in the same order. The
  loops of the code are folds over sequences there. What a fold keeps is proved by
  induction on its length, from the least number of a non-empty set of numbers
  (`NatIsInductive`, `FoldStaysIn`): sets stand where the library's induction theorems
  take an operator. The refinement of `LeastRecentlyUsed` adds that a write evicts the
  oldest entries and no more than it must (`FewestEvictions`, `NoMoreThanItMust`), where
  the running count and the sum over a set of entries in the specification come to the
  same (`HeldIsBytes`). `CacheAssumption` gives sizes, capacity and expiries
  their types; nothing is assumed about the number of objects.

- *The runner.* `RunnerInv` has four parts. `StackTyped` is the types of services and
  port forwards. `LogTyped` says what the log is: while events run, the plan is one of the
  scenario's plans and the results are those of its first events, in order. `ForwardInv`
  adds to `UpIsForwarded` that no forward is lost track of and that none is alive before
  the first is started or after the run; `ForwardsAreStopped` follows. `StackInv` adds
  to `StackIsAsScripted` what it rests on: how far a reset has come (every service that
  is not in `todo` is done), that a reset leaves every service attached and unshaped, up
  unless it failed of itself (`Fresh`), that an orchestrator has one of the two ways to
  cut a service off, that no container is leaving, and that a service that is down or
  without its interface is not shaped. Without the last, a restart or a connect could
  bring back a service that is slower than the results tell.
  `StackIsAsScripted` computes from the results and the orchestrator alone what
  each service is: each of down, cut off and slow is so since an event that made it so and
  until one that ends it (`Since`, `Killed`). No sequence of events is excepted. What the
  events mean is the code's: on Kubernetes a pod has one root qdisc, which disconnect and
  delay replace and connect and clear_delay delete, and a kill replaces the pod, so each of
  these ends what another did; a container's network is apart from its qdisc, which it
  loses with its interface; and a peer's container that is cut off does not hear that it
  is to exit (`Heard`), although the result of the kill is "done" all the same. So a
  reader who takes a result by its name alone is wrong in three kinds of sequences: a
  delay, or its end, after a disconnect of a pod reconnects it; a connect of a pod ends
  its delay; a kill of a cut-off container does not kill. Excepted are two kinds of services: those
  that failed of themselves (`disturbed`), and those whose pod on its way out took a
  command or the forward meant for its successor (`missed`). A runner without the token that
  the services ask for (`authorised`) is left out too. The proof takes one result
  at a time (`NowAfter`, `KilledAfter`: what it adds to what was so before).
  `PlanKeepsScript` is about the plan: events are sorted by time and priority, so the
  proof says that a cursor over the script never goes back (a running total of waits),
  hence that a stable sort keeps steps of the script in order unless their times agree,
  and that sorting is a bijection of places. `SummaryIsCoherent` is about percentiles,
  which interpolate between two neighbours in sorted latencies: they lie between least
  and greatest and grow with the percentage. `RunnerAssumption` takes a specification
  to be a sequence of well-formed scenarios, with actions the runner knows, and latencies
  to be numbers; nothing bounds lengths.

Only model-checked: the liveness properties of `Membership`, `Dht` and `Runner`
(`BeatingPeerIsRegistered`, `HeldIsListed`, `HolderIsFoundAgain`, `RunEnds`), as liveness
under fairness and ENABLED are out of the prover's reach. Each other invariant, action
property and refinement that a passing run checks is a theorem.

## 5. Where documents and code disagree

1. "re-registration on 404 responses" (`Resilience_PRD.md:200`) by a heartbeat sent
   periodically (`Resilience_PRD.md:168`); an invalidation, eviction or fetch
   during the republish loop changes the dictionary the loop iterates over, the
   loop raises, the heartbeat task ends, and the running peer is evicted and stays
   unregistered (`membership_heart`). This one is a bug in the code.
2. "A warmed object can be invalidated and is no longer served from local cache or
   peer cache" (`Resilience_PRD.md:632`); a copy that is cached but not yet
   published when the invalidation runs is not told of it, and its publish lists
   it again (`fetch_invalidation`).
3. "After enough reports peer-a1 quarantines and is excluded from both DHT-driven
   and coordinator-fallback lookups" (`p2p-dht/experiments/workload-k8s.json:36`); the
   DHT's list is used without asking the coordinator, which alone knows of the
   quarantine (`dht_quarantine`).

Two more that no run is spent on. "Reject conflicting checksum/size/version for same
object version" (`POST_REPORT_HARDENING_ROADMAP.md:237`): only the current version is
compared, so a version can be given a second content after another was published
in between; `OneContentPerVersion` states what does hold. "report the malicious
provider" (`p2p-coordinator/peer/client.py:314`): on the coordinator's path an honest
provider whose copy moved to another version between lookup and request is
reported for its checksum too; `HonestIsNotAccused` states that the DHT's path does not
do that, and excepts the fallback.

## 6. Plan

Done: store, tracker, cache, membership, fetch, the DHT's lists, the DHT-primary
pipeline, the runner; proofs of all of them, liveness excepted. What is left, in this order:

1. In `Coordinator`: the visibility filter of a lookup's answer and the handler's two
   clock readings (an answer that lists providers but has no metadata).
2. In `Fetch`: prefix invalidation with its fan-out, graceful shutdown, and several
   descriptions of one version, so that honest publishers can conflict.
3. Proofs of what these add.

## 7. Not modelled

Bootstrap nodes start Kademlia and sleep; the runner's `dht-bootstrap` service, which it
stops and starts like the others, has no forward and no health check, and is not among the `Services`
of `Runner`. `Fetch` and `DhtFetch` let a peer fetch one object once at a time, where the
code has no such rule: two fetches of one object by one peer may overlap, and the proofs'
`FetchingIsMissing` (while a peer fetches it has no copy) is about the model's one. Configuration and schemas hold values that
are the constants here. No decision reads logs and metrics. Authentication is a
stateless decision per request; its result is an input of the endpoints (`Reporters`)
and of the runner (`authorised`). The scripts aggregate and plot result files.
The runner of the coordinator stack is the modelled one, function by function, with
other default timeouts and another compose file. The DHT-primary client's heartbeat and
`report_transfer` are those of `Membership`, its malicious modes and the registration
after a 404 are in `DhtFetch`. Of the runner, the choice of an object by weight and the
bytes per source in the summary are left out; of the cache, the counters behind its
statistics. Deployment manifests are not code.
