----------------------------- MODULE Reputation -----------------------------
(***************************************************************************)
(* The coordinator's reputation tracker (coordinator/reputation.py): pure  *)
(* in-memory logic, called from the synchronous handlers of one event      *)
(* loop, so every call is one atomic step.  The operators are the tracker's*)
(* methods; RepSpec is the tracker under any sequence of the calls the     *)
(* coordinator makes.  Coordinator.tla extends this module and shares its  *)
(* variables.                                                              *)
(*                                                                         *)
(* Abstractions.  Scores are naturals (a score point is split into as many *)
(* units as the halvings in the bound need, so \div is the code's exact    *)
(* float division); the three per-reason counters, which no decision reads,*)
(* are left out; calls with an unknown reason, and every call when the     *)
(* tracker is disabled, change nothing and are not steps.                  *)
(***************************************************************************)
EXTENDS Naturals, Functions

CONSTANTS
    Peers,                \* ids that can be accused or can report
    Objects,              \* object ids
    Exempt,               \* origin_exempt_peer_ids
    NoPeer,               \* the reporter of a request without an identity
    Reporters,            \* identities reports carry: peers, or NoPeer (AUTH_MODE)
    NoTime,               \* None as a quarantined_at
    SuspectThreshold, QuarantineThreshold,
    Cooldown,             \* cooldown_seconds
    DedupeWindow,         \* report_dedupe_window_seconds
    Weight,               \* SIGNAL_WEIGHTS
    RestartAllowed,       \* may the coordinator process restart?
    MaxNow,               \* bound on the clock
    MaxScore              \* bound on a score

Reasons == {"metadata_conflict", "checksum_mismatch", "unavailable"}
States == {"healthy", "suspect", "quarantined"}

ASSUME ThresholdAssumption ==
    /\ SuspectThreshold \in Nat \ {0}
    /\ QuarantineThreshold \in Nat
    /\ SuspectThreshold <= QuarantineThreshold

ASSUME TimingAssumption ==
    /\ Cooldown \in Nat
    /\ DedupeWindow \in Nat
    /\ MaxNow \in Nat
    /\ NoTime \notin Nat

ASSUME SignalAssumption ==
    /\ Weight \in [Reasons -> Nat]
    /\ MaxScore \in Nat
    /\ NoPeer \notin Peers
    /\ Reporters \subseteq Peers \cup {NoPeer}
    /\ RestartAllowed \in BOOLEAN

VARIABLES
    rep,       \* _peers: accused id -> its PeerReputation
    dedupe,    \* _dedupe: <<reporter, accused, object>> -> time last counted
    now        \* the injected clock

repVars == <<rep, dedupe, now>>

Fresh == [state |-> "healthy", score |-> 0, quarantinedAt |-> NoTime]

Empty == [x \in {} |-> x]

\* Function f with k (re)bound to v: Python's f[k] = v.
Bind(f, k, v) == [x \in DOMAIN f \cup {k} |-> IF x = k THEN v ELSE f[x]]

Without(f, S) == Restrict(f, DOMAIN f \ S)

Record(p) == IF p \in DOMAIN rep THEN rep[p] ELSE Fresh

IsQuarantined(p) == Record(p).state = "quarantined"
IsSuspect(p) == Record(p).state = "suspect"

(***************************************************************************)
(* record_incident.  Counted is the negation of its early returns; an      *)
(* uncounted report leaves the tracker as it was.                          *)
(***************************************************************************)
\* Wrong variant: the window one tick too short.
MutRepeatedReport(reporter, accused, object) ==
    /\ <<reporter, accused, object>> \in DOMAIN dedupe
    /\ now - dedupe[<<reporter, accused, object>>] + 1 < DedupeWindow

RepeatedReport(reporter, accused, object) ==
    /\ <<reporter, accused, object>> \in DOMAIN dedupe
    /\ now - dedupe[<<reporter, accused, object>>] < DedupeWindow

\* Wrong variant: the origin is not exempt.
MutCounted(accused, reporter, object) ==
    /\ reporter # accused
    /\ reporter # NoPeer => ~RepeatedReport(reporter, accused, object)

Counted(accused, reporter, object) ==
    /\ accused \notin Exempt
    /\ reporter # accused
    /\ reporter # NoPeer => ~RepeatedReport(reporter, accused, object)

\* Wrong variant: an incident during quarantine leaves the cooldown clock.
MutCharged(r, reason) ==
    LET score == r.score + Weight[reason] IN
    IF r.state = "quarantined"
    THEN [r EXCEPT !.score = score]
    ELSE IF score >= QuarantineThreshold
    THEN [state |-> "quarantined", score |-> score, quarantinedAt |-> now]
    ELSE [state |-> IF score >= SuspectThreshold THEN "suspect" ELSE r.state,
          score |-> score, quarantinedAt |-> r.quarantinedAt]

\* The record after the incident is charged to it.  A quarantined peer stays
\* quarantined and its cooldown starts over, whatever the score.
Charged(r, reason) ==
    LET score == r.score + Weight[reason] IN
    IF r.state = "quarantined" \/ score >= QuarantineThreshold
    THEN [state |-> "quarantined", score |-> score, quarantinedAt |-> now]
    ELSE [state |-> IF score >= SuspectThreshold THEN "suspect" ELSE r.state,
          score |-> score, quarantinedAt |-> r.quarantinedAt]

RecordIncident(accused, reason, reporter, object) ==
    /\ Counted(accused, reporter, object)
    /\ Record(accused).score + Weight[reason] <= MaxScore      \* bound
    /\ rep' = Bind(rep, accused, Charged(Record(accused), reason))
    /\ dedupe' = IF reporter = NoPeer THEN dedupe
                 ELSE Bind(dedupe, <<reporter, accused, object>>, now)
    /\ UNCHANGED now

(***************************************************************************)
(* tick_cooldowns and remove.  Both have one caller, the coordinator's     *)
(* periodic cleanup, which removes the records of the peers it evicts and  *)
(* then ticks, without an await in between.                                *)
(***************************************************************************)
\* Wrong variant: the boundary of the cooldown.
MutCooledDown(r) ==
    /\ r.state = "quarantined"
    /\ r.quarantinedAt # NoTime
    /\ now - r.quarantinedAt > Cooldown

CooledDown(r) ==
    /\ r.state = "quarantined"
    /\ r.quarantinedAt # NoTime
    /\ now - r.quarantinedAt >= Cooldown

\* Wrong variants: no re-evaluation of the halved score; score zeroed.
MutRecoveredHealthy(r) ==
    [state |-> "healthy", score |-> r.score \div 2, quarantinedAt |-> NoTime]

MutRecoveredZeroed(r) == Fresh

Recovered(r) ==
    LET half == r.score \div 2 IN
    [state |-> IF half >= SuspectThreshold THEN "suspect" ELSE "healthy",
     score |-> half,
     quarantinedAt |-> NoTime]

Ticked(records) ==
    [p \in DOMAIN records |->
        IF CooledDown(records[p]) THEN Recovered(records[p]) ELSE records[p]]

\* Wrong variant: the records of evicted peers are kept.
MutEvictAndTick(evicted) ==
    /\ rep' = Ticked(rep)
    /\ UNCHANGED <<dedupe, now>>

\* remove() of every evicted id, then tick_cooldowns().  The dedupe entries of
\* an evicted peer are kept.
EvictAndTick(evicted) ==
    /\ rep' = Ticked(Without(rep, evicted))
    /\ UNCHANGED <<dedupe, now>>

\* The process restarts: module globals are built anew.
Reset ==
    /\ RestartAllowed
    /\ rep' = Empty
    /\ dedupe' = Empty
    /\ UNCHANGED now

Advance ==
    /\ now < MaxNow                                            \* bound
    /\ now' = now + 1
    /\ UNCHANGED <<rep, dedupe>>

RepInit ==
    /\ rep = Empty
    /\ dedupe = Empty
    /\ now = 0

\* A conflict the coordinator observes itself has no reporter.
RepNext ==
    \/ \E accused \in Peers, reason \in Reasons,
          reporter \in Reporters \cup {NoPeer}, object \in Objects :
            RecordIncident(accused, reason, reporter, object)
    \/ \E evicted \in SUBSET Peers : EvictAndTick(evicted)
    \/ Reset
    \/ Advance

RepSpec == RepInit /\ [][RepNext]_repVars

-----------------------------------------------------------------------------
Times == 0..MaxNow

PeerReputation ==
    [state : States, score : Nat, quarantinedAt : Times \cup {NoTime}]

ReportKeys == (Reporters \ {NoPeer}) \X (Peers \ Exempt) \X Objects

\* Type invariant of the tracker: records only for ids that can be accused,
\* never for the exempt origin, and times never in the future.
RepTypeOK ==
    /\ now \in Times
    /\ DOMAIN rep \subseteq Peers \ Exempt
    /\ \A p \in DOMAIN rep : rep[p] \in PeerReputation
    /\ DOMAIN dedupe \subseteq ReportKeys
    /\ \A k \in DOMAIN dedupe : dedupe[k] \in 0..now

\* The state machine and the score agree: a healthy peer is below the suspect
\* threshold, a suspect one at or above it, a quarantined one at or above the
\* quarantine threshold; and the cooldown clock is set exactly while
\* quarantined, to a time that is not in the future.  Charging, halving and
\* re-evaluation (reputation.py:122-142, 157-167) must all keep it.
StateMatchesScore ==
    \A p \in DOMAIN rep :
        /\ rep[p].state = "healthy" <=> rep[p].score < SuspectThreshold
        /\ rep[p].state = "quarantined" => rep[p].score >= QuarantineThreshold
        /\ rep[p].state = "quarantined" <=> rep[p].quarantinedAt # NoTime
        /\ rep[p].quarantinedAt # NoTime => rep[p].quarantinedAt <= now

\* Quarantine is served: a record leaves quarantine only after Cooldown without
\* a counted incident (an incident meanwhile starts the cooldown over), and the
\* clock never runs backwards (reputation.py:129-132, 144-169).
QuarantineNeedsSilence ==
    [][\A p \in DOMAIN rep \cap DOMAIN rep' :
        rep[p].state = "quarantined" =>
            IF rep'[p].state = "quarantined"
            THEN /\ rep'[p].quarantinedAt >= rep[p].quarantinedAt
                 /\ rep'[p].score # rep[p].score => rep'[p].quarantinedAt = now
            ELSE now - rep[p].quarantinedAt >= Cooldown]_repVars

\* A past offender stays marked: halving leaves a peer that has been quarantined
\* with at least half the quarantine threshold for as long as its record is
\* kept ("halved, not zeroed", reputation.py:11-13, 157-160).
OffenderStaysMarked ==
    [][\A p \in DOMAIN rep \cap DOMAIN rep' :
        rep[p].score >= QuarantineThreshold \div 2
            => rep'[p].score >= QuarantineThreshold \div 2]_repVars

\* The rate limit: the (reporter, accused, object) triples with a counted report
\* are charged one at a time, each at most once per window, never by a peer
\* against itself, and a step that charges one changes no record but the
\* accused's (reputation.py:106-115).
ReportsAreRateLimited ==
    [][\A reporter \in Peers, accused \in Peers, object \in Objects :
        LET key == <<reporter, accused, object>> IN
        (key \in DOMAIN dedupe' /\ (key \notin DOMAIN dedupe \/ dedupe'[key] # dedupe[key]))
            => /\ key \in DOMAIN dedupe => now - dedupe[key] >= DedupeWindow
               /\ reporter # accused
               /\ \A other \in DOMAIN rep \ {accused} :
                     other \in DOMAIN rep' /\ rep'[other] = rep[other]]_repVars
=============================================================================
