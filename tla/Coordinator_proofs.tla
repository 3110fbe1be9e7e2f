------------------------- MODULE Coordinator_proofs -------------------------
(***************************************************************************)
(* Theorems about the coordinator and the reputation tracker in it, for    *)
(* every set of peers, objects and metadata, every timeout, threshold,     *)
(* weight and window.                                                      *)
(***************************************************************************)
EXTENDS CoordinatorHistory, Sorting_proofs

(***************************************************************************)
(* The tracker by itself.                                                  *)
(***************************************************************************)
\* Dropping keys: the new domain, and what stays is unchanged.
LEMMA WithoutFacts ==
    ASSUME NEW f, NEW S
    PROVE  /\ DOMAIN Without(f, S) = DOMAIN f \ S
           /\ \A x \in DOMAIN f \ S : Without(f, S)[x] = f[x]
BY DEF Without, Restrict

\* A record that agrees with its score at a given time: the body of
\* StateMatchesScore, of one record.
Agrees(r, t) ==
    /\ r.state = "healthy" <=> r.score < SuspectThreshold
    /\ r.state = "quarantined" => r.score >= QuarantineThreshold
    /\ r.state = "quarantined" <=> r.quarantinedAt # NoTime
    /\ r.quarantinedAt # NoTime => r.quarantinedAt <= t

WellFormed(r, t) == r \in PeerReputation /\ Agrees(r, t)

\* The record of a peer nobody has accused is well formed.
LEMMA FreshIsWellFormed == ASSUME NEW t PROVE WellFormed(Fresh, t)
BY ThresholdAssumption, TimingAssumption
   DEF WellFormed, Agrees, Fresh, PeerReputation, States, Times

\* Charging an incident keeps a record well formed.
LEMMA ChargedIsWellFormed ==
    ASSUME NEW r, WellFormed(r, now), NEW reason \in Reasons, now \in Times
    PROVE  WellFormed(Charged(r, reason), now)
<1> DEFINE score == r.score + Weight[reason]
<1>1. /\ r.score \in Nat
      /\ r.state \in States
      /\ r.quarantinedAt \in Times \cup {NoTime}
      /\ score \in Nat
      /\ score >= r.score
  BY SignalAssumption DEF WellFormed, PeerReputation
<1>2. now \in Nat /\ now # NoTime
  BY TimingAssumption DEF Times
<1>3. CASE r.state = "quarantined" \/ score >= QuarantineThreshold
  <2>1. Charged(r, reason) =
           [state |-> "quarantined", score |-> score, quarantinedAt |-> now]
    BY <1>3 DEF Charged
  <2>2. score >= QuarantineThreshold /\ ~(score < SuspectThreshold)
    BY <1>1, <1>3, ThresholdAssumption DEF WellFormed, Agrees
  <2> QED
    BY <1>1, <1>2, <2>1, <2>2 DEF WellFormed, Agrees, PeerReputation, States
<1>4. CASE ~(r.state = "quarantined" \/ score >= QuarantineThreshold)
  <2>1. Charged(r, reason) =
           [state |-> IF score >= SuspectThreshold THEN "suspect" ELSE r.state,
            score |-> score, quarantinedAt |-> r.quarantinedAt]
    BY <1>4 DEF Charged
  <2>2. r.quarantinedAt = NoTime
    BY <1>4 DEF WellFormed, Agrees
  <2>3. score < SuspectThreshold => r.state = "healthy"
    BY <1>1, ThresholdAssumption DEF WellFormed, Agrees
  <2> QED
    BY <1>1, <1>4, <2>1, <2>2, <2>3, ThresholdAssumption
       DEF WellFormed, Agrees, PeerReputation, States
<1> QED
  BY <1>3, <1>4

\* Halving and re-evaluating the score keeps a record well formed.
LEMMA RecoveredIsWellFormed ==
    ASSUME NEW r, r.score \in Nat, NEW t
    PROVE  WellFormed(Recovered(r), t)
<1> DEFINE half == r.score \div 2
<1>1. half \in Nat
  OBVIOUS
<1>2. Recovered(r) = [state |-> IF half >= SuspectThreshold THEN "suspect" ELSE "healthy",
                      score |-> half, quarantinedAt |-> NoTime]
  BY DEF Recovered
<1> HIDE DEF half
<1> QED
  BY <1>1, <1>2, ThresholdAssumption
     DEF WellFormed, Agrees, PeerReputation, States

-----------------------------------------------------------------------------
(***************************************************************************)
(* The inductive invariant: type correctness together with the agreement of*)
(* state and score.  Neither is inductive alone: a recovery needs a natural*)
(* score, and the type of a record after a charge needs its agreement.     *)
(***************************************************************************)
RepInv == RepTypeOK /\ StateMatchesScore

\* The invariant, read record by record.
LEMMA RepInvByRecord ==
    RepInv <=> /\ now \in Times
               /\ DOMAIN rep \subseteq Peers \ Exempt
               /\ \A p \in DOMAIN rep : WellFormed(rep[p], now)
               /\ DOMAIN dedupe \subseteq ReportKeys
               /\ \A k \in DOMAIN dedupe : dedupe[k] \in 0..now
BY DEF RepInv, RepTypeOK, StateMatchesScore, WellFormed, Agrees

\* The record a charge starts from (reputation.py:117-119) is well formed.
LEMMA RecordIsWellFormed ==
    ASSUME RepInv, NEW p
    PROVE  WellFormed(Record(p), now)
BY RepInvByRecord, FreshIsWellFormed DEF Record

\* A new tracker (reputation.py:73-82) satisfies the invariant.
LEMMA RepInitInv == RepInit => RepInv
<1> SUFFICES ASSUME RepInit PROVE RepInv
  OBVIOUS
<1>1. now \in Times /\ DOMAIN rep = {} /\ DOMAIN dedupe = {}
  BY TimingAssumption DEF RepInit, Empty, Times
<1> QED
  BY <1>1, RepInvByRecord

\* A counted incident keeps the invariant.
LEMMA RecordIncidentInv ==
    ASSUME RepInv,
           NEW accused \in Peers, NEW reason \in Reasons,
           NEW reporter \in Reporters \cup {NoPeer}, NEW object \in Objects,
           RecordIncident(accused, reason, reporter, object)
    PROVE  RepInv'
<1> DEFINE charged == Charged(Record(accused), reason)
           key == <<reporter, accused, object>>
<1>1. now' = now /\ now \in Times
  BY RepInvByRecord DEF RecordIncident
<1>2. WellFormed(charged, now)
  BY <1>1, RecordIsWellFormed, ChargedIsWellFormed
<1>3. rep' = Bind(rep, accused, charged)
  BY DEF RecordIncident
<1>4. DOMAIN rep' = DOMAIN rep \cup {accused}
  BY <1>3 DEF Bind
<1>5. DOMAIN rep' \subseteq Peers \ Exempt
  BY <1>4, RepInvByRecord DEF RecordIncident, Counted
<1>6. ASSUME NEW p \in DOMAIN rep' PROVE WellFormed(rep'[p], now)
  <2> HIDE DEF charged
  <2>1. CASE p = accused
    BY <1>2, <1>3, <2>1 DEF Bind
  <2>2. CASE p # accused
    <3>1. p \in DOMAIN rep /\ rep'[p] = rep[p]
      BY <1>3, <1>4, <2>2 DEF Bind
    <3> QED
      BY <3>1, RepInvByRecord
  <2> QED
    BY <2>1, <2>2
<1>7. /\ DOMAIN dedupe' \subseteq ReportKeys
      /\ \A k \in DOMAIN dedupe' : dedupe'[k] \in 0..now
  <2>1. CASE reporter = NoPeer
    BY <2>1, RepInvByRecord DEF RecordIncident
  <2>2. CASE reporter # NoPeer
    <3>1. dedupe' = Bind(dedupe, key, now) /\ key \in ReportKeys
      BY <2>2 DEF RecordIncident, Counted, ReportKeys
    <3>2. now \in 0..now
      BY <1>1, TimingAssumption DEF Times
    <3> HIDE DEF key
    <3>3. DOMAIN dedupe' = DOMAIN dedupe \cup {key}
      BY <3>1 DEF Bind
    <3>4. \A k \in DOMAIN dedupe' :
             \/ dedupe'[k] = now
             \/ k \in DOMAIN dedupe /\ dedupe'[k] = dedupe[k]
      BY <3>1, <3>3 DEF Bind
    <3> QED
      BY <3>1, <3>2, <3>3, <3>4, RepInvByRecord
  <2> QED
    BY <2>1, <2>2
<1> QED
  BY <1>1, <1>5, <1>6, <1>7
     DEF RepInv, RepTypeOK, StateMatchesScore, WellFormed, Agrees

\* Evicting any set of peers and ticking the rest keeps the invariant.
LEMMA TickedFacts ==
    ASSUME RepInv, NEW evicted
    PROVE  /\ DOMAIN Ticked(Without(rep, evicted)) = DOMAIN rep \ evicted
           /\ \A p \in DOMAIN rep \ evicted :
                 /\ Ticked(Without(rep, evicted))[p] =
                       IF CooledDown(rep[p]) THEN Recovered(rep[p]) ELSE rep[p]
                 /\ WellFormed(Ticked(Without(rep, evicted))[p], now)
<1> DEFINE ticked == Ticked(Without(rep, evicted))
<1>1. DOMAIN ticked = DOMAIN rep \ evicted
  BY WithoutFacts DEF Ticked
<1>2. \A p \in DOMAIN ticked :
         ticked[p] = IF CooledDown(rep[p]) THEN Recovered(rep[p]) ELSE rep[p]
  <2> DEFINE kept == Without(rep, evicted)
  <2>1. \A p \in DOMAIN rep \ evicted : kept[p] = rep[p]
    BY WithoutFacts
  <2>2. \A p \in DOMAIN ticked :
           ticked[p] = IF CooledDown(kept[p]) THEN Recovered(kept[p]) ELSE kept[p]
    BY DEF Ticked
  <2> QED
    BY <1>1, <2>1, <2>2
<1>3. ASSUME NEW p \in DOMAIN ticked PROVE WellFormed(ticked[p], now)
  <2>1. WellFormed(rep[p], now) /\ rep[p].score \in Nat
    BY <1>1, RepInvByRecord DEF WellFormed, PeerReputation
  <2>2. WellFormed(Recovered(rep[p]), now)
    BY <2>1, RecoveredIsWellFormed
  <2> QED
    BY <1>2, <2>1, <2>2
<1> QED
  BY <1>1, <1>2, <1>3

\* Eviction and tick (reputation.py:144-169, 187-190) keep the invariant.
LEMMA EvictAndTickInv ==
    ASSUME RepInv, NEW evicted, EvictAndTick(evicted)
    PROVE  RepInv'
<1>1. /\ rep' = Ticked(Without(rep, evicted))
      /\ dedupe' = dedupe
      /\ now' = now
  BY DEF EvictAndTick
<1>2. /\ DOMAIN rep' \subseteq Peers \ Exempt
      /\ \A p \in DOMAIN rep' : WellFormed(rep'[p], now)
  BY <1>1, TickedFacts, RepInvByRecord
<1> QED
  BY <1>1, <1>2 DEF RepInv, RepTypeOK, StateMatchesScore, WellFormed, Agrees

\* A restart keeps the tracker's invariant.
LEMMA ResetInv == RepInv /\ Reset => RepInv'
BY DEF Reset, Empty, RepInv, RepTypeOK, StateMatchesScore

\* The clock only makes the recorded times older.
LEMMA AdvanceInv == RepInv /\ Advance => RepInv'
<1> SUFFICES ASSUME RepInv, Advance PROVE RepInv'
  OBVIOUS
<1>1. now \in Nat /\ now' \in Times /\ now <= now' /\ now' \in Nat
  BY TimingAssumption DEF RepInv, RepTypeOK, Advance, Times
<1>2. UNCHANGED <<rep, dedupe>>
  BY DEF Advance
<1>3. ASSUME NEW p \in DOMAIN rep PROVE WellFormed(rep[p], now')
  <2>1. WellFormed(rep[p], now)
    BY RepInvByRecord
  <2>2. rep[p].quarantinedAt # NoTime =>
           rep[p].quarantinedAt \in Nat /\ rep[p].quarantinedAt <= now'
    BY <1>1, <2>1 DEF WellFormed, Agrees, PeerReputation, Times
  <2> QED
    BY <2>1, <2>2 DEF WellFormed, Agrees
<1>4. \A k \in DOMAIN dedupe : dedupe[k] \in 0..now'
  BY <1>1 DEF RepInv, RepTypeOK
<1> QED
  BY <1>1, <1>2, <1>3, <1>4
     DEF RepInv, RepTypeOK, StateMatchesScore, WellFormed, Agrees

\* Every step of the tracker keeps its invariant.
LEMMA RepNextInv == RepInv /\ [RepNext]_repVars => RepInv'
<1> SUFFICES ASSUME RepInv, [RepNext]_repVars PROVE RepInv'
  OBVIOUS
<1>1. CASE \E accused \in Peers, reason \in Reasons,
              reporter \in Reporters \cup {NoPeer}, object \in Objects :
                RecordIncident(accused, reason, reporter, object)
  BY <1>1, RecordIncidentInv
<1>2. CASE \E evicted \in SUBSET Peers : EvictAndTick(evicted)
  BY <1>2, EvictAndTickInv
<1>3. CASE Reset
  BY <1>3, ResetInv
<1>4. CASE Advance
  BY <1>4, AdvanceInv
<1>5. CASE UNCHANGED repVars
  BY <1>5 DEF repVars, RepInv, RepTypeOK, StateMatchesScore
<1> QED
  BY <1>1, <1>2, <1>3, <1>4, <1>5 DEF RepNext

\* The tracker is always in the invariant.
THEOREM RepInvariant == RepSpec => []RepInv
BY RepInitInv, RepNextInv, PTL DEF RepSpec

\* Type correctness of the tracker, in particular that the exempt origin never
\* gets a record (reputation.py:104-105).
THEOREM RepTypeCorrect == RepSpec => []RepTypeOK
<1>1. RepInv => RepTypeOK
  BY DEF RepInv
<1> QED
  BY <1>1, RepInvariant, PTL

\* The state of a peer and its score always agree (reputation.py:122-142,
\* 157-167).
THEOREM ScoreCorrect == RepSpec => []StateMatchesScore
<1>1. RepInv => StateMatchesScore
  BY DEF RepInv
<1> QED
  BY <1>1, RepInvariant, PTL

-----------------------------------------------------------------------------
(***************************************************************************)
(* Action properties.  Each is proved of one step from the invariant.      *)
(***************************************************************************)
\* What one step does to a record that survives it: nothing, a charge at the
\* present time, or a recovery that was due.
LEMMA StepOnRecord ==
    ASSUME RepInv, [RepNext]_repVars,
           NEW p \in DOMAIN rep, p \in DOMAIN rep'
    PROVE  \/ rep'[p] = rep[p]
           \/ \E reason \in Reasons : rep'[p] = Charged(rep[p], reason)
           \/ CooledDown(rep[p]) /\ rep'[p] = Recovered(rep[p])
<1>1. ASSUME NEW accused \in Peers, NEW reason \in Reasons,
             NEW reporter \in Reporters \cup {NoPeer}, NEW object \in Objects,
             RecordIncident(accused, reason, reporter, object)
      PROVE  rep'[p] = rep[p] \/ rep'[p] = Charged(rep[p], reason)
  BY <1>1 DEF RecordIncident, Bind, Record
<1>2. ASSUME NEW evicted \in SUBSET Peers, EvictAndTick(evicted)
      PROVE  rep'[p] = rep[p] \/ (CooledDown(rep[p]) /\ rep'[p] = Recovered(rep[p]))
  <2>1. p \in DOMAIN rep \ evicted
    BY <1>2, TickedFacts DEF EvictAndTick
  <2> QED
    BY <1>2, <2>1, TickedFacts DEF EvictAndTick
<1>3. ~Reset
  BY DEF Reset, Empty
<1>4. Advance \/ UNCHANGED repVars => rep' = rep
  BY DEF Advance, repVars
<1> QED
  BY <1>1, <1>2, <1>3, <1>4 DEF RepNext

\* A quarantine ends only after Cooldown without an incident, and an incident in
\* between starts it over (reputation.py:129-132, 144-169).
THEOREM QuarantineServed == RepSpec => QuarantineNeedsSilence
<1>1. ASSUME RepInv, [RepNext]_repVars
      PROVE  \A p \in DOMAIN rep \cap DOMAIN rep' :
                rep[p].state = "quarantined" =>
                    IF rep'[p].state = "quarantined"
                    THEN /\ rep'[p].quarantinedAt >= rep[p].quarantinedAt
                         /\ rep'[p].score # rep[p].score => rep'[p].quarantinedAt = now
                    ELSE now - rep[p].quarantinedAt >= Cooldown
  <2> SUFFICES ASSUME NEW p \in DOMAIN rep, p \in DOMAIN rep',
                      rep[p].state = "quarantined"
               PROVE  IF rep'[p].state = "quarantined"
                      THEN /\ rep'[p].quarantinedAt >= rep[p].quarantinedAt
                           /\ rep'[p].score # rep[p].score => rep'[p].quarantinedAt = now
                      ELSE now - rep[p].quarantinedAt >= Cooldown
    OBVIOUS
  <2>1. WellFormed(rep[p], now) /\ now \in Times
    BY <1>1, RepInvByRecord
  <2>2. /\ rep[p].quarantinedAt \in Nat
        /\ rep[p].quarantinedAt <= now
        /\ now \in Nat
    BY <2>1, TimingAssumption DEF WellFormed, Agrees, PeerReputation, Times
  <2>3. CASE rep'[p] = rep[p]
    BY <2>2, <2>3
  <2>4. ASSUME NEW reason \in Reasons, rep'[p] = Charged(rep[p], reason)
        PROVE  rep'[p].state = "quarantined" /\ rep'[p].quarantinedAt = now
    BY <2>4 DEF Charged
  <2>5. CASE CooledDown(rep[p]) /\ rep'[p] = Recovered(rep[p])
    <3>1. rep'[p].state # "quarantined"
      BY <2>5 DEF Recovered
    <3> QED
      BY <2>5, <3>1 DEF CooledDown
  <2> QED
    BY <1>1, <2>2, <2>3, <2>4, <2>5, StepOnRecord
<1>2. RepSpec => [][RepInv /\ [RepNext]_repVars]_repVars
  BY RepInvariant, PTL DEF RepSpec
<1> QED
  BY <1>1, <1>2, PTL DEF QuarantineNeedsSilence

\* Halving never takes a past offender below half the quarantine threshold
\* (reputation.py:157-160).
THEOREM OffenderMarked == RepSpec => OffenderStaysMarked
<1>1. ASSUME RepInv, [RepNext]_repVars
      PROVE  \A p \in DOMAIN rep \cap DOMAIN rep' :
                rep[p].score >= QuarantineThreshold \div 2
                    => rep'[p].score >= QuarantineThreshold \div 2
  <2> SUFFICES ASSUME NEW p \in DOMAIN rep, p \in DOMAIN rep',
                      rep[p].score >= QuarantineThreshold \div 2
               PROVE  rep'[p].score >= QuarantineThreshold \div 2
    OBVIOUS
  <2>1. WellFormed(rep[p], now) /\ rep[p].score \in Nat
    BY <1>1, RepInvByRecord DEF WellFormed, PeerReputation
  <2>2. CASE rep'[p] = rep[p]
    BY <2>2
  <2>3. ASSUME NEW reason \in Reasons, rep'[p] = Charged(rep[p], reason)
        PROVE  rep'[p].score >= QuarantineThreshold \div 2
    <3>1. rep'[p].score = rep[p].score + Weight[reason]
      BY <2>3 DEF Charged
    <3>2. Weight[reason] \in Nat
      BY SignalAssumption
    <3> QED
      BY <2>1, <3>1, <3>2, ThresholdAssumption
  <2>4. CASE CooledDown(rep[p]) /\ rep'[p] = Recovered(rep[p])
    <3>1. rep'[p].score = rep[p].score \div 2
      BY <2>4 DEF Recovered
    <3>2. rep[p].score >= QuarantineThreshold
      BY <2>1, <2>4 DEF CooledDown, WellFormed, Agrees
    <3> QED
      BY <2>1, <3>1, <3>2, ThresholdAssumption
  <2> QED
    BY <1>1, <2>2, <2>3, <2>4, StepOnRecord
<1>2. RepSpec => [][RepInv /\ [RepNext]_repVars]_repVars
  BY RepInvariant, PTL DEF RepSpec
<1> QED
  BY <1>1, <1>2, PTL DEF OffenderStaysMarked

\* The rate limit on reports (reputation.py:106-115).
THEOREM RateLimited == RepSpec => ReportsAreRateLimited
<1> DEFINE Recharged(key) == /\ key \in DOMAIN dedupe'
                             /\ key \notin DOMAIN dedupe \/ dedupe'[key] # dedupe[key]
<1>1. ASSUME RepInv, [RepNext]_repVars,
             NEW reporter \in Peers, NEW accused \in Peers, NEW object \in Objects,
             Recharged(<<reporter, accused, object>>)
      PROVE  /\ <<reporter, accused, object>> \in DOMAIN dedupe
                   => now - dedupe[<<reporter, accused, object>>] >= DedupeWindow
             /\ reporter # accused
             /\ \A other \in DOMAIN rep \ {accused} :
                   other \in DOMAIN rep' /\ rep'[other] = rep[other]
  <2>1. ASSUME NEW a \in Peers, NEW reason \in Reasons,
               NEW r \in Reporters \cup {NoPeer}, NEW o \in Objects,
               RecordIncident(a, reason, r, o)
        PROVE  /\ a = accused /\ r = reporter /\ o = object
               /\ Counted(accused, reporter, object)
               /\ rep' = Bind(rep, accused, Charged(Record(accused), reason))
    <3>1. r # NoPeer /\ dedupe' = Bind(dedupe, <<r, a, o>>, now)
      BY <1>1, <2>1 DEF RecordIncident
    <3>2. <<reporter, accused, object>> = <<r, a, o>>
      BY <1>1, <3>1 DEF Bind
    <3> QED
      BY <2>1, <3>2 DEF RecordIncident
  <2>2. \A evicted \in SUBSET Peers : ~EvictAndTick(evicted)
    BY <1>1 DEF EvictAndTick
  <2>3. ~Reset
    BY <1>1 DEF Reset, Empty
  <2>4. ~Advance /\ ~UNCHANGED repVars
    BY <1>1 DEF Advance, repVars
  <2>5. PICK reason \in Reasons :
           /\ Counted(accused, reporter, object)
           /\ rep' = Bind(rep, accused, Charged(Record(accused), reason))
    BY <1>1, <2>1, <2>2, <2>3, <2>4 DEF RepNext
  <2>6. reporter # NoPeer
    BY SignalAssumption
  <2>7. reporter # accused /\ ~RepeatedReport(reporter, accused, object)
    BY <2>5, <2>6 DEF Counted
  <2>8. \A other \in DOMAIN rep \ {accused} :
           other \in DOMAIN rep' /\ rep'[other] = rep[other]
    BY <2>5 DEF Bind
  <2>9. <<reporter, accused, object>> \in DOMAIN dedupe
           => now - dedupe[<<reporter, accused, object>>] >= DedupeWindow
    <3> DEFINE key == <<reporter, accused, object>>
    <3>1. SUFFICES ASSUME key \in DOMAIN dedupe
                   PROVE  now - dedupe[key] >= DedupeWindow
      OBVIOUS
    <3>2. now \in Nat /\ dedupe[key] \in Nat
      BY <1>1, <3>1, TimingAssumption DEF RepInv, RepTypeOK, Times
    <3>3. ~(now - dedupe[key] < DedupeWindow)
      BY <2>7, <3>1 DEF RepeatedReport
    <3> QED
      BY <3>2, <3>3, TimingAssumption
  <2> QED
    BY <2>7, <2>8, <2>9
<1>2. RepSpec => [][RepInv /\ [RepNext]_repVars]_repVars
  BY RepInvariant, PTL DEF RepSpec
<1>3. ASSUME RepInv, [RepNext]_repVars
      PROVE  \A reporter \in Peers, accused \in Peers, object \in Objects :
                LET key == <<reporter, accused, object>> IN
                (key \in DOMAIN dedupe' /\ (key \notin DOMAIN dedupe \/ dedupe'[key] # dedupe[key]))
                    => /\ key \in DOMAIN dedupe => now - dedupe[key] >= DedupeWindow
                       /\ reporter # accused
                       /\ \A other \in DOMAIN rep \ {accused} :
                             other \in DOMAIN rep' /\ rep'[other] = rep[other]
  BY <1>1, <1>3
<1> QED
  BY <1>2, <1>3, PTL DEF ReportsAreRateLimited

-----------------------------------------------------------------------------

(***************************************************************************)
(* The store's inductive invariant: its types and the consistency of its   *)
(* dictionaries.  Consistency needs the types for the keys of versions; the*)
(* types need consistency because an entry is read before it is written.   *)
(***************************************************************************)
StoreInv == now \in Nat /\ StoreTypeOK /\ StoreIsConsistent

\* A new store (store.py:28-49) is consistent.
LEMMA StoreInitInv == Init => StoreInv
<1> SUFFICES ASSUME Init PROVE StoreInv
  OBVIOUS
<1>1. /\ DOMAIN lastSeen = {} /\ DOMAIN loads = {} /\ DOMAIN index = {}
      /\ DOMAIN metadata = {} /\ DOMAIN versions = {}
      /\ now = 0 /\ cleanupDue = CleanupInterval
  BY DEF Init, RepInit, Empty
<1> QED
  BY <1>1, CoordinatorTimingAssumption
     DEF StoreInv, StoreTypeOK, StoreIsConsistent, Registered

\* A registration (store.py:51-66) keeps the store's invariant.
LEMMA RegisterInv ==
    ASSUME StoreInv, NEW p \in Peers, Register(p)
    PROVE  StoreInv'
<1>1. /\ lastSeen' = Bind(lastSeen, p, now)
      /\ loads' = Bind(loads, p, NoLoad)
      /\ UNCHANGED <<index, metadata, versions, now, cleanupDue>>
  BY DEF Register
<1>2. NoLoad \in PeerLoad
  BY SelectionAssumption DEF NoLoad, PeerLoad
<1>3. /\ Registered' = Registered \cup {p}
      /\ DOMAIN loads' = DOMAIN loads \cup {p}
      /\ \A q \in Registered' : lastSeen'[q] = IF q = p THEN now ELSE lastSeen[q]
      /\ \A q \in DOMAIN loads' : loads'[q] = IF q = p THEN NoLoad ELSE loads[q]
  BY <1>1 DEF Bind, Registered
<1>4. now \in 0..now
  BY DEF StoreInv
<1>5. StoreTypeOK'
  BY <1>1, <1>2, <1>3, <1>4 DEF StoreInv, StoreTypeOK
<1>6. StoreIsConsistent'
  BY <1>1, <1>3 DEF StoreInv, StoreIsConsistent
<1> QED
  BY <1>1, <1>5, <1>6 DEF StoreInv

\* A heartbeat (store.py:68-71) keeps the store's invariant.
LEMMA HeartbeatInv ==
    ASSUME StoreInv, NEW p \in Peers, Heartbeat(p)
    PROVE  StoreInv'
<1>1. /\ p \in Registered
      /\ lastSeen' = Bind(lastSeen, p, now)
      /\ UNCHANGED <<loads, index, metadata, versions, now, cleanupDue>>
  BY DEF Heartbeat
<1>2. /\ Registered' = Registered
      /\ \A q \in Registered' : lastSeen'[q] = IF q = p THEN now ELSE lastSeen[q]
  BY <1>1 DEF Bind, Registered
<1>3. now \in 0..now
  BY DEF StoreInv
<1>4. StoreTypeOK'
  BY <1>1, <1>2, <1>3 DEF StoreInv, StoreTypeOK
<1>5. StoreIsConsistent'
  BY <1>1, <1>2 DEF StoreInv, StoreIsConsistent
<1> QED
  BY <1>1, <1>4, <1>5 DEF StoreInv

\* What a publish leaves in the three dictionaries of the object index.
Published(p, m, o) ==
    /\ o \in Objects /\ p \in Registered
    /\ DOMAIN index' = DOMAIN index \cup {o}
    /\ DOMAIN metadata' = DOMAIN index \cup {o}
    /\ DOMAIN versions' = DOMAIN index \cup {o}
    /\ \A x \in DOMAIN index : x # o =>
          /\ index'[x] = index[x]
          /\ metadata'[x] = metadata[x]
          /\ versions'[x] = versions[x]
    /\ metadata'[o] = m
    /\ index'[o] = (IF o \in DOMAIN index THEN index[o] ELSE {}) \cup {p}
    /\ DOMAIN versions'[o] = index'[o]
    /\ versions'[o][p] = m.version
    /\ o \in DOMAIN index =>
          \A q \in index[o] : q # p => versions'[o][q] = versions[o][q]

\* An accepted publish (store.py:98-105) leaves what Published says.
LEMMA PublishFacts ==
    ASSUME StoreInv, NEW p \in Peers, NEW m \in Catalogue, Publish(p, m)
    PROVE  Published(p, m, m.object)
<1> DEFINE o == m.object
<1>1. o \in Objects /\ p \in Registered
  BY CatalogueAssumption DEF Publish, MayPublish
<1>2. /\ DOMAIN metadata = DOMAIN index
      /\ DOMAIN versions = DOMAIN index
      /\ o \in DOMAIN index => DOMAIN versions[o] = index[o]
  BY DEF StoreInv, StoreIsConsistent
<1>3. /\ DOMAIN index' = DOMAIN index \cup {o}
      /\ \A x \in DOMAIN index : x # o => index'[x] = index[x]
      /\ index'[o] = (IF o \in DOMAIN index THEN index[o] ELSE {}) \cup {p}
  BY DEF Publish, Bind
<1>4. /\ DOMAIN metadata' = DOMAIN index \cup {o}
      /\ \A x \in DOMAIN index : x # o => metadata'[x] = metadata[x]
      /\ metadata'[o] = m
  BY <1>2 DEF Publish, Bind
<1>5. /\ DOMAIN versions' = DOMAIN index \cup {o}
      /\ \A x \in DOMAIN index : x # o => versions'[x] = versions[x]
      /\ versions'[o] = Bind(IF o \in DOMAIN index THEN versions[o] ELSE Empty, p, m.version)
  BY <1>2 DEF Publish, Bind
<1>6. CASE o \in DOMAIN index
  <2>1. versions'[o] = Bind(versions[o], p, m.version)
    BY <1>5, <1>6
  <2>2. DOMAIN versions'[o] = index[o] \cup {p}
    BY <1>2, <1>6, <2>1 DEF Bind
  <2>3. versions'[o][p] = m.version
    BY <2>1 DEF Bind
  <2>4. \A q \in index[o] : q # p => versions'[o][q] = versions[o][q]
    BY <1>2, <1>6, <2>1 DEF Bind
  <2> QED
    BY <1>1, <1>3, <1>4, <1>5, <1>6, <2>2, <2>3, <2>4 DEF Published
<1>7. CASE o \notin DOMAIN index
  <2>1. versions'[o] = Bind(Empty, p, m.version)
    BY <1>5, <1>7
  <2>2. DOMAIN versions'[o] = {p} /\ versions'[o][p] = m.version
    BY <2>1 DEF Bind, Empty
  <2> QED
    BY <1>1, <1>3, <1>4, <1>5, <1>7, <2>2 DEF Published
<1> QED
  BY <1>6, <1>7

\* An accepted publish (store.py:73-105) keeps the store's invariant.
LEMMA PublishInv ==
    ASSUME StoreInv, NEW p \in Peers, NEW m \in Catalogue, Publish(p, m)
    PROVE  StoreInv'
<1> DEFINE o == m.object
<1>0. Published(p, m, o)
  BY PublishFacts
<1>1. UNCHANGED <<lastSeen, loads, now, cleanupDue>> /\ Registered' = Registered
  BY DEF Publish, Registered
<1>2. /\ o \in Objects /\ p \in Registered
      /\ DOMAIN index' = DOMAIN index \cup {o}
      /\ DOMAIN metadata' = DOMAIN index \cup {o}
      /\ DOMAIN versions' = DOMAIN index \cup {o}
      /\ metadata'[o] = m
      /\ index'[o] = (IF o \in DOMAIN index THEN index[o] ELSE {}) \cup {p}
      /\ DOMAIN versions'[o] = index'[o]
  BY <1>0 DEF Published
<1>3. ASSUME NEW x \in DOMAIN index', x # o
      PROVE  /\ x \in DOMAIN index
             /\ index'[x] = index[x]
             /\ metadata'[x] = metadata[x]
             /\ versions'[x] = versions[x]
  BY <1>0, <1>2, <1>3 DEF Published
<1>4. /\ index'[o] \subseteq Registered /\ index'[o] # {}
      /\ Registered \subseteq Peers
  BY <1>2 DEF StoreInv, StoreTypeOK, StoreIsConsistent
<1> HIDE DEF o
<1>5. ASSUME NEW x \in DOMAIN index'
      PROVE  /\ x \in Objects
             /\ index'[x] # {} /\ index'[x] \subseteq Registered
             /\ DOMAIN versions'[x] = index'[x]
             /\ metadata'[x] \in Catalogue /\ metadata'[x].object = x
  <2>1. CASE x = o
    BY <1>2, <1>4, <2>1 DEF o
  <2>2. CASE x # o
    BY <1>3, <2>2 DEF StoreInv, StoreTypeOK, StoreIsConsistent
  <2> QED
    BY <2>1, <2>2
<1>6. StoreTypeOK'
  BY <1>1, <1>2, <1>4, <1>5 DEF StoreInv, StoreTypeOK
<1>7. StoreIsConsistent'
  BY <1>1, <1>2, <1>5 DEF StoreInv, StoreIsConsistent
<1> QED
  BY <1>1, <1>6, <1>7 DEF StoreInv

\* A transfer report (store.py:107-122) keeps the store's invariant.
LEMMA ReportTransferInv ==
    ASSUME StoreInv, NEW p \in Peers, NEW bytes \in Transfers, ReportTransfer(p, bytes)
    PROVE  StoreInv'
<1> DEFINE load == [requests |-> loads[p].requests + 1, bytes |-> loads[p].bytes + bytes]
<1>1. /\ p \in DOMAIN loads
      /\ loads' = Bind(loads, p, load)
      /\ UNCHANGED <<lastSeen, index, metadata, versions, now, cleanupDue>>
      /\ Registered' = Registered
  BY DEF ReportTransfer, StoreInv, StoreIsConsistent, Registered
<1>2. load \in PeerLoad
  <2>1. loads[p] \in PeerLoad /\ loads[p].requests < MaxTransfers
    BY <1>1 DEF StoreInv, StoreTypeOK, ReportTransfer
  <2> QED
    BY <2>1, SelectionAssumption DEF PeerLoad
<1> HIDE DEF load
<1>3. /\ DOMAIN loads' = DOMAIN loads
      /\ \A q \in DOMAIN loads' : loads'[q] = IF q = p THEN load ELSE loads[q]
  BY <1>1 DEF Bind
<1>4. StoreTypeOK'
  BY <1>1, <1>2, <1>3 DEF StoreInv, StoreTypeOK
<1>5. StoreIsConsistent'
  BY <1>1, <1>3 DEF StoreInv, StoreIsConsistent
<1> QED
  BY <1>1, <1>4, <1>5 DEF StoreInv

\* Removing objects from the three dictionaries at once keeps them consistent.
LEMMA RemoveObjectsInv ==
    ASSUME StoreInv, NEW objects, RemoveObjects(objects),
           UNCHANGED <<lastSeen, loads, now, cleanupDue>>
    PROVE  StoreInv'
<1>1. /\ DOMAIN index' = DOMAIN index \ objects
      /\ DOMAIN metadata' = DOMAIN metadata \ objects
      /\ DOMAIN versions' = DOMAIN versions \ objects
      /\ Registered' = Registered
  BY WithoutFacts DEF RemoveObjects, Registered
<1>2. /\ \A o \in DOMAIN index' : index'[o] = index[o]
      /\ \A o \in DOMAIN metadata' : metadata'[o] = metadata[o]
      /\ \A o \in DOMAIN versions' : versions'[o] = versions[o]
  <2>1. /\ index' = Without(index, objects)
        /\ metadata' = Without(metadata, objects)
        /\ versions' = Without(versions, objects)
    BY DEF RemoveObjects
  <2>2. \A o \in DOMAIN index' : index'[o] = index[o]
    BY <2>1 DEF Without, Restrict
  <2>3. \A o \in DOMAIN metadata' : metadata'[o] = metadata[o]
    BY <2>1 DEF Without, Restrict
  <2>4. \A o \in DOMAIN versions' : versions'[o] = versions[o]
    BY <2>1 DEF Without, Restrict
  <2> QED
    BY <2>2, <2>3, <2>4
<1>3. StoreTypeOK'
  BY <1>1, <1>2 DEF StoreInv, StoreTypeOK
<1>4. StoreIsConsistent'
  BY <1>1, <1>2 DEF StoreInv, StoreIsConsistent
<1> QED
  BY <1>3, <1>4 DEF StoreInv

\* What Evict leaves, for any set of dead peers.
LEMMA EvictFacts ==
    ASSUME StoreInv, NEW dead, Evict(dead)
    PROVE  /\ Registered' = Registered \ dead
           /\ \A p \in Registered' : lastSeen'[p] = lastSeen[p]
           /\ DOMAIN loads' = DOMAIN loads \ dead
           /\ \A p \in DOMAIN loads' : loads'[p] = loads[p]
           /\ \A o : o \in DOMAIN index' <=>
                      o \in DOMAIN index /\ ~(index[o] \subseteq dead) /\ ~Expired(metadata[o])
           /\ DOMAIN metadata' = DOMAIN index'
           /\ DOMAIN versions' = DOMAIN index'
           /\ \A o \in DOMAIN index' :
                 /\ index'[o] = index[o] \ dead
                 /\ metadata'[o] = metadata[o]
                 /\ DOMAIN versions'[o] = index[o] \ dead
                 /\ \A p \in index'[o] : versions'[o][p] = versions[o][p]
<1> DEFINE gone == {o \in DOMAIN index : index[o] \subseteq dead}
                     \cup {o \in DOMAIN metadata : Expired(metadata[o])}
<1>1. /\ lastSeen' = Without(lastSeen, dead)
      /\ loads' = Without(loads, dead)
      /\ index' = [o \in DOMAIN index \ gone |-> index[o] \ dead]
      /\ versions' = [o \in DOMAIN versions \ gone |-> Without(versions[o], dead)]
      /\ metadata' = Without(metadata, gone)
  BY DEF Evict
<1>2. /\ DOMAIN metadata = DOMAIN index
      /\ DOMAIN versions = DOMAIN index
      /\ \A o \in DOMAIN index : DOMAIN versions[o] = index[o]
  BY DEF StoreInv, StoreIsConsistent
<1>3. /\ Registered' = Registered \ dead
      /\ \A p \in Registered' : lastSeen'[p] = lastSeen[p]
      /\ DOMAIN loads' = DOMAIN loads \ dead
      /\ \A p \in DOMAIN loads' : loads'[p] = loads[p]
  BY <1>1 DEF Without, Restrict, Registered
<1>4. \A o : o \in DOMAIN index \ gone <=>
               o \in DOMAIN index /\ ~(index[o] \subseteq dead) /\ ~Expired(metadata[o])
  BY <1>2
<1> HIDE DEF gone
<1>5. /\ DOMAIN index' = DOMAIN index \ gone
      /\ DOMAIN metadata' = DOMAIN index \ gone
      /\ DOMAIN versions' = DOMAIN index \ gone
  BY <1>1, <1>2 DEF Without, Restrict
<1>6. ASSUME NEW o \in DOMAIN index'
      PROVE  /\ index'[o] = index[o] \ dead
             /\ metadata'[o] = metadata[o]
             /\ DOMAIN versions'[o] = index[o] \ dead
             /\ \A p \in index'[o] : versions'[o][p] = versions[o][p]
  <2>1. /\ o \in DOMAIN index \ gone
        /\ index'[o] = index[o] \ dead
        /\ versions'[o] = Without(versions[o], dead)
        /\ DOMAIN versions[o] = index[o]
    BY <1>1, <1>2, <1>5
  <2>2. metadata'[o] = metadata[o]
    BY <1>1, <1>2, <2>1 DEF Without, Restrict
  <2>3. DOMAIN versions'[o] = index[o] \ dead
    BY <2>1 DEF Without, Restrict
  <2>4. \A p \in index[o] \ dead : versions'[o][p] = versions[o][p]
    BY <2>1 DEF Without, Restrict
  <2> QED
    BY <2>1, <2>2, <2>3, <2>4
<1> QED
  BY <1>3, <1>4, <1>5, <1>6

\* The periodic cleanup (store.py:255-282) keeps the store's invariant.
LEMMA PeriodicCleanupInv ==
    ASSUME StoreInv, PeriodicCleanup
    PROVE  StoreInv'
<1> PICK dead : dead = Dead
  OBVIOUS
<1>1. /\ Evict(dead)
      /\ UNCHANGED now
      /\ cleanupDue' = now + CleanupInterval
  BY DEF PeriodicCleanup, EvictAndTick
<1>2. cleanupDue' \in Nat
  BY <1>1, CoordinatorTimingAssumption DEF StoreInv
<1>3. /\ Registered' = Registered \ dead
      /\ \A p \in Registered' : lastSeen'[p] = lastSeen[p]
      /\ DOMAIN loads' = DOMAIN loads \ dead
      /\ \A p \in DOMAIN loads' : loads'[p] = loads[p]
      /\ DOMAIN metadata' = DOMAIN index'
      /\ DOMAIN versions' = DOMAIN index'
      /\ \A o \in DOMAIN index' :
            /\ o \in DOMAIN index /\ ~(index[o] \subseteq dead)
            /\ index'[o] = index[o] \ dead
            /\ metadata'[o] = metadata[o]
            /\ DOMAIN versions'[o] = index[o] \ dead
  BY <1>1, EvictFacts
<1>4. StoreTypeOK'
  <2>1. /\ Registered' \subseteq Peers
        /\ \A p \in Registered' : lastSeen'[p] \in 0..now'
    BY <1>1, <1>3 DEF StoreInv, StoreTypeOK
  <2>2. /\ DOMAIN loads' \subseteq Peers
        /\ \A p \in DOMAIN loads' : loads'[p] \in PeerLoad
    BY <1>3 DEF StoreInv, StoreTypeOK
  <2>3. \A o \in DOMAIN index' :
           /\ o \in Objects /\ index'[o] \subseteq Peers
           /\ metadata'[o] \in Catalogue
           /\ DOMAIN versions'[o] \subseteq Peers
    BY <1>3 DEF StoreInv, StoreTypeOK, StoreIsConsistent
  <2> QED
    BY <1>2, <1>3, <2>1, <2>2, <2>3 DEF StoreTypeOK
<1>5. StoreIsConsistent'
  <2>1. DOMAIN loads' = Registered'
    BY <1>3 DEF StoreInv, StoreIsConsistent
  <2>2. \A o \in DOMAIN index' :
           /\ index'[o] # {}
           /\ index'[o] \subseteq Registered'
           /\ DOMAIN versions'[o] = index'[o]
           /\ metadata'[o].object = o
    <3> TAKE o \in DOMAIN index'
    <3>1. /\ index[o] \subseteq Registered
          /\ metadata[o].object = o
          /\ o \in DOMAIN index
      BY <1>3 DEF StoreInv, StoreIsConsistent
    <3>2. index'[o] = index[o] \ dead /\ ~(index[o] \subseteq dead)
      BY <1>3
    <3> QED
      BY <1>3, <3>1, <3>2
  <2> QED
    BY <1>3, <2>1, <2>2 DEF StoreIsConsistent
<1> QED
  BY <1>1, <1>4, <1>5 DEF StoreInv

\* Time passing keeps the store's invariant.
LEMMA PassTimeInv == StoreInv /\ PassTime => StoreInv'
<1> SUFFICES ASSUME StoreInv, PassTime PROVE StoreInv'
  OBVIOUS
<1>1. /\ now \in Nat /\ now' = now + 1
      /\ UNCHANGED <<lastSeen, loads, index, metadata, versions, cleanupDue>>
      /\ Registered' = Registered
  BY DEF PassTime, Advance, StoreInv, storeVars, Registered
<1>2. \A p \in Registered : lastSeen[p] \in 0..now'
  BY <1>1 DEF StoreInv, StoreTypeOK
<1> QED
  BY <1>1, <1>2 DEF StoreInv, StoreTypeOK, StoreIsConsistent

\* A restart (main.py:58-65) keeps the store's invariant.
LEMMA RestartInv == StoreInv /\ Restart => StoreInv'
<1> SUFFICES ASSUME StoreInv, Restart PROVE StoreInv'
  OBVIOUS
<1>1. /\ DOMAIN lastSeen' = {} /\ DOMAIN loads' = {} /\ DOMAIN index' = {}
      /\ DOMAIN metadata' = {} /\ DOMAIN versions' = {}
      /\ now' = now /\ cleanupDue' \in Nat
  BY CoordinatorTimingAssumption DEF Restart, Reset, Empty, StoreInv
<1> QED
  BY <1>1 DEF StoreInv, StoreTypeOK, StoreIsConsistent, Registered

\* A step that leaves the store and the clock keeps its invariant.
LEMMA StoreUnchangedInv ==
    ASSUME StoreInv, UNCHANGED <<storeVars, now, cleanupDue>>
    PROVE  StoreInv'
BY DEF StoreInv, StoreTypeOK, StoreIsConsistent, storeVars, Registered

\* Every step of the coordinator keeps the store's invariant.
LEMMA StoreNextInv == StoreInv /\ [Next]_vars => StoreInv'
<1> SUFFICES ASSUME StoreInv, [Next]_vars PROVE StoreInv'
  OBVIOUS
<1>1. ASSUME NEW p \in Peers, Register(p) PROVE StoreInv'
  BY <1>1, RegisterInv
<1>2. ASSUME NEW p \in Peers, Heartbeat(p) PROVE StoreInv'
  BY <1>2, HeartbeatInv
<1>3. ASSUME NEW p \in Peers, NEW m \in Catalogue, Publish(p, m) PROVE StoreInv'
  BY <1>3, PublishInv
<1>4. ASSUME NEW p \in Peers, NEW m \in Catalogue, PublishConflict(p, m) PROVE StoreInv'
  BY <1>4, StoreUnchangedInv DEF PublishConflict, RecordIncident
<1>5. ASSUME NEW accused \in Peers, NEW reason \in Reasons,
             NEW reporter \in Reporters, NEW object \in Objects,
             ReportBadPeer(accused, reason, reporter, object)
      PROVE  StoreInv'
  BY <1>5, StoreUnchangedInv DEF ReportBadPeer, RecordIncident
<1>6. ASSUME NEW p \in Peers, NEW bytes \in Transfers, ReportTransfer(p, bytes)
      PROVE  StoreInv'
  BY <1>6, ReportTransferInv
<1>7. ASSUME NEW o \in Objects, LookupExpired(o) PROVE StoreInv'
  BY <1>7, RemoveObjectsInv DEF LookupExpired
<1>8. ASSUME NEW o \in Objects, Invalidate(o) PROVE StoreInv'
  BY <1>8, RemoveObjectsInv DEF Invalidate
<1>9. ASSUME NEW objects \in Prefixes, InvalidatePrefix(objects) PROVE StoreInv'
  BY <1>9, RemoveObjectsInv DEF InvalidatePrefix
<1>10. CASE PeriodicCleanup
  BY <1>10, PeriodicCleanupInv
<1>11. CASE PassTime
  BY <1>11, PassTimeInv
<1>12. CASE Restart
  BY <1>12, RestartInv
<1>13. CASE UNCHANGED vars
  BY <1>13, StoreUnchangedInv DEF vars, storeVars
<1> QED
  BY <1>1, <1>2, <1>3, <1>4, <1>5, <1>6, <1>7, <1>8, <1>9, <1>10, <1>11, <1>12, <1>13
     DEF Next, OtherStep

\* The store's invariant holds in every reachable state.
THEOREM StoreInvariant == Spec => []StoreInv
BY StoreInitInv, StoreNextInv, PTL DEF Spec

\* The store's dictionaries never drift apart (store.py:51-66, 98-105, 250-282).
THEOREM StoreConsistent == Spec => []StoreIsConsistent
<1>1. StoreInv => StoreIsConsistent
  BY DEF StoreInv
<1> QED
  BY <1>1, StoreInvariant, PTL

-----------------------------------------------------------------------------
(***************************************************************************)
(* The coordinator drives the tracker as the tracker's specification       *)
(* allows, so every theorem about RepSpec is a theorem about Spec.         *)
(***************************************************************************)
LEMMA StepIsRepStep == StoreInv /\ [Next]_vars => [RepNext]_repVars
<1> SUFFICES ASSUME StoreInv, [Next]_vars PROVE [RepNext]_repVars
  OBVIOUS
<1>1. ASSUME NEW p \in Peers, Register(p) \/ Heartbeat(p)
      PROVE  UNCHANGED repVars
  BY <1>1 DEF Register, Heartbeat, repVars
<1>2. ASSUME NEW p \in Peers, NEW m \in Catalogue, Publish(p, m)
      PROVE  UNCHANGED repVars
  BY <1>2 DEF Publish, repVars
<1>3. ASSUME NEW p \in Peers, NEW m \in Catalogue, PublishConflict(p, m)
      PROVE  RepNext
  <2>1. "metadata_conflict" \in Reasons /\ m.object \in Objects
    BY CatalogueAssumption DEF Reasons
  <2>2. RecordIncident(p, "metadata_conflict", NoPeer, m.object)
    BY <1>3 DEF PublishConflict
  <2> QED
    BY <2>1, <2>2 DEF RepNext
<1>4. ASSUME NEW accused \in Peers, NEW reason \in Reasons,
             NEW reporter \in Reporters, NEW object \in Objects,
             ReportBadPeer(accused, reason, reporter, object)
      PROVE  RepNext
  BY <1>4 DEF ReportBadPeer, RepNext
<1>5. ASSUME NEW p \in Peers, NEW bytes \in Transfers, ReportTransfer(p, bytes)
      PROVE  UNCHANGED repVars
  BY <1>5 DEF ReportTransfer, repVars
<1>6. ASSUME NEW o, LookupExpired(o) \/ Invalidate(o) \/ InvalidatePrefix(o)
      PROVE  UNCHANGED repVars
  BY <1>6 DEF LookupExpired, Invalidate, InvalidatePrefix, repVars
<1>7. CASE PeriodicCleanup
  <2>1. Dead \in SUBSET Peers
    BY DEF Dead, StoreInv, StoreTypeOK
  <2> QED
    BY <1>7, <2>1 DEF PeriodicCleanup, RepNext
<1>8. CASE PassTime
  BY <1>8 DEF PassTime, RepNext
<1>9. CASE Restart
  BY <1>9 DEF Restart, RepNext
<1>10. CASE UNCHANGED vars
  BY <1>10 DEF vars, repVars
<1> QED
  BY <1>1, <1>2, <1>3, <1>4, <1>5, <1>6, <1>7, <1>8, <1>9, <1>10 DEF Next, OtherStep

\* The coordinator drives the tracker only through the tracker's own operations
\* (store.py:86-97, 264-268; main.py:74-81, 336-341).
THEOREM CoordinatorImplementsReputation == Spec => ImplementsReputation
<1>1. Init => RepInit
  BY DEF Init
<1> QED
  BY <1>1, StoreInvariant, StepIsRepStep, PTL DEF Spec, RepSpec, ImplementsReputation

\* So the tracker's invariant holds in the coordinator.
THEOREM RepInvariantHere == Spec => []RepInv
BY CoordinatorImplementsReputation, RepInvariant, PTL DEF ImplementsReputation

\* Type correctness of the coordinator.
THEOREM TypeCorrect == Spec => []TypeOK
<1>1. StoreInv /\ RepInv => TypeOK
  BY DEF StoreInv, RepInv, TypeOK
<1> QED
  BY <1>1, StoreInvariant, RepInvariantHere, PTL

-----------------------------------------------------------------------------
(***************************************************************************)
(* Bounded time.  Both bounds speak of now; neither is inductive, because  *)
(* the clock runs between cleanups.  Measured from the last cleanup, at    *)
(* cleanupDue - CleanupInterval, they are.                                 *)
(***************************************************************************)
Timely ==
    /\ cleanupDue - CleanupInterval <= now
    /\ now <= cleanupDue
    /\ \A p \in Registered :
          cleanupDue - CleanupInterval - PeerTimeout <= lastSeen[p]
    /\ \A p \in DOMAIN rep :
          (rep[p].state = "quarantined" /\ Cooldown > 0)
              => cleanupDue - CleanupInterval - Cooldown < rep[p].quarantinedAt

CoordInv == StoreInv /\ RepInv /\ Timely

\* The numbers the timing argument compares are naturals.
LEMMA CoordInvTypes ==
    ASSUME CoordInv
    PROVE  /\ now \in Nat /\ cleanupDue \in Nat
           /\ CleanupInterval \in Nat /\ PeerTimeout \in Nat /\ Cooldown \in Nat
           /\ \A p \in Registered : lastSeen[p] \in Nat
           /\ \A p \in DOMAIN rep :
                 rep[p].state = "quarantined" => rep[p].quarantinedAt \in Nat
BY CoordinatorTimingAssumption, TimingAssumption, RepInvByRecord
   DEF CoordInv, StoreInv, StoreTypeOK, WellFormed, Agrees, PeerReputation, Times

\* The timing facts hold initially.
LEMMA TimelyInit == Init => Timely
<1> SUFFICES ASSUME Init PROVE Timely
  OBVIOUS
<1>1. /\ now = 0 /\ cleanupDue = CleanupInterval
      /\ DOMAIN lastSeen = {} /\ DOMAIN rep = {}
  BY DEF Init, RepInit, Empty
<1> QED
  BY <1>1, CoordinatorTimingAssumption DEF Timely, Registered

\* A quarantine that starts or is extended now (reputation.py:129-139) is timely.
LEMMA TimelyIncident ==
    ASSUME CoordInv,
           NEW accused \in Peers, NEW reason \in Reasons, NEW reporter, NEW object,
           RecordIncident(accused, reason, reporter, object),
           UNCHANGED <<lastSeen, cleanupDue>>
    PROVE  Timely'
<1>1. /\ now' = now
      /\ rep' = Bind(rep, accused, Charged(Record(accused), reason))
      /\ Registered' = Registered
  BY DEF RecordIncident, Registered
<1>2. Cooldown > 0 => cleanupDue - CleanupInterval - Cooldown < now
  BY CoordInvTypes DEF CoordInv, Timely
<1>3. ASSUME NEW p \in DOMAIN rep', rep'[p].state = "quarantined", Cooldown > 0
      PROVE  cleanupDue - CleanupInterval - Cooldown < rep'[p].quarantinedAt
  <2>1. CASE p = accused
    <3> DEFINE charged == Charged(Record(accused), reason)
    <3>1. rep'[p] = charged
      BY <1>1, <2>1 DEF Bind
    <3>2. WellFormed(Record(accused), now)
      BY RecordIsWellFormed DEF CoordInv
    <3>3. charged.state = "quarantined" => charged.quarantinedAt = now
      BY <3>2, ThresholdAssumption DEF Charged, WellFormed, Agrees
    <3> QED
      BY <1>2, <1>3, <3>1, <3>3
  <2>2. CASE p # accused
    <3>1. p \in DOMAIN rep /\ rep'[p] = rep[p]
      BY <1>1, <2>2 DEF Bind
    <3> QED
      BY <1>3, <3>1 DEF CoordInv, Timely
  <2> QED
    BY <2>1, <2>2
<1> QED
  BY <1>1, <1>3 DEF CoordInv, Timely

\* A cleanup evicts and releases what the next one would find overdue
\* (store.py:255-268; reputation.py:152-167).
LEMMA TimelyCleanup == CoordInv /\ PeriodicCleanup => Timely'
<1> SUFFICES ASSUME CoordInv, PeriodicCleanup PROVE Timely'
  OBVIOUS
<1> PICK dead : dead = Dead
  OBVIOUS
<1>1. /\ Evict(dead) /\ EvictAndTick(dead)
      /\ now = cleanupDue /\ now' = now
      /\ cleanupDue' = now + CleanupInterval
  BY DEF PeriodicCleanup, EvictAndTick
<1>2. cleanupDue' - CleanupInterval = now /\ now <= cleanupDue'
  BY <1>1, CoordInvTypes
<1>3. ASSUME NEW p \in Registered' PROVE now - PeerTimeout <= lastSeen'[p]
  <2>1. p \in Registered \ dead /\ lastSeen'[p] = lastSeen[p]
    BY <1>1, EvictFacts DEF CoordInv
  <2>2. ~(lastSeen[p] < now - PeerTimeout)
    BY <2>1 DEF Dead
  <2> QED
    BY <2>1, <2>2, CoordInvTypes
<1>4. ASSUME NEW p \in DOMAIN rep', rep'[p].state = "quarantined"
      PROVE  now - Cooldown < rep'[p].quarantinedAt
  <2>1. /\ p \in DOMAIN rep \ dead
        /\ rep'[p] = IF CooledDown(rep[p]) THEN Recovered(rep[p]) ELSE rep[p]
    BY <1>1, TickedFacts DEF EvictAndTick, CoordInv
  <2>2. ~CooledDown(rep[p]) /\ rep'[p] = rep[p]
    BY <1>4, <2>1 DEF Recovered
  <2>3. rep[p].quarantinedAt \in Nat /\ rep[p].quarantinedAt # NoTime
    BY <1>4, <2>1, <2>2, CoordInvTypes, TimingAssumption
  <2>4. ~(now - rep[p].quarantinedAt >= Cooldown)
    BY <1>4, <2>2, <2>3 DEF CooledDown
  <2> QED
    BY <2>2, <2>3, <2>4, CoordInvTypes
<1> QED
  BY <1>1, <1>2, <1>3, <1>4, CoordInvTypes DEF Timely

\* A peer heard of now (store.py:62, 71) is timely.
LEMMA TimelySeen ==
    ASSUME CoordInv, NEW p \in Peers, lastSeen' = Bind(lastSeen, p, now),
           UNCHANGED <<rep, now, cleanupDue>>
    PROVE  Timely'
<1>1. \A q \in Registered' :
         lastSeen'[q] = now \/ (q \in Registered /\ lastSeen'[q] = lastSeen[q])
  BY DEF Bind, Registered
<1>2. cleanupDue - CleanupInterval - PeerTimeout <= now
  BY CoordInvTypes DEF CoordInv, Timely
<1> QED
  BY <1>1, <1>2 DEF CoordInv, Timely

\* Every step keeps the timing facts.
LEMMA TimelyNext == CoordInv /\ [Next]_vars => Timely'
<1> SUFFICES ASSUME CoordInv, [Next]_vars PROVE Timely'
  OBVIOUS
<1>1. ASSUME UNCHANGED <<lastSeen, rep, now, cleanupDue>> PROVE Timely'
  BY <1>1 DEF CoordInv, Timely, Registered
<1>2. ASSUME NEW p \in Peers, Register(p) \/ Heartbeat(p) PROVE Timely'
  BY <1>2, TimelySeen DEF Register, Heartbeat
<1>3. ASSUME NEW p \in Peers, NEW m \in Catalogue, Publish(p, m) PROVE Timely'
  BY <1>1, <1>3 DEF Publish
<1>4. ASSUME NEW p \in Peers, NEW m \in Catalogue, PublishConflict(p, m) PROVE Timely'
  BY <1>4, TimelyIncident DEF PublishConflict, storeVars, Reasons
<1>5. ASSUME NEW accused \in Peers, NEW reason \in Reasons,
             NEW reporter \in Reporters, NEW object \in Objects,
             ReportBadPeer(accused, reason, reporter, object)
      PROVE  Timely'
  BY <1>5, TimelyIncident DEF ReportBadPeer, storeVars
<1>6. ASSUME NEW p \in Peers, NEW bytes \in Transfers, ReportTransfer(p, bytes)
      PROVE  Timely'
  BY <1>1, <1>6 DEF ReportTransfer
<1>7. ASSUME NEW o, LookupExpired(o) \/ Invalidate(o) \/ InvalidatePrefix(o)
      PROVE  Timely'
  BY <1>1, <1>7 DEF LookupExpired, Invalidate, InvalidatePrefix
<1>8. CASE PeriodicCleanup
  BY <1>8, TimelyCleanup
<1>9. CASE PassTime
  <2>1. /\ now < cleanupDue /\ now' = now + 1
        /\ UNCHANGED <<lastSeen, rep, cleanupDue>> /\ Registered' = Registered
    BY <1>9 DEF PassTime, Advance, storeVars, Registered
  <2> QED
    BY <2>1, CoordInvTypes DEF CoordInv, Timely
<1>10. CASE Restart
  <2>1. /\ DOMAIN lastSeen' = {} /\ DOMAIN rep' = {}
        /\ now' = now /\ cleanupDue' = now + CleanupInterval
    BY <1>10 DEF Restart, Reset, Empty
  <2> QED
    BY <2>1, CoordInvTypes DEF Timely, Registered
<1>11. CASE UNCHANGED vars
  BY <1>1, <1>11 DEF vars
<1> QED
  BY <1>2, <1>3, <1>4, <1>5, <1>6, <1>7, <1>8, <1>9, <1>10, <1>11 DEF Next, OtherStep

\* Both invariants at once.
LEMMA StoreRepInvariant == Spec => [](StoreInv /\ RepInv)
BY StoreInvariant, RepInvariantHere, PTL

\* The coordinator's invariant holds in every reachable state.
THEOREM CoordInvariant == Spec => []CoordInv
<1>1. StoreInv /\ RepInv /\ Timely /\ [Next]_vars => Timely'
  BY TimelyNext DEF CoordInv
<1>2. Spec => []Timely
  BY <1>1, TimelyInit, StoreRepInvariant, PTL DEF Spec
<1>3. StoreInv /\ RepInv /\ Timely => CoordInv
  BY DEF CoordInv
<1> QED
  BY <1>2, <1>3, StoreRepInvariant, PTL

\* A silent peer is out of the registry within the timeout and one cleanup
\* interval (store.py:255-275; main.py:74-77).
THEOREM SilenceBounded == Spec => []SilenceIsBounded
<1>1. CoordInv => SilenceIsBounded
  <2> SUFFICES ASSUME CoordInv, NEW p \in Registered
               PROVE  now - lastSeen[p] <= PeerTimeout + CleanupInterval
    BY DEF SilenceIsBounded
  <2>1. /\ cleanupDue - CleanupInterval - PeerTimeout <= lastSeen[p]
        /\ now <= cleanupDue
    BY DEF CoordInv, Timely
  <2> QED
    BY <2>1, CoordInvTypes
<1> QED
  BY <1>1, CoordInvariant, PTL

\* Quarantine is over within one cleanup interval of the end of its cooldown
\* (main.py:74-81; reputation.py:144-169).
THEOREM QuarantineBounded == Spec => []QuarantineIsBounded
<1>1. CoordInv => QuarantineIsBounded
  <2> SUFFICES ASSUME CoordInv, NEW p \in DOMAIN rep,
                      rep[p].state = "quarantined", Cooldown > 0
               PROVE  now - rep[p].quarantinedAt < Cooldown + CleanupInterval
    BY DEF QuarantineIsBounded
  <2>1. /\ cleanupDue - CleanupInterval - Cooldown < rep[p].quarantinedAt
        /\ now <= cleanupDue
    BY DEF CoordInv, Timely
  <2>2. rep[p].quarantinedAt \in Nat
    BY CoordInvTypes
  <2> QED
    BY <2>1, <2>2, CoordInvTypes
<1> QED
  BY <1>1, CoordInvariant, PTL

\* Short of a restart, a peer leaves only after a silence longer than the
\* timeout, with everything that names it (store.py:259-275).
THEOREM EvictionEarned == Spec => EvictionIsEarned
<1>1. ASSUME StoreInv, RepInv, [Next]_vars
      PROVE  ~Restart => \A p \in Registered \ DOMAIN lastSeen' :
                /\ now - lastSeen[p] > PeerTimeout
                /\ p \notin DOMAIN loads' \cup DOMAIN rep'
                /\ \A o \in DOMAIN index' : p \notin index'[o]
  <2> SUFFICES ASSUME ~Restart, NEW p \in Registered, p \notin DOMAIN lastSeen'
               PROVE  /\ now - lastSeen[p] > PeerTimeout
                      /\ p \notin DOMAIN loads' \cup DOMAIN rep'
                      /\ \A o \in DOMAIN index' : p \notin index'[o]
    OBVIOUS
  <2>1. PeriodicCleanup
    <3>1. lastSeen' # lastSeen
      BY DEF Registered
    <3>2. \A q : ~Register(q) /\ ~Heartbeat(q)
      BY DEF Register, Heartbeat, Bind, Registered
    <3>3. \A q, m : ~Publish(q, m) /\ ~PublishConflict(q, m) /\ ~ReportTransfer(q, m)
      BY <3>1 DEF Publish, PublishConflict, ReportTransfer, storeVars
    <3>4. \A a, r, q, o : ~ReportBadPeer(a, r, q, o)
      BY <3>1 DEF ReportBadPeer, storeVars
    <3>5. \A o : ~LookupExpired(o) /\ ~Invalidate(o) /\ ~InvalidatePrefix(o)
      BY <3>1 DEF LookupExpired, Invalidate, InvalidatePrefix
    <3>6. ~PassTime /\ ~UNCHANGED vars
      BY <3>1 DEF PassTime, storeVars, vars
    <3> QED
      BY <1>1, <3>2, <3>3, <3>4, <3>5, <3>6 DEF Next, OtherStep
  <2> PICK dead : dead = Dead
    OBVIOUS
  <2>2. Evict(dead) /\ EvictAndTick(dead)
    BY <2>1 DEF PeriodicCleanup
  <2>3. Registered' = Registered \ dead
    BY <1>1, <2>2, EvictFacts
  <2>4. p \in dead
    BY <2>3 DEF Registered
  <2>5. now - lastSeen[p] > PeerTimeout
    <3>1. lastSeen[p] < now - PeerTimeout
      BY <2>4 DEF Dead
    <3>2. lastSeen[p] \in Nat /\ now \in Nat
      BY <1>1 DEF StoreInv, StoreTypeOK
    <3> QED
      BY <3>1, <3>2, CoordinatorTimingAssumption
  <2>6. p \notin DOMAIN loads'
    BY <1>1, <2>2, <2>4, EvictFacts
  <2>7. p \notin DOMAIN rep'
    BY <1>1, <2>2, <2>4, TickedFacts DEF EvictAndTick
  <2>8. \A o \in DOMAIN index' : p \notin index'[o]
    <3>1. \A o \in DOMAIN index' : index'[o] = index[o] \ dead
      BY <1>1, <2>2, EvictFacts
    <3> QED
      BY <2>4, <3>1
  <2> QED
    BY <2>5, <2>6, <2>7, <2>8
<1>2. Spec => [][StoreInv /\ RepInv /\ [Next]_vars]_vars
  BY StoreRepInvariant, PTL DEF Spec
<1> QED
  BY <1>1, <1>2, PTL DEF EvictionIsEarned

-----------------------------------------------------------------------------
(***************************************************************************)
(* What a lookup answers.  The candidates are finitely many, their keys    *)
(* are ordered strictly and totally, because the last part of a key is the *)
(* peer's own, and sorted() puts them in that order.                       *)
(***************************************************************************)
\* Finitely many peers are registered: each registration adds one.
LEMMA RegisteredGrowsByOne ==
    ASSUME [Next]_vars, IsFiniteSet(Registered)
    PROVE  IsFiniteSet(Registered')
<1>1. ASSUME NEW p \in Peers, Registered' \subseteq Registered \cup {p}
      PROVE  IsFiniteSet(Registered')
  BY <1>1, FS_AddElement, FS_Subset
<1>2. ASSUME Registered' \subseteq Registered PROVE IsFiniteSet(Registered')
  BY <1>2, FS_Subset
<1>3. ASSUME NEW p \in Peers, Register(p) \/ Heartbeat(p)
      PROVE  Registered' \subseteq Registered \cup {p}
  BY <1>3 DEF Register, Heartbeat, Bind, Registered
<1>4. ASSUME UNCHANGED lastSeen PROVE Registered' \subseteq Registered
  BY <1>4 DEF Registered
<1>5. CASE PeriodicCleanup
  BY <1>2, <1>5 DEF PeriodicCleanup, Evict, Without, Restrict, Registered
<1>6. CASE Restart
  BY <1>2, <1>6 DEF Restart, Empty, Registered
<1>7. \/ UNCHANGED lastSeen
      \/ \E p \in Peers : Register(p) \/ Heartbeat(p)
      \/ PeriodicCleanup
      \/ Restart
  BY DEF Next, OtherStep, Publish, PublishConflict, ReportBadPeer, ReportTransfer,
         LookupExpired, Invalidate, InvalidatePrefix, PassTime, storeVars, vars
<1> QED
  BY <1>1, <1>2, <1>3, <1>4, <1>5, <1>6, <1>7

RegistryIsFinite == IsFiniteSet(Registered)

LEMMA RegistryFinite == Spec => []RegistryIsFinite
<1>1. Init => RegistryIsFinite
  <2> SUFFICES ASSUME Init PROVE RegistryIsFinite
    OBVIOUS
  <2>1. Registered = {}
    BY DEF Init, Empty, Registered
  <2> QED
    BY <2>1, FS_EmptySet DEF RegistryIsFinite
<1>2. RegistryIsFinite /\ [Next]_vars => RegistryIsFinite'
  BY RegisteredGrowsByOne DEF RegistryIsFinite
<1> QED
  BY <1>1, <1>2, PTL DEF Spec

\* The comparison of two keys, each a sequence of five numbers.
KeyLess(k, l) == \E i \in 1..5 : k[i] < l[i] /\ \A j \in 1..(i - 1) : k[j] = l[j]

LEMMA KeyLessIsTransitive ==
    ASSUME NEW k \in [1..5 -> Nat], NEW l \in [1..5 -> Nat], NEW m \in [1..5 -> Nat],
           KeyLess(k, l), KeyLess(l, m)
    PROVE  KeyLess(k, m)
<1>1. PICK i \in 1..5 : k[i] < l[i] /\ \A t \in 1..(i - 1) : k[t] = l[t]
  BY DEF KeyLess
<1>2. PICK j \in 1..5 : l[j] < m[j] /\ \A t \in 1..(j - 1) : l[t] = m[t]
  BY DEF KeyLess
<1>3. CASE i <= j
  <2>1. k[i] < m[i] /\ \A t \in 1..(i - 1) : k[t] = m[t]
    BY <1>1, <1>2, <1>3
  <2> QED
    BY <2>1 DEF KeyLess
<1>4. CASE j < i
  <2>1. k[j] < m[j] /\ \A t \in 1..(j - 1) : k[t] = m[t]
    BY <1>1, <1>2, <1>4
  <2> QED
    BY <2>1 DEF KeyLess
<1> QED
  BY <1>3, <1>4

LEMMA KeyLessIsTotal ==
    ASSUME NEW k \in [1..5 -> Nat], NEW l \in [1..5 -> Nat], k[5] # l[5]
    PROVE  KeyLess(k, l) \/ KeyLess(l, k)
<1> DEFINE differing == {i \in 1..5 : k[i] # l[i]}
<1>1. differing \in SUBSET Nat /\ differing # {}
  OBVIOUS
<1>2. PICK i \in differing : \A j \in differing : i <= j
  BY <1>1, LeastNumber
<1>3. /\ i \in 1..5
      /\ k[i] < l[i] \/ l[i] < k[i]
      /\ \A j \in 1..(i - 1) : k[j] = l[j]
  BY <1>2
<1> QED
  BY <1>3 DEF KeyLess

\* The keys of registered peers are such sequences, and differ.
LEMMA SortKeyFacts ==
    ASSUME StoreInv, NEW p \in Registered, NEW location
    PROVE  /\ SortKey(p, location) \in [1..5 -> Nat]
           /\ SortKey(p, location)[1] = IF IsSuspect(p) THEN 1 ELSE 0
           /\ SortKey(p, location)[5] = PeerOrder[p]
<1>1. loads[p].requests \in Nat /\ loads[p].bytes \in Nat
  BY SelectionAssumption DEF StoreInv, StoreTypeOK, StoreIsConsistent, PeerLoad
<1>2. PeerOrder[p] \in Nat
  BY SelectionAssumption DEF StoreInv, StoreTypeOK
<1> QED
  BY <1>1, <1>2 DEF SortKey

LEMMA CandidatesFacts ==
    ASSUME StoreInv, RegistryIsFinite, NEW o
    PROVE  Candidates(o) \subseteq Registered /\ IsFiniteSet(Candidates(o))
<1>1. Candidates(o) \subseteq Registered
  BY DEF Candidates
<1> QED
  BY <1>1, FS_Subset DEF RegistryIsFinite

LEMMA RankingOrders ==
    ASSUME StoreInv, RegistryIsFinite, NEW o, NEW location
    PROVE  Orders(Ranking(o, location), Candidates(o))
<1> DEFINE C == Candidates(o)
           key == [p \in C |-> SortKey(p, location)]
<1>1. C \subseteq Registered /\ C \subseteq Peers
  BY CandidatesFacts DEF StoreInv, StoreTypeOK
<1>2. \A p \in C : key[p] \in [1..5 -> Nat] /\ key[p][5] = PeerOrder[p]
  BY <1>1, SortKeyFacts
<1>3. \A p, q \in C : <<p, q>> \in Ranking(o, location) <=> KeyLess(key[p], key[q])
  BY DEF Ranking, Before, KeyLess
<1> HIDE DEF C, key
<1>4. ASSUME NEW p \in C PROVE <<p, p>> \notin Ranking(o, location)
  BY <1>2, <1>3 DEF KeyLess
<1>5. ASSUME NEW p \in C, NEW q \in C, p # q
      PROVE  <<p, q>> \in Ranking(o, location) \/ <<q, p>> \in Ranking(o, location)
  <2>1. key[p][5] # key[q][5]
    BY <1>1, <1>2, <1>5, SelectionAssumption
  <2> QED
    BY <1>2, <1>3, <2>1, KeyLessIsTotal
<1>6. ASSUME NEW p \in C, NEW q \in C, NEW r \in C,
             <<p, q>> \in Ranking(o, location), <<q, r>> \in Ranking(o, location)
      PROVE  <<p, r>> \in Ranking(o, location)
  BY <1>2, <1>3, <1>6, KeyLessIsTransitive
<1> QED
  BY <1>4, <1>5, <1>6 DEF Orders, C

\* An answer that is a beginning of the candidates in order.
IsRanked(answer, o, location) ==
    \E n \in Nat : \E at \in [1..n -> Candidates(o)] :
        /\ \A p \in Candidates(o) : \E i \in 1..n : at[i] = p
        /\ \A i, j \in 1..n : i < j <=> <<at[i], at[j]>> \in Ranking(o, location)
        /\ answer = [i \in {i \in 1..n : i <= MaxProviders} |-> at[i]]

LEMMA AnswerIsRanked ==
    ASSUME StoreInv, RegistryIsFinite, NEW o, NEW location
    PROVE  IsRanked(Providers(o, location), o, location)
<1> DEFINE items == [p \in Candidates(o) |-> p]
           n == Cardinality(Candidates(o))
           sorted == InOrder(items, Ranking(o, location))
<1>1. DOMAIN items = Candidates(o)
  OBVIOUS
<1>2. Providers(o, location) = [i \in {i \in DOMAIN sorted : i <= MaxProviders} |-> sorted[i]]
  BY DEF Providers
<1>3. IsFiniteSet(Candidates(o)) /\ Orders(Ranking(o, location), Candidates(o))
  BY CandidatesFacts, RankingOrders
<1> HIDE DEF sorted
<1>4. Arranges(sorted, items, Ranking(o, location))
  <2> HIDE DEF items
  <2> QED
    BY <1>1, <1>3, InOrderIsInOrder DEF sorted
<1>5. n \in Nat
  BY <1>1, <1>4 DEF Arranges
<1>6. PICK at : /\ Sorts(at, Ranking(o, location), Candidates(o))
                /\ sorted = [k \in 1..n |-> items[at[k]]]
  BY <1>1, <1>4 DEF Arranges
<1>7. /\ at \in [1..n -> Candidates(o)]
      /\ \A p \in Candidates(o) : \E i \in 1..n : at[i] = p
      /\ \A i, j \in 1..n : i < j <=> <<at[i], at[j]>> \in Ranking(o, location)
  BY <1>6 DEF Sorts
<1> HIDE DEF n
<1>8. DOMAIN sorted = 1..n /\ \A k \in 1..n : sorted[k] = at[k]
  BY <1>6, <1>7
<1>9. Providers(o, location) = [i \in {i \in 1..n : i <= MaxProviders} |-> at[i]]
  BY <1>2, <1>8
<1> QED
  BY <1>5, <1>7, <1>9 DEF IsRanked

\* A lookup answers with holders of the current version, none in quarantine and
\* none twice, and leaves out no healthy one for a suspect one
\* (store.py:136-156, 210-229).
THEOREM AnswerHealthy == Spec => []AnswerPrefersHealthy
<1>1. ASSUME StoreInv, RegistryIsFinite PROVE AnswerPrefersHealthy
  <2> SUFFICES ASSUME NEW o \in DOMAIN metadata, NEW location \in Locations
      PROVE
        LET answer  == Providers(o, location)
            holders == {p \in Registered : p \in DOMAIN versions[o]
                           /\ versions[o][p] = metadata[o].version
                           /\ ~Expired(metadata[o])}
        IN  /\ IsInjective(answer)
            /\ \A i \in DOMAIN answer :
                  /\ answer[i] \in holders
                  /\ Record(answer[i]).state # "quarantined"
                  /\ Record(answer[i]).state = "suspect" =>
                        \A p \in holders : Record(p).state = "healthy" =>
                            \E j \in 1..(i - 1) : answer[j] = p
    BY DEF AnswerPrefersHealthy
  <2> DEFINE answer == Providers(o, location)
             holders == {p \in Registered : p \in DOMAIN versions[o]
                           /\ versions[o][p] = metadata[o].version
                           /\ ~Expired(metadata[o])}
  <2>1. PICK n \in Nat : \E at \in [1..n -> Candidates(o)] :
           /\ \A p \in Candidates(o) : \E i \in 1..n : at[i] = p
           /\ \A i, j \in 1..n : i < j <=> <<at[i], at[j]>> \in Ranking(o, location)
           /\ answer = [i \in {i \in 1..n : i <= MaxProviders} |-> at[i]]
    <3>1. IsRanked(Providers(o, location), o, location)
      BY <1>1, AnswerIsRanked
    <3> QED
      BY <3>1 DEF IsRanked
  <2>2. PICK at \in [1..n -> Candidates(o)] :
           /\ \A p \in Candidates(o) : \E i \in 1..n : at[i] = p
           /\ \A i, j \in 1..n : i < j <=> <<at[i], at[j]>> \in Ranking(o, location)
           /\ answer = [i \in {i \in 1..n : i <= MaxProviders} |-> at[i]]
    BY <2>1
  <2>3. Orders(Ranking(o, location), Candidates(o))
    BY <1>1, RankingOrders
  <2>4. MaxProviders \in Nat
    BY SelectionAssumption
  <2> HIDE DEF answer
  <2>5. /\ DOMAIN answer = {i \in 1..n : i <= MaxProviders}
        /\ \A i \in DOMAIN answer : answer[i] = at[i] /\ at[i] \in Candidates(o)
    BY <2>2
  <2>6. ASSUME NEW i \in DOMAIN answer, NEW j \in DOMAIN answer, answer[i] = answer[j]
        PROVE  i = j
    <3>1. i \in 1..n /\ j \in 1..n /\ at[i] = at[j] /\ at[i] \in Candidates(o)
      BY <2>5, <2>6
    <3>2. <<at[i], at[j]>> \notin Ranking(o, location) /\ <<at[j], at[i]>> \notin Ranking(o, location)
      BY <2>3, <3>1 DEF Orders
    <3> QED
      BY <2>2, <3>1, <3>2
  <2>7. \A p : p \in Candidates(o) <=> p \in holders /\ Record(p).state # "quarantined"
    <3>1. /\ o \in DOMAIN index
          /\ DOMAIN versions[o] = index[o]
      BY <1>1 DEF StoreInv, StoreIsConsistent
    <3> QED
      BY <3>1 DEF Candidates, IsQuarantined
  <2>8. ASSUME NEW i \in DOMAIN answer, Record(answer[i]).state = "suspect",
               NEW p \in holders, Record(p).state = "healthy"
        PROVE  \E j \in 1..(i - 1) : answer[j] = p
    <3>1. p \in Candidates(o) /\ answer[i] \in Candidates(o) /\ i \in 1..n
      BY <2>5, <2>7, <2>8
    <3>2. PICK j \in 1..n : at[j] = p
      BY <2>2, <3>1
    <3>3. <<p, answer[i]>> \in Ranking(o, location)
      <4>1. p \in Registered /\ answer[i] \in Registered
        BY <1>1, <3>1, CandidatesFacts
      <4>2. SortKey(p, location)[1] = 0 /\ SortKey(answer[i], location)[1] = 1
        BY <1>1, <2>8, <4>1, SortKeyFacts DEF IsSuspect
      <4>3. Before(p, answer[i], location)
        BY <4>2 DEF Before
      <4> QED
        BY <3>1, <4>3 DEF Ranking
    <3>4. j < i
      BY <2>2, <2>5, <3>1, <3>2, <3>3
    <3>5. j \in DOMAIN answer /\ j \in 1..(i - 1)
      BY <2>4, <2>5, <3>1, <3>2, <3>4
    <3> QED
      BY <2>5, <3>2, <3>5
  <2>9. IsInjective(answer)
    BY <2>6 DEF IsInjective
  <2> QED
    BY <2>5, <2>7, <2>8, <2>9 DEF answer
<1> QED
  BY <1>1, StoreInvariant, RegistryFinite, PTL

-----------------------------------------------------------------------------
(***************************************************************************)
(* The store implements the directory.  Adverts is read member by member.  *)
(***************************************************************************)
Ad(p, o, v) == [peer |-> p, object |-> o, version |-> v]

\* Membership of Adverts, pointwise.
LEMMA AdvertsMembers ==
    \A a : a \in Adverts <=>
              \E o \in DOMAIN index : \E p \in index[o] : a = Ad(p, o, versions[o][p])
BY DEF Adverts, Ad

\* The same in the next state.
LEMMA AdvertsMembersNext ==
    \A a : a \in Adverts' <=>
              \E o \in DOMAIN index' : \E p \in index'[o] : a = Ad(p, o, versions'[o][p])
BY DEF Adverts, Ad

\* The fields of an advert.
LEMMA AdFields ==
    ASSUME NEW p, NEW o, NEW v
    PROVE  Ad(p, o, v).peer = p /\ Ad(p, o, v).object = o /\ Ad(p, o, v).version = v
BY DEF Ad

\* An object is known to the directory exactly while it has metadata.
LEMMA KnownIsIndexed == StoreInv => D!Known(Adverts) = DOMAIN metadata
<1> SUFFICES ASSUME StoreInv PROVE D!Known(Adverts) = DOMAIN metadata
  OBVIOUS
<1>1. DOMAIN metadata = DOMAIN index /\ \A o \in DOMAIN index : index[o] # {}
  BY DEF StoreInv, StoreIsConsistent
<1>2. ASSUME NEW o \in DOMAIN index PROVE o \in D!Known(Adverts)
  <2>1. PICK p : p \in index[o]
    BY <1>1
  <2>2. Ad(p, o, versions[o][p]) \in Adverts
    BY <2>1, AdvertsMembers
  <2> QED
    BY <2>2, AdFields DEF D!Known
<1>3. ASSUME NEW o \in D!Known(Adverts) PROVE o \in DOMAIN index
  <2>1. PICK a \in Adverts : o = a.object
    BY <1>3 DEF D!Known
  <2> QED
    BY <2>1, AdvertsMembers, AdFields
<1> QED
  BY <1>1, <1>2, <1>3

\* The same in the next state.
LEMMA KnownIsIndexedNext == StoreInv' => D!Known(Adverts') = DOMAIN metadata'
<1> SUFFICES ASSUME StoreInv' PROVE D!Known(Adverts') = DOMAIN metadata'
  OBVIOUS
<1>1. DOMAIN metadata' = DOMAIN index' /\ \A o \in DOMAIN index' : index'[o] # {}
  BY DEF StoreInv, StoreIsConsistent
<1>2. ASSUME NEW o \in DOMAIN index' PROVE o \in D!Known(Adverts')
  <2>1. PICK p : p \in index'[o]
    BY <1>1
  <2>2. Ad(p, o, versions'[o][p]) \in Adverts'
    BY <2>1, AdvertsMembersNext
  <2> QED
    BY <2>2, AdFields DEF D!Known
<1>3. ASSUME NEW o \in D!Known(Adverts') PROVE o \in DOMAIN index'
  <2>1. PICK a \in Adverts' : o = a.object
    BY <1>3 DEF D!Known
  <2> QED
    BY <2>1, AdvertsMembersNext, AdFields
<1> QED
  BY <1>1, <1>2, <1>3

\* A registration (store.py:51-66) is a Join.
LEMMA RegisterIsJoin ==
    ASSUME NEW p \in Peers, Register(p)
    PROVE  D!Join(p)
<1>1. /\ p \notin Registered
      /\ Registered' = Registered \cup {p}
      /\ UNCHANGED <<index, metadata, versions>>
  BY DEF Register, Registered, Bind
<1> QED
  BY <1>1 DEF D!Join, Adverts

\* An accepted publish (store.py:73-105) is an Advertise.
LEMMA PublishIsAdvertise ==
    ASSUME StoreInv, NEW p \in Peers, NEW m \in Catalogue, Publish(p, m)
    PROVE  D!Advertise(p, m)
<1> DEFINE o == m.object
<1>1. /\ p \in Registered
      /\ Registered' = Registered
      /\ (o \in DOMAIN metadata /\ metadata[o].version = m.version)
           => (/\ metadata[o].content = m.content
               /\ metadata[o].cacheability = m.cacheability)
      /\ metadata' = [x \in DOMAIN metadata \cup {o} |-> IF x = o THEN m ELSE metadata[x]]
  <2>1. p \in Registered /\ Registered' = Registered
    BY DEF Publish, MayPublish, Registered
  <2>2. ~ConflictsWithCurrent(m)
    BY DEF Publish
  <2>3. metadata' = Bind(metadata, o, m)
    BY DEF Publish
  <2>4. (o \in DOMAIN metadata /\ metadata[o].version = m.version)
           => (/\ metadata[o].content = m.content
               /\ metadata[o].cacheability = m.cacheability)
    BY <2>2 DEF ConflictsWithCurrent, Conflicts
  <2>5. metadata' = [x \in DOMAIN metadata \cup {o} |-> IF x = o THEN m ELSE metadata[x]]
    BY <2>3 DEF Bind
  <2> QED
    BY <2>1, <2>4, <2>5
<1>2. /\ DOMAIN index' = DOMAIN index \cup {o}
      /\ \A x \in DOMAIN index : x # o =>
            /\ index'[x] = index[x]
            /\ metadata'[x] = metadata[x]
            /\ versions'[x] = versions[x]
      /\ index'[o] = (IF o \in DOMAIN index THEN index[o] ELSE {}) \cup {p}
      /\ versions'[o][p] = m.version
      /\ o \in DOMAIN index =>
            \A q \in index[o] : q # p => versions'[o][q] = versions[o][q]
  <2>1. Published(p, m, o)
    BY PublishFacts
  <2> QED
    BY <2>1 DEF Published
<1>3. D!Advert(p, m) = Ad(p, o, m.version)
  BY DEF D!Advert, Ad
<1> DEFINE Kept == {a \in Adverts : ~(a.peer = p /\ a.object = o)}
<1> HIDE DEF o
<1>4. ASSUME NEW a \in Adverts' PROVE a \in Kept \cup {Ad(p, o, m.version)}
  <2>1. PICK x \in DOMAIN index' : \E q \in index'[x] : a = Ad(q, x, versions'[x][q])
    BY <1>4, AdvertsMembersNext
  <2>2. PICK q \in index'[x] : a = Ad(q, x, versions'[x][q])
    BY <2>1
  <2>3. a.peer = q /\ a.object = x
    BY <2>2, AdFields
  <2>4. CASE x = o /\ q = p
    BY <1>2, <2>2, <2>4
  <2>5. CASE x = o /\ q # p
    <3>1. o \in DOMAIN index /\ q \in index[o] /\ versions'[o][q] = versions[o][q]
      BY <1>2, <2>2, <2>5
    <3>2. a \in Adverts
      BY <2>2, <2>5, <3>1, AdvertsMembers
    <3> QED
      BY <2>3, <2>5, <3>2
  <2>6. CASE x # o
    <3>1. x \in DOMAIN index /\ index'[x] = index[x] /\ versions'[x] = versions[x]
      BY <1>2, <2>1, <2>6
    <3>2. a \in Adverts
      BY <2>2, <3>1, AdvertsMembers
    <3> QED
      BY <2>3, <2>6, <3>2
  <2> QED
    BY <2>4, <2>5, <2>6
<1>5. Ad(p, o, m.version) \in Adverts'
  <2>1. o \in DOMAIN index' /\ p \in index'[o] /\ versions'[o][p] = m.version
    BY <1>2
  <2> QED
    BY <2>1, AdvertsMembersNext
<1>6. ASSUME NEW a \in Kept PROVE a \in Adverts'
  <2>1. PICK x \in DOMAIN index : \E q \in index[x] : a = Ad(q, x, versions[x][q])
    BY AdvertsMembers
  <2>2. PICK q \in index[x] : a = Ad(q, x, versions[x][q])
    BY <2>1
  <2>3. x # o \/ q # p
    BY <2>2, AdFields
  <2>4. x \in DOMAIN index' /\ q \in index'[x] /\ versions'[x][q] = versions[x][q]
    BY <1>2, <2>1, <2>2, <2>3
  <2> QED
    BY <2>2, <2>4, AdvertsMembersNext
<1>7. Adverts' = Kept \cup {Ad(p, o, m.version)}
  BY <1>4, <1>5, <1>6
<1> QED
  BY <1>1, <1>3, <1>7 DEF D!Advertise, o

\* Dropping objects, or peers with the objects they leave empty, is a Withdraw.
LEMMA RemovalIsWithdraw ==
    ASSUME StoreInv, StoreInv', NEW gone, NEW objects,
           Registered' = Registered \ gone,
           metadata' = [o \in DOMAIN metadata' |-> metadata[o]],
           \A o : o \in DOMAIN index' <=>
                   o \in DOMAIN index /\ o \notin objects /\ ~(index[o] \subseteq gone),
           \A o \in DOMAIN index' :
              /\ index'[o] = index[o] \ gone
              /\ \A p \in index'[o] : versions'[o][p] = versions[o][p]
    PROVE  D!Withdraw(gone, objects)
<1> DEFINE Left == {a \in Adverts : a.peer \notin gone /\ a.object \notin objects}
<1>1. ASSUME NEW a \in Adverts' PROVE a \in Left
  <2>1. PICK o \in DOMAIN index' : \E p \in index'[o] : a = Ad(p, o, versions'[o][p])
    BY AdvertsMembersNext
  <2>2. PICK p \in index'[o] : a = Ad(p, o, versions'[o][p])
    BY <2>1
  <2>3. /\ o \in DOMAIN index /\ p \in index[o] \ gone /\ o \notin objects
        /\ versions'[o][p] = versions[o][p]
    BY <2>1, <2>2
  <2>4. a \in Adverts
    BY <2>2, <2>3, AdvertsMembers
  <2>5. a.peer = p /\ a.object = o
    BY <2>2, AdFields
  <2> QED
    BY <2>3, <2>4, <2>5
<1>2. ASSUME NEW a \in Left PROVE a \in Adverts'
  <2>1. PICK o \in DOMAIN index : \E p \in index[o] : a = Ad(p, o, versions[o][p])
    BY AdvertsMembers
  <2>2. PICK p \in index[o] : a = Ad(p, o, versions[o][p])
    BY <2>1
  <2>3. p \notin gone /\ o \notin objects
    BY <2>2, AdFields
  <2>4. o \in DOMAIN index'
    BY <2>1, <2>2, <2>3
  <2>5. p \in index'[o] /\ versions'[o][p] = versions[o][p]
    BY <2>2, <2>3, <2>4
  <2> QED
    BY <2>2, <2>4, <2>5, AdvertsMembersNext
<1>3. Adverts' = Left
  BY <1>1, <1>2
<1>4. metadata' = Restrict(metadata, DOMAIN metadata \cap D!Known(Adverts'))
  <2>1. DOMAIN metadata' = DOMAIN index' /\ DOMAIN metadata = DOMAIN index
    BY DEF StoreInv, StoreIsConsistent
  <2>2. D!Known(Adverts') = DOMAIN metadata'
    BY KnownIsIndexedNext
  <2>3. DOMAIN metadata \cap D!Known(Adverts') = DOMAIN metadata'
    BY <2>1, <2>2
  <2> QED
    BY <2>3 DEF Restrict
<1> HIDE DEF Adverts
<1> QED
  BY <1>3, <1>4 DEF D!Withdraw, D!Restrict, Restrict

\* Removing objects (store.py:250-253) is a Withdraw of no member.
LEMMA RemoveObjectsIsWithdraw ==
    ASSUME StoreInv, StoreInv', NEW objects, RemoveObjects(objects), UNCHANGED lastSeen
    PROVE  D!DirNext
<1> PICK dropped \in SUBSET DOMAIN metadata : dropped = objects \cap DOMAIN metadata
  OBVIOUS
<1>1. /\ Registered' = Registered
      /\ DOMAIN metadata = DOMAIN index /\ DOMAIN versions = DOMAIN index
      /\ \A o \in DOMAIN index : index[o] # {}
  BY DEF Registered, StoreInv, StoreIsConsistent
<1>2. /\ index' = Without(index, objects)
      /\ metadata' = Without(metadata, objects)
      /\ versions' = Without(versions, objects)
  BY DEF RemoveObjects
<1>3. /\ DOMAIN index' = DOMAIN index \ dropped
      /\ DOMAIN versions' = DOMAIN index \ dropped
      /\ \A o \in DOMAIN index' : index'[o] = index[o] /\ versions'[o] = versions[o]
  BY <1>1, <1>2 DEF Without, Restrict
<1>4. metadata' = [o \in DOMAIN metadata' |-> metadata[o]]
  BY <1>2 DEF Without, Restrict
<1>5. Registered' = Registered \ {}
  BY <1>1
<1>6. \A o : o \in DOMAIN index' <=>
                  o \in DOMAIN index /\ o \notin dropped /\ ~(index[o] \subseteq {})
  BY <1>1, <1>3
<1>7. \A o \in DOMAIN index' :
         /\ index'[o] = index[o] \ {}
         /\ \A p \in index'[o] : versions'[o][p] = versions[o][p]
  BY <1>3
<1>8. D!Withdraw({}, dropped)
  BY <1>4, <1>5, <1>6, <1>7, RemovalIsWithdraw
<1> QED
  BY <1>8 DEF D!DirNext

\* A cleanup (store.py:255-282) is a Withdraw of the dead and the expired.
LEMMA EvictIsWithdraw ==
    ASSUME StoreInv, StoreInv', NEW dead \in SUBSET Registered, Evict(dead)
    PROVE  D!DirNext
<1> PICK expired \in SUBSET DOMAIN metadata :
           expired = {o \in DOMAIN metadata : Expired(metadata[o])}
  OBVIOUS
<1>1. DOMAIN metadata = DOMAIN index
  BY DEF StoreInv, StoreIsConsistent
<1>2. Registered' = Registered \ dead
  BY EvictFacts
<1>3. \A o : o \in DOMAIN index' <=>
                  o \in DOMAIN index /\ o \notin expired /\ ~(index[o] \subseteq dead)
  BY <1>1, EvictFacts
<1>4. \A o \in DOMAIN index' :
         /\ index'[o] = index[o] \ dead
         /\ \A p \in index'[o] : versions'[o][p] = versions[o][p]
  BY EvictFacts
<1>5. metadata' = [o \in DOMAIN metadata' |-> metadata[o]]
  BY DEF Evict, Without, Restrict
<1>6. D!Withdraw(dead, expired)
  BY <1>2, <1>3, <1>4, <1>5, RemovalIsWithdraw
<1> QED
  BY <1>6 DEF D!DirNext

\* A restart is a Withdraw of every member.
LEMMA RestartIsWithdraw ==
    ASSUME StoreInv, StoreInv', Restart
    PROVE  D!DirNext
<1> PICK all \in SUBSET Registered : all = Registered
  OBVIOUS
<1>1. lastSeen' = Empty /\ index' = Empty /\ metadata' = Empty
  BY DEF Restart
<1>2. Registered' = Registered \ all
  BY <1>1 DEF Registered, Empty
<1>3. \A o : o \in DOMAIN index' <=>
                  o \in DOMAIN index /\ o \notin {} /\ ~(index[o] \subseteq all)
  BY <1>1 DEF StoreInv, StoreIsConsistent, Empty
<1>4. \A o \in DOMAIN index' :
         /\ index'[o] = index[o] \ all
         /\ \A p \in index'[o] : versions'[o][p] = versions[o][p]
  BY <1>1 DEF Empty
<1>5. metadata' = [o \in DOMAIN metadata' |-> metadata[o]]
  BY <1>1 DEF Empty
<1>6. D!Withdraw(all, {})
  BY <1>2, <1>3, <1>4, <1>5, RemovalIsWithdraw
<1> QED
  BY <1>6 DEF D!DirNext

\* What leaves the registry and the index alone leaves the directory alone.
LEMMA DirUnchanged ==
    ASSUME UNCHANGED <<index, metadata, versions>>, Registered' = Registered
    PROVE  UNCHANGED D!dirVars
BY DEF D!dirVars, Adverts

\* Every step of the coordinator is a directory step or stutters.
LEMMA StepIsDirStep == StoreInv /\ StoreInv' /\ [Next]_vars => [D!DirNext]_(D!dirVars)
<1> SUFFICES ASSUME StoreInv, StoreInv', [Next]_vars
             PROVE  D!DirNext \/ UNCHANGED D!dirVars
  OBVIOUS
<1>1. ASSUME NEW p \in Peers, NEW m \in Catalogue, Publish(p, m)
      PROVE  D!DirNext
  BY <1>1, PublishIsAdvertise DEF D!DirNext
<1>2. ASSUME NEW p \in Peers, Register(p) PROVE D!DirNext
  BY <1>2, RegisterIsJoin DEF D!DirNext
<1>3. ASSUME NEW p \in Peers, Heartbeat(p) PROVE UNCHANGED D!dirVars
  <2>1. UNCHANGED <<index, metadata, versions>> /\ Registered' = Registered
    BY <1>3 DEF Heartbeat, Bind, Registered
  <2> QED
    BY <2>1, DirUnchanged
<1>4. ASSUME NEW o \in Objects, LookupExpired(o) \/ Invalidate(o) PROVE D!DirNext
  <2>1. RemoveObjects({o}) /\ UNCHANGED lastSeen
    BY <1>4 DEF LookupExpired, Invalidate
  <2> QED
    BY <2>1, RemoveObjectsIsWithdraw
<1>5. ASSUME NEW objects \in Prefixes, InvalidatePrefix(objects) PROVE D!DirNext
  <2> PICK dropped : dropped = objects \cap DOMAIN metadata
    OBVIOUS
  <2>1. RemoveObjects(dropped) /\ UNCHANGED lastSeen
    BY <1>5 DEF InvalidatePrefix
  <2> QED
    BY <2>1, RemoveObjectsIsWithdraw
<1>6. ASSUME PeriodicCleanup PROVE D!DirNext
  <2> PICK dead \in SUBSET Registered : dead = Dead
    BY DEF Dead
  <2>1. Evict(dead)
    BY <1>6 DEF PeriodicCleanup
  <2> QED
    BY <2>1, EvictIsWithdraw
<1>7. CASE Restart
  BY <1>7, RestartIsWithdraw
<1>8. ASSUME UNCHANGED storeVars PROVE UNCHANGED D!dirVars
  <2>1. UNCHANGED <<index, metadata, versions>> /\ Registered' = Registered
    BY <1>8 DEF storeVars, Registered
  <2> QED
    BY <2>1, DirUnchanged
<1>9. ASSUME NEW p \in Peers, NEW bytes \in Transfers, ReportTransfer(p, bytes)
      PROVE  UNCHANGED D!dirVars
  <2>1. UNCHANGED <<index, metadata, versions>> /\ Registered' = Registered
    BY <1>9 DEF ReportTransfer, Registered
  <2> QED
    BY <2>1, DirUnchanged
<1>10. CASE OtherStep
  <2>1. ASSUME NEW p \in Peers, NEW m \in Catalogue, PublishConflict(p, m)
        PROVE  UNCHANGED D!dirVars
    BY <1>8, <2>1 DEF PublishConflict
  <2>2. ASSUME NEW a \in Peers, NEW reason \in Reasons, NEW r \in Reporters,
               NEW o \in Objects, ReportBadPeer(a, reason, r, o)
        PROVE  UNCHANGED D!dirVars
    BY <1>8, <2>2 DEF ReportBadPeer
  <2>3. CASE PassTime
    BY <1>8, <2>3 DEF PassTime
  <2> QED
    BY <1>2, <1>3, <1>4, <1>5, <1>6, <1>7, <1>9, <1>10, <2>1, <2>2, <2>3 DEF OtherStep
<1>11. CASE UNCHANGED vars
  BY <1>8, <1>11 DEF vars, storeVars
<1> QED
  BY <1>1, <1>10, <1>11 DEF Next

\* The four dictionaries implement the directory: an object is known exactly
\* while a member advertises it, members leave with all their adverts, and the
\* current version of an object has one content (store.py:51-105, 167-193,
\* 250-282).
THEOREM CoordinatorImplementsDirectory == Spec => ImplementsDirectory
<1>1. Init => D!DirInit
  <2> SUFFICES ASSUME Init PROVE D!DirInit
    OBVIOUS
  <2>1. lastSeen = Empty /\ index = Empty /\ metadata = Empty
    BY DEF Init
  <2>2. Registered = {} /\ Adverts = {}
    BY <2>1 DEF Registered, Adverts, Empty
  <2> QED
    BY <2>1, <2>2 DEF D!DirInit, Empty
<1> QED
  BY <1>1, StepIsDirStep, StoreInvariant, PTL DEF Spec, ImplementsDirectory, D!DirSpec

-----------------------------------------------------------------------------
(***************************************************************************)
(* With the history: why two listed providers of one version of an object  *)
(* agree about its content, for any peers, objects and metadata.           *)
(***************************************************************************)
\* What is claimed of an object agrees with what is stored of it: two claims agree
\* because both agree with the metadata in force.
ClaimsAgree ==
    \A c \in DOMAIN claims :
        /\ c[2] \in DOMAIN metadata
        /\ claims[c].version = metadata[c[2]].version
        /\ claims[c].content = metadata[c[2]].content

HistoryInv == StoreInv /\ ClaimsAgree

LEMMA RestrictFacts ==
    ASSUME NEW f, NEW S
    PROVE  DOMAIN Restrict(f, S) = S /\ \A x \in S : Restrict(f, S)[x] = f[x]
  BY DEF Restrict

LEMMA WhatRemains ==
    ASSUME NEW f, NEW S, NEW g, g = Without(f, S)
    PROVE  \A x \in DOMAIN g : x \in DOMAIN f /\ g[x] = f[x]
  BY DEF Without, Restrict

\* What is still listed after any other step is described as before.
LEMMA DescriptionsKept ==
    ASSUME StoreInv, OtherStep, ~Restart
    PROVE  \A o \in DOMAIN metadata' : o \in DOMAIN metadata /\ metadata'[o] = metadata[o]
  <1>1. ASSUME NEW objects, RemoveObjects(objects)
        PROVE  \A o \in DOMAIN metadata' : o \in DOMAIN metadata /\ metadata'[o] = metadata[o]
    <2>1. metadata' = Without(metadata, objects)
      BY <1>1 DEF RemoveObjects
    <2> QED
      BY <2>1, WhatRemains
  <1>2. CASE PeriodicCleanup
    <2>1. PICK gone : gone = {o \in DOMAIN index : index[o] \subseteq Dead}
                                 \cup {o \in DOMAIN metadata : Expired(metadata[o])}
      OBVIOUS
    <2>2. metadata' = Without(metadata, gone)
      BY <1>2, <2>1 DEF PeriodicCleanup, Evict
    <2> QED
      BY <2>2, WhatRemains
  <1>3. CASE \E o \in Objects : LookupExpired(o) \/ Invalidate(o)
    BY <1>1, <1>3 DEF LookupExpired, Invalidate
  <1>4. CASE \E objects \in Prefixes : InvalidatePrefix(objects)
    BY <1>1, <1>4 DEF InvalidatePrefix
  <1>5. CASE \/ \E p \in Peers : Register(p) \/ Heartbeat(p)
             \/ \E p \in Peers, bytes \in Transfers : ReportTransfer(p, bytes)
    BY <1>5 DEF Register, Heartbeat, ReportTransfer
  <1>6. CASE \/ \E p \in Peers, m \in Catalogue : PublishConflict(p, m)
             \/ \E accused \in Peers, reason \in Reasons,
                   reporter \in Reporters, object \in Objects :
                     ReportBadPeer(accused, reason, reporter, object)
             \/ PassTime
    BY <1>6 DEF PublishConflict, ReportBadPeer, PassTime, storeVars
  <1> QED
    BY <1>2, <1>3, <1>4, <1>5, <1>6 DEF OtherStep

LEMMA PublishAgrees ==
    ASSUME HistoryInv, NEW p \in Peers, NEW m \in Catalogue, Publish(p, m),
           claims' = Bind(Restrict(claims, NotSuperseded(m)), <<p, m.object>>, m)
    PROVE  ClaimsAgree'
  <1>1. metadata' = Bind(metadata, m.object, m) /\ ~ConflictsWithCurrent(m)
    BY DEF Publish
  <1>2. /\ DOMAIN metadata' = DOMAIN metadata \cup {m.object}
        /\ \A o \in DOMAIN metadata' : metadata'[o] = IF o = m.object THEN m ELSE metadata[o]
    BY <1>1 DEF Bind
  <1>3. PICK own : own = <<p, m.object>> /\ own[2] = m.object
    OBVIOUS
  <1>4. /\ DOMAIN claims' = NotSuperseded(m) \cup {own}
        /\ \A c \in DOMAIN claims' : claims'[c] = IF c = own THEN m ELSE claims[c]
    BY <1>3, RestrictFacts DEF Bind
  <1>5. ASSUME NEW c \in NotSuperseded(m), c[2] = m.object
        PROVE  claims[c].version = m.version /\ claims[c].content = m.content
    <2>1. /\ c[2] \in DOMAIN metadata /\ claims[c].version = m.version
          /\ claims[c].version = metadata[m.object].version
          /\ claims[c].content = metadata[m.object].content
      BY <1>5 DEF NotSuperseded, HistoryInv, ClaimsAgree
    <2>2. ~Conflicts(metadata[m.object], m)
      BY <1>1, <1>5, <2>1 DEF ConflictsWithCurrent
    <2> QED
      BY <2>1, <2>2 DEF Conflicts
  <1>6. ASSUME NEW c \in DOMAIN claims'
        PROVE  /\ c[2] \in DOMAIN metadata'
               /\ claims'[c].version = metadata'[c[2]].version
               /\ claims'[c].content = metadata'[c[2]].content
    <2>1. CASE c = own
      BY <1>2, <1>3, <1>4, <2>1
    <2>2. CASE c # own /\ c[2] = m.object
      BY <1>2, <1>4, <1>5, <2>2
    <2>3. CASE c # own /\ c[2] # m.object
      BY <1>2, <1>4, <2>3 DEF NotSuperseded, HistoryInv, ClaimsAgree
    <2> QED
      BY <2>1, <2>2, <2>3
  <1> QED
    BY <1>6 DEF ClaimsAgree

LEMMA HistoryInvKept == HistoryInv /\ [HistoryNext]_historyVars => HistoryInv'
  <1> SUFFICES ASSUME HistoryInv, [HistoryNext]_historyVars
               PROVE  HistoryInv'
    OBVIOUS
  <1>1. StoreInv'
    <2>1. Restart => OtherStep
      BY DEF OtherStep
    <2>2. [Next]_vars
      BY <2>1 DEF HistoryNext, historyVars, Next
    <2> QED
      BY <2>2, StoreNextInv DEF HistoryInv
  <1>2. CASE \E p \in Peers, m \in Catalogue :
                /\ Publish(p, m)
                /\ claims' = Bind(Restrict(claims, NotSuperseded(m)), <<p, m.object>>, m)
    <2>1. PICK p \in Peers, m \in Catalogue :
              /\ Publish(p, m)
              /\ claims' = Bind(Restrict(claims, NotSuperseded(m)), <<p, m.object>>, m)
      BY <1>2
    <2>2. ClaimsAgree'
      BY <2>1, PublishAgrees, Zenon
    <2> QED
      BY <1>1, <2>2 DEF HistoryInv
  <1>3. CASE OtherStep /\ ~Restart /\ claims' = Restrict(claims, StillListed)
    <2>1. /\ DOMAIN claims' = StillListed
          /\ \A c \in StillListed : claims'[c] = claims[c]
      BY <1>3, RestrictFacts
    <2>2. DOMAIN index' = DOMAIN metadata'
      BY <1>1 DEF StoreInv, StoreIsConsistent
    <2>3. \A c \in StillListed : c \in DOMAIN claims /\ c[2] \in DOMAIN metadata'
      BY <2>2 DEF StillListed
    <2>4. \A o \in DOMAIN metadata' : o \in DOMAIN metadata /\ metadata'[o] = metadata[o]
      BY <1>3, DescriptionsKept DEF HistoryInv
    <2>5. ClaimsAgree'
      BY <2>1, <2>3, <2>4 DEF HistoryInv, ClaimsAgree
    <2> QED
      BY <1>1, <2>5 DEF HistoryInv
  <1>4. CASE claims' = Empty
    <2>1. ClaimsAgree'
      BY <1>4 DEF ClaimsAgree, Empty
    <2> QED
      BY <1>1, <2>1 DEF HistoryInv
  <1>5. CASE UNCHANGED historyVars
    <2>1. UNCHANGED <<metadata, claims>>
      BY <1>5 DEF historyVars, vars
    <2>2. ClaimsAgree'
      BY <2>1 DEF HistoryInv, ClaimsAgree
    <2> QED
      BY <1>1, <2>2 DEF HistoryInv
  <1> QED
    BY <1>2, <1>3, <1>4, <1>5 DEF HistoryNext

\* As long as no other version is published, two listed providers of one version
\* were accepted with the same content (store.py:85-97).
THEOREM OneContent == HistorySpec => []OneContentPerVersion
  <1>1. HistoryInit => HistoryInv
    BY StoreInitInv DEF HistoryInit, HistoryInv, ClaimsAgree, Empty
  <1>2. HistoryInv => OneContentPerVersion
    BY DEF HistoryInv, ClaimsAgree, OneContentPerVersion
  <1> QED
    BY <1>1, <1>2, HistoryInvKept, PTL DEF HistorySpec
=============================================================================
