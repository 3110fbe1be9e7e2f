-------------------------------- MODULE Runner --------------------------------
(***************************************************************************)
(* The experiment runner (experiments/runner.py): it resets the stack,     *)
(* executes a scenario's events one after the other against the services,  *)
(* through docker compose or kubectl, and writes the results.  On          *)
(* Kubernetes it reaches the services through port forwards, processes it  *)
(* starts and stops.  Meanwhile pods are replaced and containers die.      *)
(*                                                                         *)
(* Abstractions.  Docker and Kubernetes are external: a service is up or   *)
(* not, attached to the network or not, and has a queueing discipline; a   *)
(* command has its effect or fails without one, for instance by its        *)
(* timeout.  A pod that is scaled down goes later, and until then may take *)
(* the forwards and commands for its service; several pods of one service  *)
(* on their way out go together.  A poll for readiness ends in success if  *)
(* the service can be reached, and in the error of its deadline if not.    *)
(* Events that start late change nothing here, so time is only in the      *)
(* plan.  What one call does to the index or the caches is left to the     *)
(* other modules.  Of the DHT's bootstrap node, which has no forward and   *)
(* no health check, nothing is modelled.                                   *)
(***************************************************************************)
EXTENDS Workload

CONSTANTS
    Peers,
    Coordinator, Origin,
    Orchestrators,        \* "docker-compose", "kubernetes"
    Specs,                \* specifications: sequences of scenarios
    Latencies,            \* of a fetch that succeeds
    MaxFaults             \* bound on commands that fail and on pods lost

Services == Peers \cup {Coordinator, Origin}

\* What a specification may ask for.
Actions == {"fetch", "sleep", "invalidate", "kill", "restart", "disconnect", "connect",
            "delay", "clear_delay"}

Scenarios ==
    [reset : BOOLEAN,
     steps : Seq([action : Actions \cup {"wait"}, target : Services, seconds : Nat]),
     requests : Seq([count : Nat, peers : SUBSET Peers, start : Nat, end : Nat]),
     churn : Seq([kind : {"independent"}, count : Nat, peers : SUBSET Peers,
                  start : Nat, end : Nat, downtime : Nat]
                 \cup [kind : {"correlated"},
                       events : Seq([at : Nat, peers : Seq(Peers), downtime : Nat])])]

ASSUME RunnerAssumption ==
    /\ Coordinator \notin Peers /\ Origin \notin Peers
    /\ IsFiniteSet(Peers)
    /\ MaxFaults \in Nat
    /\ Latencies \subseteq Nat
    /\ Specs \subseteq Seq(Scenarios)
    /\ Orchestrators \subseteq {"docker-compose", "kubernetes"}

VARIABLES
    orchestrator,
    authorised,           \* no token is asked for, or the runner has one
    place,                \* where run and run_scenario are
    ahead,                \* the scenarios still to run
    scenario, plan,       \* the one that runs, and its events
    results,              \* of the events executed so far
    files,                \* the summaries written
    todo,                 \* services a reset has still to stop or to start
    up, attached, qdisc,  \* the services; up is a pod or container that is to stay
    leaving,              \* services with a pod scaled down that is not gone yet
    missed,               \* history: services whose pod on its way out has taken a
                          \* command, or the forward that was for its successor
    live,                 \* services with a port forward that is alive
    stray,                \* forwards alive that the runner has lost track of
    disturbed,            \* history: services that failed of themselves
    faults

stackVars == <<up, attached, qdisc, leaving, missed>>
forwardVars == <<live, stray>>
vars == <<orchestrator, authorised, place, ahead, scenario, plan, results, files, todo,
          up, attached, qdisc, leaving, missed, live, stray, disturbed, faults>>

Kubernetes == orchestrator = "kubernetes"

\* There is a pod or a container to run a command in.
Running(s) == up[s] \/ s \in leaving

\* The runner's requests go through the forward, into the pod's own loopback, or
\* to the port the container publishes on its network.
Reachable(s) == Running(s) /\ IF Kubernetes THEN s \in live ELSE attached[s]

\* To be reached once the port forwards have been started, if none is alive.
WithinReach(s) == IF Kubernetes /\ live = {} THEN up[s] ELSE Reachable(s)

\* /health asks for no token; everything else does.
Served(s) == Reachable(s) /\ authorised

Fault ==
    /\ faults < MaxFaults                                      \* bound
    /\ faults' = faults + 1

-----------------------------------------------------------------------------
(***************************************************************************)
(* Port forwards, given which services are up and which have a pod on its  *)
(* way out.  A forward to a service without a pod exits at once; one to a  *)
(* service whose only pod is on its way out may come up.                   *)
(***************************************************************************)
UpAmong(upNow) == {s \in Services : upNow[s]}

Forwarded(upNow, leavingNow) == {UpAmong(upNow) \cup held : held \in SUBSET leavingNow}

\* Mutant: started again though some are alive.
MutStartForwards(upNow, leavingNow) ==
    IF ~Kubernetes THEN UNCHANGED forwardVars
    ELSE live' \in Forwarded(upNow, leavingNow) /\ stray' = stray \cup live

\* _start_port_forwards
StartForwards(upNow, leavingNow) ==
    IF ~Kubernetes \/ live # {} THEN UNCHANGED forwardVars
    ELSE live' \in Forwarded(upNow, leavingNow) /\ UNCHANGED stray

\* Mutant: what is alive is left as it is, and only started if nothing is.
MutRestartForwards(upNow, leavingNow) == StartForwards(upNow, leavingNow)

\* _restart_port_forwards
RestartForwards(upNow, leavingNow) ==
    IF ~Kubernetes THEN UNCHANGED forwardVars
    ELSE live' \in Forwarded(upNow, leavingNow) /\ UNCHANGED stray

\* An exception leaves run, which stops the forwards on its way out.
Abort ==
    /\ place' = "over"
    /\ live' = {}
    /\ UNCHANGED <<ahead, scenario, plan, results, files, todo, stackVars, stray>>

-----------------------------------------------------------------------------
(***************************************************************************)
(* run and run_scenario.                                                   *)
(***************************************************************************)
AtPlace(p) == place = p /\ UNCHANGED <<orchestrator, authorised, disturbed>>

\* _preflight_auth_check: without an answer the runner goes on.
Preflight ==
    /\ AtPlace("preflight")
    /\ StartForwards(up, leaving)
    /\ place' = "checking"
    /\ UNCHANGED <<ahead, scenario, plan, results, files, todo, stackVars, faults>>

Checked ==
    /\ AtPlace("checking")
    /\ authorised \/ ~Reachable(Coordinator)
    /\ place' = "next"
    /\ UNCHANGED <<ahead, scenario, plan, results, files, todo, stackVars, forwardVars, faults>>

Refused ==
    /\ AtPlace("checking")
    /\ ~authorised
    /\ Reachable(Coordinator)
    /\ Abort
    /\ UNCHANGED faults

\* Mutant: the results of the scenario before are kept.
MutBegin ==
    /\ AtPlace("next")
    /\ ahead # <<>>
    /\ LET next == Head(ahead) IN
       /\ scenario' = next
       /\ place' = IF next.reset THEN "stopping" ELSE "planning"
       /\ todo' = IF next.reset THEN Services ELSE {}
       /\ live' = IF next.reset THEN {} ELSE live
    /\ ahead' = Tail(ahead)
    /\ UNCHANGED <<plan, results, files, stackVars, stray, faults>>

Begin ==
    /\ AtPlace("next")
    /\ ahead # <<>>
    /\ LET next == Head(ahead) IN
       /\ scenario' = next
       /\ place' = IF next.reset THEN "stopping" ELSE "planning"
       /\ todo' = IF next.reset THEN Services ELSE {}
       /\ live' = IF next.reset THEN {} ELSE live
    /\ ahead' = Tail(ahead)
    /\ results' = <<>>
    /\ UNCHANGED <<plan, files, stackVars, stray, faults>>

\* The scenarios are done.
End ==
    /\ AtPlace("next")
    /\ ahead = <<>>
    /\ Abort
    /\ UNCHANGED faults

\* _stop_service and _start_service, as a scenario's reset and its events do.
\* The forwards are started again while the pod that is scaled down still leaves.
\* A container that is stopped keeps its network; a pod and a container that are
\* started have no queueing discipline.
Stop(s) ==
    /\ up' = [up EXCEPT ![s] = FALSE]
    /\ qdisc' = [qdisc EXCEPT ![s] = "none"]
    /\ leaving' = IF Kubernetes /\ up[s] THEN leaving \cup {s} ELSE leaving
    /\ RestartForwards(up', leaving')
    /\ UNCHANGED <<attached, missed>>

\* Compose starts what a container depends on, too.
Starts(s) == IF Kubernetes \/ s \notin Peers THEN {s} ELSE {s, Coordinator, Origin}

Go(s) ==
    /\ up' = [x \in Services |-> up[x] \/ x \in Starts(s)]
    /\ RestartForwards(up', leaving)
    /\ UNCHANGED <<attached, qdisc, leaving, missed>>

\* _reset_stack on Kubernetes: each is stopped, then each is started.
ResetPod(s) ==
    /\ Kubernetes
    /\ s \in todo
    /\ \/ /\ AtPlace("stopping")
          /\ Stop(s)
          /\ IF todo = {s} THEN todo' = Services /\ place' = "starting"
             ELSE todo' = todo \ {s} /\ UNCHANGED place
       \/ /\ AtPlace("starting")
          /\ Go(s)
          /\ todo' = todo \ {s}
          /\ place' = IF todo = {s} THEN "waiting" ELSE place
    /\ UNCHANGED <<ahead, scenario, plan, results, files, faults>>

\* compose down, compose up: new containers on a new network.
ResetCompose ==
    /\ ~Kubernetes
    /\ AtPlace("stopping")
    /\ up' = [s \in Services |-> TRUE]
    /\ attached' = [s \in Services |-> TRUE]
    /\ qdisc' = [s \in Services |-> "none"]
    /\ todo' = {}
    /\ place' = "waiting"
    /\ UNCHANGED <<ahead, scenario, plan, results, files, leaving, missed, forwardVars, faults>>

ResetFailed ==
    /\ place \in {"stopping", "starting"}
    /\ AtPlace(place)
    /\ Fault
    /\ Abort

\* Mutant: polling has no deadline.
MutStackReady ==
    /\ AtPlace("waiting")
    /\ \A s \in Services : WithinReach(s)
    /\ place' = "planning"
    /\ StartForwards(up, leaving)
    /\ UNCHANGED <<ahead, scenario, plan, results, files, todo, stackVars, faults>>

\* _wait_for_stack_ready
StackReady ==
    /\ AtPlace("waiting")
    /\ IF \A s \in Services : WithinReach(s)
       THEN /\ place' = "planning"
            /\ StartForwards(up, leaving)
            /\ UNCHANGED <<ahead, scenario, plan, results, files, todo, stackVars>>
       ELSE Abort
    /\ UNCHANGED faults

Plan ==
    /\ AtPlace("planning")
    /\ plan' \in Plans(scenario)
    /\ place' = "events"
    /\ UNCHANGED <<ahead, scenario, results, files, todo, stackVars, forwardVars, faults>>

-----------------------------------------------------------------------------
(***************************************************************************)
(* _execute_event: what each action does, in turn, and the result it       *)
(* leaves.  An event that raises leaves none and ends the run.             *)
(***************************************************************************)
Current == plan[Len(results) + 1]

Outcome(status, source, latency) ==
    [event |-> Current, status |-> status, source |-> source, latency |-> latency]

Result(status) == Outcome(status, "none", 0)

Executing(actions) ==
    /\ AtPlace("events")
    /\ Len(results) < Len(plan)
    /\ Current.action \in actions

Record(result) ==
    /\ results' = Append(results, result)
    /\ UNCHANGED <<place, ahead, scenario, plan, files, todo>>

Target == Current.target

\* A fetch that fails is a result like any other.
Fetch ==
    /\ Executing({"fetch"})
    /\ \/ /\ Served(Target)
          /\ \E source \in Sources, latency \in Latencies :
                Record(Outcome("success", source, latency))
       \/ Record(Result("failed"))
    /\ UNCHANGED <<stackVars, forwardVars, faults>>

\* invalidate, invalidate_prefix and revalidate, at the coordinator; sleep.
Invalidate ==
    /\ Executing({"invalidate"})
    /\ IF Served(Coordinator)
       THEN Record(Result("done")) /\ UNCHANGED <<stackVars, forwardVars>>
       ELSE Abort
    /\ UNCHANGED faults

Sleep ==
    /\ Executing({"sleep"})
    /\ Record(Result("done"))
    /\ UNCHANGED <<stackVars, forwardVars, faults>>

\* Mutant: a pod, too, is asked to exit.  Kubernetes replaces it.
MutKill ==
    /\ Executing({"kill"})
    /\ Record(Result("done"))
    /\ \/ /\ ~Kubernetes
          /\ Target \notin Peers \/ Served(Target)
          /\ Stop(Target)
       \/ /\ Kubernetes \/ ~Served(Target)
          /\ UNCHANGED <<stackVars, forwardVars>>
    /\ UNCHANGED faults

\* A service is stopped; so is a peer's pod.  A peer's container is asked to exit,
\* and whether it did is not looked at.
Kill ==
    /\ Executing({"kill"})
    /\ Record(Result("done"))
    /\ \/ /\ Kubernetes \/ Target \notin Peers \/ Served(Target)
          /\ Stop(Target)
       \/ /\ ~Kubernetes /\ Target \in Peers /\ ~Served(Target)
          /\ UNCHANGED <<stackVars, forwardVars>>
    /\ UNCHANGED faults

\* Started and ready, or started and given up on, as when it was the pod on its way
\* out that the new forward led to.
Restart ==
    /\ Executing({"restart"})
    /\ Go(Target)
    /\ \/ /\ Kubernetes \/ attached[Target]
          /\ Record(Result("done"))
       \/ /\ Target \in leaving \/ (~Kubernetes /\ ~attached[Target])
          /\ place' = "closing"
          /\ UNCHANGED <<ahead, scenario, plan, results, files, todo>>
    /\ UNCHANGED faults

\* kubectl exec runs in any of the service's pods, one on its way out included.
Shape(discipline) ==
    /\ \/ /\ up[Target] \/ Target \notin leaving
          /\ qdisc' = [qdisc EXCEPT ![Target] = discipline]
          /\ UNCHANGED missed
       \/ /\ Target \in leaving
          /\ missed' = missed \cup {Target}
          /\ UNCHANGED qdisc
    /\ UNCHANGED <<up, attached, leaving, forwardVars>>

\* Kubernetes cuts a pod off with the one discipline that delays it, too.  A
\* container loses its interface, and what shaped it.
Disconnect ==
    /\ Executing({"disconnect"})
    /\ IF Running(Target) /\ attached[Target]
       THEN /\ Record(Result("done"))
            /\ IF Kubernetes THEN Shape("loss")
               ELSE /\ attached' = [attached EXCEPT ![Target] = FALSE]
                    /\ qdisc' = [qdisc EXCEPT ![Target] = "none"]
                    /\ UNCHANGED <<up, leaving, missed, forwardVars>>
       ELSE Abort
    /\ UNCHANGED faults

\* To delete what is not there is no error; to attach what is attached is one.
\* Only of the coordinator and the origin is the health asked for.
Connect ==
    /\ Executing({"connect"})
    /\ IF Kubernetes THEN Shape("none")
       ELSE /\ attached' = [attached EXCEPT ![Target] = @ \/ up[Target]]
            /\ UNCHANGED <<up, qdisc, leaving, missed, forwardVars>>
    /\ IF /\ Kubernetes \/ (up[Target] /\ ~attached[Target])
          /\ Target \in Peers \/ Reachable(Target) \/ (~Kubernetes /\ up[Target])
       THEN Record(Result("done"))
       ELSE place' = "closing" /\ UNCHANGED <<ahead, scenario, plan, results, files, todo>>
    /\ UNCHANGED faults

\* Without an interface there is nothing to delay.
Delay ==
    /\ Executing({"delay"})
    /\ IF Running(Target) /\ attached[Target] THEN Record(Result("done")) /\ Shape("delay")
       ELSE Abort
    /\ UNCHANGED faults

\* To delete what is not there is no error, but a container that is not there is.
ClearDelay ==
    /\ Executing({"clear_delay"})
    /\ IF Kubernetes \/ up[Target] THEN Record(Result("done")) /\ Shape("none") ELSE Abort
    /\ UNCHANGED faults

\* A command of the event fails, or does not end in time; a container's exit, as
\* said, is not looked at.
EventFailed ==
    /\ Executing({"kill", "restart", "disconnect", "connect", "delay", "clear_delay",
                  "invalidate"})
    /\ Kubernetes \/ Current.action # "kill" \/ Target \notin Peers
    /\ Fault
    /\ Abort

\* An event that has raised.
Raised ==
    /\ AtPlace("closing")
    /\ Abort
    /\ UNCHANGED faults

\* The statistics of the peers that answer are collected, and the file written.
Write ==
    /\ AtPlace("events")
    /\ Len(results) = Len(plan)
    /\ files' = Append(files, [summary |-> Summary(results),
                               stats |-> {p \in Peers : Served(p)}])
    /\ place' = "next"
    /\ UNCHANGED <<ahead, scenario, plan, results, todo, stackVars, forwardVars, faults>>

-----------------------------------------------------------------------------
\* A container dies; a pod dies and is replaced, and the forward to it is dead.
Lost(s) ==
    /\ place # "over"
    /\ up[s]
    /\ Fault
    /\ up' = [up EXCEPT ![s] = Kubernetes]
    /\ qdisc' = [qdisc EXCEPT ![s] = "none"]
    /\ live' = live \ {s}
    /\ disturbed' = disturbed \cup {s}
    /\ UNCHANGED <<orchestrator, authorised, place, ahead, scenario, plan, results, files, todo,
                   attached, leaving, missed, stray>>

\* The pods of a service that were on their way out are gone, with the forwards to
\* them: the last one if there is no other pod, and that to another if it was theirs.
Gone(s) ==
    /\ place # "over"
    /\ s \in leaving
    /\ leaving' = leaving \ {s}
    /\ \/ /\ up[s]
          /\ UNCHANGED <<live, missed>>
       \/ /\ live' = live \ {s}
          /\ missed' = IF up[s] THEN missed \cup {s} ELSE missed
    /\ UNCHANGED <<orchestrator, authorised, place, ahead, scenario, plan, results, files, todo,
                   up, attached, qdisc, stray, disturbed, faults>>

NoScenario == [reset |-> FALSE, steps |-> <<>>, requests |-> <<>>, churn |-> <<>>]

Init ==
    /\ orchestrator \in Orchestrators
    /\ authorised \in BOOLEAN
    /\ place = "preflight"
    /\ ahead \in Specs
    /\ scenario = NoScenario
    /\ plan = <<>>
    /\ results = <<>>
    /\ files = <<>>
    /\ todo = {}
    /\ up \in {[s \in Services |-> b] : b \in BOOLEAN}
    /\ attached = [s \in Services |-> TRUE]
    /\ qdisc = [s \in Services |-> "none"]
    /\ leaving = {}
    /\ missed = {}
    /\ live = {}
    /\ stray = {}
    /\ disturbed = {}
    /\ faults = 0

RunnerStep ==
    \/ Preflight \/ Checked \/ Refused \/ End
    \/ Begin
    \/ \E s \in Services : ResetPod(s)
    \/ ResetCompose \/ ResetFailed \/ StackReady \/ Plan
    \/ Fetch \/ Invalidate \/ Sleep \/ Kill \/ Restart
    \/ Disconnect \/ Connect \/ Delay \/ ClearDelay
    \/ EventFailed \/ Raised \/ Write

Next == RunnerStep \/ \E s \in Services : Lost(s) \/ Gone(s)

\* The runner runs on: requests, commands and polls all have a deadline.
Spec == Init /\ [][Next]_vars /\ WF_vars(RunnerStep)

-----------------------------------------------------------------------------
Places == {"preflight", "checking", "next", "stopping", "starting", "waiting",
           "planning", "events", "closing", "over"}

Statistics == [min : Nat, mean : Nat, median : Nat, p95 : Nat, max : Nat]

Summaries == [fetches : Nat, successes : Nat, failures : Nat,
              sources : [Sources -> Nat], latencies : Statistics]

\* Type invariant.
RunnerTypeOK ==
    /\ orchestrator \in Orchestrators
    /\ authorised \in BOOLEAN
    /\ place \in Places
    /\ \A i \in DOMAIN ahead : ahead[i].reset \in BOOLEAN
    /\ place = "events" =>
          /\ Len(results) <= Len(plan)
          /\ \A i \in DOMAIN results : results[i].event = plan[i]
    /\ \A i \in DOMAIN files :
          files[i].summary \in Summaries /\ files[i].stats \subseteq Peers
    /\ todo \subseteq Services
    /\ up \in [Services -> BOOLEAN]
    /\ attached \in [Services -> BOOLEAN]
    /\ qdisc \in [Services -> {"none", "loss", "delay"}]
    /\ live \cup stray \cup disturbed \cup leaving \cup missed \subseteq Services
    /\ faults \in 0..MaxFaults

\* Explicit steps are executed in the order they are written in, but for those
\* between which no time passes: of these, the higher priority goes first.  None is
\* lost and none comes twice (runner.py:209-223, 1012-1025).
PlanKeepsScript ==
    place = "events" /\ results = <<>> /\ scenario.steps # <<>> =>
        LET steps == scenario.steps
            Waits(d, e) == \E k \in d..e : steps[k].action = "wait" /\ steps[k].seconds > 0
        IN  /\ \A k \in DOMAIN steps : steps[k].action # "wait" =>
                  Cardinality({i \in DOMAIN plan : plan[i].step = k}) = 1
            /\ \A i, j \in DOMAIN plan :
                  i < j /\ plan[j].step < plan[i].step =>
                      /\ ~Waits(plan[j].step, plan[i].step)
                      /\ Priority(plan[i].action) < Priority(plan[j].action)

-----------------------------------------------------------------------------
(***************************************************************************)
(* What the results written so far say of a service.                       *)
(***************************************************************************)
Done(s, actions, i) ==
    results[i].event.target = s /\ results[i].event.action \in actions

\* By the nth result something was done to the service, and not undone since.
Since(s, actions, undone, n) ==
    \E i \in 1..n : /\ Done(s, actions, i)
                    /\ \A j \in (i + 1)..n : ~Done(s, undone, j)

\* A peer's container that is cut off does not hear that it is to exit.
Heard(s, i) ==
    Kubernetes \/ s \notin Peers \/ ~Since(s, {"disconnect"}, {"connect"}, i)

Started(s, i) ==
    results[i].event.action = "restart" /\ s \in Starts(results[i].event.target)

Killed(s) ==
    \E i \in 1..Len(results) :
        /\ Done(s, {"kill"}, i) /\ Heard(s, i)
        /\ \A j \in (i + 1)..Len(results) : ~Started(s, j)

\* A pod has one queueing discipline, so that whatever sets or deletes it, or
\* replaces the pod, ends what cut the service off; a container's network outlives
\* all but a connect.
Mending == IF Kubernetes THEN {"connect", "delay", "clear_delay", "kill"} ELSE {"connect"}

Unslowing == {"clear_delay", "connect", "disconnect", "kill"}

Cut(s) == ~attached[s] \/ qdisc[s] = "loss"

AsScripted(s) ==
    /\ up[s] <=> ~Killed(s)
    /\ Cut(s) <=> Since(s, {"disconnect"}, Mending, Len(results))
    /\ qdisc[s] = "delay" <=> Since(s, {"delay"}, Unslowing, Len(results))

\* After every event of every script that began with a reset, in whatever order
\* services were killed, restarted, cut off, connected, slowed and unslowed, and
\* under either orchestrator, the results written so far tell which are down or on
\* their way out, cut off or slow: the last of the events that bear on it decides,
\* a kill that a cut-off container did not hear does not count, and a peer's
\* restart counts for the containers it depends on.  Of two kinds of services they
\* do not tell: those that failed of themselves, and those whose pod on its way
\* out took what was meant for its successor; nor do they without a token where one
\* is asked for (runner.py:494-659, 699-725, 773-812).
StackIsAsScripted ==
    place = "events" /\ scenario.reset /\ authorised =>
        \A s \in Services \ (disturbed \cup missed) : AsScripted(s)

\* Between events, every service that is up has a forward that works, though one
\* that is alive keeps the others from being started again, and every forward leads
\* to a pod: kills, restarts and resets leave none behind, unless the pod it led to
\* failed, or was on its way out (runner.py:712-725, 828-872).
UpIsForwarded ==
    Kubernetes /\ place \in {"checking", "next", "waiting", "planning", "events"} =>
        /\ UpAmong(up) \ (disturbed \cup missed) \subseteq live
        /\ \A s \in live : Running(s)

\* However the run ends, no process it started is left: whichever command, poll or
\* request fails, and with whichever forwards alive (runner.py:115-125, 834-872).
ForwardsAreStopped == place = "over" => live \cup stray = {}

\* The summary agrees with itself: the sources account for the successes, the
\* interpolated fiftieth percentile is the median, and minimum, median, 95th
\* percentile and maximum are in order (runner.py:934-991).
SummaryIsCoherent ==
    LET successes == {i \in DOMAIN results : results[i].status = "success"}
        ordered == Ordered([i \in successes |-> results[i].latency])
        summary == Summary(results)
        statistics == summary.latencies
    IN  place = "events" /\ Len(results) = Len(plan) =>
        /\ summary.fetches = summary.successes + summary.failures
        /\ summary.successes =
              summary.sources["cache"] + summary.sources["peer"] + summary.sources["origin"]
        /\ statistics.min <= statistics.median
        /\ statistics.median <= statistics.p95
        /\ statistics.p95 <= statistics.max
        /\ ordered # <<>> => Percentile(ordered, 50) = statistics.median

\* Every run comes to an end: what does not get ready is given up on
\* (runner.py:115-125, 911-928).
RunEnds == <>(place = "over")
=============================================================================
