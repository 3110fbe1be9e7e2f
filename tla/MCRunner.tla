------------------------------- MODULE MCRunner -------------------------------
(***************************************************************************)
(* A small instance of Runner: one peer, the coordinator and the origin;   *)
(* scripts of any two disturbances of the peer, and some longer ones after *)
(* another scenario, and random requests under churn.                      *)
(***************************************************************************)
EXTENDS Runner

CONSTANTS p1, coordinator, origin

MCPeers == {p1}

Step(action, target) == [action |-> action, target |-> target, seconds |-> 0]
Wait(seconds) == [Step("wait", p1) EXCEPT !.seconds = seconds]

Disturbances == {Step(a, p1) : a \in {"kill", "restart", "disconnect", "connect",
                                      "delay", "clear_delay"}}
Others == {Step("fetch", p1), Step("invalidate", coordinator)}
Restarts == {Step(a, s) : a \in {"kill", "restart"}, s \in {p1, coordinator}}

\* With time between two steps they are executed in the order they are written in;
\* without, the one of the higher priority goes first.
Pairs == {<<a, Wait(1), b>> : a, b \in Disturbances}
         \cup {<<a, b>> : a \in Others, b \in Restarts}
         \cup {<<a, Wait(1), b>> : a \in {Step("kill", coordinator)}, b \in Restarts}

Then(actions) == [i \in 1..(2 * Len(actions) - 1) |->
                    IF i % 2 = 1 THEN Step(actions[(i + 1) \div 2], p1) ELSE Wait(1)]

\* Several disturbances of one service, each with time to bear on the next.
Longer == {
    Then(<<"disconnect", "delay", "connect">>),
    Then(<<"delay", "disconnect", "connect">>),
    Then(<<"disconnect", "connect", "kill", "restart">>),
    Then(<<"disconnect", "kill", "connect", "fetch">>),
    Then(<<"delay", "kill", "restart", "clear_delay">>),
    Then(<<"kill", "restart", "disconnect", "kill">>),
    <<Step("kill", p1), Step("kill", coordinator), Wait(1),
      Step("restart", p1), Step("fetch", p1)>>}

Script(steps) == [NoScenario EXCEPT !.reset = TRUE, !.steps = steps]
Pause == [NoScenario EXCEPT !.steps = <<Step("sleep", p1)>>]

Requests == [count |-> 2, peers |-> MCPeers, start |-> 0, end |-> 1]
RandomChurn == [kind |-> "independent", count |-> 2, peers |-> MCPeers, start |-> 0,
                end |-> 1, downtime |-> 1]
ClassExit == [kind |-> "correlated",
              events |-> <<[at |-> 1, peers |-> <<p1>>, downtime |-> 0]>>]

Term == [NoScenario EXCEPT !.requests = <<Requests>>, !.churn = <<RandomChurn, ClassExit>>]
Break == [NoScenario EXCEPT !.reset = TRUE, !.churn = <<RandomChurn>>]
Exam == [NoScenario EXCEPT !.requests = <<Requests>>, !.churn = <<ClassExit>>]

MCSpecs == {<<Script(s)>> : s \in Pairs} \cup {<<Pause, Script(s)>> : s \in Longer}
           \cup {<<Term>>, <<Exam>>, <<Break>>}
=============================================================================
