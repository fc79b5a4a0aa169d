------------------------------ MODULE JobLife ------------------------------
(***************************************************************************)
(* What a job market promises its clients: a job comes in with the status  *)
(* its body gives, waits, is given to a worker and ends once, and it is    *)
(* paid for once, when an assigned job is completed.                       *)
(* One step of a market may move several jobs (a loop over the queue).     *)
(***************************************************************************)
EXTENDS Naturals

CONSTANT Jobs

VARIABLES status, paid   \* of each job; paid[j] counts payments

Arrivals == {<<"none", "PENDING">>, <<"none", "ASSIGNED">>, <<"none", "COMPLETED">>,
             <<"none", "FAILED">>, <<"none", "EXPIRED">>}
Moves == Arrivals \cup {<<"PENDING", "ASSIGNED">>, <<"PENDING", "EXPIRED">>, <<"ASSIGNED", "FAILED">>}

Init ==
    /\ status = [j \in Jobs |-> "none"]
    /\ paid = [j \in Jobs |-> 0]

Step(j) ==
    \/ status'[j] = status[j] /\ paid'[j] = paid[j]
    \/ <<status[j], status'[j]>> \in Moves /\ paid'[j] = paid[j]
    \/ status[j] = "ASSIGNED" /\ status'[j] = "COMPLETED" /\ paid'[j] = paid[j] + 1

Next == \A j \in Jobs : Step(j)

Spec == Init /\ [][Next]_<<status, paid>>
=============================================================================
