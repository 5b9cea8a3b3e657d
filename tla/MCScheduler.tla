---------------------------- MODULE MCScheduler -----------------------------
(***************************************************************************)
(* Values for the constants of Scheduler: which requests the clients make  *)
(* under each ID.  Every set is a bound on the inputs of one question.     *)
(***************************************************************************)
EXTENDS Scheduler

Req(deps, elevel, slots, retries) ==
    [deps |-> deps, elevel |-> elevel, slots |-> slots, retries |-> retries]

\* A retrying job, a job after it (-D or -W), and one of any need.
MixedRequests ==
    [j \in Job |->
        CASE j = 0 -> {Req({}, FALSE, 1, 1)}
          [] j = 1 -> {Req({0}, b, 1, 0) : b \in BOOLEAN}
          [] OTHER -> {Req({}, FALSE, 2, 0), Req({0, 1}, TRUE, 0, 0)}]

\* A retrying job, one that needs both slots, and one after the first.
SteadyRequests ==
    [j \in Job |->
        CASE j = 0 -> {Req({}, FALSE, 1, 1)}
          [] j = 1 -> {Req({}, FALSE, 2, 0)}
          [] OTHER -> {Req({0}, TRUE, 1, 0)}]

\* A chain of -W: each job runs only if the one before it succeeds.
ChainRequests ==
    [j \in Job |-> {Req({d \in Job : d = j - 1}, TRUE, 1, 0)}]

\* max_finished when it is not set.
Unlimited == -1

=============================================================================
