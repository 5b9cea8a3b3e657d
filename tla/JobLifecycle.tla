---------------------------- MODULE JobLifecycle ----------------------------
(***************************************************************************)
(* What the queue promises to somebody who watches its jobs and knows      *)
(* nothing of goroutines, triggers and slots: a job is queued, starts only *)
(* when the jobs it was submitted after are over, runs again only as often *)
(* as it has retries, and what is over stays over.                         *)
(***************************************************************************)
EXTENDS Integers

CONSTANTS Job,       \* the IDs, handed out in increasing order
          Request,   \* records with deps, elevel and retries
          Outcome    \* how an attempt ends; "ok" is success

VARIABLES state, req, attempt, result

vars == <<state, req, attempt, result>>

Over == {j \in Job : state[j] \in {"finished", "skipped", "gone"}}

\* The dependencies that had an ID when j was submitted.
Earlier(j) == {d \in req[j].deps : d < j}

Init ==
    /\ state = [j \in Job |-> "none"]
    /\ attempt = [j \in Job |-> 0]
    /\ result = [j \in Job |-> "none"]

Submit(j) ==
    /\ state[j] = "none"
    /\ \A i \in Job : i < j => state[i] # "none"
    /\ state' = [state EXCEPT ![j] = "queued"]
    /\ \E r \in Request : req' = [req EXCEPT ![j] = r]
    /\ UNCHANGED <<attempt, result>>

Start(j) ==
    /\ state[j] = "queued"
    /\ Earlier(j) \subseteq Over
    /\ state' = [state EXCEPT ![j] = "running"]
    /\ UNCHANGED <<req, attempt, result>>

Retry(j) ==
    /\ state[j] = "running"
    /\ attempt[j] < req[j].retries
    /\ state' = [state EXCEPT ![j] = "queued"]
    /\ attempt' = [attempt EXCEPT ![j] = @ + 1]
    /\ UNCHANGED <<req, result>>

Finish(j, outcome) ==
    /\ state[j] = "running"
    /\ outcome # "ok" => attempt[j] >= req[j].retries
    /\ state' = [state EXCEPT ![j] = "finished"]
    /\ result' = [result EXCEPT ![j] = outcome]
    /\ UNCHANGED <<req, attempt>>

\* Only a dependency that failed or was itself skipped is a reason to skip.
Skip(j) ==
    /\ state[j] = "queued"
    /\ req[j].elevel
    /\ \E d \in req[j].deps : result[d] \in {"fail", "skipped"}
    /\ state' = [state EXCEPT ![j] = "skipped"]
    /\ result' = [result EXCEPT ![j] = "skipped"]
    /\ UNCHANGED <<req, attempt>>

\* Jobs that are not running may leave, some at a time.
Forget(J) ==
    /\ \A j \in J : state[j] \in {"queued", "finished", "skipped"}
    /\ state' = [j \in Job |-> IF j \in J THEN "gone" ELSE state[j]]
    /\ UNCHANGED <<req, attempt, result>>

Next ==
    \/ \E j \in Job :
          \/ Submit(j) \/ Start(j) \/ Retry(j) \/ Skip(j)
          \/ \E outcome \in Outcome : Finish(j, outcome)
    \/ \E J \in SUBSET Job : Forget(J)

Spec == Init /\ [][Next]_vars

=============================================================================
