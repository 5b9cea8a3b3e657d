------------------------------ MODULE JobQueue ------------------------------
(***************************************************************************)
(* The daemon's job table (internal/server/jobs.go).  Every method of      *)
(* JobQueue takes q.mu for its whole body, so each is one atomic action    *)
(* here.  The methods are written as actions over the queue's variables;   *)
(* the module Scheduler runs them from the scheduler's goroutine, the      *)
(* executor's goroutines and the connection handlers.                      *)
(*                                                                         *)
(* Without `:reset' an ID is never used twice, so an ID stands for its     *)
(* *Job.  A job the code has deleted from q.byID and q.jobs is "gone": its *)
(* attempt and result stay readable only as history.                       *)
(***************************************************************************)
EXTENDS Integers, FiniteSets

CONSTANTS
    MaxJobs,      \* bound: how many IDs are handed out
    MaxRetries,   \* bound: the largest --retries of a request
    MaxNeed,      \* bound: the largest -N of a request
    Client        \* the connections

ASSUME QueueAssumption ==
    /\ MaxJobs \in Nat \ {0}
    /\ MaxRetries \in Nat
    /\ MaxNeed \in Nat \ {0}

Job == 0..(MaxJobs - 1)
Attempt == 0..MaxRetries

\* What ends an attempt: exit code 0; a non-zero code, a signal or a start
\* failure; exit code 0 although the --timeout timer fired.
Outcome == {"ok", "fail", "timeout"}
Failed(outcome) == outcome # "ok"

\* A client's request, reduced to what scheduling looks at.
Request ==
    [deps : SUBSET Job, elevel : BOOLEAN, slots : 0..MaxNeed, retries : Attempt]

VARIABLES
    state,     \* JobInfo.State; "none": ID not allocated, "gone": dropped
    req,       \* the request the job was made from
    attempt,   \* JobInfo.Attempt
    result,    \* JobInfo.Result
    pos,       \* rank of the job in q.jobs
    nextID,    \* q.nextID
    waiters,   \* the clients holding a channel of Job.waitChs
    answer     \* what each client's channel holds

queueVars == <<state, req, attempt, result, pos, nextID, waiters, answer>>

States == {"none", "queued", "running", "finished", "skipped", "gone"}
Answers == Outcome \cup {"none", "skipped", "missing"}
NoRequest == [deps |-> {}, elevel |-> FALSE, slots |-> 1, retries |-> 0]

QueueTypeOK ==
    /\ state \in [Job -> States]
    /\ req \in [Job -> Request]
    /\ attempt \in [Job -> Attempt]
    /\ result \in [Job -> Outcome \cup {"none", "skipped"}]
    /\ pos \in [Job -> Job]
    /\ nextID \in 0..MaxJobs
    /\ waiters \in [Job -> SUBSET Client]
    /\ answer \in [Client -> Answers]

QueueInit ==
    /\ state = [j \in Job |-> "none"]
    /\ req = [j \in Job |-> NoRequest]
    /\ attempt = [j \in Job |-> 0]
    /\ result = [j \in Job |-> "none"]
    /\ pos = [j \in Job |-> 0]
    /\ nextID = 0
    /\ waiters = [j \in Job |-> {}]
    /\ answer = [c \in Client |-> "none"]

-----------------------------------------------------------------------------
\* What the methods read.

Present(j) == state[j] \notin {"none", "gone"}
Queued == {j \in Job : state[j] = "queued"}
Running == {j \in Job : state[j] = "running"}
Settled == {j \in Job : state[j] \in {"finished", "skipped"}}

\* q.lastID: 0 until the first Add, and then the ID that was added last.
LastID == IF nextID = 0 THEN 0 ELSE nextID - 1

\* Mutant: a dependency that has started counts as met.
DependenciesStarted(j) ==
    \A d \in req[j].deps : Present(d) => state[d] # "queued"

\* Mutant: a dependency that left the table is waited for.
DependenciesInTable(j) ==
    \A d \in req[j].deps : d \in Settled

\* A dependency that is not in q.byID, dropped or never submitted, counts as met.
DependenciesMet(j) ==
    \A d \in req[j].deps : Present(d) => d \in Settled

ShouldSkip(j) ==
    /\ req[j].elevel
    /\ \E d \in req[j].deps : \/ state[d] = "finished" /\ result[d] = "fail"
                              \/ state[d] = "skipped"

CheckSkippable == {j \in Queued : ShouldSkip(j)}

\* The slots of the running jobs, one pair per slot: their number is
\* BusySlots, the sum of NumSlots over the running jobs.
SlotsHeld(J) == {js \in J \X (1..MaxNeed) : js[2] <= req[js[1]].slots}
BusySlots == Cardinality(SlotsHeld(Running))

\* A job that needs more slots than there are needs all of them.
Need(j, max) == IF req[j].slots > max THEN max ELSE req[j].slots

\* Mutant: the scan for the next job forgets to pass over running ones.
IsHeadAnyState(j) ==
    /\ j \in Queued \cup Running
    /\ DependenciesMet(j)
    /\ \A k \in Queued \cup Running : DependenciesMet(k) => pos[j] <= pos[k]

\* The first queued job, in queue order, that waits for no other job.
IsHead(j) ==
    /\ j \in Queued
    /\ DependenciesMet(j)
    /\ \A k \in Queued : DependenciesMet(k) => pos[j] <= pos[k]

\* Mutant: one slot too many.
NextRunnableOneMore(j, max, busy) ==
    /\ IsHead(j)
    /\ Need(j, max) <= max - busy + 1

\* Mutant: the scan goes on past a job that waits for slots.
NextRunnableOvertaking(j, max, busy) ==
    /\ j \in Queued
    /\ DependenciesMet(j)
    /\ Need(j, max) <= max - busy
    /\ \A k \in Queued :
          DependenciesMet(k) /\ Need(k, max) <= max - busy => pos[j] <= pos[k]

\* NextRunnable answers j: the head, and only if its slots are free.
NextRunnable(j, max, busy) ==
    /\ IsHead(j)
    /\ Need(j, max) <= max - busy

-----------------------------------------------------------------------------
\* What the methods change.

\* AddWithOutputPath.  The ranks in use are below nextID, so the job is last.
Add(r) ==
    /\ nextID \in Job
    /\ state' = [state EXCEPT ![nextID] = "queued"]
    /\ req' = [req EXCEPT ![nextID] =
                  [r EXCEPT !.slots = IF r.slots < 1 THEN 1 ELSE r.slots]]
    /\ pos' = [pos EXCEPT ![nextID] = nextID]
    /\ nextID' = nextID + 1
    /\ UNCHANGED <<attempt, result, waiters, answer>>

\* Jobs leave the table, and with them the channels their waiters hold.
Drop(J) ==
    /\ state' = [j \in Job |-> IF j \in J THEN "gone" ELSE state[j]]
    /\ pos' = [j \in Job |-> IF j \in J THEN 0 ELSE pos[j]]
    /\ waiters' = [j \in Job |-> IF j \in J THEN {} ELSE waiters[j]]
    /\ UNCHANGED <<req, attempt, result, nextID, answer>>

Remove(j) ==
    /\ Present(j)
    /\ state[j] # "running"
    /\ Drop({j})

\* ClearFinished with J = Job; ClearFinishedInSession and DeleteSession with the
\* jobs J of one session.
ClearFinished(J) == Drop(Settled \cap J)

\* All settled jobs go but the last maxKeep of them in queue order.
PruneFinished(maxKeep) ==
    Drop({j \in Settled :
            Cardinality({k \in Settled : pos[k] > pos[j]}) >= maxKeep})

\* MakeUrgent moves a queued job to the rank of the first queued one and
\* everything between the two down by one.
MakeUrgent(j) ==
    /\ j \in Queued
    /\ \E first \in Queued :
          /\ \A k \in Queued : pos[first] <= pos[k]
          /\ pos' = [k \in Job |->
                CASE k = j -> pos[first]
                  [] k # j /\ Present(k) /\ pos[k] >= pos[first] /\ pos[k] < pos[j]
                       -> pos[k] + 1
                  [] OTHER -> pos[k]]
    /\ UNCHANGED <<state, req, attempt, result, nextID, waiters, answer>>

Swap(i, j) ==
    /\ Present(i)
    /\ Present(j)
    /\ pos' = [pos EXCEPT ![i] = pos[j], ![j] = pos[i]]
    /\ UNCHANGED <<state, req, attempt, result, nextID, waiters, answer>>

\* SetRunning asks only that the job still is in the table.
SetRunning(j) ==
    /\ state' = IF Present(j) THEN [state EXCEPT ![j] = "running"] ELSE state
    /\ UNCHANGED <<req, attempt, result, pos, nextID, waiters, answer>>

\* The end of MarkFinished and MarkSkipped: state, result, and the result
\* into the channel of every waiter.  A channel holds one value and its job
\* lets go of it here, so sending it after q.mu is released cannot be told
\* from sending it now.
Settle(j, how, r) ==
    /\ state' = [state EXCEPT ![j] = how]
    /\ result' = [result EXCEPT ![j] = r]
    /\ answer' = [c \in Client |-> IF c \in waiters[j] THEN r ELSE answer[c]]
    /\ waiters' = [waiters EXCEPT ![j] = {}]
    /\ UNCHANGED <<req, attempt, pos, nextID>>

MarkFinished(j, outcome) ==
    \/ Present(j) /\ Settle(j, "finished", outcome)
    \/ ~Present(j) /\ UNCHANGED queueVars

MarkSkipped(j) ==
    \/ Present(j) /\ Settle(j, "skipped", "skipped")
    \/ ~Present(j) /\ UNCHANGED queueVars

\* Mutant: the retries are never used up.
CanRequeueForever(j) == Present(j)

\* RequeueForRetry keeps the rank and the waiters.
CanRequeue(j) == Present(j) /\ attempt[j] < req[j].retries

\* Mutant: the waiters are told of the attempt that failed.
RequeueTellsWaiters(j) ==
    /\ CanRequeue(j)
    /\ attempt' = [attempt EXCEPT ![j] = @ + 1]
    /\ state' = [state EXCEPT ![j] = "queued"]
    /\ answer' = [c \in Client |-> IF c \in waiters[j] THEN "fail" ELSE answer[c]]
    /\ waiters' = [waiters EXCEPT ![j] = {}]
    /\ UNCHANGED <<req, result, pos, nextID>>

\* Mutant: the job is not put back to queued.
RequeueStaysRunning(j) ==
    /\ CanRequeue(j)
    /\ attempt' = [attempt EXCEPT ![j] = @ + 1]
    /\ UNCHANGED <<state, req, result, pos, nextID, waiters, answer>>

RequeueForRetry(j) ==
    /\ CanRequeue(j)
    /\ attempt' = [attempt EXCEPT ![j] = @ + 1]
    /\ state' = [state EXCEPT ![j] = "queued"]
    /\ UNCHANGED <<req, result, pos, nextID, waiters, answer>>

\* Mutant: the state is not looked at before the channel joins the job's.
WaitForAnyState(c, j) ==
    /\ answer' = [answer EXCEPT ![c] = IF Present(j) THEN "none" ELSE "missing"]
    /\ waiters' = IF Present(j) THEN [waiters EXCEPT ![j] = @ \cup {c}] ELSE waiters
    /\ UNCHANGED <<state, req, attempt, result, pos, nextID>>

\* WaitFor: an unknown job is answered at once (with exit code -1), a settled
\* one with its result; otherwise the channel joins the job's.
WaitFor(c, j) ==
    /\ answer' = [answer EXCEPT ![c] =
          CASE ~Present(j) -> "missing"
            [] j \in Settled -> result[j]
            [] OTHER -> "none"]
    /\ waiters' = IF Present(j) /\ j \notin Settled
                  THEN [waiters EXCEPT ![j] = @ \cup {c}] ELSE waiters
    /\ UNCHANGED <<state, req, attempt, result, pos, nextID>>

=============================================================================
