----------------------------- MODULE Scheduler ------------------------------
(***************************************************************************)
(* The daemon at work: the scheduler's goroutine (scheduler.go), one       *)
(* executor goroutine per attempt of a job (executor.go) and the           *)
(* connection handlers (handlers_job.go), meeting in the job table of      *)
(* JobQueue and in the scheduler's one-place trigger channel.  A step is   *)
(* one critical section (of q.mu or s.mu) or one channel operation, and    *)
(* the goroutines interleave between them.                                 *)
(***************************************************************************)
EXTENDS JobQueue

CONSTANTS
    Requests,     \* bound: the requests a client makes, by the ID they get
    SlotChoices,  \* bound: the values clients give to `ru -P'
    InitSlots,    \* cfg.Slots, the slots the daemon starts with
    MaxFinished,  \* cfg.MaxFinished, -1 for unlimited
    Outcomes,     \* bound: the ways an attempt ends
    Ops           \* the operations the clients use

ASSUME SchedulerAssumption ==
    /\ Requests \in [Job -> SUBSET Request]
    /\ SlotChoices \subseteq Nat \ {0}
    /\ InitSlots \in Nat \ {0}
    /\ MaxFinished \in Int
    /\ Outcomes \subseteq Outcome
    /\ Ops \subseteq {"after", "rerun", "remove", "urgent", "swap", "clear",
                      "slots", "wait"}

VARIABLES
    maxSlots,  \* Scheduler.maxSlots
    trigger,   \* is there a value in Scheduler.trigger
    pc,        \* where Run and trySchedule are
    toSkip,    \* trySchedule's list of jobs to skip, those still to mark
    seenMax,   \* its copy of maxSlots, 0 when it is not needed
    seenBusy,  \* its answer of BusySlots, 0 when it is not needed
    cur,       \* the job it starts, 0 when there is none
    exec,      \* where the executor goroutine of each attempt is
    client,    \* where the handler of each connection is
    target     \* the ID a waiting or chaining client holds

schedVars == <<maxSlots, trigger, pc, toSkip, seenMax, seenBusy, cur>>
clientVars == <<client, target>>
vars == <<queueVars, schedVars, exec, clientVars>>

\* An executor goroutine: launched by `go executor.Run'; live while its
\* process runs; an Outcome when it is about to mark the job finished; then
\* the hook, the poke, and done.
Phase == {"none", "launched", "live", "hook", "poke", "done"} \cup Outcome

TypeOK ==
    /\ QueueTypeOK
    /\ maxSlots \in Nat \ {0}
    /\ trigger \in BOOLEAN
    /\ pc \in {"scan", "skip", "slots", "busy", "pick", "run", "hook", "idle"}
    /\ toSkip \subseteq Job
    /\ seenMax \in Nat
    /\ seenBusy \in Nat
    /\ cur \in Job
    /\ exec \in [Job -> [Attempt -> Phase]]
    /\ client \in [Client -> {"ready", "poke", "wait", "chain"}]
    /\ target \in [Client -> Job]

\* A daemon that starts without a saved queue.
Init ==
    /\ QueueInit
    /\ maxSlots = InitSlots
    /\ trigger = FALSE
    /\ pc = "scan"
    /\ toSkip = {}
    /\ seenMax = 0
    /\ seenBusy = 0
    /\ cur = 0
    /\ exec = [j \in Job |-> [a \in Attempt |-> "none"]]
    /\ client = [c \in Client |-> "ready"]
    /\ target = [c \in Client |-> 0]

\* The hook of every change the scheduler makes: pruneFinished.  (The queue is
\* saved too, which changes nothing the scheduler looks at.)
QueueChanged ==
    \/ MaxFinished < 0 /\ UNCHANGED queueVars
    \/ MaxFinished >= 0 /\ PruneFinished(MaxFinished)

-----------------------------------------------------------------------------
\* The scheduler's goroutine.

Wake ==
    /\ pc = "idle"
    /\ trigger
    /\ trigger' = FALSE
    /\ pc' = "scan"
    /\ UNCHANGED <<queueVars, maxSlots, toSkip, seenMax, seenBusy, cur, exec, clientVars>>

Scan ==
    /\ pc = "scan"
    /\ toSkip' = CheckSkippable
    /\ pc' = "skip"
    /\ UNCHANGED <<queueVars, maxSlots, trigger, seenMax, seenBusy, cur, exec, clientVars>>

\* The list is in queue order; its order shows nowhere, so any is taken.
Skip ==
    /\ pc = "skip"
    /\ \E j \in toSkip :
          /\ MarkSkipped(j)
          /\ toSkip' = toSkip \ {j}
    /\ UNCHANGED <<maxSlots, trigger, pc, seenMax, seenBusy, cur, exec, clientVars>>

ReadSlots ==
    /\ pc = "slots" \/ (pc = "skip" /\ toSkip = {})
    /\ seenMax' = maxSlots
    /\ pc' = "busy"
    /\ UNCHANGED <<queueVars, maxSlots, trigger, toSkip, seenBusy, cur, exec, clientVars>>

ReadBusy ==
    /\ pc = "busy"
    /\ seenBusy' = BusySlots
    /\ pc' = "pick"
    /\ UNCHANGED <<queueVars, maxSlots, trigger, toSkip, seenMax, cur, exec, clientVars>>

\* Mutant: a pass that finds nothing to start empties the trigger.
PickDrainsTrigger ==
    /\ pc = "pick"
    /\ \/ \E j \in Job :
             /\ NextRunnable(j, seenMax, seenBusy)
             /\ cur' = j
             /\ pc' = "run"
             /\ UNCHANGED <<seenMax, trigger>>
       \/ /\ \A j \in Job : ~NextRunnable(j, seenMax, seenBusy)
          /\ pc' = "idle"
          /\ seenMax' = 0
          /\ trigger' = FALSE
          /\ UNCHANGED cur
    /\ seenBusy' = 0
    /\ UNCHANGED <<queueVars, maxSlots, toSkip, exec, clientVars>>

Pick ==
    /\ pc = "pick"
    /\ \/ \E j \in Job :
             /\ NextRunnable(j, seenMax, seenBusy)
             /\ cur' = j
             /\ pc' = "run"
             /\ UNCHANGED seenMax
       \/ /\ \A j \in Job : ~NextRunnable(j, seenMax, seenBusy)
          /\ pc' = "idle"
          /\ seenMax' = 0
          /\ UNCHANGED cur
    /\ seenBusy' = 0
    /\ UNCHANGED <<queueVars, maxSlots, trigger, toSkip, exec, clientVars>>

Start ==
    /\ pc = "run"
    /\ SetRunning(cur)
    /\ pc' = "hook"
    /\ UNCHANGED <<maxSlots, trigger, toSkip, seenMax, seenBusy, cur, exec, clientVars>>

\* The hook and then `go executor.Run', which nobody can see happen later.
Launch ==
    /\ pc = "hook"
    /\ QueueChanged
    /\ exec' = [exec EXCEPT ![cur][attempt[cur]] = "launched"]
    /\ pc' = "slots"
    /\ cur' = 0
    /\ seenMax' = 0
    /\ UNCHANGED <<maxSlots, trigger, toSkip, seenBusy, clientVars>>

Schedule == Wake \/ Scan \/ Skip \/ ReadSlots \/ ReadBusy \/ Pick \/ Start \/ Launch

-----------------------------------------------------------------------------
\* The executor's goroutine for attempt a of job j.

Poke == trigger' = TRUE

\* The process is started: SetRunning with its pid.
ProcessStarts(j, a) ==
    /\ exec[j][a] = "launched"
    /\ SetRunning(j)
    /\ exec' = [exec EXCEPT ![j][a] = "live"]
    /\ UNCHANGED <<schedVars, clientVars>>

\* Mutant: an attempt that is tried again is finished as well.
AttemptEndsNoReturn(j, a) ==
    /\ \E outcome \in Outcomes :
          /\ \/ exec[j][a] = "live"
             \/ exec[j][a] = "launched" /\ outcome = "fail"
          /\ \/ Failed(outcome) /\ RequeueForRetry(j)
             \/ ~(Failed(outcome) /\ CanRequeue(j)) /\ UNCHANGED queueVars
          /\ exec' = [exec EXCEPT ![j][a] = outcome]
    /\ UNCHANGED <<schedVars, clientVars>>

\* The process ends, or could not be started, and onJobFinish is called: a
\* failed attempt goes back to the queue if it may.
AttemptEnds(j, a) ==
    /\ \E outcome \in Outcomes :
          /\ \/ exec[j][a] = "live"
             \/ exec[j][a] = "launched" /\ outcome = "fail"
          /\ \/ /\ Failed(outcome) /\ RequeueForRetry(j)
                /\ exec' = [exec EXCEPT ![j][a] = "hook"]
             \/ /\ ~(Failed(outcome) /\ CanRequeue(j))
                /\ exec' = [exec EXCEPT ![j][a] = outcome]
                /\ UNCHANGED queueVars
    /\ UNCHANGED <<schedVars, clientVars>>

JobFinishes(j, a) ==
    /\ exec[j][a] \in Outcome
    /\ MarkFinished(j, exec[j][a])
    /\ exec' = [exec EXCEPT ![j][a] = "hook"]
    /\ UNCHANGED <<schedVars, clientVars>>

FinishHook(j, a) ==
    /\ exec[j][a] = "hook"
    /\ QueueChanged
    /\ exec' = [exec EXCEPT ![j][a] = "poke"]
    /\ UNCHANGED <<schedVars, clientVars>>

FinishPoke(j, a) ==
    /\ exec[j][a] = "poke"
    /\ Poke
    /\ exec' = [exec EXCEPT ![j][a] = "done"]
    /\ UNCHANGED <<queueVars, maxSlots, pc, toSkip, seenMax, seenBusy, cur, clientVars>>

Execute(j, a) ==
    \/ ProcessStarts(j, a) \/ AttemptEnds(j, a) \/ JobFinishes(j, a)
    \/ FinishHook(j, a) \/ FinishPoke(j, a)

-----------------------------------------------------------------------------
\* The connection handlers.  A request that is refused changes nothing.

\* The handler of c is done with the queue and has the trigger left to poke.
ThenPoke(c) ==
    /\ client' = [client EXCEPT ![c] = "poke"]
    /\ UNCHANGED <<target, schedVars, exec>>

\* The handler of c does not poke the scheduler.
NoPoke == UNCHANGED <<clientVars, schedVars, exec>>

Submit(c) ==
    /\ client[c] = "ready"
    /\ nextID \in Job
    /\ \E r \in Requests[nextID] : Add(r)
    /\ ThenPoke(c)

\* `ru -d' asks for the last ID and then submits with that dependency.
AskLastID(c) ==
    /\ "after" \in Ops
    /\ client[c] = "ready"
    /\ client' = [client EXCEPT ![c] = "chain"]
    /\ target' = [target EXCEPT ![c] = LastID]
    /\ UNCHANGED <<queueVars, schedVars, exec>>

SubmitAfter(c) ==
    /\ client[c] = "chain"
    /\ nextID \in Job
    /\ \E r \in Requests[nextID] : Add([r EXCEPT !.deps = {target[c]}])
    /\ client' = [client EXCEPT ![c] = "poke"]
    /\ target' = [target EXCEPT ![c] = 0]
    /\ UNCHANGED <<schedVars, exec>>

\* The request read from the job and the new job added: nothing that
\* RerunRequest copies changes in between.
Rerun(c) ==
    /\ "rerun" \in Ops
    /\ client[c] = "ready"
    /\ \E j \in Job : Present(j) /\ Add([req[j] EXCEPT !.deps = {}])
    /\ ThenPoke(c)

RemoveJob(c) ==
    /\ "remove" \in Ops
    /\ client[c] = "ready"
    /\ \E j \in Job : Remove(j)
    /\ NoPoke

Urgent(c) ==
    /\ "urgent" \in Ops
    /\ client[c] = "ready"
    /\ \E j \in Job : MakeUrgent(j)
    /\ ThenPoke(c)

SwapJobs(c) ==
    /\ "swap" \in Ops
    /\ client[c] = "ready"
    /\ \E i, j \in Job : Swap(i, j)
    /\ NoPoke

Clear(c) ==
    /\ "clear" \in Ops
    /\ client[c] = "ready"
    /\ \E J \in SUBSET Settled : ClearFinished(J)
    /\ NoPoke

SetMaxSlots(c) ==
    /\ "slots" \in Ops
    /\ client[c] = "ready"
    /\ maxSlots' \in SlotChoices
    /\ client' = [client EXCEPT ![c] = "poke"]
    /\ UNCHANGED <<queueVars, trigger, pc, toSkip, seenMax, seenBusy, cur, exec, target>>

HandlerPoke(c) ==
    /\ client[c] = "poke"
    /\ Poke
    /\ client' = [client EXCEPT ![c] = "ready"]
    /\ UNCHANGED <<queueVars, maxSlots, pc, toSkip, seenMax, seenBusy, cur, exec, target>>

\* `ru -w' for any ID that was handed out.
Wait(c) ==
    /\ "wait" \in Ops
    /\ client[c] = "ready"
    /\ \E j \in Job :
          /\ state[j] # "none"
          /\ WaitFor(c, j)
          /\ target' = [target EXCEPT ![c] = j]
    /\ client' = [client EXCEPT ![c] = "wait"]
    /\ UNCHANGED <<schedVars, exec>>

\* The handler receives from its channel and replies.
TakeAnswer(c) ==
    /\ client[c] = "wait"
    /\ answer[c] # "none"
    /\ client' = [client EXCEPT ![c] = "ready"]
    /\ target' = [target EXCEPT ![c] = 0]
    /\ answer' = [answer EXCEPT ![c] = "none"]
    /\ UNCHANGED <<state, req, attempt, result, pos, nextID, waiters, schedVars, exec>>

Ask(c) ==
    \/ Submit(c) \/ AskLastID(c) \/ SubmitAfter(c) \/ Rerun(c) \/ RemoveJob(c)
    \/ Urgent(c) \/ SwapJobs(c) \/ Clear(c) \/ SetMaxSlots(c) \/ Wait(c)

Reply(c) == HandlerPoke(c) \/ TakeAnswer(c)

Next ==
    \/ Schedule
    \/ \E j \in Job, a \in Attempt : Execute(j, a)
    \/ \E c \in Client : Ask(c) \/ Reply(c)

Spec == Init /\ [][Next]_vars

\* Go runs every goroutine that can run, and a job's process ends (by itself,
\* by its timeout or by `ru -k').  Nothing makes a client ask.
FairSpec ==
    /\ Spec
    /\ WF_vars(Schedule)
    /\ \A j \in Job, a \in Attempt : WF_vars(Execute(j, a))
    /\ \A c \in Client : WF_vars(Reply(c))

-----------------------------------------------------------------------------
\* Safety.

\* An attempt between `go executor.Run' and the end of onJobFinish.
InFlight(j, a) == exec[j][a] \in {"launched", "live"} \cup Outcome

\* A process belongs to the current attempt of a job that is running, or that
\* was removed under it: no attempt is started twice, none outlives the job's
\* result, and a retry never meets the process it replaces.
ProcessOwned ==
    \A j \in Job : \A a \in Attempt :
        InFlight(j, a) => a = attempt[j] /\ state[j] \in {"running", "gone"}

\* A running job has a goroutine that will end it (or the scheduler is about
\* to launch it): its slots are never lost.
RunningHasOwner ==
    \A j \in Running : \/ InFlight(j, attempt[j])
                       \/ pc = "hook" /\ cur = j

\* The scheduler never starts a job that has a process: nothing between its
\* looks at the queue brings the job back.
NoDoubleStart ==
    pc \in {"run", "hook"} => \A a \in Attempt : ~InFlight(cur, a)

\* The parts that make the invariants above and below inductive.
\* IDs are handed out in order, and a result is written once, at the end.
TableSound ==
    \A j \in Job :
        /\ state[j] = "none" <=> j >= nextID
        /\ state[j] \in {"none", "queued", "running"} => result[j] = "none"
        /\ state[j] = "finished" => result[j] \in Outcome
        /\ state[j] = "skipped" => result[j] = "skipped"

\* The attempts to come have no goroutine yet.
AttemptsFresh ==
    \A j \in Job : \A a \in Attempt :
        \/ a > attempt[j]
        \/ a = attempt[j] /\ state[j] \in {"none", "queued"}
        => exec[j][a] = "none"

\* A goroutine in flight has no result to contradict, and what it is about to
\* mark finished as failed has no retry left.
FlightSound ==
    \A j \in Job : \A a \in Attempt :
        /\ InFlight(j, a) => result[j] = "none"
        /\ exec[j][a] \in Outcome /\ Failed(exec[j][a]) => ~CanRequeue(j)

EarlierOver(j) ==
    \A d \in req[j].deps : d < j => state[d] \in {"finished", "skipped", "gone"}

\* The job between Pick and Launch is still startable, or was removed.
StartSound ==
    pc \in {"run", "hook"} =>
        /\ state[cur] \in {IF pc = "run" THEN "queued" ELSE "running", "gone"}
        /\ result[cur] = "none"
        /\ exec[cur][attempt[cur]] = "none"
        /\ EarlierOver(cur)

\* So is a job between Scan and Skip, and the reason to skip it stands.
SkipSound ==
    /\ toSkip # {} => pc = "skip"
    /\ \A j \in toSkip :
          /\ state[j] \in {"queued", "gone"}
          /\ req[j].elevel
          /\ \E d \in req[j].deps : result[d] \in {"fail", "skipped"}

\* A channel is held by a waiting handler, of a job that has no result yet.
WaitersSound ==
    \A c \in Client :
        /\ client[c] # "wait" => answer[c] = "none"
        /\ \A j \in Job : c \in waiters[j] =>
              /\ client[c] = "wait" /\ target[c] = j /\ answer[c] = "none"
              /\ state[j] \in {"queued", "running"}
        /\ answer[c] \notin {"none", "missing"} => answer[c] = result[target[c]]

IInv ==
    /\ TypeOK /\ TableSound /\ AttemptsFresh /\ ProcessOwned /\ RunningHasOwner
    /\ FlightSound /\ StartSound /\ SkipSound /\ WaitersSound

\* No lost wakeup.  When the scheduler sleeps, nothing has been sent to wake
\* it and nobody is on the way to, no job is left queued, unless jobs depend on
\* themselves or on later ones.
NoLostWakeup ==
    (/\ \A j \in Job : \A d \in req[j].deps : d < j
     /\ pc = "idle" /\ ~trigger
     /\ \A c \in Client : client[c] # "poke"
     /\ \A j \in Job, a \in Attempt : exec[j][a] \in {"none", "done"})
    => Queued = {}

\* What `ru -w' prints of a job it found is the job's final result: no attempt of it is under
\* way or still to come.
AnswerIsFinal ==
    \A c \in Client :
        LET j == target[c] IN
        client[c] = "wait" /\ answer[c] \notin {"none", "missing"} =>
            /\ answer[c] = result[j]
            /\ state[j] \in {"finished", "skipped", "gone"}
            /\ \A a \in Attempt : ~InFlight(j, a)

\* Starting a job never takes more slots than the scheduler was given, unless
\* the job needs more than there are and then runs alone, whatever finishes or
\* changes the slots between the scheduler's three looks at the queue.
StartFits ==
    [][\A j \in Job : state[j] # "running" /\ state'[j] = "running" =>
          BusySlots' <= seenMax \/ Running' = {j}]_vars

\* Head of the line: a first attempt that waits for slots only is not passed by
\* a younger job, or small jobs would starve a large one.  For clients that do
\* not reorder the queue.
NoOvertaking ==
    [][\A k \in Job : state[k] # "running" /\ state'[k] = "running" =>
          \A j \in Queued : j < k /\ req[j].deps = {} => attempt[j] > 0]_vars

\* The queue keeps what it promises to those who watch the jobs.
Lifecycle == INSTANCE JobLifecycle
    WITH state <- state, req <- req, attempt <- attempt, result <- result
KeepsPromises == Lifecycle!Spec

\* `ru -x' (README "Remove a job / delete it from the queue"): a job that was
\* removed while it waited does not run afterwards.  It does, when it is removed
\* between the scheduler's pick and SetRunning.
RemovedNeverRuns ==
    \A j \in Job : state[j] = "gone" /\ result[j] = "none" =>
        \A a \in Attempt : exec[j][a] \notin {"launched", "live"}

\* `ru -W' (README "Only run if dependency succeeded"): what runs has no
\* dependency that failed or was skipped.
SuccessRequired ==
    \A j \in Running : req[j].elevel =>
        \A d \in req[j].deps : d < j => result[d] \notin {"fail", "skipped"}

-----------------------------------------------------------------------------
\* Liveness, under FairSpec.

\* A queued job ends: no order of its rivals, no change of slots and no retry
\* leaves it behind.  For requests that depend on earlier jobs only.
EveryJobEnds ==
    \A j \in Job : state[j] = "queued" ~> state[j] \in {"finished", "skipped", "gone"}

\* Whoever waits for a job (README `-w' "Wait for a job to finish") is answered.
WaitAnswered ==
    \A c \in Client : client[c] = "wait" ~> client[c] = "ready"

=============================================================================
