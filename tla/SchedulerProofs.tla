-------------------------- MODULE SchedulerProofs ---------------------------
(***************************************************************************)
(* Theorems about Scheduler for every number of jobs, retries, slots and   *)
(* clients, every choice of requests and every max_finished.               *)
(***************************************************************************)
EXTENDS Scheduler, FiniteSetTheorems, WellFoundedInduction, TLAPS

\* The slots a set of jobs holds are finitely many, so BusySlots is a number.
LEMMA SlotsFinite ==
    ASSUME NEW J \in SUBSET Job
    PROVE  IsFiniteSet(SlotsHeld(J)) /\ Cardinality(SlotsHeld(J)) \in Nat
  <1>1. IsFiniteSet(Job) /\ IsFiniteSet(1..MaxNeed)
    BY QueueAssumption, FS_Interval, SMT DEF Job
  <1>2. IsFiniteSet(Job \X (1..MaxNeed))
    BY <1>1, FS_Product, Zenon
  <1>3. SlotsHeld(J) \subseteq Job \X (1..MaxNeed)
    BY DEF SlotsHeld
  <1>4. QED
    BY <1>2, <1>3, FS_Subset, FS_CardinalityType

LEMMA BusySlotsType == BusySlots \in Nat
  <1>1. Running \in SUBSET Job
    BY DEF Running
  <1>2. QED
    BY <1>1, SlotsFinite DEF BusySlots

\* Jobs that leave the table leave it well typed, whichever they are.
LEMMA DropType ==
    ASSUME QueueTypeOK, NEW J, Drop(J)
    PROVE  QueueTypeOK'
  BY QueueAssumption DEF QueueTypeOK, Drop, States, Job

LEMMA AddType ==
    ASSUME QueueTypeOK, NEW r \in Request, Add(r)
    PROVE  QueueTypeOK'
  <1> DEFINE s == [r EXCEPT !.slots = IF r.slots < 1 THEN 1 ELSE r.slots]
  <1>1. s \in Request
    BY QueueAssumption DEF Request
  <1>2. nextID \in Job /\ req' = [req EXCEPT ![nextID] = s]
    BY DEF Add
  <1>3. req' \in [Job -> Request]
    BY <1>1, <1>2 DEF QueueTypeOK
  <1>4. nextID' \in 0..MaxJobs
    BY QueueAssumption DEF Add, Job
  <1>5. QED
    BY <1>3, <1>4 DEF QueueTypeOK, Add, States

LEMMA SetRunningType ==
    ASSUME QueueTypeOK, NEW j \in Job, SetRunning(j)
    PROVE  QueueTypeOK'
  BY DEF QueueTypeOK, SetRunning, States

LEMMA SettleType ==
    ASSUME QueueTypeOK, NEW j \in Job,
           NEW how \in {"finished", "skipped"}, NEW r \in Outcome \cup {"skipped"},
           Settle(j, how, r)
    PROVE  QueueTypeOK'
  BY DEF QueueTypeOK, Settle, States, Answers, Outcome

\* The hook drops settled jobs, perhaps none.
LEMMA HookDrops ==
    ASSUME QueueTypeOK, QueueChanged
    PROVE  \E J \in SUBSET Settled : Drop(J)
  <1>1. CASE UNCHANGED queueVars
    <2>1. Drop({})
      BY <1>1 DEF queueVars, Drop, QueueTypeOK
    <2>2. QED
      BY <2>1
  <1>2. CASE PruneFinished(MaxFinished)
    BY <1>2 DEF PruneFinished
  <1>3. QED
    BY <1>1, <1>2 DEF QueueChanged

LEMMA HookType ==
    ASSUME QueueTypeOK, QueueChanged
    PROVE  QueueTypeOK'
  BY DropType, HookDrops
LEMMA MakeUrgentType ==
    ASSUME QueueTypeOK, NEW j \in Job, MakeUrgent(j)
    PROVE  QueueTypeOK'
  <1>1. PICK first \in Queued :
            pos' = [k \in Job |->
                CASE k = j -> pos[first]
                  [] k # j /\ Present(k) /\ pos[k] >= pos[first] /\ pos[k] < pos[j]
                       -> pos[k] + 1
                  [] OTHER -> pos[k]]
    BY DEF MakeUrgent
  <1>2. ASSUME NEW k \in Job PROVE pos'[k] \in Job
    <2>1. pos[k] \in Job /\ pos[j] \in Job /\ pos[first] \in Job
      BY DEF QueueTypeOK, Queued
    <2>2. pos[k] < pos[j] => pos[k] + 1 \in Job
      BY <2>1, QueueAssumption DEF Job
    <2>3. QED
      BY <1>1, <2>1, <2>2
  <1>3. pos' = [k \in Job |-> pos'[k]]
    BY <1>1
  <1>4. pos' \in [Job -> Job]
    BY <1>2, <1>3
  <1>5. QED
    BY <1>4 DEF MakeUrgent, QueueTypeOK

\* The scheduler's goroutine keeps the types.
LEMMA ScheduleType ==
    ASSUME TypeOK, Schedule
    PROVE  TypeOK'
  <1>1. CASE Wake
    BY <1>1 DEF Wake, TypeOK, QueueTypeOK, queueVars, clientVars
  <1>2. CASE Scan
    BY <1>2 DEF Scan, TypeOK, QueueTypeOK, queueVars, clientVars, CheckSkippable, Queued
  <1>3. CASE Skip
    <2>1. PICK j \in toSkip : MarkSkipped(j) /\ toSkip' = toSkip \ {j}
      BY <1>3 DEF Skip
    <2>2. QueueTypeOK'
      BY <2>1, SettleType DEF MarkSkipped, queueVars, TypeOK, QueueTypeOK
    <2>3. QED
      BY <1>3, <2>1, <2>2 DEF Skip, TypeOK, clientVars
  <1>4. CASE ReadSlots
    BY <1>4 DEF ReadSlots, TypeOK, QueueTypeOK, queueVars, clientVars
  <1>5. CASE ReadBusy
    BY <1>5, BusySlotsType DEF ReadBusy, TypeOK, QueueTypeOK, queueVars, clientVars
  <1>6. CASE Pick
    BY <1>6 DEF Pick, TypeOK, QueueTypeOK, queueVars, clientVars
  <1>7. CASE Start
    <2>1. QueueTypeOK'
      BY <1>7, SetRunningType DEF Start, TypeOK
    <2>2. QED
      BY <1>7, <2>1 DEF Start, TypeOK, clientVars
  <1>8. CASE Launch
    <2>1. QueueTypeOK'
      BY <1>8, HookType DEF Launch, TypeOK
    <2>2. exec' \in [Job -> [Attempt -> Phase]]
      BY <1>8 DEF Launch, TypeOK, Phase
    <2>3. QED
      BY <1>8, <2>1, <2>2, QueueAssumption DEF Launch, TypeOK, clientVars, Job
  <1>9. QED
    BY <1>1, <1>2, <1>3, <1>4, <1>5, <1>6, <1>7, <1>8 DEF Schedule

\* So does every executor goroutine.
LEMMA ExecuteType ==
    ASSUME TypeOK, NEW j \in Job, NEW a \in Attempt, Execute(j, a)
    PROVE  TypeOK'
  <1> USE DEF TypeOK, schedVars, clientVars
  <1>1. CASE ProcessStarts(j, a)
    BY <1>1, SetRunningType DEF ProcessStarts, Phase
  <1>2. CASE AttemptEnds(j, a)
    <2>1. PICK outcome \in Outcomes :
            \/ RequeueForRetry(j) /\ exec' = [exec EXCEPT ![j][a] = "hook"]
            \/ UNCHANGED queueVars /\ exec' = [exec EXCEPT ![j][a] = outcome]
      BY <1>2 DEF AttemptEnds
    <2>2. QueueTypeOK'
      <3>1. CASE RequeueForRetry(j)
        <4>1. attempt[j] + 1 \in Attempt
          BY <3>1, QueueAssumption DEF RequeueForRetry, CanRequeue, QueueTypeOK, Request, Attempt
        <4>2. QED
          BY <3>1, <4>1 DEF RequeueForRetry, QueueTypeOK, States
      <3>2. CASE UNCHANGED queueVars
        BY <3>2 DEF queueVars, QueueTypeOK
      <3>3. QED
        BY <2>1, <3>1, <3>2
    <2>3. exec' \in [Job -> [Attempt -> Phase]]
      <3>1. PICK p \in Phase : exec' = [exec EXCEPT ![j][a] = p]
        BY <2>1, SchedulerAssumption DEF Phase
      <3>2. QED
        BY <3>1
    <2>4. QED
      BY <1>2, <2>2, <2>3 DEF AttemptEnds
  <1>3. CASE JobFinishes(j, a)
    <2>1. QueueTypeOK'
      BY <1>3, SettleType DEF JobFinishes, MarkFinished, queueVars, QueueTypeOK
    <2>2. QED
      BY <1>3, <2>1 DEF JobFinishes, Phase
  <1>4. CASE FinishHook(j, a)
    BY <1>4, HookType DEF FinishHook, Phase
  <1>5. CASE FinishPoke(j, a)
    BY <1>5 DEF FinishPoke, Poke, Phase, QueueTypeOK, queueVars
  <1>6. QED
    BY <1>1, <1>2, <1>3, <1>4, <1>5 DEF Execute

\* A request with other dependencies is a request.
LEMMA DepsType ==
    ASSUME NEW r \in Request, NEW D \in SUBSET Job
    PROVE  [r EXCEPT !.deps = D] \in Request
  BY DEF Request

\* So does every handler.
LEMMA HandlerType ==
    ASSUME TypeOK, NEW c \in Client, Ask(c) \/ Reply(c)
    PROVE  TypeOK'
  <1> USE DEF TypeOK, schedVars, clientVars, ThenPoke, NoPoke
  <1>1. CASE Submit(c)
    BY <1>1, AddType, SchedulerAssumption DEF Submit
  <1>2. CASE AskLastID(c)
    <2>1. LastID \in Job
      BY QueueAssumption DEF LastID, QueueTypeOK, Job
    <2>2. QED
      BY <1>2, <2>1 DEF AskLastID, queueVars, QueueTypeOK
  <1>3. CASE SubmitAfter(c)
    <2>1. PICK r \in Requests[nextID] : Add([r EXCEPT !.deps = {target[c]}])
      BY <1>3 DEF SubmitAfter
    <2>2. r \in Request /\ target[c] \in Job
      BY <1>3, SchedulerAssumption DEF SubmitAfter
    <2>2a. [r EXCEPT !.deps = {target[c]}] \in Request
      BY <2>2, DepsType
    <2>3. QueueTypeOK'
      BY <2>1, <2>2a, AddType
    <2>4. 0 \in Job
      BY QueueAssumption DEF Job
    <2>5. QED
      BY <1>3, <2>3, <2>4 DEF SubmitAfter
  <1>4. CASE Rerun(c)
    <2>1. PICK j \in Job : Add([req[j] EXCEPT !.deps = {}])
      BY <1>4 DEF Rerun
    <2>2. [req[j] EXCEPT !.deps = {}] \in Request
      <3>1. req[j] \in Request
        BY DEF QueueTypeOK
      <3>2. QED
        BY <3>1 DEF Request
    <2>3. QueueTypeOK'
      BY <2>1, <2>2, AddType
    <2>4. QED
      BY <1>4, <2>3 DEF Rerun
  <1>5. CASE RemoveJob(c)
    BY <1>5, DropType DEF RemoveJob, Remove
  <1>6. CASE Urgent(c)
    BY <1>6, MakeUrgentType DEF Urgent
  <1>7. CASE SwapJobs(c)
    <2>1. PICK i, j \in Job : Swap(i, j)
      BY <1>7 DEF SwapJobs
    <2>2. pos' \in [Job -> Job]
      BY <2>1 DEF Swap, QueueTypeOK
    <2>3. QED
      BY <1>7, <2>1, <2>2 DEF SwapJobs, Swap, QueueTypeOK
  <1>8. CASE Clear(c)
    BY <1>8, DropType DEF Clear, ClearFinished
  <1>9. CASE SetMaxSlots(c)
    BY <1>9, SchedulerAssumption DEF SetMaxSlots, queueVars, QueueTypeOK
  <1>10. CASE Wait(c)
    BY <1>10 DEF Wait, WaitFor, QueueTypeOK, Answers
  <1>11. CASE HandlerPoke(c)
    BY <1>11 DEF HandlerPoke, Poke, queueVars, QueueTypeOK
  <1>12. CASE TakeAnswer(c)
    <2>1. 0 \in Job
      BY QueueAssumption DEF Job
    <2>2. QED
      BY <1>12, <2>1 DEF TakeAnswer, QueueTypeOK, Answers
  <1>13. QED
    BY <1>1, <1>2, <1>3, <1>4, <1>5, <1>6, <1>7, <1>8, <1>9, <1>10, <1>11, <1>12
       DEF Ask, Reply

LEMMA InitType == Init => TypeOK
  <1>1. 0 \in Job /\ 0 \in Attempt /\ 0 \in 0..MaxJobs
    BY QueueAssumption DEF Job, Attempt
  <1>2. NoRequest \in Request
    BY <1>1, QueueAssumption DEF NoRequest, Request
  <1>3. Init => QueueTypeOK
    BY <1>1, <1>2 DEF Init, QueueInit, QueueTypeOK, States, Answers
  <1>4. Init => exec \in [Job -> [Attempt -> Phase]]
    BY DEF Init, Phase
  <1>5. ASSUME Init
        PROVE  /\ trigger \in BOOLEAN /\ toSkip \subseteq Job /\ cur \in Job
               /\ pc \in {"scan", "skip", "slots", "busy", "pick", "run", "hook", "idle"}
               /\ client \in [Client -> {"ready", "poke", "wait", "chain"}]
               /\ target \in [Client -> Job]
               /\ maxSlots \in Nat \ {0} /\ seenMax \in Nat /\ seenBusy \in Nat
    BY <1>1, <1>5, SchedulerAssumption DEF Init
  <1>6. QED
    BY <1>3, <1>4, <1>5 DEF TypeOK

LEMMA TypeStutter == TypeOK /\ UNCHANGED vars => TypeOK'
  BY DEF vars, queueVars, schedVars, clientVars, TypeOK, QueueTypeOK

\* The daemon's variables keep their types, whatever the clients ask.
THEOREM TypeCorrect == Spec => []TypeOK
  <1>1. TypeOK /\ [Next]_vars => TypeOK'
    BY TypeStutter, ScheduleType, ExecuteType, HandlerType DEF Next
  <1>2. QED
    BY <1>1, InitType, PTL DEF Spec

-----------------------------------------------------------------------------
(***************************************************************************)
(* The inductive invariant.  TypeOK alone says nothing of who owns a job;  *)
(* IInv ties every goroutine to the job's state, attempt and result.       *)
(***************************************************************************)

\* Jobs that are not running may leave the table at any time.
LEMMA DropKeeps ==
    ASSUME IInv, NEW J, Drop(J), J \cap Running = {}, \A j \in J \cap Job : Present(j),
           UNCHANGED <<schedVars, exec, clientVars>>
    PROVE  IInv'
  <1> USE DEF Drop, schedVars, clientVars
  <1>1. TypeOK'
    BY DropType DEF IInv, TypeOK
  <1>2. TableSound'
    BY DEF IInv, TableSound, TypeOK, QueueTypeOK, Present
  <1>3. AttemptsFresh' /\ ProcessOwned' /\ FlightSound'
    BY DEF IInv, AttemptsFresh, ProcessOwned, FlightSound, InFlight, CanRequeue, Present, Running, TypeOK, QueueTypeOK
  <1>4. RunningHasOwner'
    BY DEF IInv, RunningHasOwner, InFlight, Running, TypeOK, QueueTypeOK
  <1>5. StartSound'
    BY DEF IInv, StartSound, EarlierOver, Running, TypeOK, QueueTypeOK, Request
  <1>6. SkipSound'
    BY DEF IInv, SkipSound, TypeOK, QueueTypeOK
  <1>7. WaitersSound'
    BY DEF IInv, WaitersSound, TypeOK, QueueTypeOK, Running
  <1>8. QED
    BY <1>1, <1>2, <1>3, <1>4, <1>5, <1>6, <1>7 DEF IInv

LEMMA AddKeeps ==
    ASSUME IInv, TypeOK', NEW r \in Request, Add(r), UNCHANGED <<schedVars, exec>>,
           NEW c \in Client, client[c] \in {"ready", "chain"},
           client' = [client EXCEPT ![c] = "poke"],
           target' = [target EXCEPT ![c] = target'[c]]
    PROVE  IInv'
  <1> USE DEF Add, schedVars
  <1>1. TypeOK'
    OBVIOUS
  <1>2. nextID \in Job /\ state[nextID] = "none" /\ nextID \in Int /\ \A j \in Job : j \in Int
    BY DEF IInv, TableSound, Job
  <1>3. TableSound'
    <2>1. \A j \in Job : j >= nextID + 1 <=> j >= nextID /\ j # nextID
      BY <1>2
    <2>2. result[nextID] = "none"
      BY <1>2 DEF IInv, TableSound
    <2>3. QED
      BY <1>2, <2>1, <2>2 DEF IInv, TableSound, TypeOK, QueueTypeOK
  <1>4. AttemptsFresh' /\ ProcessOwned' /\ RunningHasOwner'
    BY <1>2 DEF IInv, AttemptsFresh, ProcessOwned, RunningHasOwner, InFlight, Running,
       TypeOK, QueueTypeOK
  <1>5. FlightSound'
    <2>1. \A a \in Attempt : ~InFlight(nextID, a) /\ exec[nextID][a] \notin Outcome
      BY <1>2 DEF IInv, ProcessOwned, InFlight
    <2>2. QED
      BY <1>2, <2>1 DEF IInv, FlightSound, InFlight, CanRequeue, Present, TypeOK, QueueTypeOK
  <1>6. StartSound'
    BY <1>2 DEF IInv, StartSound, EarlierOver, TypeOK, QueueTypeOK
  <1>7. SkipSound'
    BY <1>2 DEF IInv, SkipSound, TypeOK, QueueTypeOK
  <1>8. WaitersSound'
    BY <1>2 DEF IInv, WaitersSound, TypeOK, QueueTypeOK
  <1>9. QED
    BY <1>1, <1>3, <1>4, <1>5, <1>6, <1>7, <1>8 DEF IInv

\* A job that is settled tells its waiters, and only them, what it is settled
\* with.
LEMMA SettleTells ==
    ASSUME IInv, NEW j \in Job, NEW how, NEW r \in Outcome \cup {"skipped"},
           result[j] = "none", Settle(j, how, r), UNCHANGED clientVars
    PROVE  WaitersSound'
  <1> USE DEF Settle, clientVars
  <1>1. SUFFICES ASSUME NEW c \in Client
                 PROVE  /\ client[c] # "wait" => answer'[c] = "none"
                        /\ \A i \in Job : c \in waiters'[i] =>
                              /\ client[c] = "wait" /\ target[c] = i /\ answer'[c] = "none"
                              /\ state'[i] \in {"queued", "running"}
                        /\ answer'[c] \notin {"none", "missing"} =>
                              answer'[c] = result'[target[c]]
    BY DEF WaitersSound
  <1>2. /\ client[c] # "wait" => answer[c] = "none"
        /\ \A i \in Job : c \in waiters[i] =>
              /\ client[c] = "wait" /\ target[c] = i /\ answer[c] = "none"
              /\ state[i] \in {"queued", "running"}
        /\ answer[c] \notin {"none", "missing"} => answer[c] = result[target[c]]
    BY DEF IInv, WaitersSound
  <1>3. target[c] \in Job
    BY DEF IInv, TypeOK
  <1>4. result' = [result EXCEPT ![j] = r] /\ result \in [Job -> Outcome \cup {"none", "skipped"}]
    BY DEF IInv, TypeOK, QueueTypeOK
  <1>5. waiters \in [Job -> SUBSET Client] /\ state \in [Job -> States]
    BY DEF IInv, TypeOK, QueueTypeOK
  <1>6. CASE c \in waiters[j]
    <2>1. answer'[c] = r /\ client[c] = "wait" /\ target[c] = j
      BY <1>2, <1>6
    <2>2. \A i \in Job : c \notin waiters'[i]
      BY <1>2, <1>5, <2>1
    <2>3. result'[target[c]] = r
      BY <1>4, <2>1
    <2>4. QED
      BY <2>1, <2>2, <2>3
  <1>7. CASE c \notin waiters[j]
    <2>1. answer'[c] = answer[c]
      BY <1>7
    <2>2. \A i \in Job : c \in waiters'[i] => c \in waiters[i] /\ i # j
      BY <1>5
    <2>3. \A i \in Job : i # j => state'[i] = state[i]
      BY <1>5
    <2>4. answer[c] \notin {"none", "missing"} => target[c] # j
      BY <1>2
    <2>5. target[c] # j => result'[target[c]] = result[target[c]]
      BY <1>3, <1>4
    <2>6. QED
      BY <1>2, <2>1, <2>2, <2>3, <2>4, <2>5
  <1>8. QED
    BY <1>6, <1>7

\* The scheduler's goroutine keeps the invariant.
LEMMA ScheduleKeeps ==
    ASSUME IInv, Schedule
    PROVE  IInv'
  <1>1. TypeOK'
    BY ScheduleType DEF IInv
  <1>2. CASE Wake \/ ReadSlots \/ ReadBusy
    BY <1>1, <1>2 DEF Wake, ReadSlots, ReadBusy, queueVars, clientVars, IInv, TableSound,
       AttemptsFresh, ProcessOwned, RunningHasOwner, FlightSound, StartSound, SkipSound,
       WaitersSound, InFlight, CanRequeue, Present, Running, EarlierOver
  <1>3. CASE Scan
    <2>1. SkipSound'
      BY <1>3 DEF Scan, queueVars, SkipSound, CheckSkippable, Queued, ShouldSkip, IInv,
         TableSound, TypeOK, QueueTypeOK, Request
    <2>2. QED
      BY <1>1, <1>3, <2>1 DEF Scan, queueVars, clientVars, IInv, TableSound,
       AttemptsFresh, ProcessOwned, RunningHasOwner, FlightSound, StartSound,
       WaitersSound, InFlight, CanRequeue, Present, Running, EarlierOver
  <1>4. CASE Skip
    <2>1. PICK j \in toSkip : MarkSkipped(j) /\ toSkip' = toSkip \ {j}
      BY <1>4 DEF Skip
    <2>2. CASE UNCHANGED queueVars
      BY <1>1, <1>4, <2>1, <2>2 DEF Skip, queueVars, clientVars, IInv, TableSound,
       AttemptsFresh, ProcessOwned, RunningHasOwner, FlightSound, StartSound, SkipSound,
       WaitersSound, InFlight, CanRequeue, Present, Running, EarlierOver
    <2>3. CASE Present(j) /\ Settle(j, "skipped", "skipped")
      <3>1. j \in Job /\ state[j] = "queued" /\ result[j] = "none" /\ pc = "skip"
        BY <2>1, <2>3 DEF IInv, SkipSound, Present, TypeOK, TableSound
      <3>2. UNCHANGED <<exec, pc>> /\ UNCHANGED clientVars
        BY <1>4 DEF Skip
      <3>3. WaitersSound'
        BY <2>3, <3>1, <3>2, SettleTells
      <3> USE <2>3 DEF Settle
      <3>4. TableSound' /\ RunningHasOwner' /\ StartSound'
        BY <3>1, <3>2 DEF IInv, TableSound, RunningHasOwner, StartSound, Running, InFlight,
           TypeOK, QueueTypeOK
      <3>5. AttemptsFresh' /\ ProcessOwned' /\ FlightSound'
        BY <3>1, <3>2 DEF IInv, AttemptsFresh, ProcessOwned, FlightSound, InFlight,
           CanRequeue, Present, TypeOK, QueueTypeOK
      <3>6. SkipSound'
        BY <2>1, <3>1, <3>2 DEF IInv, SkipSound, TypeOK, QueueTypeOK
      <3>7. QED
        BY <1>1, <3>4, <3>5, <3>6, <3>3 DEF IInv
    <2>4. QED
      BY <2>1, <2>2, <2>3 DEF MarkSkipped
  <1>5. CASE Pick
    <2>1. CASE pc' = "run"
      <3>1. PICK j \in Job : NextRunnable(j, seenMax, seenBusy) /\ cur' = j
        BY <1>5, <2>1 DEF Pick
      <3>2. j \in Queued /\ DependenciesMet(j)
        BY <3>1 DEF NextRunnable, IsHead
      <3>3. EarlierOver(j)
        <4>1. SUFFICES ASSUME NEW d \in req[j].deps, d < j
                       PROVE  state[d] \in {"finished", "skipped", "gone"}
          BY DEF EarlierOver
        <4>2. d \in Job /\ j \in Int /\ d \in Int /\ nextID \in Int
          <5>1. req[j].deps \in SUBSET Job
            BY DEF IInv, TypeOK, QueueTypeOK, Request
          <5>2. nextID \in 0..MaxJobs
            BY DEF IInv, TypeOK, QueueTypeOK
          <5>3. QED
            BY <4>1, <5>1, <5>2, QueueAssumption DEF Job
        <4>3. state[d] # "none"
          BY <3>2, <4>1, <4>2 DEF IInv, TableSound, Queued
        <4>4. QED
          BY <3>2, <4>1, <4>2, <4>3 DEF DependenciesMet, Present, Settled
      <3>4. StartSound'
        BY <1>5, <2>1, <3>1, <3>2, <3>3 DEF Pick, queueVars, StartSound, EarlierOver, IInv,
           TableSound, AttemptsFresh, Queued, TypeOK, QueueTypeOK
      <3>5. QED
        BY <1>1, <1>5, <2>1, <3>4 DEF Pick, queueVars, clientVars, IInv, TableSound,
           AttemptsFresh, ProcessOwned, RunningHasOwner, FlightSound, SkipSound,
           WaitersSound, InFlight, CanRequeue, Present, Running
    <2>2. CASE pc' = "idle"
      BY <1>1, <1>5, <2>2 DEF Pick, queueVars, clientVars, IInv, TableSound,
       AttemptsFresh, ProcessOwned, RunningHasOwner, FlightSound, StartSound, SkipSound,
       WaitersSound, InFlight, CanRequeue, Present, Running, EarlierOver
    <2>3. QED
      BY <1>5, <2>1, <2>2 DEF Pick
  <1>6. CASE Start
    <2> USE <1>6 DEF Start, SetRunning
    <2>1. cur \in Job /\ state[cur] \in {"queued", "gone"} /\ result[cur] = "none"
          /\ exec[cur][attempt[cur]] = "none" /\ attempt[cur] \in Attempt /\ EarlierOver(cur)
      BY DEF IInv, StartSound, TypeOK, QueueTypeOK
    <2>2. TableSound' /\ RunningHasOwner'
      BY <2>1 DEF IInv, TableSound, RunningHasOwner, Running, Present, InFlight, TypeOK, QueueTypeOK
    <2>3. AttemptsFresh' /\ ProcessOwned' /\ FlightSound'
      BY <2>1 DEF IInv, AttemptsFresh, ProcessOwned, FlightSound, InFlight, CanRequeue,
         Present, TypeOK, QueueTypeOK
    <2>4. StartSound'
      BY <2>1 DEF IInv, StartSound, EarlierOver, Present, TypeOK, QueueTypeOK, Request
    <2>5. SkipSound' /\ WaitersSound'
      BY <2>1 DEF IInv, SkipSound, WaitersSound, Present, clientVars, TypeOK, QueueTypeOK
    <2>6. QED
      BY <1>1, <2>2, <2>3, <2>4, <2>5 DEF IInv
  <1>7. CASE Launch
    <2> USE <1>7 DEF Launch
    <2>1. PICK J \in SUBSET Settled : Drop(J)
      BY HookDrops DEF IInv, TypeOK
    <2>2. /\ cur \in Job /\ state[cur] \in {"running", "gone"} /\ result[cur] = "none"
          /\ exec[cur][attempt[cur]] = "none" /\ attempt[cur] \in Attempt
      BY DEF IInv, StartSound, TypeOK, QueueTypeOK
    <2>3. /\ J \subseteq Job /\ cur \notin J
          /\ \A j \in J : state[j] \in {"finished", "skipped"}
      BY <2>1, <2>2 DEF Settled
    <2> USE <2>1, <2>2, <2>3 DEF Drop
    <2>4. TableSound'
      BY DEF IInv, TableSound, TypeOK, QueueTypeOK
    <2>5a. AttemptsFresh'
      BY DEF IInv, AttemptsFresh, TypeOK, QueueTypeOK, Attempt
    <2>5b. ProcessOwned'
      BY DEF IInv, ProcessOwned, InFlight, Outcome, TypeOK, QueueTypeOK
    <2>6. RunningHasOwner'
      BY DEF IInv, RunningHasOwner, Running, InFlight, TypeOK, QueueTypeOK
    <2>7. FlightSound'
      BY DEF IInv, FlightSound, InFlight, CanRequeue, Present, Outcome, TypeOK, QueueTypeOK
    <2>8. StartSound' /\ SkipSound' /\ WaitersSound'
      BY DEF IInv, StartSound, SkipSound, WaitersSound, clientVars, TypeOK, QueueTypeOK
    <2>9. QED
      BY <1>1, <2>4, <2>5a, <2>5b, <2>6, <2>7, <2>8 DEF IInv
  <1>8. QED
    BY <1>2, <1>3, <1>4, <1>5, <1>6, <1>7 DEF Schedule

\* The executor's goroutines keep it.
LEMMA ExecuteKeeps ==
    ASSUME IInv, NEW j \in Job, NEW a \in Attempt, Execute(j, a)
    PROVE  IInv'
  <1>1. TypeOK'
    BY ExecuteType DEF IInv
  <1> USE DEF schedVars, clientVars
  <1>2. CASE ProcessStarts(j, a)
    <2> USE <1>2 DEF ProcessStarts
    <2>1. InFlight(j, a)
      BY DEF InFlight
    <2>2. a = attempt[j] /\ state[j] \in {"running", "gone"} /\ result[j] = "none"
      BY <2>1 DEF IInv, ProcessOwned, FlightSound
    <2>3. UNCHANGED queueVars
      BY <2>2 DEF SetRunning, Present, queueVars, IInv, TypeOK, QueueTypeOK
    <2> USE <2>2, <2>3 DEF queueVars
    <2>4. AttemptsFresh' /\ ProcessOwned' /\ RunningHasOwner' /\ FlightSound'
      BY DEF IInv, AttemptsFresh, ProcessOwned, RunningHasOwner, FlightSound, InFlight,
         CanRequeue, Present, Running, Outcome, TypeOK, QueueTypeOK
    <2>5. TableSound' /\ SkipSound' /\ WaitersSound'
      BY DEF IInv, TableSound, SkipSound, WaitersSound, TypeOK, QueueTypeOK
    <2>6. StartSound'
      BY DEF IInv, StartSound, EarlierOver, TypeOK, QueueTypeOK
    <2>7. QED
      BY <1>1, <2>4, <2>5, <2>6 DEF IInv
  <1>3. CASE AttemptEnds(j, a)
    <2>1. a = attempt[j] /\ state[j] \in {"running", "gone"} /\ result[j] = "none"
          /\ exec[j][a] \in {"launched", "live"}
      BY <1>3 DEF AttemptEnds, IInv, ProcessOwned, FlightSound, InFlight
    <2>2. ASSUME RequeueForRetry(j), exec' = [exec EXCEPT ![j][a] = "hook"]
          PROVE  IInv'
      <3> USE <1>3, <2>1, <2>2 DEF AttemptEnds, RequeueForRetry
      <3>1. pc # "hook" \/ cur # j
        BY DEF CanRequeue, Present, IInv, StartSound
      <3>2. state[j] = "running" /\ attempt[j] \in Int /\ attempt[j] + 1 \in Attempt
        BY QueueAssumption DEF CanRequeue, Present, IInv, TypeOK, QueueTypeOK, Request, Attempt
      <3>3a. AttemptsFresh'
        BY <3>2 DEF IInv, AttemptsFresh, TypeOK, QueueTypeOK, Attempt
      <3>3b. ProcessOwned'
        BY <3>2 DEF IInv, ProcessOwned, InFlight, Outcome, TypeOK, QueueTypeOK
      <3>4. RunningHasOwner' /\ FlightSound'
        BY <3>2 DEF IInv, RunningHasOwner, FlightSound, ProcessOwned, InFlight, Outcome,
           Running, CanRequeue, Present, TypeOK, QueueTypeOK
      <3>5. TableSound' /\ StartSound'
        BY <3>1, <3>2 DEF IInv, TableSound, StartSound, EarlierOver, TypeOK, QueueTypeOK
      <3>6. SkipSound' /\ WaitersSound'
        BY <3>2 DEF IInv, SkipSound, WaitersSound, TypeOK, QueueTypeOK
      <3>7. QED
        BY <1>1, <3>3a, <3>3b, <3>4, <3>5, <3>6 DEF IInv
    <2>3. ASSUME NEW outcome \in Outcome, ~(Failed(outcome) /\ CanRequeue(j)),
                 exec' = [exec EXCEPT ![j][a] = outcome], UNCHANGED queueVars
          PROVE  IInv'
      <3> USE <1>3, <2>1, <2>3 DEF AttemptEnds, queueVars
      <3>1. AttemptsFresh' /\ ProcessOwned' /\ RunningHasOwner' /\ FlightSound'
        BY DEF IInv, AttemptsFresh, ProcessOwned, RunningHasOwner, FlightSound, InFlight,
           CanRequeue, Present, Running, TypeOK, QueueTypeOK
      <3>2. TableSound' /\ StartSound' /\ SkipSound' /\ WaitersSound'
        BY DEF IInv, TableSound, StartSound, EarlierOver, SkipSound, WaitersSound, TypeOK, QueueTypeOK
      <3>3. QED
        BY <1>1, <3>1, <3>2 DEF IInv
    <2>4. QED
      BY <1>3, <2>2, <2>3, SchedulerAssumption DEF AttemptEnds
  <1>4. CASE JobFinishes(j, a)
    <2> USE <1>4 DEF JobFinishes
    <2>1. a = attempt[j] /\ state[j] \in {"running", "gone"} /\ result[j] = "none"
      BY DEF IInv, ProcessOwned, FlightSound, InFlight
    <2>2. state[j] = "running" => pc # "hook" \/ cur # j
      BY <2>1 DEF IInv, StartSound, Outcome
    <2> USE <2>1, <2>2
    <2>3. AttemptsFresh' /\ ProcessOwned' /\ RunningHasOwner' /\ FlightSound'
      BY DEF MarkFinished, Settle, queueVars, IInv, AttemptsFresh, ProcessOwned,
         RunningHasOwner, FlightSound, InFlight, CanRequeue, Present, Running, Outcome,
         TypeOK, QueueTypeOK
    <2>4. ASSUME UNCHANGED queueVars
          PROVE  TableSound' /\ StartSound' /\ SkipSound' /\ WaitersSound'
      <3>1. TableSound' /\ SkipSound' /\ WaitersSound'
        BY <2>4 DEF queueVars, IInv, TableSound, SkipSound, WaitersSound
      <3>2. StartSound'
        BY <2>4 DEF queueVars, IInv, StartSound, EarlierOver, TypeOK, QueueTypeOK, Outcome
      <3>3. QED
        BY <3>1, <3>2
    <2>5. ASSUME Present(j), Settle(j, "finished", exec[j][a])
          PROVE  TableSound' /\ StartSound' /\ SkipSound' /\ WaitersSound'
      <3>1. WaitersSound'
        <4>1. exec[j][a] \in Outcome /\ result[j] = "none" /\ UNCHANGED clientVars
          BY <1>4 DEF JobFinishes, IInv, FlightSound, InFlight
        <4>2. QED
          BY <2>5, <4>1, SettleTells
      <3> USE <2>5 DEF Settle
      <3>2. state[j] = "running"
        BY DEF Present
      <3>3. TableSound'
        BY <3>2 DEF IInv, TableSound, TypeOK, QueueTypeOK
      <3>4. StartSound'
        BY <3>2 DEF IInv, StartSound, EarlierOver, TypeOK, QueueTypeOK, Outcome
      <3>5. SkipSound'
        BY <3>2 DEF IInv, SkipSound, TypeOK, QueueTypeOK, Request
      <3>6. QED
        BY <3>3, <3>4, <3>5, <3>1
    <2>6. QED
      BY <1>1, <2>3, <2>4, <2>5 DEF IInv, MarkFinished
  <1>5. CASE FinishHook(j, a)
    <2> USE <1>5 DEF FinishHook
    <2>1. PICK J \in SUBSET Settled : Drop(J)
      BY HookDrops DEF IInv, TypeOK
    <2>2. J \subseteq Job /\ \A i \in J : state[i] \in {"finished", "skipped"}
      BY <2>1 DEF Settled
    <2> USE <2>1, <2>2 DEF Drop
    <2>3. AttemptsFresh' /\ ProcessOwned' /\ RunningHasOwner' /\ FlightSound'
      BY DEF IInv, AttemptsFresh, ProcessOwned, RunningHasOwner, FlightSound, InFlight,
         CanRequeue, Present, Running, Outcome, TypeOK, QueueTypeOK
    <2>4. TableSound' /\ StartSound' /\ SkipSound' /\ WaitersSound'
      BY DEF IInv, TableSound, StartSound, EarlierOver, SkipSound, WaitersSound, TypeOK,
         QueueTypeOK, Request
    <2>5. QED
      BY <1>1, <2>3, <2>4 DEF IInv
  <1>6. CASE FinishPoke(j, a)
    <2> USE <1>6 DEF FinishPoke, queueVars
    <2>1. AttemptsFresh' /\ ProcessOwned' /\ RunningHasOwner' /\ FlightSound'
      BY DEF IInv, AttemptsFresh, ProcessOwned, RunningHasOwner, FlightSound, InFlight,
         CanRequeue, Present, Running, Outcome, TypeOK, QueueTypeOK
    <2>2. TableSound' /\ SkipSound'
      BY DEF IInv, TableSound, SkipSound
    <2>3. StartSound'
      BY DEF IInv, StartSound, EarlierOver, TypeOK
    <2>4. WaitersSound'
      BY DEF IInv, WaitersSound, clientVars
    <2>5. QED
      BY <1>1, <2>1, <2>2, <2>3, <2>4 DEF IInv
  <1>7. QED
    BY <1>2, <1>3, <1>4, <1>5, <1>6 DEF Execute

\* Reordering the queue, and steps that leave it alone.
LEMMA OrderKeeps ==
    ASSUME IInv, TypeOK', UNCHANGED <<state, req, attempt, result, nextID, waiters, answer>>,
           UNCHANGED <<pc, toSkip, cur, exec>>,
           UNCHANGED clientVars \/ \E c \in Client : 
               /\ client[c] # "wait" /\ client' = [client EXCEPT ![c] = client'[c]]
               /\ target' = [target EXCEPT ![c] = target'[c]]
    PROVE  IInv'
  <1>1. TableSound' /\ AttemptsFresh' /\ ProcessOwned' /\ RunningHasOwner' /\ FlightSound'
    BY DEF IInv, TableSound, AttemptsFresh, ProcessOwned, RunningHasOwner, FlightSound,
       InFlight, CanRequeue, Present, Running
  <1>2. StartSound' /\ SkipSound'
    BY DEF IInv, StartSound, EarlierOver, SkipSound
  <1>3. WaitersSound'
    BY DEF IInv, WaitersSound, clientVars, TypeOK
  <1>4. QED
    BY <1>1, <1>2, <1>3 DEF IInv

\* The handlers keep it.
LEMMA HandlerKeeps ==
    ASSUME IInv, NEW c \in Client, Ask(c) \/ Reply(c)
    PROVE  IInv'
  <1>1. TypeOK'
    BY HandlerType DEF IInv
  <1> USE DEF ThenPoke, NoPoke
  <1>2. CASE Submit(c) \/ SubmitAfter(c) \/ Rerun(c)
    <2>1. PICK r \in Request : Add(r)
      <3>1. CASE Submit(c)
        BY <3>1, SchedulerAssumption DEF Submit
      <3>2. CASE SubmitAfter(c)
        <4>1. PICK q \in Requests[nextID] : Add([q EXCEPT !.deps = {target[c]}])
          BY <3>2 DEF SubmitAfter
        <4>2. q \in Request /\ target[c] \in Job
          BY <3>2, SchedulerAssumption DEF SubmitAfter, IInv, TypeOK
        <4>3. [q EXCEPT !.deps = {target[c]}] \in Request
          BY <4>2, DepsType
        <4>4. QED
          BY <4>1, <4>3
      <3>3. CASE Rerun(c)
        <4>1. PICK j \in Job : Add([req[j] EXCEPT !.deps = {}])
          BY <3>3 DEF Rerun
        <4>2. req[j] \in Request
          BY DEF IInv, TypeOK, QueueTypeOK
        <4>3. [req[j] EXCEPT !.deps = {}] \in Request
          BY <4>2 DEF Request
        <4>4. QED
          BY <4>1, <4>3
      <3>4. QED
        BY <1>2, <3>1, <3>2, <3>3
    <2>2. UNCHANGED <<schedVars, exec>> /\ client[c] \in {"ready", "chain"}
          /\ client' = [client EXCEPT ![c] = "poke"]
          /\ target' = [target EXCEPT ![c] = target'[c]]
      BY <1>2 DEF Submit, SubmitAfter, Rerun, IInv, TypeOK
    <2>3. QED
      BY <1>1, <2>1, <2>2, AddKeeps
  <1>3. CASE RemoveJob(c)
    <2>1. PICK j \in Job : Remove(j)
      BY <1>3 DEF RemoveJob
    <2>2. QED
      BY <1>3, <2>1, DropKeeps DEF RemoveJob, Remove, Running
  <1>4. CASE Clear(c)
    <2>1. PICK J \in SUBSET Settled : Drop(Settled \cap J)
      BY <1>4 DEF Clear, ClearFinished
    <2>2. QED
      BY <1>4, <2>1, DropKeeps DEF Clear, Settled, Running, Present
  <1>5. CASE Urgent(c) \/ SwapJobs(c) \/ SetMaxSlots(c) \/ HandlerPoke(c) \/ AskLastID(c)
    <2>1. /\ UNCHANGED <<state, req, attempt, result, nextID, waiters, answer>>
          /\ UNCHANGED <<pc, toSkip, cur, exec>>
      BY <1>5 DEF Urgent, MakeUrgent, SwapJobs, Swap, SetMaxSlots, HandlerPoke, AskLastID,
         queueVars, schedVars
    <2>2. \/ UNCHANGED clientVars
          \/ /\ client[c] # "wait" /\ client' = [client EXCEPT ![c] = client'[c]]
             /\ target' = [target EXCEPT ![c] = target'[c]]
      BY <1>5 DEF Urgent, SwapJobs, SetMaxSlots, HandlerPoke, AskLastID, clientVars, IInv, TypeOK
    <2>3. QED
      BY <1>1, <2>1, <2>2, OrderKeeps
  <1>6. CASE Wait(c)
    <2>1. PICK j \in Job : /\ state[j] # "none"
                           /\ WaitFor(c, j)
                           /\ target' = [target EXCEPT ![c] = j]
      BY <1>6 DEF Wait
    <2> USE <1>6, <2>1 DEF Wait, WaitFor, schedVars
    <2>2. TableSound' /\ AttemptsFresh' /\ ProcessOwned' /\ RunningHasOwner' /\ FlightSound'
      BY DEF IInv, TableSound, AttemptsFresh, ProcessOwned, RunningHasOwner, FlightSound,
         InFlight, CanRequeue, Present, Running
    <2>3. StartSound' /\ SkipSound'
      BY DEF IInv, StartSound, EarlierOver, SkipSound
    <2>4. WaitersSound'
      <3>1. Present(j) /\ j \notin Settled => state[j] \in {"queued", "running"}
        BY DEF Present, Settled, IInv, TypeOK, QueueTypeOK, States
      <3>2. \A i \in Job : c \notin waiters[i]
        BY DEF IInv, WaitersSound
      <3>3. QED
        BY <3>1, <3>2 DEF IInv, WaitersSound, TypeOK, QueueTypeOK
    <2>5. QED
      BY <1>1, <2>2, <2>3, <2>4 DEF IInv
  <1>7. CASE TakeAnswer(c)
    <2> USE <1>7 DEF TakeAnswer, schedVars
    <2>1. TableSound' /\ AttemptsFresh' /\ ProcessOwned' /\ RunningHasOwner' /\ FlightSound'
      BY DEF IInv, TableSound, AttemptsFresh, ProcessOwned, RunningHasOwner, FlightSound,
         InFlight, CanRequeue, Present, Running
    <2>2. StartSound' /\ SkipSound'
      BY DEF IInv, StartSound, EarlierOver, SkipSound
    <2>3. WaitersSound'
      BY DEF IInv, WaitersSound, TypeOK, QueueTypeOK
    <2>4. QED
      BY <1>1, <2>1, <2>2, <2>3 DEF IInv
  <1>8. QED
    BY <1>2, <1>3, <1>4, <1>5, <1>6, <1>7 DEF Ask, Reply

LEMMA InitSound == Init => IInv
  <1>1. Init => TypeOK
    BY InitType
  <1>2. Init => TableSound
    BY QueueAssumption DEF Init, QueueInit, TableSound, Job
  <1>3. Init => AttemptsFresh /\ ProcessOwned /\ RunningHasOwner /\ FlightSound
    BY DEF Init, QueueInit, AttemptsFresh, ProcessOwned, RunningHasOwner, FlightSound,
       InFlight, Running, Outcome
  <1>4. Init => StartSound /\ SkipSound /\ WaitersSound
    BY DEF Init, QueueInit, StartSound, SkipSound, WaitersSound
  <1>5. QED
    BY <1>1, <1>2, <1>3, <1>4 DEF IInv

\* Every step keeps it.
LEMMA StepKeeps ==
    ASSUME IInv, [Next]_vars
    PROVE  IInv'
  <1>1. ASSUME UNCHANGED vars PROVE IInv'
    <2>1. TypeOK'
      BY <1>1, TypeStutter DEF IInv
    <2>2. QED
      BY <1>1, <2>1, OrderKeeps DEF vars, queueVars, schedVars
  <1>2. QED
    BY <1>1, ScheduleKeeps, ExecuteKeeps, HandlerKeeps DEF Next

\* The invariant holds in every reachable state.
THEOREM Invariance == Spec => []IInv
  BY StepKeeps, InitSound, PTL DEF Spec

\* No attempt of a job is started twice, no process runs for a job that has
\* its result, and a retry never meets the process it replaces.
COROLLARY OneProcess == Spec => []ProcessOwned
  BY Invariance, PTL DEF IInv

\* The scheduler never starts a job a second time.
COROLLARY StartedOnce == Spec => []NoDoubleStart
  <1>1. IInv => NoDoubleStart
    <2>1. SUFFICES ASSUME IInv, pc \in {"run", "hook"},
                          NEW a \in Attempt, InFlight(cur, a)
                   PROVE  FALSE
      BY DEF NoDoubleStart
    <2>2. cur \in Job
      BY <2>1 DEF IInv, TypeOK
    <2>3. a = attempt[cur]
      BY <2>1, <2>2 DEF IInv, ProcessOwned
    <2>4. exec[cur][a] = "none"
      BY <2>1, <2>3 DEF IInv, StartSound
    <2>5. QED
      BY <2>1, <2>4 DEF InFlight, Outcome
  <1>2. QED
    BY <1>1, Invariance, PTL

\* A running job always has a goroutine that will end it, so no slot is lost.
COROLLARY NoSlotLost == Spec => []RunningHasOwner
  BY Invariance, PTL DEF IInv

\* What a waiting client is told about a job that exists is its last word.
THEOREM FinalAnswer == Spec => []AnswerIsFinal
  <1>1. IInv => AnswerIsFinal
    <2>1. SUFFICES ASSUME IInv, NEW c \in Client, client[c] = "wait",
                          answer[c] \notin {"none", "missing"}
                   PROVE  /\ answer[c] = result[target[c]]
                          /\ state[target[c]] \in {"finished", "skipped", "gone"}
                          /\ \A a \in Attempt : ~InFlight(target[c], a)
      BY DEF AnswerIsFinal
    <2>2. answer[c] = result[target[c]] /\ target[c] \in Job /\ result[target[c]] # "none"
      BY <2>1 DEF IInv, WaitersSound, TypeOK
    <2>3. QED
      BY <2>1, <2>2 DEF IInv, TableSound, FlightSound, TypeOK, QueueTypeOK, States
  <1>2. QED
    BY <1>1, Invariance, PTL

-----------------------------------------------------------------------------
(***************************************************************************)
(* The scheduler implements JobLifecycle: its steps are submissions,       *)
(* starts, retries, ends, skips and removals, or stutter.                  *)
(***************************************************************************)

LEMMA DropForgets ==
    ASSUME IInv, NEW J, Drop(J), \A j \in J \cap Job : Present(j) /\ state[j] # "running"
    PROVE  Lifecycle!Next
  <1>1. Lifecycle!Forget(J \cap Job)
    BY DEF Lifecycle!Forget, Drop, Present, IInv, TypeOK, QueueTypeOK, States
  <1>2. QED
    BY <1>1 DEF Lifecycle!Next

LEMMA AddSubmits ==
    ASSUME IInv, NEW r \in Request, Add(r)
    PROVE  Lifecycle!Next
  <1> DEFINE s == [r EXCEPT !.slots = IF r.slots < 1 THEN 1 ELSE r.slots]
  <1>1. s \in Request
    BY QueueAssumption DEF Request
  <1>2. nextID \in Job /\ state[nextID] = "none" /\ \A i \in Job : i < nextID => state[i] # "none"
    BY DEF Add, IInv, TableSound, Job
  <1>3. req' = [req EXCEPT ![nextID] = s] /\ state' = [state EXCEPT ![nextID] = "queued"]
        /\ UNCHANGED <<attempt, result>>
    BY DEF Add
  <1>4. Lifecycle!Submit(nextID)
    BY <1>1, <1>2, <1>3 DEF Lifecycle!Submit
  <1>5. QED
    BY <1>2, <1>4 DEF Lifecycle!Next

LEMMA ScheduleImplements ==
    ASSUME IInv, Schedule
    PROVE  [Lifecycle!Next]_(Lifecycle!vars)
  <1>1. CASE Wake \/ Scan \/ ReadSlots \/ ReadBusy \/ Pick
    BY <1>1 DEF Wake, Scan, ReadSlots, ReadBusy, Pick, queueVars, Lifecycle!vars
  <1>2. CASE Skip
    <2>1. PICK j \in toSkip : MarkSkipped(j)
      BY <1>2 DEF Skip
    <2>2. CASE Present(j) /\ Settle(j, "skipped", "skipped")
      <3>1. j \in Job /\ Lifecycle!Skip(j)
        BY <2>1, <2>2 DEF Settle, Lifecycle!Skip, IInv, SkipSound, Present, TypeOK
      <3>2. QED
        BY <3>1 DEF Lifecycle!Next
    <2>3. CASE UNCHANGED queueVars
      BY <2>3 DEF queueVars, Lifecycle!vars
    <2>4. QED
      BY <2>1, <2>2, <2>3 DEF MarkSkipped
  <1>3. CASE Start
    <2>1. cur \in Job /\ state[cur] \in {"queued", "gone"} /\ EarlierOver(cur)
      BY <1>3 DEF Start, IInv, StartSound, TypeOK
    <2>2. CASE state[cur] = "gone"
      BY <1>3, <2>2 DEF Start, SetRunning, Present, Lifecycle!vars
    <2>3. CASE state[cur] = "queued"
      <3>1. Lifecycle!Earlier(cur) \subseteq Lifecycle!Over
        BY <2>1 DEF EarlierOver, Lifecycle!Earlier, Lifecycle!Over, IInv, TypeOK, QueueTypeOK, Request
      <3>2. Lifecycle!Start(cur)
        BY <1>3, <2>3, <3>1 DEF Start, SetRunning, Present, Lifecycle!Start
      <3>3. QED
        BY <2>1, <3>2 DEF Lifecycle!Next
    <2>4. QED
      BY <2>1, <2>2, <2>3
  <1>4. CASE Launch
    <2>1. PICK J \in SUBSET Settled : Drop(J)
      BY <1>4, HookDrops DEF Launch, IInv, TypeOK
    <2>2. QED
      BY <2>1, DropForgets DEF Settled, Present
  <1>5. QED
    BY <1>1, <1>2, <1>3, <1>4 DEF Schedule

LEMMA ExecuteImplements ==
    ASSUME IInv, NEW j \in Job, NEW a \in Attempt, Execute(j, a)
    PROVE  [Lifecycle!Next]_(Lifecycle!vars)
  <1>1. InFlight(j, a) => a = attempt[j] /\ state[j] \in {"running", "gone"}
    BY DEF IInv, ProcessOwned
  <1>2. CASE ProcessStarts(j, a)
    <2>1. state' = state
      BY <1>1, <1>2 DEF ProcessStarts, SetRunning, InFlight, Present, IInv, TypeOK, QueueTypeOK
    <2>2. QED
      BY <1>2, <2>1 DEF ProcessStarts, SetRunning, Lifecycle!vars
  <1>3. CASE AttemptEnds(j, a)
    <2>1. InFlight(j, a)
      BY <1>3 DEF AttemptEnds, InFlight
    <2>2. CASE RequeueForRetry(j)
      <3>1. Lifecycle!Retry(j)
        BY <1>1, <2>1, <2>2 DEF RequeueForRetry, CanRequeue, Present, Lifecycle!Retry
      <3>2. QED
        BY <3>1 DEF Lifecycle!Next
    <2>3. CASE UNCHANGED queueVars
      BY <2>3 DEF queueVars, Lifecycle!vars
    <2>4. QED
      BY <1>3, <2>2, <2>3 DEF AttemptEnds
  <1>4. CASE JobFinishes(j, a)
    <2>1. InFlight(j, a) /\ exec[j][a] \in Outcome
      BY <1>4 DEF JobFinishes, InFlight
    <2>2. CASE Present(j) /\ Settle(j, "finished", exec[j][a])
      <3>1. exec[j][a] # "ok" => ~CanRequeue(j)
        BY <2>1 DEF IInv, FlightSound, Failed
      <3>2. exec[j][a] # "ok" => attempt[j] >= req[j].retries
        BY <2>2, <3>1 DEF CanRequeue, IInv, TypeOK, QueueTypeOK, Request, Attempt
      <3>3. Lifecycle!Finish(j, exec[j][a])
        BY <1>1, <2>1, <2>2, <3>2 DEF Settle, Present, Lifecycle!Finish
      <3>4. QED
        BY <2>1, <3>3 DEF Lifecycle!Next
    <2>3. CASE UNCHANGED queueVars
      BY <2>3 DEF queueVars, Lifecycle!vars
    <2>4. QED
      BY <1>4, <2>2, <2>3 DEF JobFinishes, MarkFinished
  <1>5. CASE FinishHook(j, a)
    <2>1. PICK J \in SUBSET Settled : Drop(J)
      BY <1>5, HookDrops DEF FinishHook, IInv, TypeOK
    <2>2. QED
      BY <2>1, DropForgets DEF Settled, Present
  <1>6. CASE FinishPoke(j, a)
    BY <1>6 DEF FinishPoke, queueVars, Lifecycle!vars
  <1>7. QED
    BY <1>2, <1>3, <1>4, <1>5, <1>6 DEF Execute

LEMMA HandlerImplements ==
    ASSUME IInv, NEW c \in Client, Ask(c) \/ Reply(c)
    PROVE  [Lifecycle!Next]_(Lifecycle!vars)
  <1>1. CASE Submit(c)
    BY <1>1, AddSubmits, SchedulerAssumption DEF Submit
  <1>2. CASE SubmitAfter(c)
    <2>1. PICK r \in Requests[nextID] : Add([r EXCEPT !.deps = {target[c]}])
      BY <1>2 DEF SubmitAfter
    <2>2. r \in Request /\ target[c] \in Job
      BY <1>2, SchedulerAssumption DEF SubmitAfter, IInv, TypeOK
    <2>3. [r EXCEPT !.deps = {target[c]}] \in Request
      BY <2>2, DepsType
    <2>4. QED
      BY <2>1, <2>3, AddSubmits
  <1>3. CASE Rerun(c)
    <2>1. PICK j \in Job : Add([req[j] EXCEPT !.deps = {}])
      BY <1>3 DEF Rerun
    <2>2. req[j] \in Request
      BY DEF IInv, TypeOK, QueueTypeOK
    <2>3. [req[j] EXCEPT !.deps = {}] \in Request
      BY <2>2 DEF Request
    <2>4. QED
      BY <2>1, <2>3, AddSubmits
  <1>4. CASE RemoveJob(c)
    <2>1. PICK j \in Job : Remove(j)
      BY <1>4 DEF RemoveJob
    <2>2. QED
      BY <2>1, DropForgets DEF Remove
  <1>5. CASE Clear(c)
    <2>1. PICK J \in SUBSET Settled : Drop(Settled \cap J)
      BY <1>5 DEF Clear, ClearFinished
    <2>2. QED
      BY <2>1, DropForgets DEF Settled, Present
  <1>6. CASE \/ AskLastID(c) \/ Urgent(c) \/ SwapJobs(c) \/ SetMaxSlots(c) \/ Wait(c)
             \/ HandlerPoke(c) \/ TakeAnswer(c)
    BY <1>6 DEF AskLastID, Urgent, MakeUrgent, SwapJobs, Swap, SetMaxSlots, Wait, WaitFor,
       HandlerPoke, TakeAnswer, queueVars, Lifecycle!vars
  <1>7. QED
    BY <1>1, <1>2, <1>3, <1>4, <1>5, <1>6 DEF Ask, Reply

\* The refinement: no interleaving of the scheduler, the executors and the
\* clients lets a job start before the jobs it was submitted after are over,
\* run more often than its retries allow, or change once it is over.
THEOREM Refinement == Spec => KeepsPromises
  <1>1. Init => Lifecycle!Init
    BY DEF Init, QueueInit, Lifecycle!Init
  <1>2. IInv /\ [Next]_vars => [Lifecycle!Next]_(Lifecycle!vars)
    <2>1. ASSUME UNCHANGED vars PROVE UNCHANGED Lifecycle!vars
      BY <2>1 DEF vars, queueVars, Lifecycle!vars
    <2>2. QED
      BY <2>1, ScheduleImplements, ExecuteImplements, HandlerImplements DEF Next
  <1>3. QED
    BY <1>1, <1>2, Invariance, PTL DEF Spec, KeepsPromises, Lifecycle!Spec

-----------------------------------------------------------------------------
(***************************************************************************)
(* No lost wakeup.  While an attempt is over in the table but its          *)
(* goroutine has not poked yet, the scheduler may look at the queue, find  *)
(* the slots still taken and go to sleep: what it saw is then no reason    *)
(* for sleeping, and the poke is still to come.                            *)
(***************************************************************************)

\* No executor goroutine is between its launch and its poke.
NobodyEnding == \A j \in Job, a \in Attempt : exec[j][a] \in {"none", "done"}

\* The scheduler has slots to give, and it has seen one taken only if the one
\* who holds it, or its poke, is still to come.
SeenSound ==
    /\ pc \in {"busy", "pick", "run"} => seenMax > 0
    /\ pc = "pick" /\ ~trigger /\ NobodyEnding => seenBusy = 0

WInv == IInv /\ SeenSound /\ NoLostWakeup

\* Numbers have a least one.
LEMMA LeastNumber ==
    ASSUME NEW S, S \subseteq Nat, S # {}
    PROVE  \E m \in S : \A k \in S : m <= k
  <1> DEFINE R == OpToRel(<, Nat)
  <1>1. IsWellFoundedOn(R, Nat)
    BY NatLessThanWellFounded, Zenon
  <1> HIDE DEF R
  <1>2. PICK m \in S : \A k \in S : ~ (<<k, m>> \in R)
    BY <1>1, WFMin
  <1>3. ASSUME NEW k \in S, k < m PROVE FALSE
    <2>1. <<k, m>> \in R
      BY <1>3 DEF R, OpToRel
    <2>2. QED
      BY <1>2, <2>1
  <1>4. QED
    BY <1>2, <1>3

\* If nothing runs, jobs wait for earlier ones only, and jobs are queued, then
\* one of them can start: the earliest waits for nobody, and of those that wait
\* for nobody one comes first in the queue.
LEMMA SomebodyCanStart ==
    ASSUME IInv, Queued # {}, Running = {}, NEW max \in Nat, max > 0,
           \A j \in Job : \A d \in req[j].deps : d < j
    PROVE  \E j \in Job : NextRunnable(j, max, 0)
  <1>1. Job \subseteq Nat /\ Queued \subseteq Job
    BY QueueAssumption DEF Job, Queued
  <1>2. PICK m \in Queued : \A k \in Queued : m <= k
    BY <1>1, LeastNumber
  <1>3. DependenciesMet(m)
    <2>1. SUFFICES ASSUME NEW d \in req[m].deps, Present(d)
                   PROVE  d \in Settled
      BY DEF DependenciesMet
    <2>2. m \in Job /\ req[m].deps \in SUBSET Job
      BY <1>1 DEF IInv, TypeOK, QueueTypeOK, Request
    <2>3. d \in Job /\ d < m
      BY <2>2
    <2>4. d \notin Queued
      BY <1>1, <1>2, <2>2, <2>3
    <2>5. d \notin Running
      OBVIOUS
    <2>6. state[d] \in States
      BY <2>3 DEF IInv, TypeOK, QueueTypeOK
    <2>7. QED
      BY <2>1, <2>3, <2>4, <2>5, <2>6 DEF States, Queued, Running, Settled, Present
  <1> DEFINE Free == {k \in Queued : DependenciesMet(k)}
             Ranks == {pos[k] : k \in Free}
  <1>4. Ranks \subseteq Nat /\ Ranks # {}
    <2>1. Ranks # {}
      BY <1>3
    <2>2. \A k \in Queued : pos[k] \in Nat
      BY <1>1 DEF IInv, TypeOK, QueueTypeOK
    <2>3. QED
      BY <2>1, <2>2
  <1>5. PICK p \in Ranks : \A q \in Ranks : p <= q
    BY <1>4, LeastNumber
  <1>6. PICK j \in Free : p = pos[j]
    BY <1>5
  <1>7. IsHead(j)
    BY <1>5, <1>6 DEF IsHead
  <1>8. Need(j, max) <= max - 0
    <2>1. req[j].slots \in Nat
      BY <1>1, <1>6, QueueAssumption DEF IInv, TypeOK, QueueTypeOK, Request
    <2>2. QED
      BY <2>1 DEF Need
  <1>9. QED
    BY <1>1, <1>6, <1>7, <1>8 DEF NextRunnable

\* Slots are taken only by jobs with a goroutine that will end them.
LEMMA BusyMeansRunning ==
    ASSUME IInv, NobodyEnding, pc # "hook"
    PROVE  Running = {} /\ BusySlots = 0
  <1>1. ASSUME NEW j \in Running PROVE FALSE
    <2>1. j \in Job /\ InFlight(j, attempt[j]) /\ attempt[j] \in Attempt
      BY <1>1 DEF IInv, RunningHasOwner, Running, TypeOK, QueueTypeOK
    <2>2. exec[j][attempt[j]] \in {"none", "done"}
      BY <2>1 DEF NobodyEnding
    <2>3. QED
      BY <2>1, <2>2 DEF InFlight, Outcome
  <1>2. SlotsHeld(Running) = {}
    BY <1>1 DEF SlotsHeld
  <1>3. QED
    BY <1>1, <1>2, FS_EmptySet DEF BusySlots

LEMMA WakeInit == Init => WInv
  <1>1. Init => SeenSound /\ NoLostWakeup
    BY DEF Init, SeenSound, NoLostWakeup
  <1>2. QED
    BY <1>1, InitSound DEF WInv

\* The scheduler's own steps.
LEMMA ScheduleWakes ==
    ASSUME WInv, Schedule
    PROVE  SeenSound' /\ NoLostWakeup'
  <1>1. IInv /\ IInv'
    BY ScheduleKeeps DEF WInv
  <1>2. SeenSound'
    <2>1. CASE Wake \/ Scan \/ Skip \/ Start \/ Launch
      BY <2>1 DEF Wake, Scan, Skip, Start, Launch, WInv, SeenSound, IInv, SkipSound
    <2>2. CASE ReadSlots
      BY <2>2, <1>1 DEF ReadSlots, SeenSound, IInv, TypeOK
    <2>3. CASE ReadBusy
      <3>1. seenMax' > 0
        BY <2>3 DEF ReadBusy, WInv, SeenSound
      <3>2. NobodyEnding' => seenBusy' = 0
        BY <2>3, <1>1, BusyMeansRunning DEF ReadBusy, NobodyEnding
      <3>3. QED
        BY <3>1, <3>2, <2>3 DEF SeenSound
    <2>4. CASE Pick
      BY <2>4 DEF Pick, WInv, SeenSound
    <2>5. QED
      BY <2>1, <2>2, <2>3, <2>4 DEF Schedule
  <1>3. NoLostWakeup'
    <2>1. CASE pc' = "idle" /\ Pick
      <3>1. SUFFICES ASSUME (\A j \in Job : \A d \in req[j].deps : d < j)',
                            ~trigger, NobodyEnding
                     PROVE  Queued' = {}
        BY <2>1 DEF NoLostWakeup, Pick, NobodyEnding
      <3>2. \A j \in Job : ~NextRunnable(j, seenMax, seenBusy)
        BY <2>1 DEF Pick
      <3>3. seenMax \in Nat /\ seenMax > 0 /\ seenBusy = 0 /\ pc = "pick"
        BY <2>1, <3>1, <1>1 DEF Pick, WInv, SeenSound, IInv, TypeOK
      <3>4. Running = {}
        BY <1>1, <3>1, <3>3, BusyMeansRunning
      <3>5. \A j \in Job : \A d \in req[j].deps : d < j
        BY <3>1, <2>1 DEF Pick, queueVars
      <3>6. Queued = {}
        BY <1>1, <3>2, <3>3, <3>4, <3>5, SomebodyCanStart
      <3>7. QED
        BY <3>6, <2>1 DEF Queued, Pick, queueVars
    <2>2. CASE pc' # "idle"
      BY <2>2 DEF NoLostWakeup
    <2>3. pc' = "idle" => Pick
      BY DEF Schedule, Wake, Scan, Skip, ReadSlots, ReadBusy, Start, Launch
    <2>4. QED
      BY <2>1, <2>2, <2>3
  <1>4. QED
    BY <1>2, <1>3

\* An executor goroutine is on its way to the poke, or has just poked.
LEMMA ExecuteWakes ==
    ASSUME WInv, NEW j \in Job, NEW a \in Attempt, Execute(j, a)
    PROVE  SeenSound' /\ NoLostWakeup'
  <1>1. trigger' = TRUE \/ ~NobodyEnding'
    <2>1. ASSUME NEW p \in Phase \ {"none", "done"}, exec' = [exec EXCEPT ![j][a] = p]
          PROVE  ~NobodyEnding'
      <3>1. exec'[j][a] = p
        BY <2>1 DEF WInv, IInv, TypeOK
      <3>2. QED
        BY <3>1, <2>1 DEF NobodyEnding
    <2>2. CASE ProcessStarts(j, a)
      BY <2>1, <2>2 DEF ProcessStarts, Phase
    <2>3. CASE AttemptEnds(j, a)
      <3>1. PICK p \in Outcome \cup {"hook"} : exec' = [exec EXCEPT ![j][a] = p]
        BY <2>3, SchedulerAssumption DEF AttemptEnds
      <3>2. p \in Phase \ {"none", "done"}
        BY DEF Phase, Outcome
      <3>3. QED
        BY <2>1, <3>1, <3>2
    <2>4. CASE JobFinishes(j, a)
      BY <2>1, <2>4 DEF JobFinishes, Phase
    <2>5. CASE FinishHook(j, a)
      BY <2>1, <2>5 DEF FinishHook, Phase
    <2>6. CASE FinishPoke(j, a)
      BY <2>6 DEF FinishPoke, Poke
    <2>7. QED
      BY <2>2, <2>3, <2>4, <2>5, <2>6 DEF Execute
  <1>2. UNCHANGED <<pc, seenMax, seenBusy>>
    BY DEF Execute, ProcessStarts, AttemptEnds, JobFinishes, FinishHook, FinishPoke, schedVars
  <1>3. SeenSound'
    BY <1>1, <1>2 DEF WInv, SeenSound
  <1>4. NoLostWakeup'
    BY <1>1 DEF NoLostWakeup, NobodyEnding
  <1>5. QED
    BY <1>3, <1>4

\* A handler that adds to the queue has the poke still to make.
LEMMA HandlerWakes ==
    ASSUME WInv, NEW c \in Client, Ask(c) \/ Reply(c)
    PROVE  SeenSound' /\ NoLostWakeup'
  <1> USE DEF ThenPoke, NoPoke, schedVars, clientVars
  <1>1. UNCHANGED <<pc, seenMax, seenBusy, exec>> /\ (trigger' = trigger \/ trigger' = TRUE)
    BY DEF Ask, Reply, Submit, AskLastID, SubmitAfter, Rerun, RemoveJob, Urgent, SwapJobs, Clear,
       SetMaxSlots, Wait, HandlerPoke, TakeAnswer, Poke
  <1>2. SeenSound'
    BY <1>1 DEF WInv, SeenSound, NobodyEnding
  <1>3. CASE \/ Submit(c) \/ SubmitAfter(c) \/ Rerun(c) \/ Urgent(c) \/ SetMaxSlots(c)
    <2>1. client' = [client EXCEPT ![c] = "poke"]
      BY <1>3 DEF Submit, SubmitAfter, Rerun, Urgent, SetMaxSlots
    <2>2. client'[c] = "poke"
      BY <2>1 DEF WInv, IInv, TypeOK
    <2>3. QED
      BY <1>2, <2>2 DEF NoLostWakeup
  <1>4. CASE HandlerPoke(c)
    BY <1>2, <1>4 DEF HandlerPoke, Poke, NoLostWakeup
  <1>5. CASE \/ AskLastID(c) \/ RemoveJob(c) \/ SwapJobs(c) \/ Clear(c) \/ Wait(c) \/ TakeAnswer(c)
    <2>1. UNCHANGED <<req, trigger>>
      BY <1>5 DEF AskLastID, RemoveJob, Remove, SwapJobs, Swap, Clear, ClearFinished, Drop,
         Wait, WaitFor, TakeAnswer, queueVars
    <2>2. Queued' \subseteq Queued
      BY <1>5 DEF AskLastID, RemoveJob, Remove, SwapJobs, Swap, Clear, ClearFinished, Drop,
         Wait, WaitFor, TakeAnswer, queueVars, Queued
    <2>3. \A d \in Client : client[d] = "poke" => client'[d] = "poke"
      BY <1>5 DEF AskLastID, RemoveJob, SwapJobs, Clear, Wait, TakeAnswer, WInv, IInv, TypeOK
    <2>4. NoLostWakeup'
      BY <1>1, <2>1, <2>2, <2>3 DEF WInv, NoLostWakeup
    <2>5. QED
      BY <1>2, <2>4
  <1>6. QED
    BY <1>3, <1>4, <1>5 DEF Ask, Reply

\* No lost wakeup: when the scheduler sleeps and nobody is on the way to wake
\* it, no job is left queued.
THEOREM NobodyLeftWaiting == Spec => []NoLostWakeup
  <1>1. WInv /\ [Next]_vars => WInv'
    <2>1. ASSUME WInv, Next PROVE WInv'
      BY <2>1, ScheduleKeeps, ExecuteKeeps, HandlerKeeps, ScheduleWakes, ExecuteWakes,
         HandlerWakes DEF Next, WInv
    <2>2. ASSUME WInv, UNCHANGED vars PROVE WInv'
      <3>1. IInv'
        BY <2>2, StepKeeps DEF WInv
      <3>2. SeenSound' /\ NoLostWakeup'
        BY <2>2 DEF vars, queueVars, schedVars, clientVars, WInv, SeenSound, NobodyEnding,
           NoLostWakeup, Queued
      <3>3. QED
        BY <3>1, <3>2 DEF WInv
    <2>3. QED
      BY <2>1, <2>2
  <1>2. WInv => NoLostWakeup
    BY DEF WInv
  <1>3. QED
    BY <1>1, <1>2, WakeInit, PTL DEF Spec

-----------------------------------------------------------------------------
(***************************************************************************)
(* Slots.  The scheduler decides on a count of slots it took a while ago;  *)
(* since then jobs may have finished but none has started, so the count    *)
(* can only be too high.                                                   *)
(***************************************************************************)

\* The count is not too low, and the job picked fits beside all that runs.
RoomKept ==
    /\ \A j \in Job : req[j].slots >= 1
    /\ pc = "pick" => BusySlots <= seenBusy
    /\ pc = "run" => BusySlots + Need(cur, seenMax) <= seenMax

RInv == IInv /\ RoomKept

\* One job more holds its own slots more, at the most.
LEMMA OneMoreJob ==
    ASSUME NEW J \in SUBSET Job, NEW j \in Job, req[j].slots \in Nat
    PROVE  Cardinality(SlotsHeld(J \cup {j})) <= Cardinality(SlotsHeld(J)) + req[j].slots
  <1> DEFINE n == req[j].slots
             P == {j} \X (1..n)
             T == SlotsHeld(J) \cup P
  <1>1. IsFiniteSet({j}) /\ Cardinality({j}) = 1
    BY FS_Singleton
  <1>2. IsFiniteSet(1..n) /\ Cardinality(1..n) = n
    <2>1. 1 \in Int /\ n \in Int
      OBVIOUS
    <2>2. IsFiniteSet(1..n) /\ Cardinality(1..n) = IF 1 > n THEN 0 ELSE n - 1 + 1
      BY <2>1, FS_Interval
    <2>3. (IF 1 > n THEN 0 ELSE n - 1 + 1) = n
      OBVIOUS
    <2>4. QED
      BY <2>2, <2>3
  <1>3. IsFiniteSet(P) /\ Cardinality(P) = n
    <2> HIDE DEF n
    <2>1. IsFiniteSet(P) /\ Cardinality(P) = Cardinality({j}) * Cardinality(1..n)
      BY <1>1, <1>2, FS_Product, Zenon
    <2>2. Cardinality({j}) * Cardinality(1..n) = n
      BY <1>1, <1>2 DEF n
    <2>3. QED
      BY <2>1, <2>2
  <1> HIDE DEF P
  <1>4. IsFiniteSet(SlotsHeld(J)) /\ Cardinality(SlotsHeld(J)) \in Nat
    BY SlotsFinite
  <1>5. /\ IsFiniteSet(T)
        /\ Cardinality(T) = Cardinality(SlotsHeld(J)) + Cardinality(P) - Cardinality(SlotsHeld(J) \cap P)
    BY <1>3, <1>4, FS_Union
  <1>6. Cardinality(SlotsHeld(J) \cap P) \in Nat
    BY <1>3, FS_Subset, FS_CardinalityType
  <1>7. SlotsHeld(J \cup {j}) \subseteq T
    BY DEF SlotsHeld, P
  <1>8. Cardinality(SlotsHeld(J \cup {j})) <= Cardinality(T)
    BY <1>5, <1>7, FS_Subset
  <1>9. Cardinality(SlotsHeld(J \cup {j})) \in Nat
    <2>1. J \cup {j} \in SUBSET Job
      OBVIOUS
    <2>2. QED
      BY <2>1, SlotsFinite
  <1>10. Cardinality(T) = Cardinality(SlotsHeld(J)) + n - Cardinality(SlotsHeld(J) \cap P)
    BY <1>3, <1>5
  <1>11. Cardinality(T) <= Cardinality(SlotsHeld(J)) + n
    BY <1>4, <1>6, <1>10
  <1>12. QED
    BY <1>4, <1>5, <1>8, <1>9, <1>11, FS_CardinalityType

\* A job that runs holds a slot.
LEMMA NoSlotsNoJobs ==
    ASSUME RoomKept, NEW J \in SUBSET Job, Cardinality(SlotsHeld(J)) <= 0
    PROVE  J = {}
  <1>1. Cardinality(SlotsHeld(J)) = 0
    BY SlotsFinite
  <1>2. SlotsHeld(J) = {}
    BY <1>1, SlotsFinite, FS_EmptySet
  <1>3. ASSUME NEW j \in J PROVE <<j, 1>> \in SlotsHeld(J)
    BY QueueAssumption DEF SlotsHeld, RoomKept
  <1>4. QED
    BY <1>2, <1>3

\* Where the scheduler is, what it has seen and what it has picked are its own.
LEMMA OnlyTheSchedulerMoves ==
    ASSUME [Next]_vars
    PROVE  Schedule \/ UNCHANGED <<pc, seenMax, seenBusy, cur>>
  <1>1. ASSUME NEW i \in Job, NEW a \in Attempt, Execute(i, a)
        PROVE  UNCHANGED <<pc, seenMax, seenBusy, cur>>
    BY <1>1 DEF Execute, ProcessStarts, AttemptEnds, JobFinishes, FinishHook, FinishPoke, schedVars
  <1>2. ASSUME NEW c \in Client, Ask(c) \/ Reply(c)
        PROVE  UNCHANGED <<pc, seenMax, seenBusy, cur>>
    BY <1>2 DEF Ask, Reply, Submit, AskLastID, SubmitAfter, Rerun, RemoveJob, Urgent, SwapJobs,
       Clear, SetMaxSlots, Wait, HandlerPoke, TakeAnswer, ThenPoke, NoPoke, schedVars
  <1>3. QED
    BY <1>1, <1>2 DEF Next, vars, schedVars

\* A job is set running by the scheduler alone, when it is the one it picked.
LEMMA OnlyTheSchedulerStarts ==
    ASSUME IInv, [Next]_vars, NEW j \in Job, state[j] # "running", state'[j] = "running"
    PROVE  Start /\ j = cur /\ Running' = Running \cup {j} /\ UNCHANGED req
  <1>1. CASE Schedule
    <2>1. CASE Start
      <3>1. cur \in Job /\ (state' = [state EXCEPT ![cur] = "running"] \/ state' = state)
            /\ UNCHANGED req
        BY <2>1 DEF Start, SetRunning, IInv, TypeOK
      <3>2. state \in [Job -> States]
        BY DEF IInv, TypeOK, QueueTypeOK
      <3>3. j = cur /\ state' = [state EXCEPT ![cur] = "running"]
        BY <3>1, <3>2
      <3>4. QED
        BY <2>1, <3>1, <3>2, <3>3 DEF Running
    <2>2. CASE Skip
      <3>1. PICK i \in toSkip : MarkSkipped(i)
        BY <2>2 DEF Skip
      <3>2. QED
        BY <3>1 DEF MarkSkipped, Settle, queueVars, IInv, TypeOK, QueueTypeOK
    <2>3. CASE Launch
      <3>1. PICK J \in SUBSET Settled : Drop(J)
        BY <2>3, HookDrops DEF Launch, IInv, TypeOK
      <3>2. QED
        BY <3>1 DEF Drop
    <2>4. CASE Wake \/ Scan \/ ReadSlots \/ ReadBusy \/ Pick
      BY <2>4 DEF Wake, Scan, ReadSlots, ReadBusy, Pick, queueVars
    <2>5. QED
      BY <1>1, <2>1, <2>2, <2>3, <2>4 DEF Schedule
  <1>2. ASSUME NEW i \in Job, NEW a \in Attempt, Execute(i, a) PROVE FALSE
    <2>1. CASE ProcessStarts(i, a)
      <3>1. state[i] \in {"running", "gone"}
        BY <2>1 DEF ProcessStarts, IInv, ProcessOwned, InFlight
      <3>2. QED
        BY <2>1, <3>1 DEF ProcessStarts, SetRunning, Present, IInv, TypeOK, QueueTypeOK
    <2>2. CASE AttemptEnds(i, a)
      BY <2>2 DEF AttemptEnds, RequeueForRetry, queueVars, IInv, TypeOK, QueueTypeOK
    <2>3. CASE JobFinishes(i, a)
      BY <2>3 DEF JobFinishes, MarkFinished, Settle, queueVars, IInv, TypeOK, QueueTypeOK
    <2>4. CASE FinishHook(i, a)
      <3>1. PICK J \in SUBSET Settled : Drop(J)
        BY <2>4, HookDrops DEF FinishHook, IInv, TypeOK
      <3>2. QED
        BY <3>1 DEF Drop
    <2>5. CASE FinishPoke(i, a)
      BY <2>5 DEF FinishPoke, queueVars
    <2>6. QED
      BY <1>2, <2>1, <2>2, <2>3, <2>4, <2>5 DEF Execute
  <1>3. ASSUME NEW c \in Client, Ask(c) \/ Reply(c) PROVE FALSE
    <2>1. state' = state \/ \E i \in Job : state' = [state EXCEPT ![i] = "queued"]
          \/ \E J : Drop(J)
      <3>1. CASE Submit(c) \/ SubmitAfter(c) \/ Rerun(c)
        BY <3>1 DEF Submit, SubmitAfter, Rerun, Add
      <3>2. CASE RemoveJob(c)
        BY <3>2 DEF RemoveJob, Remove
      <3>3. CASE Clear(c)
        BY <3>3 DEF Clear, ClearFinished
      <3>4. CASE \/ AskLastID(c) \/ Urgent(c) \/ SwapJobs(c) \/ SetMaxSlots(c) \/ Wait(c)
                 \/ HandlerPoke(c) \/ TakeAnswer(c)
        BY <3>4 DEF AskLastID, Urgent, MakeUrgent, SwapJobs, Swap, SetMaxSlots, Wait, WaitFor,
           HandlerPoke, TakeAnswer, queueVars
      <3>5. QED
        BY <1>3, <3>1, <3>2, <3>3, <3>4 DEF Ask, Reply
    <2>2. QED
      BY <2>1 DEF Drop, IInv, TypeOK, QueueTypeOK
  <1>4. QED
    BY <1>1, <1>2, <1>3 DEF Next, vars, queueVars

\* In every other step the slots in use can only become fewer: a request is
\* written when its job is added and never changes afterwards.
LEMMA RequestsStand ==
    ASSUME IInv, [Next]_vars, \A i \in Job : req[i].slots >= 1
    PROVE  /\ \A j \in Job : state[j] # "none" => req'[j] = req[j]
           /\ \A j \in Job : req'[j].slots >= 1
  <1>1. ASSUME NEW r \in Request, Add(r)
        PROVE  /\ \A j \in Job : state[j] # "none" => req'[j] = req[j]
               /\ \A j \in Job : req'[j].slots >= 1
    <2> DEFINE s == [r EXCEPT !.slots = IF r.slots < 1 THEN 1 ELSE r.slots]
    <2>1. nextID \in Job /\ state[nextID] = "none"
      BY <1>1 DEF Add, IInv, TableSound, Job
    <2>2. req' = [req EXCEPT ![nextID] = s] /\ req \in [Job -> Request]
      BY <1>1 DEF Add, IInv, TypeOK, QueueTypeOK
    <2>3. s.slots >= 1
      BY QueueAssumption DEF Request
    <2> HIDE DEF s
    <2>4. QED
      BY <2>1, <2>2, <2>3
  <1>2. CASE Schedule
    <2>1. req' = req
      <3>1. CASE Launch
        <4>1. PICK J \in SUBSET Settled : Drop(J)
          BY <3>1, HookDrops DEF Launch, IInv, TypeOK
        <4>2. QED
          BY <4>1 DEF Drop
      <3>2. CASE Wake \/ Scan \/ Skip \/ ReadSlots \/ ReadBusy \/ Pick \/ Start
        BY <3>2 DEF Wake, Scan, Skip, ReadSlots, ReadBusy, Pick, Start, MarkSkipped, Settle,
           SetRunning, queueVars
      <3>3. QED
        BY <1>2, <3>1, <3>2 DEF Schedule
    <2>2. QED
      BY <2>1
  <1>3. ASSUME NEW i \in Job, NEW a \in Attempt, Execute(i, a) PROVE req' = req
    <2>1. CASE FinishHook(i, a)
      <3>1. PICK J \in SUBSET Settled : Drop(J)
        BY <2>1, HookDrops DEF FinishHook, IInv, TypeOK
      <3>2. QED
        BY <3>1 DEF Drop
    <2>2. CASE ProcessStarts(i, a) \/ AttemptEnds(i, a) \/ JobFinishes(i, a) \/ FinishPoke(i, a)
      BY <2>2 DEF ProcessStarts, AttemptEnds, JobFinishes, FinishPoke, SetRunning,
         RequeueForRetry, MarkFinished, Settle, queueVars
    <2>3. QED
      BY <1>3, <2>1, <2>2 DEF Execute
  <1>4. ASSUME NEW c \in Client, Ask(c) \/ Reply(c)
        PROVE  req' = req \/ \E r \in Request : Add(r)
    <2>1. CASE Submit(c)
      BY <2>1, SchedulerAssumption DEF Submit
    <2>2. CASE SubmitAfter(c)
      <3>1. PICK r \in Requests[nextID] : Add([r EXCEPT !.deps = {target[c]}])
        BY <2>2 DEF SubmitAfter
      <3>2. r \in Request /\ target[c] \in Job
        BY <2>2, SchedulerAssumption DEF SubmitAfter, IInv, TypeOK
      <3>3. [r EXCEPT !.deps = {target[c]}] \in Request
        BY <3>2, DepsType
      <3>4. QED
        BY <3>1, <3>3
    <2>3. CASE Rerun(c)
      <3>1. PICK j \in Job : Add([req[j] EXCEPT !.deps = {}])
        BY <2>3 DEF Rerun
      <3>2. req[j] \in Request
        BY DEF IInv, TypeOK, QueueTypeOK
      <3>3. [req[j] EXCEPT !.deps = {}] \in Request
        BY <3>2 DEF Request
      <3>4. QED
        BY <3>1, <3>3
    <2>4. CASE \/ AskLastID(c) \/ RemoveJob(c) \/ Urgent(c) \/ SwapJobs(c) \/ Clear(c)
               \/ SetMaxSlots(c) \/ Wait(c) \/ HandlerPoke(c) \/ TakeAnswer(c)
      BY <2>4 DEF AskLastID, RemoveJob, Remove, Urgent, MakeUrgent, SwapJobs, Swap, Clear,
         ClearFinished, Drop, SetMaxSlots, Wait, WaitFor, HandlerPoke, TakeAnswer, queueVars
    <2>5. QED
      BY <1>4, <2>1, <2>2, <2>3, <2>4 DEF Ask, Reply
  <1>5. QED
    BY <1>1, <1>2, <1>3, <1>4 DEF Next, vars, queueVars

\* Every step but the start of a job leaves the slots in use as they are, or
\* frees some.
LEMMA SlotsOnlyFreed ==
    ASSUME RInv, [Next]_vars, ~Start
    PROVE  BusySlots' <= BusySlots
  <1>1. Running' \subseteq Running
    BY OnlyTheSchedulerStarts DEF Running, RInv
  <1>2. \A j \in Running : req'[j] = req[j]
    BY RequestsStand DEF Running, RInv, RoomKept
  <1>3. SlotsHeld(Running)' \subseteq SlotsHeld(Running)
    BY <1>1, <1>2 DEF SlotsHeld
  <1>4. Running \in SUBSET Job
    BY DEF Running
  <1>5. IsFiniteSet(SlotsHeld(Running))
    BY <1>4, SlotsFinite
  <1>6. QED
    BY <1>3, <1>5, FS_Subset DEF BusySlots

LEMMA RoomInit == Init => RInv
  <1>1. Init => RoomKept
    BY DEF Init, QueueInit, NoRequest, RoomKept
  <1>2. QED
    BY <1>1, InitSound DEF RInv

LEMMA RoomStays ==
    ASSUME RInv, [Next]_vars, IInv'
    PROVE  RoomKept'
  <1>1. \A j \in Job : req'[j].slots >= 1
    BY RequestsStand DEF RInv, RoomKept
  <1>2. BusySlots \in Nat /\ seenBusy \in Nat /\ seenMax \in Nat /\ cur \in Job /\ req[cur] \in Request
    BY BusySlotsType DEF RInv, IInv, TypeOK, QueueTypeOK
  <1>2a. BusySlots' \in Nat
    <2>1. (Running \in SUBSET Job)'
      BY DEF Running
    <2>2. IsFiniteSet(Job \X (1..MaxNeed))
      <3>1. IsFiniteSet(Job) /\ IsFiniteSet(1..MaxNeed)
        BY QueueAssumption, FS_Interval, SMT DEF Job
      <3>2. QED
        BY <3>1, FS_Product, Zenon
    <2>3. SlotsHeld(Running)' \subseteq Job \X (1..MaxNeed)
      BY <2>1 DEF SlotsHeld
    <2>4. QED
      BY <2>2, <2>3, FS_Subset, FS_CardinalityType DEF BusySlots
  <1>3. pc' = "pick" => BusySlots' <= seenBusy'
    <2>1. CASE ReadBusy
      <3>1. BusySlots' = BusySlots /\ seenBusy' = BusySlots
        BY <2>1 DEF ReadBusy, queueVars, BusySlots, SlotsHeld, Running
      <3>2. QED
        BY <1>2, <3>1
    <2>2. CASE ~ReadBusy
      <3>1. pc' = "pick" => pc = "pick" /\ seenBusy' = seenBusy /\ ~Start
        BY <2>2, OnlyTheSchedulerMoves DEF Schedule, Wake, Scan, Skip, ReadSlots, Pick, Start, Launch
      <3>2. QED
        BY <1>2, <1>2a, <3>1, SlotsOnlyFreed DEF RInv, RoomKept
    <2>3. QED
      BY <2>1, <2>2
  <1>4. pc' = "run" => BusySlots' + Need(cur, seenMax)' <= seenMax'
    <2>1. CASE Pick
      <3>1. SUFFICES ASSUME pc' = "run"
                     PROVE  BusySlots' + Need(cur, seenMax)' <= seenMax'
        OBVIOUS
      <3>2. PICK j \in Job : NextRunnable(j, seenMax, seenBusy) /\ cur' = j
        BY <2>1, <3>1 DEF Pick
      <3>3. UNCHANGED <<req, seenMax>> /\ pc = "pick" /\ BusySlots' = BusySlots
        BY <2>1, <3>1 DEF Pick, queueVars, BusySlots, SlotsHeld, Running
      <3>4. Need(cur, seenMax)' = Need(j, seenMax)
        BY <3>2, <3>3 DEF Need
      <3>5. Need(j, seenMax) <= seenMax - seenBusy /\ Need(j, seenMax) \in Nat
        <4>1. req[j].slots \in Nat
          BY QueueAssumption DEF RInv, IInv, TypeOK, QueueTypeOK, Request
        <4>2. QED
          BY <3>2, <4>1, <1>2 DEF NextRunnable, Need
      <3>6. BusySlots <= seenBusy
        BY <3>3 DEF RInv, RoomKept
      <3>7. QED
        BY <1>2, <3>3, <3>4, <3>5, <3>6
    <2>2. CASE ~Pick
      <3>1. pc' = "run" => pc = "run" /\ UNCHANGED <<cur, seenMax>> /\ ~Start
        BY <2>2, OnlyTheSchedulerMoves DEF Schedule, Wake, Scan, Skip, ReadSlots, ReadBusy, Start, Launch
      <3>2. SUFFICES ASSUME pc' = "run"
                     PROVE  BusySlots' + Need(cur, seenMax)' <= seenMax'
        OBVIOUS
      <3>3. state[cur] # "none"
        BY <3>1, <3>2 DEF RInv, IInv, StartSound
      <3>4. req'[cur] = req[cur]
        BY <1>2, <3>3, RequestsStand DEF RInv, RoomKept
      <3>5. Need(cur, seenMax)' = Need(cur, seenMax)
        BY <3>1, <3>2, <3>4 DEF Need
      <3>6. BusySlots' <= BusySlots
        BY <3>1, <3>2, SlotsOnlyFreed
      <3>7. Need(cur, seenMax) \in Nat
        BY <1>2, QueueAssumption DEF Need, Request
      <3>8. QED
        BY <1>2, <1>2a, <3>1, <3>2, <3>5, <3>6, <3>7 DEF RInv, RoomKept
    <2>3. QED
      BY <2>1, <2>2
  <1>5. QED
    BY <1>1, <1>3, <1>4 DEF RoomKept

\* A job that starts fits into the slots the scheduler read, or runs alone.
LEMMA StartsFit ==
    ASSUME RInv, [Next]_vars, NEW j \in Job, state[j] # "running", state'[j] = "running"
    PROVE  BusySlots' <= seenMax \/ Running' = {j}
  <1>1. Start /\ j = cur /\ Running' = Running \cup {j} /\ UNCHANGED req
    BY OnlyTheSchedulerStarts DEF RInv
  <1>2. BusySlots + Need(j, seenMax) <= seenMax
    BY <1>1 DEF Start, RInv, RoomKept
  <1>3. BusySlots \in Nat /\ seenMax \in Nat /\ Running \in SUBSET Job /\ req[j].slots \in Nat
    <2>1. req[j] \in Request /\ seenMax \in Nat
      BY DEF RInv, IInv, TypeOK, QueueTypeOK
    <2>2. req[j].slots \in Nat
      BY <2>1, QueueAssumption DEF Request
    <2>3. QED
      BY <2>1, <2>2, BusySlotsType DEF Running
  <1>4. BusySlots' = Cardinality(SlotsHeld(Running \cup {j}))
    BY <1>1 DEF BusySlots, SlotsHeld
  <1>5. CASE req[j].slots > seenMax
    <2>1. BusySlots <= 0
      BY <1>2, <1>3, <1>5 DEF Need
    <2>2. Running = {}
      BY <1>3, <2>1, NoSlotsNoJobs DEF BusySlots, RInv
    <2>3. QED
      BY <1>1, <2>2
  <1>6. CASE ~(req[j].slots > seenMax)
    <2>1. Cardinality(SlotsHeld(Running \cup {j})) <= BusySlots + req[j].slots
      BY <1>3, OneMoreJob DEF BusySlots
    <2>2. Need(j, seenMax) = req[j].slots
      BY <1>6 DEF Need
    <2>3. Cardinality(SlotsHeld(Running \cup {j})) \in Nat
      <3>1. Running \cup {j} \in SUBSET Job
        BY <1>3
      <3>2. QED
        BY <3>1, SlotsFinite
    <2>4. QED
      BY <1>2, <1>3, <1>4, <2>1, <2>2, <2>3
  <1>7. QED
    BY <1>5, <1>6

\* Whatever finishes, is removed or changes the slots between the scheduler's
\* looks at the queue, a start never takes more than it was given to spend.
THEOREM StartsStayWithinSlots == Spec => StartFits
  <1>1. RInv /\ [Next]_vars => RInv'
    BY StepKeeps, RoomStays DEF RInv
  <1>2. RInv /\ [Next]_vars =>
          [\A j \in Job : state[j] # "running" /\ state'[j] = "running" =>
              BusySlots' <= seenMax \/ Running' = {j}]_vars
    BY StartsFit
  <1>3. QED
    BY <1>1, <1>2, RoomInit, PTL DEF Spec, StartFits

-----------------------------------------------------------------------------
(***************************************************************************)
(* The line.  Unless clients reorder the queue, a job's rank is its ID.    *)
(***************************************************************************)

\* The job picked is older than every other that could have been: who joins
\* the line later is younger, or comes back for another attempt.
LineKept ==
    /\ \A j \in Job : Present(j) => pos[j] = j
    /\ pc = "run" => \A j \in Queued : j < cur /\ req[j].deps = {} => attempt[j] > 0

LInv == RInv /\ LineKept

LEMMA LineInit == Init => LInv
  <1>1. Init => LineKept
    BY DEF Init, QueueInit, LineKept, Present
  <1>2. QED
    BY <1>1, RoomInit DEF LInv

\* A job keeps its rank while it is in the table.
LEMMA RanksStay ==
    ASSUME Ops \cap {"urgent", "swap"} = {}, LInv, [Next]_vars, NEW j \in Job, Present(j)'
    PROVE  pos'[j] = j
  <1> USE DEF Present
  <1>1. state \in [Job -> States] /\ pos \in [Job -> Job] /\ toSkip \subseteq Job /\ cur \in Job
    BY DEF LInv, RInv, IInv, TypeOK, QueueTypeOK
  <1>2. Present(j) => pos[j] = j
    BY DEF LInv, LineKept
  <1>3. ASSUME NEW J, Drop(J) PROVE pos'[j] = j
    BY <1>1, <1>2, <1>3 DEF Drop
  <1>4. ASSUME NEW r, Add(r) PROVE pos'[j] = j
    BY <1>1, <1>2, <1>4 DEF Add
  <1>5. ASSUME NEW i \in Job, pos' = pos, \A k \in Job \ {i} : state'[k] = state[k],
               Present(i) \/ state' = state
        PROVE  pos'[j] = j
    BY <1>1, <1>2, <1>5
  <1>6. CASE Schedule
    <2>1. CASE Skip
      <3>1. PICK i \in toSkip : MarkSkipped(i)
        BY <2>1 DEF Skip
      <3>2. QED
        BY <3>1, <1>1, <1>5 DEF MarkSkipped, Settle, queueVars
    <2>2. CASE Start
      BY <2>2, <1>1, <1>5 DEF Start, SetRunning
    <2>3. CASE Launch
      <3>1. \E J \in SUBSET Settled : Drop(J)
        BY <2>3, HookDrops DEF Launch, LInv, RInv, IInv, TypeOK
      <3>2. QED
        BY <3>1, <1>3
    <2>4. CASE Wake \/ Scan \/ ReadSlots \/ ReadBusy \/ Pick
      BY <2>4, <1>2 DEF Wake, Scan, ReadSlots, ReadBusy, Pick, queueVars
    <2>5. QED
      BY <1>6, <2>1, <2>2, <2>3, <2>4 DEF Schedule
  <1>7. ASSUME NEW i \in Job, NEW a \in Attempt, Execute(i, a) PROVE pos'[j] = j
    <2>1. CASE ProcessStarts(i, a)
      BY <2>1, <1>1, <1>5 DEF ProcessStarts, SetRunning
    <2>2. CASE AttemptEnds(i, a)
      BY <2>2, <1>1, <1>5 DEF AttemptEnds, RequeueForRetry, CanRequeue, queueVars
    <2>3. CASE JobFinishes(i, a)
      BY <2>3, <1>1, <1>5 DEF JobFinishes, MarkFinished, Settle, queueVars
    <2>4. CASE FinishHook(i, a)
      <3>1. \E J \in SUBSET Settled : Drop(J)
        BY <2>4, HookDrops DEF FinishHook, LInv, RInv, IInv, TypeOK
      <3>2. QED
        BY <3>1, <1>3
    <2>5. CASE FinishPoke(i, a)
      BY <2>5, <1>2 DEF FinishPoke, queueVars
    <2>6. QED
      BY <1>7, <2>1, <2>2, <2>3, <2>4, <2>5 DEF Execute
  <1>8. ASSUME NEW c \in Client, Ask(c) \/ Reply(c) PROVE pos'[j] = j
    <2>1. CASE Submit(c) \/ SubmitAfter(c) \/ Rerun(c)
      BY <2>1, <1>4 DEF Submit, SubmitAfter, Rerun
    <2>2. CASE RemoveJob(c)
      BY <2>2, <1>3 DEF RemoveJob, Remove
    <2>3. CASE Clear(c)
      BY <2>3, <1>3 DEF Clear, ClearFinished
    <2>4. CASE Urgent(c) \/ SwapJobs(c)
      BY <2>4 DEF Urgent, SwapJobs
    <2>5. CASE AskLastID(c) \/ SetMaxSlots(c) \/ Wait(c) \/ HandlerPoke(c) \/ TakeAnswer(c)
      BY <2>5, <1>2 DEF AskLastID, SetMaxSlots, Wait, WaitFor, HandlerPoke, TakeAnswer, queueVars
    <2>6. QED
      BY <1>8, <2>1, <2>2, <2>3, <2>4, <2>5 DEF Ask, Reply
  <1>9. CASE UNCHANGED vars
    BY <1>9, <1>2 DEF vars, queueVars
  <1>10. QED
    BY <1>6, <1>7, <1>8, <1>9 DEF Next

\* Who joins the line while the scheduler starts the job it picked is younger
\* than that job, or has had its first attempt.
LEMMA LateComers ==
    ASSUME LInv, [Next]_vars, pc = "run", pc' = "run", NEW j \in Job, j \in Queued',
           j < cur, req'[j].deps = {}
    PROVE  attempt'[j] > 0
  <1>1. /\ state \in [Job -> States] /\ req \in [Job -> Request] /\ attempt \in [Job -> Attempt]
        /\ toSkip = {} /\ cur \in Job /\ state[cur] # "none" /\ nextID \in Nat
        /\ \A i \in Job : state[i] = "none" <=> i >= nextID
    BY DEF LInv, RInv, IInv, TypeOK, QueueTypeOK, StartSound, SkipSound, TableSound
  <1>2. state'[j] = "queued"
    BY DEF Queued
  <1>3. j < nextID
    BY <1>1, QueueAssumption DEF Job
  <1>4. ASSUME UNCHANGED <<req, attempt>>, state'[j] = state[j] PROVE attempt'[j] > 0
    BY <1>2, <1>4 DEF LInv, LineKept, Queued
  <1>5. ASSUME NEW J, Drop(J) PROVE attempt'[j] > 0
    BY <1>2, <1>4, <1>5 DEF Drop
  <1>6. ASSUME NEW r, Add(r) PROVE attempt'[j] > 0
    BY <1>1, <1>3, <1>6 DEF Add, LInv, LineKept, Queued
  <1>7. CASE Schedule
    BY <1>7 DEF Schedule, Wake, Scan, Skip, ReadSlots, ReadBusy, Pick, Start, Launch
  <1>8. ASSUME NEW i \in Job, NEW a \in Attempt, Execute(i, a)
        PROVE  attempt'[j] > 0
    <2>1. InFlight(i, a) => state[i] \in {"running", "gone"}
      BY DEF LInv, RInv, IInv, ProcessOwned
    <2>2. CASE ProcessStarts(i, a)
      BY <2>1, <2>2, <1>1, <1>2, <1>4 DEF ProcessStarts, SetRunning, InFlight, Present
    <2>3. CASE AttemptEnds(i, a)
      <3>1. CASE RequeueForRetry(i)
        <4>1. CASE i = j
          <5>1. attempt'[j] = attempt[j] + 1 /\ attempt[j] \in Nat
            BY <3>1, <4>1, <1>1 DEF RequeueForRetry, Attempt
          <5>2. QED
            BY <5>1
        <4>2. CASE i # j
          BY <3>1, <4>2, <1>1, <1>2 DEF RequeueForRetry, LInv, LineKept, Queued
        <4>3. QED
          BY <4>1, <4>2
      <3>2. CASE UNCHANGED queueVars
        BY <3>2, <1>4 DEF queueVars
      <3>3. QED
        BY <2>3, <3>1, <3>2 DEF AttemptEnds
    <2>4. CASE JobFinishes(i, a)
      BY <2>4, <1>1, <1>2, <1>4 DEF JobFinishes, MarkFinished, Settle, queueVars
    <2>5. CASE FinishHook(i, a)
      <3>1. \E J \in SUBSET Settled : Drop(J)
        BY <2>5, HookDrops DEF FinishHook, LInv, RInv, IInv, TypeOK
      <3>2. QED
        BY <3>1, <1>5
    <2>6. CASE FinishPoke(i, a)
      BY <2>6, <1>4 DEF FinishPoke, queueVars
    <2>7. QED
      BY <1>8, <2>2, <2>3, <2>4, <2>5, <2>6 DEF Execute
  <1>9. ASSUME NEW c \in Client, Ask(c) \/ Reply(c)
        PROVE  attempt'[j] > 0
    <2>1. CASE Submit(c) \/ SubmitAfter(c) \/ Rerun(c)
      BY <2>1, <1>6 DEF Submit, SubmitAfter, Rerun
    <2>2. CASE RemoveJob(c) \/ Clear(c)
      BY <2>2, <1>5 DEF RemoveJob, Remove, Clear, ClearFinished
    <2>3. CASE \/ AskLastID(c) \/ Urgent(c) \/ SwapJobs(c) \/ SetMaxSlots(c) \/ Wait(c)
               \/ HandlerPoke(c) \/ TakeAnswer(c)
      BY <2>3, <1>4 DEF AskLastID, Urgent, MakeUrgent, SwapJobs, Swap, SetMaxSlots, Wait,
         WaitFor, HandlerPoke, TakeAnswer, queueVars
    <2>4. QED
      BY <1>9, <2>1, <2>2, <2>3 DEF Ask, Reply
  <1>10. CASE UNCHANGED vars
    BY <1>10, <1>4 DEF vars, queueVars, schedVars
  <1>11. QED
    BY <1>7, <1>8, <1>9, <1>10 DEF Next

LEMMA LineStays ==
    ASSUME Ops \cap {"urgent", "swap"} = {}, LInv, [Next]_vars
    PROVE  LineKept'
  <1>1. \A j \in Job : Present(j)' => pos'[j] = j
    BY RanksStay
  <1>2. ASSUME pc' = "run", NEW j \in Job, j \in Queued', j < cur', req'[j].deps = {}
        PROVE  attempt'[j] > 0
    <2>1. CASE pc = "run"
      <3>1. cur' = cur
        BY <1>2, <2>1, OnlyTheSchedulerMoves DEF Schedule, Wake, Scan, Skip, ReadSlots, ReadBusy,
           Pick, Start, Launch
      <3>2. QED
        BY <1>2, <2>1, <3>1, LateComers
    <2>2. CASE pc # "run"
      <3>1. Pick
        BY <1>2, <2>2, OnlyTheSchedulerMoves DEF Schedule, Wake, Scan, Skip, ReadSlots, ReadBusy,
           Start, Launch
      <3>2. UNCHANGED queueVars /\ IsHead(cur')
        BY <1>2, <3>1 DEF Pick, NextRunnable
      <3>3. j \in Queued /\ DependenciesMet(j)
        BY <1>2, <3>2 DEF queueVars, Queued, DependenciesMet
      <3>4. pos[cur'] <= pos[j] /\ cur' \in Queued
        BY <3>2, <3>3 DEF IsHead
      <3>5. pos[cur'] = cur' /\ pos[j] = j
        BY <3>3, <3>4 DEF LInv, LineKept, Queued, Present
      <3>6. j \in Int /\ cur' \in Int
        BY <3>4 DEF Queued, Job
      <3>7. QED
        BY <1>2, <3>4, <3>5, <3>6
    <2>3. QED
      BY <2>1, <2>2
  <1>3. QED
    BY <1>1, <1>2 DEF LineKept, Queued

\* Head of the line, for clients that do not reorder the queue: a first attempt
\* that waits for slots only is not passed by a younger job.
THEOREM NobodyOvertakes ==
    ASSUME Ops \cap {"urgent", "swap"} = {}
    PROVE  Spec => NoOvertaking
  <1>1. LInv /\ [Next]_vars => LInv'
    BY StepKeeps, RoomStays, LineStays DEF LInv, RInv
  <1>2. LInv /\ [Next]_vars =>
          [\A k \in Job : state[k] # "running" /\ state'[k] = "running" =>
              \A j \in Queued : j < k /\ req[j].deps = {} => attempt[j] > 0]_vars
    <2>1. SUFFICES ASSUME LInv, [Next]_vars,
                          NEW k \in Job, state[k] # "running", state'[k] = "running",
                          NEW j \in Queued, j < k, req[j].deps = {}
                   PROVE  attempt[j] > 0
      OBVIOUS
    <2>2. pc = "run" /\ k = cur
      BY <2>1, OnlyTheSchedulerStarts DEF Start, LInv, RInv
    <2>3. QED
      BY <2>1, <2>2 DEF LInv, LineKept
  <1>3. QED
    BY <1>1, <1>2, LineInit, PTL DEF Spec, NoOvertaking

=============================================================================
