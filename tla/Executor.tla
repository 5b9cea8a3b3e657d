------------------------------ MODULE Executor ------------------------------
(***************************************************************************)
(* The executor (internal/server/executor.go): what happens to a job from  *)
(* the moment the scheduler picks it, step by step, against `ru -k', the   *)
(* --timeout timer and `:reset'.                                           *)
(*                                                                         *)
(* `:reset' starts the IDs again at 0 while goroutines of dropped jobs are *)
(* still under way.  A goroutine knows its *Job, but the table of jobs and *)
(* the table of processes only by ID, so a leftover goroutine may act on   *)
(* the job that has its ID now.  A job is therefore a submission here, and *)
(* idOf its ID; a run is one attempt of a submission.  The generated name  *)
(* of an output file is the submission it was chosen for.                  *)
(*                                                                         *)
(* Every job here keeps its output in a generated file: one with -n has    *)
(* none, and the one -O names is the user's, which may be anything.        *)
(***************************************************************************)
EXTENDS Integers

CONSTANTS
    MaxSubs,      \* bound: how many jobs are submitted
    Retries,      \* JobInfo.Retries of each submission
    Separate,     \* the submissions with SeparateStderr (-E)
    Timed,        \* bound: the submissions that may have a timeout
    MaxResets     \* bound: how often the user resets the daemon

ASSUME ExecutorAssumption ==
    /\ MaxSubs \in Nat \ {0}
    /\ Retries \in [1..MaxSubs -> Nat]
    /\ Separate \subseteq 1..MaxSubs /\ Timed \subseteq 1..MaxSubs
    /\ MaxResets \in Nat

Sub == 1..MaxSubs
ID == 0..(MaxSubs - 1)
Attempts(s) == 0..Retries[s]
Runs == UNION {{s} \X Attempts(s) : s \in Sub}
NoSub == 0
NoRun == <<0, 0>>

VARIABLES
    made,       \* how many submissions there have been
    nextID,     \* q.nextID
    idOf,       \* Job.ID
    holder,     \* q.byID
    state,      \* Job.Info.State
    attempt,    \* Job.Info.Attempt
    report,     \* the run whose result Job.Info.Result is
    file,       \* Job.Info.OutputFilename
    at,         \* where Executor.Run is
    proc,       \* the process of a run, the leader of its group
    timer,      \* killTimer and its escalation; "fired": timedOut is set
    entry,      \* e.processes
    out,        \* Executor.Run's outputFile, once it is open
    written,    \* the runs whose output the file of a name holds
    errors,     \* the runs whose errors the .e file beside it holds
    reset,      \* where handleReset is
    resets,     \* how many resets there have been
    crossed     \* history: jobs a goroutine of another job has acted on

tableVars == <<made, nextID, idOf, holder, state, attempt, report, file>>
runVars == <<at, proc, timer, entry>>
outputVars == <<out, written, errors>>
resetVars == <<reset, resets>>
vars == <<tableVars, runVars, outputVars, resetVars, crossed>>

Phase == {"none", "picked", "launched", "opened", "started", "noted", "waiting",
          "ended", "marking", "done"}

TypeOK ==
    /\ made \in 0..MaxSubs
    /\ nextID \in 0..MaxSubs
    /\ idOf \in [Sub -> ID]
    /\ holder \in [ID -> Sub \cup {NoSub}]
    /\ state \in [Sub -> {"none", "queued", "running", "finished", "gone"}]
    /\ \A s \in Sub : attempt[s] \in Attempts(s)
    /\ report \in [Sub -> Runs \cup {NoRun}]
    /\ file \in [Sub -> Sub]
    /\ out \in [Runs -> Sub \cup {NoSub}]
    /\ written \in [Sub -> SUBSET Runs] /\ errors \in [Sub -> SUBSET Runs]
    /\ at \in [Runs -> Phase]
    /\ proc \in [Runs -> {"none", "alive", "ok", "fail"}]
    /\ timer \in [Runs -> {"off", "armed", "fired", "escalated"}]
    /\ entry \in [ID -> Runs \cup {NoRun}]
    /\ reset \in {"no", "dropping"}
    /\ resets \in 0..MaxResets
    /\ crossed \in SUBSET Sub

Init ==
    /\ made = 0 /\ nextID = 0
    /\ idOf = [s \in Sub |-> 0]
    /\ holder = [i \in ID |-> NoSub]
    /\ state = [s \in Sub |-> "none"]
    /\ attempt = [s \in Sub |-> 0]
    /\ report = [s \in Sub |-> NoRun]
    /\ file = [s \in Sub |-> s]
    /\ at = [r \in Runs |-> "none"]
    /\ proc = [r \in Runs |-> "none"]
    /\ timer = [r \in Runs |-> "off"]
    /\ entry = [i \in ID |-> NoRun]
    /\ out = [r \in Runs |-> NoSub]
    /\ written = [s \in Sub |-> {}] /\ errors = [s \in Sub |-> {}]
    /\ reset = "no" /\ resets = 0
    /\ crossed = {}

InTable(s) == state[s] \in {"queued", "running", "finished"}
Alive(r) == proc[r] = "alive"

\* Whom q.byID holds under the ID of the run's job: not always that job.
Target(r) == holder[idOf[r[1]]]

\* History: the run acts on the table under its ID.
Crosses(r) == crossed' = crossed \cup ({Target(r)} \ {r[1], NoSub})

\* TERM reaches every process of the groups R; those that trap it live on.
Term(R) ==
    \E dead \in SUBSET {r \in R : r # NoRun /\ Alive(r)} :
        proc' = [r \in Runs |-> IF r \in dead THEN "fail" ELSE proc[r]]

-----------------------------------------------------------------------------
\* The table, as far as the executor depends on it.

\* The name of the output file is chosen with the submission.
Submit ==
    /\ made < MaxSubs
    /\ LET s == made + 1 IN
       /\ made' = s
       /\ idOf' = [idOf EXCEPT ![s] = nextID]
       /\ holder' = [holder EXCEPT ![nextID] = s]
       /\ state' = [state EXCEPT ![s] = "queued"]
    /\ nextID' = nextID + 1
    /\ UNCHANGED <<attempt, report, file, runVars, outputVars, resetVars, crossed>>

\* The jobs of S leave the table, and the files they name then are deleted.
Drop(S) ==
    LET deleted == {file[s] : s \in S} IN
    /\ holder' = [i \in ID |-> IF holder[i] \in S THEN NoSub ELSE holder[i]]
    /\ state' = [s \in Sub |-> IF s \in S THEN "gone" ELSE state[s]]
    /\ written' = [f \in Sub |-> IF f \in deleted THEN {} ELSE written[f]]
    /\ errors' = [f \in Sub |-> IF f \in deleted THEN {} ELSE errors[f]]

\* Mutant of RemoveJob: the ID of the last job is given to the next.
RemoveAndReuse(s) ==
    /\ InTable(s) /\ state[s] # "running"
    /\ Drop({s})
    /\ nextID' = IF idOf[s] = nextID - 1 THEN idOf[s] ELSE nextID
    /\ UNCHANGED <<made, idOf, attempt, report, file, runVars, out, resetVars,
                   crossed>>

RemoveJob(s) ==
    /\ InTable(s) /\ state[s] # "running"
    /\ Drop({s})
    /\ UNCHANGED <<made, nextID, idOf, attempt, report, file, runVars, out,
                   resetVars, crossed>>

\* NextRunnable; the job stays queued until SetRunning.
Pick(s) ==
    /\ state[s] = "queued"
    /\ \A r \in Runs : at[r] # "picked"
    /\ at' = [at EXCEPT ![<<s, attempt[s]>>] = "picked"]
    /\ UNCHANGED <<tableVars, proc, timer, entry, outputVars, resetVars, crossed>>

\* The job is found by its ID, and nothing said when there is none.  It takes
\* the name of the output file with the rest, unless that is empty (NoSub).
SetRunning(r, name) ==
    /\ state' = [s \in Sub |-> IF s = Target(r) THEN "running" ELSE state[s]]
    /\ file' = [s \in Sub |-> IF s = Target(r) /\ name # NoSub THEN name ELSE file[s]]
    /\ Crosses(r)
    /\ UNCHANGED <<made, nextID, idOf, holder, attempt, report>>

Launch(r) ==
    /\ at[r] = "picked"
    /\ SetRunning(r, NoSub)
    /\ at' = [at EXCEPT ![r] = "launched"]
    /\ UNCHANGED <<proc, timer, entry, outputVars, resetVars>>

-----------------------------------------------------------------------------
\* Executor.Run, in the goroutine of run r.

Goto(r, phase) == at' = [at EXCEPT ![r] = phase]

\* os.Create of the .e file, by every attempt; if it fails the run goes on
\* without, its errors unread.
CreateErrors(r) ==
    IF r[1] \in Separate
    THEN errors' \in {errors, [errors EXCEPT ![file[r[1]]] = {r}]}
    ELSE errors' = errors

\* Mutant of OpenOutput: every attempt creates the file anew.
OpenTruncating(r) ==
    /\ at[r] = "launched"
    /\ out' = [out EXCEPT ![r] = file[r[1]]]
    /\ written' = [written EXCEPT ![file[r[1]]] = {r}]
    /\ CreateErrors(r)
    /\ Goto(r, "opened")
    /\ UNCHANGED <<tableVars, proc, timer, entry, resetVars, crossed>>

\* The goroutine takes the name its own job has at this moment.  A first
\* attempt creates the file, a retry appends to it.
OpenOutput(r) ==
    /\ at[r] = "launched"
    /\ out' = [out EXCEPT ![r] = file[r[1]]]
    /\ written' = [written EXCEPT ![file[r[1]]] =
                      IF attempt[r[1]] > 0 THEN @ \cup {r} ELSE {r}]
    /\ CreateErrors(r)
    /\ Goto(r, "opened")
    /\ UNCHANGED <<tableVars, proc, timer, entry, resetVars, crossed>>

StartProcess(r) ==
    /\ at[r] = "opened"
    /\ proc' = [proc EXCEPT ![r] = "alive"]
    /\ Goto(r, "started")
    /\ UNCHANGED <<tableVars, timer, entry, outputVars, resetVars, crossed>>

\* No command, no output file or no process: OnFinish with exit code -1.
CannotStart(r) ==
    /\ at[r] \in {"launched", "opened"}
    /\ Goto(r, "ended")
    /\ UNCHANGED <<tableVars, proc, timer, entry, outputVars, resetVars, crossed>>

\* SetRunning again, now with a PID and the name of the file that is open.
NotePID(r) ==
    /\ at[r] = "started"
    /\ SetRunning(r, out[r])
    /\ Goto(r, "noted")
    /\ UNCHANGED <<proc, timer, entry, outputVars, resetVars>>

\* The timer is armed if the job has a timeout at this moment; until now
\* SetTimeout may have given it one, or taken it away.
Arm(r) ==
    \/ timer' = timer
    \/ r[1] \in Timed /\ timer' = [timer EXCEPT ![r] = "armed"]

\* Mutant of StoreProcess: LoadOrStore, which keeps what is there.
StoreIfAbsent(r) ==
    /\ at[r] = "noted"
    /\ entry' = [entry EXCEPT ![idOf[r[1]]] = IF @ = NoRun THEN r ELSE @]
    /\ Arm(r)
    /\ Crosses(r)
    /\ Goto(r, "waiting")
    /\ UNCHANGED <<tableVars, proc, outputVars, resetVars>>

\* The process is entered for `ru -k', and the timer armed.
StoreProcess(r) ==
    /\ at[r] = "noted"
    /\ entry' = [entry EXCEPT ![idOf[r[1]]] = r]
    /\ Arm(r)
    /\ Crosses(r)
    /\ Goto(r, "waiting")
    /\ UNCHANGED <<tableVars, proc, outputVars, resetVars>>

\* Mutant of Reap: a timeout gives up on the process.
ReapOnTimeout(r) ==
    /\ at[r] = "waiting"
    /\ proc[r] \in {"ok", "fail"} \/ timer[r] = "fired"
    /\ timer' = [timer EXCEPT ![r] = IF @ = "armed" THEN "off" ELSE @]
    /\ entry' = [entry EXCEPT ![idOf[r[1]]] = NoRun]
    /\ Crosses(r)
    /\ Goto(r, "ended")
    /\ UNCHANGED <<tableVars, proc, outputVars, resetVars>>

\* cmd.Wait returns: a timer that has not fired never will, and the process
\* is no longer entered.
Reap(r) ==
    /\ at[r] = "waiting"
    /\ proc[r] \in {"ok", "fail"}
    /\ timer' = [timer EXCEPT ![r] = IF @ = "armed" THEN "off" ELSE @]
    /\ entry' = [entry EXCEPT ![idOf[r[1]]] = NoRun]
    /\ Crosses(r)
    /\ Goto(r, "ended")
    /\ UNCHANGED <<tableVars, proc, outputVars, resetVars>>

\* jobFailed: a timeout counts even when the exit code is 0.
RunFailed(r) == proc[r] # "ok" \/ timer[r] \in {"fired", "escalated"}

\* onJobFinish: RequeueForRetry, if the run failed and there is a retry left.
MayRequeue(r) ==
    /\ Target(r) # NoSub
    /\ RunFailed(r)
    /\ attempt[Target(r)] < Retries[Target(r)]

Requeue(r) ==
    /\ at[r] = "ended"
    /\ MayRequeue(r)
    /\ attempt' = [attempt EXCEPT ![Target(r)] = @ + 1]
    /\ state' = [state EXCEPT ![Target(r)] = "queued"]
    /\ Crosses(r)
    /\ Goto(r, "done")
    /\ UNCHANGED <<made, nextID, idOf, holder, report, file, proc, timer, entry,
                   outputVars, resetVars>>

NoRequeue(r) ==
    /\ at[r] = "ended"
    /\ ~MayRequeue(r)
    /\ Goto(r, "marking")
    /\ UNCHANGED <<tableVars, proc, timer, entry, outputVars, resetVars, crossed>>

MarkFinished(r) ==
    /\ at[r] = "marking"
    /\ state' = [s \in Sub |-> IF s = Target(r) THEN "finished" ELSE state[s]]
    /\ report' = [s \in Sub |-> IF s = Target(r) THEN r ELSE report[s]]
    /\ Crosses(r)
    /\ Goto(r, "done")
    /\ UNCHANGED <<made, nextID, idOf, holder, attempt, file, proc, timer, entry,
                   outputVars, resetVars>>

Execute(r) ==
    \/ Launch(r) \/ OpenOutput(r) \/ StartProcess(r) \/ CannotStart(r) \/ NotePID(r)
    \/ StoreProcess(r) \/ Reap(r) \/ Requeue(r) \/ NoRequeue(r) \/ MarkFinished(r)

-----------------------------------------------------------------------------
\* The process, its timer, and `ru -k'.

\* The leader ends by itself; what it may have left in its group lives on, and
\* cmd.Wait does not wait for that.
ProcessExits(r) ==
    /\ Alive(r)
    /\ \E outcome \in {"ok", "fail"} : proc' = [proc EXCEPT ![r] = outcome]
    /\ UNCHANGED <<tableVars, at, timer, entry, outputVars, resetVars, crossed>>

TimerFires(r) ==
    /\ timer[r] = "armed"
    /\ timer' = [timer EXCEPT ![r] = "fired"]
    /\ Term({r})
    /\ UNCHANGED <<tableVars, at, entry, outputVars, resetVars, crossed>>

\* Mutant of Escalate: the second signal is TERM again.
EscalateSoftly(r) ==
    /\ timer[r] = "fired"
    /\ timer' = [timer EXCEPT ![r] = "escalated"]
    /\ Term({r})
    /\ UNCHANGED <<tableVars, at, entry, outputVars, resetVars, crossed>>

\* Nothing stops the second timer: KILL comes even if the process is gone.
Escalate(r) ==
    /\ timer[r] = "fired"
    /\ timer' = [timer EXCEPT ![r] = "escalated"]
    /\ proc' = [proc EXCEPT ![r] = IF Alive(r) THEN "fail" ELSE @]
    /\ UNCHANGED <<tableVars, at, entry, outputVars, resetVars, crossed>>

KillJob(i) ==
    /\ entry[i] # NoRun
    /\ Term({entry[i]})
    /\ UNCHANGED <<tableVars, at, timer, entry, outputVars, resetVars, crossed>>

-----------------------------------------------------------------------------
\* `:reset': KillAll, the panes, then JobQueue.Reset.

ResetKills ==
    /\ reset = "no" /\ resets < MaxResets
    /\ Term({entry[i] : i \in ID})
    /\ reset' = "dropping"
    /\ resets' = resets + 1
    /\ UNCHANGED <<tableVars, at, timer, entry, outputVars, crossed>>

ResetDrops ==
    /\ reset = "dropping"
    /\ Drop({s \in Sub : InTable(s)})
    /\ nextID' = 0
    /\ reset' = "no"
    /\ UNCHANGED <<made, idOf, attempt, report, file, runVars, out, resets,
                   crossed>>

-----------------------------------------------------------------------------
User ==
    \/ Submit
    \/ \E s \in Sub : RemoveJob(s)
    \/ \E i \in ID : KillJob(i)
    \/ ResetKills \/ ResetDrops

Next ==
    \/ User
    \/ \E s \in Sub : Pick(s)
    \/ \E r \in Runs : Execute(r) \/ ProcessExits(r) \/ TimerFires(r) \/ Escalate(r)

Spec == Init /\ [][Next]_vars

\* Goroutines and timers run; no process has to end by itself.
FairSpec ==
    /\ Spec
    /\ \A r \in Runs : WF_vars(Execute(r)) /\ WF_vars(TimerFires(r)) /\ WF_vars(Escalate(r))

-----------------------------------------------------------------------------
\* A job's run that waits for its process is the one `ru -k' finds under the
\* job's ID, through retries and resets, unless a goroutine that a reset left
\* over has acted on that ID (executor.go:174, 192, 237).
KillReaches ==
    \A r \in Runs :
        at[r] = "waiting" /\ Target(r) = r[1] /\ r[1] \notin crossed
            => entry[idOf[r[1]]] = r

\* A job is called finished only on the word of its own last attempt and when
\* none of its leaders lives, whose groups may; again unless a leftover of a reset
\* has acted on it (scheduler.go:81-96, executor.go:189-207).
FinishedIsOver ==
    \A s \in Sub :
        state[s] = "finished" /\ s \notin crossed
            => /\ report[s] = <<s, attempt[s]>>
               /\ \A a \in Attempts(s) : ~Alive(<<s, a>>)

\* Nobody acts on a job but its own goroutines until the first reset.
CrossedByResetOnly == resets = 0 => crossed = {}

\* The file a job in the table names holds what every attempt wrote since it
\* opened it, and neither it nor the .e file beside it holds another job's
\* output, whoever removes, retries or reuses the ID; unless a leftover of a
\* reset has acted on the job (executor.go:101-131, 172; jobs.go:16-24, 221-223).
OutputKept ==
    \A s \in Sub :
        InTable(s) /\ s \notin crossed =>
            /\ \A r \in Runs : r[1] = s /\ out[r] # NoSub => r \in written[file[s]]
            /\ \A r \in written[file[s]] \cup errors[file[s]] : r[1] = s

\* Not so of the code: a leftover of a reset writes its own file's name into
\* the job that has its ID now, which then appends there (executor.go:172,
\* jobs.go:221-223).
OutputKeptThroughResets ==
    \A r \in Runs :
        InTable(r[1]) /\ out[r] # NoSub => r \in written[file[r[1]]]

\* Nor this: every attempt creates the .e file anew and takes away what the
\* attempts before wrote there, while it appends to the file beside it
\* (executor.go:108, 126).
ErrorsKept ==
    [][\A s \in Sub :
          InTable(s)' /\ s \notin crossed' => errors[file[s]] \subseteq errors'[file'[s]]]_vars

\* A run whose timer was armed ends, even if its process ignores TERM.
TimeoutEnds ==
    \A s \in Timed : \A a \in Attempts(s) : timer[<<s, a>>] = "armed" ~> at[<<s, a>>] = "done"
=============================================================================
