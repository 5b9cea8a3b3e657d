# A verification project for qrush

qrush (`ru`) is a job queue for one machine: a daemon keeps a table of shell
jobs and runs as many at a time as it has slots; `ru` clients submit jobs,
reorder them, wait for them; a TUI shows them next to interactive panes whose
shells the daemon hosts too.  This directory holds TLA+ models of the daemon,
the TLC runs that check them, and the theorems about them that TLAPS checks.
Paths like `jobs.go:154` are relative to `src/internal/server/` unless they
begin with `src/`.

## The system

| component | state | operations | what must hold | modules |
|---|---|---|---|---|
| job table (`jobs.go`) | `jobs`, `byID`, `nextID`, `lastID`, the waiters' channels | add, remove, clear, prune, urgent, swap, run, finish, skip, retry, wait, reset | results are final, waiters answered, order and dependencies respected | `JobQueue`, `JobLifecycle`; by ID: `Executor`; by session: `Registry` |
| scheduler (`scheduler.go`) | `maxSlots`, the one-place `trigger` | `Run`, `trySchedule`, `Poke`, `onJobFinish` | no lost wakeup, no double start, slots respected, nobody starved | `Scheduler` |
| executor (`executor.go`, `executor_unix.go`) | table of processes, timers, output files | `Run` per attempt, `Kill`, `KillAll`, timeout and escalation | a kill reaches the process, a job's end is its own, output is kept | `Executor`; life of an attempt: `Scheduler` |
| request handlers (`handlers_job.go`) | none of their own | one per message | the poke where it is needed, an answer of the kind that is expected | `Scheduler`, `Executor`, `Protocol` |
| server (`server.go`) | connections and their number, the registered TUI | accept, dispatch, wait, take over, reset, shut down | no place lost, one TUI, every call returns | `Conversations`, `Protocol` |
| persistence (`persistence.go`) | `dirty`, snapshot file, temporary files | `save`, `loadJobQueue` | no change is forgotten, IDs stay distinct, no job runs without an owner | `Persistence` |
| sessions and groups (`sessions.go`, `handlers_session.go`) | sessions, groups, jobs' sessions, `pendingJobsView` | create, rename, move, delete, list | every job and session has a home, active jobs stay | `Registry`, `Manage` |
| terminals (`terminal.go`) | shells by pane, their clients, layouts, replay ring | open, attach, layout, kill | no shell is orphaned, nobody waits on a dead one | `Panes` |
| client library (`src/internal/client/`) | none | calls, batches, followers, sweep | an answer is read as it is meant, output is shown to its end, no live output swept | `Protocol`, `Conversations`, `Output` |
| command line (`src/cmd/ru`, `src/internal/cli`) | none | chains of calls | | `Conversations`, `Scheduler`, `Output` |
| TUI (`src/internal/tui/`) | views, panes, tree, forms, job table, pager | keys, ticks, answers of commands | panes and daemon agree; what is shown, selected and sent is what is meant | `Panes`, `Manage`, `JobsTable`, `Output` |
| configuration, ipc, environment, formatting, `sysmon`, vt10x | | | | none, see the end |

Everything in the daemon is a goroutine: one accepts connections, one per
connection runs the handlers, one schedules, one per attempt of a job runs its
process, and more feed the terminals.  They meet in structures with a mutex each
(`JobQueue.mu`, `Scheduler.mu`, the terminal manager's) and in two kinds of
channel: the scheduler's `trigger`, which holds one value and drops what does not fit, and
one channel of capacity one per waiting client.  Handlers change the table
and then poke the scheduler; the executor reports the end of an attempt to
`onJobFinish`, which changes the table, calls the hook `queueChanged` (prune
finished jobs, save the queue) and pokes.  A `ru` process makes its calls one after the other,
each on a connection of its own.  The TUI is one `Update` function that
keys, ticks and the results of commands take turns in; a command is a
goroutine, so two of them (two polls, two loads of the pager, an edit and a poll)
may overlap, and each result meets a model that has moved on.  Output files are shared between the
job's process, readers and `ru gc` with no lock at all.

The hard behaviours follow from that: `trySchedule` takes the mutexes anew for
the skip scan, for every skip, for the slot count, for the busy slots, for the
choice and for marking the choice running, so any other goroutine may act in between; a
wakeup can meet a full or a just emptied trigger; a job can be removed,
swapped, pruned or retried between two looks at it; two goroutines save at the same
time; the daemon can die between a change, its reply and its save; a screen is up to
a second older than the daemon it sends requests to.  `hazards`
in `PROJECT.json` lists them line by line with the property that covers each.

## The plan

| | modules | state |
|---|---|---|
| 1 | the queue at work: `JobQueue`, `Scheduler`, `JobLifecycle`, `SchedulerProofs` | done |
| 2 | outliving the daemon: `Persistence`, `PersistenceProofs` | done |
| 3 | panes: `Panes`, `PanesProofs` | done |
| 4 | one attempt of a job, and resets: `Executor`, `ExecutorProofs` | done |
| 5 | connections, calls, takeovers: `Protocol`, `Conversations`, `ConversationsProofs` | done |
| 6 | sessions and groups: `Registry`, and the screen that edits them: `Manage`, `ManageProofs` | done |
| 7 | the job table on the screen: `JobsTable`, `JobsTableProofs` | done |
| 8 | output: `Output`, `OutputProofs` | done |
| 9 | proofs of every safety property the passing runs check | done |

A module composes others by extending them: `Scheduler` steps through the
methods of `JobQueue`, `Conversations` lets processes and goroutines exchange what
`Protocol` says they do, `Manage` and `JobsTable` act on the tables of `Registry`.
`Scheduler` implements `JobLifecycle` (`Lifecycle == INSTANCE JobLifecycle WITH ...`).
Modules that begin with `MC` only give constants values.

## The queue at work

**`JobQueue`** is the job table.  Every method holds `q.mu` for its whole body,
so each is one action over the table's variables.  IDs are handed out in
order, so a job *is* its ID; `q.jobs` is the rank `pos` of each job (only the
relative order matters to the code, so removal leaves a gap in the ranks); a job
deleted from the table is `"gone"`, and its `result` and `attempt` remain as
history for the properties.  A request is reduced to its dependencies, whether
it needs their success (`-W`), its slots and its retries; a result to `"ok"`,
`"fail"` (non-zero exit, signal, failure to start) and `"timeout"` (exit code
0 although the timer fired: a failure for retries, `jobFailed`, but none for
`-W`, `shouldSkip`).

**`Scheduler`** runs these methods.  `pc` is where the scheduler's goroutine is:
`scan` (CheckSkippable), `skip` (the loop of MarkSkipped), `slots`, `busy`,
`pick` (NextRunnable), `run` (SetRunning), `hook` (queueChanged and `go
executor.Run`), `idle` (blocked on the trigger).  `seenMax`, `seenBusy`, `cur` and
`toSkip` are its local variables: what it read under one lock and uses under
another.  `exec[j][a]` is the goroutine of attempt `a` of job `j`: launched, its process
live, an outcome it is about to mark finished, then its hook, its poke, done.  `client` is the
handler of each connection; a handler that pokes does so in a step of its own,
as the code does after it replied.  Sending to waiters after unlocking is
one step with the change: a channel has room for its one value and its job
forgets it under the lock.

**`JobLifecycle`** is what a client may rely on: a job starts after its
earlier dependencies are over, runs again only while it has retries, finishes
as failed only without any left, is skipped only for a reason, and what is over stays over.
`KeepsPromises` is the specification of its instance `Lifecycle`: the daemon
implements it under the mapping stated there.

### Runs

| run | question | bounds |
|---|---|---|
| `QueueChurn` | processes, slots, results, wakeups and the lifecycle, with remove, urgent, swap, clear, wait, `-d` and rerun at any moment | 2 jobs, the first retrying, the second after it; 2 slots, 1 client, all outcomes, `MaxFinished = 0` |
| `QueueLive` | does every job end and every wait return; does a start fit, is nobody overtaken, while `ru -P` changes the slots | 3 jobs of 1 or 2 slots, 1 retry, slots 1 or 2, `MaxFinished = 0`, fairness |
| `SkipRace` | *violated*: `-W` on a job that failed or was skipped during the pass | chain of 3 `-W` jobs |

The bounds are enough for what the properties relate: two jobs for a
dependency, three for a queue with something to overtake or a chain, one retry
for an attempt that replaces another, two slots for a job that needs all of
them and for two that share.  One client stands for many: a client's
steps are one request after another, and its poke is the only step that
another client's request could overtake.
`Ops` selects the operations of a run, so that each question is asked against
the operations that can disturb it.  Deadlock is not checked: with all IDs
handed out and all jobs over, the daemon rightly waits for ever.

`EveryJobEnds` and `NoLostWakeup` are checked for requests whose dependencies
exist when they are submitted: `LastID` is 0 before there is any job, so the
very first `ru -d` (README "depend on the last queued job") depends on its own
ID and waits for ever.  `WaitAnswered` is checked without removal, which
strands waiters.  `NoOvertaking` is checked without urgent and swap, whose purpose is
to overtake.  `QueueLive` lets every attempt fail, so that retries run out and
the dependant is skipped; the two other jobs compete for the slots.

**Fairness.**  `FairSpec` gives weak fairness to the scheduler's goroutine, to
every executor goroutine and to the handlers' second halves: Go runs what can run, mutexes are held for
bounded work, and a trigger or answer channel with a value in it is
received from.  It assumes that processes end (by themselves, by timeout or by a kill).
Nothing obliges a client to ask for anything.

`SkipRace` is a disagreement between the README of qrush and what the code
does: `-W` ("only run if dependency succeeded") is decided in
`CheckSkippable`, once per pass and before the choice, but `NextRunnable`
takes any settled or missing dependency as met.  A dependency that is skipped
in the same pass, or fails between scan and choice, lets the job run.

### Proofs

`SchedulerProofs` proves, for any number of jobs, retries, slots, clients,
requests and (but for the last theorem) any set of operations, from `QueueAssumption`
and `SchedulerAssumption` alone:

* `TypeCorrect`, `Invariance`: `Spec => []TypeOK`, `Spec => []IInv`;
* `OneProcess`, `StartedOnce`, `NoSlotLost`, `FinalAnswer`: the invariants
  `ProcessOwned`, `NoDoubleStart`, `RunningHasOwner`, `AnswerIsFinal`;
* `Refinement`: `Spec => KeepsPromises`;
* `NobodyLeftWaiting`: the invariant `NoLostWakeup`;
* `StartsStayWithinSlots`: the action property `StartFits`;
* `NobodyOvertakes`: the action property `NoOvertaking`, where `Ops` has neither `urgent`
  nor `swap`.

None of the four invariants is inductive.  That a goroutine belongs to the
current attempt of a running job (`ProcessOwned`) needs that the job the
scheduler holds between its choice and `go executor.Run` has not been started
otherwise (`StartSound`), that a job on the skip list cannot have been started
(`SkipSound`: only the scheduler itself starts jobs, and it skips first), that attempts
to come have no goroutine (`AttemptsFresh`), and that a goroutine about to report has no
result to overwrite and no retry it should take instead (`FlightSound`).  `TableSound`
ties results to states and `WaitersSound` channels to handlers.  `IInv` is
their conjunction.  The proof has one lemma per
action of the goroutines and per handler, each with a step per conjunct it can
disturb.  `Refinement` maps each action to an action of the lifecycle or to a
stutter, with `IInv` supplying what the guards of the lifecycle ask:
`EarlierOver` of `StartSound` that dependencies are still over when the job is
marked running, two critical sections after they were looked at.

The other three each strengthen `IInv`.  `NoLostWakeup` (`WInv`) needs to know that the scheduler
may trust what it saw (`SeenSound`): it gave up on a pass because slots were taken only if
whoever held them, or his poke, was still to come, so a scheduler that goes to sleep with an
empty trigger and nobody on the way has seen all slots free.  Then the queued job with the
least ID can start, since its dependencies are older and so over, and it would have been
chosen: `LeastNumber` says there is such a job, by the well-foundedness of `<`.
`StartFits` (`RInv`) needs that the count of busy slots can only have become too high
since it was taken (`RoomKept`): jobs may end at any moment, but only the scheduler starts
them; and that one more job takes its own slots more at the most (`OneMoreJob`).
`NoOvertaking` (`LInv`) needs that a job's rank is its ID as long as nobody reorders, and
that the job chosen is older than any that joins until it is marked running
(`LineKept`).

Only model-checked: the two liveness properties.

## Outliving the daemon

**`Persistence`** is `persistence.go` with the goroutines that call it.  `save`
takes the dirty flag and encodes the queue under `q.mu` (`SaveBegins`), writes a
temporary file and renames it over the old one outside the lock (`Replace`,
`WriteFails`), and marks the queue dirty again when that failed (`MarkDirty`);
between these steps anybody may act.  Handlers change, reply and then save
(`Submit`, `Reply`; the save is deferred in `dispatch`); the scheduler marks a job running,
saves and then launches it (`Start`, `Launch`), and skips without saving; an
executor records the pid without saving and ends with a save (`Started`,
`Finish`); `Shutdown` saves and then leaves whatever the others do; the daemon may also die
at any point (`Crash`), and the next one loads the file (`Boot`, `Loaded`).  The queue
is reduced to which jobs there are, their IDs and whether each waits, runs or is over.
`version`, `saved`, `made` and `served` are history.

| run | question | bounds |
|---|---|---|
| `SaveRestart` | is a change forgotten, an ID used twice, a running job left alone | 2 submissions, 1 handler, scheduler, 2 executors, failing writes, 1 shutdown or crash |
| `StaleSave` | *violated*: a submission that was answered and saved is gone after an orderly restart | 2 handlers, no crash, no failure |

Four goroutines can save at once in `SaveRestart`, more than the three it takes
for a save that finds the flag clear, one that holds the only copy and one that
fails.  One restart is enough for the invariants because they speak of the file
and the queue at any moment, the moment before the next restart included.

What fails is the order of renames: of two saves the older may rename last, and
a save that finds `dirty` clear returns although its change is still being written
by another goroutine.  Nothing marks the queue dirty again, so `Shutdown` may
leave an old queue behind (`StaleSave`), and the scheduler may start a job the
file still calls queued, which a daemon that dies then will run again.  What holds, and
is proved, is that a change is never *forgotten*: while `dirty` is clear the newest version has
been written once, or somebody is at it.  `saved` is the newest version ever written, so
`NothingForgotten` does not say that the file still holds it; `ServedSurvives` does, and fails.

**Proofs.**  `PersistenceProofs` proves `Spec => []IInv` for any number of
submissions, handlers and restarts, from `PersistenceAssumption` alone, and
from it `NeverForgotten`, `IdsStayDistinct` and `RunningStaysOwned`.
`NothingForgotten` is inductive only with `CopiesSound` (no copy is of a later
version than the queue: else a rename could bring `saved` past `version`);
`IdsDistinct` needs the same of the file and of every copy in flight, since any
of them may be loaded; `RunningOwned` needs `WorkSound`, which says whose turn a job
is between being marked running and being reported over.

## Panes

**`Panes`** is one session as the daemon's `terminal.go` and the TUI's `panes.go`
and `terminal.go` share it.  A shell is started without a lock (`Look`),
registered under its pane unless another handler was first (`Register`), runs,
is killed or exits (`"ending"`), closes its clients' channels (`Finish`, `"done"`) and
leaves the table later (`Unregister`).  Each connection has a handler in the daemon
(`at`, `got`) and, while the TUI uses it, is the `link` of a pane's reader.
A handler whose channel is closed sends an exit if the shell is done, and just
drops the connection otherwise (`Relay`); the reader marks the pane ended or
attaches again (`SeesExit`, `SeesDrop`).  The TUI's `Update` opens the session
(`Activate`), splits (`Open`, then `Opened`), closes (`Close`, then `Closed`) and
removes panes that ended (`ExitEvent`); after each it puts its layout into `sent`, from
where it reaches the daemon in any order (`SetLayout`), or never if the TUI ends
(`Quit`).  `Open` is one step since nobody knows its name before it has answered.  The
geometry of a layout and the bytes of the terminal are left out; so are the
failure to start a shell, the restart of the daemon, and two TUIs at once (the second
displaces the first).

| run | question | bounds |
|---|---|---|
| `Panes` | is a shell orphaned, does a handler wait on a dead shell, does a pane on the screen catch up with its shell | 2 panes, 2 shells, 2 connections, 1 layout on its way, 2 TUIs one after the other; fairness |

Two panes are needed for a close, which the last pane refuses; two shells for a
pane that gets a new one while the old is still in the table, and for two
handlers that start one each; one layout on its way for one that is overtaken by
the requests of the TUI.  The pools
are bounds of the model alone: where a step waits for an entry the code would
not wait, so `Look` and `SeesDrop` are *strongly* fair in `FairSpec` although
an entry may be free only now and then.  Everything else is weakly fair: they are goroutines
of the daemon and of the TUI that block on nothing else.  The user, the arrival of
layouts and the disconnection of slow clients are not fair.

The model shows what becomes of a close:
the reader of a pane whose connection its own TUI closed attaches again, and the daemon
starts a new shell for the closed pane.  It stays in the table (`ShellsOwned`), so the
next layout that arrives ends it.

**Proofs.**  `PanesProofs` proves `Invariance`, `ShellsStayOwned` and
`NobodyEverHangs` for all values of the constants, from `PanesAssumption`.  `ShellsOwned` is not
inductive: that `Register` overwrites nobody needs that a shell in the table is
registered under its own pane (`TableOK`) and that the shell a handler
registers is held by no other (`HandlersOK`); that `Open` does, needs that the next name
is unknown to every table, handler and reader (`NamesOK`).  `NobodyHangs` needs that only
handlers that read from a shell are its clients (`SubscribersOK`).  Each conjunct has a
lemma with a step per action that touches its variables.
`ScreenCatchesUp` is only model-checked: it is a liveness property.

## One attempt of a job, and resets

**`Executor`** takes `Executor.Run` apart: launch (`SetRunning`), output file
opened (`OpenOutput`: a first attempt creates it, a retry appends; with `-E` each creates
the `.e` file beside it, `CreateErrors`), process started, pid and file name noted (`NotePID`:
`SetRunning` again), process entered in `e.processes` (`StoreProcess`) and timer armed if the job
has a timeout by then (`Arm`), `cmd.Wait` returned and the entry deleted (`Reap`), then
`RequeueForRetry` or `MarkFinished`.  Beside it run the process, the timer and its
escalation to KILL two seconds later, `ru -k`, removal, and `:reset` in its two
halves: kill everything, then drop the table and start the IDs again at 0.

That last step is why a job is not its ID here but a *submission*, with `idOf`:
goroutines of dropped jobs go on, and know the table of jobs (`holder`, the code's
`byID`) and the table of processes (`entry`) only by ID.  `Target(r)` is
the job a run acts on, which need not be its own; `crossed` collects the jobs
to which that happened.  TERM may be ignored, so `Term` ends any subset of the
processes it reaches; KILL ends them all.  A process is the leader of its group, for which
`cmd.Wait` waits; what else is in the group may outlive it (executor.go:195-199) and is not
modelled.

A generated file name is the submission it was made for.  `file` is the name in the table
(`Info.OutputFilename`), which a run reads when it opens its file (`out`) and writes back with its
pid, to whatever job has the ID then; `written` and `errors` are the runs whose output is in the file
of each name and in the `.e` file beside it.  Jobs without a file (`-n`) and with a file of
the user's (`-O`) are left out.

| run | question | bounds |
|---|---|---|
| `ExecRaces` | who acts on whose job, which process does a kill find, is a finished job over, whose output is in the file a job names, does a timeout end its run | 2 submissions, the first with 1 retry, `-E` and perhaps a timeout, 1 reset; fairness |

Two submissions and one reset are what it takes for two jobs of one ID, a retry
for two runs of one job.  A leftover of the first meets the second, so it is the first that has
a retry, a timer and an `.e` file.  The code does let a leftover act on a new job: it marks it running or
finished, enters or clears its process, and replaces the name of its output file by its own, so that
a retry appends to the old job's file and `ru -c` reads that.  The properties except jobs to
which that happened, and say that it takes a reset.  **Fairness**: goroutines and
timers run (weakly fair); processes need not end, so `TimeoutEnds` rests on
the escalation.

**Proofs.**  `ExecutorProofs` proves all four invariants from
`ExecutorAssumption`, for any number of submissions, retries and resets.  For
`ResetAloneCrosses` (`CrossedByResetOnly`) `XInv` says
that IDs name jobs that are in the table (`HoldersPresent`), that a run is of
an attempt its job has come to (`RunsKnown`), and that before the first reset an
ID counts submissions (`Unreset`).  From the last follows that a run's target
is its own job.  Every step of a goroutine is one of two lemmas: it
tells the table something under its ID (`XTells`) or not (`XOnward`).

`KillsReach` (`KillReaches`) and `FinishedMeansOver` (`FinishedIsOver`) are about jobs that
nobody else's goroutine has acted on, and hold in spite of all the others.  `YInv` says of such a job
(`Own`) that its runs come one after the other: what an earlier attempt started is over
(`Earlier`), the state is that of its last run (`Stated`), a process lives only while that run
waits for it (`Living`), and a run that waits is entered under the job's ID (`Entered`,
which is `KillReaches`).  A stranger could break that only through the two tables: `Filed` says
that the table of jobs and the IDs agree, so a goroutine that reaches a job under its ID is its own
or has crossed to it, and then the job is no longer claimed.

`OutputIsKept` (`OutputKept`) adds the names (`ZInv`): a name that is not a job's own means that
the job was crossed (`Renamed`); until a job leaves the table its own name is no other job's, and
nothing of another's is in the files of it (`Private`), because a goroutine can pass a name on only at
`NotePID`, to the job under its ID; and what an uncrossed job's runs have opened is in its file
(`Written`), which needs of `YInv` that the first attempt, the one that truncates, comes before the others.
`TimeoutEnds` is only model-checked.

## Connections, calls and takeovers

**`Protocol`** lists, for every function of the client library, the message it
sends and what it reads the answer as, and, for every handler, what it answers and
whether it may refuse.  Nothing but these two hand-written sides makes them
agree: a message is a type and a payload of any registered kind.

**`Conversations`** runs them.  In the daemon: the accept loop with its cap
(`Accept`), one goroutine per connection (`server`): turned away, serving one
request after another, waiting for a job without a place under the cap, or
registered as the TUI (`Attach`, then the notice to the one it displaces, then
the acknowledgement, then parked until the client hangs up).  `Send` is two writes, so a
message of another goroutine can come between (`BeginSend`, `EndSend`, `half`).
In a `ru` process: dial, the version check of `EnsureServer` on a connection of its own,
the call, whatever follows from its answer (`Follows`: a batch asks again on the same
connection, `ru -f` waits for what it submitted, ...), the TUI that watches its
registration, ctrl-C at any moment.  A connection is cut by one side while messages are under way
on it.  Shutting down closes the listener last (`Shutdown`, `Exit`).  Left out: starting
a daemon where none answers, and replacing an idle one of another version.

| run | question | bounds |
|---|---|---|
| `Talk` | is the count of connections right, is every answer understood, is a displaced TUI told, does every call return | 2 processes, one making any call, the other a TUI or a waiter; 1 place; fairness |

With one place under the cap, the second connection is turned away unless the
first waits or is a TUI, which gives its place back: every way to take and return a
place happens.  A process has two connections, the daemon noticing the end of one while the
next is opened.  **Fairness**: goroutines of the daemon run, processes read what
they wait for, and jobs that are waited for end; nobody has to call anything.
`AnswersUnderstood` excepts `SubmitJob`, which takes a refusal for a broken answer, and
`DisplacedIsTold` speaks of TUIs that were acknowledged.

**Proofs.**  `ConversationsProofs` proves three invariants from
`ConversationsAssumption`, for any number of clients, any calls and any cap.

`EveryPlaceKept`: `PlacesKept` is inductive with the types.  Each step moves one connection from
one place to another, and the lemma `Moved` says what that does to the number of
those that are counted.

`AnswersMakeSense` (`AnswersUnderstood`) is first a fact about the two tables of `Protocol`:
`Contract` lists which request is answered with what where a caller looks at the
answer, and the tables on both sides are shown to keep to it, entry by entry.  Then it is one about
connections (`AInv`): what is in one was sent in answer to the request that is
under way on it, or is a refusal by a daemon that has not begun to serve it, and the connection
is a new one when a call begins (`Talks`).

`DisplacedAlwaysTold` (`DisplacedIsTold`) follows a registration (`TInv`).  Once its TUI is
acknowledged, a connection is claimed (registered, or remembered as the one to be notified by
a handler that displaced it) or the notice is in it (`Told`); nobody
is displaced by two (`Distinct`); and since two goroutines write to the connection, that a message
written in two halves is not torn: after the acknowledgement only the notice can be
half written, and its writer is the last to know the connection (`HalfNotice`).
`EveryCallReturns` is only model-checked.

## Sessions, groups and the screen that edits them

**`Registry`** is the part of the job table that files jobs in sessions and
sessions in groups, with every request that changes it, and what the scheduler does to
a job's state, a retry included (`RequeueForRetry`); a request holds the
lock throughout, except a rerun, which reads the job, lets go, and submits to the
session it read (`RerunRequest`, `Rerun`).  Names are numbers.

**`Manage`** is the management screen over it.  A poll reads groups, sessions and
jobs under three locks (`StartPoll`, `ReadSessions`, `ReadJobs`) and arrives when it
arrives (`Deliver`); keys open forms, questions and the picker on rows of that tree,
and a form submits up to three calls that a goroutine makes one after the other
(`Editing`, `CallGranted`, `CallRefused`), each of which the daemon may refuse by then.
Other processes change the registry, and `ru --jobs` in a pane asks for the job
view through a flag that one poll takes away.  Where the cursor of the sidebar
stands is left out: a key acts on any row.

| run | question | bounds |
|---|---|---|
| `ManageEdits` | is everything filed, and are active jobs safe from deletions, in whatever order edits and other requests come | 3 names of sessions and of groups, 2 jobs, the first over, 2 changes by others, 1 edit of up to 3 calls, 1 poll; nobody types `ru --jobs` (`Asks = FALSE`) |
| `ManagePolls` | is the job view opened, does the tree become what the daemon holds | jobs in every state, 4 IDs, 1 change, no edits, 2 overlapping polls; fairness |

A session to rename or delete, one that other processes know, and a name to
type make three; a new session in a new group is three calls.  In `ManageEdits` the
second job comes from a submission or from a rerun of the first, whose two halves are two changes
with an edit in between; or it is queued in a session that the tree, read before, shows without an active job,
and that is deleted from that tree.  Two polls
suffice to overtake; one change makes an answer stale.  The two
runs split the screen because edits matter to what is filed and polls to what is
shown; without edits `pendingOpen` is never set in `ManagePolls`.  **Fairness**: ticks start polls
and polls are answered.  `JobsViewComes`
is claimed while no session just created waits to be opened: the poll that opens it
drops the flag.

**Proofs.**  `ManageProofs` proves `AllFiled` (`Homes`) and `ActiveStays`
(`ActiveKept`) of `RegistrySpec`, the registry under any requests, resets and
restarts, for any names and numbers, and the same two of `Manage`
(`EditsLeaveAllFiled`, `EditsSpareActive`), from any filed start: what the registry grants
keeps `Homes` for whatever names it is sent, so nothing has to be known of the
trees, forms and half-made edits the names went through.  `MInv` only adds that a job is a
session and a state.  The two liveness properties of `Manage` are only model-checked.

## The job table on the screen

**`JobsTable`** is the table of the management screen: rows sorted and filtered
out of the last answer, a cursor that follows its job, tags, a visual range, the
prompt before a removal, and batches that are sent ID by ID.  Polls are reduced to
one at a time, since `Manage` has how they overlap.  `Refresh` is what
`refreshJobsRows` does after any change of what the rows are made of.  Batches are goroutines and may
overlap: `batch` is any one of them (`Send` may leave it alone), and what the others do to the jobs is among the
changes of `Elsewhere`.  There too are the reset, after which IDs begin at 0 again (`ResetIDs`, with
`handed` to remember which had been given out), and what executors of dropped jobs tell the table
under those (`Leftover`).

| run | question | bounds |
|---|---|---|
| `JobsTable` | does the cursor stay with its job and tags with theirs, does a batch take, or ask about, what was tagged, is nothing that may still run removed without a prompt | 2 jobs, one of them over, 2 changes from elsewhere, 2 orders, a filter that hides one |

A job that is hidden and one that is not, one that is over and one that may run,
are two; two changes let one go and another come between poll and key, or are a reset and a
submission that takes an ID again.

IDs are all the table knows, so a reset defeats it: with a list from before, `d` removes without a prompt a
new job of an ID that was finished (`StaleListSpares`, below), and tags go over to the new jobs.  So
`UnaskedIsOver` speaks of IDs that were not handed out before a reset, and `TagsDecide` of IDs.  A
daemon that starts again from an older snapshot uses IDs again too; the table is not run across restarts.

**Proofs.**  `JobsTableProofs` proves, for any number of jobs, groups, filters and
changes, from `RegistryAssumption` and `JobsTableAssumption`: `TableIsSound`
(`SelectionSound`), `NothingUnaskedIsLost` (`UnaskedIsOver`), `TagsAreTaken` (`TagsDecide`)
and `CursorStays` (`CursorFollows`).  Rows are sorted by counting what comes before each
(`Place`), which says what a stable sort by these keys returns without recursion; `SortedLists` then
shows that the counts of a strict order are 0, 1, 2, ... (an injection between finite
sets of one size is onto), so that the table lists every job the filter lets through.

`JInv` has a part for each property.  `UnaskedIsOver` is about a list that may be any
number of changes old: what is finished in it stays finished until it is gone (`OverIs`, of the
list on the screen and of the one on its way), and IDs that no reset has freed are given to no
other (`Moved`, `ListSound`), so what was decided from the list holds for every ID of the batch still to be sent
(`BatchSound`).  `SelectionSound` needs that `refreshJobsRows` ends on a row wherever it starts
from (`Refreshed`), the range included (`PlacesSound`), without which a selection could name rows that
are not there.  `TagsDecide` needs that every tag is listed and the list not empty
(`copies > 0`): then a list repeated names what the list names (`RepeatedNames`).

## Output

**`Output`** is one job's file between the executor that writes it, `ru -c` and `ru
-t` that follow it (`follower`: path, stat, state, open, read, check, drain), the
pager, whose loads overlap (`loads`, `polls`), and `ru gc`, which lists jobs,
then the directory, then deletes.  A file is its number of chunks; one that is
created anew under a deleted path is another file.  Calls may fail: one at the start ends a follower
with an error, one while it reads (`Check`) ends it without a word, and a load brings an error
into the pager.  What a listing says of the job goes with its state (`JobInfo`), and with it, as history, how
far the last attempt that was over had got (`past`).  `SaysFinished` is the pager's badge, which is
`[finished]` whenever the job was listed as anything but running.

| run | question | bounds |
|---|---|---|
| `Output` | has whoever says that the job is over shown all of it, is no output denied or swept wrongly, does everybody stop following | 1 retry, 1 chunk per attempt, 1 poll, 2 loads; fairness |

A chunk may come after a first read, the retry's is added to a file
that was read to its end, two loads overtake each other.  A follower with a sweep and a
TUI are alternatives, since readers do not notice each other.  **Fairness**: the
follower runs, ticks start polls, polls and loads are answered; the job need not go on.

Of a job that waits for its next attempt the pager says `[finished]` too, and stops
following.  `PagerTellsAll` asks of such a pager what the attempts before had written, and all of the
file where the job is really over; that the text under `[finished]` grows no more
(`FinishedIsFinal`, below) is not so.

**Proofs.**  `OutputProofs` proves the four invariants for any number of
retries, chunks, polls and loads, from `OutputAssumption`.  Its `IInv` says who may rely on the job
being over from the moment he learns it: nothing is written then (`JobOK`), so
a follower between `Check` and `Drain` (`FollowerOK`) and a load that was started
under that state (`TuiOK`, `Whole`) see the whole file.  What a listing says attempts have left is
still in the file when it is read later, since retries append (`Left`).  `FollowEnds` and `PagerStops` are
only model-checked.

## Other disagreements

Beside `SkipRace` and `StaleSave`, the modules state properties that the code
does not have, and that no run of this directory carries.  TLC finds a
counterexample to each with the change given.

| property | what the code does | to see it |
|---|---|---|
| `Scheduler!RemovedNeverRuns` | `NextRunnable` leaves the job queued until `SetRunning`; a removal in between succeeds, `SetRunning` finds nothing, and the job is executed, uncounted by `BusySlots` and unknown to every query | as an invariant of `QueueChurn` |
| `Scheduler!WaitAnswered` | `Remove` drops a queued job and its waiters' channels without a value: they wait for ever | `QueueLive` with `Ops = {"wait", "remove"}`, two clients and two jobs |
| `Panes!PanesLive` | each layout travels on a connection of its own; one made before a split may be served after `Open` registered the new pane, and kills it | as a property of `Panes` with `MaxSent = 2` and `MaxStarts = 1` |
| `Conversations!OneDriver` | `AttachTUI` takes any message for the acknowledgement, the notice of a takeover too, and that TUI stays on the screen beside the new one | as an invariant of `Talk` |
| `Conversations!OwnDaemonRecognised` | a client turned away before it has written fails to write, and takes its own daemon for something else | as an invariant of `Talk` |
| `Executor!OutputKeptThroughResets` | a goroutine left over by a reset writes the name of its own output file into the job that has its ID now, whose retry then appends there | as an invariant of `ExecRaces` |
| `Executor!ErrorsKept` | every attempt creates the `.e` file anew, although it appends to the output file, so the errors of the attempts before are lost | as a property of `ExecRaces` |
| `JobsTable!StaleListSpares` | after a reset `d` decides from the old list that a new job of the same ID is finished | as an invariant of `JobsTable` |
| `Output!FinishedIsFinal` | the pager calls a job finished that waits for its next attempt | as an invariant of `Output` |
| `JobsTable!ActsOnce` | on re-entry the table is filled once per group until the first poll, and a batch on tags is sent as often | as an invariant of `JobsTable` with `Groups = {0, 1}` |

Three more are said where the properties stop: a sweep deletes the output of a job
submitted after its list (`Sweepable` in `Output`); a follower whose job has left
the table, or whose question fails, ends without a last read (`"lost"`); a late load opens a pager that was
closed.

## Not modelled

Parsing of arguments, formatting, rendering, the key tables and the terminal emulator
(vendored) keep no state that goroutines share.  Reading `/proc`
(`sysmon`) is input only; the daemon's environment is a map under one lock.  Labels, messages,
and timeouts as data decide nothing about scheduling.

* **Configuration.**  Precedence of the sources is a mapping of records.  `SaveRuntime` reads, changes
  and rewrites the runtime file without a lock; only settings made by hand meet there.
* **ipc and starting a daemon.**  Whether a socket is stale is a call of the
  operating system.  Two daemons started at once, and replacing an idle daemon of
  another version, are left out with it, and so is what `doUpgrade` looks at in between.
* **Terminals.**  The replay buffer, failure to start a shell, renaming or dropping a session's
  layout (two renames that cross can leave a layout under the old name), and the
  daemon's end with shells open.
* **TUI.**  The tree of a layout (pure geometry), the cursor of the sidebar, the settings
  form, the index of a visual range's anchor in a changed table beyond its clamping, `:restart`,
  `:kill -a`; sorting by time.  Edits that fail keep `pendingOpen`, as `Manage` has it.
* **Data races of one value.**  `ru -i` and the like ask for the last ID and then act on it; what was
  submitted in between only changes which job is meant.
* **Restarts of the daemon** under a management screen (the registry's `Restart` is proved
  about in `RegistrySpec`, not run under `Manage`).

## What is proved and what is only checked

Every invariant and every action property of a passing run is a theorem for all
values of the constants; the refinement too.  The liveness properties (`EveryJobEnds`, `WaitAnswered`,
`ScreenCatchesUp`, `TimeoutEnds`, `EveryCallReturns`, `JobsViewComes`, `TreeCatchesUp`,
`FollowEnds`, `PagerStops`) are beyond the prover, which has neither `ENABLED`
nor fairness, and stay with TLC.  Assumptions on constants are that pools are finite,
bounds are numbers, and values that stand for nothing are not among the real ones (`NoConn`,
and `"none" \notin Clients`).
