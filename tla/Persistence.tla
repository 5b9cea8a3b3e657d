----------------------------- MODULE Persistence -----------------------------
(***************************************************************************)
(* How the queue outlives the daemon (persistence.go).  A save copies the  *)
(* queue under q.mu and replaces the file after letting go of it, so the   *)
(* saves of two goroutines overlap; the daemon may stop, or die, between   *)
(* any two steps and starts again from what the file holds.                *)
(*                                                                         *)
(* The queue is reduced to what a restart decides about: which jobs there  *)
(* are, their IDs, and whether each waits, runs or is over.  The changes   *)
(* made here stand for all of its methods, by who makes them: a handler    *)
(* changes, replies and saves; scheduler and executor change, save and go  *)
(* on; MarkSkipped and the executor's SetRunning change and do not save.   *)
(* Removing and pruning are left out: what is gone need not survive.       *)
(***************************************************************************)
EXTENDS Integers

CONSTANTS
    Ticket,      \* the submissions; each is made once
    Handler,     \* connection handlers
    Sched,       \* the scheduler's goroutine
    None,        \* nothing to do
    Exit,        \* leave the process
    MaxStops,    \* bound: how often the daemon stops or dies
    Crashes,     \* may it die
    Faults       \* may writing the file fail

\* The executor of a submission is named by the submission.
Goroutine == Handler \cup {Sched} \cup Ticket

ASSUME PersistenceAssumption ==
    /\ MaxStops \in Nat
    /\ Crashes \in BOOLEAN
    /\ Faults \in BOOLEAN
    /\ Sched \notin Handler \cup Ticket
    /\ Handler \cap Ticket = {}
    /\ {None, Exit} \cap Goroutine = {}
    /\ None # Exit

VARIABLES
    up,       \* is there a daemon
    queue,    \* its JobQueue
    dirty,    \* JobQueue.dirty
    disk,     \* the queue in the file
    pc,       \* where each goroutine is
    todo,     \* what it does after its save
    snap,     \* the copy it is saving
    version,  \* history: how often this daemon changed the queue
    saved,    \* history: the newest version it brought to the file
    made,     \* history: the submissions that were made
    served,   \* history: those that were answered and saved
    stops     \* bound on restarts

mem == <<queue, dirty, version>>
goroutines == <<pc, todo, snap>>
history == <<made, served, stops>>
vars == <<up, mem, disk, goroutines, saved, history>>

State == {"absent", "queued", "running", "over"}
Queue == [next : Nat, id : [Ticket -> Nat], state : [Ticket -> State]]
NoQueue == [next |-> 0, id |-> [t \in Ticket |-> 0], state |-> [t \in Ticket |-> "absent"]]
Snapshot == [queue : Queue, version : Nat]
NoSnapshot == [queue |-> NoQueue, version |-> 0]

Saving == {"save", "write", "failed", "saved"}

TypeOK ==
    /\ up \in BOOLEAN
    /\ queue \in Queue
    /\ dirty \in BOOLEAN
    /\ disk \in Queue
    /\ pc \in [Goroutine -> Saving \cup {"idle", "reply", "launched", "live"}]
    /\ todo \in [Goroutine -> Ticket \cup {None, Exit}]
    /\ snap \in [Goroutine -> Snapshot]
    /\ version \in Nat
    /\ saved \in Nat
    /\ made \subseteq Ticket
    /\ served \subseteq Ticket
    /\ stops \in 0..MaxStops

\* No file, and no daemon yet.
Init ==
    /\ up = FALSE
    /\ queue = NoQueue
    /\ dirty = FALSE
    /\ disk = NoQueue
    /\ pc = [g \in Goroutine |-> "idle"]
    /\ todo = [g \in Goroutine |-> None]
    /\ snap = [g \in Goroutine |-> NoSnapshot]
    /\ version = 0
    /\ saved = 0
    /\ made = {}
    /\ served = {}
    /\ stops = 0

-----------------------------------------------------------------------------
\* The changes.

Change(q) ==
    /\ queue' = q
    /\ dirty' = TRUE
    /\ version' = version + 1

GoesTo(g, next, then) ==
    /\ pc' = [pc EXCEPT ![g] = next]
    /\ todo' = [todo EXCEPT ![g] = then]

\* The queue with one more job, and with another state of a job.
Added(q, t) ==
    [next |-> q.next + 1, id |-> [q.id EXCEPT ![t] = q.next],
     state |-> [q.state EXCEPT ![t] = "queued"]]

Moved(q, t, s) == [q EXCEPT !.state = [@ EXCEPT ![t] = s]]

Submit(h, t) ==
    /\ up
    /\ pc[h] = "idle"
    /\ t \notin made
    /\ made' = made \cup {t}
    /\ Change(Added(queue, t))
    /\ GoesTo(h, "reply", t)
    /\ UNCHANGED <<up, disk, snap, saved, served, stops>>

Reply(h) ==
    /\ pc[h] = "reply"
    /\ pc' = [pc EXCEPT ![h] = "save"]
    /\ UNCHANGED <<up, mem, disk, todo, snap, saved, history>>

\* The scheduler marks a job running, saves, and then starts it.
Start(t) ==
    /\ up
    /\ pc[Sched] = "idle"
    /\ queue.state[t] = "queued"
    /\ Change(Moved(queue, t, "running"))
    /\ GoesTo(Sched, "save", t)
    /\ UNCHANGED <<up, disk, snap, saved, history>>

Launch(t) ==
    /\ pc[Sched] = "saved"
    /\ todo[Sched] = t
    /\ pc' = [pc EXCEPT ![Sched] = "idle", ![t] = "launched"]
    /\ todo' = [todo EXCEPT ![Sched] = None]
    /\ UNCHANGED <<up, mem, disk, snap, saved, history>>

\* It skips one without saving.
Skip(t) ==
    /\ up
    /\ pc[Sched] = "idle"
    /\ queue.state[t] = "queued"
    /\ Change(Moved(queue, t, "over"))
    /\ UNCHANGED <<up, disk, goroutines, saved, history>>

\* The executor records the pid without saving, and the end with it.
Started(t) ==
    /\ pc[t] = "launched"
    /\ Change(queue)
    /\ GoesTo(t, "live", None)
    /\ UNCHANGED <<up, disk, snap, saved, history>>

Finish(t) ==
    /\ pc[t] \in {"launched", "live"}
    /\ Change(Moved(queue, t, "over"))
    /\ GoesTo(t, "save", None)
    /\ UNCHANGED <<up, disk, snap, saved, history>>

\* Shutdown saves and then leaves the process, whatever the others do.
Shutdown(h) ==
    /\ up
    /\ stops < MaxStops
    /\ pc[h] = "idle"
    /\ \A g \in Handler : todo[g] # Exit
    /\ GoesTo(h, "save", Exit)
    /\ UNCHANGED <<up, mem, disk, snap, saved, history>>

-----------------------------------------------------------------------------
\* save.

SaveBegins(g) ==
    /\ pc[g] = "save"
    /\ \/ /\ ~dirty
          /\ pc' = [pc EXCEPT ![g] = "saved"]
          /\ UNCHANGED <<dirty, snap>>
       \/ /\ dirty
          /\ dirty' = FALSE
          /\ snap' = [snap EXCEPT ![g] = [queue |-> queue, version |-> version]]
          /\ pc' = [pc EXCEPT ![g] = "write"]
    /\ UNCHANGED <<up, queue, version, disk, todo, saved, history>>

\* The end of a save: the goroutine has no use for its copy any more.
SaveEnds(g, next) ==
    /\ pc' = [pc EXCEPT ![g] = next]
    /\ snap' = [snap EXCEPT ![g] = NoSnapshot]

\* Mutant: dirty is cleared once the file is there, not when the copy is taken.
ReplaceClearsDirty(g) ==
    /\ pc[g] = "write"
    /\ disk' = snap[g].queue
    /\ saved' = IF snap[g].version > saved THEN snap[g].version ELSE saved
    /\ SaveEnds(g, "saved")
    /\ dirty' = FALSE
    /\ UNCHANGED <<up, queue, version, todo, history>>

\* Mutant: the header is copied under the lock and the jobs are read later.
ReplaceEncodesLate(g) ==
    /\ pc[g] = "write"
    /\ disk' = [queue EXCEPT !.next = snap[g].queue.next]
    /\ saved' = IF snap[g].version > saved THEN snap[g].version ELSE saved
    /\ SaveEnds(g, "saved")
    /\ UNCHANGED <<up, mem, todo, history>>

\* writeSnapshot: a temporary file is written, synced and renamed.  Nothing
\* sees it before the rename.
Replace(g) ==
    /\ pc[g] = "write"
    /\ disk' = snap[g].queue
    /\ saved' = IF snap[g].version > saved THEN snap[g].version ELSE saved
    /\ SaveEnds(g, "saved")
    /\ UNCHANGED <<up, mem, todo, history>>

WriteFails(g) ==
    /\ Faults
    /\ pc[g] = "write"
    /\ SaveEnds(g, "failed")
    /\ UNCHANGED <<up, mem, disk, todo, saved, history>>

MarkDirty(g) ==
    /\ pc[g] = "failed"
    /\ dirty' = TRUE
    /\ pc' = [pc EXCEPT ![g] = "saved"]
    /\ UNCHANGED <<up, queue, version, disk, todo, snap, saved, history>>

\* A handler or an executor goes back to waiting.
Done(g) ==
    /\ g # Sched
    /\ pc[g] = "saved"
    /\ todo[g] # Exit
    /\ served' = served \cup ({todo[g]} \cap Ticket)
    /\ GoesTo(g, "idle", None)
    /\ UNCHANGED <<up, mem, disk, snap, saved, made, stops>>

Save(g) ==
    SaveBegins(g) \/ Replace(g) \/ WriteFails(g) \/ MarkDirty(g) \/ Done(g)

-----------------------------------------------------------------------------
\* The process ends and another one starts.

Down ==
    /\ up' = FALSE
    /\ queue' = NoQueue
    /\ dirty' = FALSE
    /\ version' = 0
    /\ saved' = 0
    /\ pc' = [g \in Goroutine |-> "idle"]
    /\ todo' = [g \in Goroutine |-> None]
    /\ snap' = [g \in Goroutine |-> NoSnapshot]
    /\ stops' = stops + 1
    /\ UNCHANGED <<disk, made, served>>

Leave(h) == pc[h] = "saved" /\ todo[h] = Exit /\ stops < MaxStops /\ Down

Crash == Crashes /\ up /\ stops < MaxStops /\ Down

\* Mutant: jobs that were running are loaded as they are.
LoadedAsIs(q) == q

\* loadJobQueue: nobody runs what was running.
Loaded(q) ==
    [q EXCEPT !.state =
        [t \in Ticket |-> IF q.state[t] = "running" THEN "over" ELSE q.state[t]]]

Boot ==
    /\ ~up
    /\ up' = TRUE
    /\ queue' = Loaded(disk)
    /\ dirty' = (\E t \in Ticket : disk.state[t] = "running")
    /\ version' = IF dirty' THEN 1 ELSE 0
    /\ UNCHANGED <<disk, goroutines, saved, history>>

Next ==
    \/ \E h \in Handler : \/ Reply(h) \/ Shutdown(h) \/ Leave(h)
                          \/ \E t \in Ticket : Submit(h, t)
    \/ \E t \in Ticket : Start(t) \/ Launch(t) \/ Skip(t) \/ Started(t) \/ Finish(t)
    \/ \E g \in Goroutine : Save(g)
    \/ Boot \/ Crash

Spec == Init /\ [][Next]_vars

-----------------------------------------------------------------------------
\* A goroutine has, or is about to have failed to write, the last change.
Carries(g) == pc[g] = "write" /\ snap[g].version = version

\* No change is forgotten: it has once been written to the file, somebody is
\* writing it (or has just failed to), or the next save will take it.  A reader of
\* dirty that finds it clear while another goroutine still writes relies on this.
\* An older copy may replace it in the file later: that is ServedSurvives.
NothingForgotten ==
    up /\ ~dirty =>
        \/ saved = version
        \/ \E g \in Goroutine : Carries(g) \/ pc[g] = "failed"

\* An ID names one job of the queue, also after the queue came from the file:
\* a copy never shows a job without the counter that produced its ID.
WellNumbered(q) ==
    \A s, t \in Ticket : q.state[s] # "absent" =>
        /\ q.id[s] < q.next
        /\ s # t /\ q.state[t] # "absent" => q.id[s] # q.id[t]

IdsDistinct == WellNumbered(queue)

\* A job that counts as running has somebody who will end it, also after a
\* restart: no slot is taken by a job of an earlier daemon.
RunningOwned ==
    \A t \in Ticket : queue.state[t] = "running" =>
        \/ pc[t] \in {"launched", "live"}
        \/ pc[Sched] \in Saving /\ todo[Sched] = t

\* What makes these inductive: the same of the copies, which show no job that
\* was not submitted and no version from the future ...
Sound(q, known) ==
    WellNumbered(q) /\ \A t \in Ticket \ known : q.state[t] = "absent"

CopiesSound ==
    /\ Sound(queue, made) /\ Sound(disk, made)
    /\ \A g \in Goroutine : Sound(snap[g].queue, made) /\ snap[g].version <= version
    /\ saved <= version

\* ... and who works on what: the scheduler on a job that has no executor yet,
\* an executor on a running job, and nobody when there is no daemon.
WorkSound ==
    /\ pc[Sched] \in Saving \cup {"idle"}
    /\ pc[Sched] # "idle" =>
          /\ todo[Sched] \in Ticket
          /\ queue.state[todo[Sched]] = "running"
          /\ pc[todo[Sched]] = "idle"
    /\ \A t \in Ticket :
          /\ pc[t] \in {"launched", "live"} => queue.state[t] = "running"
          /\ queue.state[t] \in {"absent", "queued"} => pc[t] = "idle"
    /\ ~up => version = 0 /\ \A g \in Goroutine : pc[g] = "idle"

IInv ==
    /\ TypeOK /\ NothingForgotten /\ IdsDistinct /\ RunningOwned
    /\ CopiesSound /\ WorkSound

\* README "the job list survives daemon restarts": a job whose submission was
\* answered, and whose handler then returned from its save, is in the queue of
\* every later daemon.
ServedSurvives == up => \A t \in served : queue.state[t] # "absent"

=============================================================================
