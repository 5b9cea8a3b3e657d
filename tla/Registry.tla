------------------------------ MODULE Registry ------------------------------
(***************************************************************************)
(* The sessions and groups of the daemon (internal/server/sessions.go):    *)
(* jobs live in sessions, sessions in groups, and each request changes the *)
(* three tables under the queue's lock, so it is one step.  Two calls take *)
(* the lock twice: a rerun reads the job, lets go, and submits what it     *)
(* read.                                                                   *)
(***************************************************************************)
EXTENDS Integers, FiniteSets

CONSTANTS
    Session,   \* names of sessions
    Group,     \* names of groups
    MaxJobs    \* bound on the IDs handed out

\* "default": names are numbers so that they have an order, as strings do.
Default == 0

ASSUME RegistryAssumption ==
    /\ Default \in Session
    /\ Default \in Group
    /\ MaxJobs \in Nat

Job == 0..(MaxJobs - 1)
JobState == {"queued", "running", "finished", "skipped"}
Active == {"queued", "running"}

VARIABLES
    sessions,   \* q.sessions: the group of each session
    groups,     \* q.groups
    jobs,       \* q.jobs: the session and the state of each job
    nextID,     \* q.nextID
    reruns      \* sessions that reruns under way have read from their job

registry == <<sessions, groups, jobs, nextID, reruns>>

JobInfo == [session : Session, state : JobState]

RegistryTypeOK ==
    /\ DOMAIN sessions \subseteq Session
    /\ \A s \in DOMAIN sessions : sessions[s] \in Group
    /\ groups \subseteq Group
    /\ DOMAIN jobs \subseteq Job
    /\ \A j \in DOMAIN jobs : jobs[j] \in JobInfo
    /\ nextID \in 0..MaxJobs
    /\ reruns \subseteq Session

Put(f, x, v) == [y \in DOMAIN f \cup {x} |-> IF y = x THEN v ELSE f[y]]
Drop(f, X) == [y \in DOMAIN f \ X |-> f[y]]

RegistryInit ==
    /\ sessions = [s \in {Default} |-> Default]
    /\ groups = {Default}
    /\ jobs = [j \in {} |-> 0]
    /\ nextID = 0
    /\ reruns = {}

-----------------------------------------------------------------------------
(* Requests: when each is granted, and what it does then. *)

MayCreateSession(s) == s \notin DOMAIN sessions

CreateSession(s) ==
    /\ MayCreateSession(s)
    /\ sessions' = Put(sessions, s, Default)
    /\ UNCHANGED <<groups, jobs, nextID, reruns>>

MayRenameSession(old, new) ==
    old \in DOMAIN sessions \ {Default} /\ new \notin DOMAIN sessions

\* The jobs go along.
RenameSession(old, new) ==
    /\ MayRenameSession(old, new)
    /\ sessions' = Put(Drop(sessions, {old}), new, sessions[old])
    /\ jobs' = [j \in DOMAIN jobs |->
                  IF jobs[j].session = old THEN [jobs[j] EXCEPT !.session = new] ELSE jobs[j]]
    /\ UNCHANGED <<groups, nextID, reruns>>

JobsIn(s) == {j \in DOMAIN jobs : jobs[j].session = s}

\* Mutant: only a running job keeps its session.
MayDeleteQueued(s) ==
    /\ s \in DOMAIN sessions \ {Default}
    /\ \A j \in JobsIn(s) : jobs[j].state # "running"

MayDeleteSession(s) ==
    /\ s \in DOMAIN sessions \ {Default}
    /\ \A j \in JobsIn(s) : jobs[j].state \notin Active

\* What is left of its jobs goes too.
DeleteSession(s) ==
    /\ MayDeleteSession(s)
    /\ sessions' = Drop(sessions, {s})
    /\ jobs' = Drop(jobs, JobsIn(s))
    /\ UNCHANGED <<groups, nextID, reruns>>

MayCreateGroup(g) == g \notin groups

CreateGroup(g) ==
    /\ MayCreateGroup(g)
    /\ groups' = groups \cup {g}
    /\ UNCHANGED <<sessions, jobs, nextID, reruns>>

MayRenameGroup(old, new) == old \in groups \ {Default} /\ new \notin groups

\* Mutant: the sessions of the group are forgotten.
RenameGroupAlone(old, new) ==
    /\ MayRenameGroup(old, new)
    /\ groups' = (groups \ {old}) \cup {new}
    /\ UNCHANGED <<sessions, jobs, nextID, reruns>>

RenameGroup(old, new) ==
    /\ MayRenameGroup(old, new)
    /\ groups' = (groups \ {old}) \cup {new}
    /\ sessions' = [s \in DOMAIN sessions |-> IF sessions[s] = old THEN new ELSE sessions[s]]
    /\ UNCHANGED <<jobs, nextID, reruns>>

MayDeleteGroup(g) ==
    g \in groups \ {Default} /\ \A s \in DOMAIN sessions : sessions[s] # g

DeleteGroup(g) ==
    /\ MayDeleteGroup(g)
    /\ groups' = groups \ {g}
    /\ UNCHANGED <<sessions, jobs, nextID, reruns>>

MayMoveSession(s, g) == s \in DOMAIN sessions /\ g \in groups

MoveSession(s, g) ==
    /\ MayMoveSession(s, g)
    /\ sessions' = [sessions EXCEPT ![s] = g]
    /\ UNCHANGED <<groups, jobs, nextID, reruns>>

-----------------------------------------------------------------------------
(* Jobs, as far as they have to do with sessions. *)

\* A session that is missing is created on the way.
Add(s) ==
    /\ sessions' = IF s \in DOMAIN sessions THEN sessions ELSE Put(sessions, s, Default)
    /\ jobs' = Put(jobs, nextID, [session |-> s, state |-> "queued"])
    /\ nextID' = nextID + 1
    /\ UNCHANGED groups

\* `ru' in a pane names the session of the pane, which may be long gone.
Submit(s) == nextID < MaxJobs /\ Add(s) /\ UNCHANGED reruns

RerunRequest(j) ==
    /\ j \in DOMAIN jobs
    /\ reruns' = reruns \cup {jobs[j].session}
    /\ UNCHANGED <<sessions, groups, jobs, nextID>>

Rerun(s) ==
    /\ s \in reruns
    /\ nextID < MaxJobs
    /\ reruns' = reruns \ {s}
    /\ Add(s)

SetState(j, from, to) ==
    /\ j \in DOMAIN jobs /\ jobs[j].state = from
    /\ jobs' = [jobs EXCEPT ![j].state = to]
    /\ UNCHANGED <<sessions, groups, nextID, reruns>>

SetRunning(j) == SetState(j, "queued", "running")
RequeueForRetry(j) == SetState(j, "running", "queued")
MarkFinished(j) == SetState(j, "running", "finished")
MarkSkipped(j) == SetState(j, "queued", "skipped")

Remove(j) ==
    /\ j \in DOMAIN jobs /\ jobs[j].state # "running"
    /\ jobs' = Drop(jobs, {j})
    /\ UNCHANGED <<sessions, groups, nextID, reruns>>

OverIn(S) == {j \in DOMAIN jobs : jobs[j].session \in S /\ jobs[j].state \notin Active}

ClearFinished(S) ==
    /\ OverIn(S) # {}
    /\ jobs' = Drop(jobs, OverIn(S))
    /\ UNCHANGED <<sessions, groups, nextID, reruns>>

Reset ==
    /\ sessions' = [s \in {Default} |-> Default]
    /\ groups' = {Default}
    /\ jobs' = [j \in {} |-> 0]
    /\ nextID' = 0
    /\ UNCHANGED reruns

\* The next daemon reads the snapshot of the tables.  It puts the default
\* session back into the default group, wherever it had been moved.
Restart ==
    /\ sessions' = Put(sessions, Default, Default)
    /\ groups' = groups \cup {Default}
    /\ jobs' = [j \in DOMAIN jobs |->
                  IF jobs[j].state = "running" THEN [jobs[j] EXCEPT !.state = "finished"] ELSE jobs[j]]
    /\ reruns' = {}
    /\ UNCHANGED nextID

-----------------------------------------------------------------------------
Filing ==
    \/ \E s \in Session :
          \/ CreateSession(s) \/ DeleteSession(s)
          \/ \E new \in Session : RenameSession(s, new)
          \/ \E g \in Group : MoveSession(s, g)
    \/ \E g \in Group :
          \/ CreateGroup(g) \/ DeleteGroup(g)
          \/ \E new \in Group : RenameGroup(g, new)

Queueing ==
    \/ \E s \in Session : Submit(s) \/ Rerun(s)
    \/ \E j \in Job :
          \/ SetRunning(j) \/ RequeueForRetry(j) \/ MarkFinished(j) \/ MarkSkipped(j)
          \/ Remove(j)
    \/ \E S \in {Session} \cup {{s} : s \in Session} : ClearFinished(S)

RegistryNext ==
    \/ Filing \/ Queueing \/ Reset \/ Restart
    \/ \E j \in Job : RerunRequest(j)

RegistrySpec == RegistryInit /\ [][RegistryNext]_registry

-----------------------------------------------------------------------------
(* Properties. *)

(* Everything is filed: a job's session exists, a session's group exists,
   and the defaults never go away, whatever order renames, deletions, moves,
   reruns, resets and restarts come in.  Trees are built from the groups down,
   so what is not filed is nowhere to be seen (internal/server/sessions.go:9-11,
   internal/tui/tree.go:33-41). *)
Homes ==
    /\ Default \in groups
    /\ Default \in DOMAIN sessions
    /\ \A s \in DOMAIN sessions : sessions[s] \in groups
    /\ \A j \in DOMAIN jobs : jobs[j].session \in DOMAIN sessions

(* A job that is queued or running is never lost to the deletion of its
   session or to a clean-up, however stale the list was from which it was
   asked for: it leaves alone, when it is removed while queued, or with
   everything else (sessions.go:148-155). *)
ActiveKept ==
    [][\A j \in DOMAIN jobs \ DOMAIN jobs' :
          \/ jobs[j].state \notin Active
          \/ jobs[j].state = "queued" /\ DOMAIN jobs' = DOMAIN jobs \ {j} /\ sessions' = sessions
          \/ DOMAIN jobs' = {} /\ nextID' = 0]_registry

=============================================================================
