----------------------------- MODULE ManageProofs -----------------------------
(***************************************************************************)
(* That everything stays filed and that no active job is lost, for any     *)
(* names, groups and number of jobs: in the registry by itself, and when   *)
(* requests come from a management screen, whatever it shows and whatever  *)
(* is typed into its forms.                                                *)
(*                                                                         *)
(* The registry does not need to trust the names it is sent: what is       *)
(* granted keeps Homes for any of them.  So nothing has to be known of the *)
(* trees, forms and calls that names go through on their way.              *)
(***************************************************************************)
EXTENDS Manage, TLAPS

\* A job is a session and a state.
Shaped ==
    \A j \in DOMAIN jobs :
        /\ jobs[j] = [session |-> jobs[j].session, state |-> jobs[j].state]
        /\ jobs[j].state \in JobState

MInv == Homes /\ Shaped

-----------------------------------------------------------------------------
(* Any request, whatever names it has. *)

LEMMA MCreateSession == ASSUME MInv, NEW s, CreateSession(s) PROVE MInv'
  <1>1. /\ DOMAIN sessions' = DOMAIN sessions \cup {s}
        /\ \A x \in DOMAIN sessions' : sessions'[x] = IF x = s THEN Default ELSE sessions[x]
    BY DEF CreateSession, Put
  <1>2. groups' = groups /\ jobs' = jobs
    BY DEF CreateSession
  <1>3. QED
    BY <1>1, <1>2 DEF MInv, Homes, Shaped

LEMMA MDeleteSession == ASSUME MInv, NEW s, DeleteSession(s) PROVE MInv'
  <1>1. /\ DOMAIN sessions' = DOMAIN sessions \ {s}
        /\ \A x \in DOMAIN sessions' : sessions'[x] = sessions[x]
        /\ DOMAIN jobs' = DOMAIN jobs \ JobsIn(s)
        /\ \A j \in DOMAIN jobs' : jobs'[j] = jobs[j]
    BY DEF DeleteSession, Drop
  <1>2. groups' = groups /\ s # Default
    BY DEF DeleteSession, MayDeleteSession
  <1>3. QED
    BY <1>1, <1>2 DEF MInv, Homes, Shaped, JobsIn

LEMMA MRenameSession == ASSUME MInv, NEW old, NEW new, RenameSession(old, new) PROVE MInv'
  <1>0. old \in DOMAIN sessions /\ old # Default /\ new \notin DOMAIN sessions /\ groups' = groups
    BY DEF RenameSession, MayRenameSession
  <1>1. /\ DOMAIN sessions' = (DOMAIN sessions \ {old}) \cup {new}
        /\ sessions'[new] = sessions[old]
        /\ \A x \in DOMAIN sessions \ {old} : sessions'[x] = sessions[x]
    <2>1. Drop(sessions, {old}) = [y \in DOMAIN sessions \ {old} |-> sessions[y]]
      BY DEF Drop
    <2>2. sessions' = [y \in DOMAIN Drop(sessions, {old}) \cup {new} |->
                         IF y = new THEN sessions[old] ELSE Drop(sessions, {old})[y]]
      BY DEF RenameSession, Put
    <2>3. QED
      BY <1>0, <2>1, <2>2
  <1>2. /\ DOMAIN jobs' = DOMAIN jobs
        /\ \A j \in DOMAIN jobs : jobs'[j] = IF jobs[j].session = old THEN [jobs[j] EXCEPT !.session = new]
                                             ELSE jobs[j]
    BY DEF RenameSession
  <1>3. \A j \in DOMAIN jobs : /\ jobs[j].session = old => jobs'[j] = [session |-> new, state |-> jobs[j].state]
                               /\ jobs[j].session # old => jobs'[j] = jobs[j]
    <2> SUFFICES ASSUME NEW j \in DOMAIN jobs
                 PROVE  [jobs[j] EXCEPT !.session = new] = [session |-> new, state |-> jobs[j].state]
      BY <1>2
    <2>1. PICK a, b : a = jobs[j].session /\ b = jobs[j].state /\ jobs[j] = [session |-> a, state |-> b]
      BY DEF MInv, Shaped
    <2>2. [[session |-> a, state |-> b] EXCEPT !.session = new] = [session |-> new, state |-> b]
      OBVIOUS
    <2>3. QED
      BY <2>1, <2>2
  <1>4. Shaped'
    BY <1>2, <1>3 DEF MInv, Shaped
  <1>5. Homes'
    BY <1>0, <1>1, <1>2, <1>3 DEF MInv, Homes
  <1>6. QED
    BY <1>4, <1>5 DEF MInv

LEMMA MMoveSession == ASSUME MInv, NEW s, NEW g, MoveSession(s, g) PROVE MInv'
  <1>1. /\ DOMAIN sessions' = DOMAIN sessions
        /\ \A x \in DOMAIN sessions : sessions'[x] = IF x = s THEN g ELSE sessions[x]
    BY DEF MoveSession
  <1>2. g \in groups /\ groups' = groups /\ jobs' = jobs
    BY DEF MoveSession, MayMoveSession
  <1>3. QED
    BY <1>1, <1>2 DEF MInv, Homes, Shaped

LEMMA MGroups ==
    ASSUME MInv, NEW g, NEW new, CreateGroup(g) \/ DeleteGroup(g) \/ RenameGroup(g, new)
    PROVE  MInv'
  <1>1. CASE CreateGroup(g)
    BY <1>1 DEF CreateGroup, MInv, Homes, Shaped
  <1>2. CASE DeleteGroup(g)
    BY <1>2 DEF DeleteGroup, MayDeleteGroup, MInv, Homes, Shaped
  <1>3. CASE RenameGroup(g, new)
    BY <1>3 DEF RenameGroup, MayRenameGroup, MInv, Homes, Shaped
  <1>4. QED
    BY <1>1, <1>2, <1>3

LEMMA MAdd == ASSUME MInv, NEW s, Add(s) PROVE MInv'
  <1>1. /\ DOMAIN sessions' = DOMAIN sessions \cup {s}
        /\ \A t \in DOMAIN sessions : sessions'[t] = sessions[t]
        /\ s \notin DOMAIN sessions => sessions'[s] = Default
        /\ groups' = groups
    BY DEF Add, Put
  <1>2. /\ DOMAIN jobs' = DOMAIN jobs \cup {nextID}
        /\ jobs'[nextID] = [session |-> s, state |-> "queued"]
        /\ \A j \in DOMAIN jobs \ {nextID} : jobs'[j] = jobs[j]
    BY DEF Add, Put
  <1>3. Shaped'
    BY <1>2 DEF MInv, Shaped, JobState
  <1>4. Homes'
    BY <1>1, <1>2 DEF MInv, Homes
  <1>5. QED
    BY <1>3, <1>4 DEF MInv

LEMMA MSetState ==
    ASSUME MInv, NEW j, NEW from, NEW to \in JobState, SetState(j, from, to)
    PROVE  MInv'
  <1>1. PICK a, b : a = jobs[j].session /\ b = jobs[j].state /\ jobs[j] = [session |-> a, state |-> b]
    BY DEF SetState, MInv, Shaped
  <1>2. [[session |-> a, state |-> b] EXCEPT !.state = to] = [session |-> a, state |-> to]
    OBVIOUS
  <1>3. /\ DOMAIN jobs' = DOMAIN jobs
        /\ jobs'[j] = [session |-> a, state |-> to]
        /\ \A i \in DOMAIN jobs \ {j} : jobs'[i] = jobs[i]
    BY <1>1, <1>2 DEF SetState
  <1>4. sessions' = sessions /\ groups' = groups
    BY DEF SetState
  <1>5. Shaped'
    BY <1>3 DEF MInv, Shaped
  <1>6. Homes'
    BY <1>1, <1>3, <1>4 DEF MInv, Homes
  <1>7. QED
    BY <1>5, <1>6 DEF MInv

\* What a step may take away from the table.
Kept ==
    \A j \in DOMAIN jobs \ DOMAIN jobs' :
       \/ jobs[j].state \notin Active
       \/ jobs[j].state = "queued" /\ DOMAIN jobs' = DOMAIN jobs \ {j} /\ sessions' = sessions
       \/ DOMAIN jobs' = {} /\ nextID' = 0

LEMMA FilingSpares == Filing => Kept
  <1>1. ASSUME NEW s, DeleteSession(s) PROVE Kept
    BY <1>1 DEF DeleteSession, MayDeleteSession, JobsIn, Drop, Kept
  <1>2. ASSUME NEW s, NEW new, RenameSession(s, new) PROVE Kept
    BY <1>2 DEF RenameSession, Kept
  <1>3. ASSUME NEW s, NEW g, CreateSession(s) \/ MoveSession(s, g) PROVE Kept
    BY <1>3 DEF CreateSession, MoveSession, Kept
  <1>4. ASSUME NEW g, NEW new, CreateGroup(g) \/ DeleteGroup(g) \/ RenameGroup(g, new) PROVE Kept
    BY <1>4 DEF CreateGroup, DeleteGroup, RenameGroup, Kept
  <1>5. QED
    BY <1>1, <1>2, <1>3, <1>4 DEF Filing

LEMMA MQueueing == ASSUME MInv, Queueing PROVE MInv' /\ Kept
  <1>1. ASSUME NEW s, Submit(s) \/ Rerun(s) PROVE MInv' /\ Kept
    <2>1. Add(s)
      BY <1>1 DEF Submit, Rerun
    <2>2. Kept
      BY <2>1 DEF Add, Put, Kept
    <2>3. QED
      BY <2>1, <2>2, MAdd
  <1>2. ASSUME NEW j, SetRunning(j) \/ RequeueForRetry(j) \/ MarkFinished(j) \/ MarkSkipped(j) PROVE MInv' /\ Kept
    <2>1. MInv'
      BY <1>2, MSetState DEF SetRunning, RequeueForRetry, MarkFinished, MarkSkipped, JobState
    <2>2. Kept
      BY <1>2 DEF SetRunning, RequeueForRetry, MarkFinished, MarkSkipped, SetState, Kept
    <2>3. QED
      BY <2>1, <2>2
  <1>3. ASSUME NEW j, Remove(j) PROVE MInv' /\ Kept
    <2>1. DOMAIN jobs' = DOMAIN jobs \ {j} /\ sessions' = sessions /\ groups' = groups
          /\ \A i \in DOMAIN jobs' : jobs'[i] = jobs[i]
      BY <1>3 DEF Remove, Drop
    <2>2. j \in DOMAIN jobs /\ jobs[j].state \in JobState \ {"running"}
      BY <1>3 DEF Remove, MInv, Shaped
    <2>3. MInv'
      BY <2>1 DEF MInv, Homes, Shaped
    <2>4. Kept
      BY <2>1, <2>2 DEF Kept, Active, JobState
    <2>5. QED
      BY <2>3, <2>4
  <1>4. ASSUME NEW S, ClearFinished(S) PROVE MInv' /\ Kept
    <2>1. DOMAIN jobs' = DOMAIN jobs \ OverIn(S) /\ sessions' = sessions /\ groups' = groups
          /\ \A i \in DOMAIN jobs' : jobs'[i] = jobs[i]
      BY <1>4 DEF ClearFinished, Drop
    <2>2. MInv'
      BY <2>1 DEF MInv, Homes, Shaped
    <2>3. Kept
      BY <2>1 DEF Kept, OverIn
    <2>4. QED
      BY <2>2, <2>3
  <1>5. QED
    BY <1>1, <1>2, <1>3, <1>4 DEF Queueing

LEMMA MFiling == ASSUME MInv, Filing PROVE MInv' /\ Kept
  BY MCreateSession, MDeleteSession, MRenameSession, MMoveSession, MGroups, FilingSpares DEF Filing

LEMMA MReset == ASSUME MInv, Reset PROVE MInv' /\ Kept
  BY DEF Reset, MInv, Homes, Shaped, Kept

\* A restart keeps every job, the default group and the default session.
LEMMA MRestart == ASSUME MInv, Restart PROVE MInv' /\ Kept
  <1>1. /\ DOMAIN sessions' = DOMAIN sessions \cup {Default}
        /\ sessions'[Default] = Default
        /\ \A t \in DOMAIN sessions \ {Default} : sessions'[t] = sessions[t]
        /\ groups' = groups \cup {Default}
    BY DEF Restart, Put
  <1>2. /\ DOMAIN jobs' = DOMAIN jobs
        /\ \A j \in DOMAIN jobs : jobs'[j] = IF jobs[j].state = "running" THEN [jobs[j] EXCEPT !.state = "finished"]
                                             ELSE jobs[j]
    BY DEF Restart
  <1>3. \A j \in DOMAIN jobs : \/ jobs'[j] = [session |-> jobs[j].session, state |-> "finished"]
                               \/ jobs'[j] = jobs[j]
    <2> SUFFICES ASSUME NEW j \in DOMAIN jobs
                 PROVE  [jobs[j] EXCEPT !.state = "finished"] = [session |-> jobs[j].session, state |-> "finished"]
      BY <1>2
    <2>1. PICK a, b : a = jobs[j].session /\ b = jobs[j].state /\ jobs[j] = [session |-> a, state |-> b]
      BY DEF MInv, Shaped
    <2>2. [[session |-> a, state |-> b] EXCEPT !.state = "finished"] = [session |-> a, state |-> "finished"]
      OBVIOUS
    <2>3. QED
      BY <2>1, <2>2
  <1>4. Shaped'
    BY <1>2, <1>3 DEF MInv, Shaped, JobState
  <1>5. Homes'
    BY <1>1, <1>2, <1>3 DEF MInv, Homes
  <1>6. Kept
    BY <1>2 DEF Kept
  <1>7. QED
    BY <1>4, <1>5, <1>6 DEF MInv

LEMMA RegistryStep == ASSUME MInv, [RegistryNext]_registry PROVE MInv' /\ (Kept \/ UNCHANGED registry)
  <1>1. CASE UNCHANGED registry
    BY <1>1 DEF registry, MInv, Homes, Shaped
  <1>2. CASE \E j \in Job : RerunRequest(j)
    BY <1>2 DEF RerunRequest, MInv, Homes, Shaped, Kept
  <1>3. QED
    BY <1>1, <1>2, MFiling, MQueueing, MReset, MRestart DEF RegistryNext

LEMMA RegistryBegin == RegistryInit => MInv
  BY DEF RegistryInit, MInv, Homes, Shaped

\* Every job has a session and every session a group, whatever order renames,
\* deletions, moves, reruns, resets and restarts come in (sessions.go).
THEOREM AllFiled == RegistrySpec => []Homes
  <1>1. MInv /\ [RegistryNext]_registry => MInv'
    BY RegistryStep
  <1>2. MInv => Homes
    BY DEF MInv
  <1>3. QED
    BY RegistryBegin, <1>1, <1>2, PTL DEF RegistrySpec

\* A job that is queued or running leaves alone, when it is removed while it
\* waits, or with everything else (DeleteSession, sessions.go:148-155).
THEOREM ActiveStays == RegistrySpec => ActiveKept
  <1>1. MInv /\ [RegistryNext]_registry => MInv'
    BY RegistryStep
  <1>2. MInv /\ [RegistryNext]_registry => [Kept]_registry
    BY RegistryStep
  <1>3. QED
    BY RegistryBegin, <1>1, <1>2, PTL DEF RegistrySpec, ActiveKept, Kept

-----------------------------------------------------------------------------
\* A call that a form asked for, made by a goroutine of the TUI.
LEMMA MRequest == ASSUME MInv, NEW c, Request(c) PROVE MInv' /\ Kept
  <1>1. CASE CreateSession(c.x)
    BY <1>1, MCreateSession DEF CreateSession, Kept
  <1>2. CASE RenameSession(c.x, c.y)
    BY <1>2, MRenameSession DEF RenameSession, Kept
  <1>3. CASE DeleteSession(c.x)
    BY <1>3, MDeleteSession DEF DeleteSession, MayDeleteSession, JobsIn, Drop, Kept
  <1>4. CASE MoveSession(c.x, c.y)
    BY <1>4, MMoveSession DEF MoveSession, Kept
  <1>5. CASE CreateGroup(c.x) \/ RenameGroup(c.x, c.y) \/ DeleteGroup(c.x)
    BY <1>5, MGroups DEF CreateGroup, DeleteGroup, RenameGroup, Kept
  <1>6. QED
    BY <1>1, <1>2, <1>3, <1>4, <1>5 DEF Request

-----------------------------------------------------------------------------
(* The screen: all its other steps leave the registry alone. *)

LEMMA MRowKey == ASSUME NEW t, RowKey(t) PROVE UNCHANGED registry
  BY DEF RowKey, NewKey, GroupKey, SessionKey, OpenKey, Ask, daemon

LEMMA MKeys == ASSUME Keys PROVE UNCHANGED registry
  <1>1. CASE TreeKey \/ PickerKey
    BY <1>1, MRowKey DEF TreeKey, PickerKey
  <1>2. CASE OpenPicker \/ Cancel
    BY <1>2 DEF OpenPicker, Cancel, Ask, daemon
  <1>3. CASE SubmitForm \/ Confirm
    BY <1>3 DEF SubmitForm, Confirm, daemon
  <1>4. CASE LeaveManagement \/ Quit \/ BackToJobs
    BY <1>4 DEF LeaveManagement, Quit, BackToJobs, daemon
  <1>5. QED
    BY <1>1, <1>2, <1>3, <1>4 DEF Keys

LEMMA MPolls == ASSUME StartPoll \/ \E i \in 1..MaxPolls : Polling(i) PROVE UNCHANGED registry
  BY DEF StartPoll, Polling, ReadSessions, ReadJobs, Deliver, daemon

LEMMA MStep == ASSUME MInv, [Next]_vars PROVE MInv' /\ (Kept \/ UNCHANGED registry)
  <1>1. CASE UNCHANGED registry
    BY <1>1 DEF registry, MInv, Homes, Shaped
  <1>2. CASE OtherRu
    BY <1>2, MFiling, MQueueing, MReset DEF OtherRu
  <1>3. CASE OtherRerun
    <2>1. UNCHANGED <<sessions, groups, jobs>>
      BY <1>3 DEF OtherRerun, RerunRequest
    <2>2. QED
      BY <2>1 DEF MInv, Homes, Shaped, Kept
  <1>4. CASE \E e \in edits : CallGranted(e) \/ CallRefused(e)
    <2>1. ASSUME NEW e, CallGranted(e) PROVE MInv' /\ Kept
      BY <2>1, MRequest DEF CallGranted
    <2>2. ASSUME NEW e, CallRefused(e) PROVE UNCHANGED registry
      BY <2>2 DEF CallRefused, daemon
    <2>3. QED
      BY <1>1, <1>4, <2>1, <2>2
  <1>5. CASE RequestJobsView \/ StartPoll \/ (\E i \in 1..MaxPolls : Polling(i)) \/ Keys
    <2>1. UNCHANGED registry
      BY <1>5, MPolls, MKeys DEF RequestJobsView
    <2>2. QED
      BY <1>1, <2>1
  <1>6. CASE UNCHANGED vars
    BY <1>1, <1>6 DEF vars, daemon
  <1>7. QED
    BY <1>2, <1>3, <1>4, <1>5, <1>6 DEF Next

LEMMA MBegin == Init => MInv
  <1> SUFFICES ASSUME Init PROVE MInv
    OBVIOUS
  <1>1. PICK r \in Begin : sessions = r.sessions /\ groups = r.groups /\ jobs = r.jobs
    BY DEF Init
  <1>2. Filed(r)
    BY ManageAssumption
  <1>3. Homes
    BY <1>1, <1>2 DEF Filed, Homes
  <1>4. Shaped
    BY <1>1, <1>2 DEF Filed, Shaped, JobInfo
  <1>5. QED
    BY <1>3, <1>4 DEF MInv

-----------------------------------------------------------------------------
\* Whatever edits a screen makes of a tree that has aged, half of them refused
\* or never made (sessions.go:96 of the TUI), and whatever other processes do
\* meanwhile: every job has its session and every session its group.
THEOREM EditsLeaveAllFiled == Spec => []Homes
  <1>1. MInv /\ [Next]_vars => MInv'
    BY MStep
  <1>2. MInv => Homes
    BY DEF MInv
  <1>3. QED
    BY MBegin, <1>1, <1>2, PTL DEF Spec

\* And none of them takes a queued or running job away with its session
\* (sessions.go:148-155), however old the tree on which it was deleted.
THEOREM EditsSpareActive == Spec => ActiveKept
  <1>1. MInv /\ [Next]_vars => MInv'
    BY MStep
  <1>2. MInv /\ [Next]_vars => [Kept]_registry
    BY MStep
  <1>3. QED
    BY MBegin, <1>1, <1>2, PTL DEF Spec, ActiveKept, Kept

=============================================================================
