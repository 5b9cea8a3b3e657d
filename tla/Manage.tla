------------------------------- MODULE Manage -------------------------------
(***************************************************************************)
(* The management screen of the TUI as an editor of the registry           *)
(* (internal/tui: tui.go, forms.go, picker.go, sessions.go):               *)
(* the tree it shows comes from polls that overlap and that read the       *)
(* daemon's tables one lock at a time, its keys act on that tree, and its  *)
(* edits are calls made one after the other by goroutines of their own,    *)
(* while other `ru' processes change the same tables.                      *)
(*                                                                         *)
(* Cursors are left out: a key acts on some row of the tree.  The job      *)
(* table beside the tree is JobsTable.                                     *)
(***************************************************************************)
EXTENDS Registry, Sequences

SeqExt == INSTANCE SequencesExt

CONSTANTS
    Begin,        \* registries a TUI may find when it starts
    MaxPolls,     \* bound on the polls under way together
    MaxChanges,   \* bound on the requests the daemon grants
    MaxEdits,     \* bound on the edits under way together
    Asks,         \* bound: whether `ru --jobs' is ever typed
    Typed,        \* names of sessions typed into forms
    TypedGroups   \* and of groups

Filed(r) ==
    /\ Default \in r.groups /\ Default \in DOMAIN r.sessions
    /\ \A s \in DOMAIN r.sessions : s \in Session /\ r.sessions[s] \in r.groups
    /\ r.groups \subseteq Group
    /\ DOMAIN r.jobs \subseteq Job
    /\ \A j \in DOMAIN r.jobs : r.jobs[j] \in JobInfo /\ r.jobs[j].session \in DOMAIN r.sessions

ASSUME ManageAssumption ==
    /\ MaxPolls \in Nat /\ MaxChanges \in Nat /\ MaxEdits \in Nat
    /\ Asks \in BOOLEAN
    /\ Typed \subseteq Session /\ TypedGroups \subseteq Group
    /\ \A r \in Begin : Filed(r)

Nobody == -1

VARIABLES
    changes,       \* requests granted so far
    asked,         \* s.pendingJobsView: `ru --jobs' in a pane wants the job view
    polls,         \* the polls under way, the oldest first
    edits,         \* edits under way: the calls each has still to make
    view,          \* viewSplit, viewJobs, or the program has quit
    open,          \* m.activeSession is not empty
    tree,          \* m.groups and m.nodes, from the last poll delivered
    pendingOpen,   \* m.pendingOpen
    modal          \* the form, picker or question that has the keys

daemon == <<registry, changes, asked>>
tui == <<view, open, tree, pendingOpen, modal>>
vars == <<daemon, polls, edits, tui>>

-----------------------------------------------------------------------------
NoModal == [kind |-> "none"]

\* A session whose group is not in the list is in no node of the tree.
Shown(t) == {s \in DOMAIN t.sessions : t.sessions[s] \in t.groups}

TypeOK ==
    /\ RegistryTypeOK
    /\ changes \in 0..MaxChanges
    /\ asked \in BOOLEAN
    /\ Len(polls) <= MaxPolls
    /\ \A i \in DOMAIN polls : polls[i].stage \in {"groups", "sessions", "done"}
    /\ Cardinality(edits) <= MaxEdits
    /\ \A e \in edits : e # <<>>
    /\ view \in {"split", "jobs", "quit"}
    /\ open \in BOOLEAN
    /\ tree.groups \subseteq Group
    /\ DOMAIN tree.sessions \subseteq Session
    /\ DOMAIN tree.jobs \subseteq Job
    /\ pendingOpen \in Session \cup {Nobody}
    /\ modal.kind \in {"none", "form", "confirm", "picker"}

Init ==
    /\ \E r \in Begin : sessions = r.sessions /\ groups = r.groups /\ jobs = r.jobs
    /\ nextID = Cardinality(DOMAIN jobs) /\ reruns = {}
    /\ changes = 0 /\ asked = FALSE
    /\ polls = <<>>
    /\ edits = {}
    /\ view = "jobs" /\ open = FALSE
    /\ tree = [groups |-> {}, sessions |-> [s \in {} |-> 0], jobs |-> [j \in {} |-> 0]]
    /\ pendingOpen = Nobody
    /\ modal = NoModal

-----------------------------------------------------------------------------
(* Other processes, and the jobs themselves. *)

OtherRu ==
    /\ changes < MaxChanges
    /\ changes' = changes + 1
    /\ Filing \/ Queueing \/ Reset
    /\ UNCHANGED <<asked, polls, edits, tui>>

\* A rerun reads the job and changes nothing yet.
OtherRerun ==
    /\ \E j \in Job : RerunRequest(j)
    /\ UNCHANGED <<changes, asked, polls, edits, tui>>

RequestJobsView ==
    /\ Asks
    /\ view = "split"
    /\ asked' = TRUE
    /\ UNCHANGED <<registry, changes, polls, edits, tui>>

-----------------------------------------------------------------------------
(* A poll: the ticks and finished edits start them, whatever is under way;
   answers may overtake each other.  handleTreeList takes the flag, then each table under a lock of its own. *)

\* Mutant: the flag is cleared before it is read.
StartPollLate ==
    /\ view # "quit"
    /\ Len(polls) < MaxPolls
    /\ polls' = Append(polls, [stage |-> "groups", open |-> FALSE, groups |-> groups])
    /\ asked' = FALSE
    /\ UNCHANGED <<registry, changes, edits, tui>>

StartPoll ==
    /\ view # "quit"
    /\ Len(polls) < MaxPolls
    /\ polls' = Append(polls, [stage |-> "groups", open |-> asked, groups |-> groups])
    /\ asked' = FALSE
    /\ UNCHANGED <<registry, changes, edits, tui>>

ReadSessions(i) ==
    /\ polls[i].stage = "groups"
    /\ polls' = [polls EXCEPT ![i] =
                   [stage |-> "sessions", open |-> @.open, groups |-> @.groups, sessions |-> sessions]]
    /\ UNCHANGED <<daemon, edits, tui>>

ReadJobs(i) ==
    /\ polls[i].stage = "sessions"
    /\ polls' = [polls EXCEPT ![i] =
                   [stage |-> "done", open |-> @.open, groups |-> @.groups,
                    sessions |-> @.sessions, jobs |-> jobs]]
    /\ UNCHANGED <<daemon, edits, tui>>

\* openSession; a session none of whose shells starts leaves m.activeSession.
\* No modal survives openJobsView, so it may as well go now.
OpenSession ==
    /\ view' = "split"
    /\ open' \in {TRUE, open}
    /\ modal' = NoModal

OpenJobsView == view' = "jobs" /\ UNCHANGED <<open, modal>>

\* Mutant: only the job view looks at the answer.
DeliverToJobs(i) ==
    /\ polls[i].stage = "done"
    /\ polls' = SeqExt!RemoveAt(polls, i)
    /\ tree' = IF view = "jobs"
               THEN [groups |-> polls[i].groups, sessions |-> polls[i].sessions, jobs |-> polls[i].jobs]
               ELSE tree
    /\ IF pendingOpen \in Shown(tree')
       THEN OpenSession /\ pendingOpen' = Nobody
       ELSE /\ UNCHANGED pendingOpen
            /\ IF polls[i].open /\ view = "split" THEN OpenJobsView
               ELSE UNCHANGED <<view, open, modal>>
    /\ UNCHANGED <<daemon, edits>>

\* The answer reaches Update.  A session the user has just made is opened,
\* even out of a form, and then nobody looks at the flag.
Deliver(i) ==
    /\ polls[i].stage = "done"
    /\ polls' = SeqExt!RemoveAt(polls, i)
    /\ tree' = [groups |-> polls[i].groups, sessions |-> polls[i].sessions, jobs |-> polls[i].jobs]
    /\ IF pendingOpen \in Shown(tree')
       THEN OpenSession /\ pendingOpen' = Nobody
       ELSE /\ UNCHANGED pendingOpen
            /\ IF polls[i].open /\ view = "split" THEN OpenJobsView
               ELSE UNCHANGED <<view, open, modal>>
    /\ UNCHANGED <<daemon, edits>>

-----------------------------------------------------------------------------
(* Edits: the calls a form asks for, one after the other on a goroutine.  A
   refused call ends the edit, except that a group may already be there. *)

Call(op, x, y) == [op |-> op, x |-> x, y |-> y]

Granted(c) ==
    CASE c.op = "SessionCreate" -> MayCreateSession(c.x)
      [] c.op = "SessionRename" -> MayRenameSession(c.x, c.y)
      [] c.op = "SessionDelete" -> MayDeleteSession(c.x)
      [] c.op = "SessionMove" -> MayMoveSession(c.x, c.y)
      [] c.op = "GroupCreate" -> MayCreateGroup(c.x)
      [] c.op = "GroupRename" -> MayRenameGroup(c.x, c.y)
      [] c.op = "GroupDelete" -> MayDeleteGroup(c.x)

Request(c) ==
    \/ c.op = "SessionCreate" /\ CreateSession(c.x)
    \/ c.op = "SessionRename" /\ RenameSession(c.x, c.y)
    \/ c.op = "SessionDelete" /\ DeleteSession(c.x)
    \/ c.op = "SessionMove" /\ MoveSession(c.x, c.y)
    \/ c.op = "GroupCreate" /\ CreateGroup(c.x)
    \/ c.op = "GroupRename" /\ RenameGroup(c.x, c.y)
    \/ c.op = "GroupDelete" /\ DeleteGroup(c.x)

\* The edit e with its first call made; an edit without calls is over.
Proceed(e, rest) == edits' = (edits \ {e}) \cup (IF rest = <<>> THEN {} ELSE {rest})

CallGranted(e) ==
    /\ changes < MaxChanges
    /\ Request(Head(e))
    /\ changes' = changes + 1
    /\ Proceed(e, Tail(e))
    /\ UNCHANGED <<asked, polls, tui>>

CallRefused(e) ==
    /\ ~Granted(Head(e))
    /\ Proceed(e, IF Head(e).op = "GroupCreate" THEN Tail(e) ELSE <<>>)
    /\ UNCHANGED <<daemon, polls, tui>>

\* An edit that starts under the bound may still run into it: then its last
\* calls stay unanswered.
StartEdit(calls) ==
    /\ Cardinality(edits) < MaxEdits /\ changes < MaxChanges
    /\ calls # <<>>
    /\ edits' = edits \cup {calls}

\* createSessionInGroup
Creating(s, g) ==
    <<Call("SessionCreate", s, s)>> \o
        (IF g = Default THEN <<>> ELSE <<Call("GroupCreate", g, g), Call("SessionMove", s, g)>>)

\* editSession: the rename lands before the move uses the new name.
Editing(old, new, oldGroup, newGroup) ==
    (IF new = old THEN <<>> ELSE <<Call("SessionRename", old, new)>>) \o
    (IF newGroup = oldGroup \/ newGroup = Default THEN <<>> ELSE <<Call("GroupCreate", newGroup, newGroup)>>) \o
    (IF newGroup = oldGroup THEN <<>> ELSE <<Call("SessionMove", new, newGroup)>>)

-----------------------------------------------------------------------------
(* Keys.  The modal has them first. *)

InJobs == view = "jobs" /\ modal = NoModal

NewForm == [kind |-> "form", what |-> "new", name |-> Nobody, group |-> Nobody]
SessionForm(s, g) == [kind |-> "form", what |-> "session", name |-> s, group |-> g]
GroupForm(g) == [kind |-> "form", what |-> "group", name |-> g, group |-> g]
Question(what, name) == [kind |-> "confirm", what |-> what, name |-> name]
Picker == [kind |-> "picker", groups |-> tree.groups, sessions |-> tree.sessions]

Ask(m) ==
    /\ modal' = m
    /\ UNCHANGED <<daemon, polls, edits, view, open, tree, pendingOpen>>

\* n, e, d and enter on a row of the tree t, in the sidebar or in the picker.
NewKey(t) == Ask(NewForm)
GroupKey(t) == \E g \in t.groups : Ask(GroupForm(g)) \/ Ask(Question("group", g))
SessionKey(t) ==
    \E s \in Shown(t) : Ask(SessionForm(s, t.sessions[s])) \/ Ask(Question("session", s))
OpenKey(t) ==
    /\ Shown(t) # {}
    /\ OpenSession
    /\ UNCHANGED <<daemon, polls, edits, tree, pendingOpen>>

RowKey(t) == NewKey(t) \/ GroupKey(t) \/ SessionKey(t) \/ OpenKey(t)

TreeKey == InJobs /\ RowKey(tree)

OpenPicker == InJobs /\ Ask(Picker)

\* The picker shows the tree of the moment it was opened.
PickerKey == view = "jobs" /\ modal.kind = "picker" /\ RowKey(modal)

\* A form submits what it was opened with and what was typed.
SubmitForm ==
    /\ view = "jobs" /\ modal.kind = "form"
    /\ modal' = NoModal
    /\ \/ /\ modal.what = "new"
          /\ \E s \in Typed, g \in TypedGroups : StartEdit(Creating(s, g)) /\ pendingOpen' = s
       \/ /\ modal.what = "session"
          /\ \E s \in Typed \cup {modal.name}, g \in TypedGroups \cup {modal.group} :
                StartEdit(Editing(modal.name, s, modal.group, g))
          /\ UNCHANGED pendingOpen
       \/ /\ modal.what = "group"
          /\ \E g \in TypedGroups \ {modal.name} : StartEdit(<<Call("GroupRename", modal.name, g)>>)
          /\ UNCHANGED pendingOpen
    /\ UNCHANGED <<daemon, polls, view, open, tree>>

Confirm ==
    /\ view = "jobs" /\ modal.kind = "confirm"
    /\ modal' = NoModal
    /\ StartEdit(<<Call(IF modal.what = "group" THEN "GroupDelete" ELSE "SessionDelete",
                        modal.name, modal.name)>>)
    /\ UNCHANGED <<daemon, polls, view, open, tree, pendingOpen>>

\* esc, or any other key than y to a question.
Cancel == view = "jobs" /\ modal # NoModal /\ Ask(NoModal)

\* esc goes back to the session, if one is open.
LeaveManagement ==
    /\ InJobs /\ open
    /\ view' = "split"
    /\ UNCHANGED <<daemon, polls, edits, open, tree, pendingOpen, modal>>

\* Whatever goroutines are under way end with the program, edits half made.
Quit ==
    /\ InJobs \/ view = "split"
    /\ view' = "quit"
    /\ polls' = <<>> /\ edits' = {} /\ pendingOpen' = Nobody
    /\ UNCHANGED <<daemon, open, tree, modal>>

\* ctrl-b d and the like.
BackToJobs ==
    /\ view = "split"
    /\ OpenJobsView
    /\ UNCHANGED <<daemon, polls, edits, tree, pendingOpen>>

-----------------------------------------------------------------------------
Keys ==
    \/ TreeKey \/ OpenPicker \/ PickerKey \/ SubmitForm \/ Confirm \/ Cancel
    \/ LeaveManagement \/ Quit \/ BackToJobs

Polling(i) == i \in DOMAIN polls /\ (ReadSessions(i) \/ ReadJobs(i) \/ Deliver(i))

Next ==
    \/ OtherRu \/ OtherRerun
    \/ RequestJobsView
    \/ StartPoll
    \/ \E i \in 1..MaxPolls : Polling(i)
    \/ \E e \in edits : CallGranted(e) \/ CallRefused(e)
    \/ Keys

Spec == Init /\ [][Next]_vars

\* Ticks keep coming and every poll they start is answered; no key is ever
\* pressed for certain.
FairSpec == Spec /\ WF_vars(StartPoll) /\ WF_vars(Polling(1))

-----------------------------------------------------------------------------
(* Properties. *)

(* What `ru --jobs' asks of the TUI from inside a pane is done, though the
   request sits in a flag that one of several overlapping polls takes away
   (handlers_session.go:84-87, tui.go:271-274). *)
JobsViewComes == asked /\ pendingOpen = Nobody ~> view # "split"

(* When the registry has stopped changing, the tree becomes what it holds,
   whatever torn or late answers arrive on the way (tui.go:242-259). *)
TreeCatchesUp ==
    <>[](view = "quit" \/ tree = [groups |-> groups, sessions |-> sessions, jobs |-> jobs])

=============================================================================
