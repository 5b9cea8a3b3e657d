----------------------------- MODULE JobsTable ------------------------------
(***************************************************************************)
(* The job table of the management screen (internal/tui: jobs.go,          *)
(* jobs_keys.go, commands.go): rows sorted and filtered out of the last    *)
(* poll, a cursor that follows its job, tags, a visual range, and actions  *)
(* on many jobs, sent one by one over a connection of their own while the  *)
(* daemon's jobs go on changing.                                           *)
(*                                                                         *)
(* All jobs are in one session here; the other groups only matter in that  *)
(* each node of the tree holds all jobs.  Killing a job changes nothing a  *)
(* row shows, the job ends later, as by itself; making it urgent, neither: *)
(* "kill" stands for both.  What is not read until it is set again, is 0.  *)
(*                                                                         *)
(* The daemon may be reset, and its IDs handed out again; it is not ended  *)
(* and started anew.                                                       *)
(***************************************************************************)
EXTENDS Registry, Sequences

SeqExt == INSTANCE SequencesExt

CONSTANTS
    Begin,        \* the states of the jobs that there may be when the TUI starts
    Groups,       \* the groups, which do not change here
    Filters,      \* the sets of jobs that the filters match
    Sorts,        \* the sort orders used
    MaxChanges    \* bound on what happens to jobs besides the actions of the table

ASSUME JobsTableAssumption ==
    /\ \A states \in Begin : \E n \in 0..MaxJobs : states \in [0..(n - 1) -> JobState]
    /\ Default \in Groups /\ Groups \subseteq Group /\ IsFiniteSet(Groups)
    /\ Filters \subseteq SUBSET Job
    /\ Sorts \subseteq {"id", "state"} /\ "id" \in Sorts
    /\ MaxChanges \in Nat

None == -1

VARIABLES
    handed,     \* history: the IDs below had been handed out when there was a reset
    changes,    \* what happened to jobs so far
    poll,       \* the jobs an answer on its way lists, <<>> when there is none
    view,       \* viewSplit or viewJobs
    listed,     \* the jobs of m.nodes: state by ID
    nodes,      \* how many groups are in m.nodes, each with all the jobs
    copies,     \* how often m.jobs.allJobs names each of them
    filter,     \* m.jobs.filter: the jobs it matches
    sortMode,   \* m.jobs.sortMode
    sortRev,    \* m.jobs.sortRev
    cursor,     \* m.jobs.cursor, from 1; 0 in an empty table
    cursorKey,  \* m.jobs.cursorKey, an ID
    visual,     \* m.jobs.visual
    anchor,     \* m.jobs.anchor
    tagged,     \* m.jobs.tagged
    confirm,    \* the IDs of m.jobs.confirm, <<>> without a prompt
    batch       \* one of the actions under way: [op, asked, ids still to send]

table == <<sortMode, sortRev, cursor, cursorKey, visual, anchor, tagged, confirm>>
tui == <<poll, view, listed, nodes, copies, filter, table, batch>>
vars == <<registry, handed, changes, tui>>

Idle == [op |-> "none", asked |-> FALSE, ids |-> <<>>]
NoPoll == [jobs |-> [j \in {} |-> "queued"], nodes |-> 0, there |-> FALSE]

TypeOK ==
    /\ RegistryTypeOK
    /\ handed \in 0..MaxJobs
    /\ changes \in 0..MaxChanges
    /\ view \in {"split", "jobs"}
    /\ DOMAIN listed \subseteq Job /\ DOMAIN poll.jobs \subseteq Job
    /\ nodes \in Nat /\ poll.nodes \in Nat /\ copies \in Nat
    /\ filter \in Filters \cup {Job}
    /\ sortMode \in Sorts /\ sortRev \in BOOLEAN
    /\ cursor \in 0..MaxJobs /\ cursorKey \in Job \cup {None}
    /\ visual \in BOOLEAN /\ anchor \in 0..MaxJobs
    /\ tagged \subseteq Job
    /\ batch.op \in {"none", "kill", "rerun", "remove"}
    /\ batch.asked \in BOOLEAN
    /\ batch # Idle => batch.ids # <<>>

-----------------------------------------------------------------------------
(* Rows. *)

Rank(s) == CASE s = "running" -> 0 [] s = "queued" -> 1 [] OTHER -> 2

Before(l, mode, i, j) ==
    IF mode = "state" /\ Rank(l[i]) # Rank(l[j]) THEN Rank(l[i]) < Rank(l[j]) ELSE i < j

\* The jobs of S in order: each has its place after all that come before it.
Place(S, l, mode, i) == Cardinality({j \in S : Before(l, mode, j, i)})
Sorted(S, l, mode) ==
    [k \in 1..Cardinality(S) |-> CHOOSE i \in S : Place(S, l, mode, i) = k - 1]

\* buildMgmtRows: the IDs in the order of the table.
RowsOf(l, f, mode, rev) ==
    LET rows == Sorted(DOMAIN l \cap f, l, mode) IN
    IF rev THEN SeqExt!Reverse(rows) ELSE rows

Rows == RowsOf(listed, filter, sortMode, sortRev)

Clamp(i, rows) ==
    IF i > Len(rows) THEN Len(rows) ELSE IF i < 1 /\ rows # <<>> THEN 1 ELSE i

\* Mutant: the cursor keeps its place, not its job.
AnchorAtIndex(rows, key, prev) ==
    LET i == Clamp(prev, rows) IN
    [cursor |-> i, key |-> IF i = 0 THEN None ELSE rows[i]]

\* anchorMgmtCursor: the row with the key, or the one in its place.
Anchor(rows, key, prev) ==
    IF SeqExt!Contains(rows, key)
    THEN [cursor |-> CHOOSE i \in DOMAIN rows : rows[i] = key, key |-> key]
    ELSE LET i == Clamp(prev, rows) IN
         [cursor |-> i, key |-> IF i = 0 THEN None ELSE rows[i]]

\* Mutant: tags outlive their jobs.
AllTags(tags, l) == tags

LiveTags(tags, l) == tags \cap DOMAIN l

\* refreshJobsRows, after whatever the rows are made of has changed.  (The two
\* \E name a value that TLC is to compute once.)
Refresh(key, prev, tags, from) ==
    \E rows \in {RowsOf(listed', filter', sortMode', sortRev')} :
    \E at \in {Anchor(rows, key, prev)} :
       /\ cursor' = at.cursor /\ cursorKey' = at.key
       /\ anchor' = IF visual' THEN Clamp(from, rows) ELSE 0
       /\ tagged' = LiveTags(tags, listed')

Init ==
    /\ sessions = [s \in {Default} |-> Default] /\ groups = Groups
    /\ \E states \in Begin :
          /\ jobs = [j \in DOMAIN states |-> [session |-> Default, state |-> states[j]]]
          /\ nextID = Cardinality(DOMAIN states)
    /\ reruns = {}
    /\ handed = 0 /\ changes = 0
    /\ poll = NoPoll
    /\ view = "jobs"
    /\ listed = [j \in {} |-> "queued"] /\ nodes = 0 /\ copies = 0
    /\ filter = Job /\ sortMode = "id" /\ sortRev = FALSE
    /\ cursor = 0 /\ cursorKey = None
    /\ visual = FALSE /\ anchor = 0 /\ tagged = {}
    /\ confirm = <<>>
    /\ batch = Idle

-----------------------------------------------------------------------------
(* The daemon: jobs come, run, end and go, some by D, C and :clear, which send
   one request that does not look at the table, and some by actions of the
   table that overlap with the one that `batch' is. *)

ResetIDs ==
    /\ Reset
    /\ handed' = IF nextID > handed THEN nextID ELSE handed

\* An executor that a reset left over tells the table of jobs by its own job's
\* ID (Executor has it step by step).
Leftover(j) ==
    /\ j < handed
    /\ \E from \in JobState, to \in {"running", "queued", "finished"} : SetState(j, from, to)

Elsewhere ==
    /\ changes < MaxChanges /\ changes' = changes + 1
    /\ \/ ResetIDs
       \/ /\ \/ Submit(Default)
             \/ \E j \in Job :
                   \/ SetRunning(j) \/ RequeueForRetry(j) \/ MarkFinished(j) \/ MarkSkipped(j)
                   \/ Remove(j) \/ Leftover(j)
             \/ ClearFinished({Default})
          /\ UNCHANGED handed
    /\ UNCHANGED tui

-----------------------------------------------------------------------------
(* Polls; Manage has how they overlap. *)

Poll ==
    /\ ~poll.there
    /\ poll' = [jobs |-> [j \in DOMAIN jobs |-> jobs[j].state],
                nodes |-> Cardinality(groups), there |-> TRUE]
    /\ UNCHANGED <<registry, handed, changes, view, listed, nodes, copies, filter, table, batch>>

\* treeDataMsg: the nodes change in any view, the table only in its own.
Deliver ==
    /\ poll.there /\ poll' = NoPoll
    /\ listed' = poll.jobs /\ nodes' = poll.nodes
    /\ UNCHANGED <<view, filter, sortMode, sortRev, visual, confirm>>
    /\ IF view = "jobs"
       THEN copies' = 1 /\ Refresh(cursorKey, cursor, tagged, anchor)
       ELSE UNCHANGED <<copies, cursor, cursorKey, tagged, anchor>>
    /\ UNCHANGED <<registry, handed, changes, batch>>

\* openJobsView takes the jobs of every node.
OpenJobsView ==
    /\ view = "split" /\ view' = "jobs"
    /\ copies' = nodes
    /\ sortMode' = "id" /\ sortRev' = FALSE
    /\ visual' = FALSE /\ confirm' = <<>>
    /\ UNCHANGED <<registry, handed, changes, poll, listed, nodes, filter, batch>>
    /\ Refresh(None, 0, {}, 0)

-----------------------------------------------------------------------------
(* Keys of the table, which a prompt takes away. *)

InTable == view = "jobs" /\ confirm = <<>>

\* j, k, g, G, ctrl-d and ctrl-u; the mouse works under a prompt, too.
Goto ==
    /\ view = "jobs"
    /\ \E i \in DOMAIN Rows : cursor' = i /\ cursorKey' = Rows[i]
    /\ UNCHANGED <<registry, handed, changes, poll, view, listed, nodes, copies, filter, sortMode, sortRev,
                   visual, anchor, tagged, confirm, batch>>

Space ==
    /\ InTable /\ Rows # <<>>
    /\ tagged' = IF Rows[cursor] \in tagged THEN tagged \ {Rows[cursor]}
                 ELSE tagged \cup {Rows[cursor]}
    /\ cursor' = Clamp(cursor + 1, Rows) /\ cursorKey' = Rows[cursor']
    /\ UNCHANGED <<registry, handed, changes, poll, view, listed, nodes, copies, filter, sortMode, sortRev,
                   visual, anchor, confirm, batch>>

Visual ==
    /\ InTable
    /\ \/ visual /\ visual' = FALSE /\ anchor' = 0
       \/ ~visual /\ Rows # <<>> /\ visual' = TRUE /\ anchor' = cursor
    /\ UNCHANGED <<registry, handed, changes, poll, view, listed, nodes, copies, filter, sortMode, sortRev,
                   cursor, cursorKey, tagged, confirm, batch>>

Escape ==
    /\ InTable
    /\ visual' = FALSE /\ anchor' = 0
    /\ tagged' = IF visual THEN tagged ELSE {}
    /\ UNCHANGED <<registry, handed, changes, poll, listed, nodes, filter, confirm, batch>>
    /\ IF visual \/ tagged # {}
       THEN UNCHANGED <<view, copies, sortMode, sortRev, cursor, cursorKey>>
       ELSE /\ view' = "split"
            /\ copies' = 0 /\ sortMode' = "id" /\ sortRev' = FALSE
            /\ cursor' = 0 /\ cursorKey' = None

\* s and R; / filters with every key that is typed.
Arrange ==
    /\ InTable
    /\ \/ /\ \E mode \in Sorts :
                IF mode = sortMode THEN sortMode' = mode /\ sortRev' = ~sortRev
                ELSE sortMode' = mode /\ sortRev' = FALSE
          /\ UNCHANGED filter
       \/ filter' \in (Filters \cup {Job}) \ {filter} /\ UNCHANGED <<sortMode, sortRev>>
    /\ UNCHANGED <<registry, handed, changes, poll, view, listed, nodes, copies, visual, confirm, batch>>
    /\ Refresh(cursorKey, cursor, tagged, anchor)

-----------------------------------------------------------------------------
(* Actions on the selection. *)

\* visualRange
Between(rows, a, b) == IF a <= b THEN SubSeq(rows, a, b) ELSE SubSeq(rows, b, a)

\* Those of allJobs in J, in the order of the IDs, each as often as it is in there.
AllJobsIn(J) == Sorted(DOMAIN listed \cap J, listed, "id")
Repeated(s, n) == [i \in 1..(n * Len(s)) |-> s[((i - 1) % Len(s)) + 1]]

\* Mutant: tags are looked up in the visible rows.
VisibleSelection ==
    IF tagged # {} THEN RowsOf(listed, filter \cap tagged, sortMode, sortRev)
    ELSE IF Rows = <<>> THEN <<>>
    ELSE IF visual THEN Between(Rows, anchor, cursor) ELSE <<Rows[cursor]>>

\* jobsActionIDs: the tags wherever they are, or the visual range, or the cursor.
Selection ==
    IF tagged # {} THEN Repeated(AllJobsIn(tagged), copies)
    ELSE IF Rows = <<>> THEN <<>>
    ELSE IF visual THEN Between(Rows, anchor, cursor) ELSE <<Rows[cursor]>>

\* Mutant: one finished job is enough to do without the prompt.
SomeFinished(ids) == \E i \in DOMAIN ids : listed[ids[i]] = "finished"

\* actionAllFinished
Finished(ids) == \A i \in DOMAIN ids : listed[ids[i]] = "finished"

\* Each action has a goroutine and a connection of its own, so several may be
\* under way.  `batch' is any one of them; what the others do to the jobs is
\* part of Elsewhere.
Send(op, asked, ids) ==
    batch' = batch \/ (batch = Idle /\ batch' = [op |-> op, asked |-> asked, ids |-> ids])

Deselect == visual' = FALSE /\ anchor' = 0 /\ tagged' = {}

\* x, u and r, and :kill.
Act ==
    /\ InTable /\ Selection # <<>>
    /\ \E op \in {"kill", "rerun"} : Send(op, TRUE, Selection)
    /\ Deselect
    /\ UNCHANGED <<registry, handed, changes, poll, view, listed, nodes, copies, filter, sortMode, sortRev,
                   cursor, cursorKey, confirm>>

\* d: what has finished goes without a prompt.
Delete ==
    /\ InTable /\ Selection # <<>>
    /\ IF Finished(Selection) THEN Send("remove", FALSE, Selection) /\ UNCHANGED confirm
       ELSE confirm' = Selection /\ UNCHANGED batch
    /\ Deselect
    /\ UNCHANGED <<registry, handed, changes, poll, view, listed, nodes, copies, filter, sortMode, sortRev,
                   cursor, cursorKey>>

\* y, or any other key.
Answer ==
    /\ view = "jobs" /\ confirm # <<>> /\ confirm' = <<>>
    /\ Send("remove", TRUE, confirm) \/ UNCHANGED batch
    /\ UNCHANGED <<registry, handed, changes, poll, view, listed, nodes, copies, filter, sortMode, sortRev,
                   cursor, cursorKey, visual, anchor, tagged>>

RestOf(b) == IF Len(b.ids) = 1 THEN Idle ELSE [b EXCEPT !.ids = Tail(@)]

\* batchByID: the answer to one ID, a refusal too, is waited for before the next.
BatchStep ==
    /\ batch # Idle
    /\ LET j == Head(batch.ids) IN
       CASE batch.op = "remove" /\ j \in DOMAIN jobs -> IF jobs[j].state # "running" THEN Remove(j) ELSE UNCHANGED registry
         [] batch.op = "rerun" /\ j \in DOMAIN jobs -> nextID < MaxJobs /\ Add(jobs[j].session) /\ UNCHANGED reruns
         [] OTHER -> UNCHANGED registry
    /\ batch' = RestOf(batch)
    /\ UNCHANGED <<handed, changes, poll, view, listed, nodes, copies, filter, table>>

\* The connection is lost, and the rest of the batch with it.
BatchFails ==
    /\ batch # Idle /\ batch' = Idle
    /\ UNCHANGED <<registry, handed, changes, poll, view, listed, nodes, copies, filter, table>>

-----------------------------------------------------------------------------
Next ==
    \/ Elsewhere \/ Poll \/ Deliver \/ OpenJobsView
    \/ Goto \/ Space \/ Visual \/ Escape \/ Arrange
    \/ Act \/ Delete \/ Answer \/ BatchStep \/ BatchFails

Spec == Init /\ [][Next]_vars

-----------------------------------------------------------------------------
(* Properties. *)

(* "so everything still tagged exists" (jobs_keys.go:426-427): a tag names a
   job of the list, though jobs go while they are tagged, behind a filter too,
   and the cursor is on the row whose job it remembers. *)
SelectionSound ==
    view = "jobs" =>
        /\ tagged \subseteq DOMAIN listed
        /\ Rows # <<>> => cursor \in DOMAIN Rows /\ Rows[cursor] = cursorKey

(* The cursor survives refreshes: whatever jobs come, go and change places, it
   leaves its job only for a key or because the row is gone (jobs.go:261-263). *)
CursorFollows ==
    [][listed' # listed /\ view = "jobs" /\ SeqExt!Contains(RowsOf(listed', filter', sortMode', sortRev'), cursorKey)
         => cursorKey' = cursorKey]_vars

Names(ids) == {ids[i] : i \in DOMAIN ids}

(* With tags, an action takes the tagged jobs and no other, visible or not:
   "a tag that scrolled out of view behind a filter is still part of the
   selection" (jobs_keys.go:423-425).  If it asks first, it asks about those,
   and a yes sends what was asked about, whatever the polls brought since. *)
TagsDecide ==
    [][LET sent == batch = Idle /\ batch' # Idle IN
       /\ sent /\ confirm = <<>> /\ tagged # {} => Names(batch'.ids) = tagged
       /\ confirm = <<>> /\ confirm' # <<>> /\ tagged # {} => Names(confirm') = tagged
       /\ sent /\ confirm # <<>>
            => batch' = [op |-> "remove", asked |-> TRUE, ids |-> confirm]]_vars

(* What is removed without a prompt is still finished when the daemon is
   asked, however old the list was, if its ID had not been handed out before a
   reset: nobody loses a job that could still run. *)
UnaskedIsOver ==
    batch.op = "remove" /\ ~batch.asked =>
        \A i \in DOMAIN batch.ids :
            batch.ids[i] >= handed /\ batch.ids[i] \in DOMAIN jobs
                => jobs[batch.ids[i]].state = "finished"

-----------------------------------------------------------------------------
(* "Kill / make urgent / rerun the selected job(s) -- the Space-selected set"
   (src/README.md:226): every job of the selection once.  Not so before the
   first poll on re-entry, when the table is filled from the tree. *)
ActsOnce == \A i, j \in DOMAIN batch.ids : batch.ids[i] = batch.ids[j] => i = j

(* "reports whether every job in the current action set is finished -- i.e.
   safe to remove without a confirmation prompt" (jobs_keys.go:463-464).  Not
   so when the list is from before a reset and its IDs name other jobs now
   (jobs.go:544-556). *)
StaleListSpares ==
    batch.op = "remove" /\ ~batch.asked =>
        \A j \in Names(batch.ids) \cap DOMAIN jobs : jobs[j].state = "finished"

=============================================================================
