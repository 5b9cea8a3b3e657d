------------------------------- MODULE Output -------------------------------
(***************************************************************************)
(* The output of a job and those who read it while it is written: `ru -c'  *)
(* and `ru -t' (client.CatOutput, TailOutput), the pager of the TUI        *)
(* (tui/pager.go), and `ru gc' (client.SweepOrphans), which deletes what   *)
(* it takes for nobody's.  The daemon tells readers a path and a state;    *)
(* the file itself they share with the executor and its process.           *)
(*                                                                         *)
(* One job that stores its output under a generated name.  A file is the   *)
(* number of chunks in it; a file that is created anew under the same      *)
(* path, because the old one was deleted, is another file.                 *)
(***************************************************************************)
EXTENDS Naturals, Sequences

SeqExt == INSTANCE SequencesExt

CONSTANTS
    Retries,     \* attempts after the first
    MaxChunks,   \* bound on the chunks an attempt writes
    MaxPolls,    \* bound on the polls of the TUI under way together
    MaxLoads     \* bound on the pager's loads under way together

ASSUME OutputAssumption == Retries \in Nat /\ MaxChunks \in Nat /\ MaxPolls \in Nat /\ MaxLoads \in Nat

VARIABLES
    state,      \* of the job in the daemon's table
    attempt,    \* job.Info.Attempt
    exec,       \* where the executor is with it
    files,      \* the length of each file there has been under the job's path
    linked,     \* the last of them is in the directory
    past,       \* history: what was under the path when an attempt last ended
    follower,   \* `ru -c' or `ru -t'
    sweep,      \* `ru gc'
    allJobs,    \* what m.jobs.allJobs has of the job
    polls,      \* polls under way: what each has read
    loads,      \* the pager's loads under way
    pager       \* m.jobs.mode and m.jobs.pager

job == <<state, attempt, exec, files, linked, past>>
tui == <<allJobs, polls, loads, pager>>
vars == <<job, follower, sweep, tui>>

Listed == {"queued", "running", "finished", "skipped"}
State == Listed \cup {"none", "gone"}

\* Mutant: a job that was skipped is waited for.
FinishedOnly == {"finished"}

\* The states in which a follower stops.
Over == {"finished", "skipped"}

NoFile == [file |-> 0, len |-> 0]
Text == [file : Nat, len : Nat]

\* A job as the daemon lists it, with what its attempts had left by then.
JobInfo == [state : State, past : Text]
Listing == [state |-> state, past |-> past]

Closed == [mode |-> "table"]

\* What is under the path, if anything is.
Contents == IF linked THEN [file |-> Len(files), len |-> SeqExt!Last(files)] ELSE NoFile

TypeOK ==
    /\ state \in State /\ attempt \in 0..Retries
    /\ exec \in {"idle", "launched", "writing", "closed"}
    /\ Len(files) <= Retries + 1
    /\ linked \in BOOLEAN /\ (linked => files # <<>>)
    /\ past \in Text
    /\ follower.pc \in {"absent", "idle", "look", "ask", "again", "open", "read", "check", "drain",
                        "done", "lost", "no output", "failed"}
    /\ follower.file \in 0..Len(files)
    /\ sweep.saw \in State
    /\ sweep.pc \in {"absent", "idle", "listed", "read", "done"}
    /\ allJobs \in JobInfo
    /\ Len(polls) <= MaxPolls /\ Len(loads) <= MaxLoads
    /\ pager.mode \in {"table", "pager"}

\* Readers take no notice of each other: it is either a TUI or a follower, and
\* the sweep comes with the latter, which may be left with half the output.
Init ==
    /\ state = "none" /\ attempt = 0 /\ exec = "idle"
    /\ files = <<>> /\ linked = FALSE /\ past = NoFile
    /\ \E pc \in {"idle", "absent"} :
          /\ follower = [pc |-> pc, file |-> 0, len |-> 0]
          /\ sweep = [pc |-> pc, saw |-> "none"]
    /\ allJobs = Listing /\ polls = <<>> /\ loads = <<>> /\ pager = Closed

-----------------------------------------------------------------------------
(* The job.  It counts as running before its file is there, and reports its
   end only when nothing more is written. *)

Submit ==
    /\ state = "none" /\ state' = "queued"
    /\ UNCHANGED <<attempt, exec, files, linked, past>>

Skip ==
    /\ state = "queued" /\ state' = "skipped"
    /\ UNCHANGED <<attempt, exec, files, linked, past>>

Start ==
    /\ state = "queued" /\ exec = "idle"
    /\ state' = "running" /\ exec' = "launched"
    /\ UNCHANGED <<attempt, files, linked, past>>

\* os.Create, or O_APPEND for a retry.  Where the file cannot be opened the
\* attempt is over.
OpenFile ==
    /\ exec = "launched"
    /\ \/ exec' = "writing" /\ linked' = TRUE
          /\ files' = IF linked THEN files ELSE Append(files, 0)
       \/ exec' = "closed" /\ UNCHANGED <<files, linked>>
    /\ UNCHANGED <<state, attempt, past>>

Write ==
    /\ exec = "writing"
    /\ files[Len(files)] < MaxChunks * (attempt + 1)
    /\ files' = [files EXCEPT ![Len(files)] = @ + 1]
    /\ UNCHANGED <<state, attempt, exec, linked, past>>

CloseFile ==
    /\ exec = "writing" /\ exec' = "closed"
    /\ UNCHANGED <<state, attempt, files, linked, past>>

Report ==
    /\ exec = "closed" /\ exec' = "idle"
    /\ \/ state' = "finished" /\ UNCHANGED attempt
       \/ attempt < Retries /\ state' = "queued" /\ attempt' = attempt + 1
    /\ past' = Contents
    /\ UNCHANGED <<files, linked>>

\* Removed, cleared or pruned; removeOutputFiles comes after the unlock.
Leave ==
    /\ state \in Listed \ {"running"}
    /\ state' = "gone"
    /\ UNCHANGED <<attempt, exec, files, linked, past>>

RemoveOutputFile ==
    /\ state = "gone" /\ linked
    /\ linked' = FALSE
    /\ UNCHANGED <<state, attempt, exec, files, past>>

Job ==
    /\ \/ Submit \/ Skip \/ Start \/ OpenFile \/ Write \/ CloseFile \/ Report
       \/ Leave \/ RemoveOutputFile
    /\ UNCHANGED <<follower, sweep, tui>>

-----------------------------------------------------------------------------
(* A follower asks for the path once, waits for the file, and then reads to
   its end again and again until the job is over.  A question that is not
   answered ends it; where it reads, it does not say so. *)

Goto(pc) == follower' = [follower EXCEPT !.pc = pc]

AskPath ==
    /\ follower.pc = "idle"
    /\ (state \in Listed /\ Goto("look")) \/ Goto("failed")

\* os.Stat
Look == follower.pc = "look" /\ Goto(IF linked THEN "open" ELSE "ask")

\* Mutant: no second look at a job that is over.
AskStateOnce ==
    /\ follower.pc = "ask"
    /\ Goto(IF state \in Over THEN "no output" ELSE IF state \in Listed THEN "look" ELSE "failed")

AskState ==
    /\ follower.pc = "ask"
    /\ \/ state \in Over /\ Goto("again")
       \/ state \in Listed \ Over /\ Goto("look")
       \/ Goto("failed")

\* The file may have come between the look and the question.
LookAgain == follower.pc = "again" /\ Goto(IF linked THEN "open" ELSE "no output")

OpenToRead ==
    /\ follower.pc = "open"
    /\ follower' = IF linked THEN [pc |-> "read", file |-> Len(files), len |-> 0]
                   ELSE [follower EXCEPT !.pc = "failed"]

\* A read returns at least something, unless the file is at its end.
ReadTo(last) ==
    LET size == files[follower.file]
    IN  IF follower.len = size THEN Goto(last)
        ELSE \E n \in (follower.len + 1)..size : follower' = [follower EXCEPT !.len = n]

Read == follower.pc = "read" /\ ReadTo("check")

\* Mutant: nothing is read once the job is over.
CheckIsLast ==
    /\ follower.pc = "check"
    /\ Goto(IF state \in Over THEN "done" ELSE IF state \in Listed THEN "read" ELSE "lost")

\* The job may be gone, and the call may fail while it is there.
Check ==
    /\ follower.pc = "check"
    /\ \/ state \in Over /\ Goto("drain")
       \/ state \in Listed \ Over /\ Goto("read")
       \/ Goto("lost")

Drain == follower.pc = "drain" /\ ReadTo("done")

FollowerStep ==
    /\ AskPath \/ Look \/ AskState \/ LookAgain \/ OpenToRead \/ Read \/ Check \/ Drain
    /\ UNCHANGED <<job, sweep, tui>>

-----------------------------------------------------------------------------
(* ru gc: the jobs first, then the directory, then file after file. *)

ListJobs ==
    /\ sweep.pc = "idle"
    /\ sweep' = [pc |-> "listed", saw |-> state]
    /\ UNCHANGED <<job, follower, tui>>

\* Mutant: only what is queued or runs is live.
ReadDirActive ==
    /\ sweep.pc = "listed"
    /\ sweep' = [sweep EXCEPT !.pc = IF linked /\ sweep.saw \notin {"queued", "running"} THEN "read" ELSE "done"]
    /\ UNCHANGED <<job, follower, tui>>

ReadDir ==
    /\ sweep.pc = "listed"
    /\ sweep' = [sweep EXCEPT !.pc = IF linked /\ sweep.saw \notin Listed THEN "read" ELSE "done"]
    /\ UNCHANGED <<job, follower, tui>>

RemoveOrphan ==
    /\ sweep.pc = "read"
    /\ sweep' = [sweep EXCEPT !.pc = "done"]
    /\ linked' = FALSE
    /\ UNCHANGED <<state, attempt, exec, files, past, follower, tui>>

\* A sweep that did not know the job may have taken its file.
Sweepable == sweep.pc = "done" /\ sweep.saw \notin Listed

-----------------------------------------------------------------------------
(* The pager.  A load looks the path up and reads the file on a goroutine of
   its own; what it brings carries the job's state as the list had it when
   the load began. *)

Following == pager.mode = "pager" /\ pager.follow /\ pager.info.state = "running"

Load(info) ==
    /\ Len(loads) < MaxLoads
    /\ loads' = Append(loads, [info |-> info, step |-> "path"])

Poll ==
    /\ follower.pc = "absent"
    /\ Len(polls) < MaxPolls
    /\ polls' = Append(polls, Listing)
    /\ UNCHANGED <<job, follower, sweep, allJobs, loads, pager>>

\* Mutant: a reload keeps the state the pager was opened with.
ReloadAsOpened == Load(pager.info)

\* A job that has left the list keeps the state it had.
Reload == Load(IF allJobs'.state \in Listed THEN allJobs' ELSE pager.info)

Deliver(i) ==
    /\ i \in DOMAIN polls
    /\ polls' = SeqExt!RemoveAt(polls, i)
    /\ allJobs' = polls[i]
    /\ IF Following THEN Reload ELSE UNCHANGED loads
    /\ UNCHANGED <<job, follower, sweep, pager>>

\* o, and enter on a row.
OpenPager ==
    /\ pager.mode = "table"
    /\ allJobs.state \in Listed
    /\ Load(allJobs)
    /\ UNCHANGED <<job, follower, sweep, allJobs, polls, pager>>

\* The path comes from the daemon, in a call of its own, and either may fail.
LoadFile(i) ==
    /\ loads[i].step = "path"
    /\ \/ linked /\ loads' = [loads EXCEPT ![i] = [info |-> @.info, step |-> "text", text |-> Contents]]
       \/ loads' = [loads EXCEPT ![i].step = "error"]
    /\ UNCHANGED <<job, follower, sweep, allJobs, polls, pager>>

Shows(l) == IF l.step = "text" THEN l.text ELSE NoFile

\* Mutant: the text is shown under the state the list has by now.
ApplyUnderNewState(l) ==
    LET info == IF allJobs.state \in Listed THEN allJobs ELSE l.info
    IN  pager' = [mode |-> "pager", info |-> info, text |-> Shows(l),
                  follow |-> IF pager.mode = "pager" THEN pager.follow ELSE info.state = "running"]

\* A load that arrives when the pager is closed opens it.
ApplyPagerLoaded(l) ==
    pager' = [mode |-> "pager", info |-> l.info, text |-> Shows(l),
              follow |-> IF pager.mode = "pager" THEN pager.follow ELSE l.info.state = "running"]

LoadArrives(i) ==
    /\ loads[i].step \in {"text", "error"}
    /\ ApplyPagerLoaded(loads[i])
    /\ loads' = SeqExt!RemoveAt(loads, i)
    /\ UNCHANGED <<job, follower, sweep, allJobs, polls>>

\* The badge on top of the text.
SaysFinished == pager.mode = "pager" /\ pager.info.state # "running"

LoadStep(i) == i \in DOMAIN loads /\ (LoadFile(i) \/ LoadArrives(i))

\* q; scrolling and searching; G.
PagerKey ==
    /\ pager.mode = "pager"
    /\ \/ pager' = Closed
       \/ pager' = [pager EXCEPT !.follow = FALSE]
       \/ pager.info.state = "running" /\ pager' = [pager EXCEPT !.follow = TRUE]
    /\ UNCHANGED <<job, follower, sweep, allJobs, polls, loads>>

-----------------------------------------------------------------------------
Next ==
    \/ Job
    \/ FollowerStep
    \/ ListJobs \/ ReadDir \/ RemoveOrphan
    \/ Poll \/ \E i \in 1..MaxPolls : Deliver(i)
    \/ OpenPager \/ PagerKey
    \/ \E i \in 1..MaxLoads : LoadStep(i)

Spec == Init /\ [][Next]_vars

\* A follower runs, ticks keep coming, and polls and loads are answered.
FairSpec ==
    /\ Spec
    /\ WF_vars(FollowerStep)
    /\ WF_vars(Poll) /\ WF_vars(Deliver(1))
    /\ WF_vars(LoadStep(1))

-----------------------------------------------------------------------------
(* Properties. *)

(* A follower that stopped because the job is over has printed its file to
   the end, though it asks for the state and reads the file at different times
   and the job ends in between; and that file is the one every attempt wrote,
   unless a sweep that did not know the job took it away (query.go:321-331,
   tail.go:58-68, executor.go:174-233). *)
FollowSeesAll ==
    follower.pc = "done" =>
        /\ follower.len = files[follower.file]
        /\ follower.file = Len(files) \/ Sweepable

(* "job finished but no output file" is said of no job that has one
   (query.go:291-303). *)
NoFalseAlarm == follower.pc = "no output" => ~linked

(* A file that is gone from under a job that has written it was taken by a
   sweep that had listed the jobs before this one was there (main.go:512-523,
   gc.go:18-36). *)
SweepSpares == files # <<>> /\ state \in Listed => linked \/ Sweepable

(* A pager that says [finished] shows everything that the attempts which were
   over by the listing it goes by had written, and if by that listing the job
   itself was over, everything it wrote, however the loads overtake each other
   and the polls.  It says so of a job that waits for its next attempt, too
   (pager.go:217-245, 274-320). *)
PagerTellsAll ==
    SaysFinished /\ pager.text # NoFile =>
        /\ pager.text.file = pager.info.past.file => pager.text.len >= pager.info.past.len
        /\ pager.info.state \in Over => pager.text.len = files[pager.text.file]

(* A follower of a job that is over, or gone, ends (query.go:289-331). *)
FollowEnds ==
    state \in {"finished", "skipped", "gone"} /\ follower.pc \notin {"absent", "idle"}
        ~> follower.pc \in {"done", "lost", "no output", "failed"}

(* A pager does not go on following a job that has finished, though a late
   load can put the older text, and the older state, back on the screen
   (tui.go:275-281). *)
PagerStops == Following /\ state = "finished" ~> ~Following \/ state = "gone"

-----------------------------------------------------------------------------
(* "[finished]" (pager.go:319) under a text that goes on growing: so it does
   once the next attempt of a job runs that was queued by the listing. *)
FinishedIsFinal ==
    SaysFinished /\ pager.text # NoFile => pager.text.len = files[pager.text.file]

=============================================================================
