----------------------------- MODULE OutputProofs -----------------------------
(***************************************************************************)
(* That readers of an output file miss nothing of a job they say is over,  *)
(* for any number of retries, chunks, polls and loads.                     *)
(*                                                                         *)
(* Nothing is written any more once a job is over, and it stays over: so   *)
(* the invariant says who may rely on that, from the moment he learns it.  *)
(***************************************************************************)
EXTENDS Output, SequenceTheorems, TLAPS

Ended == state \in {"finished", "skipped", "gone"}

LoadRec ==
    [info : JobInfo, step : {"path", "error"}] \cup [info : JobInfo, step : {"text"}, text : Text]
PagerRec == {Closed} \cup [mode : {"pager"}, info : JobInfo, text : Text, follow : BOOLEAN]

JobTypes ==
    /\ state \in State
    /\ exec \in {"idle", "launched", "writing", "closed"}
    /\ files \in Seq(Nat)
    /\ linked \in BOOLEAN
    /\ past \in Text

ReaderTypes ==
    /\ follower \in [pc : {"absent", "idle", "look", "ask", "again", "open", "read", "check", "drain",
                         "done", "lost", "no output", "failed"},
                   file : Nat, len : Nat]
    /\ sweep \in [pc : {"absent", "idle", "listed", "read", "done"}, saw : State]

TuiTypes ==
    /\ allJobs \in JobInfo
    /\ polls \in Seq(JobInfo)
    /\ loads \in Seq(LoadRec)
    /\ pager \in PagerRec

\* Only a running job has an executor, and only an open file is written to.
JobOK ==
    /\ exec # "idle" => state = "running"
    /\ exec = "writing" => files # <<>>
    /\ linked => files # <<>>
    /\ state = "none" => files = <<>>

\* A file that is not in the directory was taken by a sweep, or is nobody's.
SweepOK ==
    /\ sweep.pc = "read" => sweep.saw \notin Listed
    /\ files # <<>> /\ ~linked => Sweepable \/ state = "gone"

HasFile == follower.pc \in {"read", "check", "drain", "done", "lost"}

FollowerOK ==
    /\ HasFile =>
         /\ follower.file \in 1..Len(files)
         /\ follower.len <= files[follower.file]
         /\ follower.file = Len(files) \/ Sweepable
    /\ follower.pc \in {"again", "no output", "drain", "done"} => Ended
    /\ follower.pc = "no output" => ~linked
    /\ follower.pc = "done" => follower.len = files[follower.file]

\* What attempts have left is still there.
Left(p) == p = NoFile \/ (p \in Text /\ p.file \in 1..Len(files) /\ p.len <= files[p.file])

\* Who is told that a job is over is told the truth, and a text that goes with
\* that is all there is; and it has what the attempts had left before.
Told(info) == (info.state \in Over => Ended) /\ Left(info.past)
Whole(info, text) ==
    /\ info.state \in Over => text.file \in 1..Len(files) /\ text.len = files[text.file]
    /\ text.file = info.past.file => text.len >= info.past.len

LoadOK(l) == Told(l.info) /\ (l.step = "text" => Whole(l.info, l.text))
PagerOK(p) == p.mode = "pager" => Told(p.info) /\ (p.text = NoFile \/ Whole(p.info, p.text))

TuiOK ==
    /\ Told(allJobs)
    /\ \A i \in DOMAIN polls : Told(polls[i])
    /\ \A i \in DOMAIN loads : LoadOK(loads[i])
    /\ PagerOK(pager)

IInv == JobTypes /\ ReaderTypes /\ TuiTypes /\ JobOK /\ Left(past) /\ SweepOK /\ FollowerOK /\ TuiOK

-----------------------------------------------------------------------------
(* Sequences. *)

LEMMA RemovedAt ==
    ASSUME NEW S, NEW s \in Seq(S), NEW i \in 1..Len(s)
    PROVE  /\ SeqExt!RemoveAt(s, i) \in Seq(S)
           /\ \A k \in DOMAIN SeqExt!RemoveAt(s, i) :
                 \E m \in DOMAIN s : SeqExt!RemoveAt(s, i)[k] = s[m]
  <1> DEFINE a == SubSeq(s, 1, i - 1)
             b == SubSeq(s, i + 1, Len(s))
             r == a \o b
  <1>0. /\ Len(s) \in Nat /\ i \in Int /\ i - 1 \in Int /\ i + 1 \in Int /\ DOMAIN s = 1..Len(s)
        /\ \A k \in 1..Len(s) : s[k] \in S
    BY ElementOfSeq, LenProperties
  <1>1. SeqExt!RemoveAt(s, i) = r
    BY DEF SeqExt!RemoveAt
  <1>2. a \in Seq(S) /\ Len(a) = i - 1 /\ \A k \in 1..(i - 1) : a[k] = s[k]
    <2>1. \A k \in 1..(i - 1) : s[k] \in S
      BY <1>0
    <2>2. /\ a \in Seq(S) /\ Len(a) = IF 1 <= i - 1 THEN (i - 1) - 1 + 1 ELSE 0
          /\ \A k \in 1..((i - 1) - 1 + 1) : a[k] = s[1 + k - 1]
      BY <2>1, <1>0, SubSeqProperties
    <2>3. QED
      BY <2>2, <1>0
  <1>3. b \in Seq(S) /\ Len(b) = Len(s) - i /\ \A k \in 1..(Len(s) - i) : b[k] = s[i + k]
    <2>1. \A k \in (i + 1)..Len(s) : s[k] \in S
      BY <1>0
    <2>2. /\ b \in Seq(S) /\ Len(b) = IF i + 1 <= Len(s) THEN Len(s) - (i + 1) + 1 ELSE 0
          /\ \A k \in 1..(Len(s) - (i + 1) + 1) : b[k] = s[(i + 1) + k - 1]
      BY <2>1, <1>0, SubSeqProperties
    <2>3. QED
      BY <2>2, <1>0
  <1> HIDE DEF a, b
  <1>4. /\ r \in Seq(S) /\ Len(r) = Len(a) + Len(b)
        /\ \A k \in 1..(Len(a) + Len(b)) : r[k] = IF k <= Len(a) THEN a[k] ELSE b[k - Len(a)]
    BY <1>2, <1>3, ConcatProperties
  <1> HIDE DEF r
  <1>5. /\ \A k \in 1..(Len(s) - 1) : k <= i - 1 => r[k] = a[k]
        /\ \A k \in 1..(Len(s) - 1) : k > i - 1 => r[k] = b[k - (i - 1)]
    <2>1. Len(a) + Len(b) = Len(s) - 1
      BY <1>0, <1>2, <1>3
    <2>2. \A k \in 1..(Len(s) - 1) : r[k] = IF k <= i - 1 THEN a[k] ELSE b[k - (i - 1)]
      BY <1>2, <1>4, <2>1
    <2>3. \A k \in 1..(Len(s) - 1) : k > i - 1 => ~(k <= i - 1)
      BY <1>0
    <2>4. QED
      BY <2>2, <2>3
  <1>6. DOMAIN r = 1..(Len(s) - 1)
    BY <1>0, <1>2, <1>3, <1>4, LenProperties
  <1>7. ASSUME NEW k \in 1..(Len(s) - 1) PROVE \E m \in 1..Len(s) : r[k] = s[m]
    <2>1. CASE k <= i - 1
      <3>1. k \in 1..Len(s) /\ k \in 1..(i - 1)
        BY <1>0, <2>1
      <3>2. r[k] = s[k]
        BY <1>2, <1>5, <2>1, <3>1
      <3>3. QED
        BY <3>1, <3>2
    <2>2. CASE k > i - 1
      <3>1. k - (i - 1) \in 1..(Len(s) - i) /\ i + (k - (i - 1)) \in 1..Len(s)
        BY <1>0, <2>2
      <3>2. r[k] = b[k - (i - 1)]
        BY <1>5, <2>2
      <3>3. r[k] = s[i + (k - (i - 1))]
        BY <1>3, <3>1, <3>2
      <3>4. QED
        BY <3>1, <3>3
    <2>3. QED
      BY <1>0, <2>1, <2>2
  <1>8. QED
    BY <1>0, <1>1, <1>4, <1>6, <1>7

LEMMA Written ==
    ASSUME NEW f \in Seq(Nat), f # <<>>
    PROVE  LET g == [f EXCEPT ![Len(f)] = @ + 1]
           IN  /\ g \in Seq(Nat) /\ Len(g) = Len(f)
               /\ \A k \in 1..Len(f) : f[k] \in Nat /\ g[k] \in Nat /\ f[k] <= g[k]
  <1> DEFINE g == [f EXCEPT ![Len(f)] = @ + 1]
  <1>1. Len(f) \in 1..Len(f) /\ \A k \in 1..Len(f) : f[k] \in Nat
    BY EmptySeq, LenProperties, ElementOfSeq
  <1>2. f[Len(f)] + 1 \in Nat
    BY <1>1
  <1>3. /\ g \in Seq(Nat) /\ Len(g) = Len(f)
        /\ \A k \in 1..Len(f) : g[k] = IF k = Len(f) THEN f[Len(f)] + 1 ELSE f[k]
    <2> DEFINE e == f[Len(f)] + 1
    <2>1. g = [f EXCEPT ![Len(f)] = e]
      OBVIOUS
    <2>2. e \in Nat
      BY <1>2
    <2> HIDE DEF e
    <2>3. /\ [f EXCEPT ![Len(f)] = e] \in Seq(Nat) /\ Len([f EXCEPT ![Len(f)] = e]) = Len(f)
          /\ \A k \in 1..Len(f) : [f EXCEPT ![Len(f)] = e][k] = IF k = Len(f) THEN e ELSE f[k]
      BY <1>1, <2>2, ExceptSeq
    <2>4. QED
      BY <2>1, <2>3 DEF e
  <1> HIDE DEF g
  <1>4. \A k \in 1..Len(f) : f[k] \in Nat /\ g[k] \in Nat /\ f[k] <= g[k]
    BY <1>1, <1>3
  <1>5. QED
    BY <1>3, <1>4 DEF g

-----------------------------------------------------------------------------
(* Types. *)

LEMMA ContentsText == JobTypes /\ JobOK => NoFile \in Text /\ Contents \in Text
  <1> SUFFICES ASSUME JobTypes, JobOK, linked PROVE Len(files) \in Nat /\ files[Len(files)] \in Nat
    BY DEF NoFile, Text, Contents, SeqExt!Last
  <1>1. Len(files) \in 1..Len(files)
    BY EmptySeq DEF JobTypes, JobOK
  <1>2. QED
    BY <1>1, ElementOfSeq DEF JobTypes

LEMMA ListingTyped == JobTypes => Listing \in JobInfo
  BY DEF JobTypes, Listing, JobInfo

LEMMA JobTypesNext == JobTypes /\ JobOK /\ Next => JobTypes'
  <1> SUFFICES ASSUME JobTypes, JobOK, Next PROVE JobTypes'
    OBVIOUS
  <1>1. CASE UNCHANGED job
    BY <1>1 DEF JobTypes, job
  <1>2. CASE RemoveOrphan
    BY <1>2 DEF JobTypes, RemoveOrphan
  <1>3. CASE Submit \/ Skip \/ Start \/ CloseFile \/ Report \/ Leave \/ RemoveOutputFile
    <2>1. past' = past \/ past' = Contents
      BY <1>3 DEF Submit, Skip, Start, CloseFile, Report, Leave, RemoveOutputFile
    <2>2. past' \in Text
      BY <2>1, ContentsText DEF JobTypes
    <2>3. QED
      BY <1>3, <2>2
      DEF JobTypes, Submit, Skip, Start, CloseFile, Report, Leave, RemoveOutputFile, State, Listed
  <1>4. CASE OpenFile
    <2>1. Append(files, 0) \in Seq(Nat)
      BY DEF JobTypes
    <2>2. QED
      BY <1>4, <2>1 DEF JobTypes, OpenFile
  <1>5. CASE Write
    <2>1. files' \in Seq(Nat)
      BY <1>5, Written DEF JobTypes, JobOK, Write
    <2>2. QED
      BY <1>5, <2>1 DEF JobTypes, Write
  <1>6. QED
    BY <1>1, <1>2, <1>3, <1>4, <1>5
    DEF Next, Job, FollowerStep, ListJobs, ReadDir, Poll, Deliver, OpenPager, PagerKey, LoadStep,
        LoadFile, LoadArrives

LEMMA ReaderTypesNext == JobTypes /\ JobOK /\ FollowerOK /\ ReaderTypes /\ Next => ReaderTypes'
  <1> SUFFICES ASSUME JobTypes, JobOK, FollowerOK, ReaderTypes, Next PROVE ReaderTypes'
    OBVIOUS
  <1>1. CASE UNCHANGED <<follower, sweep>>
    BY <1>1 DEF ReaderTypes
  <1>2. CASE (ListJobs \/ ReadDir \/ RemoveOrphan) /\ UNCHANGED follower
    <2>1. CASE ListJobs
      BY <1>2, <2>1 DEF ReaderTypes, ListJobs, JobTypes
    <2>2. CASE ReadDir \/ RemoveOrphan
      <3>1. PICK pc \in {"read", "done"} : sweep' = [sweep EXCEPT !.pc = pc]
        BY <2>2 DEF ReadDir, RemoveOrphan
      <3>2. QED
        BY <1>2, <3>1 DEF ReaderTypes
    <2>3. QED
      BY <1>2, <2>1, <2>2
  <1>3. CASE (AskPath \/ Look \/ AskState \/ LookAgain \/ Check) /\ UNCHANGED sweep
    <2> DEFINE To(pc) == follower' = [follower EXCEPT !.pc = pc]
    <2>1. To("look") \/ To("failed") \/ To("open") \/ To("ask") \/ To("again") \/ To("no output")
          \/ To("drain") \/ To("read") \/ To("lost")
      BY <1>3 DEF AskPath, Look, AskState, LookAgain, Check, Goto
    <2>2. QED
      BY <1>3, <2>1 DEF ReaderTypes
  <1>4. CASE OpenToRead /\ UNCHANGED sweep
    <2>1. Len(files) \in Nat
      BY DEF JobTypes
    <2>2. QED
      BY <1>4, <2>1 DEF ReaderTypes, OpenToRead
  <1>5. CASE (Read \/ Drain) /\ UNCHANGED sweep
    <2>1. files[follower.file] \in Nat /\ follower.len \in Nat
      BY <1>5, ElementOfSeq DEF ReaderTypes, Read, Drain, FollowerOK, HasFile, JobTypes
    <2>2. \/ \E pc \in {"check", "done"} : follower' = [follower EXCEPT !.pc = pc]
          \/ \E n \in (follower.len + 1)..files[follower.file] : follower' = [follower EXCEPT !.len = n]
      BY <1>5 DEF Read, Drain, ReadTo, Goto
    <2>3. (follower.len + 1)..files[follower.file] \subseteq Nat
      BY <2>1
    <2>4. QED
      BY <1>5, <2>2, <2>3 DEF ReaderTypes
  <1>6. QED
    BY <1>1, <1>2, <1>3, <1>4, <1>5
    DEF Next, Job, FollowerStep, ListJobs, ReadDir, RemoveOrphan, Poll, Deliver, OpenPager, PagerKey,
        LoadStep, LoadFile, LoadArrives

\* One load more, one step of a load, one load less.
LEMMA LoadsTyped ==
    ASSUME JobTypes, JobOK, TuiTypes
    PROVE  /\ \A info \in JobInfo : Load(info) => loads' \in Seq(LoadRec)
           /\ \A i \in DOMAIN loads : LoadFile(i) => loads' \in Seq(LoadRec)
  <1>1. ASSUME NEW info \in JobInfo, Load(info) PROVE loads' \in Seq(LoadRec)
    <2>1. [info |-> info, step |-> "path"] \in LoadRec
      BY DEF LoadRec
    <2>2. QED
      BY <1>1, <2>1 DEF Load, TuiTypes
  <1>2. ASSUME NEW i \in DOMAIN loads, LoadFile(i) PROVE loads' \in Seq(LoadRec)
    <2>1. i \in 1..Len(loads) /\ loads[i] \in LoadRec
      BY LenProperties, ElementOfSeq DEF TuiTypes
    <2>2. loads[i].info \in JobInfo
      BY <2>1 DEF LoadRec
    <2>3. [info |-> loads[i].info, step |-> "text", text |-> Contents] \in LoadRec
      BY <2>2, ContentsText DEF LoadRec
    <2>4. [loads[i] EXCEPT !.step = "error"] \in LoadRec
      BY <1>2, <2>1 DEF LoadRec, LoadFile
    <2> DEFINE t == [info |-> loads[i].info, step |-> "text", text |-> Contents]
               e == [loads[i] EXCEPT !.step = "error"]
    <2>5. loads' = [loads EXCEPT ![i] = t] \/ loads' = [loads EXCEPT ![i] = e]
      BY <1>2 DEF LoadFile
    <2>6. t \in LoadRec /\ e \in LoadRec
      BY <2>3, <2>4
    <2> HIDE DEF t, e
    <2>7. QED
      BY <2>1, <2>5, <2>6, ExceptSeq DEF TuiTypes
  <1>3. QED
    BY <1>1, <1>2

LEMMA TuiTypesNext == JobTypes /\ JobOK /\ TuiTypes /\ Next => TuiTypes'
  <1> SUFFICES ASSUME JobTypes, JobOK, TuiTypes, Next PROVE TuiTypes'
    OBVIOUS
  <1>1. CASE UNCHANGED tui
    BY <1>1 DEF TuiTypes, tui
  <1>2. CASE Poll
    <2>1. polls' \in Seq(JobInfo)
      BY <1>2, ListingTyped DEF Poll, TuiTypes
    <2>2. QED
      BY <1>2, <2>1 DEF Poll, TuiTypes
  <1>3. ASSUME NEW i \in 1..MaxPolls, Deliver(i) PROVE TuiTypes'
    <2>1. i \in 1..Len(polls) /\ polls[i] \in JobInfo
      BY <1>3, LenProperties, ElementOfSeq DEF TuiTypes, Deliver
    <2>2. polls' \in Seq(JobInfo)
      BY <1>3, <2>1, RemovedAt DEF TuiTypes, Deliver
    <2>3. (IF allJobs'.state \in Listed THEN allJobs' ELSE pager.info) \in JobInfo \/ ~Following
      BY <1>3, <2>1 DEF TuiTypes, Deliver, Following, PagerRec, Closed
    <2>4. loads' \in Seq(LoadRec)
      BY <1>3, <2>3, LoadsTyped DEF TuiTypes, Deliver, Reload
    <2>5. QED
      BY <1>3, <2>1, <2>2, <2>4 DEF TuiTypes, Deliver
  <1>4. CASE OpenPager
    BY <1>4, LoadsTyped DEF TuiTypes, OpenPager
  <1>5. ASSUME NEW i \in 1..MaxLoads, LoadStep(i) PROVE TuiTypes'
    <2>1. i \in DOMAIN loads /\ i \in 1..Len(loads) /\ loads[i] \in LoadRec
      BY <1>5, LenProperties, ElementOfSeq DEF TuiTypes, LoadStep
    <2>2. CASE LoadFile(i)
      <3>1. loads' \in Seq(LoadRec)
        BY <2>1, <2>2, LoadsTyped
      <3>2. QED
        BY <2>2, <3>1 DEF TuiTypes, LoadFile
    <2>3. CASE LoadArrives(i)
      <3>1. loads' \in Seq(LoadRec)
        BY <2>1, <2>3, RemovedAt DEF TuiTypes, LoadArrives
      <3>2. Shows(loads[i]) \in Text /\ loads[i].info \in JobInfo
        BY <2>1, ContentsText DEF Shows, LoadRec
      <3>3. (IF pager.mode = "pager" THEN pager.follow ELSE loads[i].info.state = "running") \in BOOLEAN
        <4>1. pager.mode = "pager" => pager.follow \in BOOLEAN
          BY DEF TuiTypes, PagerRec, Closed
        <4>2. QED
          BY <4>1, Zenon
      <3>4. pager' \in PagerRec
        <4> DEFINE f == IF pager.mode = "pager" THEN pager.follow ELSE loads[i].info.state = "running"
        <4>1. pager' = [mode |-> "pager", info |-> loads[i].info, text |-> Shows(loads[i]), follow |-> f]
          BY <2>3 DEF LoadArrives, ApplyPagerLoaded
        <4>2. f \in BOOLEAN
          BY <3>3
        <4> HIDE DEF f
        <4>3. QED
          BY <3>2, <4>1, <4>2 DEF PagerRec
      <3>5. QED
        BY <2>3, <3>1, <3>4 DEF TuiTypes, LoadArrives
    <2>4. QED
      BY <1>5, <2>2, <2>3 DEF LoadStep
  <1>6. CASE PagerKey
    <2>1. pager' \in PagerRec
      BY <1>6 DEF PagerKey, TuiTypes, PagerRec, Closed
    <2>2. QED
      BY <1>6, <2>1 DEF PagerKey, TuiTypes
  <1>7. QED
    BY <1>1, <1>2, <1>3, <1>4, <1>5, <1>6
    DEF Next, Job, FollowerStep, ListJobs, ReadDir, RemoveOrphan, tui

-----------------------------------------------------------------------------
(* What does not change any more. *)

\* Files get longer and more, until the job has ended.
LEMMA FilesGrow ==
    ASSUME JobTypes, JobOK, Next
    PROVE  /\ Len(files) <= Len(files')
           /\ \A k \in 1..Len(files) : files[k] <= files'[k]
           /\ Ended => Ended' /\ files' = files /\ (linked' => linked)
           /\ Len(files') # Len(files) => ~linked
  <1>0. Len(files) \in Nat /\ \A k \in 1..Len(files) : files[k] \in Nat
    BY LenProperties, ElementOfSeq DEF JobTypes
  <1>1. CASE UNCHANGED job
    BY <1>0, <1>1 DEF job, Ended
  <1>2. CASE Submit \/ Skip \/ Start \/ CloseFile \/ Report \/ Leave \/ RemoveOutputFile \/ RemoveOrphan
    <2>1. files' = files /\ (linked' => linked)
      BY <1>2 DEF Submit, Skip, Start, CloseFile, Report, Leave, RemoveOutputFile, RemoveOrphan
    <2>2. Ended => Ended'
      BY <1>2 DEF Submit, Skip, Start, CloseFile, Report, Leave, RemoveOutputFile, RemoveOrphan, Ended,
                  JobOK, Listed
    <2>3. QED
      BY <1>0, <2>1, <2>2
  <1>3. CASE OpenFile
    <2>1. ~Ended
      BY <1>3 DEF OpenFile, JobOK, Ended
    <2>2. files' = files \/ (files' = Append(files, 0) /\ ~linked)
      BY <1>3 DEF OpenFile
    <2>3. QED
      BY <1>0, <2>1, <2>2 DEF JobTypes
  <1>4. CASE Write
    <2>1. ~Ended
      BY <1>4 DEF Write, JobOK, Ended
    <2>2. Len(files') = Len(files) /\ \A k \in 1..Len(files) : files[k] <= files'[k]
      BY <1>4, Written DEF Write, JobOK, JobTypes
    <2>3. QED
      BY <1>0, <2>1, <2>2
  <1>5. QED
    BY <1>1, <1>2, <1>3, <1>4
    DEF Next, Job, FollowerStep, ListJobs, ReadDir, Poll, Deliver, OpenPager, PagerKey, LoadStep,
        LoadFile, LoadArrives

LEMMA SweepableStays == Sweepable /\ Next => Sweepable'
  BY DEF Next, Job, FollowerStep, ListJobs, ReadDir, RemoveOrphan, Poll, Deliver, OpenPager, PagerKey,
         LoadStep, LoadFile, LoadArrives, Sweepable

-----------------------------------------------------------------------------
(* The conjuncts of the invariant, one after the other. *)

LEMMA JobOKNext == JobTypes /\ JobOK /\ Next => JobOK'
  <1> SUFFICES ASSUME JobTypes, JobOK, Next PROVE JobOK'
    OBVIOUS
  <1>1. CASE UNCHANGED job
    BY <1>1 DEF JobOK, job
  <1>2. CASE Submit \/ Skip \/ Start \/ CloseFile \/ Report \/ Leave \/ RemoveOutputFile
    BY <1>2 DEF JobOK, Submit, Skip, Start, CloseFile, Report, Leave, RemoveOutputFile, Listed
  <1>3. CASE RemoveOrphan
    BY <1>3 DEF JobOK, RemoveOrphan
  <1>4. CASE OpenFile
    <2>1. Append(files, 0) # <<>>
      BY DEF JobTypes
    <2>2. QED
      BY <1>4, <2>1 DEF JobOK, OpenFile
  <1>5. CASE Write
    <2>1. files' # <<>>
      BY <1>5, Written, EmptySeq DEF Write, JobOK, JobTypes
    <2>2. QED
      BY <1>5, <2>1 DEF JobOK, Write
  <1>6. QED
    BY <1>1, <1>2, <1>3, <1>4, <1>5
    DEF Next, Job, FollowerStep, ListJobs, ReadDir, Poll, Deliver, OpenPager, PagerKey, LoadStep,
        LoadFile, LoadArrives

\* What an attempt leaves is not taken back.
LEMMA LeftStays ==
    ASSUME JobTypes, JobOK, Next, NEW p, Left(p)
    PROVE  /\ p = NoFile \/ p.file \in 1..Len(files')
           /\ p = NoFile \/ p.len <= files'[p.file]
  <1> SUFFICES ASSUME p # NoFile PROVE p.file \in 1..Len(files') /\ p.len <= files'[p.file]
    OBVIOUS
  <1>1. p.len \in Nat /\ p.file \in 1..Len(files) /\ p.len <= files[p.file]
    BY DEF Left, Text
  <1>2. Len(files) <= Len(files') /\ files[p.file] <= files'[p.file]
    BY <1>1, FilesGrow
  <1>3. files' \in Seq(Nat)
    BY JobTypesNext DEF JobTypes
  <1>4. Len(files) \in Nat /\ Len(files') \in Nat
    BY <1>3, LenProperties DEF JobTypes
  <1>5. p.file \in 1..Len(files')
    BY <1>1, <1>2, <1>4
  <1>6. files[p.file] \in Nat /\ files'[p.file] \in Nat
    BY <1>1, <1>3, <1>5, ElementOfSeq DEF JobTypes
  <1>7. QED
    BY <1>1, <1>2, <1>5, <1>6

LEMMA PastNext == JobTypes /\ JobOK /\ Left(past) /\ Next => Left(past)'
  <1> SUFFICES ASSUME JobTypes, JobOK, Left(past), Next PROVE Left(past)'
    OBVIOUS
  <1>1. CASE past' = past
    <2>1. PICK p : p = past
      OBVIOUS
    <2>2. Left(p)
      BY <2>1 DEF Left
    <2>3. p = NoFile \/ (p.file \in 1..Len(files') /\ p.len <= files'[p.file])
      BY <2>2, LeftStays
    <2>4. p = NoFile \/ p \in Text
      BY <2>2 DEF Left
    <2>5. QED
      BY <1>1, <2>1, <2>3, <2>4 DEF Left
  <1>2. CASE Report
    <2>1. past' = Contents /\ files' = files
      BY <1>2 DEF Report
    <2>2. Contents \in Text
      BY ContentsText
    <2>3. Contents = NoFile \/ (Contents.file \in 1..Len(files) /\ Contents.len <= files[Contents.file])
      <3>1. CASE linked
        <4>1. Len(files) \in 1..Len(files) /\ files[Len(files)] \in Nat
          BY <3>1, EmptySeq, ElementOfSeq DEF JobTypes, JobOK
        <4>2. Contents.file = Len(files) /\ Contents.len = files[Len(files)]
          BY <3>1 DEF Contents, SeqExt!Last
        <4>3. QED
          BY <4>1, <4>2
      <3>2. CASE ~linked
        BY <3>2 DEF Contents
      <3>3. QED
        BY <3>1, <3>2
    <2>4. QED
      BY <2>1, <2>2, <2>3 DEF Left
  <1>3. QED
    BY <1>1, <1>2
    DEF Next, Job, Submit, Skip, Start, OpenFile, Write, CloseFile, Leave, RemoveOutputFile, FollowerStep,
        ListJobs, ReadDir, RemoveOrphan, Poll, Deliver, OpenPager, PagerKey, LoadStep, LoadFile,
        LoadArrives, job

LEMMA SweepOKNext == JobTypes /\ ReaderTypes /\ JobOK /\ SweepOK /\ Next => SweepOK'
  <1> SUFFICES ASSUME JobTypes, ReaderTypes, JobOK, SweepOK, Next PROVE SweepOK'
    OBVIOUS
  <1>0. Sweepable => Sweepable'
    BY SweepableStays
  <1>1. CASE UNCHANGED <<job, sweep>>
    BY <1>0, <1>1 DEF SweepOK, job
  <1>2. CASE (Submit \/ Skip \/ Start \/ CloseFile \/ Report \/ Leave \/ RemoveOutputFile) /\ UNCHANGED sweep
    <2>1. files' = files /\ (sweep.pc = "read" => sweep.saw \notin Listed)
      BY <1>2 DEF SweepOK, Submit, Skip, Start, CloseFile, Report, Leave, RemoveOutputFile
    <2>2. CASE RemoveOutputFile
      BY <1>0, <1>2, <2>1, <2>2 DEF SweepOK, RemoveOutputFile
    <2>3. CASE Submit \/ Skip \/ Start \/ CloseFile \/ Report \/ Leave
      <3>1. linked' = linked
        BY <2>3 DEF Submit, Skip, Start, CloseFile, Report, Leave
      <3>2. state = "gone" => state' = "gone"
        BY <2>3 DEF Submit, Skip, Start, CloseFile, Report, Leave, Listed, JobOK
      <3>3. QED
        BY <1>0, <1>2, <2>1, <3>1, <3>2 DEF SweepOK
    <2>4. QED
      BY <1>2, <2>2, <2>3
  <1>3. CASE (OpenFile \/ Write) /\ UNCHANGED sweep
    <2>1. files' # <<>> /\ ~linked' => files # <<>> /\ ~linked
      BY <1>3, Written, EmptySeq DEF OpenFile, Write, JobOK, JobTypes
    <2>2. QED
      BY <1>0, <1>3, <2>1 DEF SweepOK, OpenFile, Write
  <1>4. CASE ListJobs \/ ReadDir
    <2>1. UNCHANGED <<state, files, linked>>
      BY <1>4 DEF ListJobs, ReadDir, job
    <2>2. (sweep.pc = "read" => sweep.saw \notin Listed)'
      <3>1. CASE ListJobs
        BY <3>1 DEF ListJobs
      <3>2. CASE ReadDir
        <4>1. PICK pc : pc = (IF linked /\ sweep.saw \notin Listed THEN "read" ELSE "done")
          OBVIOUS
        <4>2. sweep' = [sweep EXCEPT !.pc = pc]
          BY <3>2, <4>1 DEF ReadDir
        <4>3. sweep'.pc = pc /\ sweep'.saw = sweep.saw
          BY <4>2 DEF ReaderTypes
        <4>4. QED
          BY <4>1, <4>3
      <3>3. QED
        BY <1>4, <3>1, <3>2
    <2>3. QED
      BY <1>0, <2>1, <2>2 DEF SweepOK
  <1>5. CASE RemoveOrphan
    BY <1>5 DEF SweepOK, RemoveOrphan, Sweepable
  <1>6. QED
    BY <1>1, <1>2, <1>3, <1>4, <1>5
    DEF Next, Job, FollowerStep, Poll, Deliver, OpenPager, PagerKey, LoadStep, LoadFile, LoadArrives

\* A follower that stands still loses nothing.
LEMMA FollowerWaits ==
    ASSUME JobTypes, JobTypes', ReaderTypes, JobOK, SweepOK, FollowerOK, Next, UNCHANGED follower
    PROVE  FollowerOK'
  <1>1. Ended => Ended' /\ files' = files /\ (linked' => linked)
    BY FilesGrow
  <1>2. ASSUME HasFile
        PROVE  /\ follower.file \in 1..Len(files')
               /\ follower.len <= files'[follower.file]
               /\ follower.file = Len(files') \/ Sweepable'
    <2>1. follower.file \in 1..Len(files) /\ follower.len <= files[follower.file]
      BY <1>2 DEF FollowerOK
    <2>2. Len(files) <= Len(files') /\ files[follower.file] <= files'[follower.file]
      BY <2>1, FilesGrow
    <2>3. /\ Len(files) \in Nat /\ Len(files') \in Nat /\ follower.len \in Nat
          /\ files[follower.file] \in Nat
      BY <2>1, LenProperties, ElementOfSeq DEF JobTypes, ReaderTypes
    <2>4. follower.file \in 1..Len(files')
      BY <2>1, <2>2, <2>3
    <2>5. files'[follower.file] \in Nat
      BY <2>4, ElementOfSeq DEF JobTypes
    <2>6. follower.file = Len(files') \/ Sweepable'
      <3>1. CASE Sweepable
        BY <3>1, SweepableStays
      <3>2. CASE Len(files') = Len(files)
        BY <1>2, <3>2, SweepableStays DEF FollowerOK
      <3>3. CASE Len(files') # Len(files)
        <4>1. ~linked /\ ~Ended
          BY <1>1, <3>3, FilesGrow
        <4>2. files # <<>>
          BY <2>1, <2>3, EmptySeq
        <4>3. Sweepable
          BY <4>1, <4>2 DEF SweepOK, Ended
        <4>4. QED
          BY <4>3, SweepableStays
      <3>4. QED
        BY <3>1, <3>2, <3>3
    <2>7. QED
      BY <2>1, <2>2, <2>3, <2>4, <2>5, <2>6
  <1>3. HasFile' = HasFile
    BY DEF HasFile
  <1>4. (HasFile => /\ follower.file \in 1..Len(files)
                    /\ follower.len <= files[follower.file]
                    /\ follower.file = Len(files) \/ Sweepable)'
    BY <1>2, <1>3
  <1>5. (follower.pc \in {"again", "no output", "drain", "done"} => Ended)'
    BY <1>1 DEF FollowerOK
  <1>6. (follower.pc = "no output" => ~linked)'
    BY <1>1 DEF FollowerOK
  <1>7. (follower.pc = "done" => follower.len = files[follower.file])'
    BY <1>1 DEF FollowerOK
  <1>8. QED
    BY <1>4, <1>5, <1>6, <1>7 DEF FollowerOK

LEMMA FollowerMoves ==
    ASSUME JobTypes, ReaderTypes, JobOK, FollowerOK, FollowerStep
    PROVE  FollowerOK'
  <1>0. UNCHANGED <<state, files, linked, sweep>>
    BY DEF FollowerStep, job
  <1>1. Ended' = Ended /\ Sweepable' = Sweepable
    BY <1>0 DEF Ended, Sweepable
  <1>2. CASE AskPath \/ Look \/ AskState \/ LookAgain
    <2>1. PICK pc \in {"look", "failed", "open", "ask", "again", "no output"} : Goto(pc)
      BY <1>2 DEF AskPath, Look, AskState, LookAgain
    <2>2. ~HasFile' /\ follower'.pc # "drain" /\ follower'.pc # "done"
      BY <2>1 DEF Goto, HasFile, ReaderTypes
    <2>3. (follower.pc \in {"again", "no output"} => Ended)' /\ (follower.pc = "no output" => ~linked)'
      <3>1. CASE AskPath \/ Look
        <4>1. follower'.pc \notin {"again", "no output"}
          BY <3>1 DEF AskPath, Look, Goto, ReaderTypes
        <4>2. QED
          BY <4>1
      <3>2. CASE AskState
        <4>1. follower'.pc = "again" => state \in Over
          BY <3>2 DEF AskState, Goto, ReaderTypes
        <4>2. follower'.pc # "no output"
          BY <3>2 DEF AskState, Goto, ReaderTypes
        <4>3. QED
          BY <1>1, <4>1, <4>2 DEF Ended, Over
      <3>3. CASE LookAgain
        <4>1. follower'.pc = IF linked THEN "open" ELSE "no output"
          BY <3>3 DEF LookAgain, Goto, ReaderTypes
        <4>2. Ended
          BY <3>3 DEF LookAgain, FollowerOK
        <4>3. QED
          BY <1>0, <1>1, <4>1, <4>2
      <3>4. QED
        BY <1>2, <3>1, <3>2, <3>3
    <2>4. QED
      BY <2>2, <2>3 DEF FollowerOK
  <1>3. CASE OpenToRead
    <2>1. linked => Len(files) \in 1..Len(files) /\ files[Len(files)] \in Nat
      BY EmptySeq, ElementOfSeq DEF JobTypes, JobOK
    <2>2. QED
      <3>1. CASE linked
        <4>1. follower' = [pc |-> "read", file |-> Len(files), len |-> 0]
          BY <1>3, <3>1 DEF OpenToRead
        <4>2. follower'.pc = "read" /\ follower'.file = Len(files) /\ follower'.len = 0
          BY <4>1
        <4>3. follower'.file \in 1..Len(files') /\ follower'.len <= files'[follower'.file]
          BY <1>0, <2>1, <3>1, <4>2
        <4>4. follower'.file = Len(files')
          BY <1>0, <4>2
        <4>5. QED
          BY <4>2, <4>3, <4>4 DEF FollowerOK
      <3>2. CASE ~linked
        <4>1. follower'.pc = "failed"
          BY <1>3, <3>2 DEF OpenToRead, ReaderTypes
        <4>2. QED
          BY <4>1 DEF FollowerOK, HasFile
      <3>3. QED
        BY <3>1, <3>2
  <1>4. CASE Read \/ Check \/ Drain
    <2>1. /\ HasFile /\ follower.file \in 1..Len(files) /\ follower.len <= files[follower.file]
          /\ follower.file = Len(files) \/ Sweepable
      BY <1>4 DEF Read, Check, Drain, HasFile, FollowerOK
    <2>2. files[follower.file] \in Nat /\ follower.len \in Nat
      BY <2>1, ElementOfSeq DEF JobTypes, ReaderTypes
    <2>3. CASE Check
      BY <1>0, <1>1, <2>1, <2>3 DEF Check, Goto, FollowerOK, HasFile, ReaderTypes, Ended, Over
    <2>4. CASE Read \/ Drain
      <3>1. CASE /\ follower.len = files[follower.file]
                 /\ \/ follower.pc = "read" /\ Goto("check")
                    \/ follower.pc = "drain" /\ Goto("done")
        BY <1>0, <1>1, <2>1, <2>2, <3>1 DEF Goto, FollowerOK, HasFile, ReaderTypes
      <3>2. CASE /\ follower.pc \in {"read", "drain"}
                 /\ \E n \in (follower.len + 1)..files[follower.file] :
                       follower' = [follower EXCEPT !.len = n]
        <4>1. PICK n \in (follower.len + 1)..files[follower.file] : follower' = [follower EXCEPT !.len = n]
          BY <3>2
        <4>2. n <= files[follower.file]
          BY <2>2, <4>1
        <4>3. follower'.pc = follower.pc /\ follower'.file = follower.file /\ follower'.len = n
          BY <4>1 DEF ReaderTypes
        <4>4. QED
          BY <1>0, <1>1, <2>1, <3>2, <4>2, <4>3 DEF FollowerOK, HasFile
      <3>3. QED
        BY <2>4, <3>1, <3>2 DEF Read, Drain, ReadTo
    <2>5. QED
      BY <1>4, <2>3, <2>4
  <1>5. QED
    BY <1>2, <1>3, <1>4 DEF FollowerStep

LEMMA FollowerOKNext ==
    JobTypes /\ JobTypes' /\ ReaderTypes /\ JobOK /\ SweepOK /\ FollowerOK /\ Next => FollowerOK'
  BY FollowerWaits, FollowerMoves
  DEF Next, Job, ListJobs, ReadDir, RemoveOrphan, Poll, Deliver, OpenPager, PagerKey, LoadStep,
      LoadFile, LoadArrives


\* What was true of a job stays true.
LEMMA TruthStays ==
    ASSUME JobTypes, JobOK, Next
    PROVE  /\ \A info : Told(info) => Told(info)'
           /\ \A l : LoadOK(l) => LoadOK(l)'
           /\ \A p : PagerOK(p) => PagerOK(p)'
  <1>1. Ended => Ended' /\ files' = files
    BY FilesGrow
  <1>2. \A p : Left(p) => Left(p)'
    BY LeftStays DEF Left
  <1>3. \A info : Told(info) => Told(info)'
    BY <1>1, <1>2 DEF Told
  <1>4. \A info, text : Told(info) /\ Whole(info, text) => Whole(info, text)'
    BY <1>1 DEF Told, Whole
  <1>5. \A l : LoadOK(l) => LoadOK(l)'
    BY <1>3, <1>4 DEF LoadOK
  <1>6. \A p : PagerOK(p) => PagerOK(p)'
    BY <1>3, <1>4 DEF PagerOK, NoFile
  <1>7. QED
    BY <1>3, <1>5, <1>6

\* One load more.
LEMMA LoadBegins ==
    ASSUME TuiTypes, TuiOK, NEW info \in JobInfo, Load(info), Told(info)',
           \A l : LoadOK(l) => LoadOK(l)'
    PROVE  \A i \in DOMAIN loads' : LoadOK(loads[i])'
  <1> DEFINE l == [info |-> info, step |-> "path"]
  <1>1. LoadOK(l)'
    BY DEF LoadOK, Told
  <1>2. loads' = Append(loads, l)
    BY DEF Load
  <1>3. \A i \in DOMAIN loads' : loads'[i] = l \/ (i \in DOMAIN loads /\ loads'[i] = loads[i])
    <2> HIDE DEF l
    <2>1. QED
      BY <1>2 DEF TuiTypes
  <1> HIDE DEF l
  <1>4. QED
    BY <1>1, <1>3 DEF TuiOK

LEMMA TuiOKNext == JobTypes /\ JobOK /\ Left(past) /\ TuiTypes /\ TuiOK /\ Next => TuiOK'
  <1> SUFFICES ASSUME JobTypes, JobOK, Left(past), TuiTypes, TuiOK, Next PROVE TuiOK'
    OBVIOUS
  <1>0. /\ \A info : Told(info) => Told(info)'
        /\ \A l : LoadOK(l) => LoadOK(l)'
        /\ \A p : PagerOK(p) => PagerOK(p)'
    BY TruthStays
  <1>1. CASE UNCHANGED tui
    BY <1>0, <1>1 DEF TuiOK, tui
  <1>2. CASE Poll
    <2>1. PICK info : info = Listing
      OBVIOUS
    <2>2. Told(info)
      BY <2>1 DEF Told, Listing, Ended, Over
    <2>3. \A i \in DOMAIN polls' : polls'[i] = info \/ (i \in DOMAIN polls /\ polls'[i] = polls[i])
      BY <1>2, <2>1 DEF Poll, TuiTypes
    <2>4. \A i \in DOMAIN polls' : Told(polls[i])'
      BY <1>0, <2>2, <2>3 DEF TuiOK
    <2>5. QED
      BY <1>0, <1>2, <2>4 DEF Poll, TuiOK
  <1>3. ASSUME NEW i \in 1..MaxPolls, Deliver(i) PROVE TuiOK'
    <2>1. i \in 1..Len(polls) /\ polls[i] \in JobInfo /\ i \in DOMAIN polls
      BY <1>3, LenProperties, ElementOfSeq DEF TuiTypes, Deliver
    <2>2. \A k \in DOMAIN polls' : \E m \in DOMAIN polls : polls'[k] = polls[m]
      BY <1>3, <2>1, RemovedAt DEF TuiTypes, Deliver
    <2>3. \A k \in DOMAIN polls' : Told(polls[k])'
      BY <1>0, <2>2 DEF TuiOK
    <2>4. allJobs' = polls[i] /\ Told(allJobs)' /\ pager' = pager
      BY <1>0, <1>3, <2>1 DEF Deliver, TuiOK
    <2>5. CASE Following
      <3> DEFINE info == IF allJobs'.state \in Listed THEN allJobs' ELSE pager.info
      <3>1. Load(info)
        BY <1>3, <2>5 DEF Deliver, Reload
      <3>2. pager.mode = "pager" /\ pager.info \in JobInfo /\ Told(pager.info)
        BY <2>5 DEF Following, TuiTypes, PagerRec, Closed, TuiOK, PagerOK
      <3>3. \E c \in JobInfo : c = info /\ Told(c)'
        BY <1>0, <2>1, <2>4, <3>2
      <3> HIDE DEF info
      <3>4. PICK c \in JobInfo : c = info /\ Told(c)'
        BY <3>3
      <3>5. \A k \in DOMAIN loads' : LoadOK(loads[k])'
        BY <1>0, <3>1, <3>4, LoadBegins
      <3>6. QED
        BY <1>0, <2>3, <2>4, <3>5 DEF TuiOK
    <2>6. CASE ~Following
      <3>1. loads' = loads
        BY <1>3, <2>6 DEF Deliver
      <3>2. QED
        BY <1>0, <2>3, <2>4, <3>1 DEF TuiOK
    <2>7. QED
      BY <2>5, <2>6
  <1>4. CASE OpenPager
    <2>1. Load(allJobs) /\ Told(allJobs)' /\ UNCHANGED <<allJobs, polls, pager>>
      BY <1>0, <1>4 DEF OpenPager, TuiOK
    <2>2. PICK c \in JobInfo : c = allJobs /\ Load(c) /\ Told(c)'
      BY <2>1 DEF TuiTypes
    <2>3. \A k \in DOMAIN loads' : LoadOK(loads[k])'
      BY <1>0, <2>2, LoadBegins
    <2>4. QED
      BY <1>0, <2>1, <2>3 DEF TuiOK
  <1>5. ASSUME NEW i \in 1..MaxLoads, LoadStep(i) PROVE TuiOK'
    <2>1. i \in DOMAIN loads /\ i \in 1..Len(loads) /\ loads[i] \in LoadRec /\ LoadOK(loads[i])
      BY <1>5, LenProperties, ElementOfSeq DEF TuiTypes, TuiOK, LoadStep
    <2>2. CASE LoadFile(i)
      <3>1. UNCHANGED <<state, files, linked, allJobs, polls, pager>>
        BY <2>2 DEF LoadFile, job
      <3>2. \A k \in DOMAIN loads' : k \in DOMAIN loads /\ (k # i => loads'[k] = loads[k])
        BY <2>2 DEF LoadFile, TuiTypes
      <3>3. LoadOK(loads[i])'
        <4>1. CASE linked /\ loads' = [loads EXCEPT ![i] = [info |-> @.info, step |-> "text", text |-> Contents]]
          <5>1. loads'[i] = [info |-> loads[i].info, step |-> "text", text |-> Contents]
            BY <2>1, <4>1
          <5>2. loads'[i].info = loads[i].info /\ loads'[i].text = Contents
            BY <5>1
          <5>3. Contents.file \in 1..Len(files) /\ Contents.len = files[Contents.file]
            BY <4>1, EmptySeq DEF Contents, SeqExt!Last, JobTypes, JobOK
          <5>4. PICK info : info = loads[i].info
            OBVIOUS
          <5>5. PICK text : text = Contents
            OBVIOUS
          <5>6. Told(info)
            BY <2>1, <5>4 DEF LoadOK
          <5>7. text.file \in 1..Len(files) /\ text.len = files[text.file] /\ text.len \in Nat
            BY <5>3, <5>5, ContentsText DEF Text
          <5>8. text.file = info.past.file => text.len >= info.past.len
            <6>1. CASE info.past = NoFile
              BY <5>7, <6>1 DEF NoFile
            <6>2. CASE info.past # NoFile
              BY <5>6, <5>7, <6>2 DEF Told, Left, Text
            <6>3. QED
              BY <6>1, <6>2
          <5>9. Whole(info, text)
            BY <5>7, <5>8 DEF Whole
          <5>10. Told(info)' /\ Whole(info, text)'
            BY <1>0, <3>1, <5>6, <5>9 DEF Whole
          <5>11. loads'[i].info = info /\ loads'[i].text = text
            BY <5>2, <5>4, <5>5
          <5>12. QED
            BY <5>10, <5>11 DEF LoadOK, Told, Whole
        <4>2. CASE loads' = [loads EXCEPT ![i].step = "error"]
          <5>1. loads'[i].info = loads[i].info /\ loads'[i].step = "error"
            BY <2>1, <4>2 DEF LoadRec
          <5>2. QED
            BY <1>0, <2>1, <5>1 DEF LoadOK
        <4>3. QED
          BY <2>2, <4>1, <4>2 DEF LoadFile
      <3>4. \A k \in DOMAIN loads' : LoadOK(loads[k])'
        BY <1>0, <3>2, <3>3 DEF TuiOK
      <3>5. QED
        BY <1>0, <3>1, <3>4 DEF TuiOK
    <2>3. CASE LoadArrives(i)
      <3>1. \A k \in DOMAIN loads' : \E m \in DOMAIN loads : loads'[k] = loads[m]
        BY <2>1, <2>3, RemovedAt DEF TuiTypes, LoadArrives
      <3>2. \A k \in DOMAIN loads' : LoadOK(loads[k])'
        BY <1>0, <3>1 DEF TuiOK
      <3>3. pager'.info = loads[i].info /\ pager'.text = Shows(loads[i])
        BY <2>3 DEF LoadArrives, ApplyPagerLoaded
      <3>4. PICK l : l = loads[i] /\ LoadOK(l)
        BY <2>1
      <3>5. LoadOK(l)'
        BY <1>0, <3>4
      <3>6. pager'.info = l.info /\ pager'.text = IF l.step = "text" THEN l.text ELSE NoFile
        BY <3>3, <3>4 DEF Shows
      <3>7. PagerOK(pager)'
        BY <3>5, <3>6 DEF PagerOK, LoadOK, Told, Whole
      <3>8. QED
        BY <1>0, <2>3, <3>2, <3>7 DEF TuiOK, LoadArrives
    <2>4. QED
      BY <1>5, <2>2, <2>3 DEF LoadStep
  <1>6. CASE PagerKey
    <2>1. \/ pager' = Closed
          \/ pager'.mode = pager.mode /\ pager'.info = pager.info /\ pager'.text = pager.text
      <3>1. pager \in [mode : {"pager"}, info : JobInfo, text : Text, follow : BOOLEAN]
        BY <1>6 DEF PagerKey, TuiTypes, PagerRec, Closed
      <3>2. pager' = Closed \/ pager' = [pager EXCEPT !.follow = FALSE] \/ pager' = [pager EXCEPT !.follow = TRUE]
        BY <1>6 DEF PagerKey
      <3>3. QED
        BY <3>1, <3>2
    <2>2. UNCHANGED <<allJobs, polls, loads>>
      BY <1>6 DEF PagerKey
    <2>3. PagerOK(pager)'
      BY <1>0, <2>1 DEF PagerOK, Closed, TuiOK, Told, Whole
    <2>4. QED
      BY <1>0, <2>2, <2>3 DEF TuiOK
  <1>7. QED
    BY <1>1, <1>2, <1>3, <1>4, <1>5, <1>6
    DEF Next, Job, FollowerStep, ListJobs, ReadDir, RemoveOrphan, tui


-----------------------------------------------------------------------------
(* The invariant, and what follows from it. *)

LEMMA InvInit == Init => IInv
  <1> SUFFICES ASSUME Init PROVE IInv
    OBVIOUS
  <1>1. JobTypes /\ JobOK
    <2>1. <<>> \in Seq(Nat)
      BY EmptySeq
    <2>2. state = "none" /\ exec = "idle" /\ files = <<>> /\ linked = FALSE /\ past = NoFile
      BY DEF Init
    <2>3. QED
      BY <2>1, <2>2 DEF JobTypes, JobOK, State, Text, NoFile
  <1>2. PICK pc \in {"idle", "absent"} : /\ follower = [pc |-> pc, file |-> 0, len |-> 0]
                                         /\ sweep = [pc |-> pc, saw |-> "none"]
    BY DEF Init
  <1>3. ReaderTypes
    BY <1>2 DEF ReaderTypes, State
  <1>4. TuiTypes
    <2>1. <<>> \in Seq(JobInfo) /\ <<>> \in Seq(LoadRec)
      BY EmptySeq
    <2>2. pager \in PagerRec /\ allJobs \in JobInfo
      BY <1>1, ListingTyped DEF Init, PagerRec
    <2>3. QED
      BY <2>1, <2>2 DEF Init, TuiTypes
  <1>5. SweepOK /\ FollowerOK
    <2>1. follower.pc = pc /\ sweep.pc = pc /\ files = <<>>
      BY <1>2 DEF Init
    <2>2. QED
      BY <2>1 DEF SweepOK, FollowerOK, HasFile
  <1>6. Left(past)
    BY DEF Init, Left
  <1>7. TuiOK
    BY <1>6 DEF Init, TuiOK, Told, Over, PagerOK, Closed, Listing
  <1>8. QED
    BY <1>1, <1>3, <1>4, <1>5, <1>6, <1>7 DEF IInv

LEMMA InvNext == IInv /\ [Next]_vars => IInv'
  <1> SUFFICES ASSUME IInv, [Next]_vars PROVE IInv'
    OBVIOUS
  <1>1. CASE Next
    BY <1>1, JobTypesNext, ReaderTypesNext, TuiTypesNext, JobOKNext, PastNext, SweepOKNext, FollowerOKNext, TuiOKNext
    DEF IInv
  <1>2. CASE UNCHANGED vars
    <2>1. UNCHANGED <<state, exec, files, linked, past, follower, sweep, allJobs, polls, loads, pager>>
      BY <1>2 DEF vars, job, tui
    <2>2. JobTypes' /\ ReaderTypes' /\ TuiTypes' /\ JobOK'
      BY <2>1 DEF IInv, JobTypes, ReaderTypes, TuiTypes, JobOK
    <2>3. Left(past)'
      BY <2>1 DEF IInv, Left
    <2>4. SweepOK' /\ FollowerOK'
      BY <2>1 DEF IInv, SweepOK, FollowerOK, HasFile, Ended, Sweepable
    <2>5. TuiOK'
      BY <2>1 DEF IInv, TuiOK, Told, Left, LoadOK, Whole, PagerOK, Ended
    <2>6. QED
      BY <2>2, <2>3, <2>4, <2>5 DEF IInv
  <1>3. QED
    BY <1>1, <1>2

THEOREM Invariance == Spec => []IInv
  BY InvInit, InvNext, PTL DEF Spec

(* `ru -c' and `ru -t' print all of it: whatever the attempts wrote before
   the job was over, and nothing of it was cut off because the state and the
   file are asked for at different times (query.go:289-331, tail.go:40-68). *)
THEOREM FollowersSeeAll == Spec => []FollowSeesAll
  <1>1. IInv => FollowSeesAll
    BY DEF IInv, FollowerOK, HasFile, FollowSeesAll
  <1>2. QED
    BY <1>1, Invariance, PTL

(* And they say that there is no output only where there is none
   (query.go:291-303). *)
THEOREM FollowersAreHonest == Spec => []NoFalseAlarm
  <1>1. IInv => NoFalseAlarm
    BY DEF IInv, FollowerOK, NoFalseAlarm
  <1>2. QED
    BY <1>1, Invariance, PTL

(* `ru gc' takes no file from a job it has seen (main.go:512-523,
   gc.go:18-36). *)
THEOREM SweepsSpare == Spec => []SweepSpares
  <1>1. IInv => SweepSpares
    BY DEF IInv, SweepOK, SweepSpares, Listed
  <1>2. QED
    BY <1>1, Invariance, PTL

(* What the pager calls finished it shows to the end of the last attempt that
   was over by its listing, and to the very end if the job was, however late a
   load is (pager.go:217-245, 274-320). *)
THEOREM PagersTellAll == Spec => []PagerTellsAll
  <1>1. IInv => PagerTellsAll
    BY DEF IInv, TuiOK, PagerOK, Whole, PagerTellsAll, SaysFinished
  <1>2. QED
    BY <1>1, Invariance, PTL

=============================================================================
