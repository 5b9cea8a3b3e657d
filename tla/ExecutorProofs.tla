---------------------------- MODULE ExecutorProofs ----------------------------
(***************************************************************************)
(* What `:reset' can and cannot do to the executors it leaves over, for    *)
(* any number of jobs, retries and resets: it alone makes one job's        *)
(* goroutine act on another.  A job on which no other's goroutine has      *)
(* acted can be killed by its ID, is finished only when all of its         *)
(* attempts are over, and keeps the output of all of them to itself.       *)
(*                                                                         *)
(* All rest on the table of jobs by ID holding only jobs that are in the   *)
(* table, and on a run never being ahead of its job's attempts.            *)
(***************************************************************************)
EXTENDS Executor, TLAPS

Typed ==
    /\ made \in 0..MaxSubs
    /\ nextID \in 0..made
    /\ idOf \in [Sub -> ID]
    /\ holder \in [ID -> Sub \cup {NoSub}]
    /\ state \in [Sub -> {"none", "queued", "running", "finished", "gone"}]
    /\ attempt \in [Sub -> Nat]
    /\ at \in [Runs -> Phase]
    /\ proc \in [Runs -> {"none", "alive", "ok", "fail"}]
    /\ resets \in Nat

\* The IDs name jobs that are in the table.
HoldersPresent ==
    \A i \in ID : holder[i] # NoSub => InTable(holder[i]) /\ holder[i] <= made

MadeOnly == \A s \in Sub : state[s] # "none" <=> s <= made

\* A run is of a job there has been, and of an attempt it has reached.
Begun(r) == at[r] # "none" \/ proc[r] # "none"
RunsKnown == \A r \in Runs : Begun(r) => r[1] <= made /\ r[2] <= attempt[r[1]]

\* Before there is a reset the IDs count the submissions.
Unreset ==
    resets = 0 =>
        /\ reset = "no" /\ crossed = {}
        /\ nextID = made
        /\ \A s \in Sub : s <= made => idOf[s] = s - 1
        /\ \A i \in ID : holder[i] # NoSub => holder[i] = i + 1

XInv == Typed /\ HoldersPresent /\ MadeOnly /\ RunsKnown /\ Unreset

-----------------------------------------------------------------------------
LEMMA RunOf == \A r \in Runs : r[1] \in Sub /\ r[2] \in Nat
  BY ExecutorAssumption DEF Runs, Attempts, Sub

\* Whom a run acts on is in the table; before there is a reset, it is its job.
LEMMA Targets ==
    ASSUME Typed, HoldersPresent, Unreset, NEW r \in Runs
    PROVE  /\ Target(r) \in Sub \cup {NoSub}
           /\ Target(r) # NoSub => InTable(Target(r))
           /\ resets = 0 /\ r[1] <= made /\ Target(r) # NoSub => Target(r) = r[1]
  <1>1. r[1] \in Sub /\ idOf[r[1]] \in ID
    BY RunOf DEF Typed
  <1>2. Target(r) \in Sub \cup {NoSub} /\ (Target(r) # NoSub => InTable(Target(r)))
    BY <1>1 DEF Target, Typed, HoldersPresent
  <1>3. ASSUME resets = 0, r[1] <= made, Target(r) # NoSub PROVE Target(r) = r[1]
    <2>1. idOf[r[1]] = r[1] - 1 /\ Target(r) = idOf[r[1]] + 1
      BY <1>1, <1>3 DEF Unreset, Target
    <2>2. QED
      BY <1>1, <2>1 DEF Sub
  <1>4. QED
    BY <1>2, <1>3

\* Acting on the target of a run is restating it.
LEMMA TargetRestated ==
    ASSUME Typed, HoldersPresent, Unreset, RunsKnown, NEW r \in Runs, Begun(r),
           NEW how \in {"running", "queued", "finished"}
    PROVE  /\ \A s \in Sub : LET f == [x \in Sub |-> IF x = Target(r) THEN how ELSE state[x]]
                             IN  /\ f[s] \in {"queued", "running", "finished"} <=> InTable(s)
                                 /\ f[s] = "none" <=> state[s] = "none"
                                 /\ f[s] \in {"none", "queued", "running", "finished", "gone"}
           /\ resets = 0 => {Target(r)} \ {r[1], NoSub} = {}
  <1>1. /\ Target(r) \in Sub \cup {NoSub}
        /\ Target(r) # NoSub => InTable(Target(r))
        /\ resets = 0 /\ r[1] <= made /\ Target(r) # NoSub => Target(r) = r[1]
    BY Targets
  <1>2. r[1] <= made
    BY DEF RunsKnown
  <1>3. NoSub \notin Sub
    BY DEF NoSub, Sub
  <1>4. QED
    BY <1>1, <1>2, <1>3 DEF InTable, Typed

-----------------------------------------------------------------------------
LEMMA XInit == Init => XInv
  <1> SUFFICES ASSUME Init PROVE XInv
    OBVIOUS
  <1>1. MaxSubs \in Nat \ {0}
    BY ExecutorAssumption
  <1>2. Typed
    BY <1>1 DEF Init, Typed, ID, Phase, NoSub
  <1>3. HoldersPresent /\ RunsKnown
    BY RunOf DEF Init, HoldersPresent, RunsKnown, Begun
  <1>4. MadeOnly
    BY <1>1 DEF Init, MadeOnly, Sub
  <1>5. Unreset
    BY <1>1 DEF Init, Unreset, Sub
  <1>6. QED
    BY <1>2, <1>3, <1>4, <1>5 DEF XInv

LEMMA XSubmit == XInv /\ Submit => XInv'
  <1> SUFFICES ASSUME XInv, Submit PROVE XInv'
    OBVIOUS
  <1>1. MaxSubs \in Nat \ {0}
    BY ExecutorAssumption
  <1> DEFINE s == made + 1
  <1>2. s \in Sub /\ nextID \in ID /\ s # NoSub /\ made < s /\ made' = s /\ nextID' = nextID + 1
    BY <1>1 DEF Submit, XInv, Typed, Sub, ID, NoSub
  <1>3. /\ idOf' = [idOf EXCEPT ![s] = nextID]
        /\ holder' = [holder EXCEPT ![nextID] = s]
        /\ state' = [state EXCEPT ![s] = "queued"]
        /\ UNCHANGED <<attempt, at, proc, reset, resets, crossed>>
    BY DEF Submit, runVars, resetVars
  <1> HIDE DEF s
  <1>4. Typed'
    <2>1. made' \in 0..MaxSubs /\ nextID' \in 0..made'
      BY <1>1, <1>2 DEF XInv, Typed, Sub
    <2>2. QED
      BY <1>2, <1>3, <2>1 DEF XInv, Typed
  <1>5. HoldersPresent'
    <2> SUFFICES ASSUME NEW i \in ID, holder'[i] # NoSub
                 PROVE  InTable(holder[i])' /\ holder'[i] <= made'
      BY DEF HoldersPresent
    <2>1. CASE i = nextID
      <3>1. holder'[i] = s /\ state'[s] = "queued"
        BY <1>2, <1>3, <2>1 DEF XInv, Typed
      <3>2. QED
        BY <1>2, <3>1 DEF InTable, Sub
    <2>2. CASE i # nextID
      <3>1. holder'[i] = holder[i] /\ holder[i] \in Sub /\ InTable(holder[i]) /\ holder[i] <= made
        BY <1>3, <2>2 DEF XInv, Typed, HoldersPresent
      <3>2. holder[i] # s
        BY <1>2, <3>1 DEF XInv, Typed, Sub
      <3>3. state'[holder[i]] = state[holder[i]]
        BY <1>3, <3>1, <3>2 DEF XInv, Typed
      <3>4. holder[i] <= made'
        BY <1>2, <3>1 DEF XInv, Typed, Sub
      <3>5. QED
        BY <3>1, <3>3, <3>4 DEF InTable
    <2>3. QED
      BY <2>1, <2>2
  <1>6. RunsKnown'
    <2>1. \A r \in Runs : Begun(r) => r[1] <= made' /\ r[2] <= attempt[r[1]]
      BY <1>2, RunOf DEF XInv, RunsKnown, Typed, Sub
    <2>2. QED
      BY <1>3, <2>1 DEF RunsKnown, Begun
  <1>7. Unreset'
    <2> SUFFICES ASSUME resets = 0
                 PROVE  /\ reset' = "no" /\ crossed' = {}
                        /\ nextID' = made'
                        /\ \A x \in Sub : x <= made' => idOf'[x] = x - 1
                        /\ \A i \in ID : holder'[i] # NoSub => holder'[i] = i + 1
      BY <1>3 DEF Unreset
    <2>1. /\ reset = "no" /\ crossed = {} /\ nextID = made
          /\ \A x \in Sub : x <= made => idOf[x] = x - 1
          /\ \A i \in ID : holder[i] # NoSub => holder[i] = i + 1
      BY DEF XInv, Unreset
    <2>2. s = nextID + 1 /\ made \in Nat
      BY <2>1 DEF s, XInv, Typed
    <2>3. \A x \in Sub : x <= made' => idOf'[x] = x - 1
      <3>1. \A x \in Sub : idOf'[x] = IF x = s THEN nextID ELSE idOf[x]
        BY <1>3 DEF XInv, Typed
      <3>2. \A x \in Sub : x <= made' => x = s \/ x <= made
        BY <1>2, <2>1, <2>2 DEF Sub
      <3>3. QED
        BY <1>2, <2>1, <2>2, <3>1, <3>2 DEF Sub
    <2>4. \A i \in ID : holder'[i] # NoSub => holder'[i] = i + 1
      <3>1. \A i \in ID : holder'[i] = IF i = nextID THEN s ELSE holder[i]
        BY <1>3 DEF XInv, Typed
      <3>2. QED
        BY <2>1, <2>2, <3>1
    <2>5. QED
      BY <1>2, <1>3, <2>1, <2>2, <2>3, <2>4
  <1>8. MadeOnly'
    <2>1. \A x \in Sub : state'[x] # "none" <=> x = s \/ state[x] # "none"
      BY <1>3 DEF XInv, Typed
    <2>2. \A x \in Sub : x <= made' <=> x = s \/ x <= made
      BY <1>1, <1>2 DEF s, XInv, Typed, Sub
    <2>3. QED
      BY <2>1, <2>2 DEF XInv, MadeOnly
  <1>9. QED
    BY <1>4, <1>5, <1>6, <1>7, <1>8 DEF XInv


\* Jobs leave the table.
LEMMA XDrop ==
    ASSUME XInv, NEW S \in SUBSET Sub, \A s \in S : InTable(s), Drop(S), nextID' \in {nextID, 0},
           UNCHANGED <<made, idOf, attempt, at, proc, resets, crossed>>,
           resets = 0 => nextID' = nextID /\ reset' = reset
    PROVE  XInv'
  <1>1. /\ \A i \in ID : holder'[i] = IF holder[i] \in S THEN NoSub ELSE holder[i]
        /\ \A s \in Sub : state'[s] = IF s \in S THEN "gone" ELSE state[s]
    BY DEF Drop
  <1>2. Typed'
    <2>1. nextID' \in 0..made'
      BY DEF XInv, Typed
    <2>2. holder' \in [ID -> Sub \cup {NoSub}]
      BY DEF XInv, Typed, Drop
    <2>3. state' \in [Sub -> {"none", "queued", "running", "finished", "gone"}]
      BY DEF XInv, Typed, Drop
    <2>4. QED
      BY <2>1, <2>2, <2>3 DEF XInv, Typed
  <1>3. HoldersPresent'
    BY <1>1 DEF XInv, Typed, HoldersPresent, InTable
  <1>4. MadeOnly'
    <2>1. \A s \in S : state[s] # "none"
      BY DEF InTable
    <2>2. QED
      BY <1>1, <2>1 DEF XInv, MadeOnly
  <1>5. RunsKnown'
    BY DEF XInv, RunsKnown, Begun
  <1>6. Unreset'
    BY <1>1 DEF XInv, Unreset
  <1>7. QED
    BY <1>2, <1>3, <1>4, <1>5, <1>6 DEF XInv

\* A run goes on: it may restate its target, but nothing else of the table.
LEMMA XRun ==
    ASSUME XInv,
           UNCHANGED <<made, nextID, idOf, holder, reset, resets>>,
           state' \in [Sub -> {"none", "queued", "running", "finished", "gone"}],
           \A s \in Sub : (state'[s] \in {"queued", "running", "finished"} <=> InTable(s))
                          /\ (state'[s] = "none" <=> state[s] = "none"),
           attempt' \in [Sub -> Nat], \A s \in Sub : attempt[s] <= attempt'[s],
           at' \in [Runs -> Phase],
           proc' \in [Runs -> {"none", "alive", "ok", "fail"}],
           \A x \in Runs : at'[x] # "none" \/ proc'[x] # "none" => x[1] <= made /\ x[2] <= attempt[x[1]],
           resets = 0 => crossed' = {}
    PROVE  XInv'
  <1>0. \A s \in Sub : InTable(s)' = InTable(s)
    BY DEF InTable
  <1>1. Typed'
    BY DEF XInv, Typed
  <1>2. HoldersPresent'
    BY <1>0 DEF XInv, Typed, HoldersPresent
  <1>3. MadeOnly'
    BY DEF XInv, MadeOnly
  <1>4. RunsKnown'
    <2> SUFFICES ASSUME NEW x \in Runs, Begun(x)' PROVE x[1] <= made /\ x[2] <= attempt'[x[1]]
      BY DEF RunsKnown
    <2>1. x[1] <= made /\ x[2] <= attempt[x[1]] /\ x[1] \in Sub /\ x[2] \in Nat
      BY RunOf DEF Begun
    <2>2. attempt[x[1]] <= attempt'[x[1]] /\ attempt[x[1]] \in Nat /\ attempt'[x[1]] \in Nat
      BY <2>1 DEF XInv, Typed
    <2>3. QED
      BY <2>1, <2>2
  <1>5. Unreset'
    BY DEF XInv, Unreset
  <1>6. QED
    BY <1>1, <1>2, <1>3, <1>4, <1>5 DEF XInv


-----------------------------------------------------------------------------
(* The steps. *)

LEMMA XPick == \A s \in Sub : XInv /\ Pick(s) => XInv'
  <1> SUFFICES ASSUME NEW s \in Sub, XInv, Pick(s) PROVE XInv'
    OBVIOUS
  <1>1. at' = [at EXCEPT ![<<s, attempt[s]>>] = "picked"]
        /\ UNCHANGED <<made, nextID, idOf, holder, state, attempt, proc, reset, resets, crossed>>
    BY DEF Pick, tableVars, resetVars
  <1>2. at' \in [Runs -> Phase] /\ \A x \in Runs : at'[x] = IF x = <<s, attempt[s]>> THEN "picked" ELSE at[x]
    BY <1>1 DEF XInv, Typed, Phase
  <1>3. s <= made /\ attempt[s] \in Nat
    BY DEF Pick, XInv, MadeOnly, Typed
  <1>4. \A x \in Runs : at'[x] # "none" \/ proc'[x] # "none" => x[1] <= made /\ x[2] <= attempt[x[1]]
    <2> SUFFICES ASSUME NEW x \in Runs, at'[x] # "none" \/ proc'[x] # "none"
                 PROVE  x[1] <= made /\ x[2] <= attempt[x[1]]
      OBVIOUS
    <2>1. CASE x = <<s, attempt[s]>>
      BY <1>3, <2>1
    <2>2. CASE x # <<s, attempt[s]>>
      BY <1>1, <1>2, <2>2 DEF XInv, RunsKnown, Begun
    <2>3. QED
      BY <2>1, <2>2
  <1>5. QED
    BY <1>1, <1>2, <1>4, XRun DEF XInv, Typed, InTable, Unreset

\* The run r has begun, and only it moves.
LEMMA XStep ==
    ASSUME XInv, NEW r \in Runs, Begun(r), NEW phase \in Phase, at' \in {at, [at EXCEPT ![r] = phase]},
           UNCHANGED <<made, nextID, idOf, holder, reset, resets>>,
           state' \in [Sub -> {"none", "queued", "running", "finished", "gone"}],
           \A s \in Sub : (state'[s] \in {"queued", "running", "finished"} <=> InTable(s))
                          /\ (state'[s] = "none" <=> state[s] = "none"),
           attempt' \in [Sub -> Nat], \A s \in Sub : attempt[s] <= attempt'[s],
           proc' \in [Runs -> {"none", "alive", "ok", "fail"}],
           \A x \in Runs : proc'[x] # "none" => proc[x] # "none" \/ x = r,
           resets = 0 => crossed' = {}
    PROVE  XInv'
  <1>1. at' \in [Runs -> Phase] /\ \A x \in Runs : at'[x] = at[x] \/ (x = r /\ at'[x] = phase)
    BY DEF XInv, Typed
  <1>2. \A x \in Runs : at'[x] # "none" \/ proc'[x] # "none" => x[1] <= made /\ x[2] <= attempt[x[1]]
    BY <1>1 DEF XInv, RunsKnown, Begun
  <1>3. QED
    BY <1>1, <1>2, XRun

\* Jobs leave the table one by one or, at a reset, together.
LEMMA XRemove == \A s \in Sub : XInv /\ RemoveJob(s) => XInv'
  <1> SUFFICES ASSUME NEW s \in Sub, XInv, RemoveJob(s) PROVE XInv'
    OBVIOUS
  <1>1. {s} \in SUBSET Sub /\ \A x \in {s} : InTable(x)
    BY DEF RemoveJob
  <1>2. Drop({s}) /\ nextID' = nextID /\ reset' = reset
        /\ UNCHANGED <<made, idOf, attempt, at, proc, resets, crossed>>
    BY DEF RemoveJob, runVars, resetVars
  <1>3. QED
    BY <1>1, <1>2, XDrop

LEMMA XResetDrops == XInv /\ ResetDrops => XInv'
  <1> SUFFICES ASSUME XInv, ResetDrops PROVE XInv'
    OBVIOUS
  <1> DEFINE S == {s \in Sub : InTable(s)}
  <1>1. S \in SUBSET Sub /\ \A x \in S : InTable(x)
    OBVIOUS
  <1>2. Drop(S) /\ nextID' = 0
        /\ UNCHANGED <<made, idOf, attempt, at, proc, resets, crossed>>
    BY DEF ResetDrops, runVars
  <1>3. resets # 0
    BY DEF ResetDrops, XInv, Unreset
  <1> HIDE DEF S
  <1>4. QED
    BY <1>1, <1>2, <1>3, XDrop

\* A process ends; it was there before.
LEMMA XEnds ==
    ASSUME XInv,
           UNCHANGED <<made, nextID, idOf, holder, state, attempt, at, crossed>>,
           proc' \in [Runs -> {"none", "alive", "ok", "fail"}],
           \A x \in Runs : proc'[x] # "none" => proc[x] # "none",
           UNCHANGED <<reset, resets>> \/ resets' = resets + 1
    PROVE  XInv'
  <1>1. Typed'
    BY DEF XInv, Typed
  <1>2. HoldersPresent' /\ MadeOnly'
    BY DEF XInv, HoldersPresent, MadeOnly, InTable
  <1>3. RunsKnown'
    BY DEF XInv, RunsKnown, Begun
  <1>4. Unreset'
    <2>1. CASE UNCHANGED <<reset, resets>>
      BY <2>1 DEF XInv, Unreset
    <2>2. CASE resets' = resets + 1
      <3>1. resets' # 0
        BY <2>2 DEF XInv, Typed
      <3>2. QED
        BY <3>1 DEF Unreset
    <2>3. QED
      BY <2>1, <2>2
  <1>5. QED
    BY <1>1, <1>2, <1>3, <1>4 DEF XInv

LEMMA Termed ==
    ASSUME Typed, NEW R, Term(R)
    PROVE  /\ proc' \in [Runs -> {"none", "alive", "ok", "fail"}]
           /\ \A x \in Runs : proc'[x] # "none" => proc[x] # "none"
  <1>1. PICK dead \in SUBSET {r \in R : r # NoRun /\ Alive(r)} :
                proc' = [r \in Runs |-> IF r \in dead THEN "fail" ELSE proc[r]]
    BY DEF Term
  <1>2. QED
    BY <1>1 DEF Typed, Alive

LEMMA XEnvironment ==
    /\ \A r \in Runs : XInv /\ (ProcessExits(r) \/ TimerFires(r) \/ Escalate(r)) => XInv'
    /\ \A i \in ID : XInv /\ KillJob(i) => XInv'
    /\ XInv /\ ResetKills => XInv'
  <1>1. ASSUME NEW r \in Runs, XInv, ProcessExits(r) PROVE XInv'
    <2>1. PICK outcome \in {"ok", "fail"} : proc' = [proc EXCEPT ![r] = outcome]
      BY <1>1 DEF ProcessExits
    <2>2. proc' \in [Runs -> {"none", "alive", "ok", "fail"}]
          /\ \A x \in Runs : proc'[x] # "none" => proc[x] # "none"
      BY <1>1, <2>1 DEF XInv, Typed, ProcessExits, Alive
    <2>3. QED
      BY <1>1, <2>2, XEnds DEF ProcessExits, tableVars, resetVars
  <1>2. ASSUME NEW r \in Runs, XInv, TimerFires(r) PROVE XInv'
    <2>1. Term({r})
      BY <1>2 DEF TimerFires
    <2>2. proc' \in [Runs -> {"none", "alive", "ok", "fail"}]
          /\ \A x \in Runs : proc'[x] # "none" => proc[x] # "none"
      BY <1>2, <2>1, Termed DEF XInv
    <2>3. QED
      BY <1>2, <2>2, XEnds DEF TimerFires, tableVars, resetVars
  <1>3. ASSUME NEW r \in Runs, XInv, Escalate(r) PROVE XInv'
    <2>1. proc' = [proc EXCEPT ![r] = IF Alive(r) THEN "fail" ELSE @]
      BY <1>3 DEF Escalate
    <2>2. proc' \in [Runs -> {"none", "alive", "ok", "fail"}]
          /\ \A x \in Runs : proc'[x] # "none" => proc[x] # "none"
      BY <1>3, <2>1 DEF XInv, Typed, Alive
    <2>3. QED
      BY <1>3, <2>2, XEnds DEF Escalate, tableVars, resetVars
  <1>4. ASSUME NEW i \in ID, XInv, KillJob(i) PROVE XInv'
    <2>1. Term({entry[i]})
      BY <1>4 DEF KillJob
    <2>2. proc' \in [Runs -> {"none", "alive", "ok", "fail"}]
          /\ \A x \in Runs : proc'[x] # "none" => proc[x] # "none"
      BY <1>4, <2>1, Termed DEF XInv
    <2>3. QED
      BY <1>4, <2>2, XEnds DEF KillJob, tableVars, resetVars
  <1>5. ASSUME XInv, ResetKills PROVE XInv'
    <2>1. Term({entry[i] : i \in ID})
      BY <1>5 DEF ResetKills
    <2>2. proc' \in [Runs -> {"none", "alive", "ok", "fail"}]
          /\ \A x \in Runs : proc'[x] # "none" => proc[x] # "none"
      BY <1>5, <2>1, Termed DEF XInv
    <2>3. QED
      BY <1>5, <2>2, XEnds DEF ResetKills, tableVars
  <1>6. QED
    BY <1>1, <1>2, <1>3, <1>4, <1>5

-----------------------------------------------------------------------------
\* A run goes on without a word to the table.
LEMMA XOnward ==
    ASSUME XInv, NEW r \in Runs, at[r] # "none", NEW phase \in Phase,
           at' = [at EXCEPT ![r] = phase],
           UNCHANGED <<made, nextID, idOf, holder, state, attempt, reset, resets>>,
           proc' = proc \/ proc' = [proc EXCEPT ![r] = "alive"],
           UNCHANGED crossed \/ Crosses(r)
    PROVE  XInv'
  <1>1. Begun(r)
    BY DEF Begun
  <1>2. \A s \in Sub : (state'[s] \in {"queued", "running", "finished"} <=> InTable(s))
                       /\ (state'[s] = "none" <=> state[s] = "none")
    BY DEF InTable
  <1>3. /\ state' \in [Sub -> {"none", "queued", "running", "finished", "gone"}]
        /\ attempt' \in [Sub -> Nat] /\ \A s \in Sub : attempt[s] <= attempt'[s]
    BY DEF XInv, Typed
  <1>4. /\ proc' \in [Runs -> {"none", "alive", "ok", "fail"}]
        /\ \A x \in Runs : proc'[x] # "none" => proc[x] # "none" \/ x = r
    BY DEF XInv, Typed
  <1>5. resets = 0 => crossed' = {}
    <2>1. resets = 0 => crossed = {} /\ {Target(r)} \ {r[1], NoSub} = {}
      BY <1>1, TargetRestated DEF XInv, Unreset
    <2>2. QED
      BY <2>1 DEF Crosses
  <1>6. QED
    BY <1>1, <1>2, <1>3, <1>4, <1>5, XStep

\* A run tells the table under its ID.
LEMMA XTells ==
    ASSUME XInv, NEW r \in Runs, at[r] # "none", NEW phase \in Phase,
           at' = [at EXCEPT ![r] = phase],
           UNCHANGED <<made, nextID, idOf, holder, proc, reset, resets>>,
           NEW how \in {"running", "queued", "finished"},
           state' = [s \in Sub |-> IF s = Target(r) THEN how ELSE state[s]],
           attempt' = attempt \/ attempt' = [attempt EXCEPT ![Target(r)] = @ + 1],
           Crosses(r)
    PROVE  XInv'
  <1>1. Begun(r)
    BY DEF Begun
  <1>2. \A s \in Sub : (state'[s] \in {"queued", "running", "finished"} <=> InTable(s))
                       /\ (state'[s] = "none" <=> state[s] = "none")
    BY <1>1, TargetRestated DEF XInv
  <1>3. state' \in [Sub -> {"none", "queued", "running", "finished", "gone"}]
    BY DEF XInv, Typed
  <1>4. attempt' \in [Sub -> Nat] /\ \A s \in Sub : attempt[s] <= attempt'[s]
    BY DEF XInv, Typed
  <1>5. /\ proc' \in [Runs -> {"none", "alive", "ok", "fail"}]
        /\ \A x \in Runs : proc'[x] # "none" => proc[x] # "none" \/ x = r
    BY DEF XInv, Typed
  <1>6. resets = 0 => crossed' = {}
    <2>1. resets = 0 => crossed = {} /\ {Target(r)} \ {r[1], NoSub} = {}
      BY <1>1, TargetRestated DEF XInv, Unreset
    <2>2. QED
      BY <2>1 DEF Crosses
  <1>7. QED
    BY <1>1, <1>2, <1>3, <1>4, <1>5, <1>6, XStep

LEMMA XExecute == \A r \in Runs : XInv /\ Execute(r) => XInv'
  <1> SUFFICES ASSUME NEW r \in Runs, XInv, Execute(r) PROVE XInv'
    OBVIOUS
  <1> USE DEF Phase
  <1>1. CASE Launch(r)
    <2>1. /\ at[r] = "picked" /\ at' = [at EXCEPT ![r] = "launched"] /\ SetRunning(r, NoSub)
          /\ UNCHANGED <<proc, reset, resets>>
      BY <1>1 DEF Launch, resetVars
    <2>2. QED
      BY <2>1, XTells DEF SetRunning
  <1>2. CASE OpenOutput(r)
    BY <1>2, XOnward DEF OpenOutput, Goto, tableVars, resetVars
  <1>3. CASE StartProcess(r)
    BY <1>3, XOnward DEF StartProcess, Goto, tableVars, resetVars
  <1>4. CASE CannotStart(r)
    BY <1>4, XOnward DEF CannotStart, Goto, tableVars, resetVars
  <1>5. CASE NotePID(r)
    <2>1. /\ at[r] = "started" /\ at' = [at EXCEPT ![r] = "noted"] /\ SetRunning(r, out[r])
          /\ UNCHANGED <<proc, reset, resets>>
      BY <1>5 DEF NotePID, Goto, resetVars
    <2>2. QED
      BY <2>1, XTells DEF SetRunning
  <1>6. CASE StoreProcess(r)
    BY <1>6, XOnward DEF StoreProcess, Goto, tableVars, resetVars
  <1>7. CASE Reap(r)
    BY <1>7, XOnward DEF Reap, Goto, tableVars, resetVars
  <1>8. CASE Requeue(r)
    <2>1. state' = [s \in Sub |-> IF s = Target(r) THEN "queued" ELSE state[s]]
      BY <1>8 DEF Requeue, XInv, Typed
    <2>2. QED
      BY <1>8, <2>1, XTells DEF Requeue, Goto, resetVars
  <1>9. CASE NoRequeue(r)
    BY <1>9, XOnward DEF NoRequeue, Goto, tableVars, resetVars
  <1>10. CASE MarkFinished(r)
    BY <1>10, XTells DEF MarkFinished, Goto, resetVars
  <1>11. QED
    BY <1>1, <1>2, <1>3, <1>4, <1>5, <1>6, <1>7, <1>8, <1>9, <1>10 DEF Execute

LEMMA XNext == XInv /\ [Next]_vars => XInv'
  <1> SUFFICES ASSUME XInv, [Next]_vars PROVE XInv'
    OBVIOUS
  <1>1. CASE User
    BY <1>1, XSubmit, XRemove, XResetDrops, XEnvironment DEF User
  <1>2. CASE \E s \in Sub : Pick(s)
    BY <1>2, XPick
  <1>3. CASE \E r \in Runs : Execute(r) \/ ProcessExits(r) \/ TimerFires(r) \/ Escalate(r)
    BY <1>3, XExecute, XEnvironment
  <1>4. CASE UNCHANGED vars
    <2>1. UNCHANGED <<made, nextID, idOf, holder, state, attempt, at, crossed,
                      proc, reset, resets>>
      BY <1>4 DEF vars, tableVars, runVars, resetVars
    <2>2. QED
      BY <2>1, XEnds DEF XInv, Typed
  <1>5. QED
    BY <1>1, <1>2, <1>3, <1>4 DEF Next

LEMMA XAlways == Spec => []XInv
  BY XInit, XNext, PTL DEF Spec

\* However many jobs are submitted, removed, killed and retried, a job's
\* goroutine acts on no other job: the ID it looks its job up by
\* (scheduler.go:81-96, executor.go:174, 192) is its job's alone.  Only a reset
\* (server.go:317) makes an ID mean two jobs.
THEOREM ResetAloneCrosses == Spec => []CrossedByResetOnly
  <1>1. XInv => CrossedByResetOnly
    BY DEF XInv, Unreset, CrossedByResetOnly
  <1>2. QED
    BY <1>1, XAlways, PTL

-----------------------------------------------------------------------------
(* Runs of a job that is in the table, on which no other job's goroutine has *)
(* acted, come one after the other.                                          *)

Last(s) == <<s, attempt[s]>>
Own(s) == InTable(s) /\ s \notin crossed
UnderWay == {"launched", "opened", "started", "noted", "waiting", "ended", "marking"}

\* The earlier attempts are over; the last is where the job's state says, it
\* has a process only between its start and its wait, and is entered under the
\* job's ID while it waits.
Earlier(s) == \A a \in Attempts(s) : a < attempt[s] => at[<<s, a>>] = "done" /\ ~Alive(<<s, a>>)
Stated(s) ==
    /\ state[s] = "queued" => at[Last(s)] \in {"none", "picked"}
    /\ state[s] = "running" => at[Last(s)] \in UnderWay
    /\ state[s] = "finished" => at[Last(s)] = "done" /\ report[s] = Last(s)
Living(s) == Alive(Last(s)) => at[Last(s)] \in {"started", "noted", "waiting"}
Entered(s) == at[Last(s)] = "waiting" => entry[idOf[s]] = Last(s)
Orderly(s) == Earlier(s) /\ Stated(s) /\ Living(s) /\ Entered(s)

Tried ==
    /\ \A s \in Sub : attempt[s] \in Attempts(s) /\ (state[s] = "none" => attempt[s] = 0)
    /\ entry \in [ID -> Runs \cup {NoRun}]
    /\ report \in [Sub -> Runs \cup {NoRun}]
    /\ crossed \subseteq Sub

\* The table of jobs by ID and the jobs' IDs agree.
Filed ==
    /\ \A i \in ID : holder[i] # NoSub => idOf[holder[i]] = i /\ i < nextID
    /\ \A s \in Sub : InTable(s) => holder[idOf[s]] = s

YInv == XInv /\ Tried /\ Filed /\ \A s \in Sub : Own(s) => Orderly(s)

LEMMA RunsAre ==
    /\ \A s \in Sub : \A a \in Attempts(s) : <<s, a>> \in Runs
    /\ \A r \in Runs : r = <<r[1], r[2]>> /\ r[1] \in Sub /\ r[2] \in Attempts(r[1]) /\ r[2] \in Nat
    /\ NoSub \notin Sub
    /\ \A s \in Sub : 0 \in Attempts(s) /\ Attempts(s) \subseteq Nat
  BY ExecutorAssumption DEF Runs, Attempts, Sub, NoSub

\* A job none of whose runs moved is as orderly as it was.
LEMMA Untouched ==
    ASSUME NEW s \in Sub, Orderly(s), attempt[s] \in Attempts(s),
           attempt'[s] = attempt[s], state'[s] = state[s], report'[s] = report[s],
           idOf'[s] = idOf[s],
           \A a \in Attempts(s) : at'[<<s, a>>] = at[<<s, a>>]
                                  /\ (Alive(<<s, a>>)' => Alive(<<s, a>>)),
           at[Last(s)] = "waiting" => entry'[idOf[s]] = entry[idOf[s]]
    PROVE  Orderly(s)'
  <1>1. Earlier(s)'
    BY DEF Orderly, Earlier
  <1>2. Last(s)' = Last(s) /\ at'[Last(s)] = at[Last(s)] /\ (proc'[Last(s)] = "alive" => proc[Last(s)] = "alive")
    BY DEF Last, Alive
  <1>3. Stated(s)' /\ Living(s)'
    BY <1>2 DEF Orderly, Stated, Living, Alive
  <1>4. Entered(s)'
    BY <1>2 DEF Orderly, Entered
  <1>5. QED
    BY <1>1, <1>3, <1>4 DEF Orderly

\* A job that a step leaves alone.
LEMMA Bystander ==
    ASSUME YInv, NEW r \in Runs, NEW phase, at' = [at EXCEPT ![r] = phase],
           UNCHANGED <<idOf, holder>>,
           \A x \in Runs : x # r => proc'[x] = proc[x],
           \A x \in Sub : x # Target(r) =>
               state'[x] = state[x] /\ attempt'[x] = attempt[x] /\ report'[x] = report[x],
           \A i \in ID : i # idOf[r[1]] => entry'[i] = entry[i],
           UNCHANGED <<state, attempt, report, entry, crossed>> \/ Crosses(r),
           \A x \in Sub : InTable(x)' = InTable(x),
           NEW s \in Sub, s # r[1], Own(s)'
    PROVE  Orderly(s)'
  <1>1. InTable(s) /\ s \notin crossed /\ s # NoSub
    BY RunsAre DEF Own, Crosses
  <1>2. Orderly(s) /\ attempt[s] \in Attempts(s) /\ holder[idOf[s]] = s
    BY <1>1 DEF YInv, Own, Tried, Filed
  <1>3. \A a \in Attempts(s) : <<s, a>> \in Runs /\ <<s, a>> # r
    BY RunsAre
  <1>4. \A a \in Attempts(s) : at'[<<s, a>>] = at[<<s, a>>] /\ (Alive(<<s, a>>)' => Alive(<<s, a>>))
    BY <1>3 DEF YInv, XInv, Typed, Alive
  <1>5. idOf[s] \in ID /\ idOf[r[1]] \in ID
    BY RunsAre DEF YInv, XInv, Typed
  <1>6. CASE UNCHANGED <<state, attempt, report, entry, crossed>>
    BY <1>2, <1>4, <1>6, Untouched
  <1>7. CASE Crosses(r)
    <2>1. Target(r) # s
      BY <1>1, <1>7 DEF Crosses, Own
    <2>2. idOf[r[1]] # idOf[s]
      BY <1>2, <2>1 DEF Target
    <2>3. QED
      BY <1>2, <1>4, <1>5, <2>1, <2>2, Untouched
  <1>8. QED
    BY <1>6, <1>7

\* The run of an orderly job that is under way is the last.
LEMMA TheLast ==
    ASSUME YInv, NEW r \in Runs, Own(r[1]), Begun(r), at[r] # "done"
    PROVE  /\ r = Last(r[1]) /\ Target(r) = r[1]
           /\ Orderly(r[1]) /\ attempt[r[1]] = r[2]
  <1>1. Orderly(r[1]) /\ Target(r) = r[1] /\ attempt[r[1]] \in Nat
    BY RunsAre DEF YInv, Own, Filed, Target, XInv, Typed
  <1>2. r[2] <= attempt[r[1]]
    BY DEF YInv, XInv, RunsKnown
  <1>3. ~(r[2] < attempt[r[1]])
    BY <1>1, RunsAre DEF Orderly, Earlier
  <1>4. QED
    BY <1>1, <1>2, <1>3, RunsAre DEF Last

-----------------------------------------------------------------------------
LEMMA YInit == Init => YInv
  <1> SUFFICES ASSUME Init PROVE YInv
    OBVIOUS
  <1>1. Tried
    BY RunsAre DEF Init, Tried
  <1>2. Filed /\ \A s \in Sub : ~Own(s)
    BY DEF Init, Filed, Own, InTable
  <1>3. QED
    BY XInit, <1>1, <1>2 DEF YInv

LEMMA YSubmit == YInv /\ Submit => YInv'
  <1> SUFFICES ASSUME YInv, Submit PROVE YInv'
    OBVIOUS
  <1>1. MaxSubs \in Nat \ {0}
    BY ExecutorAssumption
  <1>2. PICK s : s = made + 1
    OBVIOUS
  <1>3. s \in Sub /\ nextID \in ID /\ s # NoSub /\ made < s /\ nextID' = nextID + 1 /\ nextID \in Nat
    BY <1>1, <1>2 DEF Submit, YInv, XInv, Typed, Sub, ID, NoSub
  <1>4. /\ idOf' = [idOf EXCEPT ![s] = nextID]
        /\ holder' = [holder EXCEPT ![nextID] = s]
        /\ state' = [state EXCEPT ![s] = "queued"]
        /\ UNCHANGED <<attempt, report, at, proc, entry, crossed>>
    BY <1>2 DEF Submit, runVars, resetVars
  <1>5. ~(s <= made)
    BY <1>2, <1>3 DEF YInv, XInv, Typed
  <1>6. state[s] = "none" /\ \A r \in Runs : r[1] = s => ~Begun(r)
    BY <1>3, <1>5 DEF YInv, XInv, MadeOnly, RunsKnown
  <1>7. XInv'
    BY XSubmit DEF YInv
  <1>8. Tried'
    BY <1>3, <1>4, <1>6 DEF YInv, XInv, Typed, Tried
  <1>9. \A x \in Sub : x # s => /\ idOf'[x] = idOf[x] /\ state'[x] = state[x]
                                /\ InTable(x)' = InTable(x)
    BY <1>4 DEF InTable, YInv, XInv, Typed
  <1>10. idOf'[s] = nextID /\ state'[s] = "queued" /\ holder'[nextID] = s
         /\ \A i \in ID : i # nextID => holder'[i] = holder[i]
    BY <1>3, <1>4 DEF YInv, XInv, Typed
  <1>11. Filed'
    <2>1. ASSUME NEW i \in ID, holder'[i] # NoSub PROVE idOf'[holder'[i]] = i /\ i < nextID'
      <3>1. CASE i = nextID
        BY <1>3, <1>10, <3>1
      <3>2. CASE i # nextID
        <4>1. holder'[i] = holder[i] /\ holder[i] \in Sub /\ idOf[holder[i]] = i /\ i < nextID
              /\ InTable(holder[i])
          BY <1>10, <2>1, <3>2 DEF YInv, XInv, Typed, Filed, HoldersPresent
        <4>2. holder[i] # s
          BY <1>6, <4>1 DEF InTable
        <4>3. i \in Int
          BY <1>1 DEF ID
        <4>4. QED
          BY <1>3, <1>9, <4>1, <4>2, <4>3
      <3>3. QED
        BY <3>1, <3>2
    <2>2. ASSUME NEW x \in Sub, InTable(x)' PROVE holder'[idOf'[x]] = x
      <3>1. CASE x = s
        BY <1>10, <3>1
      <3>2. CASE x # s
        <4>1. InTable(x) /\ idOf'[x] = idOf[x] /\ idOf[x] \in ID
          BY <1>9, <2>2, <3>2 DEF YInv, XInv, Typed
        <4>2. holder[idOf[x]] = x /\ x # NoSub
          BY <4>1, RunsAre DEF YInv, Filed
        <4>3. idOf[x] # nextID
          BY <1>3, <4>1, <4>2 DEF YInv, Filed
        <4>4. QED
          BY <1>10, <4>1, <4>2, <4>3
      <3>3. QED
        BY <3>1, <3>2
    <2>3. QED
      BY <2>1, <2>2 DEF Filed
  <1>12. ASSUME NEW x \in Sub, Own(x)' PROVE Orderly(x)'
    <2>1. CASE x = s
      <3>1. attempt'[s] = 0 /\ Last(s) \in Runs /\ Last(s)' = Last(s) /\ Last(s)[1] = s
        BY <1>3, <1>4, <1>6, RunsAre DEF YInv, Tried, Last
      <3>2. at'[Last(s)] = "none" /\ proc'[Last(s)] = "none"
        BY <1>4, <1>6, <3>1 DEF Begun
      <3>3. Earlier(s)'
        BY <1>3, <3>1, RunsAre DEF Earlier
      <3>4. Stated(s)' /\ Living(s)' /\ Entered(s)'
        BY <1>10, <3>1, <3>2 DEF Stated, Living, Entered, Alive
      <3>5. QED
        BY <2>1, <3>3, <3>4 DEF Orderly
    <2>2. CASE x # s
      <3>1. Own(x) /\ Orderly(x) /\ attempt[x] \in Attempts(x)
        BY <1>4, <1>9, <1>12, <2>2 DEF Own, YInv, Tried
      <3>2. QED
        BY <1>4, <1>9, <2>2, <3>1, Untouched DEF Alive
    <2>3. QED
      BY <2>1, <2>2
  <1>13. QED
    BY <1>7, <1>8, <1>11, <1>12 DEF YInv

LEMMA YDrop ==
    ASSUME YInv, XInv', NEW S \in SUBSET Sub, Drop(S),
           nextID' = nextID \/ \A s \in Sub : InTable(s) => s \in S,
           UNCHANGED <<idOf, attempt, report, at, proc, entry, crossed>>
    PROVE  YInv'
  <1>1. /\ \A i \in ID : holder'[i] = IF holder[i] \in S THEN NoSub ELSE holder[i]
        /\ \A s \in Sub : state'[s] = IF s \in S THEN "gone" ELSE state[s]
    BY DEF Drop
  <1>2. \A s \in Sub : InTable(s)' => InTable(s) /\ s \notin S /\ state'[s] = state[s]
    BY <1>1 DEF InTable
  <1>3. Tried'
    BY <1>1 DEF YInv, Tried
  <1>4. Filed'
    <2>1. ASSUME NEW i \in ID, holder'[i] # NoSub PROVE idOf'[holder'[i]] = i /\ i < nextID'
      <3>1. holder'[i] = holder[i] /\ holder[i] \in Sub \ S /\ InTable(holder[i])
        BY <1>1, <2>1 DEF YInv, XInv, HoldersPresent, Typed
      <3>2. nextID' = nextID /\ idOf' = idOf
        BY <3>1
      <3>3. idOf[holder[i]] = i /\ i < nextID
        <4>1. holder[i] # NoSub
          BY <2>1, <3>1
        <4>2. QED
          BY <4>1 DEF YInv, Filed
      <3>4. QED
        BY <3>1, <3>2, <3>3
    <2>2. ASSUME NEW x \in Sub, InTable(x)' PROVE holder'[idOf'[x]] = x
      <3>1. InTable(x) /\ x \notin S /\ idOf[x] \in ID
        BY <1>2, <2>2 DEF YInv, XInv, Typed
      <3>2. QED
        BY <1>1, <3>1 DEF YInv, Filed
    <2>3. QED
      BY <2>1, <2>2 DEF Filed
  <1>5. ASSUME NEW x \in Sub, Own(x)' PROVE Orderly(x)'
    <2>1. Own(x) /\ Orderly(x) /\ attempt[x] \in Attempts(x) /\ state'[x] = state[x]
      BY <1>2, <1>5 DEF Own, YInv, Tried
    <2>2. QED
      BY <2>1, Untouched DEF Alive
  <1>6. QED
    BY <1>3, <1>4, <1>5 DEF YInv

LEMMA OnlyEnds ==
    ASSUME NEW R, Term(R), Typed
    PROVE  \A x \in Runs : proc'[x] = "alive" => proc[x] = "alive"
  <1>1. PICK dead \in SUBSET {r \in R : r # NoRun /\ Alive(r)} :
                proc' = [r \in Runs |-> IF r \in dead THEN "fail" ELSE proc[r]]
    BY DEF Term
  <1>2. QED
    BY <1>1

\* Processes end; nothing else happens to the jobs.
LEMMA YEnds ==
    ASSUME YInv, XInv',
           UNCHANGED <<nextID, idOf, holder, state, attempt, report, at, entry, crossed>>,
           \A x \in Runs : proc'[x] = "alive" => proc[x] = "alive"
    PROVE  YInv'
  <1>1. Tried' /\ Filed'
    BY DEF YInv, Tried, Filed, InTable
  <1>2. ASSUME NEW x \in Sub, Own(x)' PROVE Orderly(x)'
    <2>1. Own(x) /\ Orderly(x) /\ attempt[x] \in Attempts(x)
      BY <1>2 DEF Own, InTable, YInv, Tried
    <2>2. \A a \in Attempts(x) : Alive(<<x, a>>)' => Alive(<<x, a>>)
      BY RunsAre DEF Alive
    <2>3. QED
      BY <2>1, <2>2, Untouched
  <1>3. QED
    BY <1>1, <1>2 DEF YInv

\* A step of a run: its own job must be orderly afterwards.
LEMMA YRun ==
    ASSUME YInv, XInv', NEW r \in Runs, NEW phase, at' = [at EXCEPT ![r] = phase],
           UNCHANGED <<nextID, idOf, holder>>,
           \A x \in Runs : x # r => proc'[x] = proc[x],
           \A x \in Sub : InTable(x)' = InTable(x) /\ (state'[x] = "none" => state[x] = "none"),
           \A x \in Sub : x # Target(r) =>
               state'[x] = state[x] /\ attempt'[x] = attempt[x] /\ report'[x] = report[x],
           Target(r) # NoSub => attempt'[Target(r)] \in Attempts(Target(r)),
           report' \in [Sub -> Runs \cup {NoRun}],
           entry' \in [ID -> Runs \cup {NoRun}],
           \A i \in ID : i # idOf[r[1]] => entry'[i] = entry[i],
           UNCHANGED <<state, attempt, report, entry, crossed>> \/ Crosses(r),
           Own(r[1]) /\ Own(r[1])' => Orderly(r[1])'
    PROVE  YInv'
  <1>0. r[1] \in Sub /\ Target(r) \in Sub \cup {NoSub} /\ (Target(r) # NoSub => InTable(Target(r)))
    BY RunsAre, Targets DEF YInv, XInv
  <1>1. crossed' \subseteq Sub /\ crossed \subseteq crossed'
    BY <1>0 DEF Crosses, YInv, Tried
  <1>2. Tried'
    <2>1. ASSUME NEW s \in Sub PROVE attempt'[s] \in Attempts(s) /\ (state'[s] = "none" => attempt'[s] = 0)
      <3>1. CASE s = Target(r)
        <4>1. InTable(s)' /\ s # NoSub
          BY <1>0, <3>1, RunsAre
        <4>2. QED
          BY <3>1, <4>1 DEF InTable
      <3>2. CASE s # Target(r)
        BY <3>2 DEF YInv, Tried
      <3>3. QED
        BY <3>1, <3>2
    <2>2. QED
      BY <1>1, <2>1 DEF Tried
  <1>3. Filed'
    BY DEF YInv, Filed
  <1>4. ASSUME NEW x \in Sub, Own(x)' PROVE Orderly(x)'
    <2>1. CASE x = r[1]
      BY <1>1, <1>4, <2>1 DEF Own
    <2>2. CASE x # r[1]
      BY <1>4, <2>2, Bystander
    <2>3. QED
      BY <2>1, <2>2
  <1>5. QED
    BY <1>2, <1>3, <1>4 DEF YInv

\* What is left to show of the job whose run moves.
LEMMA YMoves ==
    ASSUME YInv, NEW s \in Sub, Orderly(s), attempt[s] \in Attempts(s),
           NEW phase, at' = [at EXCEPT ![Last(s)] = phase],
           attempt'[s] = attempt[s], idOf'[s] = idOf[s],
           \A x \in Runs : x # Last(s) => proc'[x] = proc[x],
           state'[s] = "queued" => phase = "picked",
           state'[s] = "running" => phase \in UnderWay,
           state'[s] = "finished" => phase = "done" /\ report'[s] = Last(s),
           proc'[Last(s)] = "alive" => phase \in {"started", "noted", "waiting"},
           phase = "waiting" => entry'[idOf[s]] = Last(s)
    PROVE  Orderly(s)'
  <1>1. Last(s)' = Last(s) /\ Last(s) \in Runs
    BY RunsAre DEF Last
  <1>2. at'[Last(s)] = phase
    BY <1>1 DEF YInv, XInv, Typed
  <1>3. Earlier(s)'
    <2> SUFFICES ASSUME NEW a \in Attempts(s), a < attempt[s]
                 PROVE  at'[<<s, a>>] = "done" /\ proc'[<<s, a>>] # "alive"
      BY DEF Earlier, Alive
    <2>1. <<s, a>> \in Runs /\ <<s, a>> # Last(s)
      BY RunsAre DEF Last
    <2>2. at[<<s, a>>] = "done" /\ proc[<<s, a>>] # "alive"
      BY DEF Orderly, Earlier, Alive
    <2>3. QED
      BY <2>1, <2>2 DEF YInv, XInv, Typed
  <1>4. Stated(s)'
    BY <1>1, <1>2 DEF Stated
  <1>5. Living(s)' /\ Entered(s)'
    BY <1>1, <1>2 DEF Living, Entered, Alive
  <1>6. QED
    BY <1>3, <1>4, <1>5 DEF Orderly

-----------------------------------------------------------------------------
LEMMA YPick == \A s \in Sub : YInv /\ Pick(s) => YInv'
  <1> SUFFICES ASSUME NEW s \in Sub, YInv, Pick(s) PROVE YInv'
    OBVIOUS
  <1>1. /\ at' = [at EXCEPT ![Last(s)] = "picked"] /\ state[s] = "queued"
        /\ UNCHANGED <<nextID, idOf, holder, state, attempt, report, proc, entry, crossed>>
    BY DEF Pick, tableVars, Last
  <1>2. XInv'
    BY XPick DEF YInv
  <1>3. Tried' /\ Filed'
    BY <1>1 DEF YInv, Tried, Filed, InTable
  <1>4. ASSUME NEW x \in Sub, Own(x)' PROVE Orderly(x)'
    <2>1. Own(x) /\ Orderly(x) /\ attempt[x] \in Attempts(x)
      BY <1>1, <1>4 DEF Own, InTable, YInv, Tried
    <2>2. CASE x = s
      <3>1. ~Alive(Last(s))
        BY <1>1, <2>1, <2>2 DEF Orderly, Stated, Living
      <3>2. QED
        BY <1>1, <2>1, <2>2, <3>1, YMoves DEF Alive
    <2>3. CASE x # s
      <3>1. \A a \in Attempts(x) : <<x, a>> # Last(s) /\ <<x, a>> \in Runs
        BY <2>3, RunsAre DEF Last
      <3>2. \A a \in Attempts(x) : at'[<<x, a>>] = at[<<x, a>>]
        BY <1>1, <3>1 DEF YInv, XInv, Typed
      <3>3. QED
        BY <1>1, <2>1, <3>2, Untouched DEF Alive
    <2>4. QED
      BY <2>2, <2>3
  <1>5. QED
    BY <1>2, <1>3, <1>4 DEF YInv

\* A run goes on without a word to the table; it may enter its process.
LEMMA YOnward ==
    ASSUME YInv, XInv', NEW r \in Runs, at[r] \in UnderWay, NEW phase \in UnderWay,
           at' = [at EXCEPT ![r] = phase],
           UNCHANGED <<nextID, idOf, holder, state, attempt, report>>,
           \A x \in Runs : x # r => proc'[x] = proc[x],
           Own(r[1]) /\ proc'[r] = "alive" => phase \in {"started", "noted", "waiting"},
           \/ UNCHANGED <<entry, crossed>> /\ phase # "waiting"
           \/ /\ Crosses(r)
              /\ \E e \in Runs \cup {NoRun} : entry' = [entry EXCEPT ![idOf[r[1]]] = e]
                                             /\ (phase = "waiting" => e = r)
    PROVE  YInv'
  <1>1. r[1] \in Sub /\ idOf[r[1]] \in ID
    BY RunsAre DEF YInv, XInv, Typed
  <1>2. /\ entry' \in [ID -> Runs \cup {NoRun}]
        /\ \A i \in ID : i # idOf[r[1]] => entry'[i] = entry[i]
        /\ phase = "waiting" => entry'[idOf[r[1]]] = r
    BY <1>1 DEF YInv, Tried
  <1>3. /\ \A x \in Sub : InTable(x)' = InTable(x)
        /\ Target(r) # NoSub => attempt'[Target(r)] \in Attempts(Target(r))
        /\ report' \in [Sub -> Runs \cup {NoRun}]
    BY <1>1, Targets DEF YInv, XInv, Tried, InTable
  <1>4. ASSUME Own(r[1]) PROVE Orderly(r[1])'
    <2>1. /\ r = Last(r[1]) /\ Orderly(r[1]) /\ attempt[r[1]] \in Attempts(r[1])
      BY <1>1, <1>4, TheLast DEF UnderWay, Begun, YInv, Tried
    <2>2. state[r[1]] = "running"
      BY <1>4, <2>1 DEF Own, InTable, Orderly, Stated, UnderWay
    <2>3. QED
      BY <1>1, <1>2, <1>4, <2>1, <2>2, YMoves
  <1>5. UNCHANGED <<state, attempt, report, entry, crossed>> \/ Crosses(r)
    OBVIOUS
  <1>6. QED
    BY <1>2, <1>3, <1>4, <1>5, YRun

\* A run tells the table under its ID that its job runs, or is finished.
LEMMA YTells ==
    ASSUME YInv, XInv', NEW r \in Runs, at[r] \in UnderWay \cup {"picked"}, NEW phase,
           at' = [at EXCEPT ![r] = phase],
           UNCHANGED <<nextID, idOf, holder, attempt, proc, entry>>,
           NEW how \in {"running", "finished"},
           state' = [s \in Sub |-> IF s = Target(r) THEN how ELSE state[s]],
           \/ how = "running" /\ report' = report /\ phase \in {"launched", "noted"}
           \/ /\ how = "finished" /\ phase = "done"
              /\ report' = [s \in Sub |-> IF s = Target(r) THEN r ELSE report[s]],
           at[r] \in {"started", "noted", "waiting"} => phase = "noted",
           Crosses(r)
    PROVE  YInv'
  <1>1. r[1] \in Sub
    BY RunsAre
  <1>2. Begun(r) /\ at[r] # "done" /\ Target(r) \in Sub \cup {NoSub}
        /\ (Target(r) # NoSub => InTable(Target(r)))
    BY Targets DEF YInv, XInv, UnderWay, Begun
  <1>3. /\ \A x \in Sub : InTable(x)' = InTable(x) /\ (state'[x] = "none" => state[x] = "none")
        /\ \A x \in Sub : x # Target(r) => state'[x] = state[x] /\ report'[x] = report[x]
    BY <1>2, RunsAre DEF InTable
  <1>4. /\ Target(r) # NoSub => attempt'[Target(r)] \in Attempts(Target(r))
        /\ report' \in [Sub -> Runs \cup {NoRun}]
        /\ entry' \in [ID -> Runs \cup {NoRun}]
    BY <1>2 DEF YInv, Tried
  <1>5. ASSUME Own(r[1]) PROVE Orderly(r[1])'
    <2>1. /\ r = Last(r[1]) /\ Orderly(r[1]) /\ attempt[r[1]] \in Attempts(r[1])
          /\ Target(r) = r[1]
      BY <1>1, <1>2, <1>5, TheLast DEF YInv, Tried
    <2>2. state'[r[1]] = how /\ (how = "finished" => report'[r[1]] = r)
      BY <1>1, <2>1
    <2>3. proc'[r] = "alive" => phase \in {"started", "noted", "waiting"}
      BY <2>1 DEF Orderly, Living, Alive
    <2>4. phase \in {"launched", "noted"} => phase \in UnderWay
      BY DEF UnderWay
    <2>5. phase # "waiting"
      OBVIOUS
    <2>6. QED
      BY <1>1, <2>1, <2>2, <2>3, <2>4, <2>5, YMoves
  <1>6. QED
    BY <1>3, <1>4, <1>5, YRun

\* A run gives its job back to the queue, for one more attempt.
LEMMA YRequeue == \A r \in Runs : YInv /\ Requeue(r) => YInv'
  <1> SUFFICES ASSUME NEW r \in Runs, YInv, Requeue(r) PROVE YInv'
    OBVIOUS
  <1>1. /\ at[r] = "ended" /\ at' = [at EXCEPT ![r] = "done"]
        /\ Target(r) # NoSub /\ attempt[Target(r)] < Retries[Target(r)]
        /\ attempt' = [attempt EXCEPT ![Target(r)] = @ + 1]
        /\ state' = [state EXCEPT ![Target(r)] = "queued"]
        /\ Crosses(r)
        /\ UNCHANGED <<nextID, idOf, holder, report, proc, entry>>
    BY DEF Requeue, Goto, MayRequeue
  <1>2. XInv'
    BY XExecute DEF YInv, Execute
  <1>3. /\ r[1] \in Sub /\ Begun(r) /\ Target(r) \in Sub /\ InTable(Target(r))
    BY <1>1, Targets, RunsAre DEF YInv, XInv, Begun
  <1>4. /\ attempt[Target(r)] \in Nat /\ Retries[Target(r)] \in Nat
        /\ attempt'[Target(r)] = attempt[Target(r)] + 1
    BY <1>1, <1>3, ExecutorAssumption DEF YInv, XInv, Typed, Sub
  <1>5. attempt'[Target(r)] \in Attempts(Target(r))
    BY <1>1, <1>4 DEF Attempts
  <1>6. /\ \A x \in Sub : InTable(x)' = InTable(x) /\ (state'[x] = "none" => state[x] = "none")
        /\ \A x \in Sub : x # Target(r) => state'[x] = state[x] /\ attempt'[x] = attempt[x]
    BY <1>1, <1>3 DEF InTable, YInv, XInv, Typed
  <1>7. ASSUME Own(r[1]) PROVE Orderly(r[1])'
    <2>1. /\ r = Last(r[1]) /\ Orderly(r[1]) /\ attempt[r[1]] = r[2] /\ Target(r) = r[1]
      BY <1>1, <1>3, <1>7, TheLast
    <2>2. PICK s : s = r[1]
      OBVIOUS
    <2>3. /\ s \in Sub /\ attempt'[s] = attempt[s] + 1 /\ attempt[s] \in Nat /\ state'[s] = "queued"
          /\ ~Alive(r)
      BY <1>1, <1>3, <1>4, <2>1, <2>2 DEF YInv, XInv, Typed, Orderly, Living
    <2>4. /\ Last(s)' \in Runs /\ Last(s)' = <<s, attempt[s] + 1>>
      BY <1>5, <2>1, <2>2, <2>3, RunsAre DEF Last
    <2>5. PICK next \in Runs : next = <<s, attempt[s] + 1>>
      BY <2>4
    <2>6. at[next] = "none" /\ proc[next] = "none" /\ next # r
      BY <2>1, <2>2, <2>3, <2>5 DEF YInv, XInv, RunsKnown, Begun
    <2>7. at'[next] = "none" /\ proc'[next] = "none"
      BY <1>1, <2>6 DEF YInv, XInv, Typed
    <2>8. Earlier(s)'
      <3> SUFFICES ASSUME NEW a \in Attempts(s), a < attempt[s] + 1
                   PROVE  at'[<<s, a>>] = "done" /\ proc[<<s, a>>] # "alive"
        BY <1>1, <2>3 DEF Earlier, Alive
      <3>1. <<s, a>> \in Runs /\ a \in Nat
        BY <2>3, RunsAre
      <3>2. CASE a = attempt[s]
        <4>1. <<s, a>> = r
          BY <2>1, <2>2, <3>2 DEF Last
        <4>2. QED
          BY <1>1, <2>3, <4>1 DEF Alive, YInv, XInv, Typed
      <3>3. CASE a < attempt[s]
        <4>1. at[<<s, a>>] = "done" /\ proc[<<s, a>>] # "alive" /\ <<s, a>> # r
          BY <1>1, <2>1, <2>2, <3>3 DEF Orderly, Earlier, Alive
        <4>2. QED
          BY <1>1, <3>1, <4>1 DEF YInv, XInv, Typed
      <3>4. QED
        BY <2>3, <3>1, <3>2, <3>3
    <2>9. Stated(s)' /\ Living(s)' /\ Entered(s)'
      BY <2>3, <2>4, <2>5, <2>7 DEF Stated, Living, Entered, Alive
    <2>10. QED
      BY <2>2, <2>8, <2>9 DEF Orderly
  <1>8. report' \in [Sub -> Runs \cup {NoRun}] /\ entry' \in [ID -> Runs \cup {NoRun}]
    BY <1>1 DEF YInv, Tried
  <1>9. QED
    BY <1>1, <1>2, <1>5, <1>6, <1>7, <1>8, YRun

LEMMA YExecute == \A r \in Runs : YInv /\ Execute(r) => YInv'
  <1> SUFFICES ASSUME NEW r \in Runs, YInv, Execute(r) PROVE YInv'
    OBVIOUS
  <1>0. XInv' /\ XInv
    BY XExecute DEF YInv
  <1>a. ASSUME at[r] \in {"launched", "opened", "ended", "marking"}
         PROVE  Own(r[1]) => proc[r] # "alive"
    BY <1>a, TheLast DEF Begun, Orderly, Living, Alive
  <1>1. CASE Launch(r)
    <2>1. at[r] = "picked" /\ at' = [at EXCEPT ![r] = "launched"] /\ SetRunning(r, NoSub)
          /\ UNCHANGED <<proc, entry>>
      BY <1>1 DEF Launch
    <2>2. QED
      BY <1>0, <2>1, YTells DEF SetRunning
  <1>2. CASE OpenOutput(r)
    BY <1>0, <1>a, <1>2, YOnward DEF OpenOutput, Goto, tableVars, UnderWay
  <1>3. CASE StartProcess(r)
    BY <1>0, <1>3, YOnward DEF StartProcess, Goto, tableVars, UnderWay, XInv, Typed
  <1>4. CASE CannotStart(r)
    BY <1>0, <1>a, <1>4, YOnward DEF CannotStart, Goto, tableVars, UnderWay
  <1>5. CASE NotePID(r)
    <2>1. at[r] = "started" /\ at' = [at EXCEPT ![r] = "noted"] /\ SetRunning(r, out[r])
          /\ UNCHANGED <<proc, entry>>
      BY <1>5 DEF NotePID, Goto
    <2>2. QED
      BY <1>0, <2>1, YTells DEF SetRunning, UnderWay
  <1>6. CASE StoreProcess(r)
    BY <1>0, <1>6, YOnward DEF StoreProcess, Goto, tableVars, UnderWay
  <1>7. CASE Reap(r)
    BY <1>0, <1>7, YOnward DEF Reap, Goto, tableVars, UnderWay
  <1>8. CASE Requeue(r)
    BY <1>8, YRequeue
  <1>9. CASE NoRequeue(r)
    BY <1>0, <1>a, <1>9, YOnward DEF NoRequeue, Goto, tableVars, UnderWay
  <1>10. CASE MarkFinished(r)
    <2>1. at[r] = "marking" /\ at' = [at EXCEPT ![r] = "done"]
          /\ state' = [s \in Sub |-> IF s = Target(r) THEN "finished" ELSE state[s]]
          /\ report' = [s \in Sub |-> IF s = Target(r) THEN r ELSE report[s]]
          /\ Crosses(r)
          /\ UNCHANGED <<nextID, idOf, holder, attempt, proc, entry>>
      BY <1>10 DEF MarkFinished, Goto
    <2>2. QED
      BY <1>0, <2>1, YTells DEF UnderWay
  <1>11. QED
    BY <1>1, <1>2, <1>3, <1>4, <1>5, <1>6, <1>7, <1>8, <1>9, <1>10 DEF Execute

LEMMA YNext == YInv /\ [Next]_vars => YInv'
  <1> SUFFICES ASSUME YInv, [Next]_vars PROVE YInv'
    OBVIOUS
  <1>0. XInv' /\ XInv
    BY XNext DEF YInv
  <1>1. CASE Submit
    BY <1>1, YSubmit
  <1>2. ASSUME NEW s \in Sub, RemoveJob(s) PROVE YInv'
    <2>1. Drop({s}) /\ nextID' = nextID
          /\ UNCHANGED <<idOf, attempt, report, at, proc, entry, crossed>>
      BY <1>2 DEF RemoveJob, runVars
    <2>2. QED
      BY <1>0, <2>1, YDrop
  <1>3. CASE ResetDrops
    <2> DEFINE S == {s \in Sub : InTable(s)}
    <2>1. Drop(S) /\ (\A s \in Sub : InTable(s) => s \in S) /\ S \in SUBSET Sub
          /\ UNCHANGED <<idOf, attempt, report, at, proc, entry, crossed>>
      BY <1>3 DEF ResetDrops, runVars
    <2> HIDE DEF S
    <2>2. QED
      BY <1>0, <2>1, YDrop
  <1>4. ASSUME NEW i \in ID, KillJob(i) PROVE YInv'
    <2>1. Term({entry[i]})
          /\ UNCHANGED <<nextID, idOf, holder, state, attempt, report, at, entry, crossed>>
      BY <1>4 DEF KillJob, tableVars
    <2>2. QED
      BY <1>0, <2>1, OnlyEnds, YEnds DEF XInv
  <1>5. CASE ResetKills
    <2>1. Term({entry[i] : i \in ID})
          /\ UNCHANGED <<nextID, idOf, holder, state, attempt, report, at, entry, crossed>>
      BY <1>5 DEF ResetKills, tableVars
    <2>2. QED
      BY <1>0, <2>1, OnlyEnds, YEnds DEF XInv
  <1>6. CASE \E s \in Sub : Pick(s)
    BY <1>6, YPick
  <1>7. CASE \E r \in Runs : Execute(r)
    BY <1>7, YExecute
  <1>8. ASSUME NEW r \in Runs, ProcessExits(r) PROVE YInv'
    <2>1. PICK outcome \in {"ok", "fail"} : proc' = [proc EXCEPT ![r] = outcome]
      BY <1>8 DEF ProcessExits
    <2>2. \A x \in Runs : proc'[x] = "alive" => proc[x] = "alive"
      BY <1>0, <2>1 DEF XInv, Typed
    <2>3. QED
      BY <1>0, <1>8, <2>2, YEnds DEF ProcessExits, tableVars
  <1>9. ASSUME NEW r \in Runs, TimerFires(r) PROVE YInv'
    <2>1. Term({r})
          /\ UNCHANGED <<nextID, idOf, holder, state, attempt, report, at, entry, crossed>>
      BY <1>9 DEF TimerFires, tableVars
    <2>2. QED
      BY <1>0, <2>1, OnlyEnds, YEnds DEF XInv
  <1>10. ASSUME NEW r \in Runs, Escalate(r) PROVE YInv'
    <2>1. proc' = [proc EXCEPT ![r] = IF Alive(r) THEN "fail" ELSE @]
      BY <1>10 DEF Escalate
    <2>2. \A x \in Runs : proc'[x] = "alive" => proc[x] = "alive"
      BY <1>0, <2>1 DEF XInv, Typed, Alive
    <2>3. QED
      BY <1>0, <1>10, <2>2, YEnds DEF Escalate, tableVars
  <1>11. CASE UNCHANGED vars
    BY <1>0, <1>11, YEnds DEF vars, tableVars, runVars
  <1>12. QED
    BY <1>1, <1>2, <1>3, <1>4, <1>5, <1>6, <1>7, <1>8, <1>9, <1>10, <1>11 DEF Next, User

LEMMA YAlways == Spec => []YInv
  BY YInit, YNext, PTL DEF Spec

-----------------------------------------------------------------------------
\* `ru -k' finds the process of the run that waits for it, under the job's ID
\* (executor.go:174, 192, 237): a job's runs follow each other, only the last
\* of them can wait, and nobody but a leftover of a reset enters or clears
\* anything under the job's ID meanwhile.
THEOREM KillsReach == Spec => []KillReaches
  <1>1. YInv => KillReaches
    <2> SUFFICES ASSUME YInv, NEW r \in Runs, at[r] = "waiting", Target(r) = r[1], r[1] \notin crossed
                 PROVE  entry[idOf[r[1]]] = r
      BY DEF KillReaches
    <2>1. r[1] \in Sub /\ r[1] # NoSub
      BY RunsAre
    <2>2. Own(r[1])
      BY <2>1, Targets DEF YInv, XInv, Own
    <2>3. r = Last(r[1]) /\ Orderly(r[1])
      BY <2>2, TheLast DEF Begun
    <2>4. QED
      BY <2>3 DEF Orderly, Entered
  <1>2. QED
    BY <1>1, YAlways, PTL

\* A job is called finished on the word of its last attempt, when none of its
\* processes lives any more (scheduler.go:81-96): the attempts before it had
\* to end for it to be made, and the last reports after it reaped its process.
THEOREM FinishedMeansOver == Spec => []FinishedIsOver
  <1>1. YInv => FinishedIsOver
    <2> SUFFICES ASSUME YInv, NEW s \in Sub, state[s] = "finished", s \notin crossed
                 PROVE  /\ report[s] = <<s, attempt[s]>>
                        /\ \A a \in Attempts(s) : ~Alive(<<s, a>>)
      BY DEF FinishedIsOver
    <2>1. Own(s) /\ Orderly(s)
      BY DEF Own, InTable, YInv
    <2>2. at[Last(s)] = "done" /\ report[s] = Last(s) /\ ~Alive(Last(s))
      BY <2>1 DEF Orderly, Stated, Living
    <2>3. ASSUME NEW a \in Attempts(s) PROVE ~Alive(<<s, a>>)
      <3>1. <<s, a>> \in Runs /\ a \in Nat /\ attempt[s] \in Nat
        BY RunsAre DEF YInv, XInv, Typed
      <3>2. CASE a < attempt[s]
        BY <2>1, <3>2 DEF Orderly, Earlier
      <3>3. CASE a = attempt[s]
        BY <2>2, <3>3 DEF Last
      <3>4. CASE a > attempt[s]
        <4>1. ~(a <= attempt[s])
          BY <3>1, <3>4
        <4>2. ~Begun(<<s, a>>)
          BY <3>1, <4>1 DEF YInv, XInv, RunsKnown
        <4>3. QED
          BY <4>2 DEF Begun, Alive
      <3>5. QED
        BY <3>1, <3>2, <3>3, <3>4
    <2>4. QED
      BY <2>2, <2>3 DEF Last
  <1>2. QED
    BY <1>1, YAlways, PTL

-----------------------------------------------------------------------------
(* The output.  The name chosen with a job is that job's and its runs' alone *)
(* until it leaves the table: whoever passes it on names, at NotePID, the    *)
(* job that holds the ID, and that is the job itself.                        *)

OutTyped ==
    /\ file \in [Sub -> Sub]
    /\ out \in [Runs -> Sub \cup {NoSub}]
    /\ written \in [Sub -> SUBSET Runs] /\ errors \in [Sub -> SUBSET Runs]

OpenedBegun == \A r \in Runs : out[r] # NoSub => at[r] # "none"
Renamed ==
    /\ \A s \in Sub : file[s] # s => s \in crossed
    /\ \A r \in Runs : out[r] \notin {r[1], NoSub} => r[1] \in crossed
Private(s) ==
    /\ \A t \in Sub : file[t] = s => t = s
    /\ \A r \in Runs : out[r] = s \/ r \in written[s] \cup errors[s] => r[1] = s
Written ==
    \A r \in Runs :
        InTable(r[1]) /\ r[1] \notin crossed /\ out[r] # NoSub => r \in written[r[1]]

ZInv ==
    /\ YInv /\ OutTyped /\ OpenedBegun /\ Renamed /\ Written
    /\ \A s \in Sub : state[s] # "gone" => Private(s)

LEMMA ZInit == Init => ZInv
  <1> SUFFICES ASSUME Init PROVE ZInv
    OBVIOUS
  <1>1. YInv
    BY YInit
  <1>2. OutTyped /\ OpenedBegun /\ Renamed /\ Written
    BY RunsAre DEF Init, OutTyped, OpenedBegun, Renamed, Written
  <1>3. \A s \in Sub : Private(s)
    BY RunsAre DEF Init, Private
  <1>4. QED
    BY <1>1, <1>2, <1>3 DEF ZInv

\* A step that touches no file and names none.
LEMMA ZQuiet ==
    ASSUME ZInv, YInv', UNCHANGED <<file, out, written, errors>>,
           \A r \in Runs : at'[r] = "none" => at[r] = "none",
           \A s \in Sub : InTable(s)' => InTable(s),
           \A s \in Sub : state'[s] # "gone" => state[s] # "gone",
           crossed \subseteq crossed'
    PROVE  ZInv'
  <1>1. OutTyped' /\ OpenedBegun' /\ Renamed'
    BY DEF ZInv, OutTyped, OpenedBegun, Renamed
  <1>2. Written'
    BY RunsAre DEF ZInv, Written
  <1>3. \A s \in Sub : state'[s] # "gone" => Private(s)'
    BY DEF ZInv, Private
  <1>4. QED
    BY <1>1, <1>2, <1>3 DEF ZInv

LEMMA ZSubmit == ZInv /\ Submit => ZInv'
  <1> SUFFICES ASSUME ZInv, Submit PROVE ZInv'
    OBVIOUS
  <1>1. PICK s : s = made + 1
    OBVIOUS
  <1>2. /\ state' = [state EXCEPT ![s] = "queued"]
        /\ UNCHANGED <<file, out, written, errors, at, crossed>>
    BY <1>1 DEF Submit, runVars, outputVars
  <1>3. YInv' /\ OutTyped' /\ OpenedBegun' /\ Renamed'
    BY <1>2, YSubmit DEF ZInv, OutTyped, OpenedBegun, Renamed
  <1>4. \A x \in Sub : x # s => state'[x] = state[x]
    BY <1>2 DEF ZInv, YInv, XInv, Typed
  <1>5. made \in Nat /\ (s \in Sub => state[s] = "none")
    BY <1>1 DEF ZInv, YInv, XInv, Typed, MadeOnly
  <1>6. Written'
    <2> SUFFICES ASSUME NEW r \in Runs, InTable(r[1])', r[1] \notin crossed, out[r] # NoSub
                 PROVE  r \in written[r[1]]
      BY <1>2 DEF Written
    <2>1. r[1] \in Sub /\ r[1] <= made /\ r[1] # s
      BY <1>1, <1>5, RunsAre DEF ZInv, OpenedBegun, YInv, XInv, RunsKnown, Begun, Sub
    <2>2. InTable(r[1])
      BY <1>4, <2>1 DEF InTable
    <2>3. QED
      BY <2>2 DEF ZInv, Written
  <1>7. ASSUME NEW x \in Sub, state'[x] # "gone" PROVE Private(x)'
    <2>1. state[x] # "gone"
      BY <1>4, <1>5, <1>7
    <2>2. QED
      BY <1>2, <2>1 DEF ZInv, Private
  <1>8. QED
    BY <1>3, <1>6, <1>7 DEF ZInv

\* Only the files of the jobs that leave are deleted.
LEMMA ZDrop ==
    ASSUME ZInv, YInv', NEW S \in SUBSET Sub, Drop(S), UNCHANGED <<file, out, at, crossed>>
    PROVE  ZInv'
  <1>1. PICK D : D = {file[s] : s \in S}
    OBVIOUS
  <1>2. /\ state' = [s \in Sub |-> IF s \in S THEN "gone" ELSE state[s]]
        /\ written' = [f \in Sub |-> IF f \in D THEN {} ELSE written[f]]
        /\ errors' = [f \in Sub |-> IF f \in D THEN {} ELSE errors[f]]
    BY <1>1 DEF Drop
  <1>3. OutTyped' /\ OpenedBegun' /\ Renamed'
    BY <1>2 DEF ZInv, OutTyped, OpenedBegun, Renamed
  <1>4. \A s \in Sub : state'[s] # "gone" => state[s] # "gone" /\ s \notin D /\ state'[s] = state[s]
    BY <1>1, <1>2 DEF ZInv, Private
  <1>5. Written'
    <2> SUFFICES ASSUME NEW r \in Runs, InTable(r[1])', r[1] \notin crossed, out[r] # NoSub
                 PROVE  r \in written'[r[1]]
      BY DEF Written
    <2>1. r[1] \in Sub /\ InTable(r[1]) /\ r[1] \notin D
      BY <1>4, RunsAre DEF InTable
    <2>2. QED
      BY <1>2, <2>1 DEF ZInv, Written
  <1>6. ASSUME NEW s \in Sub, state'[s] # "gone" PROVE Private(s)'
    <2>1. Private(s) /\ written'[s] = written[s] /\ errors'[s] = errors[s]
      BY <1>2, <1>4, <1>6 DEF ZInv
    <2>2. QED
      BY <2>1 DEF Private
  <1>7. QED
    BY <1>3, <1>5, <1>6 DEF ZInv

LEMMA ZOpen == \A r \in Runs : ZInv /\ OpenOutput(r) => ZInv'
  <1> SUFFICES ASSUME NEW r \in Runs, ZInv, OpenOutput(r) PROVE ZInv'
    OBVIOUS
  <1>1. PICK f : f = file[r[1]]
    OBVIOUS
  <1>2. PICK W : W = IF attempt[r[1]] > 0 THEN written[f] \cup {r} ELSE {r}
    OBVIOUS
  <1>3. /\ out' = [out EXCEPT ![r] = f]
        /\ written' = [written EXCEPT ![f] = W]
        /\ errors' \in {errors, [errors EXCEPT ![f] = {r}]}
        /\ at[r] = "launched" /\ at' = [at EXCEPT ![r] = "opened"]
        /\ UNCHANGED <<state, file, crossed>>
    BY <1>1, <1>2 DEF OpenOutput, CreateErrors, Goto, tableVars
  <1>4. r[1] \in Sub /\ f \in Sub /\ W \in SUBSET Runs
    BY <1>1, <1>2, RunsAre DEF ZInv, OutTyped
  <1>5. /\ \A x \in Runs : out'[x] = IF x = r THEN f ELSE out[x]
        /\ \A s \in Sub : written'[s] = IF s = f THEN W ELSE written[s]
        /\ \A s \in Sub : errors'[s] = errors[s] \/ (s = f /\ errors'[s] = {r})
    BY <1>3, <1>4 DEF ZInv, OutTyped
  <1>6. OutTyped'
    BY <1>3, <1>4 DEF ZInv, OutTyped
  <1>7. YInv' /\ YInv
    BY YExecute DEF ZInv, Execute
  <1>8. OpenedBegun' /\ Renamed'
    <2>1. OpenedBegun'
      BY <1>3, <1>5 DEF ZInv, OpenedBegun, YInv, XInv, Typed
    <2>2. f # r[1] => r[1] \in crossed
      BY <1>1, <1>4 DEF ZInv, Renamed
    <2>3. QED
      BY <1>3, <1>5, <2>1, <2>2 DEF ZInv, Renamed
  <1>9. state[f] # "gone" => r[1] = f
    BY <1>1, <1>4 DEF ZInv, Private
  <1>10. ASSUME NEW x \in Runs, InTable(x[1]), x[1] \notin crossed, out'[x] # NoSub
         PROVE  x \in written'[x[1]]
    <2>1. x[1] \in Sub /\ file[x[1]] = x[1]
      BY <1>10, RunsAre DEF ZInv, Renamed
    <2>2. out[x] # NoSub /\ x # r => x \in written[x[1]]
      BY <1>10 DEF ZInv, Written
    <2>3. CASE x[1] # f
      BY <1>1, <1>5, <1>10, <2>1, <2>2, <2>3
    <2>4. CASE x[1] = f
      <3>1. x[1] = r[1] /\ attempt[r[1]] \in Nat
        BY <1>4, <1>7, <1>9, <1>10, <2>4 DEF InTable, XInv, YInv, Typed
      <3>2. CASE attempt[r[1]] > 0
        BY <1>2, <1>5, <1>10, <2>1, <2>2, <2>4, <3>2
      <3>3. CASE attempt[r[1]] = 0
        <4>1. Begun(x) /\ Begun(r)
          BY <1>3, <1>5, <1>10 DEF ZInv, OpenedBegun, Begun
        <4>2. x[2] <= 0 /\ r[2] <= 0 /\ x[2] \in Nat /\ r[2] \in Nat
          BY <1>7, <3>1, <3>3, <4>1, RunsAre DEF YInv, XInv, RunsKnown
        <4>3. x = r
          BY <3>1, <4>2, RunsAre
        <4>4. QED
          BY <1>2, <1>5, <2>1, <2>4, <4>3
      <3>4. QED
        BY <3>1, <3>2, <3>3
    <2>5. QED
      BY <2>3, <2>4
  <1>11. Written'
    BY <1>3, <1>10 DEF Written, InTable
  <1>12. ASSUME NEW s \in Sub, state[s] # "gone" PROVE Private(s)'
    <2>1. Private(s) /\ (s = f => r[1] = s)
      BY <1>9, <1>12 DEF ZInv
    <2>2. s = f => \A x \in W : x = r \/ x \in written[s]
      BY <1>2
    <2>3. \A x \in Runs : out'[x] = s \/ x \in written'[s] \cup errors'[s] => x[1] = s
      BY <1>5, <2>1, <2>2 DEF Private
    <2>4. QED
      BY <1>3, <2>1, <2>3 DEF Private
  <1>13. QED
    BY <1>3, <1>6, <1>7, <1>8, <1>11, <1>12 DEF ZInv

\* The name a run passes on is its own job's, unless that job is gone; and
\* while it is not, the run passes it to that job.
LEMMA ZNote == \A r \in Runs : ZInv /\ NotePID(r) => ZInv'
  <1> SUFFICES ASSUME NEW r \in Runs, ZInv, NotePID(r) PROVE ZInv'
    OBVIOUS
  <1>1. PICK t : t = Target(r)
    OBVIOUS
  <1>2. /\ at[r] = "started" /\ at' = [at EXCEPT ![r] = "noted"]
        /\ state' = [s \in Sub |-> IF s = t THEN "running" ELSE state[s]]
        /\ file' = [s \in Sub |-> IF s = t /\ out[r] # NoSub THEN out[r] ELSE file[s]]
        /\ crossed' = crossed \cup ({t} \ {r[1], NoSub})
        /\ UNCHANGED <<out, written, errors>>
    BY <1>1 DEF NotePID, SetRunning, Goto, Crosses, outputVars
  <1>3. YInv' /\ YInv
    BY YExecute DEF ZInv, Execute
  <1>4. t \in Sub \cup {NoSub} /\ (t # NoSub => InTable(t)) /\ r[1] \in Sub
    BY <1>1, <1>3, Targets, RunsAre DEF YInv, XInv
  <1>5. OutTyped'
    BY <1>2 DEF ZInv, OutTyped
  <1>6. OpenedBegun'
    BY <1>2 DEF ZInv, OpenedBegun, YInv, XInv, Typed
  <1>7. \A s \in Sub : InTable(s)' = InTable(s) /\ (state'[s] # "gone" <=> state[s] # "gone")
    BY <1>2, <1>4, RunsAre DEF InTable
  <1>8. ASSUME NEW s \in Sub, state[s] # "gone", out[r] = s PROVE r[1] = s /\ t = s
    <2>1. r[1] = s
      BY <1>8 DEF ZInv, Private
    <2>2. s <= made
      BY <1>2, <1>3, <2>1 DEF YInv, XInv, RunsKnown, Begun
    <2>3. InTable(s)
      BY <1>3, <1>8, <2>2 DEF YInv, XInv, Typed, MadeOnly, InTable
    <2>4. QED
      BY <1>1, <1>3, <2>1, <2>3 DEF YInv, Filed, Target
  <1>9. Renamed'
    <2>0. ASSUME NEW x \in Runs, out'[x] \notin {x[1], NoSub} PROVE x[1] \in crossed'
      BY <1>2, <2>0 DEF ZInv, Renamed
    <2> SUFFICES ASSUME NEW s \in Sub, file'[s] # s PROVE s \in crossed'
      BY <2>0 DEF Renamed
    <2>1. CASE file'[s] = file[s]
      BY <1>2, <2>1 DEF ZInv, Renamed
    <2>2. CASE file'[s] # file[s]
      <3>1. s = t /\ out[r] \in Sub /\ file'[s] = out[r]
        BY <1>2, <2>2 DEF ZInv, OutTyped
      <3>2. CASE s = r[1]
        <4>1. out[r] \notin {r[1], NoSub}
          BY <3>1, <3>2, RunsAre
        <4>2. QED
          BY <1>2, <3>2, <4>1 DEF ZInv, Renamed
      <3>3. CASE s # r[1]
        BY <1>2, <3>1, <3>3, RunsAre
      <3>4. QED
        BY <3>2, <3>3
    <2>3. QED
      BY <2>1, <2>2
  <1>10. Written'
    BY <1>2, <1>7, RunsAre DEF ZInv, Written
  <1>11. ASSUME NEW s \in Sub, state'[s] # "gone" PROVE Private(s)'
    <2>1. Private(s) /\ state[s] # "gone"
      BY <1>7, <1>11 DEF ZInv
    <2>2. ASSUME NEW x \in Sub, file'[x] = s PROVE x = s
      <3>1. file[x] = s \/ (x = t /\ out[r] = s)
        BY <1>2, <2>2
      <3>2. QED
        BY <1>8, <2>1, <3>1 DEF Private
    <2>3. QED
      BY <1>2, <2>1, <2>2 DEF Private
  <1>12. QED
    BY <1>3, <1>5, <1>6, <1>9, <1>10, <1>11 DEF ZInv

\* A run goes on, and may tell the table about its target.
LEMMA ZMoves ==
    ASSUME ZInv, YInv', NEW r \in Runs, NEW phase, phase # "none", at' = [at EXCEPT ![r] = phase],
           UNCHANGED <<file, out, written, errors>>,
           NEW how \in {"running", "queued", "finished"},
           state' = state \/ state' = [s \in Sub |-> IF s = Target(r) THEN how ELSE state[s]],
           crossed \subseteq crossed'
    PROVE  ZInv'
  <1>1. \A x \in Runs : at'[x] = "none" => at[x] = "none"
    BY DEF ZInv, YInv, XInv, Typed
  <1>2. Target(r) # NoSub => InTable(Target(r))
    BY Targets DEF ZInv, YInv, XInv
  <1>3. \A s \in Sub : /\ InTable(s)' => InTable(s)
                       /\ state'[s] # "gone" => state[s] # "gone"
    BY <1>2, RunsAre DEF InTable
  <1>4. QED
    BY <1>1, <1>3, ZQuiet

LEMMA ZExecute == \A r \in Runs : ZInv /\ Execute(r) => ZInv'
  <1> SUFFICES ASSUME NEW r \in Runs, ZInv, Execute(r) PROVE ZInv'
    OBVIOUS
  <1>0. YInv' /\ YInv
    BY YExecute DEF ZInv
  <1>1. CASE Launch(r)
    <2>1. /\ at' = [at EXCEPT ![r] = "launched"]
          /\ state' = [s \in Sub |-> IF s = Target(r) THEN "running" ELSE state[s]]
          /\ file' = [s \in Sub |-> file[s]] /\ crossed \subseteq crossed'
          /\ UNCHANGED <<out, written, errors>>
      BY <1>1 DEF Launch, SetRunning, Crosses, outputVars
    <2>2. file' = file
      BY <2>1 DEF ZInv, OutTyped
    <2>3. QED
      BY <1>0, <2>1, <2>2, ZMoves
  <1>2. CASE OpenOutput(r)
    BY <1>2, ZOpen
  <1>3. CASE StartProcess(r)
    BY <1>0, <1>3, ZMoves DEF StartProcess, Goto, tableVars, outputVars
  <1>4. CASE CannotStart(r)
    BY <1>0, <1>4, ZMoves DEF CannotStart, Goto, tableVars, outputVars
  <1>5. CASE NotePID(r)
    BY <1>5, ZNote
  <1>6. CASE StoreProcess(r)
    BY <1>0, <1>6, ZMoves DEF StoreProcess, Goto, Crosses, tableVars, outputVars
  <1>7. CASE Reap(r)
    BY <1>0, <1>7, ZMoves DEF Reap, Goto, Crosses, tableVars, outputVars
  <1>8. CASE Requeue(r)
    <2>1. state' = [s \in Sub |-> IF s = Target(r) THEN "queued" ELSE state[s]]
      BY <1>0, <1>8 DEF Requeue, YInv, XInv, Typed
    <2>2. QED
      BY <1>0, <1>8, <2>1, ZMoves DEF Requeue, Goto, Crosses, outputVars
  <1>9. CASE NoRequeue(r)
    BY <1>0, <1>9, ZMoves DEF NoRequeue, Goto, tableVars, outputVars
  <1>10. CASE MarkFinished(r)
    BY <1>0, <1>10, ZMoves DEF MarkFinished, Goto, Crosses, outputVars
  <1>11. QED
    BY <1>1, <1>2, <1>3, <1>4, <1>5, <1>6, <1>7, <1>8, <1>9, <1>10 DEF Execute

\* Every other step touches no file and gives no name.
LEMMA ZNext == ZInv /\ [Next]_vars => ZInv'
  <1> SUFFICES ASSUME ZInv, [Next]_vars PROVE ZInv'
    OBVIOUS
  <1>0. YInv' /\ YInv /\ Typed
    BY YNext DEF ZInv, YInv, XInv
  <1>1. CASE Submit
    BY <1>1, ZSubmit
  <1>2. ASSUME NEW s \in Sub, RemoveJob(s) PROVE ZInv'
    BY <1>0, <1>2, ZDrop DEF RemoveJob, runVars
  <1>3. CASE ResetDrops
    <2> DEFINE S == {s \in Sub : InTable(s)}
    <2>1. Drop(S) /\ S \in SUBSET Sub /\ UNCHANGED <<file, out, at, crossed>>
      BY <1>3 DEF ResetDrops, runVars
    <2> HIDE DEF S
    <2>2. QED
      BY <1>0, <2>1, ZDrop
  <1>4. ASSUME NEW s \in Sub, Pick(s) PROVE ZInv'
    <2>1. at' = [at EXCEPT ![<<s, attempt[s]>>] = "picked"]
          /\ UNCHANGED <<state, file, out, written, errors, crossed>>
      BY <1>4 DEF Pick, tableVars, outputVars
    <2>2. \A r \in Runs : at'[r] = "none" => at[r] = "none"
      BY <1>0, <2>1 DEF Typed
    <2>3. QED
      BY <1>0, <2>1, <2>2, ZQuiet DEF InTable
  <1>5. ASSUME NEW r \in Runs, Execute(r) PROVE ZInv'
    BY <1>5, ZExecute
  <1>6. ASSUME UNCHANGED <<state, file, out, written, errors, at, crossed>> PROVE ZInv'
    BY <1>0, <1>6, ZQuiet DEF InTable
  <1>7. ASSUME NEW r \in Runs, ProcessExits(r) \/ TimerFires(r) \/ Escalate(r) PROVE ZInv'
    BY <1>6, <1>7 DEF ProcessExits, TimerFires, Escalate, tableVars, outputVars
  <1>8. ASSUME NEW i \in ID, KillJob(i) PROVE ZInv'
    BY <1>6, <1>8 DEF KillJob, tableVars, outputVars
  <1>9. CASE ResetKills
    BY <1>6, <1>9 DEF ResetKills, tableVars, outputVars
  <1>10. CASE UNCHANGED vars
    BY <1>6, <1>10 DEF vars, tableVars, runVars, outputVars
  <1>11. QED
    BY <1>1, <1>2, <1>3, <1>4, <1>5, <1>7, <1>8, <1>9, <1>10 DEF Next, User

\* The file of a job in the table has what every attempt wrote, and it and the
\* .e file nothing of another's: a first attempt truncates before any other has
\* written (executor.go:111), a retry appends (executor.go:109), and a name is
\* written into another job only by a leftover of one that is gone
\* (executor.go:172, jobs.go:221-223), which marks that job as crossed.
THEOREM OutputIsKept == Spec => []OutputKept
  <1>1. ZInv => OutputKept
    <2> SUFFICES ASSUME ZInv, NEW s \in Sub, InTable(s), s \notin crossed
                 PROVE  /\ \A r \in Runs : r[1] = s /\ out[r] # NoSub => r \in written[file[s]]
                        /\ \A r \in written[file[s]] \cup errors[file[s]] : r[1] = s
      BY DEF OutputKept
    <2>1. file[s] = s /\ Private(s)
      BY DEF ZInv, Renamed, InTable
    <2>2. written[s] \cup errors[s] \subseteq Runs
      BY DEF ZInv, OutTyped
    <2>3. QED
      BY <2>1, <2>2 DEF ZInv, Written, Private
  <1>2. Spec => []ZInv
    BY ZInit, ZNext, PTL DEF Spec
  <1>3. QED
    BY <1>1, <1>2, PTL

=============================================================================
