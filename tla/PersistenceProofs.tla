-------------------------- MODULE PersistenceProofs --------------------------
(***************************************************************************)
(* No change of the queue is forgotten, an ID names one job and a running  *)
(* job has an owner, for any number of submissions, handlers, restarts and *)
(* failed writes.                                                          *)
(***************************************************************************)
EXTENDS Persistence, TLAPS

LEMMA EmptyType == NoQueue \in Queue /\ NoSnapshot \in Snapshot
  BY DEF NoQueue, NoSnapshot, Queue, Snapshot, State

\* The types without the two flags, which are for another prover.
Flags == up \in BOOLEAN /\ dirty \in BOOLEAN

DataOK ==
    /\ queue \in Queue
    /\ disk \in Queue
    /\ pc \in [Goroutine -> Saving \cup {"idle", "reply", "launched", "live"}]
    /\ todo \in [Goroutine -> Ticket \cup {None, Exit}]
    /\ snap \in [Goroutine -> Snapshot]
    /\ version \in Nat
    /\ saved \in Nat
    /\ made \subseteq Ticket
    /\ served \subseteq Ticket
    /\ stops \in 0..MaxStops

LEMMA TypeSplit == TypeOK <=> Flags /\ DataOK
  BY Zenon DEF TypeOK, Flags, DataOK

LEMMA TypeSplitNext == TypeOK' <=> Flags' /\ DataOK'
  BY Zenon DEF TypeOK, Flags, DataOK

LEMMA InitType == Init => TypeOK
  <1>1. Init => Flags
    BY DEF Init, Flags
  <1>2. Init => queue \in Queue /\ disk \in Queue /\ made \subseteq Ticket /\ served \subseteq Ticket
    BY EmptyType DEF Init
  <1>3. Init => pc \in [Goroutine -> Saving \cup {"idle", "reply", "launched", "live"}]
    BY DEF Init
  <1>4. Init => todo \in [Goroutine -> Ticket \cup {None, Exit}] /\ snap \in [Goroutine -> Snapshot]
    BY EmptyType DEF Init
  <1>5. Init => version \in Nat /\ saved \in Nat
    BY DEF Init
  <1>6. Init => stops \in 0..MaxStops
    BY PersistenceAssumption DEF Init
  <1>7. QED
    BY <1>1, <1>2, <1>3, <1>4, <1>5, <1>6, TypeSplit DEF DataOK

\* What the changes make of a queue is a queue.
LEMMA AddedType ==
    ASSUME NEW q \in Queue, NEW t \in Ticket
    PROVE  /\ Added(q, t) \in Queue
           /\ Added(q, t).next = q.next + 1
           /\ \A s \in Ticket : Added(q, t).id[s] = IF s = t THEN q.next ELSE q.id[s]
           /\ \A s \in Ticket : Added(q, t).state[s] = IF s = t THEN "queued" ELSE q.state[s]
  <1>1. q.next \in Nat /\ q.id \in [Ticket -> Nat]
        /\ q.state \in [Ticket -> State]
    BY DEF Queue
  <1>2. /\ q.next + 1 \in Nat
        /\ [q.id EXCEPT ![t] = q.next] \in [Ticket -> Nat]
    BY <1>1
  <1>3. [q.state EXCEPT ![t] = "queued"] \in [Ticket -> State]
    BY <1>1 DEF State
  <1>4. QED
    BY <1>1, <1>2, <1>3 DEF Added, Queue

LEMMA MovedType ==
    ASSUME NEW q \in Queue, NEW t \in Ticket, NEW s \in State
    PROVE  /\ Moved(q, t, s) \in Queue
           /\ Moved(q, t, s).next = q.next /\ Moved(q, t, s).id = q.id
           /\ \A u \in Ticket : Moved(q, t, s).state[u] = IF u = t THEN s ELSE q.state[u]
  <1>1. q.state \in [Ticket -> State]
    BY DEF Queue
  <1>2. [q.state EXCEPT ![t] = s] \in [Ticket -> State]
    BY <1>1
  <1>3. QED
    BY <1>1, <1>2 DEF Moved, Queue

LEMMA LoadedType ==
    ASSUME NEW q \in Queue
    PROVE  /\ Loaded(q) \in Queue
           /\ Loaded(q).next = q.next /\ Loaded(q).id = q.id
           /\ \A t \in Ticket : Loaded(q).state[t] =
                 IF q.state[t] = "running" THEN "over" ELSE q.state[t]
  <1> DEFINE f == [t \in Ticket |-> IF q.state[t] = "running" THEN "over" ELSE q.state[t]]
  <1>1. q.state \in [Ticket -> State]
    BY DEF Queue
  <1>2. f \in [Ticket -> State]
    BY <1>1 DEF State
  <1>3. QED
    BY <1>2 DEF Loaded, Queue

LEMMA FlagsStep == Flags /\ [Next]_vars => Flags'
  <1>1. SUFFICES ASSUME Flags, [Next]_vars PROVE Flags'
    OBVIOUS
  <1> USE <1>1 DEF Flags, mem, goroutines, history
  <1>2. CASE UNCHANGED vars
    BY <1>2, Zenon DEF vars
  <1>3. ASSUME NEW h \in Handler, NEW t \in Ticket, Submit(h, t) PROVE Flags'
    BY <1>3, Zenon DEF Submit, Change
  <1>4. ASSUME NEW h \in Handler, Reply(h) \/ Shutdown(h) PROVE Flags'
    BY <1>4, Zenon DEF Reply, Shutdown
  <1>5. ASSUME Down PROVE Flags'
    BY <1>5, Zenon DEF Down
  <1>6. ASSUME NEW t \in Ticket, Start(t) \/ Skip(t) \/ Started(t) \/ Finish(t) PROVE Flags'
    BY <1>6, Zenon DEF Start, Skip, Started, Finish, Change
  <1>7. ASSUME NEW t \in Ticket, Launch(t) PROVE Flags'
    BY <1>7, Zenon DEF Launch
  <1>8. ASSUME NEW g \in Goroutine, Save(g) PROVE Flags'
    BY <1>8, Zenon DEF Save, SaveBegins, Replace, WriteFails, MarkDirty, Done
  <1>9. CASE Boot
    BY <1>9, Zenon DEF Boot
  <1>10. QED
    BY <1>1, <1>2, <1>3, <1>4, <1>5, <1>6, <1>7, <1>8, <1>9, Zenon DEF Next, Leave, Crash

LEMMA DataStep == DataOK /\ [Next]_vars => DataOK'
  <1>1. SUFFICES ASSUME DataOK, [Next]_vars PROVE DataOK'
    OBVIOUS
  <1> USE DEF DataOK, Goroutine, Saving, mem, goroutines, history
  <1>2. CASE UNCHANGED vars
    BY <1>1, <1>2 DEF vars
  <1>3. ASSUME NEW h \in Handler, NEW t \in Ticket, Submit(h, t) PROVE DataOK'
    BY <1>1, <1>3, AddedType DEF Submit, Change, GoesTo
  <1>4. ASSUME NEW h \in Handler, Reply(h) \/ Shutdown(h) PROVE DataOK'
    BY <1>1, <1>4 DEF Reply, Shutdown, GoesTo
  <1>5. ASSUME Down, stops < MaxStops PROVE DataOK'
    BY <1>1, <1>5, EmptyType, PersistenceAssumption DEF Down
  <1>6. ASSUME NEW t \in Ticket, Start(t) \/ Skip(t) \/ Started(t) \/ Finish(t) PROVE DataOK'
    <2>1. Moved(queue, t, "running") \in Queue /\ Moved(queue, t, "over") \in Queue
      BY <1>1, MovedType DEF State
    <2>2. CASE Start(t)
      BY <1>1, <2>1, <2>2 DEF Start, Change, GoesTo
    <2>3. CASE Skip(t)
      BY <1>1, <2>1, <2>3 DEF Skip, Change
    <2>4. CASE Started(t)
      BY <1>1, <2>4 DEF Started, Change, GoesTo
    <2>5. CASE Finish(t)
      BY <1>1, <2>1, <2>5 DEF Finish, Change, GoesTo
    <2>6. QED
      BY <1>6, <2>2, <2>3, <2>4, <2>5
  <1>7. ASSUME NEW t \in Ticket, Launch(t) PROVE DataOK'
    <2>1. pc' \in [Goroutine -> Saving \cup {"idle", "reply", "launched", "live"}]
      BY <1>1, <1>7 DEF Launch
    <2>2. QED
      BY <1>1, <1>7, <2>1 DEF Launch
  <1>8. ASSUME NEW g \in Goroutine, Save(g) PROVE DataOK'
    <2>1. snap[g] \in Snapshot /\ snap[g].queue \in Queue /\ snap[g].version \in Nat
      BY <1>1 DEF Snapshot
    <2>2. CASE SaveBegins(g)
      BY <1>1, <2>2 DEF SaveBegins, Snapshot
    <2>3. CASE Replace(g) \/ WriteFails(g)
      BY <1>1, <2>1, <2>3, EmptyType DEF Replace, WriteFails, SaveEnds
    <2>4. CASE MarkDirty(g) \/ Done(g)
      BY <1>1, <2>4 DEF MarkDirty, Done, GoesTo
    <2>5. QED
      BY <1>8, <2>2, <2>3, <2>4 DEF Save
  <1>9. CASE Boot
    BY <1>1, <1>9, LoadedType DEF Boot
  <1>10. QED
    BY <1>1, <1>2, <1>3, <1>4, <1>5, <1>6, <1>7, <1>8, <1>9 DEF Next, Leave, Crash

LEMMA TypeStep == TypeOK /\ [Next]_vars => TypeOK'
  BY FlagsStep, DataStep, TypeSplit, TypeSplitNext

\* The variables keep their types.
THEOREM TypeCorrect == Spec => []TypeOK
  BY InitType, TypeStep, PTL DEF Spec

-----------------------------------------------------------------------------
\* A step that leaves queue, file and copies alone keeps them sound.
LEMMA CopiesKeep ==
    ASSUME CopiesSound, UNCHANGED <<queue, version, disk, snap, saved, made>>
    PROVE  CopiesSound' /\ IdsDistinct'
  <1>1. Sound(queue, made)' /\ Sound(disk, made)'
    BY DEF CopiesSound, Sound, WellNumbered
  <1>2. \A g \in Goroutine : Sound(snap[g].queue, made)'
    BY DEF CopiesSound, Sound, WellNumbered
  <1>3. \A g \in Goroutine : snap'[g].version <= version'
    BY DEF CopiesSound
  <1>4. saved' <= version'
    BY DEF CopiesSound
  <1>5. QED
    BY <1>1, <1>2, <1>3, <1>4 DEF CopiesSound, IdsDistinct, Sound

\* A change of the queue leaves file and copies alone, and they are older now.
LEMMA CopiesChange ==
    ASSUME CopiesSound, TypeOK, NEW q, Change(q), Sound(q, made'), UNCHANGED <<disk, snap, saved>>,
           made \subseteq made'
    PROVE  CopiesSound' /\ IdsDistinct'
  <1>1. queue' = q /\ version' = version + 1
    BY DEF Change
  <1>2. Sound(queue, made)'
    BY <1>1 DEF Sound, WellNumbered
  <1>3. Sound(disk, made)'
    BY DEF CopiesSound, Sound, WellNumbered
  <1>4. \A g \in Goroutine : Sound(snap[g].queue, made)'
    BY DEF CopiesSound, Sound, WellNumbered
  <1>5. \A g \in Goroutine : snap[g].version \in Nat /\ snap[g].version <= version
    BY TypeSplit DEF CopiesSound, DataOK, Snapshot
  <1>6. version \in Nat /\ saved \in Nat /\ saved <= version
    BY TypeSplit DEF CopiesSound, DataOK
  <1>7. \A g \in Goroutine : snap'[g].version <= version'
    BY <1>1, <1>5, <1>6
  <1>8. saved' <= version'
    BY <1>1, <1>6
  <1>9. QED
    BY <1>2, <1>3, <1>4, <1>7, <1>8 DEF CopiesSound, IdsDistinct, Sound

\* A dirty queue is not forgotten, nor one whose writers go on writing.
LEMMA DirtyKeeps ==
    ASSUME NEW q, Change(q)
    PROVE  NothingForgotten'
  BY Zenon DEF Change, NothingForgotten

LEMMA ForgottenKeep ==
    ASSUME NothingForgotten, NEW h \in Goroutine, pc[h] \notin {"write", "failed"},
           UNCHANGED <<up, dirty, version, saved, snap>>,
           \A g \in Goroutine \ {h} : pc'[g] = pc[g]
    PROVE  NothingForgotten'
  <1>1. SUFFICES ASSUME up, ~dirty, saved # version
                 PROVE  \E g \in Goroutine : Carries(g)' \/ pc'[g] = "failed"
    BY Zenon DEF NothingForgotten
  <1>2. PICK g \in Goroutine : Carries(g) \/ pc[g] = "failed"
    BY <1>1, Zenon DEF NothingForgotten
  <1>3. g # h
    BY <1>2 DEF Carries
  <1>4. pc'[g] = pc[g]
    BY <1>3
  <1>5. QED
    BY <1>2, <1>4 DEF Carries

\* A change of state keeps the numbering, and so do a new job and a load.
LEMMA StateKeepsSound ==
    ASSUME NEW q \in Queue, NEW m, Sound(q, m), NEW t \in Ticket, q.state[t] # "absent",
           NEW s \in State \ {"absent"}
    PROVE  Sound(Moved(q, t, s), m)
  <1>1. /\ \A u \in Ticket : Moved(q, t, s).state[u] = IF u = t THEN s ELSE q.state[u]
        /\ Moved(q, t, s).next = q.next /\ Moved(q, t, s).id = q.id
    BY MovedType
  <1> DEFINE p == Moved(q, t, s)
  <1> HIDE DEF p
  <1>2. /\ \A u \in Ticket : p.state[u] # "absent" <=> q.state[u] # "absent"
        /\ p.next = q.next /\ p.id = q.id
    BY <1>1 DEF p
  <1>3. WellNumbered(p)
    BY <1>2 DEF Sound, WellNumbered
  <1>4. \A u \in Ticket \ m : p.state[u] = "absent"
    BY <1>2 DEF Sound
  <1>5. QED
    BY <1>3, <1>4 DEF p, Sound, WellNumbered

LEMMA AddKeepsSound ==
    ASSUME NEW q \in Queue, NEW m, Sound(q, m), NEW t \in Ticket, t \notin m
    PROVE  Sound(Added(q, t), m \cup {t})
  <1> DEFINE p == Added(q, t)
  <1>1. q.next \in Nat /\ \A s \in Ticket : q.id[s] \in Nat
    BY DEF Queue
  <1>2. /\ p.next = q.next + 1
        /\ \A s \in Ticket : p.id[s] = IF s = t THEN q.next ELSE q.id[s]
        /\ \A s \in Ticket : p.state[s] = IF s = t THEN "queued" ELSE q.state[s]
    BY AddedType
  <1> HIDE DEF p
  <1>3. \A s \in Ticket : q.state[s] # "absent" =>
            /\ q.id[s] < q.next
            /\ \A u \in Ticket : s # u /\ q.state[u] # "absent" => q.id[s] # q.id[u]
    BY DEF Sound, WellNumbered
  <1>4. \A s \in Ticket : p.state[s] # "absent" => p.id[s] < p.next
    BY <1>1, <1>2, <1>3
  <1>5. \A s, u \in Ticket : p.state[s] # "absent" /\ s # u /\ p.state[u] # "absent"
                                => p.id[s] # p.id[u]
    BY <1>1, <1>2, <1>3
  <1>6. WellNumbered(p)
    BY <1>4, <1>5 DEF WellNumbered
  <1>7. \A s \in Ticket \ (m \cup {t}) : p.state[s] = "absent"
    BY <1>2 DEF Sound
  <1>8. QED
    BY <1>6, <1>7 DEF p, Sound, WellNumbered

LEMMA LoadKeepsSound ==
    ASSUME NEW q \in Queue, NEW m, Sound(q, m)
    PROVE  Sound(Loaded(q), m)
  <1> DEFINE p == Loaded(q)
  <1>1. /\ \A u \in Ticket : p.state[u] = IF q.state[u] = "running" THEN "over" ELSE q.state[u]
        /\ p.next = q.next /\ p.id = q.id
    BY LoadedType
  <1> HIDE DEF p
  <1>2. \A u \in Ticket : p.state[u] # "absent" <=> q.state[u] # "absent"
    BY <1>1
  <1>3. WellNumbered(p)
    BY <1>1, <1>2 DEF Sound, WellNumbered
  <1>4. \A u \in Ticket \ m : p.state[u] = "absent"
    BY <1>2 DEF Sound
  <1>5. QED
    BY <1>3, <1>4 DEF p, Sound, WellNumbered

-----------------------------------------------------------------------------
\* The parts of the invariant.
LEMMA Parts ==
    IInv <=> TypeOK /\ NothingForgotten /\ IdsDistinct /\ RunningOwned /\ CopiesSound /\ WorkSound
  BY Zenon DEF IInv

LEMMA Joined ==
    ASSUME TypeOK', NothingForgotten', IdsDistinct', RunningOwned', CopiesSound', WorkSound'
    PROVE  IInv'
  BY Zenon DEF IInv

\* Goroutines are told apart.
LEMMA Apart ==
    /\ \A h \in Handler : h \in Goroutine /\ h # Sched /\ h \notin Ticket
    /\ \A t \in Ticket : t \in Goroutine /\ t # Sched
    /\ Sched \in Goroutine
    /\ None \notin Ticket /\ Exit \notin Ticket
  BY PersistenceAssumption DEF Goroutine

\* Handlers work on no job: what they do leaves the workers as they are.
LEMMA WorkKeeps ==
    ASSUME RunningOwned, WorkSound, NEW h \in Handler, pc[h] # "idle" \/ up, up' = up,
           \A t \in Ticket : queue'.state[t] = queue.state[t],
           \A g \in Goroutine \ {h} : pc'[g] = pc[g] /\ todo'[g] = todo[g]
    PROVE  RunningOwned' /\ WorkSound'
  <1>1. /\ pc'[Sched] = pc[Sched] /\ todo'[Sched] = todo[Sched]
        /\ \A t \in Ticket : pc'[t] = pc[t] /\ todo'[t] = todo[t]
    BY Apart
  <1>2. RunningOwned'
    BY <1>1 DEF RunningOwned
  <1>3. up'
    BY Apart DEF WorkSound
  <1>4. WorkSound'
    BY <1>1, <1>3 DEF WorkSound
  <1>5. QED
    BY <1>2, <1>4

\* The handlers keep the invariant,
LEMMA HandlersKeep ==
    ASSUME IInv, NEW h \in Handler, TypeOK',
           Reply(h) \/ Shutdown(h) \/ \E t \in Ticket : Submit(h, t)
    PROVE  IInv'
  <1>1. TypeOK /\ NothingForgotten /\ IdsDistinct /\ RunningOwned /\ CopiesSound /\ WorkSound
    BY Parts
  <1>2. h \in Goroutine /\ h # Sched /\ h \notin Ticket
    BY Apart
  <1>3. pc \in [Goroutine -> Saving \cup {"idle", "reply", "launched", "live"}]
        /\ todo \in [Goroutine -> Ticket \cup {None, Exit}] /\ queue \in Queue
    BY <1>1, TypeSplit DEF DataOK
  <1>4. CASE Reply(h) \/ Shutdown(h)
    <2>1. UNCHANGED <<up, queue, dirty, version, disk, snap, saved, made>>
      BY <1>4, Zenon DEF Reply, Shutdown, mem, history
    <2>2. \A g \in Goroutine \ {h} : pc'[g] = pc[g] /\ todo'[g] = todo[g]
      BY <1>3, <1>4 DEF Reply, Shutdown, GoesTo
    <2>3. pc[h] \notin {"write", "failed"}
      BY <1>4 DEF Reply, Shutdown
    <2>4. pc[h] # "idle" \/ up
      BY <1>4 DEF Reply, Shutdown
    <2>5. NothingForgotten'
      BY <1>1, <1>2, <2>1, <2>2, <2>3, ForgottenKeep
    <2>6. CopiesSound' /\ IdsDistinct'
      BY <1>1, <2>1, CopiesKeep
    <2>7. RunningOwned' /\ WorkSound'
      BY <1>1, <2>1, <2>2, <2>4, WorkKeeps
    <2>8. QED
      BY <2>5, <2>6, <2>7, Joined
  <1>5. ASSUME NEW t \in Ticket, Submit(h, t) PROVE IInv'
    <2> DEFINE q == Added(queue, t)
    <2>1. /\ up /\ up' = up /\ t \notin made /\ made' = made \cup {t}
          /\ Change(q) /\ UNCHANGED <<disk, snap, saved>>
          /\ pc' = [pc EXCEPT ![h] = "reply"] /\ todo' = [todo EXCEPT ![h] = t]
      BY <1>5, Zenon DEF Submit, GoesTo
    <2>2. Sound(q, made')
      BY <1>1, <1>3, <2>1, AddKeepsSound DEF CopiesSound
    <2>3. \A s \in Ticket : q.state[s] = IF s = t THEN "queued" ELSE queue.state[s]
      BY <1>3, AddedType
    <2>4. queue.state[t] = "absent"
      BY <1>1, <2>1 DEF CopiesSound, Sound
    <2>5. \A g \in Goroutine \ {h} : pc'[g] = pc[g] /\ todo'[g] = todo[g]
      BY <1>3, <2>1
    <2> HIDE DEF q
    <2>6. queue' = q
      BY <2>1 DEF Change
    <2>7. made \subseteq made'
      BY <2>1
    <2>8. NothingForgotten'
      BY <2>1, DirtyKeeps
    <2>9. CopiesSound' /\ IdsDistinct'
      BY <1>1, <2>1, <2>2, <2>7, CopiesChange
    <2>10. /\ pc'[Sched] = pc[Sched] /\ todo'[Sched] = todo[Sched]
           /\ \A s \in Ticket : pc'[s] = pc[s] /\ todo'[s] = todo[s]
      BY <1>2, <2>5, Apart
    <2>11. RunningOwned'
      BY <1>1, <2>3, <2>6, <2>10 DEF RunningOwned
    <2>12. pc[t] = "idle" /\ up'
      BY <1>1, <2>1, <2>4 DEF WorkSound
    <2>13. WorkSound'
      BY <1>1, <2>3, <2>4, <2>6, <2>10, <2>12 DEF WorkSound
    <2>14. QED
      BY <2>8, <2>9, <2>11, <2>13, Joined
  <1>6. QED
    BY <1>4, <1>5

\* A worker's change of a job's state, but for what it says of the workers.
LEMMA MoveKeeps ==
    ASSUME TypeOK, CopiesSound, NEW t \in Ticket, NEW s \in State \ {"absent"},
           Change(Moved(queue, t, s)), queue.state[t] # "absent",
           made' = made, UNCHANGED <<disk, snap, saved>>
    PROVE  /\ NothingForgotten' /\ CopiesSound' /\ IdsDistinct'
           /\ \A u \in Ticket : queue'.state[u] = IF u = t THEN s ELSE queue.state[u]
  <1> DEFINE q == Moved(queue, t, s)
  <1>1. queue \in Queue
    BY TypeSplit DEF DataOK
  <1>2. Sound(q, made')
    BY <1>1, StateKeepsSound DEF CopiesSound
  <1>3. \A u \in Ticket : q.state[u] = IF u = t THEN s ELSE queue.state[u]
    BY <1>1, MovedType
  <1> HIDE DEF q
  <1>4. Change(q)
    BY DEF q
  <1>5. queue' = q
    BY <1>4 DEF Change
  <1>6. CopiesSound' /\ IdsDistinct'
    BY <1>2, <1>4, CopiesChange
  <1>7. QED
    BY <1>3, <1>4, <1>5, <1>6, DirtyKeeps

\* ... the scheduler too,
LEMMA SchedulerKeeps ==
    ASSUME IInv, NEW t \in Ticket, TypeOK', Start(t) \/ Launch(t) \/ Skip(t)
    PROVE  IInv'
  <1>1. TypeOK /\ NothingForgotten /\ IdsDistinct /\ RunningOwned /\ CopiesSound /\ WorkSound
    BY Parts
  <1>2. t \in Goroutine /\ t # Sched /\ Sched \in Goroutine
    BY Apart
  <1>3. pc \in [Goroutine -> Saving \cup {"idle", "reply", "launched", "live"}]
        /\ todo \in [Goroutine -> Ticket \cup {None, Exit}]
    BY <1>1, TypeSplit DEF DataOK
  <1>4. {"running", "over"} \subseteq State \ {"absent"}
    BY DEF State
  <1>5. CASE Start(t)
    <2>1. /\ up' = up /\ up /\ made' = made /\ UNCHANGED <<disk, snap, saved>>
          /\ pc' = [pc EXCEPT ![Sched] = "save"] /\ todo' = [todo EXCEPT ![Sched] = t]
          /\ pc[Sched] = "idle" /\ queue.state[t] = "queued"
          /\ Change(Moved(queue, t, "running"))
      BY <1>5, Zenon DEF Start, GoesTo, history
    <2>2. /\ NothingForgotten' /\ CopiesSound' /\ IdsDistinct'
          /\ \A u \in Ticket : queue'.state[u] = IF u = t THEN "running" ELSE queue.state[u]
      BY <1>1, <1>4, <2>1, MoveKeeps
    <2>3. /\ \A g \in Goroutine \ {Sched} : pc'[g] = pc[g] /\ todo'[g] = todo[g]
          /\ pc'[Sched] = "save" /\ todo'[Sched] = t
      BY <1>2, <1>3, <2>1
    <2>4. \A u \in Ticket : pc'[u] = pc[u]
      BY <2>3, Apart
    <2>5. RunningOwned'
      BY <1>1, <2>1, <2>2, <2>3, <2>4 DEF RunningOwned, Saving
    <2>6. pc'[t] = "idle"
      BY <1>1, <2>1, <2>4 DEF WorkSound
    <2>7. WorkSound'
      BY <1>1, <2>1, <2>2, <2>3, <2>4, <2>6 DEF WorkSound, Saving
    <2>8. QED
      BY <2>2, <2>5, <2>7, Joined
  <1>6. CASE Launch(t)
    <2>1. /\ UNCHANGED <<up, queue, dirty, version, disk, snap, saved, made>>
          /\ pc' = [pc EXCEPT ![Sched] = "idle", ![t] = "launched"]
          /\ todo' = [todo EXCEPT ![Sched] = None]
          /\ pc[Sched] = "saved" /\ todo[Sched] = t
      BY <1>6, Zenon DEF Launch, mem, history
    <2>2. /\ pc'[Sched] = "idle" /\ pc'[t] = "launched"
          /\ \A g \in Goroutine \ {Sched, t} : pc'[g] = pc[g]
      BY <1>2, <1>3, <2>1
    <2>3. pc[t] = "idle" /\ queue.state[t] = "running"
      BY <1>1, <2>1 DEF WorkSound
    <2>4. CopiesSound' /\ IdsDistinct'
      BY <1>1, <2>1, CopiesKeep
    <2>5. NothingForgotten'
      <3>1. SUFFICES ASSUME up, ~dirty, saved # version
                     PROVE  \E g \in Goroutine : Carries(g)' \/ pc'[g] = "failed"
        BY <2>1, Zenon DEF NothingForgotten
      <3>2. PICK g \in Goroutine : Carries(g) \/ pc[g] = "failed"
        BY <1>1, <3>1, Zenon DEF NothingForgotten
      <3>3. pc'[g] = pc[g]
        BY <2>1, <2>2, <2>3, <3>2 DEF Carries
      <3>4. QED
        BY <2>1, <3>2, <3>3 DEF Carries
    <2>6. \A u \in Ticket \ {t} : pc'[u] = pc[u]
      BY <2>2, Apart
    <2>7. RunningOwned'
      BY <1>1, <2>1, <2>2, <2>6 DEF RunningOwned
    <2>8. up'
      BY <1>1, <1>2, <2>1 DEF WorkSound
    <2>9. WorkSound'
      BY <1>1, <2>1, <2>2, <2>3, <2>6, <2>8 DEF WorkSound
    <2>10. QED
      BY <2>4, <2>5, <2>7, <2>9, Joined
  <1>7. CASE Skip(t)
    <2>1. /\ up' = up /\ up /\ made' = made /\ UNCHANGED <<disk, snap, saved, pc, todo>>
          /\ pc[Sched] = "idle" /\ queue.state[t] = "queued"
          /\ Change(Moved(queue, t, "over"))
      BY <1>7, Zenon DEF Skip, goroutines, history
    <2>2. /\ NothingForgotten' /\ CopiesSound' /\ IdsDistinct'
          /\ \A u \in Ticket : queue'.state[u] = IF u = t THEN "over" ELSE queue.state[u]
      BY <1>1, <1>4, <2>1, MoveKeeps
    <2>3. RunningOwned'
      BY <1>1, <2>1, <2>2 DEF RunningOwned
    <2>4. WorkSound'
      BY <1>1, <2>1, <2>2 DEF WorkSound
    <2>5. QED
      BY <2>2, <2>3, <2>4, Joined
  <1>8. QED
    BY <1>5, <1>6, <1>7

\* ... and the executors,
LEMMA ExecutorsKeep ==
    ASSUME IInv, NEW t \in Ticket, TypeOK', Started(t) \/ Finish(t)
    PROVE  IInv'
  <1>1. TypeOK /\ NothingForgotten /\ IdsDistinct /\ RunningOwned /\ CopiesSound /\ WorkSound
    BY Parts
  <1>2. t \in Goroutine /\ t # Sched /\ Sched \in Goroutine
    BY Apart
  <1>3. pc \in [Goroutine -> Saving \cup {"idle", "reply", "launched", "live"}]
        /\ todo \in [Goroutine -> Ticket \cup {None, Exit}]
    BY <1>1, TypeSplit DEF DataOK
  <1>4. "over" \in State \ {"absent"}
    BY DEF State
  <1>5. queue.state[t] = "running" /\ up
    BY <1>1, <1>2 DEF WorkSound, Started, Finish
  <1>6. CASE Started(t)
    <2>1. /\ up' = up /\ made' = made /\ UNCHANGED <<disk, snap, saved>>
          /\ pc' = [pc EXCEPT ![t] = "live"] /\ todo' = [todo EXCEPT ![t] = None]
          /\ Change(queue) /\ pc[t] = "launched"
      BY <1>6, Zenon DEF Started, GoesTo, history
    <2>2. queue' = queue
      BY <2>1 DEF Change
    <2>3. Sound(queue, made')
      BY <1>1, <2>1 DEF CopiesSound
    <2>4. CopiesSound' /\ IdsDistinct'
      BY <1>1, <2>1, <2>3, CopiesChange
    <2>5. NothingForgotten'
      BY <2>1, DirtyKeeps
    <2>6. /\ \A g \in Goroutine \ {t} : pc'[g] = pc[g] /\ todo'[g] = todo[g]
          /\ pc'[t] = "live"
      BY <1>2, <1>3, <2>1
    <2>7. /\ pc'[Sched] = pc[Sched] /\ todo'[Sched] = todo[Sched]
          /\ \A u \in Ticket \ {t} : pc'[u] = pc[u]
      BY <1>2, <2>6, Apart
    <2>8. RunningOwned'
      BY <1>1, <2>2, <2>6, <2>7 DEF RunningOwned
    <2>9. pc[Sched] # "idle" => todo[Sched] # t
      BY <1>1, <2>1 DEF WorkSound
    <2>10. WorkSound'
      BY <1>1, <1>5, <2>1, <2>2, <2>6, <2>7, <2>9 DEF WorkSound
    <2>11. QED
      BY <2>4, <2>5, <2>8, <2>10, Joined
  <1>7. CASE Finish(t)
    <2>1. /\ up' = up /\ made' = made /\ UNCHANGED <<disk, snap, saved>>
          /\ pc' = [pc EXCEPT ![t] = "save"] /\ todo' = [todo EXCEPT ![t] = None]
          /\ Change(Moved(queue, t, "over")) /\ pc[t] \in {"launched", "live"}
      BY <1>7, Zenon DEF Finish, GoesTo, history
    <2>2. /\ NothingForgotten' /\ CopiesSound' /\ IdsDistinct'
          /\ \A u \in Ticket : queue'.state[u] = IF u = t THEN "over" ELSE queue.state[u]
      BY <1>1, <1>4, <1>5, <2>1, MoveKeeps
    <2>3. /\ \A g \in Goroutine \ {t} : pc'[g] = pc[g] /\ todo'[g] = todo[g]
          /\ pc'[t] = "save"
      BY <1>2, <1>3, <2>1
    <2>4. /\ pc'[Sched] = pc[Sched] /\ todo'[Sched] = todo[Sched]
          /\ \A u \in Ticket \ {t} : pc'[u] = pc[u]
      BY <1>2, <2>3, Apart
    <2>5. RunningOwned'
      BY <1>1, <2>2, <2>4 DEF RunningOwned
    <2>6. pc[Sched] # "idle" => todo[Sched] # t
      BY <1>1, <2>1 DEF WorkSound
    <2>7. WorkSound'
      BY <1>1, <1>5, <2>1, <2>2, <2>3, <2>4, <2>6 DEF WorkSound
    <2>8. QED
      BY <2>2, <2>5, <2>7, Joined
  <1>8. QED
    BY <1>6, <1>7

\* An empty queue is sound whatever was submitted.
LEMMA EmptySound == \A m : Sound(NoQueue, m)
  BY DEF Sound, WellNumbered, NoQueue

\* A goroutine that lets go of its copy, possibly in favour of the file.
LEMMA DropKeeps ==
    ASSUME CopiesSound, NEW g \in Goroutine, UNCHANGED <<queue, version, made>>,
           version \in Nat, saved' <= version, disk' \in {disk, snap[g].queue},
           snap'[g] = NoSnapshot, \A f \in Goroutine \ {g} : snap'[f] = snap[f]
    PROVE  CopiesSound' /\ IdsDistinct'
  <1>1. Sound(queue', made') /\ Sound(disk', made')
    BY DEF CopiesSound
  <1>2. snap'[g].version = 0 /\ snap'[g].queue = NoQueue
    BY DEF NoSnapshot
  <1>3. \A f \in Goroutine : snap'[f].version <= version'
    BY <1>2 DEF CopiesSound
  <1>4. \A f \in Goroutine : Sound(snap'[f].queue, made')
    BY <1>2, EmptySound DEF CopiesSound
  <1>5. CopiesSound'
    BY <1>1, <1>3, <1>4 DEF CopiesSound, Sound, WellNumbered
  <1>6. QED
    BY <1>5 DEF CopiesSound, Sound, IdsDistinct

\* A step of a save changes neither the jobs nor who works on them.
LEMMA SaverKeepsWork ==
    ASSUME RunningOwned, WorkSound, NEW g \in Goroutine, up' = up, queue' = queue,
           \A f \in Goroutine \ {g} : pc'[f] = pc[f] /\ todo'[f] = todo[f],
           \/ pc[g] \in Saving /\ pc'[g] \in Saving /\ todo'[g] = todo[g]
           \/ pc[g] \in Saving /\ pc'[g] = "idle" /\ g # Sched
    PROVE  RunningOwned' /\ WorkSound'
  <1>1. \A t \in Ticket : t \in Goroutine /\ t # Sched
    BY Apart
  <1>2. Sched \in Goroutine
    BY Apart
  <1>3. "idle" \notin Saving /\ "launched" \notin Saving /\ "live" \notin Saving
    BY DEF Saving
  <1>4. /\ pc[Sched] \in Saving <=> pc'[Sched] \in Saving
        /\ pc[Sched] = "idle" <=> pc'[Sched] = "idle"
        /\ pc'[Sched] # "idle" => todo'[Sched] = todo[Sched]
    BY <1>2, <1>3
  <1>5. \A t \in Ticket : pc[t] \in {"launched", "live"} <=> pc'[t] \in {"launched", "live"}
    BY <1>1, <1>3
  <1>6. \A t \in Ticket : pc[t] = "idle" => pc'[t] = "idle"
    BY <1>1, <1>3
  <1>7. RunningOwned'
    BY <1>3, <1>4, <1>5 DEF RunningOwned, WorkSound
  <1>8. pc'[Sched] \in Saving \cup {"idle"}
    BY <1>4 DEF WorkSound
  <1>9. pc'[Sched] # "idle" => /\ todo'[Sched] \in Ticket
                               /\ queue'.state[todo'[Sched]] = "running"
                               /\ pc'[todo'[Sched]] = "idle"
    BY <1>4, <1>6 DEF WorkSound
  <1>10. up
    BY <1>3 DEF WorkSound
  <1>11. QED
    BY <1>5, <1>6, <1>7, <1>8, <1>9, <1>10 DEF WorkSound

\* Savers keep the invariant,
LEMMA SaversKeep ==
    ASSUME IInv, NEW g \in Goroutine, TypeOK', Save(g)
    PROVE  IInv'
  <1>1. TypeOK /\ NothingForgotten /\ IdsDistinct /\ RunningOwned /\ CopiesSound /\ WorkSound
    BY Parts
  <1>2. /\ pc \in [Goroutine -> Saving \cup {"idle", "reply", "launched", "live"}]
        /\ todo \in [Goroutine -> Ticket \cup {None, Exit}]
        /\ snap \in [Goroutine -> Snapshot] /\ version \in Nat /\ saved \in Nat
    BY <1>1, TypeSplit DEF DataOK
  <1>3. CASE SaveBegins(g)
    <2>1. /\ UNCHANGED <<up, queue, version, disk, saved, made, todo>>
          /\ pc[g] = "save"
      BY <1>3, Zenon DEF SaveBegins, history
    <2>2. \/ /\ ~dirty /\ dirty' = dirty /\ snap' = snap
             /\ pc' = [pc EXCEPT ![g] = "saved"]
          \/ /\ snap' = [snap EXCEPT ![g] = [queue |-> queue, version |-> version]]
             /\ pc' = [pc EXCEPT ![g] = "write"]
      BY <1>3, Zenon DEF SaveBegins
    <2>3. /\ \A f \in Goroutine \ {g} : pc'[f] = pc[f] /\ todo'[f] = todo[f]
          /\ pc'[g] \in Saving /\ todo'[g] = todo[g]
      BY <1>2, <2>1, <2>2 DEF Saving
    <2>4. RunningOwned' /\ WorkSound'
      BY <1>1, <2>1, <2>3, SaverKeepsWork DEF Saving
    <2>5. CASE ~dirty /\ dirty' = dirty /\ snap' = snap
      <3>1. NothingForgotten'
        BY <1>1, <2>1, <2>3, <2>5, ForgottenKeep
      <3>2. CopiesSound' /\ IdsDistinct'
        BY <1>1, <2>1, <2>5, CopiesKeep
      <3>3. QED
        BY <2>4, <3>1, <3>2, Joined
    <2>6. CASE /\ snap' = [snap EXCEPT ![g] = [queue |-> queue, version |-> version]]
               /\ pc' = [pc EXCEPT ![g] = "write"]
      <3>1. pc'[g] = "write" /\ snap'[g].version = version' /\ snap'[g].queue = queue
        BY <1>2, <2>1, <2>6
      <3>2. NothingForgotten'
        BY <3>1 DEF NothingForgotten, Carries
      <3>3. \A f \in Goroutine : snap'[f].version <= version'
        BY <1>1, <1>2, <2>1, <2>6, <3>1 DEF CopiesSound
      <3>4. \A f \in Goroutine : Sound(snap'[f].queue, made)
        BY <1>1, <1>2, <2>6, <3>1 DEF CopiesSound
      <3>5. Sound(queue', made') /\ Sound(disk', made') /\ saved' <= version'
        BY <1>1, <2>1 DEF CopiesSound
      <3>6. CopiesSound'
        BY <2>1, <3>3, <3>4, <3>5 DEF CopiesSound, Sound, WellNumbered
      <3>7. IdsDistinct'
        BY <3>6 DEF CopiesSound, Sound, IdsDistinct
      <3>8. QED
        BY <2>4, <3>2, <3>6, <3>7, Joined
    <2>7. QED
      BY <2>2, <2>5, <2>6
  <1>4. CASE Replace(g)
    <2>1. /\ UNCHANGED <<up, queue, version, made, todo>> /\ dirty' = dirty
          /\ pc[g] = "write" /\ disk' = snap[g].queue
          /\ saved' = (IF snap[g].version > saved THEN snap[g].version ELSE saved)
          /\ pc' = [pc EXCEPT ![g] = "saved"]
          /\ snap' = [snap EXCEPT ![g] = NoSnapshot]
      BY <1>4, Zenon DEF Replace, SaveEnds, mem, history
    <2>2. /\ \A f \in Goroutine \ {g} : pc'[f] = pc[f] /\ todo'[f] = todo[f] /\ snap'[f] = snap[f]
          /\ pc'[g] \in Saving /\ todo'[g] = todo[g] /\ snap'[g] = NoSnapshot
      BY <1>2, <2>1 DEF Saving
    <2>3. RunningOwned' /\ WorkSound'
      BY <1>1, <2>1, <2>2, SaverKeepsWork DEF Saving
    <2>4. snap[g].version \in Nat /\ snap[g].version <= version /\ saved <= version
      BY <1>1, <1>2 DEF CopiesSound, Snapshot
    <2>5. saved' <= version' /\ (saved = version => saved' = version')
          /\ (snap[g].version = version => saved' = version')
      BY <1>2, <2>1, <2>4
    <2>6. NothingForgotten'
      <3>1. SUFFICES ASSUME up, ~dirty, saved' # version'
                     PROVE  \E f \in Goroutine : Carries(f)' \/ pc'[f] = "failed"
        BY <2>1, Zenon DEF NothingForgotten
      <3>2. PICK f \in Goroutine : Carries(f) \/ pc[f] = "failed"
        BY <1>1, <2>5, <3>1, Zenon DEF NothingForgotten
      <3>3. f # g
        BY <2>1, <2>5, <3>1, <3>2 DEF Carries
      <3>4. pc'[f] = pc[f] /\ snap'[f] = snap[f]
        BY <2>2, <3>3
      <3>5. QED
        BY <2>1, <3>2, <3>4 DEF Carries
    <2>7. CopiesSound' /\ IdsDistinct'
      BY <1>1, <1>2, <2>1, <2>2, <2>5, DropKeeps DEF CopiesSound
    <2>8. QED
      BY <2>3, <2>6, <2>7, Joined
  <1>5. CASE WriteFails(g)
    <2>1. /\ UNCHANGED <<up, queue, version, made, todo, disk, saved>> /\ dirty' = dirty
          /\ pc' = [pc EXCEPT ![g] = "failed"] /\ pc[g] = "write"
          /\ snap' = [snap EXCEPT ![g] = NoSnapshot]
      BY <1>5, Zenon DEF WriteFails, SaveEnds, mem, history
    <2>2. /\ \A f \in Goroutine \ {g} : pc'[f] = pc[f] /\ todo'[f] = todo[f] /\ snap'[f] = snap[f]
          /\ pc'[g] = "failed" /\ todo'[g] = todo[g] /\ snap'[g] = NoSnapshot
      BY <1>2, <2>1
    <2>3. RunningOwned' /\ WorkSound'
      BY <1>1, <2>1, <2>2, SaverKeepsWork DEF Saving
    <2>4. NothingForgotten'
      BY <2>2 DEF NothingForgotten
    <2>5. CopiesSound' /\ IdsDistinct'
      BY <1>1, <1>2, <2>1, <2>2, DropKeeps DEF CopiesSound
    <2>6. QED
      BY <2>3, <2>4, <2>5, Joined
  <1>6. CASE MarkDirty(g)
    <2>1. /\ UNCHANGED <<up, queue, version, made, todo, disk, saved, snap>> /\ dirty' = TRUE
          /\ pc' = [pc EXCEPT ![g] = "saved"] /\ pc[g] = "failed"
      BY <1>6, Zenon DEF MarkDirty, history
    <2>2. /\ \A f \in Goroutine \ {g} : pc'[f] = pc[f] /\ todo'[f] = todo[f]
          /\ pc'[g] \in Saving /\ todo'[g] = todo[g]
      BY <1>2, <2>1 DEF Saving
    <2>3. RunningOwned' /\ WorkSound'
      BY <1>1, <2>1, <2>2, SaverKeepsWork DEF Saving
    <2>4. NothingForgotten'
      BY <2>1, Zenon DEF NothingForgotten
    <2>5. CopiesSound' /\ IdsDistinct'
      BY <1>1, <2>1, CopiesKeep
    <2>6. QED
      BY <2>3, <2>4, <2>5, Joined
  <1>7. CASE Done(g)
    <2>1. /\ UNCHANGED <<up, queue, version, made, disk, saved, snap>> /\ dirty' = dirty
          /\ pc' = [pc EXCEPT ![g] = "idle"] /\ todo' = [todo EXCEPT ![g] = None]
          /\ pc[g] = "saved" /\ g # Sched
      BY <1>7, Zenon DEF Done, GoesTo, mem
    <2>2. /\ \A f \in Goroutine \ {g} : pc'[f] = pc[f] /\ todo'[f] = todo[f]
          /\ pc'[g] = "idle"
      BY <1>2, <2>1
    <2>3. RunningOwned' /\ WorkSound'
      BY <1>1, <2>1, <2>2, SaverKeepsWork DEF Saving
    <2>4. NothingForgotten'
      BY <1>1, <2>1, <2>2, ForgottenKeep
    <2>5. CopiesSound' /\ IdsDistinct'
      BY <1>1, <2>1, CopiesKeep
    <2>6. QED
      BY <2>3, <2>4, <2>5, Joined
  <1>8. QED
    BY <1>3, <1>4, <1>5, <1>6, <1>7 DEF Save

\* ... the end of a daemon does,
LEMMA DownKeeps ==
    ASSUME IInv, TypeOK', Down
    PROVE  IInv'
  <1>1. CopiesSound
    BY Parts
  <1>2. /\ ~up' /\ queue' = NoQueue /\ version' = 0 /\ saved' = 0
        /\ pc' = [g \in Goroutine |-> "idle"] /\ snap' = [g \in Goroutine |-> NoSnapshot]
        /\ disk' = disk /\ made' = made
    BY Zenon DEF Down
  <1>3. /\ \A g \in Goroutine : pc'[g] = "idle" /\ snap'[g] = NoSnapshot
        /\ \A t \in Ticket : pc'[t] = "idle" /\ queue'.state[t] = "absent"
        /\ pc'[Sched] = "idle"
    BY <1>2, Apart DEF NoQueue
  <1>4. NothingForgotten'
    BY <1>2, Zenon DEF NothingForgotten
  <1>5. RunningOwned'
    BY <1>3 DEF RunningOwned
  <1>6. WorkSound'
    BY <1>2, <1>3 DEF WorkSound
  <1>7. \A g \in Goroutine : snap'[g].queue = NoQueue /\ snap'[g].version = 0
    BY <1>3 DEF NoSnapshot
  <1>8. Sound(disk', made')
    BY <1>1, <1>2 DEF CopiesSound
  <1>9. CopiesSound'
    BY <1>2, <1>7, <1>8, EmptySound DEF CopiesSound, Sound, WellNumbered
  <1>10. QED
    BY <1>4, <1>5, <1>6, <1>9, Joined DEF CopiesSound, Sound, IdsDistinct

\* ... and so does the next one, which owns nothing and starts with version 0
\* saved, unless it changed what it loaded.
LEMMA BootKeeps ==
    ASSUME IInv, TypeOK', Boot
    PROVE  IInv'
  <1>1. TypeOK /\ CopiesSound /\ WorkSound
    BY Parts
  <1>2. disk \in Queue /\ snap \in [Goroutine -> Snapshot]
    BY <1>1, TypeSplit DEF DataOK
  <1>3. /\ ~up /\ up' /\ queue' = Loaded(disk)
        /\ UNCHANGED <<disk, pc, todo, snap, saved, made>>
    BY Zenon DEF Boot, goroutines, history
  <1>4. (dirty' \/ version' = 0) /\ version' \in {0, 1}
    BY Zenon DEF Boot
  <1>5. version = 0 /\ saved = 0 /\ \A g \in Goroutine : snap[g].version = 0
    <2>1. version = 0
      BY <1>1, <1>3, Zenon DEF WorkSound
    <2>2. saved \in Nat /\ \A g \in Goroutine : snap[g].version \in Nat
      BY <1>1, <1>2, TypeSplit DEF DataOK, Snapshot
    <2>3. saved <= version /\ \A g \in Goroutine : snap[g].version <= version
      BY <1>1 DEF CopiesSound
    <2>4. QED
      BY <2>1, <2>2, <2>3
  <1>6. NothingForgotten'
    BY <1>3, <1>4, <1>5, Zenon DEF NothingForgotten
  <1>7. Sound(queue', made')
    BY <1>1, <1>2, <1>3, LoadKeepsSound DEF CopiesSound
  <1>8. Sound(disk', made') /\ \A g \in Goroutine : Sound(snap'[g].queue, made')
    BY <1>1, <1>3 DEF CopiesSound
  <1>9. saved' <= version' /\ \A g \in Goroutine : snap'[g].version <= version'
    BY <1>3, <1>4, <1>5
  <1>10. CopiesSound'
    BY <1>7, <1>8, <1>9 DEF CopiesSound, Sound, WellNumbered
  <1>11. \A t \in Ticket : queue'.state[t] # "running"
    BY <1>2, <1>3, LoadedType
  <1>12. /\ \A g \in Goroutine : pc'[g] = "idle"
         /\ \A t \in Ticket : pc'[t] = "idle"
         /\ pc'[Sched] = "idle"
    BY <1>1, <1>3, Apart DEF WorkSound
  <1>13. RunningOwned'
    BY <1>11 DEF RunningOwned
  <1>14. WorkSound'
    BY <1>3, <1>12 DEF WorkSound
  <1>15. QED
    BY <1>6, <1>10, <1>13, <1>14, Joined DEF CopiesSound, Sound, IdsDistinct

LEMMA InitKeeps == Init => IInv
  <1>1. SUFFICES ASSUME Init PROVE IInv
    OBVIOUS
  <1>2. /\ ~up /\ queue = NoQueue /\ disk = NoQueue /\ version = 0 /\ saved = 0
        /\ pc = [g \in Goroutine |-> "idle"] /\ snap = [g \in Goroutine |-> NoSnapshot]
    BY <1>1, Zenon DEF Init
  <1>3. /\ \A g \in Goroutine : /\ pc[g] = "idle"
                                /\ snap[g].queue = NoQueue /\ snap[g].version = 0
        /\ \A t \in Ticket : pc[t] = "idle" /\ queue.state[t] = "absent"
        /\ pc[Sched] = "idle"
    BY <1>2, Apart DEF NoQueue, NoSnapshot
  <1>4. TypeOK
    BY <1>1, InitType
  <1>5. NothingForgotten
    BY <1>2, Zenon DEF NothingForgotten
  <1>6. RunningOwned /\ WorkSound
    BY <1>2, <1>3 DEF RunningOwned, WorkSound
  <1>7. CopiesSound
    BY <1>2, <1>3, EmptySound DEF CopiesSound
  <1>8. IdsDistinct
    BY <1>7 DEF CopiesSound, Sound, IdsDistinct
  <1>9. QED
    BY <1>4, <1>5, <1>6, <1>7, <1>8, Parts

LEMMA StutterKeeps == IInv /\ UNCHANGED vars => IInv'
  <1>1. SUFFICES ASSUME IInv, UNCHANGED vars PROVE IInv'
    OBVIOUS
  <1>2. TypeOK /\ NothingForgotten /\ RunningOwned /\ CopiesSound /\ WorkSound
    BY <1>1, Parts
  <1>3. UNCHANGED <<up, queue, dirty, version, disk, saved, pc, todo, snap, made>>
    BY <1>1, Zenon DEF vars, mem, goroutines, history
  <1>4. TypeOK'
    BY <1>1, <1>2, TypeStep
  <1>5. NothingForgotten'
    BY <1>2, <1>3, Zenon DEF NothingForgotten, Carries
  <1>6. CopiesSound' /\ IdsDistinct'
    BY <1>2, <1>3, CopiesKeep
  <1>7. RunningOwned' /\ WorkSound'
    BY <1>2, <1>3 DEF RunningOwned, WorkSound
  <1>8. QED
    BY <1>4, <1>5, <1>6, <1>7, Joined

LEMMA StepKeeps == IInv /\ [Next]_vars => IInv'
  <1>1. SUFFICES ASSUME IInv, [Next]_vars PROVE IInv'
    OBVIOUS
  <1>2. TypeOK'
    BY <1>1, Parts, TypeStep
  <1>3. CASE UNCHANGED vars
    BY <1>1, <1>3, StutterKeeps
  <1>4. CASE \E h \in Handler : \/ Reply(h) \/ Shutdown(h) \/ Leave(h)
                              \/ \E t \in Ticket : Submit(h, t)
    BY <1>1, <1>2, <1>4, HandlersKeep, DownKeeps DEF Leave
  <1>5. CASE \E t \in Ticket : Start(t) \/ Launch(t) \/ Skip(t) \/ Started(t) \/ Finish(t)
    BY <1>1, <1>2, <1>5, SchedulerKeeps, ExecutorsKeep
  <1>6. CASE \E g \in Goroutine : Save(g)
    BY <1>1, <1>2, <1>6, SaversKeep
  <1>7. CASE Boot \/ Crash
    BY <1>1, <1>2, <1>7, BootKeeps, DownKeeps DEF Crash
  <1>8. QED
    BY <1>1, <1>3, <1>4, <1>5, <1>6, <1>7, Zenon DEF Next

\* The invariant holds of every behaviour, with any number of daemons.
THEOREM Invariance == Spec => []IInv
  BY InitKeeps, StepKeeps, PTL DEF Spec

\* save's reader of a clear dirty flag may trust that somebody else writes the
\* change or has written it, whichever writes fail and however the saves overlap
\* (persistence.go:24-55); not that what was written is still in the file.
THEOREM NeverForgotten == Spec => []NothingForgotten
  <1>1. IInv => NothingForgotten
    BY Parts
  <1>2. QED
    BY Invariance, <1>1, PTL

\* IDs stay distinct over restarts.
THEOREM IdsStayDistinct == Spec => []IdsDistinct
  <1>1. IInv => IdsDistinct
    BY Parts
  <1>2. QED
    BY Invariance, <1>1, PTL

\* No job counts as running without an executor that will end it.
THEOREM RunningStaysOwned == Spec => []RunningOwned
  <1>1. IInv => RunningOwned
    BY Parts
  <1>2. QED
    BY Invariance, <1>1, PTL
=============================================================================
