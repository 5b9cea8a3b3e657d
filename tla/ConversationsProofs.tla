------------------------- MODULE ConversationsProofs -------------------------
(***************************************************************************)
(* For any number of clients, any calls and any cap: that the daemon's     *)
(* count of connections is right, that every call understands its answer,  *)
(* and that a TUI which is displaced is told.                              *)
(*                                                                         *)
(* The count: a goroutine moves one connection from one place to another,  *)
(* and the number of those that are counted changes with it.               *)
(* The answers: a table of what may be asked and answered, which both the  *)
(* library and the handlers keep to, and an invariant that what is under   *)
(* way on a connection suits the call that reads it.                       *)
(* The notice: an invariant that follows a registration from the goroutine *)
(* that accepted it to the one that ends it.                               *)
(***************************************************************************)
EXTENDS Conversations, FiniteSetTheorems, TLAPS

Counted == {k \in Conns : HoldsPlace(k)}
Counting == {"serving", "leaving"}

Placed == server \in [Conns -> ServerPlaces]
DownIsEmpty == daemon = "down" => \A k \in Conns : server[k] = "none"

PInv == Placed /\ active \in Int /\ DownIsEmpty /\ PlacesKept

-----------------------------------------------------------------------------
LEMMA ConnsFinite == IsFiniteSet(Conns)
  <1>1. IsFiniteSet({0, 1})
    <2>1. IsFiniteSet({0})
      BY FS_Singleton
    <2>2. IsFiniteSet({0} \cup {1})
      BY <2>1, FS_AddElement
    <2>3. {0, 1} = {0} \cup {1}
      OBVIOUS
    <2>4. QED
      BY <2>2, <2>3
  <1>2. QED
    BY <1>1, ConversationsAssumption, FS_Product DEF Conns

\* What moving one connection does to those that are counted.
LEMMA Moved ==
    ASSUME Placed, NEW k \in Conns, NEW place \in ServerPlaces, Move(k, place)
    PROVE  /\ Placed'
           /\ Cardinality(Counted) \in Nat
           /\ server[k] \in Counting /\ place \in Counting =>
                 Cardinality(Counted') = Cardinality(Counted)
           /\ server[k] \notin Counting /\ place \notin Counting =>
                 Cardinality(Counted') = Cardinality(Counted)
           /\ server[k] \notin Counting /\ place \in Counting =>
                 Cardinality(Counted') = Cardinality(Counted) + 1
           /\ server[k] \in Counting /\ place \notin Counting =>
                 Cardinality(Counted') = Cardinality(Counted) - 1
  <1>1. IsFiniteSet(Counted) /\ Cardinality(Counted) \in Nat
    BY ConnsFinite, FS_Subset, FS_CardinalityType DEF Counted
  <1>2. Placed'
    BY DEF Placed, Move
  <1>3. \A c \in Conns : server'[c] = IF c = k THEN place ELSE server[c]
    BY DEF Placed, Move
  <1>4. place \in Counting => Counted' = Counted \cup {k}
    BY <1>3 DEF Counted, HoldsPlace, Counting
  <1>5. place \notin Counting => Counted' = Counted \ {k}
    BY <1>3 DEF Counted, HoldsPlace, Counting
  <1>6. k \in Counted <=> server[k] \in Counting
    BY DEF Counted, HoldsPlace, Counting
  <1>7. Cardinality(Counted \cup {k}) =
            IF k \in Counted THEN Cardinality(Counted) ELSE Cardinality(Counted) + 1
    BY <1>1, FS_AddElement
  <1>8. Cardinality(Counted \ {k}) =
            IF k \in Counted THEN Cardinality(Counted) - 1 ELSE Cardinality(Counted)
    BY <1>1, FS_RemoveElement
  <1>9. QED
    BY <1>1, <1>2, <1>4, <1>5, <1>6, <1>7, <1>8

-----------------------------------------------------------------------------
\* A connection moves, and the count with it where it has to.
LEMMA GoroutineMoves ==
    ASSUME PInv, NEW k \in Conns, Accept(k) \/ Goroutine(k) \/ JobEnds(k)
    PROVE  PInv'
  <1>1. Placed /\ active \in Int /\ server[k] # "none" /\ daemon # "down"
    BY DEF PInv, DownIsEmpty, Accept, Goroutine, JobEnds, Takes, TurnAway, HungUp, Serve, Wait, WaitReturns,
           Shutdown, Attach, BeginNotice, EndNotice, BeginAck, EndAck, AckFails, Unpark, Leave
  <1>2. active = Cardinality(Counted)
    BY <1>1 DEF PInv, PlacesKept, Counted
  <1>3. daemon' # "down"
    BY <1>1 DEF Accept, Goroutine, JobEnds, TurnAway, HungUp, Serve, Wait, WaitReturns,
           Shutdown, Attach, BeginNotice, EndNotice, BeginAck, EndAck, AckFails, Unpark, Leave
  <1> SUFFICES Placed' /\ active' \in Int /\ active' = Cardinality(Counted')
    BY <1>3 DEF PInv, PlacesKept, DownIsEmpty, Counted
  <1>4. CASE Accept(k)
    <2>1. CASE Move(k, "turning") /\ server[k] = "backlog" /\ active' = active
      BY <1>1, <1>2, <2>1, Moved DEF Counting, ServerPlaces
    <2>2. CASE Move(k, "serving") /\ server[k] = "backlog" /\ active' = active + 1
      BY <1>1, <1>2, <2>2, Moved DEF Counting, ServerPlaces
    <2>3. QED
      BY <1>4, <2>1, <2>2 DEF Accept, Move
  <1>5. CASE /\ server[k] = "serving" /\ active' = active - 1
             /\ \E p \in {"none", "waiting", "ack", "notify"} : Move(k, p)
    BY <1>1, <1>2, <1>5, Moved DEF Counting, ServerPlaces
  <1>6. CASE /\ server[k] \in {"turning", "waiting", "notify", "notifying", "ack", "acking"}
             /\ active' = active
             /\ \E p \in {"none", "waited", "notifying", "ack", "acking", "parked"} : Move(k, p)
    BY <1>1, <1>2, <1>6, Moved DEF Counting, ServerPlaces
  <1>7. CASE /\ server[k] \in {"waited", "ack", "acking", "parked"} /\ active' = active + 1
             /\ \E p \in {"serving", "leaving"} : Move(k, p)
    BY <1>1, <1>2, <1>7, Moved DEF Counting, ServerPlaces
  <1>8. CASE server[k] = "leaving" /\ active' = active - 1 /\ Move(k, "none")
    BY <1>1, <1>2, <1>8, Moved DEF Counting, ServerPlaces
  <1>9. CASE UNCHANGED <<active, server>>
    BY <1>1, <1>2, <1>9 DEF Placed, Counted, HoldsPlace
  <1>10. CASE TurnAway(k) \/ JobEnds(k) \/ BeginNotice(k) \/ EndNotice(k) \/ BeginAck(k) \/ EndAck(k)
    BY <1>6, <1>10 DEF TurnAway, JobEnds, BeginNotice, EndNotice, BeginAck, EndAck
  <1>11. CASE HungUp(k) \/ Serve(k) \/ Wait(k) \/ Shutdown(k)
    BY <1>5, <1>9, <1>11 DEF HungUp, Serve, Wait, Shutdown, Takes, GiveBack
  <1>12. CASE Attach(k)
    <2>1. Move(k, "ack") \/ Move(k, "notify")
      BY <1>12 DEF Attach
    <2>2. QED
      BY <1>5, <1>12, <2>1 DEF Attach, Takes
  <1>13. CASE WaitReturns(k) \/ AckFails(k) \/ Unpark(k)
    BY <1>7, <1>13 DEF WaitReturns, AckFails, Unpark
  <1>14. CASE Leave(k)
    BY <1>8, <1>14 DEF Leave, GiveBack
  <1>15. QED
    BY <1>4, <1>10, <1>11, <1>12, <1>13, <1>14 DEF Goroutine

LEMMA ClientMoves ==
    ASSUME PInv, NEW c \in Clients, Listens(c) \/ User(c)
    PROVE  PInv'
  <1>1. CASE Dial(c)
    <2> DEFINE k == <<c, 1 - via[c]>>
    <2>1. daemon # "down" /\ server[k] = "none" /\ Move(k, "backlog") /\ UNCHANGED <<daemon, active>>
      BY <1>1 DEF Dial
    <2>2. CASE k \in Conns
      <3>1. Placed' /\ Cardinality(Counted') = Cardinality(Counted)
        BY <2>1, <2>2, Moved DEF PInv, Counting, ServerPlaces
      <3>2. QED
        BY <2>1, <3>1 DEF PInv, PlacesKept, DownIsEmpty, Counted
    <2>3. CASE k \notin Conns
      <3>1. server' = server
        BY <2>1, <2>3 DEF Move, PInv, Placed
      <3>2. QED
        BY <2>1, <3>1 DEF PInv, Placed, PlacesKept, DownIsEmpty, HoldsPlace
    <2>4. QED
      BY <2>2, <2>3
  <1>2. CASE UNCHANGED daemonVars
    BY <1>2 DEF daemonVars, PInv, Placed, PlacesKept, DownIsEmpty, HoldsPlace
  <1>3. QED
    BY <1>1, <1>2 DEF Listens, User, Hear, HearNothing, Watch, NoDaemon, Speaks, Say, SayToNobody, Quit, Interrupt

LEMMA ExitEmpties == PInv /\ Exit => PInv'
  BY DEF PInv, Placed, Exit, PlacesKept, DownIsEmpty, ServerPlaces

LEMMA CountNext == PInv /\ [Next]_vars => PInv'
  <1>1. ASSUME PInv, UNCHANGED vars PROVE PInv'
    BY <1>1 DEF vars, daemonVars, PInv, Placed, PlacesKept, DownIsEmpty, HoldsPlace
  <1>2. QED
    BY <1>1, GoroutineMoves, ClientMoves, ExitEmpties DEF Next

LEMMA CountInit == Init => PInv
  <1> SUFFICES ASSUME Init PROVE PInv
    OBVIOUS
  <1>1. Placed /\ DownIsEmpty
    BY DEF Init, Placed, DownIsEmpty, ServerPlaces
  <1>2. {k \in Conns : HoldsPlace(k)} = {}
    BY DEF Init, HoldsPlace
  <1>3. Cardinality({}) = 0 /\ active = 0
    BY FS_EmptySet DEF Init
  <1>4. QED
    BY <1>1, <1>2, <1>3 DEF PInv, PlacesKept

(* No place under max_conn is lost and none is given back twice, though a
   place is given back early by a wait and by a TUI and taken again when they
   end, by an answer, an interrupt, a takeover or an acknowledgement that
   cannot be sent (server.go:103, 117, 281-315; handlers_job.go:185-196). *)
THEOREM EveryPlaceKept == Spec => []PlacesKept
  <1>1. PInv => PlacesKept
    BY DEF PInv
  <1>2. QED
    BY <1>1, CountInit, CountNext, PTL DEF Spec

-----------------------------------------------------------------------------
(* What the calls of the library rely on, and that the handlers keep to it.  *)

\* Which request is answered with what, where a caller looks at the answer.
Contract ==
    {<<"List", "lines">>, <<"GetVersion", "Version">>, <<"NewJob", "JobID">>, <<"Rerun", "JobID">>,
     <<"GetState", "State">>, <<"AskOutput", "Output">>, <<"Info", "Info">>,
     <<"GetMaxSlots", "Slots">>, <<"CountRunning", "Count">>, <<"GetLabel", "Label">>,
     <<"LastID", "JobID">>, <<"GetCmd", "Cmd">>, <<"GetEnv", "Env">>, <<"GetLogdir", "Logdir">>,
     <<"SessionList", "SessionList">>, <<"GroupList", "GroupList">>, <<"ListSession", "lines">>,
     <<"TreeList", "TreeData">>, <<"TerminalOpen", "TerminalName">>,
     <<"TerminalGetLayout", "TerminalLayout">>, <<"TerminalListAll", "TerminalListAll">>}

\* Three requests have handlers that do not answer at once.
Special == {"WaitJob", "TUIAttach", "KillServer"}

Relied(name, ask) ==
    /\ ask.reads = "ack" \/ ask.sends \in Special \/ <<ask.sends, ask.reads>> \in Contract
    /\ ask.sends = "WaitJob" <=> name = "WaitJob"
    /\ name = "WaitJob" => ask.reads = "Result"
    /\ name = "AttachTUI" => ask.reads = "ack"
    /\ name = "KillServer" => ask.reads = "nothing"
    /\ ask.sends = "TUIAttach" <=> name = "AttachTUI"

Kept(req, answer) ==
    /\ req \notin Special \cup {"none"} /\ answer.carries # "garbled"
    /\ answer.type = "ListEnd" => <<req, "lines">> \in Contract
    /\ \A c \in Contract : c[1] = req =>
          IF c[2] = "lines" THEN answer.type = "ListEnd" /\ answer.carries = "Slots"
          ELSE answer.carries = c[2]

Relies(calls) == \A name \in DOMAIN calls : Relied(name, calls[name])
Keeps(table) == \A q \in DOMAIN table : Kept(q, table[q])

LEMMA MergedRow ==
    ASSUME NEW tables, NEW name \in DOMAIN Merged(tables)
    PROVE  \E t \in tables : name \in DOMAIN t /\ Merged(tables)[name] = t[name]
  <1>1. name \in UNION {DOMAIN t : t \in tables}
    BY DEF Merged
  <1>2. PICK t \in tables : name \in DOMAIN t
    BY <1>1
  <1>3. Merged(tables)[name] = (CHOOSE u \in tables : name \in DOMAIN u)[name]
    BY <1>1 DEF Merged
  <1>4. QED
    BY <1>2, <1>3

LEMMA CallRows == \A name \in CallNames : Relied(name, Calls[name])
  <1> USE DEF Relies, Relied, Contract, Special, Ask
  <1>1. Relies(QueueCalls)
    BY DEF QueueCalls
  <1>2. Relies(BatchCalls)
    BY DEF BatchCalls
  <1>3. Relies(SubmitCalls)
    BY DEF SubmitCalls
  <1>4. Relies(OutputCalls)
    BY DEF OutputCalls
  <1>5. Relies(SlotCalls)
    BY DEF SlotCalls
  <1>6. Relies(RunCalls)
    BY DEF RunCalls
  <1>7. Relies(JobCalls)
    BY DEF JobCalls
  <1>8. Relies(SettingCalls)
    BY DEF SettingCalls
  <1>9. Relies(SessionCalls)
    BY DEF SessionCalls
  <1>10. Relies(GroupCalls)
    BY DEF GroupCalls
  <1>11. Relies(PaneCalls)
    BY DEF PaneCalls
  <1> HIDE DEF Relied
  <1>12. \A t \in CallTables : Relies(t)
    BY <1>1, <1>2, <1>3, <1>4, <1>5, <1>6, <1>7, <1>8, <1>9, <1>10, <1>11 DEF CallTables
  <1>13. QED
    BY <1>12, MergedRow DEF CallNames, Calls

LEMMA AnswerRows == \A q \in DOMAIN Answers : Kept(q, Answers[q])
  <1> USE DEF Keeps, Kept, Contract, Special, Answer, Ack, Lines
  <1>1. Keeps(SubmitAnswers)
    BY DEF SubmitAnswers
  <1>2. Keeps(QueueAnswers)
    BY DEF QueueAnswers
  <1>3. Keeps(JobAnswers)
    BY DEF JobAnswers
  <1>4. Keeps(SettingAnswers)
    BY DEF SettingAnswers
  <1>5. Keeps(SessionAnswers)
    BY DEF SessionAnswers
  <1>6. Keeps(PaneAnswers)
    BY DEF PaneAnswers
  <1>7. Keeps(InlineAnswers)
    BY DEF InlineAnswers
  <1> HIDE DEF Kept
  <1>8. \A t \in AnswerTables : Keeps(t)
    BY <1>1, <1>2, <1>3, <1>4, <1>5, <1>6, <1>7 DEF AnswerTables
  <1>9. QED
    BY <1>8, MergedRow DEF Answers

\* A message a call makes sense of; SubmitJob knows no errors.
Legible(name, msg) == name = "SubmitJob" \/ (msg # Garbled /\ Reading(name, msg) # "unexpected")
Said(msgs) == {msgs[i] : i \in DOMAIN msgs}

LEMMA ErrorLegible == \A name : Legible(name, Error)
  BY DEF Legible, Error, Garbled, Reading

LEMMA RepliesLegible ==
    ASSUME NEW name \in CallNames, Dispatch(Calls[name].sends) = "answer",
           NEW reply \in Replies(Calls[name].sends), NEW m \in Said(reply)
    PROVE  Legible(name, m)
  <1> DEFINE q == Calls[name].sends
             ask == Calls[name]
             yes == [type |-> Answers[q].type, carries |-> Answers[q].carries]
             line == [type |-> "ListLine", carries |-> "ListLine"]
  <1>1. q \in DOMAIN Answers
    BY DEF Dispatch
  <1>2. Kept(q, Answers[q]) /\ Relied(name, ask)
    BY <1>1, CallRows, AnswerRows
  <1>3. /\ q \notin Special /\ yes.carries # "garbled"
        /\ \/ ask.reads = "ack"
           \/ ask.reads = "lines" /\ yes.type = "ListEnd" /\ yes.carries = "Slots"
           \/ ask.reads # "lines" /\ ask.reads = yes.carries
    <2>1. ask.reads = "ack" \/ <<q, ask.reads>> \in Contract
      BY <1>2 DEF Kept, Relied
    <2>2. ASSUME <<q, ask.reads>> \in Contract
          PROVE  IF ask.reads = "lines" THEN yes.type = "ListEnd" /\ yes.carries = "Slots"
                 ELSE yes.carries = ask.reads
      BY <1>2, <2>2 DEF Kept
    <2>3. QED
      BY <1>2, <2>1, <2>2 DEF Kept
  <1>4. \/ reply = <<Error>>
        \/ reply = <<yes>>
        \/ Answers[q].type = "ListEnd" /\ reply = <<line, yes>>
    BY DEF Replies
  <1>5. m = Error \/ m = yes \/ (Answers[q].type = "ListEnd" /\ m = line)
    BY <1>4 DEF Said
  <1>6. CASE m = Error
    BY <1>6, ErrorLegible
  <1>7. CASE m = yes
    <2>1. m # Garbled
      BY <1>3, <1>7 DEF Garbled
    <2>2. Reading(name, m) # "unexpected" \/ name = "SubmitJob"
      BY <1>3, <1>7 DEF Reading
    <2>3. QED
      BY <2>1, <2>2 DEF Legible
  <1>8. CASE Answers[q].type = "ListEnd" /\ m = line
    <2>1. ask.reads \in {"ack", "lines"}
      <3>1. <<q, "lines">> \in Contract
        BY <1>2, <1>8 DEF Kept
      <3>2. ask.reads = "ack" \/ <<q, ask.reads>> \in Contract
        BY <1>2, <1>3 DEF Relied
      <3>3. \A r : <<q, r>> \in Contract => r = "lines"
        BY <3>1 DEF Contract
      <3>4. QED
        BY <3>2, <3>3
    <2>2. QED
      BY <2>1, <1>8 DEF Legible, Garbled, Reading, Error
  <1>9. QED
    BY <1>5, <1>6, <1>7, <1>8

-----------------------------------------------------------------------------
(* What is under way on a connection suits the call that reads it.           *)

Messages ==
    {OK, Result, TakenOver, Garbled, Error, [type |-> "ListLine", carries |-> "ListLine"]}
    \cup {[type |-> Answers[q].type, carries |-> Answers[q].carries] : q \in DOMAIN Answers}

CTyped ==
    /\ Placed
    /\ registered \in Conns \cup {NoConn}
    /\ old \in [Conns -> Conns \cup {NoConn}]
    /\ half \in [Conns -> {"no", "one", "torn"}]
    /\ \E R : request \in [Conns -> R]
    /\ answers \in [Conns -> Seq(Messages)]
    /\ ends \in [Conns -> {"open", "cut", "hung", "gone"}]
    /\ at \in [Clients -> ClientPlaces]
    /\ via \in [Clients -> {0, 1}]
    /\ checked \in [Clients -> BOOLEAN]
    /\ call \in [Clients -> CallNames \cup {"none"}]
    /\ watch \in [Clients -> {"no", "acknowledged", "mistaken"}]
    /\ how \in [Clients -> Endings]

\* The client's end is closed.
Away(k) == ends[k] \in {"hung", "gone"}
OtherConn(c) == <<c, 1 - via[c]>>

\* A process whose connection is a TUI's, or that makes no further calls.
Tui(k) ==
    /\ k = Conn(k[1])
    /\ at[k[1]] \in {"driving", "ended"} \/ (at[k[1]] = "asked" /\ call[k[1]] = "AttachTUI")
TuiPlaces == {"notify", "notifying", "ack", "acking", "parked"}

\* Nobody is left to read a connection its process has closed, and a process
\* has one connection open at most.
ClosedEmpty == \A k \in Conns : Away(k) => answers[k] = << >>
OneOpen == \A c \in Clients : Away(OtherConn(c)) /\ (at[c] \in {"idle", "ended"} => Away(Conn(c)))

\* Whatever has to do with registrations is on the connection of a TUI.
TuiOnly ==
    \A k \in Conns :
        \/ request[k] = "TUIAttach" \/ registered = k
        \/ (\E j \in Conns : old[j] = k) \/ server[k] \in TuiPlaces
        => Tui(k)

Suits(c) ==
    /\ request[Conn(c)] \in {"none", Calls[call[c]].sends}
    /\ call[c] # "AttachTUI" => \A m \in Said(answers[Conn(c)]) : Legible(call[c], m)
    /\ server[Conn(c)] = "waiting" => call[c] = "WaitJob"
\* Before the first call on a connection only being turned away can be read.
Fresh(c) ==
    /\ request[Conn(c)] = "none" /\ server[Conn(c)] # "waiting"
    /\ Said(answers[Conn(c)]) \subseteq {Error}

Asking(c) == at[c] = "asked" \/ (at[c] = "dialed" /\ IsBatch(call[c]))
Dialing(c) == at[c] = "dialed" /\ ~IsBatch(call[c])

Talks(c) ==
    /\ Asking(c) => Suits(c) /\ call[c] \in CallNames
    /\ Dialing(c) => Fresh(c)
    /\ ~checked[c] => call[c] \in {"none", "GetVersion"}
    /\ how[c] = "unexpected" => at[c] = "ended" /\ call[c] = "SubmitJob"

AInv == CTyped /\ ClosedEmpty /\ OneOpen /\ TuiOnly /\ \A c \in Clients : Talks(c)

-----------------------------------------------------------------------------
LEMMA SaidConcat ==
    ASSUME NEW S, NEW s \in Seq(S), NEW t \in Seq(S)
    PROVE  s \o t \in Seq(S) /\ Said(s \o t) = Said(s) \cup Said(t)
  <1>1. s \o t \in Seq(S) /\ Len(s \o t) = Len(s) + Len(t) /\ Len(s) \in Nat /\ Len(t) \in Nat
    OBVIOUS
  <1>2. \A i \in 1..Len(s) : (s \o t)[i] = s[i]
    OBVIOUS
  <1>3. \A i \in 1..Len(t) : (s \o t)[Len(s) + i] = t[i]
    OBVIOUS
  <1>4. \A i \in 1..(Len(s) + Len(t)) : i \in 1..Len(s) \/ (i - Len(s) \in 1..Len(t) /\ i = Len(s) + (i - Len(s)))
    BY <1>1
  <1>5. Said(s \o t) \subseteq Said(s) \cup Said(t)
    <2> SUFFICES ASSUME NEW i \in 1..(Len(s) + Len(t)) PROVE (s \o t)[i] \in Said(s) \cup Said(t)
      BY <1>1 DEF Said
    <2>1. CASE i \in 1..Len(s)
      BY <1>2, <2>1 DEF Said
    <2>2. CASE i - Len(s) \in 1..Len(t)
      BY <1>3, <1>4, <2>2 DEF Said
    <2>3. QED
      BY <1>4, <2>1, <2>2
  <1>6. Said(s) \subseteq Said(s \o t)
    BY <1>1, <1>2 DEF Said
  <1>7. Said(t) \subseteq Said(s \o t)
    <2> SUFFICES ASSUME NEW i \in 1..Len(t) PROVE t[i] \in Said(s \o t)
      BY DEF Said
    <2>1. Len(s) + i \in 1..Len(s \o t)
      BY <1>1
    <2>2. QED
      BY <1>3, <2>1 DEF Said
  <1>8. QED
    BY <1>1, <1>5, <1>6, <1>7

LEMMA SaidTail ==
    ASSUME NEW S, NEW s \in Seq(S), s # << >>
    PROVE  /\ Tail(s) \in Seq(S) /\ Head(s) \in Said(s)
           /\ Said(Tail(s)) \subseteq Said(s) /\ Said(s) \subseteq Said(Tail(s)) \cup {Head(s)}
  <1>1. /\ Tail(s) \in Seq(S) /\ Len(s) \in Nat \ {0} /\ Len(Tail(s)) = Len(s) - 1
        /\ Head(s) = s[1] /\ \A i \in 1..(Len(s) - 1) : Tail(s)[i] = s[i + 1]
    OBVIOUS
  <1>2. Head(s) \in Said(s)
    BY <1>1 DEF Said
  <1>3. Said(Tail(s)) \subseteq Said(s)
    <2> SUFFICES ASSUME NEW i \in 1..(Len(s) - 1) PROVE Tail(s)[i] \in Said(s)
      BY <1>1 DEF Said
    <2>1. i + 1 \in 1..Len(s)
      BY <1>1
    <2>2. QED
      BY <1>1, <2>1 DEF Said
  <1>4. Said(s) \subseteq Said(Tail(s)) \cup {Head(s)}
    <2> SUFFICES ASSUME NEW i \in 1..Len(s) PROVE s[i] \in Said(Tail(s)) \cup {Head(s)}
      BY DEF Said
    <2>1. CASE i = 1
      BY <1>1, <2>1
    <2>2. CASE i # 1
      <3>1. PICK j : j = i - 1
        OBVIOUS
      <3>2. j \in 1..(Len(s) - 1) /\ j + 1 = i
        BY <1>1, <2>2, <3>1
      <3>3. Tail(s)[j] = s[i] /\ j \in DOMAIN Tail(s)
        BY <1>1, <3>2
      <3>4. QED
        BY <3>3 DEF Said
    <2>3. QED
      BY <2>1, <2>2
  <1>5. QED
    BY <1>1, <1>2, <1>3, <1>4

LEMMA SaidNothing == Said(<< >>) = {}
  BY DEF Said

LEMMA ConnsAre ==
    ASSUME CTyped
    PROVE  /\ \A c \in Clients : Conn(c) \in Conns /\ OtherConn(c) \in Conns /\ Conn(c) # OtherConn(c)
           /\ \A c \in Clients : Conn(c)[1] = c /\ OtherConn(c)[1] = c
           /\ \A k \in Conns : k[1] \in Clients /\ (k = Conn(k[1]) \/ k = OtherConn(k[1]))
           /\ NoConn \notin Conns
  <1>1. \A c \in Clients : via[c] = 0 \/ via[c] = 1
    BY DEF CTyped
  <1>2. \A k \in Conns : k = <<k[1], k[2]>> /\ k[1] \in Clients /\ (k[2] = 0 \/ k[2] = 1)
    BY DEF Conns
  <1>3. NoConn \notin Conns
    BY ConversationsAssumption DEF Conns, NoConn
  <1>4. \A c \in Clients : Conn(c) \in Conns /\ OtherConn(c) \in Conns /\ Conn(c) # OtherConn(c)
    BY <1>1 DEF Conns, Conn, OtherConn
  <1>5. \A k \in Conns : k = Conn(k[1]) \/ k = OtherConn(k[1])
    BY <1>1, <1>2 DEF Conn, OtherConn
  <1>6. \A c \in Clients : Conn(c)[1] = c /\ OtherConn(c)[1] = c
    BY DEF Conn, OtherConn
  <1>7. QED
    BY <1>2, <1>3, <1>4, <1>5, <1>6

LEMMA AInit == Init => AInv
  <1> SUFFICES ASSUME Init PROVE AInv
    OBVIOUS
  <1>1. CTyped
    <2>1. request \in [Conns -> {"none"}] /\ answers \in [Conns -> Seq(Messages)]
      BY DEF Init
    <2>2. QED
      BY <2>1 DEF Init, CTyped, Placed, ServerPlaces, ClientPlaces, Endings
  <1>2. ClosedEmpty /\ OneOpen
    BY <1>1, ConnsAre DEF Init, ClosedEmpty, OneOpen, Away
  <1>3. TuiOnly
    BY <1>1, ConnsAre DEF Init, TuiOnly, TuiPlaces
  <1>4. \A c \in Clients : Talks(c)
    BY DEF Init, Talks, Asking, Dialing
  <1>5. QED
    BY <1>1, <1>2, <1>3, <1>4 DEF AInv

\* What may be written on a connection, if anybody reads it.
Proper(k, m) ==
    \A c \in Clients : k = Conn(c) =>
        /\ Asking(c) /\ call[c] # "AttachTUI" => Legible(call[c], m)
        /\ Dialing(c) => m = Error

\* A step of the daemon.
LEMMA DaemonStep ==
    ASSUME AInv, CTyped', UNCHANGED clientVars,
           \A k \in Conns : ends'[k] \in {"hung", "gone"} <=> ends[k] \in {"hung", "gone"},
           \A k \in Conns : \/ answers'[k] = answers[k]
                            \/ /\ ~Away(k)
                               /\ \A m \in Said(answers'[k]) : m \in Said(answers[k]) \/ Proper(k, m),
           \A k \in Conns : request'[k] \in {request[k], "none"},
           \A k \in Conns : server'[k] = "waiting" => server[k] = "waiting" \/ request[k] = "WaitJob",
           \A k \in Conns : server'[k] \in TuiPlaces => server[k] \in TuiPlaces \/ Tui(k),
           registered' \in {registered, NoConn} \/ Tui(registered'),
           \A j \in Conns : old'[j] \in {old[j], NoConn, registered}
    PROVE  AInv'
  <1>1. \A c \in Clients : Conn(c) \in Conns /\ Conn(c)' = Conn(c) /\ OtherConn(c)' = OtherConn(c)
                           /\ OtherConn(c) \in Conns
    BY ConnsAre DEF AInv, clientVars, Conn, OtherConn
  <1>2. UNCHANGED <<at, via, checked, call, watch, how>>
    BY DEF clientVars
  <1>3. ClosedEmpty' /\ OneOpen'
    BY <1>1, <1>2 DEF AInv, ClosedEmpty, OneOpen, Away
  <1>4. TuiOnly'
    <2> SUFFICES ASSUME NEW k \in Conns,
                        \/ request'[k] = "TUIAttach" \/ registered' = k
                        \/ (\E j \in Conns : old'[j] = k) \/ server'[k] \in TuiPlaces
                 PROVE  Tui(k)'
      BY DEF TuiOnly
    <2>1. k # NoConn /\ k[1] \in Clients
      BY ConnsAre DEF AInv
    <2>2. Tui(k)
      BY <2>1 DEF AInv, TuiOnly
    <2>3. QED
      BY <1>1, <1>2, <2>1, <2>2 DEF Tui
  <1>5. ASSUME NEW c \in Clients PROVE Talks(c)'
    <2>1. Talks(c) /\ Asking(c)' = Asking(c) /\ Dialing(c)' = Dialing(c)
      BY <1>2 DEF AInv, Asking, Dialing
    <2>2. \A m \in Said(answers'[Conn(c)]) : m \in Said(answers[Conn(c)]) \/ Proper(Conn(c), m)
      BY <1>1
    <2>3. ASSUME Asking(c) PROVE Suits(c)'
      <3>1. Suits(c) /\ call[c] \in CallNames
        BY <2>1, <2>3 DEF Talks
      <3>2. request[Conn(c)] = "WaitJob" => call[c] = "WaitJob"
        <4>1. Calls[call[c]].sends = "WaitJob" => call[c] = "WaitJob"
          BY <3>1, CallRows DEF Relied
        <4>2. QED
          BY <3>1, <4>1 DEF Suits
      <3>3. server'[Conn(c)] = "waiting" => call[c] = "WaitJob"
        BY <1>1, <3>1, <3>2 DEF Suits
      <3>4. ASSUME call[c] # "AttachTUI", NEW m \in Said(answers'[Conn(c)]) PROVE Legible(call[c], m)
        BY <2>2, <2>3, <3>1, <3>4 DEF Suits, Proper
      <3>5. request'[Conn(c)] \in {"none", Calls[call[c]].sends}
        BY <1>1, <3>1 DEF Suits
      <3>6. QED
        BY <1>1, <1>2, <3>3, <3>4, <3>5 DEF Suits
    <2>4. ASSUME Dialing(c) PROVE Fresh(c)'
      <3>1. Fresh(c)
        BY <2>1, <2>4 DEF Talks
      <3>2. server'[Conn(c)] # "waiting" /\ request'[Conn(c)] = "none"
        BY <1>1, <3>1 DEF Fresh
      <3>3. Said(answers'[Conn(c)]) \subseteq {Error}
        BY <2>2, <2>4, <3>1 DEF Fresh, Proper
      <3>4. QED
        BY <1>1, <3>2, <3>3 DEF Fresh
    <2>5. QED
      BY <1>2, <2>1, <2>3, <2>4 DEF Talks
  <1>6. QED
    BY <1>3, <1>4, <1>5 DEF AInv

LEMMA Puts ==
    ASSUME CTyped, NEW k, NEW msgs \in Seq(Messages), Put(k, msgs),
           \A m \in Said(msgs) : Proper(k, m)
    PROVE  /\ answers' \in [Conns -> Seq(Messages)]
           /\ \A j \in Conns : \/ answers'[j] = answers[j]
                               \/ /\ ~Away(j)
                                  /\ \A m \in Said(answers'[j]) : m \in Said(answers[j]) \/ Proper(j, m)
  <1>1. answers \in [Conns -> Seq(Messages)]
    BY DEF CTyped
  <1>2. answers' = [answers EXCEPT ![k] = IF Closed(k) THEN @ ELSE @ \o msgs]
    BY DEF Put
  <1>3. \A j \in Conns : answers'[j] = answers[j] \/ (j = k /\ ~Closed(k) /\ answers'[j] = answers[k] \o msgs)
    BY <1>1, <1>2
  <1>4. ASSUME NEW j \in Conns, j = k, ~Closed(k), answers'[j] = answers[k] \o msgs
        PROVE  /\ answers'[j] \in Seq(Messages) /\ ~Away(j)
               /\ \A m \in Said(answers'[j]) : m \in Said(answers[j]) \/ Proper(j, m)
    <2>1. answers[j] \in Seq(Messages)
      BY <1>1
    <2>2. answers'[j] \in Seq(Messages) /\ Said(answers'[j]) = Said(answers[j]) \cup Said(msgs)
      BY <1>4, <2>1, SaidConcat
    <2>3. ~Away(j)
      BY <1>4 DEF Closed, Away
    <2>4. QED
      BY <1>4, <2>2, <2>3
  <1>5. \A j \in Conns : answers'[j] \in Seq(Messages)
    BY <1>1, <1>3, <1>4
  <1>6. answers' \in [Conns -> Seq(Messages)]
    BY <1>1, <1>2, <1>5
  <1>7. QED
    BY <1>3, <1>4, <1>6

LEMMA PutsOne ==
    ASSUME CTyped, NEW k, NEW m \in Messages, Put(k, <<m>>), k \in Conns => Proper(k, m)
    PROVE  /\ answers' \in [Conns -> Seq(Messages)]
           /\ \A j \in Conns : \/ answers'[j] = answers[j]
                               \/ /\ ~Away(j)
                                  /\ \A x \in Said(answers'[j]) : x \in Said(answers[j]) \/ Proper(j, x)
  <1>1. <<m>> \in Seq(Messages) /\ Said(<<m>>) = {m}
    BY DEF Said
  <1>2. CASE k \in Conns
    BY <1>1, <1>2, Puts
  <1>3. CASE k \notin Conns
    BY <1>3 DEF Put, CTyped
  <1>4. QED
    BY <1>2, <1>3

LEMMA Shuts ==
    ASSUME CTyped, NEW k, Shut(k)
    PROVE  /\ ends' \in [Conns -> {"open", "cut", "hung", "gone"}]
           /\ \A j \in Conns : ends'[j] \in {"hung", "gone"} <=> ends[j] \in {"hung", "gone"}
           /\ \A j \in Conns : j # k => ends'[j] = ends[j]
           /\ \A j \in Conns : Closed(j) => ends'[j] # "open"
           /\ k \in Conns => ends'[k] # "open"
  <1>1. ends' = [ends EXCEPT ![k] = CASE @ = "open" -> "cut" [] @ = "hung" -> "gone" [] OTHER -> @]
    BY DEF Shut
  <1>2. \A j \in Conns : /\ j # k => ends'[j] = ends[j]
                         /\ j = k => ends'[j] = CASE ends[j] = "open" -> "cut" [] ends[j] = "hung" -> "gone"
                                                   [] OTHER -> ends[j]
    BY <1>1 DEF CTyped
  <1>3. \A j \in Conns : ends[j] = "open" \/ ends[j] = "cut" \/ ends[j] = "hung" \/ ends[j] = "gone"
    BY DEF CTyped
  <1>4. ends' \in [Conns -> {"open", "cut", "hung", "gone"}]
    <2>1. \A j \in Conns : ends'[j] \in {"open", "cut", "hung", "gone"}
      BY <1>2, <1>3
    <2>2. QED
      BY <1>1, <2>1 DEF CTyped
  <1>5. QED
    BY <1>2, <1>3, <1>4 DEF Closed

LEMMA Moves ==
    ASSUME CTyped, NEW k \in Conns, NEW place \in ServerPlaces, Move(k, place)
    PROVE  /\ Placed'
           /\ \A j \in Conns : server'[j] = IF j = k THEN place ELSE server[j]
  BY DEF CTyped, Placed, Move

\* On the connection of a TUI everything may be written.
LEMMA TuiReads == ASSUME CTyped, NEW k \in Conns, Tui(k), NEW m PROVE Proper(k, m)
  BY ConnsAre DEF Tui, Proper, Asking, Dialing

LEMMA MessagesAre ==
    /\ {OK, Result, TakenOver, Garbled, Error} \subseteq Messages
    /\ \A q \in DOMAIN Answers : Replies(q) \subseteq Seq(Messages)
  <1>1. ASSUME NEW q \in DOMAIN Answers PROVE Replies(q) \subseteq Seq(Messages)
    <2>1. PICK yes \in Messages : yes = [type |-> Answers[q].type, carries |-> Answers[q].carries]
      BY DEF Messages
    <2>2. PICK line \in Messages : line = [type |-> "ListLine", carries |-> "ListLine"]
      BY DEF Messages
    <2>3. Replies(q) \subseteq {<<yes>>, <<line, yes>>, <<Error>>}
      BY <2>1, <2>2 DEF Replies
    <2>4. Error \in Messages
      BY DEF Messages
    <2>5. <<yes>> \in Seq(Messages)
      OBVIOUS
    <2>6. <<line, yes>> \in Seq(Messages)
      OBVIOUS
    <2>7. <<Error>> \in Seq(Messages)
      BY <2>4
    <2>8. QED
      BY <2>3, <2>5, <2>6, <2>7
  <1>2. QED
    BY <1>1 DEF Messages

\* A reply to what was asked is proper.
LEMMA ReplyProper ==
    ASSUME AInv, NEW k \in Conns, request[k] # "none", Dispatch(request[k]) = "answer",
           NEW reply \in Replies(request[k])
    PROVE  reply \in Seq(Messages) /\ \A m \in Said(reply) : Proper(k, m)
  <1>1. request[k] \in DOMAIN Answers
    BY DEF Dispatch
  <1>2. ASSUME NEW c \in Clients, k = Conn(c), NEW m \in Said(reply)
        PROVE  /\ Asking(c) /\ call[c] # "AttachTUI" => Legible(call[c], m)
               /\ Dialing(c) => m = Error
    <2>1. ASSUME Asking(c) PROVE Legible(call[c], m)
      <3>1. call[c] \in CallNames /\ request[k] = Calls[call[c]].sends
        BY <1>2, <2>1 DEF AInv, Talks, Suits
      <3>2. QED
        BY <1>2, <3>1, RepliesLegible
    <2>2. ASSUME Dialing(c) PROVE FALSE
      BY <1>2, <2>2 DEF AInv, Talks, Fresh
    <2>3. QED
      BY <2>1, <2>2
  <1>3. QED
    BY <1>1, <1>2, MessagesAre DEF Proper

-----------------------------------------------------------------------------
LEMMA GoroutineA ==
    ASSUME AInv, NEW k \in Conns, Accept(k) \/ Goroutine(k) \/ JobEnds(k)
    PROVE  AInv'
  <1>0. CTyped /\ UNCHANGED clientVars /\ UNCHANGED <<at, via, checked, call, watch, how>>
    BY DEF AInv, Accept, Goroutine, JobEnds, TurnAway, HungUp, Serve, Wait, WaitReturns, Shutdown, Attach,
           BeginNotice, EndNotice, BeginAck, EndAck, AckFails, Unpark, Leave, clientVars
  <1>1. CASE Accept(k)
    <2>1. Move(k, "turning") \/ Move(k, "serving")
      BY <1>1 DEF Accept, Move
    <2>2. PICK p \in {"turning", "serving"} : Move(k, p)
      BY <2>1
    <2>3. Placed' /\ \A j \in Conns : server'[j] = IF j = k THEN p ELSE server[j]
      BY <1>0, <2>2, Moves DEF ServerPlaces
    <2>4. UNCHANGED <<registered, old, half, request, answers, ends>>
      BY <1>1 DEF Accept, wireVars
    <2>5. CTyped'
      BY <1>0, <2>3, <2>4 DEF CTyped
    <2>6. QED
      BY <1>0, <2>2, <2>3, <2>4, <2>5, DaemonStep DEF TuiPlaces
  <1>2. CASE TurnAway(k)
    <2>1. Put(k, <<Error>>) /\ Shut(k) /\ Move(k, "none") /\ UNCHANGED <<registered, old, half, request>>
      BY <1>2 DEF TurnAway
    <2>2. Placed' /\ \A j \in Conns : server'[j] = IF j = k THEN "none" ELSE server[j]
      BY <1>0, <2>1, Moves DEF ServerPlaces
    <2>3. Proper(k, Error)
      BY ErrorLegible DEF Proper
    <2>4. CTyped'
      BY <1>0, <2>1, <2>2, <2>3, PutsOne, Shuts, MessagesAre DEF CTyped
    <2>5. QED
      BY <1>0, <2>1, <2>2, <2>3, <2>4, PutsOne, Shuts, MessagesAre, DaemonStep DEF TuiPlaces
  <1>3. CASE HungUp(k) \/ Leave(k)
    <2>1. Shut(k) /\ Move(k, "none") /\ UNCHANGED <<registered, old, half, request, answers>>
      BY <1>3 DEF HungUp, Leave, GiveBack
    <2>2. Placed' /\ \A j \in Conns : server'[j] = IF j = k THEN "none" ELSE server[j]
      BY <1>0, <2>1, Moves DEF ServerPlaces
    <2>3. CTyped'
      BY <1>0, <2>1, <2>2, Shuts DEF CTyped
    <2>4. QED
      BY <1>0, <2>1, <2>2, <2>3, Shuts, DaemonStep DEF TuiPlaces
  <1>4. CASE Serve(k)
    <2>1. PICK reply \in Replies(request[k]) : Put(k, reply)
      BY <1>4 DEF Serve
    <2>2. /\ request[k] # "none" /\ Dispatch(request[k]) = "answer"
          /\ request' = [request EXCEPT ![k] = "none"] /\ UNCHANGED <<registered, old, half>>
      BY <1>4 DEF Serve, Takes
    <2>3. PICK R : request \in [Conns -> R]
      BY <1>0 DEF CTyped
    <2>4. request' \in [Conns -> R \cup {"none"}] /\ \A j \in Conns : request'[j] \in {request[j], "none"}
      BY <2>2, <2>3
    <2>5. /\ ends' \in [Conns -> {"open", "cut", "hung", "gone"}] /\ Placed'
          /\ \A j \in Conns : ends'[j] \in {"hung", "gone"} <=> ends[j] \in {"hung", "gone"}
          /\ \A j \in Conns : server'[j] \in {server[j], "none"}
      <3>1. CASE GiveBack(k)
        BY <1>0, <3>1, Shuts, Moves DEF GiveBack, ServerPlaces
      <3>2. CASE UNCHANGED <<server, ends>>
        BY <1>0, <3>2 DEF CTyped, Placed
      <3>3. QED
        BY <1>4, <3>1, <3>2 DEF Serve
    <2>6. /\ answers' \in [Conns -> Seq(Messages)]
          /\ \A j \in Conns : \/ answers'[j] = answers[j]
                              \/ /\ ~Away(j)
                                 /\ \A m \in Said(answers'[j]) : m \in Said(answers[j]) \/ Proper(j, m)
      <3>1. reply \in Seq(Messages) /\ \A m \in Said(reply) : Proper(k, m)
        BY <2>2, ReplyProper
      <3>2. QED
        BY <1>0, <2>1, <3>1, Puts
    <2>7. CTyped'
      BY <1>0, <2>2, <2>4, <2>5, <2>6 DEF CTyped
    <2>8. QED
      BY <1>0, <2>2, <2>4, <2>5, <2>6, <2>7, DaemonStep DEF TuiPlaces
  <1>5. CASE Wait(k) \/ Shutdown(k) \/ Attach(k)
    <2>1. /\ request[k] # "none" /\ request' = [request EXCEPT ![k] = "none"]
          /\ UNCHANGED <<half, answers>>
      BY <1>5 DEF Wait, Shutdown, Attach, Takes
    <2>2. PICK R : request \in [Conns -> R]
      BY <1>0 DEF CTyped
    <2>3. request' \in [Conns -> R \cup {"none"}] /\ \A j \in Conns : request'[j] \in {request[j], "none"}
      BY <2>1, <2>2
    <2>4. CASE Wait(k)
      <3>1. Move(k, "waiting") /\ Dispatch(request[k]) = "wait" /\ UNCHANGED <<registered, old, ends>>
        BY <2>4 DEF Wait, Takes
      <3>2. request[k] = "WaitJob"
        BY <3>1 DEF Dispatch
      <3>3. Placed' /\ \A j \in Conns : server'[j] = IF j = k THEN "waiting" ELSE server[j]
        BY <1>0, <3>1, Moves DEF ServerPlaces
      <3>4. CTyped'
        BY <1>0, <2>1, <2>3, <3>1, <3>3 DEF CTyped
      <3>5. QED
        BY <1>0, <2>1, <2>3, <3>1, <3>2, <3>3, <3>4, DaemonStep DEF TuiPlaces
    <2>5. CASE Shutdown(k)
      <3>1. Shut(k) /\ Move(k, "none") /\ UNCHANGED <<registered, old>>
        BY <2>5 DEF Shutdown, GiveBack
      <3>2. Placed' /\ \A j \in Conns : server'[j] = IF j = k THEN "none" ELSE server[j]
        BY <1>0, <3>1, Moves DEF ServerPlaces
      <3>3. CTyped'
        BY <1>0, <2>1, <2>3, <3>1, <3>2, Shuts DEF CTyped
      <3>4. QED
        BY <1>0, <2>1, <2>3, <3>1, <3>2, <3>3, Shuts, DaemonStep DEF TuiPlaces
    <2>6. CASE Attach(k)
      <3>1. /\ old' = [old EXCEPT ![k] = registered] /\ registered' = k
            /\ Move(k, "ack") \/ Move(k, "notify")
            /\ Dispatch(request[k]) = "attach" /\ UNCHANGED ends
        BY <2>6 DEF Attach, Takes
      <3>2. request[k] = "TUIAttach"
        BY <3>1 DEF Dispatch
      <3>3. Tui(k)
        BY <3>2 DEF AInv, TuiOnly
      <3>4. PICK p \in {"ack", "notify"} : Move(k, p)
        BY <3>1
      <3>5. Placed' /\ \A j \in Conns : server'[j] = IF j = k THEN p ELSE server[j]
        BY <1>0, <3>4, Moves DEF ServerPlaces
      <3>6. old' \in [Conns -> Conns \cup {NoConn}] /\ \A j \in Conns : old'[j] \in {old[j], registered}
        BY <1>0, <3>1 DEF CTyped
      <3>7. CTyped'
        BY <1>0, <2>1, <2>3, <3>1, <3>5, <3>6 DEF CTyped
      <3>8. QED
        BY <1>0, <2>1, <2>3, <3>1, <3>3, <3>5, <3>6, <3>7, DaemonStep
    <2>7. QED
      BY <1>5, <2>4, <2>5, <2>6
  <1>6. CASE JobEnds(k)
    <2>1. Put(k, <<Result>>) /\ Move(k, "waited") /\ server[k] = "waiting"
          /\ UNCHANGED <<registered, old, half, request, ends>>
      BY <1>6 DEF JobEnds
    <2>2. Placed' /\ \A j \in Conns : server'[j] = IF j = k THEN "waited" ELSE server[j]
      BY <1>0, <2>1, Moves DEF ServerPlaces
    <2>3. Proper(k, Result)
      <3>1. ASSUME NEW c \in Clients, k = Conn(c), Asking(c) PROVE Legible(call[c], Result)
        <4>1. call[c] = "WaitJob" /\ call[c] \in CallNames
          BY <2>1, <3>1 DEF AInv, Talks, Suits
        <4>2. Calls[call[c]].reads = "Result"
          BY <4>1, CallRows DEF Relied
        <4>3. QED
          BY <4>1, <4>2 DEF Legible, Result, Garbled, Reading, Error
      <3>2. \A c \in Clients : k = Conn(c) => ~Dialing(c)
        BY <2>1 DEF AInv, Talks, Fresh
      <3>3. QED
        BY <3>1, <3>2 DEF Proper
    <2>4. CTyped'
      BY <1>0, <2>1, <2>2, <2>3, PutsOne, MessagesAre DEF CTyped
    <2>5. QED
      BY <1>0, <2>1, <2>2, <2>3, <2>4, PutsOne, MessagesAre, DaemonStep DEF TuiPlaces
  <1>7. CASE WaitReturns(k) \/ AckFails(k)
    <2>1. Move(k, "serving") \/ Move(k, "leaving")
      BY <1>7 DEF WaitReturns, AckFails
    <2>2. PICK p \in {"serving", "leaving"} : Move(k, p)
      BY <2>1
    <2>3. Placed' /\ \A j \in Conns : server'[j] = IF j = k THEN p ELSE server[j]
      BY <1>0, <2>2, Moves DEF ServerPlaces
    <2>4. UNCHANGED <<registered, old, half, request, answers, ends>>
      BY <1>7 DEF WaitReturns, AckFails, wireVars
    <2>5. CTyped'
      BY <1>0, <2>3, <2>4 DEF CTyped
    <2>6. QED
      BY <1>0, <2>2, <2>3, <2>4, <2>5, DaemonStep DEF TuiPlaces
  <1>8. CASE BeginNotice(k) \/ BeginAck(k)
    <2>1. PICK p \in {"notifying", "acking"} : Move(k, p)
      BY <1>8 DEF BeginNotice, BeginAck
    <2>2. PICK x : BeginSend(x)
      BY <1>8 DEF BeginNotice, BeginAck
    <2>3. server[k] \in TuiPlaces /\ UNCHANGED <<registered, old, request, answers, ends>>
      BY <1>8 DEF BeginNotice, BeginAck, TuiPlaces
    <2>4. Placed' /\ \A j \in Conns : server'[j] = IF j = k THEN p ELSE server[j]
      BY <1>0, <2>1, Moves DEF ServerPlaces
    <2>5. half' \in [Conns -> {"no", "one", "torn"}]
      BY <1>0, <2>2 DEF BeginSend, CTyped
    <2>6. CTyped'
      BY <1>0, <2>3, <2>4, <2>5 DEF CTyped
    <2>7. QED
      BY <1>0, <2>1, <2>3, <2>4, <2>6, DaemonStep
  <1>9. CASE EndNotice(k)
    <2>1. /\ EndSend(old[k], TakenOver) /\ Shut(old[k]) /\ Move(k, "ack")
          /\ old' = [old EXCEPT ![k] = NoConn]
          /\ server[k] \in TuiPlaces /\ UNCHANGED <<registered, request>>
      BY <1>9 DEF EndNotice, TuiPlaces
    <2>2. Placed' /\ \A j \in Conns : server'[j] = IF j = k THEN "ack" ELSE server[j]
      BY <1>0, <2>1, Moves DEF ServerPlaces
    <2>3. old' \in [Conns -> Conns \cup {NoConn}] /\ \A j \in Conns : old'[j] \in {old[j], NoConn}
      BY <1>0, <2>1 DEF CTyped
    <2>4. half' \in [Conns -> {"no", "one", "torn"}]
      BY <1>0, <2>1 DEF EndSend, CTyped
    <2>5. PICK m \in {TakenOver, Garbled} : Put(old[k], <<m>>)
      BY <2>1 DEF EndSend
    <2>6. ASSUME old[k] \in Conns PROVE Proper(old[k], m)
      <3>1. Tui(old[k])
        BY <2>6 DEF AInv, TuiOnly
      <3>2. QED
        BY <1>0, <2>6, <3>1, TuiReads
    <2>7. m \in Messages /\ (old[k] \in Conns => Proper(old[k], m))
      BY <2>6, MessagesAre
    <2>8. /\ answers' \in [Conns -> Seq(Messages)]
          /\ \A j \in Conns : \/ answers'[j] = answers[j]
                              \/ /\ ~Away(j)
                                 /\ \A x \in Said(answers'[j]) : x \in Said(answers[j]) \/ Proper(j, x)
      BY <1>0, <2>5, <2>7, PutsOne
    <2>9. /\ ends' \in [Conns -> {"open", "cut", "hung", "gone"}]
          /\ \A j \in Conns : ends'[j] \in {"hung", "gone"} <=> ends[j] \in {"hung", "gone"}
      BY <1>0, <2>1, Shuts
    <2>10. CTyped'
      BY <1>0, <2>1, <2>2, <2>3, <2>4, <2>8, <2>9 DEF CTyped
    <2>11. QED
      BY <1>0, <2>1, <2>2, <2>3, <2>8, <2>9, <2>10, DaemonStep
  <1>10. CASE EndAck(k)
    <2>1. /\ EndSend(k, OK) /\ Move(k, "parked")
          /\ server[k] \in TuiPlaces /\ UNCHANGED <<registered, old, request, ends>>
      BY <1>10 DEF EndAck, TuiPlaces
    <2>2. Placed' /\ \A j \in Conns : server'[j] = IF j = k THEN "parked" ELSE server[j]
      BY <1>0, <2>1, Moves DEF ServerPlaces
    <2>3. half' \in [Conns -> {"no", "one", "torn"}]
      BY <1>0, <2>1 DEF EndSend, CTyped
    <2>4. PICK m \in {OK, Garbled} : Put(k, <<m>>)
      BY <2>1 DEF EndSend
    <2>5. Proper(k, m)
      BY <1>0, <2>1, TuiReads DEF AInv, TuiOnly
    <2>6. CTyped'
      BY <1>0, <2>1, <2>2, <2>3, <2>4, <2>5, PutsOne, MessagesAre DEF CTyped
    <2>7. QED
      BY <1>0, <2>1, <2>2, <2>4, <2>5, <2>6, PutsOne, MessagesAre, DaemonStep DEF TuiPlaces
  <1>11. CASE Unpark(k)
    <2>1. Move(k, "leaving") /\ registered' \in {registered, NoConn}
          /\ UNCHANGED <<old, half, request, answers, ends>>
      BY <1>11 DEF Unpark, wireVars
    <2>2. Placed' /\ \A j \in Conns : server'[j] = IF j = k THEN "leaving" ELSE server[j]
      BY <1>0, <2>1, Moves DEF ServerPlaces
    <2>3. CTyped'
      BY <1>0, <2>1, <2>2 DEF CTyped
    <2>4. QED
      BY <1>0, <2>1, <2>2, <2>3, DaemonStep DEF TuiPlaces
  <1>12. QED
    BY <1>1, <1>2, <1>3, <1>4, <1>5, <1>6, <1>7, <1>8, <1>9, <1>10, <1>11 DEF Goroutine

LEMMA ExitA == AInv /\ Exit => AInv'
  <1> SUFFICES ASSUME AInv, Exit PROVE AInv'
    OBVIOUS
  <1>1. /\ registered' = NoConn /\ server' = [k \in Conns |-> "none"] /\ old' = [k \in Conns |-> NoConn]
        /\ ends' = [k \in Conns |-> IF ends[k] \in {"open", "cut"} THEN "cut" ELSE "gone"]
        /\ UNCHANGED <<half, request, answers>> /\ UNCHANGED clientVars
        /\ UNCHANGED <<at, via, checked, call, watch, how>>
    BY DEF Exit, clientVars
  <1>2. \A k \in Conns : ends'[k] \in {"hung", "gone"} <=> ends[k] \in {"hung", "gone"}
    BY <1>1 DEF AInv, CTyped
  <1>3. ends' \in [Conns -> {"open", "cut", "hung", "gone"}]
    BY <1>1
  <1>4. CTyped'
    BY <1>1, <1>3 DEF AInv, CTyped, Placed, ServerPlaces
  <1>5. QED
    BY <1>1, <1>2, <1>4, DaemonStep DEF TuiPlaces

-----------------------------------------------------------------------------
\* A step of a process, on the connection it has.
LEMMA ClientStep ==
    ASSUME AInv, CTyped', NEW c \in Clients, UNCHANGED daemonVars, via' = via,
           \A d \in Clients : d # c => /\ at'[d] = at[d] /\ call'[d] = call[d]
                                       /\ checked'[d] = checked[d] /\ how'[d] = how[d],
           \A j \in Conns : j # Conn(c) => /\ request'[j] = request[j] /\ ends'[j] = ends[j]
                                           /\ answers'[j] = answers[j],
           ends'[Conn(c)] \in {"hung", "gone"} => answers'[Conn(c)] = << >>,
           at'[c] \in {"idle", "ended"} => ends'[Conn(c)] \in {"hung", "gone"},
           request'[Conn(c)] = "TUIAttach" =>
               request[Conn(c)] = "TUIAttach" \/ (at'[c] = "asked" /\ call'[c] = "AttachTUI"),
           Tui(Conn(c)) => at'[c] \in {"driving", "ended"} \/ (at'[c] = "asked" /\ call'[c] = "AttachTUI"),
           Talks(c)'
    PROVE  AInv'
  <1>1. /\ \A d \in Clients : Conn(d)' = Conn(d) /\ OtherConn(d)' = OtherConn(d)
        /\ \A d \in Clients : Conn(d) \in Conns /\ OtherConn(d) \in Conns
                              /\ OtherConn(d) # Conn(c) /\ (d # c => Conn(d) # Conn(c))
    <2>1. \A d \in Clients : Conn(d)' = Conn(d) /\ OtherConn(d)' = OtherConn(d)
      BY DEF Conn, OtherConn
    <2>2. \A d \in Clients : OtherConn(d) = Conn(c) => d = c
      BY ConnsAre DEF AInv
    <2>3. \A d \in Clients : Conn(d) = Conn(c) => d = c
      BY ConnsAre DEF AInv
    <2>4. QED
      BY <2>1, <2>2, <2>3, ConnsAre DEF AInv
  <1>2. UNCHANGED <<registered, server, old>>
    BY DEF daemonVars
  <1>3. ClosedEmpty'
    BY DEF AInv, ClosedEmpty, Away
  <1>4. OneOpen'
    BY <1>1 DEF AInv, OneOpen, Away
  <1>5. TuiOnly'
    <2> SUFFICES ASSUME NEW k \in Conns,
                        \/ request'[k] = "TUIAttach" \/ registered = k
                        \/ (\E j \in Conns : old[j] = k) \/ server[k] \in TuiPlaces
                 PROVE  Tui(k)'
      BY <1>2 DEF TuiOnly
    <2>1. CASE k = Conn(c)
      <3>1. k[1] = c /\ k = Conn(c)'
        BY <1>1, <2>1, ConnsAre DEF AInv
      <3>2. at'[c] \in {"driving", "ended"} \/ (at'[c] = "asked" /\ call'[c] = "AttachTUI")
        BY <2>1 DEF AInv, TuiOnly
      <3>3. QED
        BY <3>1, <3>2 DEF Tui
    <2>2. CASE k # Conn(c)
      <3>1. Tui(k)
        BY <2>2 DEF AInv, TuiOnly
      <3>2. k = Conn(k[1]) /\ k[1] \in Clients
        BY <3>1, ConnsAre DEF Tui, AInv
      <3>3. k[1] # c
        BY <2>2, <3>2
      <3>4. k = Conn(k[1])'
        BY <1>1, <3>2
      <3>5. QED
        BY <3>1, <3>2, <3>3, <3>4 DEF Tui
    <2>3. QED
      BY <2>1, <2>2
  <1>6. ASSUME NEW d \in Clients, d # c PROVE Talks(d)'
    <2>1. Talks(d) /\ Conn(d)' = Conn(d) /\ Conn(d) # Conn(c) /\ Conn(d) \in Conns
      BY <1>1, <1>6 DEF AInv
    <2>2. Asking(d)' = Asking(d) /\ Dialing(d)' = Dialing(d)
      BY <1>6 DEF Asking, Dialing
    <2>3. /\ request'[Conn(d)] = request[Conn(d)] /\ answers'[Conn(d)] = answers[Conn(d)]
          /\ server' = server /\ call'[d] = call[d]
      BY <1>2, <1>6, <2>1
    <2>4. Suits(d) => Suits(d)'
      BY <2>1, <2>3 DEF Suits
    <2>5. Fresh(d) => Fresh(d)'
      BY <2>1, <2>3 DEF Fresh
    <2>6. QED
      BY <1>6, <2>1, <2>2, <2>4, <2>5 DEF Talks
  <1>7. \A d \in Clients : Talks(d)'
    BY <1>6
  <1>8. QED
    BY <1>3, <1>4, <1>5, <1>7 DEF AInv

LEMMA HangsUp ==
    ASSUME CTyped, NEW c \in Clients, HangUp(c)
    PROVE  /\ ends' \in [Conns -> {"open", "cut", "hung", "gone"}]
           /\ answers' \in [Conns -> Seq(Messages)]
           /\ ends'[Conn(c)] \in {"hung", "gone"} /\ answers'[Conn(c)] = << >>
           /\ \A j \in Conns : j # Conn(c) => ends'[j] = ends[j] /\ answers'[j] = answers[j]
  <1>1. /\ ends' = [ends EXCEPT ![Conn(c)] = IF @ = "open" THEN "hung" ELSE "gone"]
        /\ answers' = [answers EXCEPT ![Conn(c)] = << >>]
    BY DEF HangUp
  <1>2. Conn(c) \in Conns /\ << >> \in Seq(Messages)
    BY ConnsAre
  <1>3. ends' \in [Conns -> {"open", "cut", "hung", "gone"}]
    BY <1>1 DEF CTyped
  <1>4. QED
    BY <1>1, <1>2, <1>3 DEF CTyped

LEMMA EndA ==
    ASSUME AInv, NEW c \in Clients, NEW ending \in Endings, End(c, ending),
           ending = "unexpected" => call[c] = "SubmitJob",
           UNCHANGED <<daemonVars, half>>,
           request' = request \/ \E q : q # "TUIAttach" /\ request' = [request EXCEPT ![Conn(c)] = q]
    PROVE  AInv'
  <1>1. /\ at' = [at EXCEPT ![c] = "ended"]
        /\ how' = [how EXCEPT ![c] = ending]
        /\ call' = [call EXCEPT ![c] = IF ending = "unexpected" THEN @ ELSE "none"]
        /\ watch' = [watch EXCEPT ![c] = "no"]
        /\ HangUp(c)
        /\ UNCHANGED <<via, checked>>
    BY DEF End
  <1>2. CTyped /\ UNCHANGED <<registered, server, old, half>>
    BY DEF AInv, daemonVars
  <1>3. (\E R : request' \in [Conns -> R])
        /\ \A j \in Conns : j # Conn(c) => request'[j] = request[j]
        /\ (request'[Conn(c)] = "TUIAttach" => request[Conn(c)] = "TUIAttach")
    <2>1. PICK R : request \in [Conns -> R]
      BY <1>2 DEF CTyped
    <2>2. CASE request' = request
      BY <2>1, <2>2
    <2>3. ASSUME NEW q, q # "TUIAttach", request' = [request EXCEPT ![Conn(c)] = q]
          PROVE  /\ \E R0 : request' \in [Conns -> R0]
                 /\ \A j \in Conns : j # Conn(c) => request'[j] = request[j]
                 /\ (request'[Conn(c)] = "TUIAttach" => request[Conn(c)] = "TUIAttach")
      <3>1. request' \in [Conns -> R \cup {q}]
        BY <2>1, <2>3
      <3>2. QED
        BY <1>2, <2>1, <2>3, <3>1, ConnsAre
    <2>4. QED
      BY <2>2, <2>3
  <1>4. /\ at' \in [Clients -> ClientPlaces] /\ at'[c] = "ended"
        /\ how' \in [Clients -> Endings] /\ how'[c] = ending
        /\ call' \in [Clients -> CallNames \cup {"none"}] /\ call'[c] \in {call[c], "none"}
        /\ ending = "unexpected" => call'[c] = call[c]
        /\ watch' \in [Clients -> {"no", "acknowledged", "mistaken"}]
        /\ \A d \in Clients : d # c => at'[d] = at[d] /\ call'[d] = call[d] /\ how'[d] = how[d]
    BY <1>1, <1>2 DEF CTyped, ClientPlaces
  <1>5. /\ ends' \in [Conns -> {"open", "cut", "hung", "gone"}]
        /\ answers' \in [Conns -> Seq(Messages)]
        /\ ends'[Conn(c)] \in {"hung", "gone"} /\ answers'[Conn(c)] = << >>
        /\ \A j \in Conns : j # Conn(c) => ends'[j] = ends[j] /\ answers'[j] = answers[j]
    BY <1>1, <1>2, HangsUp
  <1>6. CTyped'
    BY <1>1, <1>2, <1>3, <1>4, <1>5 DEF CTyped, Placed
  <1>7. Talks(c)'
    BY <1>1, <1>4 DEF AInv, Talks, Asking, Dialing
  <1>8. /\ via' = via /\ UNCHANGED daemonVars
        /\ \A d \in Clients : d # c => /\ at'[d] = at[d] /\ call'[d] = call[d]
                                       /\ checked'[d] = checked[d] /\ how'[d] = how[d]
    BY <1>1, <1>4
  <1>9. /\ \A j \in Conns : j # Conn(c) => /\ request'[j] = request[j] /\ ends'[j] = ends[j]
                                           /\ answers'[j] = answers[j]
        /\ request'[Conn(c)] = "TUIAttach" => request[Conn(c)] = "TUIAttach"
    BY <1>3, <1>5
  <1>10. QED
    BY <1>4, <1>5, <1>6, <1>7, <1>8, <1>9, ClientStep

LEMMA FailA ==
    ASSUME AInv, NEW c \in Clients, NEW name, NEW reading, Fail(c, name, reading),
           at[c] \in {"dialed", "asked"},
           reading = "unexpected" => name = "AttachTUI" \/ call[c] = "SubmitJob",
           UNCHANGED <<daemonVars, half, request>>
    PROVE  AInv'
  <1>1. CASE name = "AttachTUI"
    <2>1. /\ at' = [at EXCEPT ![c] = "driving"]
          /\ call' = [call EXCEPT ![c] = "none"]
          /\ HangUp(c)
          /\ UNCHANGED <<via, checked, watch, how>>
      BY <1>1 DEF Fail
    <2>2. CTyped /\ UNCHANGED <<registered, server, old, half, request>>
      BY DEF AInv, daemonVars
    <2>3. /\ at' \in [Clients -> ClientPlaces] /\ at'[c] = "driving"
          /\ call' \in [Clients -> CallNames \cup {"none"}] /\ call'[c] = "none"
          /\ \A d \in Clients : d # c => at'[d] = at[d] /\ call'[d] = call[d]
      BY <2>1, <2>2 DEF CTyped, ClientPlaces
    <2>4. /\ ends' \in [Conns -> {"open", "cut", "hung", "gone"}]
          /\ answers' \in [Conns -> Seq(Messages)]
          /\ ends'[Conn(c)] \in {"hung", "gone"} /\ answers'[Conn(c)] = << >>
          /\ \A j \in Conns : j # Conn(c) => ends'[j] = ends[j] /\ answers'[j] = answers[j]
      BY <2>1, <2>2, HangsUp
    <2>5. CTyped'
      <3>1. \E R : request' \in [Conns -> R]
        BY <2>2 DEF CTyped
      <3>2. /\ Placed' /\ registered' \in Conns \cup {NoConn} /\ old' \in [Conns -> Conns \cup {NoConn}]
            /\ half' \in [Conns -> {"no", "one", "torn"}]
            /\ via' \in [Clients -> {0, 1}] /\ checked' \in [Clients -> BOOLEAN]
            /\ watch' \in [Clients -> {"no", "acknowledged", "mistaken"}] /\ how' \in [Clients -> Endings]
        BY <2>1, <2>2 DEF CTyped, Placed
      <3>3. QED
        BY <2>3, <2>4, <3>1, <3>2 DEF CTyped
    <2>6. Talks(c)'
      BY <2>1, <2>3 DEF AInv, Talks, Asking, Dialing
    <2>7. /\ via' = via /\ UNCHANGED daemonVars
          /\ \A d \in Clients : d # c => /\ at'[d] = at[d] /\ call'[d] = call[d]
                                         /\ checked'[d] = checked[d] /\ how'[d] = how[d]
      BY <2>1, <2>3
    <2>8. /\ \A j \in Conns : j # Conn(c) => /\ request'[j] = request[j] /\ ends'[j] = ends[j]
                                             /\ answers'[j] = answers[j]
          /\ request'[Conn(c)] = "TUIAttach" => request[Conn(c)] = "TUIAttach"
      BY <2>2, <2>4
    <2>9. at'[c] = "driving"
      BY <2>3
    <2>10. QED
      BY <2>4, <2>5, <2>6, <2>7, <2>8, <2>9, ClientStep
  <1>2. CASE name # "AttachTUI"
    <2>1. PICK ending \in {"unrecognised", "unexpected", "failed"} :
              End(c, ending) /\ (ending = "unexpected" => reading = "unexpected")
      BY <1>2 DEF Fail
    <2>2. QED
      BY <1>2, <2>1, EndA DEF Endings
  <1>3. QED
    BY <1>1, <1>2

LEMMA Takes1 ==
    ASSUME CTyped, NEW c \in Clients, Take(c), answers[Conn(c)] # << >>
    PROVE  /\ answers' \in [Conns -> Seq(Messages)]
           /\ \A j \in Conns : j # Conn(c) => answers'[j] = answers[j]
           /\ Said(answers'[Conn(c)]) \subseteq Said(answers[Conn(c)])
           /\ Said(answers[Conn(c)]) \subseteq Said(answers'[Conn(c)]) \cup {Head(answers[Conn(c)])}
           /\ Head(answers[Conn(c)]) \in Said(answers[Conn(c)])
  <1>1. Conn(c) \in Conns /\ answers[Conn(c)] \in Seq(Messages)
    BY ConnsAre DEF CTyped
  <1>2. Tail(answers[Conn(c)]) \in Seq(Messages)
    BY <1>1, SaidTail
  <1>3. answers' = [answers EXCEPT ![Conn(c)] = Tail(answers[Conn(c)])]
    BY DEF Take
  <1>4. answers' \in [Conns -> Seq(Messages)] /\ answers'[Conn(c)] = Tail(answers[Conn(c)])
        /\ \A j \in Conns : j # Conn(c) => answers'[j] = answers[j]
    BY <1>1, <1>2, <1>3 DEF CTyped
  <1>5. QED
    BY <1>1, <1>4, SaidTail

-----------------------------------------------------------------------------
LEMMA HearA == \A c \in Clients : AInv /\ Hear(c) => AInv'
  <1> SUFFICES ASSUME NEW c \in Clients, AInv, Hear(c) PROVE AInv'
    OBVIOUS
  <1>1. PICK msg : msg = Head(answers[Conn(c)])
    OBVIOUS
  <1>2. PICK reading : reading = IF msg = Garbled THEN "unexpected" ELSE Reading(call[c], msg)
    OBVIOUS
  <1>3. /\ at[c] = "asked" /\ answers[Conn(c)] # << >> /\ UNCHANGED <<daemonVars, half, request>>
        /\ \/ reading = "more" /\ Take(c) /\ UNCHANGED <<ends, clientVars>>
           \/ reading \in {"success", "refused"} /\ IsBatch(call[c]) /\ (AskAgain(c) \/ End(c, "done"))
           \/ reading = "success" /\ call[c] = "AttachTUI" /\ Drive(c, msg)
           \/ reading = "success" /\ call[c] # "AttachTUI" /\ ~IsBatch(call[c]) /\ Proceed(c)
           \/ reading = "refused" /\ ~IsBatch(call[c]) /\ Fail(c, call[c], reading)
           \/ reading = "unexpected" /\ Fail(c, call[c], reading)
    BY <1>1, <1>2 DEF Hear
  <1>4. /\ CTyped /\ UNCHANGED <<registered, server, old, half, request>>
        /\ Conn(c) \in Conns /\ ~Away(Conn(c))
    BY <1>3, ConnsAre DEF AInv, daemonVars, ClosedEmpty
  <1>5. Suits(c) /\ call[c] \in CallNames /\ how[c] # "unexpected"
    BY <1>3 DEF AInv, Talks, Asking
  <1>6. reading = "unexpected" => call[c] \in {"AttachTUI", "SubmitJob"}
    <2>1. answers[Conn(c)] \in Seq(Messages)
      BY <1>4 DEF CTyped
    <2>2. msg \in Said(answers[Conn(c)])
      BY <1>1, <1>3, <2>1, SaidTail
    <2>3. QED
      BY <1>2, <1>5, <2>2 DEF Suits, Legible
  <1>7. CASE Take(c) /\ UNCHANGED <<ends, clientVars>>
    <2>1. UNCHANGED <<at, via, checked, call, watch, how, ends>>
      BY <1>7 DEF clientVars
    <2>2. CTyped'
      BY <1>3, <1>4, <1>7, <2>1, Takes1 DEF CTyped, Placed
    <2>3. Suits(c)'
      BY <1>3, <1>4, <1>5, <1>7, <2>1, Takes1 DEF Suits, Conn
    <2>4. Talks(c)'
      BY <1>3, <1>5, <2>1, <2>3 DEF AInv, Talks, Asking, Dialing
    <2>5. \A j \in Conns : j # Conn(c) => /\ request'[j] = request[j] /\ ends'[j] = ends[j]
                                         /\ answers'[j] = answers[j]
      BY <1>3, <1>4, <1>7, <2>1, Takes1
    <2>6. Tui(Conn(c)) => at'[c] \in {"driving", "ended"} \/ (at'[c] = "asked" /\ call'[c] = "AttachTUI")
      BY <1>3, <1>4, <2>1, ConnsAre DEF Tui
    <2>7. at'[c] = "asked" /\ ends'[Conn(c)] \notin {"hung", "gone"} /\ request' = request
      BY <1>3, <1>4, <2>1 DEF Away
    <2>8. QED
      BY <1>3, <2>1, <2>2, <2>4, <2>5, <2>6, <2>7, ClientStep
  <1>8. CASE AskAgain(c) /\ IsBatch(call[c])
    <2>1. /\ at' = [at EXCEPT ![c] = "dialed"] /\ Take(c)
          /\ UNCHANGED <<ends, via, checked, call, watch, how>>
      BY <1>8 DEF AskAgain
    <2>2. /\ at' \in [Clients -> ClientPlaces] /\ at'[c] = "dialed"
          /\ \A d \in Clients : d # c => at'[d] = at[d]
      BY <1>4, <2>1 DEF CTyped, ClientPlaces
    <2>3. CTyped'
      BY <1>3, <1>4, <2>1, <2>2, Takes1 DEF CTyped, Placed
    <2>4. Suits(c)'
      BY <1>3, <1>4, <1>5, <2>1, Takes1 DEF Suits, Conn
    <2>5. Talks(c)'
      BY <1>5, <1>8, <2>1, <2>2, <2>4 DEF AInv, Talks, Asking, Dialing
    <2>6. call[c] # "AttachTUI"
      BY <1>8 DEF IsBatch, BatchCalls
    <2>7. ~Tui(Conn(c))
      BY <1>3, <1>4, <2>6, ConnsAre DEF Tui
    <2>8. QED
      BY <1>3, <1>4, <2>1, <2>2, <2>3, <2>5, <2>7, Takes1, ClientStep DEF Away
  <1>9. CASE Drive(c, msg)
    <2>1. /\ at' = [at EXCEPT ![c] = "driving"] /\ call' = [call EXCEPT ![c] = "none"]
          /\ watch' = [watch EXCEPT ![c] = IF msg = OK THEN "acknowledged" ELSE "mistaken"]
          /\ Take(c) /\ UNCHANGED <<ends, via, checked, how>>
      BY <1>9 DEF Drive
    <2>2. /\ at' \in [Clients -> ClientPlaces] /\ at'[c] = "driving"
          /\ call' \in [Clients -> CallNames \cup {"none"}] /\ call'[c] = "none"
          /\ watch' \in [Clients -> {"no", "acknowledged", "mistaken"}]
          /\ \A d \in Clients : d # c => at'[d] = at[d] /\ call'[d] = call[d]
      BY <1>4, <2>1 DEF CTyped, ClientPlaces
    <2>3. /\ answers' \in [Conns -> Seq(Messages)]
          /\ \A j \in Conns : j # Conn(c) => /\ request'[j] = request[j] /\ ends'[j] = ends[j]
                                           /\ answers'[j] = answers[j]
      BY <1>3, <1>4, <2>1, Takes1
    <2>4. CTyped'
      BY <1>4, <2>1, <2>2, <2>3 DEF CTyped, Placed
    <2>5. Talks(c)'
      BY <1>5, <2>1, <2>2 DEF Talks, Asking, Dialing
    <2>6. ends'[Conn(c)] \notin {"hung", "gone"}
      BY <1>4, <2>1 DEF Away
    <2>7. QED
      BY <1>3, <1>4, <2>1, <2>2, <2>3, <2>4, <2>5, <2>6, ClientStep
  <1>10. CASE Proceed(c) /\ call[c] # "AttachTUI"
    <2>1. checked' = [checked EXCEPT ![c] = TRUE] /\ HangUp(c) /\ UNCHANGED <<via, watch>>
      BY <1>10 DEF Proceed
    <2>2. PICK p \in {"idle", "ended"} : at' = [at EXCEPT ![c] = p]
      BY <1>10 DEF Proceed
    <2>3. PICK n \in {call[c], "none"} : call' = [call EXCEPT ![c] = n]
      BY <1>10 DEF Proceed
    <2>4. PICK h \in {how[c], "done"} : how' = [how EXCEPT ![c] = h]
      <3>1. how' = how => how' = [how EXCEPT ![c] = how[c]]
        BY <1>4 DEF CTyped
      <3>2. QED
        BY <1>10, <3>1 DEF Proceed
    <2>5. /\ at' \in [Clients -> ClientPlaces] /\ at'[c] \in {"idle", "ended"}
          /\ \A d \in Clients : d # c => at'[d] = at[d]
      BY <1>4, <2>2 DEF CTyped, ClientPlaces
    <2>6. /\ call' \in [Clients -> CallNames \cup {"none"}]
          /\ \A d \in Clients : d # c => call'[d] = call[d]
      BY <1>4, <1>5, <2>3 DEF CTyped
    <2>7. /\ how' \in [Clients -> Endings] /\ how'[c] # "unexpected"
          /\ \A d \in Clients : d # c => how'[d] = how[d]
      BY <1>4, <1>5, <2>4 DEF CTyped, Endings
    <2>8. checked' \in [Clients -> BOOLEAN] /\ checked'[c] = TRUE
          /\ \A d \in Clients : d # c => checked'[d] = checked[d]
      BY <1>4, <2>1 DEF CTyped
    <2>9. /\ ends' \in [Conns -> {"open", "cut", "hung", "gone"}]
          /\ answers' \in [Conns -> Seq(Messages)]
          /\ ends'[Conn(c)] \in {"hung", "gone"} /\ answers'[Conn(c)] = << >>
          /\ \A j \in Conns : j # Conn(c) => ends'[j] = ends[j] /\ answers'[j] = answers[j]
      BY <1>4, <2>1, HangsUp
    <2>10. CTyped'
      BY <1>4, <2>1, <2>5, <2>6, <2>7, <2>8, <2>9 DEF CTyped, Placed
    <2>11. Talks(c)'
      BY <2>5, <2>7, <2>8 DEF Talks, Asking, Dialing
    <2>12. ~Tui(Conn(c))
      BY <1>3, <1>4, <1>10, ConnsAre DEF Tui
    <2>13. \A d \in Clients : d # c => /\ at'[d] = at[d] /\ call'[d] = call[d]
                                      /\ checked'[d] = checked[d] /\ how'[d] = how[d]
      BY <2>5, <2>6, <2>7, <2>8
    <2>14. QED
      BY <1>3, <1>4, <2>1, <2>9, <2>10, <2>11, <2>12, <2>13, ClientStep
  <1>11. CASE End(c, "done")
    BY <1>3, <1>11, EndA DEF Endings
  <1>12. CASE Fail(c, call[c], reading)
    BY <1>3, <1>6, <1>12, FailA
  <1>13. QED
    BY <1>3, <1>7, <1>8, <1>9, <1>10, <1>11, <1>12

LEMMA NextCallsAre ==
    ASSUME AInv, NEW c \in Clients, at[c] = "dialed", NEW name \in NextCalls(c)
    PROVE  /\ name \in CallNames
           /\ IsBatch(call[c]) => name = call[c]
           /\ checked[c] \/ name \in {"GetVersion", "KillServer"}
  <1>1. "GetVersion" \in CallNames
    <2>1. "GetVersion" \in DOMAIN QueueCalls
      BY DEF QueueCalls
    <2>2. QED
      BY <2>1 DEF CallNames, Calls, Merged, CallTables
  <1>2. Repertoire[c] \subseteq CallNames
    BY ConversationsAssumption
  <1>3. CASE checked[c]
    <2>1. name \in Follows(c, call[c])
      BY <1>3 DEF NextCalls
    <2>2. IsBatch(call[c]) => name = call[c]
      BY <2>1 DEF Follows, IsBatch, BatchCalls
    <2>3. QED
      BY <1>2, <1>3, <2>1, <2>2 DEF Follows
  <1>4. CASE ~checked[c]
    <2>1. call[c] \in {"none", "GetVersion"}
      BY <1>4 DEF AInv, Talks
    <2>2. ~IsBatch(call[c])
      BY <2>1 DEF IsBatch, BatchCalls
    <2>3. QED
      BY <1>1, <1>2, <1>4, <2>2 DEF NextCalls
  <1>5. QED
    BY <1>3, <1>4 DEF AInv, CTyped

LEMMA SayA == \A c \in Clients : \A name \in NextCalls(c) : AInv /\ Say(c, name) => AInv'
  <1> SUFFICES ASSUME NEW c \in Clients, NEW name \in NextCalls(c), AInv, Say(c, name) PROVE AInv'
    OBVIOUS
  <1>1. /\ at[c] = "dialed" /\ request' = [request EXCEPT ![Conn(c)] = Calls[name].sends]
        /\ UNCHANGED <<daemonVars, half>>
    BY DEF Say
  <1>2. CTyped /\ UNCHANGED <<registered, server, old, half>> /\ Conn(c) \in Conns
    BY <1>1, ConnsAre DEF AInv, daemonVars
  <1>3. /\ name \in CallNames /\ Relied(name, Calls[name])
        /\ IsBatch(call[c]) => name = call[c]
        /\ checked[c] \/ name \in {"GetVersion", "KillServer"}
    BY <1>1, NextCallsAre, CallRows
  <1>4. CASE Calls[name].reads = "nothing"
    <2>1. End(c, "done")
      BY <1>4 DEF Say
    <2>2. Calls[name].sends # "TUIAttach"
      BY <1>3, <1>4 DEF Relied
    <2>3. QED
      BY <1>1, <2>1, <2>2, EndA DEF Endings
  <1>5. CASE Calls[name].reads # "nothing"
    <2>1. /\ at' = [at EXCEPT ![c] = "asked"] /\ call' = [call EXCEPT ![c] = name]
          /\ UNCHANGED <<ends, answers, via, checked, watch, how>>
      BY <1>5 DEF Say
    <2>2. /\ at' \in [Clients -> ClientPlaces] /\ at'[c] = "asked"
          /\ call' \in [Clients -> CallNames \cup {"none"}] /\ call'[c] = name
          /\ \A d \in Clients : d # c => at'[d] = at[d] /\ call'[d] = call[d]
      BY <1>2, <1>3, <2>1 DEF CTyped, ClientPlaces
    <2>3. PICK R : request \in [Conns -> R]
      BY <1>2 DEF CTyped
    <2>4. /\ request' \in [Conns -> R \cup {Calls[name].sends}]
          /\ request'[Conn(c)] = Calls[name].sends
          /\ \A j \in Conns : j # Conn(c) => request'[j] = request[j]
      BY <1>1, <1>2, <2>3
    <2>5. CTyped'
      BY <1>2, <2>1, <2>2, <2>4 DEF CTyped, Placed
    <2>6. \/ IsBatch(call[c]) /\ Suits(c) /\ call[c] = name
          \/ ~IsBatch(call[c]) /\ Fresh(c)
      BY <1>1, <1>3 DEF AInv, Talks, Asking, Dialing
    <2>7. Suits(c)'
      <3>1. Conn(c)' = Conn(c) /\ answers' = answers /\ server' = server
        BY <1>2, <2>1 DEF Conn
      <3>2. name # "AttachTUI" => \A m \in Said(answers[Conn(c)]) : Legible(name, m)
        BY <2>6, ErrorLegible DEF Suits, Fresh
      <3>3. server[Conn(c)] = "waiting" => name = "WaitJob"
        BY <2>6 DEF Suits, Fresh
      <3>4. QED
        BY <2>2, <2>4, <3>1, <3>2, <3>3 DEF Suits
    <2>8. ~checked[c] => name = "GetVersion"
      BY <1>3, <1>5 DEF Relied
    <2>9. Talks(c)'
      BY <1>1, <1>3, <2>1, <2>2, <2>7, <2>8 DEF AInv, Talks, Asking, Dialing
    <2>10. request'[Conn(c)] = "TUIAttach" => name = "AttachTUI"
      BY <1>3, <2>4 DEF Relied
    <2>11. ~Tui(Conn(c))
      BY <1>1, <1>2, ConnsAre DEF Tui
    <2>12. ends'[Conn(c)] \in {"hung", "gone"} => answers'[Conn(c)] = << >>
      BY <1>2, <2>1 DEF AInv, ClosedEmpty, Away
    <2>13. QED
      BY <1>1, <2>1, <2>2, <2>4, <2>5, <2>9, <2>10, <2>11, <2>12, ClientStep
  <1>6. QED
    BY <1>4, <1>5

LEMMA DialA == \A c \in Clients : AInv /\ Dial(c) => AInv'
  <1> SUFFICES ASSUME NEW c \in Clients, AInv, Dial(c) PROVE AInv'
    OBVIOUS
  <1>1. PICK k : k = OtherConn(c)
    OBVIOUS
  <1>2. /\ at[c] = "idle" /\ via' = [via EXCEPT ![c] = 1 - @] /\ Move(k, "backlog")
        /\ half' = [half EXCEPT ![k] = "no"] /\ request' = [request EXCEPT ![k] = "none"]
        /\ ends' = [ends EXCEPT ![k] = "open"] /\ at' = [at EXCEPT ![c] = "dialed"]
        /\ UNCHANGED <<daemon, active, registered, old, answers, checked, call, watch, how>>
    BY <1>1 DEF Dial, OtherConn
  <1>3. /\ CTyped /\ k \in Conns /\ Conn(c) \in Conns /\ k # Conn(c)
        /\ k[1] = c /\ Conn(c)[1] = c
    BY <1>1, ConnsAre DEF AInv
  <1>4. via[c] = 0 \/ via[c] = 1
    BY <1>3 DEF CTyped
  <1>5. /\ via' \in [Clients -> {0, 1}] /\ via'[c] = 1 - via[c]
        /\ \A d \in Clients : d # c => via'[d] = via[d]
    <2>1. 1 - via[c] \in {0, 1}
      BY <1>4
    <2>2. QED
      BY <1>2, <1>3, <2>1 DEF CTyped
  <1>6. /\ Conn(c)' = k /\ OtherConn(c)' = Conn(c)
        /\ \A d \in Clients : d # c => Conn(d)' = Conn(d) /\ OtherConn(d)' = OtherConn(d)
                                       /\ Conn(d) # k /\ OtherConn(d) # k
                                       /\ Conn(d) \in Conns /\ OtherConn(d) \in Conns
    <2>1. 1 - (1 - via[c]) = via[c]
      BY <1>4
    <2>2. Conn(c)' = k /\ OtherConn(c)' = Conn(c)
      BY <1>1, <1>5, <2>1 DEF Conn, OtherConn
    <2>3. \A d \in Clients : d # c => Conn(d) # k /\ OtherConn(d) # k
                                      /\ Conn(d) \in Conns /\ OtherConn(d) \in Conns
      BY <1>3, ConnsAre
    <2>4. QED
      BY <1>5, <2>2, <2>3 DEF Conn, OtherConn
  <1>7. Placed' /\ \A j \in Conns : server'[j] = IF j = k THEN "backlog" ELSE server[j]
    BY <1>2, <1>3, Moves DEF ServerPlaces
  <1>8. PICK R : request \in [Conns -> R]
    BY <1>3 DEF CTyped
  <1>9. /\ request' \in [Conns -> R \cup {"none"}]
        /\ \A j \in Conns : request'[j] = IF j = k THEN "none" ELSE request[j]
        /\ ends' \in [Conns -> {"open", "cut", "hung", "gone"}]
        /\ \A j \in Conns : ends'[j] = IF j = k THEN "open" ELSE ends[j]
        /\ half' \in [Conns -> {"no", "one", "torn"}]
        /\ at' \in [Clients -> ClientPlaces] /\ at'[c] = "dialed"
        /\ \A d \in Clients : d # c => at'[d] = at[d]
    BY <1>2, <1>3, <1>8 DEF CTyped, ClientPlaces
  <1>10. CTyped'
    BY <1>2, <1>3, <1>5, <1>7, <1>9 DEF CTyped
  <1>11. answers[k] = << >> /\ Away(Conn(c))
    BY <1>1, <1>2, <1>3 DEF AInv, OneOpen, ClosedEmpty
  <1>12. ClosedEmpty'
    BY <1>2, <1>9 DEF AInv, ClosedEmpty, Away
  <1>13. OneOpen'
    <2>1. ASSUME NEW d \in Clients PROVE (Away(OtherConn(d)))' /\ (at'[d] \in {"idle", "ended"} => (Away(Conn(d)))')
      <3>1. CASE d = c
        BY <1>3, <1>6, <1>9, <1>11, <3>1 DEF Away
      <3>2. CASE d # c
        BY <1>6, <1>9, <3>2 DEF AInv, OneOpen, Away
      <3>3. QED
        BY <3>1, <3>2
    <2>2. QED
      BY <2>1 DEF OneOpen
  <1>14. TuiOnly'
    <2> SUFFICES ASSUME NEW j \in Conns,
                        \/ request'[j] = "TUIAttach" \/ registered = j
                        \/ (\E i \in Conns : old[i] = j) \/ server'[j] \in TuiPlaces
                 PROVE  Tui(j)'
      BY <1>2 DEF TuiOnly
    <2>1. Tui(j)
      BY <1>7, <1>9 DEF AInv, TuiOnly, TuiPlaces
    <2>2. j[1] # c
      BY <1>2, <1>3, <2>1 DEF Tui
    <2>3. j[1] \in Clients /\ j = Conn(j[1])
      BY <1>3, <2>1, ConnsAre DEF Tui
    <2>4. QED
      BY <1>2, <1>6, <1>9, <2>1, <2>2, <2>3 DEF Tui
  <1>15. ASSUME NEW d \in Clients PROVE Talks(d)'
    <2>1. CASE d = c
      <3>1. /\ call' = call /\ answers'[k] = << >> /\ request'[k] = "none" /\ server'[k] = "backlog"
            /\ how[c] # "unexpected"
        BY <1>2, <1>3, <1>7, <1>9, <1>11 DEF AInv, Talks
      <3>2. Fresh(c)' /\ Suits(c)'
        BY <1>6, <3>1, SaidNothing DEF Fresh, Suits
      <3>3. IsBatch(call[c]) => call[c] \in CallNames
        BY <1>3 DEF CTyped, IsBatch, BatchCalls
      <3>4. QED
        BY <1>2, <1>9, <2>1, <3>1, <3>2, <3>3 DEF AInv, Talks, Asking, Dialing
    <2>2. CASE d # c
      <3>1. /\ Conn(d)' = Conn(d) /\ request'[Conn(d)] = request[Conn(d)]
            /\ server'[Conn(d)] = server[Conn(d)] /\ at'[d] = at[d]
        BY <1>6, <1>7, <1>9, <2>2
      <3>2. Suits(d)' = Suits(d) /\ Fresh(d)' = Fresh(d)
        BY <1>2, <3>1 DEF Suits, Fresh
      <3>3. QED
        BY <1>2, <3>1, <3>2 DEF AInv, Talks, Asking, Dialing
    <2>3. QED
      BY <2>1, <2>2
  <1>16. QED
    BY <1>10, <1>12, <1>13, <1>14, <1>15 DEF AInv

LEMMA ClientA == \A c \in Clients : AInv /\ (Listens(c) \/ User(c)) => AInv'
  <1> SUFFICES ASSUME NEW c \in Clients, AInv, Listens(c) \/ User(c) PROVE AInv'
    OBVIOUS
  <1>0. CTyped /\ Conn(c) \in Conns
    BY ConnsAre DEF AInv
  <1>1. CASE Hear(c)
    BY <1>1, HearA
  <1>2. CASE HearNothing(c)
    BY <1>2, FailA DEF HearNothing
  <1>3. CASE Watch(c)
    <2>1. at[c] = "driving" /\ UNCHANGED <<daemonVars, half, request>>
      BY <1>3 DEF Watch
    <2>2. UNCHANGED <<registered, server, old>>
      BY <2>1 DEF daemonVars
    <2>3. CASE End(c, "done")
      BY <2>1, <2>3, EndA DEF Endings
    <2>4. CASE answers[Conn(c)] # << >> /\ Take(c) /\ UNCHANGED <<ends, clientVars>>
      <3>1. UNCHANGED <<at, via, checked, call, watch, how, ends>>
        BY <2>4 DEF clientVars
      <3>2. CTyped'
        BY <1>0, <2>1, <2>2, <2>4, <3>1, Takes1 DEF CTyped, Placed
      <3>3. Talks(c)'
        BY <2>1, <3>1 DEF AInv, Talks, Asking, Dialing
      <3>4. ~Away(Conn(c))
        BY <1>0, <2>4 DEF AInv, ClosedEmpty
      <3>5. QED
        BY <1>0, <2>1, <2>4, <3>1, <3>2, <3>3, <3>4, Takes1, ClientStep DEF Away
    <2>5. CASE StopWatching(c)
      <3>1. /\ UNCHANGED <<ends, answers, at, via, checked, call, how>>
            /\ watch' = [watch EXCEPT ![c] = "no"]
        BY <2>5 DEF StopWatching
      <3>2. CTyped'
        BY <1>0, <2>1, <2>2, <3>1 DEF CTyped, Placed
      <3>3. Talks(c)'
        BY <2>1, <3>1 DEF AInv, Talks, Asking, Dialing
      <3>4. Away(Conn(c)) => answers[Conn(c)] = << >>
        BY <1>0 DEF AInv, ClosedEmpty
      <3>5. QED
        BY <1>0, <2>1, <3>1, <3>2, <3>3, <3>4, ClientStep DEF Away
    <2>6. QED
      BY <1>3, <2>3, <2>4, <2>5 DEF Watch
  <1>4. CASE NoDaemon(c)
    <2>1. /\ at[c] = "idle" /\ at' = [at EXCEPT ![c] = "ended"] /\ how' = [how EXCEPT ![c] = "failed"]
          /\ UNCHANGED <<half, request, answers, ends, via, checked, call, watch>> /\ UNCHANGED daemonVars
          /\ UNCHANGED <<registered, server, old>>
      BY <1>4 DEF NoDaemon, wireVars, daemonVars
    <2>2. /\ at' \in [Clients -> ClientPlaces] /\ at'[c] = "ended"
          /\ how' \in [Clients -> Endings] /\ how'[c] = "failed"
          /\ \A d \in Clients : d # c => at'[d] = at[d] /\ how'[d] = how[d]
      BY <1>0, <2>1 DEF CTyped, ClientPlaces, Endings
    <2>3. CTyped'
      BY <1>0, <2>1, <2>2 DEF CTyped, Placed
    <2>4. Talks(c)'
      BY <2>1, <2>2 DEF AInv, Talks, Asking, Dialing
    <2>5. Away(Conn(c)) /\ answers[Conn(c)] = << >>
      BY <1>0, <2>1 DEF AInv, OneOpen, ClosedEmpty
    <2>6. QED
      BY <1>0, <2>1, <2>2, <2>3, <2>4, <2>5, ClientStep DEF Away
  <1>5. CASE Dial(c)
    BY <1>5, DialA
  <1>6. ASSUME NEW name \in NextCalls(c), Say(c, name) PROVE AInv'
    BY <1>6, SayA
  <1>7. ASSUME NEW name \in NextCalls(c), SayToNobody(c, name) PROVE AInv'
    BY <1>7, FailA DEF SayToNobody
  <1>8. CASE Quit(c) \/ Interrupt(c)
    BY <1>8, EndA DEF Quit, Interrupt, Endings
  <1>9. QED
    BY <1>1, <1>2, <1>3, <1>4, <1>5, <1>6, <1>7, <1>8 DEF Listens, User, Speaks

LEMMA AStutters == AInv /\ UNCHANGED vars => AInv'
  <1> SUFFICES ASSUME AInv, UNCHANGED vars PROVE AInv'
    OBVIOUS
  <1>1. /\ UNCHANGED <<registered, server, old, half, request, answers, ends, at, via, checked, call, watch, how>>
        /\ UNCHANGED clientVars
    BY DEF vars, daemonVars, wireVars, clientVars
  <1>2. CTyped'
    BY <1>1 DEF AInv, CTyped, Placed
  <1>3. QED
    BY <1>1, <1>2, DaemonStep

LEMMA AAlways == Spec => []AInv
  <1>1. AInv /\ [Next]_vars => AInv'
    BY AStutters, GoroutineA, ClientA, ExitA DEF Next
  <1>2. QED
    BY AInit, <1>1, PTL DEF Spec

(* Whoever is turned away, interrupted, answered late, or asks again on the
   same connection reads an answer to its own request, as what the handler
   means by it (message.go:22-415, query.go, handlers_job.go). *)
THEOREM AnswersMakeSense == Spec => []AnswersUnderstood
  <1>1. AInv => AnswersUnderstood
    BY DEF AInv, Talks, AnswersUnderstood
  <1>2. QED
    BY <1>1, AAlways, PTL

-----------------------------------------------------------------------------
(* A TUI that is displaced is told.                                         *)

\* The process at the other end has read an acknowledgement, or has one to read.
Acked(k) ==
    /\ k = Conn(k[1])
    /\ \/ at[k[1]] = "asked" /\ call[k[1]] = "AttachTUI" /\ OK \in Said(answers[k])
       \/ at[k[1]] = "driving" /\ watch[k[1]] = "acknowledged"

\* Somebody in the daemon still knows the connection: it is the registered
\* one, or the one that whoever displaced it has to notify.
Claimed(k) == registered = k \/ \E j \in Conns : old[j] = k
Noticed(k) == TakenOver \in Said(answers[k])

OldWhere == \A k \in Conns : old[k] # NoConn <=> server[k] \in {"notify", "notifying"}
Distinct ==
    \A i, j \in Conns : old[i] \in Conns => old[i] # registered /\ (old[i] = old[j] => i = j)
Spent == \A k \in Conns : Claimed(k) \/ server[k] \in TuiPlaces => request[k] = "none"
LeftClosed == \A k \in Conns : server[k] = "leaving" => Closed(k)
Reachable ==
    daemon # "down" => \A k \in Conns : server[k] \in TuiPlaces /\ ~Closed(k) => Claimed(k)
Watching == \A c \in Clients : watch[c] # "no" => at[c] = "driving"

\* Only the notice can be half written to a TUI that has its acknowledgement,
\* and its writer is the last to know the connection.
HalfNotice(k) ==
    half[k] = "one" => registered # k /\ \A j \in Conns : old[j] = k => server[j] = "notifying"
Told(k) ==
    daemon # "down" /\ Acked(k) =>
        /\ Claimed(k) \/ Noticed(k)
        /\ half[k] # "torn" /\ HalfNotice(k)
        /\ server[k] \in {"parked", "leaving", "none"}
        /\ Closed(k) => Noticed(k)

TInv ==
    /\ PInv /\ AInv /\ OldWhere /\ Distinct /\ Spent /\ LeftClosed /\ Reachable /\ Watching
    /\ \A k \in Conns : Told(k)

LEMMA TInit == Init => TInv
  <1> SUFFICES ASSUME Init PROVE TInv
    OBVIOUS
  <1>1. AInv /\ CTyped
    BY AInit DEF AInv
  <1>2. NoConn \notin Conns
    BY <1>1, ConnsAre
  <1>3. OldWhere /\ Distinct /\ LeftClosed
    BY <1>2 DEF Init, OldWhere, Distinct, LeftClosed
  <1>4. Spent /\ Reachable /\ Watching
    BY <1>2 DEF Init, Spent, Reachable, Watching, Claimed, TuiPlaces
  <1>5. \A k \in Conns : Told(k)
    BY <1>1, ConnsAre DEF Init, Told, Acked
  <1>6. QED
    BY <1>1, <1>3, <1>4, <1>5, CountInit DEF TInv

\* What a message does to what has been said on a connection.
LEMMA PutSays ==
    ASSUME CTyped, NEW k, NEW msgs \in Seq(Messages), Put(k, msgs)
    PROVE  /\ \A j \in Conns : j # k => answers'[j] = answers[j]
           /\ k \in Conns /\ Closed(k) => answers'[k] = answers[k]
           /\ k \in Conns /\ ~Closed(k) => Said(answers'[k]) = Said(answers[k]) \cup Said(msgs)
  <1>1. \A j \in Conns : answers'[j] = IF j # k \/ Closed(k) THEN answers[j] ELSE answers[j] \o msgs
    BY DEF CTyped, Put
  <1>2. \A j \in Conns : Said(answers[j] \o msgs) = Said(answers[j]) \cup Said(msgs)
    BY SaidConcat DEF CTyped
  <1>3. QED
    BY <1>1, <1>2

LEMMA SaysOne == \A m : Said(<<m>>) = {m}
  BY DEF Said

\* A goroutine that has nothing to do with registrations.
LEMMA PlainT ==
    ASSUME TInv, PInv', AInv', NEW k \in Conns, UNCHANGED clientVars, daemon # "down",
           UNCHANGED <<registered, old, half>>,
           server[k] \notin TuiPlaces \cup {"none"}, server'[k] \notin TuiPlaces \cup {"leaving"},
           \A j \in Conns : j # k => /\ server'[j] = server[j] /\ answers'[j] = answers[j]
                                     /\ ends'[j] = ends[j],
           \A j \in Conns : request'[j] \in {request[j], "none"},
           Closed(k) => ends'[k] # "open",
           server[k] = "leaving" => answers'[k] = answers[k] /\ server'[k] = "none",
           Acked(k)' => Acked(k)
    PROVE  TInv'
  <1>1. UNCHANGED <<at, via, call, watch>>
    BY DEF clientVars
  <1>2. \A j \in Conns : Claimed(j)' = Claimed(j)
    BY DEF Claimed
  <1>3. OldWhere'
    <2>1. ASSUME NEW j \in Conns PROVE old[j] # NoConn <=> server'[j] \in {"notify", "notifying"}
      BY DEF TInv, OldWhere, TuiPlaces
    <2>2. QED
      BY <2>1 DEF OldWhere
  <1>4. Distinct' /\ Watching'
    BY <1>1 DEF TInv, Distinct, Watching
  <1>5. Spent'
    BY <1>2 DEF TInv, Spent
  <1>6. LeftClosed'
    BY DEF TInv, LeftClosed, Closed
  <1>7. Reachable'
    BY <1>2 DEF TInv, Reachable, Closed
  <1>8. Told(k)'
    <2> SUFFICES ASSUME Acked(k)
                 PROVE  /\ Claimed(k)' \/ Noticed(k)'
                        /\ half[k] # "torn" /\ HalfNotice(k)'
                        /\ server'[k] \in {"parked", "leaving", "none"}
                        /\ Closed(k)' => Noticed(k)'
      BY DEF Told
    <2>1. /\ half[k] # "torn" /\ HalfNotice(k) /\ (Closed(k) => Noticed(k))
          /\ server[k] \in {"parked", "leaving", "none"}
      BY DEF TInv, Told
    <2>2. server[k] = "leaving" /\ server'[k] = "none" /\ answers'[k] = answers[k]
      BY <2>1 DEF TuiPlaces
    <2>3. Noticed(k)'
      BY <2>1, <2>2 DEF TInv, LeftClosed, Noticed
    <2>4. HalfNotice(k)'
      BY <2>1, <2>2 DEF HalfNotice
    <2>5. QED
      BY <2>1, <2>2, <2>3, <2>4
  <1>9. ASSUME NEW j \in Conns, j # k PROVE Told(j)'
    <2>1. Told(j) /\ Conn(j[1])' = Conn(j[1])
      BY <1>1 DEF TInv, Conn
    <2>2. Acked(j)' = Acked(j) /\ Noticed(j)' = Noticed(j)
      BY <1>1, <1>9, <2>1 DEF Acked, Noticed
    <2>3. HalfNotice(j) => HalfNotice(j)'
      <3>1. \A i \in Conns : server[i] = "notifying" => server'[i] = "notifying"
        BY DEF TuiPlaces
      <3>2. QED
        BY <3>1 DEF HalfNotice
    <2>4. QED
      BY <1>2, <1>9, <2>1, <2>2, <2>3 DEF Told, Closed
  <1>10. QED
    BY <1>3, <1>4, <1>5, <1>6, <1>7, <1>8, <1>9 DEF TInv

\* What is put on a connection does not acknowledge anything.
LEMMA NoAck ==
    ASSUME CTyped, NEW k \in Conns, UNCHANGED clientVars, NEW msgs \in Seq(Messages), Put(k, msgs),
           Tui(k) => OK \notin Said(msgs)
    PROVE  Acked(k)' => Acked(k)
  <1>1. UNCHANGED <<at, via, call, watch>> /\ Conn(k[1])' = Conn(k[1])
    BY DEF clientVars, Conn
  <1>2. Said(answers'[k]) \subseteq Said(answers[k]) \cup Said(msgs)
    BY PutSays
  <1>3. QED
    BY <1>1, <1>2 DEF Acked, Tui

LEMMA PlainGoroutineT ==
    ASSUME TInv, PInv', AInv', NEW k \in Conns,
           \/ Accept(k) \/ JobEnds(k) \/ TurnAway(k) \/ HungUp(k) \/ Serve(k) \/ Wait(k)
           \/ WaitReturns(k) \/ Shutdown(k) \/ Leave(k)
    PROVE  TInv'
  <1>1. /\ CTyped /\ UNCHANGED clientVars /\ UNCHANGED <<registered, old, half>>
        /\ UNCHANGED <<at, via, call, watch>>
    BY DEF TInv, AInv, Accept, JobEnds, TurnAway, HungUp, Serve, Wait, WaitReturns, Shutdown, Leave,
           clientVars, wireVars
  <1>2. server[k] \in {"backlog", "waiting", "turning", "serving", "waited", "leaving"}
    BY DEF Accept, JobEnds, TurnAway, HungUp, Serve, Wait, WaitReturns, Shutdown, Leave, Takes
  <1>3. \E p \in {"none", "serving", "turning", "waiting", "waited"} : server' = server \/ Move(k, p)
    BY DEF Accept, JobEnds, TurnAway, HungUp, Serve, Wait, WaitReturns, Shutdown, Leave, GiveBack, Move
  <1>4. \A j \in Conns : j # k => server'[j] = server[j]
    BY <1>1, <1>3, Moves DEF CTyped, Placed, Move
  <1>5. server' = server => Serve(k) \/ server'[k] # server[k]
    BY <1>1 DEF Accept, JobEnds, TurnAway, HungUp, Wait, WaitReturns, Shutdown, Leave, GiveBack, Move,
                Takes, CTyped, Placed
  <1>6. server'[k] \in {"none", "serving", "turning", "waiting", "waited"}
    <2>1. ASSUME NEW p \in {"none", "serving", "turning", "waiting", "waited"}, Move(k, p)
          PROVE  server'[k] = p
      BY <1>1, <2>1 DEF Move, CTyped, Placed
    <2>2. Serve(k) => server[k] = "serving"
      BY DEF Serve, Takes
    <2>3. QED
      BY <1>3, <1>5, <2>1, <2>2
  <1>7. \A j \in Conns : request'[j] \in {request[j], "none"}
    <2>1. request' = request \/ request' = [request EXCEPT ![k] = "none"]
      BY DEF Accept, JobEnds, TurnAway, HungUp, Serve, Wait, WaitReturns, Shutdown, Leave, Takes, wireVars
    <2>2. QED
      BY <1>1, <2>1 DEF CTyped
  <1>8. /\ \A j \in Conns : j # k => ends'[j] = ends[j]
        /\ Closed(k) => ends'[k] # "open"
    <2>1. ends' = ends \/ Shut(k)
      BY DEF Accept, JobEnds, TurnAway, HungUp, Serve, Wait, WaitReturns, Shutdown, Leave, GiveBack, wireVars
    <2>2. QED
      BY <1>1, <2>1, Shuts DEF Closed
  <1>9. server[k] = "leaving" => Leave(k)
    BY DEF Accept, JobEnds, TurnAway, HungUp, Serve, Wait, WaitReturns, Shutdown, Takes
  <1>10. Leave(k) => answers' = answers /\ server'[k] = "none"
    BY <1>1 DEF Leave, GiveBack, Move, CTyped, Placed
  <1>11. daemon # "down"
    BY <1>2 DEF TInv, PInv, DownIsEmpty
  <1>12. (\A j \in Conns : j # k => answers'[j] = answers[j]) /\ (Acked(k)' => Acked(k))
    <2>1. CASE answers' = answers
      BY <1>1, <2>1 DEF Acked, Conn
    <2>2. ASSUME NEW m \in {Error, Result}, Put(k, <<m>>)
          PROVE  (\A j \in Conns : j # k => answers'[j] = answers[j]) /\ (Acked(k)' => Acked(k))
      <3>1. <<m>> \in Seq(Messages)
        BY <2>2, MessagesAre
      <3>2. OK \notin Said(<<m>>)
        BY <2>2, SaysOne DEF OK, Error, Result
      <3>3. QED
        BY <1>1, <2>2, <3>1, <3>2, PutSays, NoAck
    <2>3. CASE Serve(k)
      <3>1. PICK reply \in Replies(request[k]) : Put(k, reply)
        BY <2>3 DEF Serve
      <3>2. request[k] # "none" /\ Dispatch(request[k]) = "answer" /\ server[k] = "serving"
        BY <2>3 DEF Serve, Takes
      <3>3. reply \in Seq(Messages)
        BY <3>2, ReplyProper DEF TInv
      <3>4. request[k] # "TUIAttach"
        <4>1. request[k] \in DOMAIN Answers
          BY <3>2 DEF Dispatch
        <4>2. request[k] \notin Special
          BY <4>1, AnswerRows DEF Kept
        <4>3. QED
          BY <4>2 DEF Special
      <3>5. ~(k = Conn(k[1]) /\ at[k[1]] = "asked" /\ call[k[1]] = "AttachTUI")
        <4>1. SUFFICES ASSUME k = Conn(k[1]), at[k[1]] = "asked", call[k[1]] = "AttachTUI" PROVE FALSE
          OBVIOUS
        <4>2. k[1] \in Clients
          BY <1>1, ConnsAre
        <4>3. request[k] \in {"none", Calls["AttachTUI"].sends} /\ "AttachTUI" \in CallNames
          BY <4>1, <4>2 DEF TInv, AInv, Talks, Asking, Suits
        <4>4. Calls["AttachTUI"].sends = "TUIAttach"
          BY <4>3, CallRows DEF Relied
        <4>5. QED
          BY <3>2, <3>4, <4>3, <4>4
      <3>6. Acked(k)' => Acked(k)
        BY <1>1, <3>5 DEF Acked, Conn
      <3>7. QED
        BY <1>1, <3>1, <3>3, <3>6, PutSays
    <2>4. QED
      BY <2>1, <2>2, <2>3 DEF Accept, JobEnds, TurnAway, HungUp, Wait, WaitReturns, Shutdown, Leave, wireVars
  <1>13. QED
    BY <1>1, <1>2, <1>4, <1>6, <1>7, <1>8, <1>9, <1>10, <1>11, <1>12, PlainT DEF TuiPlaces

\* A connection that a goroutine leaves alone.
LEMMA UntouchedT ==
    ASSUME NEW j \in Conns, Told(j), UNCHANGED clientVars, daemon # "down",
           half'[j] = half[j], answers'[j] = answers[j], ends'[j] = ends[j], server'[j] = server[j],
           Claimed(j) => Claimed(j)',
           registered' = j => registered = j,
           \A i \in Conns : old'[i] = j /\ server'[i] # "notifying" =>
               registered = j \/ (old[i] = j /\ server[i] # "notifying")
    PROVE  Told(j)'
  <1>1. UNCHANGED <<at, via, call, watch>> /\ Conn(j[1])' = Conn(j[1])
    BY DEF clientVars, Conn
  <1>2. Acked(j)' = Acked(j) /\ Noticed(j)' = Noticed(j) /\ Closed(j)' = Closed(j)
    BY <1>1 DEF Acked, Noticed, Closed
  <1>3. HalfNotice(j) => HalfNotice(j)'
    BY DEF HalfNotice
  <1>4. QED
    BY <1>2, <1>3 DEF Told

\* Where the registration is dealt with, nothing was acknowledged yet.
LEMMA Unacked ==
    ASSUME TInv, NEW k \in Conns, server[k] \notin {"parked", "leaving", "none"}, UNCHANGED clientVars
    PROVE  ~Acked(k) /\ (Acked(k)' => OK \in Said(answers'[k]) /\ OK \notin Said(answers[k]))
  <1>1. daemon # "down"
    BY DEF TInv, PInv, DownIsEmpty
  <1>2. ~Acked(k)
    BY <1>1 DEF TInv, Told
  <1>3. UNCHANGED <<at, via, call, watch>> /\ Conn(k[1])' = Conn(k[1])
    BY DEF clientVars, Conn
  <1>4. QED
    BY <1>2, <1>3 DEF Acked

LEMMA AttachT ==
    ASSUME TInv, PInv', AInv', NEW k \in Conns, Attach(k)
    PROVE  TInv'
  <1>1. /\ server[k] = "serving" /\ request[k] # "none" /\ Dispatch(request[k]) = "attach"
        /\ request' = [request EXCEPT ![k] = "none"]
        /\ old' = [old EXCEPT ![k] = registered] /\ registered' = k
        /\ UNCHANGED <<daemon, half, answers, ends>> /\ UNCHANGED clientVars
        /\ UNCHANGED <<at, via, call, watch>>
    BY DEF Attach, Takes, clientVars
  <1>2. CTyped /\ daemon # "down" /\ NoConn \notin Conns
    BY <1>1, ConnsAre DEF TInv, PInv, AInv, DownIsEmpty
  <1>3. PICK p : p = (IF registered = NoConn THEN "ack" ELSE "notify")
    OBVIOUS
  <1>4. \A j \in Conns : server'[j] = IF j = k THEN p ELSE server[j]
    BY <1>2, <1>3, Moves DEF Attach, ServerPlaces
  <1>5. \A j \in Conns : old'[j] = IF j = k THEN registered ELSE old[j]
    BY <1>1, <1>2 DEF CTyped
  <1>6. \A j \in Conns : request'[j] = IF j = k THEN "none" ELSE request[j]
    BY <1>1, <1>2 DEF CTyped
  <1>7. ~Claimed(k) /\ old[k] = NoConn
    BY <1>1, <1>2 DEF TInv, Spent, OldWhere
  <1>8. OldWhere'
    <2>1. \A j \in Conns : old'[j] # NoConn <=> server'[j] \in {"notify", "notifying"}
      BY <1>3, <1>4, <1>5 DEF TInv, OldWhere
    <2>2. QED
      BY <2>1 DEF OldWhere
  <1>9. Distinct'
    BY <1>1, <1>5, <1>7 DEF TInv, Distinct, Claimed
  <1>10. Spent'
    <2>1. \A j \in Conns : j # k => (Claimed(j)' => Claimed(j))
      BY <1>1, <1>5 DEF Claimed
    <2>2. QED
      BY <1>4, <1>6, <2>1 DEF TInv, Spent
  <1>11. LeftClosed'
    BY <1>1, <1>3, <1>4 DEF TInv, LeftClosed, Closed
  <1>12. \A j \in Conns : Claimed(j) => Claimed(j)'
    BY <1>1, <1>2, <1>5, <1>7 DEF Claimed
  <1>13. Reachable'
    <2>1. Claimed(k)'
      BY <1>1 DEF Claimed
    <2>2. QED
      BY <1>1, <1>4, <1>12, <2>1 DEF TInv, Reachable, Closed
  <1>14. Watching'
    BY <1>1 DEF TInv, Watching
  <1>15. Told(k)'
    <2>1. ~Acked(k)'
      BY <1>1, Unacked
    <2>2. QED
      BY <2>1 DEF Told
  <1>16. ASSUME NEW j \in Conns, j # k PROVE Told(j)'
    <2>1. \A i \in Conns : old'[i] = j /\ server'[i] # "notifying" =>
              registered = j \/ (old[i] = j /\ server[i] # "notifying")
      BY <1>3, <1>4, <1>5
    <2>2. Told(j)
      BY DEF TInv
    <2>3. QED
      BY <1>1, <1>2, <1>4, <1>12, <1>16, <2>1, <2>2, UntouchedT
  <1>17. QED
    BY <1>8, <1>9, <1>10, <1>11, <1>13, <1>14, <1>15, <1>16 DEF TInv

LEMMA BeginNoticeT ==
    ASSUME TInv, PInv', AInv', NEW k \in Conns, BeginNotice(k)
    PROVE  TInv'
  <1>1. /\ server[k] = "notify" /\ BeginSend(old[k])
        /\ UNCHANGED <<daemon, registered, old, request, answers, ends>> /\ UNCHANGED clientVars
        /\ UNCHANGED <<at, via, call, watch>>
    BY DEF BeginNotice, clientVars
  <1>2. CTyped /\ daemon # "down"
    BY <1>1 DEF TInv, PInv, AInv, DownIsEmpty
  <1>3. \A j \in Conns : server'[j] = IF j = k THEN "notifying" ELSE server[j]
    BY <1>2, Moves DEF BeginNotice, ServerPlaces
  <1>4. old[k] \in Conns
    BY <1>1, <1>2 DEF TInv, OldWhere, CTyped
  <1>5. /\ \A j \in Conns : j # old[k] => half'[j] = half[j]
        /\ half'[old[k]] \in {"no", "one", "torn"}
        /\ half[old[k]] = "no" => half'[old[k]] # "torn"
        /\ half'[old[k]] = "torn" => half[old[k]] # "no"
    BY <1>1, <1>2, <1>4 DEF BeginSend, CTyped
  <1>6. \A j \in Conns : Claimed(j)' = Claimed(j)
    BY <1>1 DEF Claimed
  <1>7. OldWhere'
    <2>1. \A j \in Conns : old[j] # NoConn <=> server'[j] \in {"notify", "notifying"}
      BY <1>1, <1>3 DEF TInv, OldWhere
    <2>2. QED
      BY <1>1, <2>1 DEF OldWhere
  <1>8. Distinct' /\ Watching'
    BY <1>1 DEF TInv, Distinct, Watching
  <1>9. Spent'
    BY <1>1, <1>3, <1>6 DEF TInv, Spent, TuiPlaces
  <1>10. LeftClosed'
    BY <1>1, <1>3 DEF TInv, LeftClosed, Closed
  <1>11. Reachable'
    BY <1>1, <1>3, <1>6 DEF TInv, Reachable, Closed, TuiPlaces
  <1>12. Told(k)'
    <2>1. ~Acked(k)'
      BY <1>1, Unacked
    <2>2. QED
      BY <2>1 DEF Told
  <1>13. ASSUME NEW j \in Conns, j # k, j # old[k] PROVE Told(j)'
    <2>1. Told(j) /\ half'[j] = half[j] /\ server'[j] = server[j]
      BY <1>3, <1>5, <1>13 DEF TInv
    <2>2. \A i \in Conns : old'[i] = j /\ server'[i] # "notifying" =>
              registered = j \/ (old[i] = j /\ server[i] # "notifying")
      BY <1>1, <1>3
    <2>3. QED
      BY <1>1, <1>2, <1>6, <2>1, <2>2, UntouchedT
  <1>14. ASSUME NEW j \in Conns, j # k, j = old[k] PROVE Told(j)'
    <2>1. Conn(j[1])' = Conn(j[1])
      BY <1>1 DEF Conn
    <2>2. Acked(j)' = Acked(j) /\ Noticed(j)' = Noticed(j) /\ Closed(j)' = Closed(j) /\ server'[j] = server[j]
      BY <1>1, <1>3, <1>14, <2>1 DEF Acked, Noticed, Closed
    <2>3. ASSUME Acked(j) PROVE half'[j] # "torn" /\ HalfNotice(j)'
      <3>1. half[j] # "torn" /\ HalfNotice(j)
        BY <1>2, <2>3 DEF TInv, Told
      <3>2. half[j] # "one"
        BY <1>1, <1>14, <3>1 DEF HalfNotice
      <3>3. half[j] = "no"
        BY <1>2, <3>1, <3>2 DEF CTyped
      <3>4. registered # j /\ \A i \in Conns : old[i] = j => i = k
        BY <1>4, <1>14 DEF TInv, Distinct
      <3>5. QED
        BY <1>1, <1>3, <1>5, <1>14, <3>3, <3>4 DEF HalfNotice
    <2>4. Told(j)
      BY DEF TInv
    <2>5. QED
      BY <1>2, <1>6, <2>2, <2>3, <2>4 DEF Told
  <1>15. QED
    BY <1>7, <1>8, <1>9, <1>10, <1>11, <1>12, <1>13, <1>14 DEF TInv

LEMMA EndNoticeT ==
    ASSUME TInv, PInv', AInv', NEW k \in Conns, EndNotice(k)
    PROVE  TInv'
  <1>1. PICK m : m = old[k]
    OBVIOUS
  <1>2. /\ server[k] = "notifying" /\ EndSend(m, TakenOver) /\ Shut(m)
        /\ old' = [old EXCEPT ![k] = NoConn]
        /\ UNCHANGED <<daemon, registered, request>> /\ UNCHANGED clientVars
        /\ UNCHANGED <<at, via, call, watch>>
    BY <1>1 DEF EndNotice, clientVars
  <1>3. CTyped /\ daemon # "down" /\ NoConn \notin Conns
    BY <1>2, ConnsAre DEF TInv, PInv, AInv, DownIsEmpty
  <1>4. \A j \in Conns : server'[j] = IF j = k THEN "ack" ELSE server[j]
    BY <1>3, Moves DEF EndNotice, ServerPlaces
  <1>5. m \in Conns
    BY <1>1, <1>2, <1>3 DEF TInv, OldWhere, CTyped
  <1>6. \A j \in Conns : old'[j] = IF j = k THEN NoConn ELSE old[j]
    BY <1>2, <1>3 DEF CTyped
  <1>7. /\ \A j \in Conns : j # m => half'[j] = half[j]
        /\ half'[m] = IF half[m] = "one" THEN "no" ELSE half[m]
    BY <1>2, <1>3, <1>5 DEF EndSend, CTyped
  <1>8. PICK msg \in {TakenOver, Garbled} : Put(m, <<msg>>) /\ (half[m] # "torn" => msg = TakenOver)
    BY <1>2 DEF EndSend
  <1>9. <<msg>> \in Seq(Messages)
    BY <1>8, MessagesAre
  <1>10. /\ \A j \in Conns : j # m => answers'[j] = answers[j]
         /\ Closed(m) => answers'[m] = answers[m]
         /\ ~Closed(m) => Said(answers'[m]) = Said(answers[m]) \cup {msg}
    BY <1>3, <1>5, <1>8, <1>9, PutSays, SaysOne
  <1>11. OK # msg
    BY <1>8 DEF OK, TakenOver, Garbled
  <1>12. /\ \A j \in Conns : j # m => ends'[j] = ends[j]
         /\ \A j \in Conns : Closed(j) => Closed(j)'
         /\ Closed(m)'
    BY <1>2, <1>3, <1>5, Shuts DEF Closed
  <1>13. \A j \in Conns : /\ Claimed(j)' => Claimed(j)
                          /\ j # m /\ Claimed(j) => Claimed(j)'
    BY <1>1, <1>2, <1>3, <1>6 DEF Claimed
  <1>14. OldWhere'
    <2>1. \A j \in Conns : old'[j] # NoConn <=> server'[j] \in {"notify", "notifying"}
      BY <1>4, <1>6 DEF TInv, OldWhere
    <2>2. QED
      BY <2>1 DEF OldWhere
  <1>15. Distinct'
    BY <1>2, <1>3, <1>6 DEF TInv, Distinct
  <1>16. Spent'
    BY <1>2, <1>4, <1>13 DEF TInv, Spent, TuiPlaces
  <1>17. LeftClosed'
    BY <1>4, <1>12 DEF TInv, LeftClosed
  <1>18. Reachable'
    BY <1>2, <1>4, <1>12, <1>13 DEF TInv, Reachable, TuiPlaces
  <1>19. Watching'
    BY <1>2 DEF TInv, Watching
  <1>20. Told(k)'
    <2>1. OK \in Said(answers'[k]) => OK \in Said(answers[k])
      BY <1>10, <1>11
    <2>2. ~Acked(k)'
      BY <1>2, <2>1, Unacked
    <2>3. QED
      BY <2>2 DEF Told
  <1>21. ASSUME NEW j \in Conns, j # k, j # m PROVE Told(j)'
    <2>1. Told(j) /\ half'[j] = half[j] /\ server'[j] = server[j]
      BY <1>4, <1>7, <1>21 DEF TInv
    <2>2. \A i \in Conns : old'[i] = j /\ server'[i] # "notifying" =>
              registered = j \/ (old[i] = j /\ server[i] # "notifying")
      BY <1>3, <1>4, <1>6
    <2>3. QED
      BY <1>2, <1>3, <1>10, <1>12, <1>13, <1>21, <2>1, <2>2, UntouchedT
  <1>22. ASSUME m # k PROVE Told(m)'
    <2>1. Conn(m[1])' = Conn(m[1])
      BY <1>2 DEF Conn
    <2>2. Acked(m)' => Acked(m)
      BY <1>2, <1>10, <1>11, <2>1 DEF Acked
    <2>3. ASSUME Acked(m)
          PROVE  /\ Noticed(m)' /\ half'[m] # "torn" /\ HalfNotice(m)'
                 /\ server'[m] \in {"parked", "leaving", "none"}
      <3>1. /\ half[m] # "torn" /\ server[m] \in {"parked", "leaving", "none"}
            /\ Closed(m) => Noticed(m)
        BY <1>3, <1>5, <2>3 DEF TInv, Told
      <3>2. Noticed(m)'
        BY <1>8, <1>10, <3>1 DEF Noticed
      <3>3. half'[m] # "torn" /\ HalfNotice(m)'
        BY <1>7, <3>1 DEF HalfNotice
      <3>4. QED
        BY <1>4, <1>5, <1>22, <3>1, <3>2, <3>3
    <2>4. QED
      BY <2>2, <2>3 DEF Told
  <1>23. QED
    BY <1>14, <1>15, <1>16, <1>17, <1>18, <1>19, <1>20, <1>21, <1>22 DEF TInv

LEMMA BeginAckT ==
    ASSUME TInv, PInv', AInv', NEW k \in Conns, BeginAck(k)
    PROVE  TInv'
  <1>1. /\ server[k] = "ack" /\ BeginSend(k)
        /\ UNCHANGED <<daemon, registered, old, request, answers, ends>> /\ UNCHANGED clientVars
        /\ UNCHANGED <<at, via, call, watch>>
    BY DEF BeginAck, clientVars
  <1>2. CTyped /\ daemon # "down"
    BY <1>1 DEF TInv, PInv, AInv, DownIsEmpty
  <1>3. \A j \in Conns : server'[j] = IF j = k THEN "acking" ELSE server[j]
    BY <1>2, Moves DEF BeginAck, ServerPlaces
  <1>4. \A j \in Conns : j # k => half'[j] = half[j]
    BY <1>1, <1>2 DEF BeginSend, CTyped
  <1>5. \A j \in Conns : Claimed(j)' = Claimed(j)
    BY <1>1 DEF Claimed
  <1>6. OldWhere'
    <2>1. \A j \in Conns : old[j] # NoConn <=> server'[j] \in {"notify", "notifying"}
      BY <1>1, <1>3 DEF TInv, OldWhere
    <2>2. QED
      BY <1>1, <2>1 DEF OldWhere
  <1>7. Distinct' /\ Watching'
    BY <1>1 DEF TInv, Distinct, Watching
  <1>8. Spent' /\ Reachable'
    BY <1>1, <1>3, <1>5 DEF TInv, Spent, Reachable, Closed, TuiPlaces
  <1>9. LeftClosed'
    BY <1>1, <1>3 DEF TInv, LeftClosed, Closed
  <1>10. Told(k)'
    <2>1. ~Acked(k)'
      BY <1>1, Unacked
    <2>2. QED
      BY <2>1 DEF Told
  <1>11. ASSUME NEW j \in Conns, j # k PROVE Told(j)'
    <2>1. Told(j) /\ half'[j] = half[j] /\ server'[j] = server[j]
      BY <1>3, <1>4, <1>11 DEF TInv
    <2>2. \A i \in Conns : old'[i] = j /\ server'[i] # "notifying" =>
              registered = j \/ (old[i] = j /\ server[i] # "notifying")
      BY <1>1, <1>3
    <2>3. QED
      BY <1>1, <1>2, <1>5, <2>1, <2>2, UntouchedT
  <1>12. QED
    BY <1>6, <1>7, <1>8, <1>9, <1>10, <1>11 DEF TInv

LEMMA EndAckT ==
    ASSUME TInv, PInv', AInv', NEW k \in Conns, EndAck(k)
    PROVE  TInv'
  <1>1. /\ server[k] = "acking" /\ ~Closed(k) /\ EndSend(k, OK)
        /\ UNCHANGED <<daemon, registered, old, request, ends>> /\ UNCHANGED clientVars
        /\ UNCHANGED <<at, via, call, watch>>
    BY DEF EndAck, clientVars
  <1>2. CTyped /\ daemon # "down"
    BY <1>1 DEF TInv, PInv, AInv, DownIsEmpty
  <1>3. \A j \in Conns : server'[j] = IF j = k THEN "parked" ELSE server[j]
    BY <1>2, Moves DEF EndAck, ServerPlaces
  <1>4. /\ \A j \in Conns : j # k => half'[j] = half[j]
        /\ half'[k] = IF half[k] = "one" THEN "no" ELSE half[k]
    BY <1>1, <1>2 DEF EndSend, CTyped
  <1>5. PICK msg \in {OK, Garbled} : Put(k, <<msg>>) /\ (half[k] = "torn" => msg = Garbled)
    BY <1>1 DEF EndSend
  <1>6. <<msg>> \in Seq(Messages)
    BY <1>5, MessagesAre
  <1>7. /\ \A j \in Conns : j # k => answers'[j] = answers[j]
        /\ Said(answers'[k]) = Said(answers[k]) \cup {msg}
    BY <1>1, <1>2, <1>5, <1>6, PutSays, SaysOne
  <1>8. \A j \in Conns : Claimed(j)' = Claimed(j)
    BY <1>1 DEF Claimed
  <1>9. OldWhere'
    <2>1. \A j \in Conns : old[j] # NoConn <=> server'[j] \in {"notify", "notifying"}
      BY <1>1, <1>3 DEF TInv, OldWhere
    <2>2. QED
      BY <1>1, <2>1 DEF OldWhere
  <1>10. Distinct' /\ Watching'
    BY <1>1 DEF TInv, Distinct, Watching
  <1>11. Spent' /\ Reachable'
    BY <1>1, <1>3, <1>8 DEF TInv, Spent, Reachable, Closed, TuiPlaces
  <1>12. LeftClosed'
    BY <1>1, <1>3 DEF TInv, LeftClosed, Closed
  <1>13. Told(k)'
    <2> SUFFICES ASSUME Acked(k)'
                 PROVE  /\ Claimed(k)' /\ half'[k] # "torn" /\ HalfNotice(k)'
                        /\ server'[k] \in {"parked", "leaving", "none"} /\ ~Closed(k)'
      BY DEF Told
    <2>1. OK \in Said(answers'[k]) /\ OK \notin Said(answers[k])
      BY <1>1, Unacked
    <2>2. half[k] # "torn"
      BY <1>5, <1>7, <2>1 DEF OK, Garbled
    <2>3. half'[k] # "torn" /\ HalfNotice(k)'
      BY <1>4, <2>2 DEF HalfNotice
    <2>4. Claimed(k)
      BY <1>1, <1>2 DEF TInv, Reachable, TuiPlaces
    <2>5. QED
      BY <1>1, <1>3, <1>8, <2>3, <2>4 DEF Closed
  <1>14. ASSUME NEW j \in Conns, j # k PROVE Told(j)'
    <2>1. Told(j) /\ half'[j] = half[j] /\ server'[j] = server[j]
      BY <1>3, <1>4, <1>14 DEF TInv
    <2>2. \A i \in Conns : old'[i] = j /\ server'[i] # "notifying" =>
              registered = j \/ (old[i] = j /\ server[i] # "notifying")
      BY <1>1, <1>3
    <2>3. QED
      BY <1>1, <1>2, <1>7, <1>8, <1>14, <2>1, <2>2, UntouchedT
  <1>15. QED
    BY <1>9, <1>10, <1>11, <1>12, <1>13, <1>14 DEF TInv

LEMMA AckFailsT ==
    ASSUME TInv, PInv', AInv', NEW k \in Conns, AckFails(k)
    PROVE  TInv'
  <1>1. /\ server[k] \in {"ack", "acking"} /\ Closed(k)
        /\ UNCHANGED <<daemon, registered, old, half, request, answers, ends>> /\ UNCHANGED clientVars
        /\ UNCHANGED <<at, via, call, watch>>
    BY DEF AckFails, wireVars, clientVars
  <1>2. CTyped /\ daemon # "down"
    BY <1>1 DEF TInv, PInv, AInv, DownIsEmpty
  <1>3. \A j \in Conns : server'[j] = IF j = k THEN "leaving" ELSE server[j]
    BY <1>2, Moves DEF AckFails, ServerPlaces
  <1>4. \A j \in Conns : Claimed(j)' = Claimed(j)
    BY <1>1 DEF Claimed
  <1>5. OldWhere'
    <2>1. \A j \in Conns : old[j] # NoConn <=> server'[j] \in {"notify", "notifying"}
      BY <1>1, <1>3 DEF TInv, OldWhere
    <2>2. QED
      BY <1>1, <2>1 DEF OldWhere
  <1>6. Distinct' /\ Watching'
    BY <1>1 DEF TInv, Distinct, Watching
  <1>7. Spent' /\ Reachable'
    BY <1>1, <1>3, <1>4 DEF TInv, Spent, Reachable, Closed, TuiPlaces
  <1>8. LeftClosed'
    BY <1>1, <1>3 DEF TInv, LeftClosed, Closed
  <1>9. Told(k)'
    <2>1. ~Acked(k)'
      BY <1>1, Unacked
    <2>2. QED
      BY <2>1 DEF Told
  <1>10. ASSUME NEW j \in Conns, j # k PROVE Told(j)'
    <2>1. Told(j) /\ server'[j] = server[j]
      BY <1>3, <1>10 DEF TInv
    <2>2. \A i \in Conns : old'[i] = j /\ server'[i] # "notifying" =>
              registered = j \/ (old[i] = j /\ server[i] # "notifying")
      BY <1>1, <1>3
    <2>3. QED
      BY <1>1, <1>2, <1>4, <2>1, <2>2, UntouchedT
  <1>11. QED
    BY <1>5, <1>6, <1>7, <1>8, <1>9, <1>10 DEF TInv

LEMMA UnparkT ==
    ASSUME TInv, PInv', AInv', NEW k \in Conns, Unpark(k)
    PROVE  TInv'
  <1>1. /\ server[k] = "parked" /\ Closed(k)
        /\ registered' = IF registered = k THEN NoConn ELSE registered
        /\ UNCHANGED <<daemon, old, half, request, answers, ends>> /\ UNCHANGED clientVars
        /\ UNCHANGED <<at, via, call, watch>>
    BY DEF Unpark, wireVars, clientVars
  <1>2. CTyped /\ daemon # "down" /\ NoConn \notin Conns
    BY <1>1, ConnsAre DEF TInv, PInv, AInv, DownIsEmpty
  <1>3. \A j \in Conns : server'[j] = IF j = k THEN "leaving" ELSE server[j]
    BY <1>2, Moves DEF Unpark, ServerPlaces
  <1>4. \A j \in Conns : /\ Claimed(j)' => Claimed(j)
                         /\ j # k /\ Claimed(j) => Claimed(j)'
    BY <1>1, <1>2 DEF Claimed
  <1>5. OldWhere'
    <2>1. \A j \in Conns : old[j] # NoConn <=> server'[j] \in {"notify", "notifying"}
      BY <1>1, <1>3 DEF TInv, OldWhere
    <2>2. QED
      BY <1>1, <2>1 DEF OldWhere
  <1>6. Distinct' /\ Watching'
    BY <1>1, <1>2 DEF TInv, Distinct, Watching
  <1>7. Spent' /\ Reachable'
    BY <1>1, <1>3, <1>4 DEF TInv, Spent, Reachable, Closed, TuiPlaces
  <1>8. LeftClosed'
    BY <1>1, <1>3 DEF TInv, LeftClosed, Closed
  <1>9. Told(k)'
    <2>1. Conn(k[1])' = Conn(k[1])
      BY <1>1 DEF Conn
    <2>2. Acked(k)' = Acked(k) /\ Noticed(k)' = Noticed(k)
      BY <1>1, <2>1 DEF Acked, Noticed
    <2>3. ASSUME Acked(k) PROVE Noticed(k) /\ half[k] # "torn" /\ HalfNotice(k)
      BY <1>1, <1>2, <2>3 DEF TInv, Told
    <2>4. HalfNotice(k) => HalfNotice(k)'
      BY <1>1, <1>2, <1>3 DEF HalfNotice
    <2>5. QED
      BY <1>1, <1>3, <2>2, <2>3, <2>4 DEF Told
  <1>10. ASSUME NEW j \in Conns, j # k PROVE Told(j)'
    <2>1. Told(j) /\ server'[j] = server[j]
      BY <1>3, <1>10 DEF TInv
    <2>2. \A i \in Conns : old'[i] = j /\ server'[i] # "notifying" =>
              registered = j \/ (old[i] = j /\ server[i] # "notifying")
      BY <1>1, <1>3
    <2>3. registered' = j => registered = j
      BY <1>1, <1>2
    <2>4. QED
      BY <1>1, <1>2, <1>4, <1>10, <2>1, <2>2, <2>3, UntouchedT
  <1>11. QED
    BY <1>5, <1>6, <1>7, <1>8, <1>9, <1>10 DEF TInv

LEMMA GoroutineT ==
    ASSUME TInv, NEW k \in Conns, Accept(k) \/ Goroutine(k) \/ JobEnds(k)
    PROVE  TInv'
  <1>1. PInv' /\ AInv'
    BY GoroutineMoves, GoroutineA DEF TInv
  <1>2. QED
    BY <1>1, PlainGoroutineT, AttachT, BeginNoticeT, EndNoticeT, BeginAckT, EndAckT, AckFailsT, UnparkT
       DEF Goroutine

LEMMA ExitT == TInv /\ Exit => TInv'
  <1> SUFFICES ASSUME TInv, Exit PROVE TInv'
    OBVIOUS
  <1>1. PInv' /\ AInv'
    BY ExitEmpties, ExitA DEF TInv
  <1>2. /\ daemon' = "down" /\ registered' = NoConn
        /\ server' = [k \in Conns |-> "none"] /\ old' = [k \in Conns |-> NoConn]
        /\ UNCHANGED <<request, at, watch>>
    BY DEF Exit, clientVars
  <1>3. NoConn \notin Conns
    BY ConnsAre DEF TInv, AInv
  <1>4. OldWhere' /\ Distinct' /\ LeftClosed' /\ Watching'
    BY <1>2, <1>3 DEF TInv, OldWhere, Distinct, LeftClosed, Watching
  <1>5. Spent' /\ Reachable' /\ \A k \in Conns : Told(k)'
    BY <1>2, <1>3 DEF Spent, Reachable, Told, Claimed, TuiPlaces
  <1>6. QED
    BY <1>1, <1>4, <1>5 DEF TInv

\* A step of a process on the connection it has.
LEMMA ProcessT ==
    ASSUME TInv, PInv', AInv', NEW c \in Clients, NEW k \in Conns, k = Conn(c),
           UNCHANGED <<daemonVars, half, via>>,
           \A d \in Clients : d # c => at'[d] = at[d] /\ call'[d] = call[d] /\ watch'[d] = watch[d],
           \A j \in Conns : j # k => /\ request'[j] = request[j] /\ ends'[j] = ends[j]
                                     /\ answers'[j] = answers[j],
           request'[k] = request[k] \/ ~Tui(k),
           Closed(k) => ends'[k] # "open",
           watch'[c] # "no" => at'[c] = "driving",
           Acked(k)' => Acked(k) /\ ends'[k] = ends[k] /\ (Noticed(k) => Noticed(k)')
    PROVE  TInv'
  <1>1. UNCHANGED <<daemon, registered, server, old>> /\ CTyped
    BY DEF daemonVars, TInv, AInv
  <1>2. \A j \in Conns : Claimed(j)' = Claimed(j) /\ HalfNotice(j)' = HalfNotice(j)
    BY <1>1 DEF Claimed, HalfNotice
  <1>3. OldWhere' /\ Distinct'
    BY <1>1 DEF TInv, OldWhere, Distinct
  <1>4. Spent'
    <2>1. ASSUME NEW j \in Conns, Claimed(j) \/ server[j] \in TuiPlaces PROVE request'[j] = "none"
      <3>1. Tui(j)
        BY <2>1 DEF TInv, AInv, TuiOnly, Claimed
      <3>2. request[j] = "none"
        BY <2>1 DEF TInv, Spent
      <3>3. QED
        BY <3>1, <3>2
    <2>2. QED
      BY <1>1, <1>2, <2>1 DEF Spent
  <1>5. \A j \in Conns : Closed(j) => Closed(j)'
    BY DEF Closed
  <1>6. LeftClosed' /\ Reachable'
    BY <1>1, <1>2, <1>5 DEF TInv, LeftClosed, Reachable
  <1>7. Watching'
    BY DEF TInv, Watching
  <1>8. Told(k)'
    BY <1>1, <1>2 DEF TInv, Told, Closed
  <1>9. ASSUME NEW j \in Conns, j # k PROVE Told(j)'
    <2>1. Told(j) /\ Conn(j[1])' = Conn(j[1]) /\ j[1] \in Clients
      BY <1>1, ConnsAre DEF TInv, Conn
    <2>2. Acked(j)' = Acked(j)
      BY <1>9, <2>1 DEF Acked
    <2>3. Noticed(j)' = Noticed(j) /\ Closed(j)' = Closed(j)
      BY <1>9 DEF Noticed, Closed
    <2>4. QED
      BY <1>1, <1>2, <2>1, <2>2, <2>3 DEF Told
  <1>10. QED
    BY <1>3, <1>4, <1>6, <1>7, <1>8, <1>9 DEF TInv

\* A process that does not drive the panes has not been acknowledged, unless
\* that is what it is about to read.
LEMMA EndT ==
    ASSUME TInv, PInv', AInv', NEW c \in Clients, NEW ending, End(c, ending),
           UNCHANGED <<daemonVars, half>>,
           request' = request \/ (~Tui(Conn(c)) /\ \E q : request' = [request EXCEPT ![Conn(c)] = q])
    PROVE  TInv'
  <1>1. /\ at' = [at EXCEPT ![c] = "ended"] /\ watch' = [watch EXCEPT ![c] = "no"]
        /\ \E n : call' = [call EXCEPT ![c] = n]
        /\ HangUp(c) /\ via' = via
    BY DEF End
  <1>2. CTyped /\ Conn(c) \in Conns /\ Conn(c)[1] = c
    BY ConnsAre DEF TInv, AInv
  <1>3. /\ \A d \in Clients : d # c => at'[d] = at[d] /\ call'[d] = call[d] /\ watch'[d] = watch[d]
        /\ at'[c] = "ended" /\ watch'[c] = "no"
    BY <1>1, <1>2 DEF CTyped
  <1>4. /\ ends'[Conn(c)] \in {"hung", "gone"}
        /\ \A j \in Conns : j # Conn(c) => ends'[j] = ends[j] /\ answers'[j] = answers[j]
    BY <1>1, <1>2, HangsUp
  <1>5. \A j \in Conns : j # Conn(c) => request'[j] = request[j]
    BY <1>2 DEF CTyped
  <1>6. PICK k \in Conns : k = Conn(c)
    BY <1>2
  <1>7. ~Acked(k)'
    BY <1>2, <1>3, <1>6 DEF Acked
  <1>8. QED
    BY <1>1, <1>3, <1>4, <1>5, <1>6, <1>7, ProcessT

LEMMA FailT ==
    ASSUME TInv, PInv', AInv', NEW c \in Clients, NEW name, NEW reading, Fail(c, name, reading),
           at[c] \in {"dialed", "asked"}, UNCHANGED <<daemonVars, half, request>>
    PROVE  TInv'
  <1>1. CASE name = "AttachTUI"
    <2>1. /\ at' = [at EXCEPT ![c] = "driving"] /\ call' = [call EXCEPT ![c] = "none"]
          /\ HangUp(c) /\ UNCHANGED <<via, watch>>
      BY <1>1 DEF Fail
    <2>2. CTyped /\ Conn(c) \in Conns /\ Conn(c)[1] = c
      BY ConnsAre DEF TInv, AInv
    <2>3. /\ \A d \in Clients : d # c => at'[d] = at[d] /\ call'[d] = call[d] /\ watch'[d] = watch[d]
          /\ at'[c] = "driving" /\ watch'[c] = "no"
      BY <2>1, <2>2 DEF CTyped, TInv, Watching
    <2>4. /\ ends'[Conn(c)] \in {"hung", "gone"}
          /\ \A j \in Conns : j # Conn(c) => ends'[j] = ends[j] /\ answers'[j] = answers[j]
      BY <2>1, <2>2, HangsUp
    <2>5. PICK k \in Conns : k = Conn(c)
      BY <2>2
    <2>6. ~Acked(k)'
      BY <2>2, <2>3, <2>5 DEF Acked
    <2>7. \A j \in Conns : request'[j] = request[j]
      OBVIOUS
    <2>8. QED
      BY <2>1, <2>3, <2>4, <2>5, <2>6, <2>7, ProcessT
  <1>2. CASE name # "AttachTUI"
    <2>1. PICK ending : End(c, ending)
      BY <1>2 DEF Fail
    <2>2. QED
      BY <2>1, EndT
  <1>3. QED
    BY <1>1, <1>2

LEMMA HearT ==
    ASSUME TInv, PInv', AInv', NEW c \in Clients, Hear(c)
    PROVE  TInv'
  <1>1. PICK msg : msg = Head(answers[Conn(c)])
    OBVIOUS
  <1>2. PICK reading : reading = IF msg = Garbled THEN "unexpected" ELSE Reading(call[c], msg)
    OBVIOUS
  <1>3. /\ at[c] = "asked" /\ answers[Conn(c)] # << >> /\ UNCHANGED <<daemonVars, half, request>>
        /\ \/ reading = "more" /\ Take(c) /\ UNCHANGED <<ends, clientVars>>
           \/ reading \in {"success", "refused"} /\ IsBatch(call[c]) /\ (AskAgain(c) \/ End(c, "done"))
           \/ reading = "success" /\ call[c] = "AttachTUI" /\ Drive(c, msg)
           \/ reading = "success" /\ call[c] # "AttachTUI" /\ ~IsBatch(call[c]) /\ Proceed(c)
           \/ reading = "refused" /\ ~IsBatch(call[c]) /\ Fail(c, call[c], reading)
           \/ reading = "unexpected" /\ Fail(c, call[c], reading)
    BY <1>1, <1>2 DEF Hear
  <1>4. CTyped /\ Conn(c) \in Conns /\ Conn(c)[1] = c
    BY ConnsAre DEF TInv, AInv
  <1>5. PICK k \in Conns : k = Conn(c)
    BY <1>4
  <1>6. \A j \in Conns : request'[j] = request[j]
    BY <1>3
  <1>7. watch[c] = "no"
    BY <1>3, <1>4 DEF TInv, Watching, CTyped
  <1>8. CASE reading = "more" /\ Take(c) /\ UNCHANGED <<ends, clientVars>>
    <2>1. UNCHANGED <<at, via, call, watch, ends>>
      BY <1>8 DEF clientVars
    <2>2. call[c] # "AttachTUI"
      <3>1. ASSUME call[c] = "AttachTUI" PROVE FALSE
        <4>1. "AttachTUI" \in CallNames
          BY <1>3, <3>1 DEF TInv, AInv, Talks, Asking
        <4>2. Calls["AttachTUI"].reads = "ack"
          BY <4>1, CallRows DEF Relied
        <4>3. QED
          BY <1>2, <1>8, <3>1, <4>2 DEF Reading
      <3>2. QED
        BY <3>1
    <2>3. ~Acked(k)'
      BY <1>3, <1>4, <1>5, <2>1, <2>2 DEF Acked
    <2>4. \A j \in Conns : j # k => answers'[j] = answers[j]
      BY <1>3, <1>4, <1>5, <1>8, Takes1
    <2>5. QED
      BY <1>3, <1>5, <1>6, <1>7, <2>1, <2>3, <2>4, ProcessT DEF Closed
  <1>9. CASE AskAgain(c)
    <2>1. at' = [at EXCEPT ![c] = "dialed"] /\ Take(c) /\ UNCHANGED <<ends, via, call, watch>>
      BY <1>9 DEF AskAgain
    <2>2. /\ at'[c] = "dialed"
          /\ \A d \in Clients : d # c => at'[d] = at[d]
      BY <1>4, <2>1 DEF CTyped
    <2>3. ~Acked(k)'
      BY <1>4, <1>5, <2>2 DEF Acked
    <2>4. \A j \in Conns : j # k => answers'[j] = answers[j]
      BY <1>3, <1>4, <1>5, <2>1, Takes1
    <2>5. QED
      BY <1>3, <1>5, <1>6, <1>7, <2>1, <2>2, <2>3, <2>4, ProcessT DEF Closed
  <1>10. CASE Drive(c, msg) /\ call[c] = "AttachTUI"
    <2>1. /\ at' = [at EXCEPT ![c] = "driving"] /\ call' = [call EXCEPT ![c] = "none"]
          /\ watch' = [watch EXCEPT ![c] = IF msg = OK THEN "acknowledged" ELSE "mistaken"]
          /\ Take(c) /\ UNCHANGED <<ends, via>>
      BY <1>10 DEF Drive
    <2>2. /\ \A d \in Clients : d # c => at'[d] = at[d] /\ call'[d] = call[d] /\ watch'[d] = watch[d]
          /\ at'[c] = "driving" /\ (watch'[c] = "acknowledged" => msg = OK)
      BY <1>4, <2>1 DEF CTyped
    <2>3. /\ \A j \in Conns : j # k => answers'[j] = answers[j]
          /\ Said(answers[k]) \subseteq Said(answers'[k]) \cup {msg} /\ msg \in Said(answers[k])
      BY <1>1, <1>3, <1>4, <1>5, <2>1, Takes1
    <2>4. ASSUME Acked(k)' PROVE Acked(k) /\ (Noticed(k) => Noticed(k)')
      <3>1. msg = OK
        BY <1>4, <1>5, <2>2, <2>4 DEF Acked
      <3>2. Acked(k)
        BY <1>3, <1>4, <1>5, <1>10, <2>3, <3>1 DEF Acked
      <3>3. Noticed(k) => Noticed(k)'
        BY <2>3, <3>1 DEF Noticed, OK, TakenOver
      <3>4. QED
        BY <3>2, <3>3
    <2>5. QED
      BY <1>3, <1>5, <1>6, <2>1, <2>2, <2>3, <2>4, ProcessT DEF Closed
  <1>11. CASE Proceed(c)
    <2>1. HangUp(c) /\ UNCHANGED <<via, watch>>
      BY <1>11 DEF Proceed
    <2>2. PICK p \in {"idle", "ended"} : at' = [at EXCEPT ![c] = p]
      BY <1>11 DEF Proceed
    <2>3. PICK n \in {call[c], "none"} : call' = [call EXCEPT ![c] = n]
      BY <1>11 DEF Proceed
    <2>4. /\ \A d \in Clients : d # c => at'[d] = at[d] /\ call'[d] = call[d] /\ watch'[d] = watch[d]
          /\ at'[c] \in {"idle", "ended"}
      BY <1>4, <2>1, <2>2, <2>3 DEF CTyped
    <2>5. /\ ends'[k] \in {"hung", "gone"}
          /\ \A j \in Conns : j # k => ends'[j] = ends[j] /\ answers'[j] = answers[j]
      BY <1>4, <1>5, <2>1, HangsUp
    <2>6. ~Acked(k)'
      BY <1>4, <1>5, <2>4 DEF Acked
    <2>7. QED
      BY <1>3, <1>5, <1>6, <1>7, <2>1, <2>4, <2>5, <2>6, ProcessT
  <1>12. CASE End(c, "done")
    BY <1>3, <1>12, EndT
  <1>13. CASE Fail(c, call[c], reading)
    BY <1>3, <1>13, FailT
  <1>14. QED
    BY <1>3, <1>8, <1>9, <1>10, <1>11, <1>12, <1>13

LEMMA SayT ==
    ASSUME TInv, PInv', AInv', NEW c \in Clients, NEW name \in NextCalls(c), Say(c, name)
    PROVE  TInv'
  <1>1. /\ at[c] = "dialed" /\ request' = [request EXCEPT ![Conn(c)] = Calls[name].sends]
        /\ UNCHANGED <<daemonVars, half>>
    BY DEF Say
  <1>2. CTyped /\ Conn(c) \in Conns /\ Conn(c)[1] = c
    BY ConnsAre DEF TInv, AInv
  <1>3. PICK k \in Conns : k = Conn(c)
    BY <1>2
  <1>4. ~Tui(k)
    BY <1>1, <1>2, <1>3 DEF Tui
  <1>5. CASE End(c, "done")
    BY <1>1, <1>3, <1>4, <1>5, EndT
  <1>6. CASE /\ at' = [at EXCEPT ![c] = "asked"] /\ call' = [call EXCEPT ![c] = name]
             /\ UNCHANGED <<ends, answers, via, checked, watch, how>>
    <2>1. /\ \A d \in Clients : d # c => at'[d] = at[d] /\ call'[d] = call[d]
          /\ at'[c] = "asked" /\ call'[c] = name
      BY <1>2, <1>6 DEF CTyped
    <2>2. watch[c] = "no"
      BY <1>1, <1>2 DEF TInv, Watching, CTyped
    <2>3. \A j \in Conns : j # k => request'[j] = request[j]
      BY <1>1, <1>2, <1>3 DEF CTyped
    <2>4. name = "AttachTUI" => OK \notin Said(answers[k])
      <3>1. SUFFICES ASSUME name = "AttachTUI" PROVE OK \notin Said(answers[k])
        OBVIOUS
      <3>2. ~IsBatch(call[c])
        BY <1>1, <3>1, NextCallsAre DEF TInv, IsBatch, BatchCalls
      <3>3. Said(answers[k]) \subseteq {Error}
        BY <1>1, <1>3, <3>2 DEF TInv, AInv, Talks, Dialing, Fresh
      <3>4. QED
        BY <3>3 DEF OK, Error
    <2>5. ~Acked(k)'
      BY <1>2, <1>3, <1>6, <2>1, <2>4 DEF Acked
    <2>6. QED
      BY <1>1, <1>3, <1>4, <1>6, <2>1, <2>2, <2>3, <2>5, ProcessT DEF Closed
  <1>7. QED
    BY <1>5, <1>6 DEF Say

LEMMA DialT ==
    ASSUME TInv, PInv', AInv', NEW c \in Clients, Dial(c)
    PROVE  TInv'
  <1>1. PICK k : k = OtherConn(c)
    OBVIOUS
  <1>2. /\ at[c] = "idle" /\ server[k] = "none" /\ via' = [via EXCEPT ![c] = 1 - @] /\ Move(k, "backlog")
        /\ half' = [half EXCEPT ![k] = "no"] /\ request' = [request EXCEPT ![k] = "none"]
        /\ ends' = [ends EXCEPT ![k] = "open"] /\ at' = [at EXCEPT ![c] = "dialed"]
        /\ UNCHANGED <<daemon, registered, old, answers, call, watch>>
    BY <1>1 DEF Dial, OtherConn
  <1>3. /\ CTyped /\ k \in Conns /\ k # Conn(c) /\ k[1] = c
        /\ \A j \in Conns : j[1] \in Clients /\ (j[1] = c => j \in {k, Conn(c)})
    BY <1>1, ConnsAre DEF TInv, AInv
  <1>4. \A d \in Clients : d # c => Conn(d)' = Conn(d) /\ at'[d] = at[d]
    BY <1>2, <1>3 DEF CTyped, Conn
  <1>5. Conn(c)' = k /\ at'[c] = "dialed"
    BY <1>1, <1>2, <1>3 DEF CTyped, Conn, OtherConn
  <1>6. \A j \in Conns : /\ server'[j] = IF j = k THEN "backlog" ELSE server[j]
                         /\ request'[j] = IF j = k THEN "none" ELSE request[j]
                         /\ ends'[j] = IF j = k THEN "open" ELSE ends[j]
                         /\ j # k => half'[j] = half[j]
    <2>1. \A j \in Conns : server'[j] = IF j = k THEN "backlog" ELSE server[j]
      BY <1>2, <1>3, Moves DEF ServerPlaces
    <2>2. \A j \in Conns : request'[j] = IF j = k THEN "none" ELSE request[j]
      BY <1>2, <1>3 DEF CTyped
    <2>3. \A j \in Conns : ends'[j] = (IF j = k THEN "open" ELSE ends[j]) /\ (j # k => half'[j] = half[j])
      BY <1>2, <1>3 DEF CTyped
    <2>4. QED
      BY <2>1, <2>2, <2>3
  <1>7. \A j \in Conns : Claimed(j)' = Claimed(j)
    BY <1>2 DEF Claimed
  <1>8. OldWhere'
    <2>1. \A j \in Conns : old[j] # NoConn <=> server'[j] \in {"notify", "notifying"}
      BY <1>2, <1>6 DEF TInv, OldWhere
    <2>2. QED
      BY <1>2, <2>1 DEF OldWhere
  <1>9. Distinct'
    BY <1>2 DEF TInv, Distinct
  <1>10. Spent' /\ Reachable'
    BY <1>2, <1>6, <1>7 DEF TInv, Spent, Reachable, Closed, TuiPlaces
  <1>11. LeftClosed'
    BY <1>6 DEF TInv, LeftClosed, Closed
  <1>12. watch[c] = "no"
    BY <1>2, <1>3 DEF TInv, Watching, CTyped
  <1>13. Watching'
    BY <1>2, <1>4, <1>12 DEF TInv, Watching
  <1>14. ASSUME NEW j \in Conns, j[1] = c PROVE Told(j)'
    <2>1. ~Acked(j)'
      BY <1>5, <1>14 DEF Acked
    <2>2. QED
      BY <2>1 DEF Told
  <1>15. ASSUME NEW j \in Conns, j[1] # c PROVE Told(j)'
    <2>1. j # k /\ j[1] \in Clients /\ Told(j)
      BY <1>3, <1>15 DEF TInv
    <2>2. Acked(j)' = Acked(j)
      BY <1>2, <1>4, <1>15, <2>1 DEF Acked
    <2>3. Noticed(j)' = Noticed(j) /\ Closed(j)' = Closed(j)
      BY <1>2, <1>6, <2>1 DEF Noticed, Closed
    <2>4. HalfNotice(j) => HalfNotice(j)'
      <3>1. \A i \in Conns : server[i] = "notifying" => server'[i] = "notifying"
        BY <1>2, <1>6
      <3>2. QED
        BY <1>2, <1>6, <2>1, <3>1 DEF HalfNotice
    <2>5. QED
      BY <1>2, <1>6, <1>7, <2>1, <2>2, <2>3, <2>4 DEF Told
  <1>16. QED
    BY <1>8, <1>9, <1>10, <1>11, <1>13, <1>14, <1>15 DEF TInv

LEMMA WatchT ==
    ASSUME TInv, PInv', AInv', NEW c \in Clients, Watch(c)
    PROVE  TInv'
  <1>1. at[c] = "driving" /\ UNCHANGED <<daemonVars, half, request>>
    BY DEF Watch
  <1>2. CTyped /\ Conn(c) \in Conns /\ Conn(c)[1] = c
    BY ConnsAre DEF TInv, AInv
  <1>3. PICK k \in Conns : k = Conn(c)
    BY <1>2
  <1>4. CASE End(c, "done")
    BY <1>1, <1>4, EndT
  <1>5. CASE /\ answers[Conn(c)] # << >> /\ Head(answers[Conn(c)]) # TakenOver
             /\ Take(c) /\ UNCHANGED <<ends, clientVars>>
    <2>1. UNCHANGED <<at, via, call, watch, ends>>
      BY <1>5 DEF clientVars
    <2>2. /\ \A j \in Conns : j # k => answers'[j] = answers[j]
          /\ Said(answers'[k]) \subseteq Said(answers[k])
          /\ Said(answers[k]) \subseteq Said(answers'[k]) \cup {Head(answers[k])}
      BY <1>2, <1>3, <1>5, Takes1
    <2>3. Noticed(k) => Noticed(k)'
      BY <1>3, <1>5, <2>2 DEF Noticed
    <2>4. Acked(k)' => Acked(k)
      BY <1>3, <2>1, <2>2 DEF Acked, Conn
    <2>5. \A j \in Conns : request'[j] = request[j] /\ ends'[j] = ends[j]
      BY <1>1, <2>1
    <2>6. QED
      BY <1>1, <1>3, <2>1, <2>2, <2>3, <2>4, <2>5, ProcessT DEF Closed
  <1>6. CASE StopWatching(c)
    <2>1. UNCHANGED <<ends, answers, at, via, call>> /\ watch' = [watch EXCEPT ![c] = "no"]
      BY <1>6 DEF StopWatching
    <2>2. watch'[c] = "no" /\ \A d \in Clients : d # c => watch'[d] = watch[d]
      BY <1>2, <2>1 DEF CTyped
    <2>3. ~Acked(k)'
      BY <1>1, <1>2, <1>3, <2>1, <2>2 DEF Acked
    <2>4. \A j \in Conns : request'[j] = request[j] /\ ends'[j] = ends[j] /\ answers'[j] = answers[j]
      BY <1>1, <2>1
    <2>5. QED
      BY <1>1, <1>3, <2>1, <2>2, <2>3, <2>4, ProcessT DEF Closed
  <1>7. QED
    BY <1>4, <1>5, <1>6 DEF Watch

LEMMA NoDaemonT ==
    ASSUME TInv, PInv', AInv', NEW c \in Clients, NoDaemon(c)
    PROVE  TInv'
  <1>1. /\ at[c] = "idle" /\ at' = [at EXCEPT ![c] = "ended"]
        /\ UNCHANGED <<half, request, answers, ends, via, call, watch>> /\ UNCHANGED daemonVars
    BY DEF NoDaemon, wireVars
  <1>2. CTyped /\ Conn(c) \in Conns /\ Conn(c)[1] = c
    BY ConnsAre DEF TInv, AInv
  <1>3. PICK k \in Conns : k = Conn(c)
    BY <1>2
  <1>4. /\ at'[c] = "ended" /\ watch'[c] = "no"
        /\ \A d \in Clients : d # c => at'[d] = at[d]
    BY <1>1, <1>2 DEF CTyped, TInv, Watching
  <1>5. ~Acked(k)'
    BY <1>2, <1>3, <1>4 DEF Acked
  <1>6. \A j \in Conns : request'[j] = request[j] /\ ends'[j] = ends[j] /\ answers'[j] = answers[j]
    BY <1>1
  <1>7. QED
    BY <1>1, <1>3, <1>4, <1>5, <1>6, ProcessT DEF Closed

LEMMA ClientT == \A c \in Clients : TInv /\ (Listens(c) \/ User(c)) => TInv'
  <1> SUFFICES ASSUME NEW c \in Clients, TInv, Listens(c) \/ User(c) PROVE TInv'
    OBVIOUS
  <1>1. PInv' /\ AInv'
    BY ClientMoves, ClientA DEF TInv
  <1>2. CASE HearNothing(c)
    BY <1>1, <1>2, FailT DEF HearNothing
  <1>3. ASSUME NEW name \in NextCalls(c), Say(c, name) \/ SayToNobody(c, name) PROVE TInv'
    BY <1>1, <1>3, SayT, FailT DEF SayToNobody
  <1>4. CASE Quit(c) \/ Interrupt(c)
    BY <1>1, <1>4, EndT DEF Quit, Interrupt
  <1>5. QED
    BY <1>1, <1>2, <1>3, <1>4, HearT, WatchT, NoDaemonT, DialT DEF Listens, User, Speaks

(* A TUI that has its acknowledgement and is not the registered one finds the
   notice in its connection, or the goroutine that displaced it has yet to
   write it; the notice is not torn, the two writers of that connection take
   turns (server.go:280-315, client.go AttachTUI, tui.go:176). *)
THEOREM DisplacedAlwaysTold == Spec => []DisplacedIsTold
  <1>1. TInv /\ [Next]_vars => TInv'
    <2>1. ASSUME TInv, UNCHANGED vars PROVE TInv'
      <3>1. /\ UNCHANGED <<daemon, registered, server, old, half, request, answers, ends, at, via, call, watch>>
            /\ PInv' /\ AInv'
        BY <2>1, CountNext, AStutters DEF vars, daemonVars, wireVars, clientVars, TInv
      <3>2. \A k \in Conns : Told(k)'
        BY <2>1, <3>1 DEF TInv, Told, Acked, Conn, Claimed, Noticed, HalfNotice, Closed
      <3>3. OldWhere' /\ Distinct' /\ LeftClosed' /\ Watching'
        BY <2>1, <3>1 DEF TInv, OldWhere, Distinct, LeftClosed, Watching, Closed
      <3>4. Spent' /\ Reachable'
        BY <2>1, <3>1 DEF TInv, Spent, Reachable, Claimed, Closed
      <3>5. QED
        BY <3>1, <3>2, <3>3, <3>4 DEF TInv
    <2>2. QED
      BY <2>1, GoroutineT, ClientT, ExitT DEF Next
  <1>2. TInv => DisplacedIsTold
    <2> SUFFICES ASSUME TInv, NEW c \in Clients,
                        at[c] = "driving", watch[c] = "acknowledged",
                        daemon # "down", registered # Conn(c)
                 PROVE  \/ \E i \in DOMAIN answers[Conn(c)] : answers[Conn(c)][i] = TakenOver
                        \/ \E k \in Conns : server[k] \in {"notify", "notifying"} /\ old[k] = Conn(c)
      BY DEF DisplacedIsTold
    <2>1. Conn(c) \in Conns /\ Conn(c)[1] = c /\ NoConn \notin Conns
      BY ConnsAre DEF TInv, AInv
    <2>2. Acked(Conn(c))
      BY <2>1 DEF Acked
    <2>3. Claimed(Conn(c)) \/ Noticed(Conn(c))
      BY <2>1, <2>2 DEF TInv, Told
    <2>4. ASSUME NEW k \in Conns, old[k] = Conn(c) PROVE server[k] \in {"notify", "notifying"}
      BY <2>1, <2>4 DEF TInv, OldWhere
    <2>5. QED
      BY <2>3, <2>4 DEF Claimed, Noticed, Said
  <1>3. QED
    BY TInit, <1>1, <1>2, PTL DEF Spec

=============================================================================
