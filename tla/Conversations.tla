---------------------------- MODULE Conversations ----------------------------
(***************************************************************************)
(* Connections between `ru' processes and the daemon: the accept loop and  *)
(* its cap, one goroutine per connection, calls and their answers, waiting *)
(* for a job, and the registration of the one interactive TUI              *)
(* (internal/server/server.go, internal/client, internal/tui/tui.go).      *)
(*                                                                         *)
(* A process has one call at a time, each on a connection of its own, so   *)
(* its connections take turns on two places; the daemon notices the end of *)
(* one while the next is opened.                                           *)
(***************************************************************************)
EXTENDS Protocol, Integers, Sequences, FiniteSets

CONSTANTS
    Clients,      \* the `ru' processes
    Repertoire,   \* the calls each of them makes
    MaxConns      \* max_conn; 0 is no cap

ASSUME ConversationsAssumption ==
    /\ IsFiniteSet(Clients) /\ "none" \notin Clients
    /\ Repertoire \in [Clients -> SUBSET CallNames]
    /\ MaxConns \in Nat

Conns == Clients \X {0, 1}
NoConn == <<"none", 0>>

VARIABLES
    daemon,       \* "stopping": Shutdown has begun
    active,       \* s.activeConns
    registered,   \* s.tuiConn
    server,       \* where the goroutine of each connection is
    old,          \* the local variable of that name in handleTUIAttach
    half,         \* messages that are half written: two writers tear the stream
    request,      \* the message under way to the daemon
    answers,      \* the messages under way to the client
    ends,         \* which end of a connection is closed
    at,           \* where each process is
    via,          \* the connection its current or last call goes over
    checked,      \* EnsureServer has found the daemon's version to be ours
    call,         \* the call under way
    watch,        \* how a TUI listens to its registration
    how           \* how a process ended

daemonVars == <<daemon, active, registered, server, old>>
wireVars == <<half, request, answers, ends>>
clientVars == <<at, via, checked, call, watch, how>>
vars == <<daemonVars, wireVars, clientVars>>

OK == [type |-> "ActionOK", carries |-> "nothing"]
Result == [type |-> "WaitJobOK", carries |-> "Result"]
TakenOver == [type |-> "TUITakenOver", carries |-> "nothing"]
Garbled == [type |-> "garbled", carries |-> "garbled"]

ServerPlaces == {"none", "backlog", "turning", "serving", "waiting", "waited", "notify",
                 "notifying", "ack", "acking", "parked", "leaving"}
ClientPlaces == {"idle", "dialed", "asked", "driving", "ended"}
Endings == {"none", "done", "failed", "unrecognised", "unexpected"}

TypeOK ==
    /\ daemon \in {"up", "stopping", "down"}
    /\ active \in 0..Cardinality(Conns)
    /\ registered \in Conns \cup {NoConn}
    /\ server \in [Conns -> ServerPlaces]
    /\ old \in [Conns -> Conns \cup {NoConn}]
    /\ half \in [Conns -> {"no", "one", "torn"}]
    /\ ends \in [Conns -> {"open", "cut", "hung", "gone"}]
    /\ at \in [Clients -> ClientPlaces]
    /\ via \in [Clients -> {0, 1}]
    /\ checked \in [Clients -> BOOLEAN]
    /\ call \in [Clients -> CallNames \cup {"none"}]
    /\ watch \in [Clients -> {"no", "acknowledged", "mistaken"}]
    /\ how \in [Clients -> Endings]

Init ==
    /\ daemon = "up" /\ active = 0 /\ registered = NoConn
    /\ server = [k \in Conns |-> "none"]
    /\ old = [k \in Conns |-> NoConn]
    /\ half = [k \in Conns |-> "no"]
    /\ request = [k \in Conns |-> "none"]
    /\ answers = [k \in Conns |-> << >>]
    /\ ends = [k \in Conns |-> "gone"]
    /\ at = [c \in Clients |-> "idle"]
    /\ via = [c \in Clients |-> 0]
    /\ checked = [c \in Clients |-> FALSE]
    /\ call = [c \in Clients |-> "none"]
    /\ watch = [c \in Clients |-> "no"]
    /\ how = [c \in Clients |-> "none"]

Conn(c) == <<c, via[c]>>
Closed(k) == ends[k] # "open"
Cut(k) == ends[k] = "cut"
HoldsPlace(k) == server[k] \in {"serving", "leaving"}

-----------------------------------------------------------------------------
\* The accept loop.

Accept(k) ==
    /\ daemon # "down" /\ server[k] = "backlog"
    /\ IF MaxConns > 0 /\ active >= MaxConns
       THEN server' = [server EXCEPT ![k] = "turning"] /\ active' = active
       ELSE server' = [server EXCEPT ![k] = "serving"] /\ active' = active + 1
    /\ UNCHANGED <<daemon, registered, old, wireVars, clientVars>>

Move(k, place) == server' = [server EXCEPT ![k] = place]

\* Nothing arrives where an end is closed.
Put(k, msgs) == answers' = [answers EXCEPT ![k] = IF Closed(k) THEN @ ELSE @ \o msgs]

\* The daemon closes its end.
Shut(k) ==
    ends' = [ends EXCEPT ![k] = CASE @ = "open" -> "cut" [] @ = "hung" -> "gone" [] OTHER -> @]

\* The connection is turned away without reading what was asked.
TurnAway(k) ==
    /\ server[k] = "turning"
    /\ Put(k, <<Error>>)
    /\ Shut(k)
    /\ Move(k, "none")
    /\ UNCHANGED <<daemon, active, registered, old, half, request, clientVars>>

\* handleConnection returns: the place is given back.
GiveBack(k) ==
    /\ active' = active - 1
    /\ Move(k, "none")
    /\ Shut(k)

\* Recv fails: the client has closed and everything it sent was read.
HungUp(k) ==
    /\ server[k] = "serving"
    /\ request[k] = "none" /\ Closed(k)
    /\ GiveBack(k)
    /\ UNCHANGED <<daemon, registered, old, half, request, answers, clientVars>>

-----------------------------------------------------------------------------
\* dispatch.

Takes(k, kind) ==
    /\ server[k] = "serving"
    /\ request[k] # "none" /\ Dispatch(request[k]) = kind
    /\ request' = [request EXCEPT ![k] = "none"]

\* Mutant of Serve: a refusal is not said.
ServeSilently(k) ==
    /\ Takes(k, "answer")
    /\ \E reply \in Replies(request[k]) : Put(k, IF reply = <<Error>> THEN << >> ELSE reply)
    /\ IF Closed(k) THEN GiveBack(k) ELSE UNCHANGED <<active, server, ends>>
    /\ UNCHANGED <<daemon, registered, old, half, clientVars>>

\* A handler that answers at once; when the answer cannot be sent, the
\* connection is closed.
Serve(k) ==
    /\ Takes(k, "answer")
    /\ \E reply \in Replies(request[k]) : Put(k, reply)
    /\ IF Closed(k) THEN GiveBack(k) ELSE UNCHANGED <<active, server, ends>>
    /\ UNCHANGED <<daemon, registered, old, half, clientVars>>

\* The waiting connection does not count against the cap.
Wait(k) ==
    /\ Takes(k, "wait")
    /\ active' = active - 1
    /\ Move(k, "waiting")
    /\ UNCHANGED <<daemon, registered, old, half, answers, ends, clientVars>>

JobEnds(k) ==
    /\ server[k] = "waiting"
    /\ Put(k, <<Result>>)
    /\ Move(k, "waited")
    /\ UNCHANGED <<daemon, active, registered, old, half, request, ends, clientVars>>

\* Mutant of WaitReturns: the place is not taken again before it is given back.
WaitForgets(k) ==
    /\ server[k] = "waited"
    /\ Move(k, "serving")
    /\ UNCHANGED <<daemon, active, registered, old, wireVars, clientVars>>

WaitReturns(k) ==
    /\ server[k] = "waited"
    /\ active' = active + 1
    /\ Move(k, "serving")
    /\ UNCHANGED <<daemon, registered, old, wireVars, clientVars>>

Shutdown(k) ==
    /\ Takes(k, "shutdown")
    /\ daemon' = "stopping"
    /\ GiveBack(k)
    /\ UNCHANGED <<registered, old, half, answers, clientVars>>

\* The listener is closed last; then Run returns and the process is gone.
Exit ==
    /\ daemon = "stopping"
    /\ daemon' = "down"
    /\ active' = 0 /\ registered' = NoConn
    /\ server' = [k \in Conns |-> "none"]
    /\ old' = [k \in Conns |-> NoConn]
    /\ ends' = [k \in Conns |-> IF ends[k] \in {"open", "cut"} THEN "cut" ELSE "gone"]
    /\ UNCHANGED <<half, request, answers, clientVars>>

-----------------------------------------------------------------------------
\* handleTUIAttach.

\* Send is two writes.  A second writer in between tears the stream for good.
BeginSend(k) ==
    half' = [half EXCEPT ![k] = CASE Closed(k) -> @ [] ~Closed(k) /\ @ = "no" -> "one" [] OTHER -> "torn"]

EndSend(k, msg) ==
    /\ Put(k, <<IF half[k] = "torn" THEN Garbled ELSE msg>>)
    /\ half' = [half EXCEPT ![k] = IF @ = "one" THEN "no" ELSE @]

Attach(k) ==
    /\ Takes(k, "attach")
    /\ active' = active - 1
    /\ old' = [old EXCEPT ![k] = registered]
    /\ registered' = k
    /\ Move(k, IF registered = NoConn THEN "ack" ELSE "notify")
    /\ UNCHANGED <<daemon, half, answers, ends, clientVars>>

BeginNotice(k) ==
    /\ server[k] = "notify"
    /\ BeginSend(old[k])
    /\ Move(k, "notifying")
    /\ UNCHANGED <<daemon, active, registered, old, request, answers, ends, clientVars>>

\* Mutant of EndNotice: the old TUI is only cut off.
EndWithoutNotice(k) ==
    /\ server[k] = "notifying"
    /\ Shut(old[k])
    /\ old' = [old EXCEPT ![k] = NoConn]
    /\ Move(k, "ack")
    /\ UNCHANGED <<daemon, active, registered, half, request, answers, clientVars>>

EndNotice(k) ==
    /\ server[k] = "notifying"
    /\ EndSend(old[k], TakenOver)
    /\ Shut(old[k])
    /\ old' = [old EXCEPT ![k] = NoConn]
    /\ Move(k, "ack")
    /\ UNCHANGED <<daemon, active, registered, request, clientVars>>

BeginAck(k) ==
    /\ server[k] = "ack" /\ ~Closed(k)
    /\ BeginSend(k)
    /\ Move(k, "acking")
    /\ UNCHANGED <<daemon, active, registered, old, request, answers, ends, clientVars>>

EndAck(k) ==
    /\ server[k] = "acking" /\ ~Closed(k)
    /\ EndSend(k, OK)
    /\ Move(k, "parked")
    /\ UNCHANGED <<daemon, active, registered, old, request, ends, clientVars>>

\* The acknowledgement cannot be sent: the registration stays as it is.
AckFails(k) ==
    /\ server[k] \in {"ack", "acking"} /\ Closed(k)
    /\ active' = active + 1
    /\ Move(k, "leaving")
    /\ UNCHANGED <<daemon, registered, old, wireVars, clientVars>>

\* The TUI is gone, or a newer one has displaced it.
Unpark(k) ==
    /\ server[k] = "parked" /\ Closed(k)
    /\ registered' = IF registered = k THEN NoConn ELSE registered
    /\ active' = active + 1
    /\ Move(k, "leaving")
    /\ UNCHANGED <<daemon, old, wireVars, clientVars>>

Leave(k) ==
    /\ server[k] = "leaving"
    /\ GiveBack(k)
    /\ UNCHANGED <<daemon, registered, old, half, request, answers, clientVars>>

Goroutine(k) ==
    \/ TurnAway(k) \/ HungUp(k) \/ Serve(k) \/ Wait(k) \/ WaitReturns(k) \/ Shutdown(k)
    \/ Attach(k) \/ BeginNotice(k) \/ EndNotice(k) \/ BeginAck(k) \/ EndAck(k)
    \/ AckFails(k) \/ Unpark(k) \/ Leave(k)

-----------------------------------------------------------------------------
\* A `ru' process.

\* EnsureServer starts a daemon when none answers; not here.
NoDaemon(c) ==
    /\ at[c] = "idle" /\ daemon = "down"
    /\ at' = [at EXCEPT ![c] = "ended"]
    /\ how' = [how EXCEPT ![c] = "failed"]
    /\ UNCHANGED <<daemonVars, wireVars, via, checked, call, watch>>

Dial(c) ==
    LET k == <<c, 1 - via[c]>> IN
    /\ at[c] = "idle" /\ daemon # "down"
    /\ server[k] = "none"
    /\ via' = [via EXCEPT ![c] = 1 - @]
    /\ Move(k, "backlog")
    /\ half' = [half EXCEPT ![k] = "no"]
    /\ request' = [request EXCEPT ![k] = "none"]
    /\ ends' = [ends EXCEPT ![k] = "open"]
    /\ at' = [at EXCEPT ![c] = "dialed"]
    /\ UNCHANGED <<daemon, active, registered, old, answers, checked, call, watch, how>>

\* The client closes its end, and reads no more.
HangUp(c) ==
    LET k == Conn(c) IN
    /\ ends' = [ends EXCEPT ![k] = IF @ = "open" THEN "hung" ELSE "gone"]
    /\ answers' = [answers EXCEPT ![k] = << >>]

\* The process ends, and its connection with it.
End(c, ending) ==
    /\ at' = [at EXCEPT ![c] = "ended"]
    /\ how' = [how EXCEPT ![c] = ending]
    /\ call' = [call EXCEPT ![c] = IF ending = "unexpected" THEN @ ELSE "none"]
    /\ watch' = [watch EXCEPT ![c] = "no"]
    /\ HangUp(c)
    /\ UNCHANGED <<via, checked>>

\* What an error makes of a process.  run() ignores why a TUI could not be
\* registered and starts it all the same, with nobody listening; a version
\* check that fails without an answer has met something unrecognised.
Fail(c, name, reading) ==
    IF name = "AttachTUI"
    THEN /\ at' = [at EXCEPT ![c] = "driving"]
         /\ call' = [call EXCEPT ![c] = "none"]
         /\ HangUp(c)
         /\ UNCHANGED <<via, checked, watch, how>>
    ELSE End(c, IF ~checked[c] /\ reading # "refused" THEN "unrecognised"
                ELSE IF reading = "unexpected" THEN "unexpected" ELSE "failed")

\* What a command calls next when a call has succeeded: `-d', -k, -i and the
\* like without an ID ask for the last one, `ru -f' waits for what it has
\* submitted, `ru upgrade' looks around before it ends an idle daemon, and a
\* batch asks again for its next ID.  Most commands make one call.
Follows(c, name) ==
    Repertoire[c] \cap
    CASE name = "none" -> CallNames
      [] name = "LastID" -> ByID
      [] name = "SubmitJob" -> {"WaitJob"}
      [] name = "CountRunning" -> {"ListTerminals"}
      [] name = "ListTerminals" -> {"KillServer"}
      [] IsBatch(name) -> {name}
      [] OTHER -> {}

\* Everything starts with the version check, except `ru -K'.
NextCalls(c) ==
    IF checked[c] THEN Follows(c, call[c])
    ELSE {"GetVersion"} \cup (Repertoire[c] \cap {"KillServer"})

Say(c, name) ==
    LET k == Conn(c) IN
    /\ at[c] = "dialed" /\ name \in NextCalls(c) /\ ~Cut(k)
    /\ request' = [request EXCEPT ![k] = Calls[name].sends]
    /\ IF Calls[name].reads = "nothing"
       THEN End(c, "done")
       ELSE /\ at' = [at EXCEPT ![c] = "asked"]
            /\ call' = [call EXCEPT ![c] = name]
            /\ UNCHANGED <<ends, answers, via, checked, watch, how>>
    /\ UNCHANGED <<daemonVars, half>>

\* Writing to a connection the daemon has closed fails at once, whatever the
\* daemon has written to it.
SayToNobody(c, name) ==
    /\ at[c] = "dialed" /\ name \in NextCalls(c) /\ Cut(Conn(c))
    /\ Fail(c, name, "broken")
    /\ UNCHANGED <<daemonVars, half, request>>

\* The call has succeeded: the process goes on to what follows, or is done.
Proceed(c) ==
    /\ checked' = [checked EXCEPT ![c] = TRUE]
    /\ \/ /\ ~checked[c] \/ Follows(c, call[c]) # {}
          /\ at' = [at EXCEPT ![c] = "idle"]
          /\ call' = [call EXCEPT ![c] = IF checked[c] THEN @ ELSE "none"]
          /\ how' = how
       \/ /\ checked[c]
          /\ at' = [at EXCEPT ![c] = "ended"]
          /\ call' = [call EXCEPT ![c] = "none"]
          /\ how' = [how EXCEPT ![c] = "done"]
    /\ HangUp(c)
    /\ UNCHANGED <<via, watch>>

\* What is left to read on the connection once a message was taken from it.
Take(c) == answers' = [answers EXCEPT ![Conn(c)] = Tail(@)]

\* batchByID: the next ID over the same connection, whatever became of the
\* last one.
AskAgain(c) ==
    /\ at' = [at EXCEPT ![c] = "dialed"]
    /\ Take(c)
    /\ UNCHANGED <<ends, via, checked, call, watch, how>>

\* AttachTUI takes any message for the acknowledgement.
Drive(c, msg) ==
    /\ at' = [at EXCEPT ![c] = "driving"]
    /\ call' = [call EXCEPT ![c] = "none"]
    /\ watch' = [watch EXCEPT ![c] = IF msg = OK THEN "acknowledged" ELSE "mistaken"]
    /\ Take(c)
    /\ UNCHANGED <<ends, via, checked, how>>

Hear(c) ==
    LET msg == Head(answers[Conn(c)])
        reading == IF msg = Garbled THEN "unexpected" ELSE Reading(call[c], msg)
    IN
    /\ at[c] = "asked" /\ answers[Conn(c)] # << >>
    /\ \/ reading = "more" /\ Take(c) /\ UNCHANGED <<ends, clientVars>>
       \/ reading \in {"success", "refused"} /\ IsBatch(call[c]) /\ (AskAgain(c) \/ End(c, "done"))
       \/ reading = "success" /\ call[c] = "AttachTUI" /\ Drive(c, msg)
       \/ reading = "success" /\ call[c] # "AttachTUI" /\ ~IsBatch(call[c]) /\ Proceed(c)
       \/ reading = "refused" /\ ~IsBatch(call[c]) /\ Fail(c, call[c], reading)
       \/ reading = "unexpected" /\ Fail(c, call[c], reading)
    /\ UNCHANGED <<daemonVars, half, request>>

HearNothing(c) ==
    /\ at[c] = "asked" /\ answers[Conn(c)] = << >> /\ Cut(Conn(c))
    /\ Fail(c, call[c], "broken")
    /\ UNCHANGED <<daemonVars, half, request>>

StopWatching(c) ==
    /\ watch' = [watch EXCEPT ![c] = "no"]
    /\ UNCHANGED <<ends, answers, at, via, checked, call, how>>

\* watchTUITakeover: the notice ends the TUI, the end of the connection only
\* ends the watch.
Watch(c) ==
    LET left == answers[Conn(c)] IN
    /\ at[c] = "driving" /\ watch[c] # "no"
    /\ \/ /\ left # << >>
          /\ IF Head(left) = TakenOver THEN End(c, "done")
             ELSE Take(c) /\ UNCHANGED <<ends, clientVars>>
       \/ left = << >> /\ Cut(Conn(c)) /\ StopWatching(c)
    /\ UNCHANGED <<daemonVars, half, request>>

Quit(c) ==
    /\ at[c] = "driving"
    /\ End(c, "done")
    /\ UNCHANGED <<daemonVars, half, request>>

Interrupt(c) ==
    /\ at[c] \in {"dialed", "asked"}
    /\ End(c, "failed")
    /\ UNCHANGED <<daemonVars, half, request>>

Listens(c) == Hear(c) \/ HearNothing(c) \/ Watch(c)

Speaks(c) == \E name \in NextCalls(c) : Say(c, name) \/ SayToNobody(c, name)

User(c) == NoDaemon(c) \/ Dial(c) \/ Speaks(c) \/ Quit(c) \/ Interrupt(c)

-----------------------------------------------------------------------------
Next ==
    \/ \E k \in Conns : Accept(k) \/ Goroutine(k) \/ JobEnds(k)
    \/ \E c \in Clients : Listens(c) \/ User(c)
    \/ Exit

Spec == Init /\ [][Next]_vars

\* Goroutines and processes run, and jobs end; nobody has to ask anything.
FairSpec ==
    /\ Spec
    /\ \A k \in Conns : WF_vars(Accept(k)) /\ WF_vars(Goroutine(k)) /\ WF_vars(JobEnds(k))
    /\ \A c \in Clients : WF_vars(Listens(c))
    /\ WF_vars(Exit)

-----------------------------------------------------------------------------
\* The counter the cap is compared with is the number of connections that are
\* served and neither wait for a job nor belong to a TUI, whatever interrupts,
\* takeovers and failed answers come in between (server.go:103, 117, 281;
\* handlers_job.go:185): no place is lost and none given back twice.
PlacesKept == daemon # "down" => active = Cardinality({k \in Conns : HoldsPlace(k)})

\* Every call of the library reads the answer of its own request as what the
\* handler means by it; only SubmitJob does not understand being turned away.
AnswersUnderstood == \A c \in Clients : how[c] = "unexpected" => call[c] = "SubmitJob"

\* A TUI that was acknowledged and is no longer the registered one has the
\* notice in its connection, or the displacing goroutine has yet to send it
\* (server.go:289, tui.go:176).
DisplacedIsTold ==
    \A c \in Clients :
        /\ at[c] = "driving" /\ watch[c] = "acknowledged"
        /\ daemon # "down" /\ registered # Conn(c)
        => \/ \E i \in DOMAIN answers[Conn(c)] : answers[Conn(c)][i] = TakenOver
           \/ \E k \in Conns : server[k] \in {"notify", "notifying"} /\ old[k] = Conn(c)

\* A call that was sent returns: with an answer, or because the daemon is gone.
EveryCallReturns == \A c \in Clients : at[c] = "asked" ~> at[c] # "asked"

-----------------------------------------------------------------------------
\* "so at most one TUI drives the daemon's panes at a time" (server.go:278):
\* of two TUIs on the screen, one will find the notice in its connection.  Not
\* one that took the notice for its acknowledgement.
OneDriver ==
    \A c, d \in Clients :
        /\ c # d /\ daemon = "up"
        /\ at[c] = "driving" /\ at[d] = "driving"
        => \E e \in {c, d} :
              /\ watch[e] # "no"
              /\ \/ \E i \in DOMAIN answers[Conn(e)] : answers[Conn(e)][i] = TakenOver
                 \/ \E k \in Conns : server[k] \in {"notify", "notifying"} /\ old[k] = Conn(e)

\* "Tell the client why instead of silently closing" (server.go:104): nobody
\* takes a daemon that is up for something unrecognised.  A client does that is
\* turned away before it has written its version check.
OwnDaemonRecognised == \A c \in Clients : daemon = "up" => how[c] # "unrecognised"
=============================================================================
