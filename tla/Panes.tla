-------------------------------- MODULE Panes --------------------------------
(***************************************************************************)
(* The panes of one session: shells that live in the daemon (terminal.go   *)
(* of the server) and the TUI that shows them (panes.go and terminal.go of *)
(* the TUI).  The daemon registers shells by pane name; a reader of the    *)
(* TUI attaches to each by name, over a connection of its own; and after a *)
(* change the TUI tells the daemon, from a goroutine nobody waits for,     *)
(* which panes its layout has left.                                        *)
(*                                                                         *)
(* A layout is reduced to its panes, output to the channel it is sent      *)
(* through.  Shells and connections are pools: an entry nobody refers to   *)
(* any more is used again.  Names are never used again.                    *)
(***************************************************************************)
EXTENDS Integers, FiniteSets

CONSTANTS
    MaxPanes,   \* bound: the names handed out
    MaxShells,  \* bound: shells at a time
    MaxConns,   \* bound: connections at a time
    MaxSent,    \* bound: layouts on their way at a time
    MaxStarts   \* bound: how often a TUI opens the session

ASSUME PanesAssumption ==
    {MaxPanes, MaxShells, MaxConns, MaxSent, MaxStarts} \subseteq Nat \ {0}

Pane == 1..MaxPanes
Shell == 1..MaxShells
Conn == 1..MaxConns

VARIABLES
    nextName,  \* TerminalManager.nextName
    table,     \* TerminalManager.sessions: the shell of a pane, or 0
    layout,    \* TerminalManager.layouts: the panes of the stored blob
    shellAt,   \* life of a shell
    paneOf,    \* TerminalPTY.pane
    subs,      \* TerminalPTY.clients: the connections its output is sent to
    at,        \* where the handler of a connection is, "exit": it sent the exit
    pane,      \* the pane a connection asked for
    got,       \* the shell its handler holds, or 0
    cut,       \* connections the TUI has closed
    view,      \* the panes on the TUI's screen
    link,      \* the connection the reader of a pane is on, 0: there is none
    doing,     \* what the TUI's Update is in the middle of
    sent,      \* layouts on their way to the daemon (equal ones are one)
    starts     \* how often a TUI has opened the session

registry == <<nextName, table, layout>>
shells == <<shellAt, paneOf, subs>>
conns == <<at, pane, got, cut>>
tui == <<view, link, doing, sent, starts>>
vars == <<registry, shells, conns, tui>>

\* Activities of Update: with a pane, or with none.
Off == <<"off", 0>>      \* no TUI runs, or it has not opened the session
Idle == <<"idle", 0>>
Fresh == <<"fresh", 0>>  \* opens the session, and found nothing to restore

Life == {"none", "starting", "live", "ending", "done"}
Place == {"look", "register", "attach", "open", "exit", "closed"}

TypeOK ==
    /\ nextName \in 0..MaxPanes
    /\ table \in [Pane -> 0..MaxShells]
    /\ layout \subseteq Pane
    /\ shellAt \in [Shell -> Life]
    /\ paneOf \in [Shell -> Pane]
    /\ subs \in [Shell -> SUBSET Conn]
    /\ at \in [Conn -> Place]
    /\ pane \in [Conn -> Pane]
    /\ got \in [Conn -> 0..MaxShells]
    /\ cut \subseteq Conn
    /\ view \subseteq Pane
    /\ link \in [Pane -> 0..MaxConns]
    /\ doing \in {Off, Idle, Fresh} \cup ({"opening", "closing"} \X Pane)
    /\ sent \subseteq SUBSET Pane
    /\ starts \in 0..MaxStarts

Init ==
    /\ nextName = 0
    /\ table = [p \in Pane |-> 0]
    /\ layout = {}
    /\ shellAt = [s \in Shell |-> "none"]
    /\ paneOf = [s \in Shell |-> 1]
    /\ subs = [s \in Shell |-> {}]
    /\ at = [c \in Conn |-> "closed"]
    /\ pane = [c \in Conn |-> 1]
    /\ got = [c \in Conn |-> 0]
    /\ cut = {}
    /\ view = {}
    /\ link = [p \in Pane |-> 0]
    /\ doing = Off
    /\ sent = {}
    /\ starts = 0

\* isDone, true of 0 (no shell) too.
Done(s) == s \notin {x \in Shell : shellAt[x] \in {"starting", "live", "ending"}}

\* The panes ListLayout calls alive.
Alive == {p \in Pane : ~Done(table[p])}

\* What the pools can give: an entry that was never used, or that neither the
\* daemon nor the TUI, but for the readers of P, can reach any more.
FreeShell ==
    {s \in Shell : shellAt[s] = "none" /\ \A c \in Conn : got[c] # s}
FreeConn(P) ==
    {c \in Conn : at[c] = "closed" /\ \A p \in Pane \ P : link[p] # c}
Lowest(S) == CHOOSE x \in S : \A y \in S : x <= y

\* startTerminalPTY.  Which free entry is taken makes no difference.
Born(s, p, life) ==
    /\ s = Lowest(FreeShell)
    /\ shellAt' = [shellAt EXCEPT ![s] = life]
    /\ paneOf' = [paneOf EXCEPT ![s] = p]

\* A shell, and the handler of a connection, are as new when they are over.
Reaped(s) ==
    /\ shellAt' = [shellAt EXCEPT ![s] = "none"]
    /\ paneOf' = [paneOf EXCEPT ![s] = 1]
Returned(c, last) ==
    /\ at' = [at EXCEPT ![c] = last]
    /\ pane' = [pane EXCEPT ![c] = 1]
    /\ got' = [got EXCEPT ![c] = 0]
    /\ cut' = cut \ {c}

-----------------------------------------------------------------------------
\* The daemon: GetOrCreate, by the handler of connection c.  It looks under the
\* lock, starts a shell without it (which nobody sees, so it is the same step),
\* and looks again.

Look(c) ==
    /\ at[c] = "look"
    /\ \/ /\ ~Done(table[pane[c]])
          /\ at' = [at EXCEPT ![c] = "attach"]
          /\ got' = [got EXCEPT ![c] = table[pane[c]]]
          /\ UNCHANGED <<table, shellAt, paneOf>>
       \/ /\ Done(table[pane[c]])
          /\ table' = [table EXCEPT ![pane[c]] = 0]
          /\ \E s \in FreeShell : Born(s, pane[c], "starting") /\ got' = [got EXCEPT ![c] = s]
          /\ at' = [at EXCEPT ![c] = "register"]
    /\ UNCHANGED <<nextName, layout, subs, pane, cut, tui>>

\* Mutant: the second look is left out.
RegisterBlindly(c) ==
    /\ at[c] = "register"
    /\ table' = [table EXCEPT ![pane[c]] = got[c]]
    /\ shellAt' = [shellAt EXCEPT ![got[c]] = "live"]
    /\ at' = [at EXCEPT ![c] = "attach"]
    /\ UNCHANGED <<nextName, layout, paneOf, subs, pane, got, cut, tui>>

\* The shell is registered, unless another handler was first: then it is
\* killed and reaped on the spot (discard).
Register(c) ==
    /\ at[c] = "register"
    /\ LET other == table[pane[c]] IN
       \/ /\ Done(other)
          /\ table' = [table EXCEPT ![pane[c]] = got[c]]
          /\ shellAt' = [shellAt EXCEPT ![got[c]] = "live"]
          /\ UNCHANGED <<paneOf, got>>
       \/ /\ ~Done(other)
          /\ Reaped(got[c])
          /\ got' = [got EXCEPT ![c] = other]
          /\ UNCHANGED table
    /\ at' = [at EXCEPT ![c] = "attach"]
    /\ UNCHANGED <<nextName, layout, subs, pane, cut, tui>>

\* Mutant: Attach subscribes to a shell that is done.
SubscribeBlindly(c) ==
    /\ at[c] = "attach"
    /\ at' = [at EXCEPT ![c] = "open"]
    /\ subs' = [subs EXCEPT ![got[c]] = @ \cup {c}]
    /\ UNCHANGED <<registry, shellAt, paneOf, pane, got, cut, tui>>

\* Attach: the channel of a shell that is done is closed at once.
Subscribe(c) ==
    /\ at[c] = "attach"
    /\ at' = [at EXCEPT ![c] = "open"]
    /\ subs' = [subs EXCEPT ![got[c]] = IF Done(got[c]) THEN @ ELSE @ \cup {c}]
    /\ UNCHANGED <<registry, shellAt, paneOf, pane, got, cut, tui>>

\* The handler finds its channel closed: it tells an exit of the shell from a
\* disconnection, and says so if the other end is still there.
Relay(c) ==
    /\ at[c] = "open"
    /\ c \notin subs[got[c]]
    /\ Returned(c, IF Done(got[c]) /\ c \notin cut THEN "exit" ELSE "closed")
    /\ UNCHANGED <<registry, shells, tui>>

\* The goroutine of the handler that reads finds the connection closed, or a
\* send fails, and the handler detaches.
Gone(c) ==
    /\ at[c] = "open"
    /\ c \in cut
    /\ subs' = [subs EXCEPT ![got[c]] = @ \ {c}]
    /\ Returned(c, "closed")
    /\ UNCHANGED <<registry, shellAt, paneOf, tui>>

\* broadcast disconnects a subscriber that does not keep up.
Wedged(c) ==
    /\ at[c] = "open"
    /\ c \in subs[got[c]]
    /\ subs' = [subs EXCEPT ![got[c]] = @ \ {c}]
    /\ UNCHANGED <<registry, shellAt, paneOf, conns, tui>>

-----------------------------------------------------------------------------
\* The daemon: the end of a shell.

\* The shell exits by itself.
ShellExits(s) ==
    /\ shellAt[s] = "live"
    /\ shellAt' = [shellAt EXCEPT ![s] = "ending"]
    /\ UNCHANGED <<registry, paneOf, subs, conns, tui>>

\* finish: the read of its terminal fails.
Finish(s) ==
    /\ shellAt[s] = "ending"
    /\ shellAt' = [shellAt EXCEPT ![s] = "done"]
    /\ subs' = [subs EXCEPT ![s] = {}]
    /\ UNCHANGED <<registry, paneOf, conns, tui>>

\* The goroutine GetOrCreate left behind, when readLoop has returned.
Unregister(s) ==
    /\ shellAt[s] = "done"
    /\ table' = [table EXCEPT ![paneOf[s]] = IF @ = s THEN 0 ELSE @]
    /\ Reaped(s)
    /\ UNCHANGED <<nextName, layout, subs, conns, tui>>

\* The shells of the panes P are taken out of the table, and killed.
KillShells(P) ==
    /\ table' = [p \in Pane |-> IF p \in P THEN 0 ELSE table[p]]
    /\ shellAt' = [s \in Shell |->
         IF shellAt[s] = "live" /\ \E p \in P : table[p] = s
         THEN "ending" ELSE shellAt[s]]

\* SetLayout: a layout arrives, whichever of those on their way.
SetLayout(L) ==
    /\ sent' = sent \ {L}
    /\ layout' = L
    /\ KillShells(Pane \ L)
    /\ UNCHANGED <<nextName, paneOf, subs, conns, view, link, doing, starts>>

-----------------------------------------------------------------------------
\* The TUI: its Update, one event at a time.

\* AttachTerminal of the panes P, which does not wait for an answer: a free
\* connection each.
Attach(P) ==
    \E f \in [P -> FreeConn(P)] :
       /\ \A p, q \in P : p < q => f[p] < f[q]
       /\ \A p \in P : \A c \in FreeConn(P) \ {f[q] : q \in P} : f[p] < c
       /\ LET new == {f[p] : p \in P} IN
          /\ at' = [c \in Conn |-> IF c \in new THEN "look" ELSE at[c]]
          /\ pane' = [c \in Conn |->
               IF c \in new THEN CHOOSE p \in P : f[p] = c ELSE pane[c]]
          /\ cut' = cut \ new
          /\ link' = [p \in Pane |-> IF p \in P THEN f[p] ELSE link[p]]
          /\ UNCHANGED got

\* The TUI closes the connections C.  What was sent on them is not read.
Cut(C) ==
    /\ at' = [c \in Conn |-> IF c \in C /\ at[c] = "exit" THEN "closed" ELSE at[c]]
    /\ cut' = cut \cup {c \in Conn \cap C : at[c] \notin {"exit", "closed"}}
    /\ UNCHANGED <<pane, got>>

\* persistLayoutCmd: a layout is on its way.
Persist(L) ==
    /\ Cardinality(sent) < MaxSent
    /\ sent' = sent \cup {L}

\* A TUI opens the session: the panes of the layout that are alive come back.
Activate ==
    /\ doing = Off
    /\ starts < MaxStarts
    /\ starts' = starts + 1
    /\ LET root == layout \cap Alive IN
       \/ /\ root # {}
          /\ Attach(root)
          /\ view' = root
          /\ Persist(root)
          /\ doing' = Idle
       \/ /\ root = {}
          /\ doing' = Fresh
          /\ UNCHANGED <<conns, view, link, sent>>
    /\ UNCHANGED <<registry, shells>>

\* Open, for a session with no panes or for a split of a pane that has not
\* ended.  Nobody knows the name yet, so GetOrCreate of it is one step.
Open ==
    /\ \/ doing = Fresh
       \/ doing = Idle /\ \E p \in view : link[p] # 0
    /\ nextName < MaxPanes
    /\ nextName' = nextName + 1
    /\ \E s \in FreeShell :
       Born(s, nextName', "live") /\ table' = [table EXCEPT ![nextName'] = s]
    /\ doing' = <<"opening", nextName'>>
    /\ UNCHANGED <<layout, subs, conns, view, link, sent, starts>>

\* The name has come: the TUI attaches, shows the pane and sends the layout.
Opened(p) ==
    /\ doing = <<"opening", p>>
    /\ Attach({p})
    /\ view' = view \cup {p}
    /\ Persist(view')
    /\ doing' = Idle
    /\ UNCHANGED <<registry, shells, starts>>

\* closeFocused, never of the last pane: the daemon is asked to kill the shell.
Close(p) ==
    /\ doing = Idle
    /\ p \in view
    /\ view # {p}
    /\ view' = view \ {p}
    /\ KillShells({p})
    /\ doing' = <<"closing", p>>
    /\ UNCHANGED <<nextName, layout, paneOf, subs, conns, link, sent, starts>>

\* It has answered: the connection is closed and the layout sent.
Closed(p) ==
    /\ doing = <<"closing", p>>
    /\ Cut({link[p]})
    /\ Persist(view)
    /\ doing' = Idle
    /\ UNCHANGED <<registry, shells, view, link, starts>>

\* handleShellExit: the pane goes, unless it is the last.
ExitEvent(p) ==
    /\ doing = Idle
    /\ p \in view
    /\ link[p] = 0
    /\ view # {p}
    /\ view' = view \ {p}
    /\ Persist(view')
    /\ UNCHANGED <<registry, shells, conns, link, doing, starts>>

\* The TUI ends, whatever it does.  Layouts that are not written yet are lost.
Quit ==
    /\ doing # Off
    /\ view' = {}
    /\ Cut({link[p] : p \in Pane})
    /\ link' = [p \in Pane |-> 0]
    /\ sent' \in SUBSET sent
    /\ doing' = Off
    /\ UNCHANGED <<registry, shells, starts>>

-----------------------------------------------------------------------------
\* The TUI: remoteReadLoop, one goroutine per pane.

SeesExit(p) ==
    /\ link[p] # 0
    /\ at[link[p]] = "exit"
    /\ at' = [at EXCEPT ![link[p]] = "closed"]
    /\ link' = [link EXCEPT ![p] = 0]
    /\ UNCHANGED <<registry, shells, pane, got, cut, view, doing, sent, starts>>

\* Mutant: only a connection the TUI closed itself is replaced.
SeesOwnDrop(p) ==
    /\ link[p] # 0
    /\ link[p] \in cut
    /\ Attach({p})
    /\ UNCHANGED <<registry, shells, view, doing, sent, starts>>

\* tryReattach: the connection broke, whoever closed it.
SeesDrop(p) ==
    /\ link[p] # 0
    /\ at[link[p]] = "closed" \/ link[p] \in cut
    /\ Attach({p})
    /\ UNCHANGED <<registry, shells, view, doing, sent, starts>>

-----------------------------------------------------------------------------
Handler(c) ==
    Look(c) \/ Register(c) \/ Subscribe(c) \/ Relay(c) \/ Gone(c)

Reader(p) == SeesExit(p) \/ SeesDrop(p)

Update ==
    \/ Activate \/ Open \/ Quit
    \/ \E p \in Pane : Opened(p) \/ Close(p) \/ Closed(p) \/ ExitEvent(p)

Next ==
    \/ \E c \in Conn : Handler(c) \/ Wedged(c)
    \/ \E s \in Shell : ShellExits(s) \/ Finish(s) \/ Unregister(s)
    \/ \E L \in sent : SetLayout(L)
    \/ \E p \in Pane : Reader(p)
    \/ Update

\* Handlers, readers and the end of a shell are goroutines that run on.  Nothing
\* is assumed of the user, of the layouts on their way, or of a subscriber.  Look
\* and SeesDrop never wait in the code: they are strongly fair because here they
\* may find the pool empty, time and again.
Fairness ==
    /\ \A c \in Conn : WF_vars(Handler(c)) /\ SF_vars(Look(c))
    /\ \A s \in Shell : WF_vars(Finish(s)) /\ WF_vars(Unregister(s))
    /\ \A p \in Pane : WF_vars(Reader(p)) /\ SF_vars(SeesDrop(p))

Spec == Init /\ [][Next]_vars
FairSpec == Spec /\ Fairness

-----------------------------------------------------------------------------
\* No shell is orphaned: one that runs is in the table under its pane, where a
\* Kill, a SetLayout and the end of the daemon find it, although several
\* handlers may start a shell for a pane at once and an earlier one may leave
\* the table late (GetOrCreate).
ShellsOwned ==
    \A s \in Shell : shellAt[s] = "live" => table[paneOf[s]] = s

\* No handler waits on a shell that will not speak again: its channel is closed
\* when the shell is done, whichever of Attach and finish came first.
NobodyHangs ==
    \A c \in Conn : at[c] = "open" /\ Done(got[c]) => c \notin subs[got[c]]

\* A pane on the screen does not stay with a connection that leads nowhere: in
\* the end it is gone, its shell is known to have ended, or its connection
\* shows a shell that runs (remoteReadLoop and handleTerminalAttach).
ScreenCatchesUp ==
    \A p \in Pane : p \in view ~>
        \/ p \notin view
        \/ link[p] = 0
        \/ at[link[p]] = "open" /\ ~Done(got[link[p]])

\* "Panes live until you close them or the daemon is stopped": nobody takes the
\* shell of a pane that stays on the screen out of the table while it runs.
\* A layout sent before the pane was opened, and served after, does.
PanesLive ==
    [][\A p \in view \cap view' :
         table[p] # 0 /\ shellAt[table[p]] = "live" => table'[p] = table[p]]_vars

-----------------------------------------------------------------------------
\* The table: a shell is in it under its own pane only, from Register to
\* Unregister.
TableOK ==
    \A p \in Pane : table[p] # 0 =>
        /\ paneOf[table[p]] = p
        /\ shellAt[table[p]] \in {"live", "ending", "done"}

\* The handlers: one that registers has a shell to itself, and no other holds
\* a shell before it is registered.
HandlersOK ==
    \A c \in Conn :
        /\ at[c] = "register" =>
             /\ got[c] # 0
             /\ shellAt[got[c]] = "starting"
             /\ paneOf[got[c]] = pane[c]
             /\ \A d \in Conn \ {c} : got[d] # got[c]
        /\ at[c] \in {"attach", "open"} =>
             got[c] # 0 /\ shellAt[got[c]] # "starting"
        /\ at[c] \in {"look", "exit", "closed"} => got[c] = 0

\* The subscribers of a shell are handlers that read from it.
SubscribersOK ==
    \A s \in Shell : \A c \in subs[s] : at[c] = "open" /\ got[c] = s

\* The names: nothing knows one that has not been handed out.
Known == 1..nextName
NamesOK ==
    /\ \A p \in Pane \ Known : table[p] = 0 /\ link[p] = 0
    /\ \A c \in Conn : at[c] \in {"look", "register"} => pane[c] \in Known
    /\ \A p \in Pane : doing = <<"opening", p>> => p \in Known

\* The inductive invariant: tables, handlers and names fit together.
IInv ==
    /\ TypeOK
    /\ TableOK
    /\ HandlersOK
    /\ SubscribersOK
    /\ NamesOK
    /\ ShellsOwned
    /\ NobodyHangs

=============================================================================
