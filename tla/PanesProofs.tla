----------------------------- MODULE PanesProofs -----------------------------
(***************************************************************************)
(* No shell is orphaned and no handler waits for ever, for any number of   *)
(* panes, shells, connections, layouts on their way and TUIs one after the *)
(* other.                                                                  *)
(***************************************************************************)
EXTENDS Panes, TLAPS

LEMMA Bounds ==
    /\ 0 \in 0..MaxShells /\ 0 \in 0..MaxConns /\ 0 \in 0..MaxPanes
    /\ 0 \notin Shell /\ 0 \notin Conn /\ 0 \notin Pane
    /\ Shell \subseteq 0..MaxShells /\ Conn \subseteq 0..MaxConns
    /\ \A s \in 0..MaxShells : s # 0 => s \in Shell
    /\ \A c \in 0..MaxConns : c # 0 => c \in Conn
    /\ 1 \in Pane
  BY PanesAssumption DEF Shell, Conn, Pane

\* Done, for a leaf that looks at shellAt only.
LEMMA DoneIs ==
    ASSUME NEW s
    PROVE  Done(s) <=> ~(s \in Shell /\ shellAt[s] \in {"starting", "live", "ending"})
  BY DEF Done

LEMMA DoneIsNext ==
    ASSUME NEW s
    PROVE  Done(s)' <=> ~(s \in Shell /\ shellAt'[s] \in {"starting", "live", "ending"})
  BY DEF Done

\* What opening connections leaves alone: all but entries that were closed, and
\* the links of the panes it is for.
LEMMA AttachFacts ==
    ASSUME TypeOK, NEW P \in SUBSET Pane, Attach(P)
    PROVE  /\ at' \in [Conn -> Place] /\ pane' \in [Conn -> Pane]
           /\ cut' \subseteq Conn /\ link' \in [Pane -> 0..MaxConns]
           /\ got' = got
           /\ \A c \in Conn : \/ at'[c] = at[c] /\ pane'[c] = pane[c]
                              \/ at[c] = "closed" /\ at'[c] = "look" /\ pane'[c] \in P
           /\ \A p \in Pane \ P : link'[p] = link[p]
  <1>1. PICK f \in [P -> FreeConn(P)] :
          LET new == {f[p] : p \in P} IN
          /\ at' = [c \in Conn |-> IF c \in new THEN "look" ELSE at[c]]
          /\ pane' = [c \in Conn |->
               IF c \in new THEN CHOOSE p \in P : f[p] = c ELSE pane[c]]
          /\ cut' = cut \ new
          /\ link' = [p \in Pane |-> IF p \in P THEN f[p] ELSE link[p]]
          /\ UNCHANGED got
    BY DEF Attach
  <1> DEFINE new == {f[p] : p \in P}
  <1>2. \A p \in P : f[p] \in Conn /\ at[f[p]] = "closed"
    BY DEF FreeConn
  <1>3. \A c \in new : c \in Conn /\ at[c] = "closed" /\ (CHOOSE p \in P : f[p] = c) \in P
    <2>1. TAKE c \in new
    <2>2. PICK p \in P : f[p] = c
      OBVIOUS
    <2>3. QED
      BY <1>2, <2>2
  <1>5. at' \in [Conn -> Place] /\ cut' \subseteq Conn
    BY <1>1 DEF TypeOK, Place
  <1>6. pane' \in [Conn -> Pane]
    BY <1>1, <1>3 DEF TypeOK
  <1>7. link' \in [Pane -> 0..MaxConns] /\ \A p \in Pane \ P : link'[p] = link[p]
    BY <1>1, <1>2, Bounds DEF TypeOK
  <1>8. \A c \in Conn : \/ at'[c] = at[c] /\ pane'[c] = pane[c]
                        \/ at[c] = "closed" /\ at'[c] = "look" /\ pane'[c] \in P
    BY <1>1, <1>3
  <1>9. QED
    BY <1>1, <1>5, <1>6, <1>7, <1>8

\* A new shell takes an entry nobody holds.
LEMMA BornFacts ==
    ASSUME TypeOK, NEW s \in FreeShell, NEW p \in Pane, NEW life \in Life, Born(s, p, life)
    PROVE  /\ s \in Shell /\ shellAt[s] = "none" /\ \A c \in Conn : got[c] # s
           /\ shellAt' \in [Shell -> Life] /\ paneOf' \in [Shell -> Pane]
           /\ shellAt' = [shellAt EXCEPT ![s] = life]
           /\ paneOf' = [paneOf EXCEPT ![s] = p]
  BY DEF TypeOK, FreeShell, Born

\* The two outcomes of the first look: a shell of the pane that is not done, or
\* a new one that is not in the table yet.
LEMMA LookFacts ==
    ASSUME TypeOK, NEW c \in Conn, Look(c)
    PROVE  /\ at[c] = "look" /\ UNCHANGED <<nextName, subs, pane, doing, link>>
           /\ \/ LET t == table[pane[c]] IN
                 /\ t \in Shell /\ shellAt[t] \in {"starting", "live", "ending"}
                 /\ at' = [at EXCEPT ![c] = "attach"]
                 /\ got' = [got EXCEPT ![c] = t]
                 /\ UNCHANGED <<table, shellAt, paneOf>>
              \/ LET t == table[pane[c]] IN \E s \in Shell :
                 /\ ~(t \in Shell /\ shellAt[t] \in {"starting", "live", "ending"})
                 /\ shellAt[s] = "none" /\ \A d \in Conn : got[d] # s
                 /\ table' = [table EXCEPT ![pane[c]] = 0]
                 /\ at' = [at EXCEPT ![c] = "register"]
                 /\ got' = [got EXCEPT ![c] = s]
                 /\ shellAt' = [shellAt EXCEPT ![s] = "starting"]
                 /\ paneOf' = [paneOf EXCEPT ![s] = pane[c]]
  <1>1. at[c] = "look" /\ UNCHANGED <<nextName, subs, pane, doing, link>>
    BY DEF Look, tui
  <1>2. CASE ~Done(table[pane[c]])
    <2>1. /\ at' = [at EXCEPT ![c] = "attach"]
          /\ got' = [got EXCEPT ![c] = table[pane[c]]]
          /\ UNCHANGED <<table, shellAt, paneOf>>
      BY <1>2, Zenon DEF Look
    <2>2. QED
      BY <1>1, <1>2, <2>1, DoneIs
  <1>3. CASE Done(table[pane[c]])
    <2>1. /\ table' = [table EXCEPT ![pane[c]] = 0]
          /\ at' = [at EXCEPT ![c] = "register"]
      BY <1>3, Zenon DEF Look
    <2>2. PICK s \in FreeShell :
            Born(s, pane[c], "starting") /\ got' = [got EXCEPT ![c] = s]
      BY <1>3, Zenon DEF Look
    <2>3. pane[c] \in Pane
      BY DEF TypeOK
    <2>4. /\ s \in Shell /\ shellAt[s] = "none" /\ \A d \in Conn : got[d] # s
          /\ shellAt' = [shellAt EXCEPT ![s] = "starting"]
          /\ paneOf' = [paneOf EXCEPT ![s] = pane[c]]
      BY <2>2, <2>3, BornFacts DEF Life
    <2>5. QED
      BY <1>1, <1>3, <2>1, <2>2, <2>4, DoneIs
  <1>4. QED
    BY <1>2, <1>3

\* Open hands out the next name, with a new shell.
LEMMA OpenFacts ==
    ASSUME TypeOK, Open
    PROVE  /\ nextName' = nextName + 1 /\ nextName' \in Pane
           /\ doing' = <<"opening", nextName'>>
           /\ UNCHANGED <<subs, at, pane, got, link>>
           /\ \E s \in Shell :
                /\ shellAt[s] = "none" /\ \A d \in Conn : got[d] # s
                /\ table' = [table EXCEPT ![nextName'] = s]
                /\ shellAt' = [shellAt EXCEPT ![s] = "live"]
                /\ paneOf' = [paneOf EXCEPT ![s] = nextName']
  <1>1. nextName' = nextName + 1 /\ nextName' \in Pane
    BY PanesAssumption DEF Open, TypeOK, Pane
  <1>2. doing' = <<"opening", nextName'>> /\ UNCHANGED <<subs, at, pane, got, link>>
    BY DEF Open, conns
  <1>3. PICK s \in FreeShell :
          Born(s, nextName', "live") /\ table' = [table EXCEPT ![nextName'] = s]
    BY DEF Open
  <1>4. s \in Shell /\ shellAt[s] = "none" /\ \A d \in Conn : got[d] # s
    BY DEF FreeShell
  <1>5. shellAt' = [shellAt EXCEPT ![s] = "live"] /\ paneOf' = [paneOf EXCEPT ![s] = nextName']
    BY <1>3 DEF Born
  <1>6. QED
    BY <1>1, <1>2, <1>3, <1>4, <1>5

\* A kill ends shells that run and does nothing to the others.
LEMMA KillFacts ==
    ASSUME TypeOK, NEW P \in SUBSET Pane, KillShells(P)
    PROVE  /\ table' \in [Pane -> 0..MaxShells] /\ shellAt' \in [Shell -> Life]
           /\ \A p \in Pane : table'[p] = IF p \in P THEN 0 ELSE table[p]
           /\ \A s \in Shell : \/ shellAt'[s] = shellAt[s]
                               \/ shellAt[s] = "live" /\ shellAt'[s] = "ending"
           /\ \A s \in Shell : shellAt'[s] = "live" =>
                shellAt[s] = "live" /\ \A p \in P : table[p] # s
  <1>1. /\ table' = [p \in Pane |-> IF p \in P THEN 0 ELSE table[p]]
        /\ shellAt' = [s \in Shell |->
             IF shellAt[s] = "live" /\ \E p \in P : table[p] = s
             THEN "ending" ELSE shellAt[s]]
    BY DEF KillShells
  <1>2. table' \in [Pane -> 0..MaxShells]
    BY <1>1, Bounds DEF TypeOK
  <1>3. shellAt' \in [Shell -> Life]
    BY <1>1 DEF TypeOK, Life
  <1>4. \A p \in Pane : table'[p] = IF p \in P THEN 0 ELSE table[p]
    BY <1>1
  <1>5. \A s \in Shell : \/ shellAt'[s] = shellAt[s]
                         \/ shellAt[s] = "live" /\ shellAt'[s] = "ending"
    BY <1>1
  <1>6. \A s \in Shell : shellAt'[s] = "live" =>
          shellAt[s] = "live" /\ \A p \in P : table[p] # s
    BY <1>1
  <1>7. QED
    BY <1>2, <1>3, <1>4, <1>5, <1>6

-----------------------------------------------------------------------------
LEMMA InitInv == Init => IInv
  <1> SUFFICES ASSUME Init PROVE IInv
    OBVIOUS
  <1>1. 1 \in Pane
    BY PanesAssumption DEF Pane
  <1>2. nextName \in 0..MaxPanes /\ starts \in 0..MaxStarts
    BY PanesAssumption DEF Init
  <1>3. table \in [Pane -> 0..MaxShells] /\ link \in [Pane -> 0..MaxConns]
        /\ got \in [Conn -> 0..MaxShells]
    BY PanesAssumption DEF Init
  <1>4. TypeOK
    BY <1>1, <1>2, <1>3 DEF TypeOK, Init, Life, Place
  <1>5. TableOK /\ ShellsOwned /\ SubscribersOK
    BY DEF Init, TableOK, ShellsOwned, SubscribersOK
  <1>6. HandlersOK /\ NobodyHangs
    BY DEF Init, HandlersOK, NobodyHangs
  <1>7. NamesOK
    BY DEF Init, NamesOK, Off
  <1>8. QED
    BY <1>4, <1>5, <1>6, <1>7 DEF IInv

-----------------------------------------------------------------------------
LEMMA TypeStep == TypeOK /\ [Next]_vars => TypeOK'
  <1> SUFFICES ASSUME TypeOK, [Next]_vars PROVE TypeOK'
    OBVIOUS
  <1>0. ASSUME UNCHANGED vars PROVE TypeOK'
    BY <1>0 DEF TypeOK, vars, registry, shells, conns, tui
  <1>1. ASSUME NEW c \in Conn, Look(c) PROVE TypeOK'
    <2>1. pane[c] \in Pane /\ table[pane[c]] \in 0..MaxShells
      BY DEF TypeOK
    <2>2. table' \in [Pane -> 0..MaxShells] /\ at' \in [Conn -> Place]
      BY <1>1, Bounds DEF Look, TypeOK, Place
    <2>3. CASE UNCHANGED <<table, shellAt, paneOf>> /\ got' = [got EXCEPT ![c] = table[pane[c]]]
      BY <1>1, <2>1, <2>2, <2>3 DEF Look, TypeOK, tui
    <2>4. CASE \E s \in FreeShell :
                 Born(s, pane[c], "starting") /\ got' = [got EXCEPT ![c] = s]
      <3>1. PICK s \in FreeShell :
              Born(s, pane[c], "starting") /\ got' = [got EXCEPT ![c] = s]
        BY <2>4
      <3>2. shellAt' \in [Shell -> Life] /\ paneOf' \in [Shell -> Pane] /\ s \in Shell
        BY <2>1, <3>1, BornFacts DEF Life
      <3>3. got' \in [Conn -> 0..MaxShells]
        BY <3>1, <3>2, Bounds DEF TypeOK
      <3>4. QED
        BY <1>1, <2>2, <3>2, <3>3 DEF Look, TypeOK, tui
    <2>5. QED
      BY <1>1, <2>3, <2>4 DEF Look
  <1>2. ASSUME NEW c \in Conn, Register(c) PROVE TypeOK'
    BY <1>2, Bounds DEF Register, TypeOK, Life, Place, Reaped, tui
  <1>3. ASSUME NEW c \in Conn, Subscribe(c) PROVE TypeOK'
    <2>1. at' \in [Conn -> Place]
      BY <1>3 DEF Subscribe, TypeOK, Place
    <2>2. subs' \in [Shell -> SUBSET Conn]
      <3>1. (IF Done(got[c]) THEN subs[got[c]] ELSE subs[got[c]] \cup {c}) \in SUBSET Conn
            \/ got[c] \notin Shell
        BY DEF TypeOK
      <3>2. subs' = [subs EXCEPT ![got[c]] =
                       IF Done(got[c]) THEN subs[got[c]] ELSE subs[got[c]] \cup {c}]
        BY <1>3 DEF Subscribe
      <3>3. QED
        BY <3>1, <3>2 DEF TypeOK
    <2>3. QED
      BY <1>3, <2>1, <2>2 DEF Subscribe, TypeOK, registry, tui
  <1>4. ASSUME NEW c \in Conn, Relay(c) PROVE TypeOK'
    BY <1>4, Bounds DEF Relay, TypeOK, Place, Returned, registry, shells, tui
  <1>5. ASSUME NEW c \in Conn, Gone(c) PROVE TypeOK'
    BY <1>5, Bounds DEF Gone, TypeOK, Place, Returned, registry, tui
  <1>6. ASSUME NEW c \in Conn, Wedged(c) PROVE TypeOK'
    BY <1>6 DEF Wedged, TypeOK, registry, conns, tui
  <1>7. ASSUME NEW s \in Shell, ShellExits(s) PROVE TypeOK'
    BY <1>7 DEF ShellExits, TypeOK, Life, registry, conns, tui
  <1>8. ASSUME NEW s \in Shell, Finish(s) PROVE TypeOK'
    BY <1>8 DEF Finish, TypeOK, Life, registry, conns, tui
  <1>9. ASSUME NEW s \in Shell, Unregister(s) PROVE TypeOK'
    BY <1>9, Bounds DEF Unregister, TypeOK, Life, Reaped, conns, tui
  <1>10. ASSUME NEW L \in sent, SetLayout(L) PROVE TypeOK'
    BY <1>10, KillFacts DEF SetLayout, TypeOK, conns
  <1>11. ASSUME Activate PROVE TypeOK'
    <2>1. layout \cap Alive \in SUBSET Pane
      BY DEF TypeOK
    <2>2. starts' \in 0..MaxStarts /\ UNCHANGED <<registry, shells>>
      BY <1>11, PanesAssumption DEF Activate, TypeOK
    <2>3. CASE UNCHANGED <<conns, view, link, sent>> /\ doing' = Fresh
      BY <2>2, <2>3 DEF TypeOK, registry, shells, conns
    <2>4. CASE /\ Attach(layout \cap Alive) /\ view' = layout \cap Alive
               /\ Persist(layout \cap Alive) /\ doing' = Idle
      <3>1. /\ at' \in [Conn -> Place] /\ pane' \in [Conn -> Pane]
            /\ cut' \subseteq Conn /\ link' \in [Pane -> 0..MaxConns] /\ got' = got
        BY <2>1, <2>4, AttachFacts
      <3>2. sent' \subseteq SUBSET Pane /\ view' \subseteq Pane
        BY <2>1, <2>4 DEF Persist, TypeOK
      <3>3. QED
        BY <2>2, <2>4, <3>1, <3>2 DEF TypeOK, registry, shells
    <2>5. QED
      BY <1>11, <2>3, <2>4 DEF Activate
  <1>12. ASSUME Open PROVE TypeOK'
    <2>1. nextName' \in 0..MaxPanes /\ nextName' \in Pane
      BY <1>12, PanesAssumption DEF Open, TypeOK, Pane
    <2>2. PICK s \in FreeShell :
            Born(s, nextName', "live") /\ table' = [table EXCEPT ![nextName'] = s]
      BY <1>12 DEF Open
    <2>3. s \in Shell
      BY DEF FreeShell
    <2>4. shellAt' \in [Shell -> Life] /\ paneOf' \in [Shell -> Pane]
      BY <2>1, <2>2, <2>3 DEF Born, TypeOK, Life
    <2>5. table' \in [Pane -> 0..MaxShells]
      BY <2>2, <2>3, Bounds DEF TypeOK
    <2>6. doing' \in {Off, Idle, Fresh} \cup ({"opening", "closing"} \X Pane)
      BY <1>12, <2>1 DEF Open
    <2>7. QED
      BY <1>12, <2>1, <2>4, <2>5, <2>6 DEF Open, TypeOK, conns
  <1>13. ASSUME NEW p \in Pane, Opened(p) PROVE TypeOK'
    BY <1>13, AttachFacts DEF Opened, TypeOK, Persist, registry, shells
  <1>14. ASSUME NEW p \in Pane, Close(p) PROVE TypeOK'
    BY <1>14, KillFacts DEF Close, TypeOK, conns
  <1>15. ASSUME NEW p \in Pane, Closed(p) PROVE TypeOK'
    BY <1>15
       DEF Closed, TypeOK, Life, Place, Cut, Persist, Off, Idle, Fresh, registry, shells, conns, tui
  <1>16. ASSUME NEW p \in Pane, ExitEvent(p) PROVE TypeOK'
    BY <1>16 DEF ExitEvent, TypeOK, Persist, registry, shells, conns
  <1>17. ASSUME Quit PROVE TypeOK'
    BY <1>17, Bounds DEF Quit, TypeOK, Place, Cut, registry, shells
  <1>18. ASSUME NEW p \in Pane, SeesExit(p) PROVE TypeOK'
    BY <1>18, Bounds DEF SeesExit, TypeOK, Place, registry, shells
  <1>19. ASSUME NEW p \in Pane, SeesDrop(p) PROVE TypeOK'
    BY <1>19, AttachFacts DEF SeesDrop, TypeOK, registry, shells
  <1>20. QED
    BY <1>0, <1>1, <1>2, <1>3, <1>4, <1>5, <1>6, <1>7, <1>8, <1>9, <1>10, <1>11, <1>12, <1>13, <1>14, <1>15, <1>16, <1>17, <1>18, <1>19
       DEF Next, Handler, Reader, Update

-----------------------------------------------------------------------------
\* The conjuncts that are not types, each against the actions that touch it.

LEMMA TableStep == IInv /\ [Next]_vars => TableOK'
  <1> SUFFICES ASSUME IInv, [Next]_vars PROVE TableOK'
    OBVIOUS
  <1>0. CASE UNCHANGED <<table, paneOf, shellAt>>
    BY <1>0 DEF IInv, TableOK
  <1>1. ASSUME NEW c \in Conn, Look(c) PROVE TableOK'
    BY <1>1, Bounds, LookFacts DEF IInv, TableOK, TypeOK
  <1>2. ASSUME NEW c \in Conn, Register(c) PROVE TableOK'
    BY <1>2, Bounds DEF Register, IInv, TableOK, TypeOK, HandlersOK, Reaped
  <1>3. ASSUME NEW s \in Shell, ShellExits(s) PROVE TableOK'
    BY <1>3 DEF ShellExits, IInv, TableOK, registry
  <1>4. ASSUME NEW s \in Shell, Finish(s) PROVE TableOK'
    BY <1>4 DEF Finish, IInv, TableOK, registry
  <1>5. ASSUME NEW s \in Shell, Unregister(s) PROVE TableOK'
    BY <1>5 DEF Unregister, IInv, TableOK, TypeOK, Reaped
  <1>6. ASSUME NEW L \in sent, SetLayout(L) PROVE TableOK'
    BY <1>6, Bounds, KillFacts DEF SetLayout, IInv, TableOK
  <1>7. ASSUME Open PROVE TableOK'
    BY <1>7, Bounds, OpenFacts DEF IInv, TableOK, TypeOK
  <1>8. ASSUME NEW p \in Pane, Close(p) PROVE TableOK'
    BY <1>8, Bounds, KillFacts DEF Close, IInv, TableOK
  <1>9. CASE \/ \E c \in Conn : Subscribe(c)
             \/ \E c \in Conn : Relay(c)
             \/ \E c \in Conn : Gone(c)
             \/ \E c \in Conn : Wedged(c)
             \/ Activate
             \/ \E p \in Pane : Opened(p)
             \/ \E p \in Pane : Closed(p)
             \/ \E p \in Pane : ExitEvent(p)
             \/ Quit
             \/ \E p \in Pane : SeesExit(p)
             \/ \E p \in Pane : SeesDrop(p)
    BY <1>0, <1>9
       DEF Subscribe, Relay, Gone, Wedged, Activate, Opened, Closed, ExitEvent, Quit, SeesExit, SeesDrop, registry, shells, conns, tui
  <1>10. CASE UNCHANGED vars
    BY <1>0, <1>10 DEF vars, registry, shells
  <1>11. QED
    BY <1>1, <1>2, <1>3, <1>4, <1>5, <1>6, <1>7, <1>8, <1>9, <1>10
       DEF Next, Handler, Reader, Update

LEMMA HandlersStep == IInv /\ [Next]_vars => HandlersOK'
  <1> SUFFICES ASSUME IInv, [Next]_vars PROVE HandlersOK'
    OBVIOUS
  <1>0. CASE UNCHANGED <<at, got, pane, shellAt, paneOf>>
    BY <1>0 DEF IInv, HandlersOK
  <1>1. ASSUME NEW c \in Conn, Look(c) PROVE HandlersOK'
    BY <1>1, Bounds, LookFacts DEF IInv, HandlersOK, TypeOK, TableOK
  <1>2. ASSUME NEW c \in Conn, Register(c) PROVE HandlersOK'
    <2> DEFINE other == table[pane[c]]
    <2>1. /\ at[c] = "register" /\ at' = [at EXCEPT ![c] = "attach"] /\ pane' = pane
          /\ got[c] \in Shell /\ shellAt[got[c]] = "starting"
          /\ \A d \in Conn \ {c} : got[d] # got[c]
      BY <1>2, Bounds DEF Register, IInv, HandlersOK, TypeOK
    <2>2. CASE shellAt' = [shellAt EXCEPT ![got[c]] = "live"] /\ UNCHANGED <<paneOf, got>>
      BY <2>1, <2>2, Bounds DEF IInv, HandlersOK, TypeOK
    <2>3. CASE ~Done(other) /\ Reaped(got[c]) /\ got' = [got EXCEPT ![c] = other]
      <3>1. other \in Shell /\ other # 0 /\ shellAt[other] # "starting"
        BY <2>3, DoneIs, Bounds DEF IInv, TableOK, TypeOK
      <3>2. shellAt'[other] # "starting" /\ other # got[c]
        BY <2>1, <2>3, <3>1 DEF Reaped, IInv, TypeOK
      <3>3. \A d \in Conn \ {c} :
              /\ at'[d] = at[d] /\ got'[d] = got[d] /\ got[d] # got[c]
              /\ got[d] \in Shell => shellAt'[got[d]] = shellAt[got[d]]
                                      /\ paneOf'[got[d]] = paneOf[got[d]]
        BY <2>1, <2>3 DEF Reaped, IInv, TypeOK
      <3>4. ASSUME NEW d \in Conn \ {c}, at[d] = "register" PROVE got[d] # other
        BY <3>1, <3>4 DEF IInv, HandlersOK
      <3>5. at'[c] = "attach" /\ got'[c] = other
        BY <2>1, <2>3 DEF IInv, TypeOK
      <3>6. QED
        BY <2>1, <3>1, <3>2, <3>3, <3>4, <3>5, Bounds DEF IInv, HandlersOK, TypeOK
    <2>4. QED
      BY <1>2, <2>2, <2>3, Zenon DEF Register
  <1>3. ASSUME NEW c \in Conn, Subscribe(c) PROVE HandlersOK'
    BY <1>3 DEF Subscribe, IInv, HandlersOK
  <1>4. ASSUME NEW c \in Conn, Relay(c) PROVE HandlersOK'
    BY <1>4 DEF Relay, IInv, HandlersOK, TypeOK, Returned, shells
  <1>5. ASSUME NEW c \in Conn, Gone(c) PROVE HandlersOK'
    BY <1>5 DEF Gone, IInv, HandlersOK, TypeOK, Returned
  <1>6. ASSUME NEW s \in Shell, ShellExits(s) PROVE HandlersOK'
    BY <1>6 DEF ShellExits, IInv, HandlersOK, conns
  <1>7. ASSUME NEW s \in Shell, Finish(s) PROVE HandlersOK'
    BY <1>7 DEF Finish, IInv, HandlersOK, conns
  <1>8. ASSUME NEW s \in Shell, Unregister(s) PROVE HandlersOK'
    BY <1>8 DEF Unregister, IInv, HandlersOK, Reaped, conns
  <1>9. ASSUME NEW L \in sent, SetLayout(L) PROVE HandlersOK'
    BY <1>9, Bounds, KillFacts DEF SetLayout, IInv, HandlersOK, TypeOK, conns
  <1>10. ASSUME Activate PROVE HandlersOK'
    BY <1>10, AttachFacts DEF Activate, IInv, HandlersOK, TypeOK, shells, conns
  <1>11. ASSUME Open PROVE HandlersOK'
    BY <1>11, Bounds, DoneIs, OpenFacts
       DEF IInv, HandlersOK, TypeOK, TableOK, NamesOK, SubscribersOK, registry, shells, conns, tui
  <1>12. ASSUME NEW p \in Pane, Opened(p) PROVE HandlersOK'
    BY <1>12, AttachFacts DEF Opened, IInv, HandlersOK, shells
  <1>13. ASSUME NEW p \in Pane, Close(p) PROVE HandlersOK'
    BY <1>13, Bounds, KillFacts DEF Close, IInv, HandlersOK, TypeOK, conns
  <1>14. ASSUME NEW p \in Pane, Closed(p) PROVE HandlersOK'
    BY <1>14 DEF Closed, IInv, HandlersOK, Cut, shells
  <1>15. ASSUME Quit PROVE HandlersOK'
    BY <1>15 DEF Quit, IInv, HandlersOK, Cut, shells
  <1>16. ASSUME NEW p \in Pane, SeesExit(p) PROVE HandlersOK'
    BY <1>16 DEF SeesExit, IInv, HandlersOK, shells
  <1>17. ASSUME NEW p \in Pane, SeesDrop(p) PROVE HandlersOK'
    BY <1>17, AttachFacts DEF SeesDrop, IInv, HandlersOK, shells
  <1>18. CASE \/ \E c \in Conn : Wedged(c)
              \/ \E p \in Pane : ExitEvent(p)
    BY <1>0, <1>18 DEF Wedged, ExitEvent, shells, conns
  <1>19. CASE UNCHANGED vars
    BY <1>0, <1>19 DEF vars, shells, conns
  <1>20. QED
    BY <1>1, <1>2, <1>3, <1>4, <1>5, <1>6, <1>7, <1>8, <1>9, <1>10, <1>11, <1>12, <1>13, <1>14, <1>15, <1>16, <1>17, <1>18, <1>19
       DEF Next, Handler, Reader, Update

LEMMA SubscribersStep == IInv /\ [Next]_vars => SubscribersOK'
  <1> SUFFICES ASSUME IInv, [Next]_vars PROVE SubscribersOK'
    OBVIOUS
  <1>0. CASE UNCHANGED <<subs, at, got>>
    BY <1>0 DEF IInv, SubscribersOK
  <1>1. ASSUME NEW c \in Conn, Look(c) PROVE SubscribersOK'
    <2>1. at[c] = "look" /\ subs' = subs
      BY <1>1, LookFacts DEF IInv
    <2>2. \A d \in Conn \ {c} : at'[d] = at[d] /\ got'[d] = got[d]
      BY <1>1, LookFacts DEF IInv, TypeOK
    <2>3. \A s \in Shell : subs[s] \subseteq Conn
      BY DEF IInv, TypeOK
    <2>4. QED
      BY <2>1, <2>2, <2>3 DEF IInv, SubscribersOK
  <1>2. ASSUME NEW c \in Conn, Register(c) PROVE SubscribersOK'
    BY <1>2 DEF Register, IInv, SubscribersOK, TypeOK
  <1>3. ASSUME NEW c \in Conn, Subscribe(c) PROVE SubscribersOK'
    BY <1>3 DEF Subscribe, IInv, SubscribersOK, TypeOK
  <1>4. ASSUME NEW c \in Conn, Relay(c) PROVE SubscribersOK'
    BY <1>4 DEF Relay, IInv, SubscribersOK, Returned, shells
  <1>5. ASSUME NEW c \in Conn, Gone(c) PROVE SubscribersOK'
    BY <1>5 DEF Gone, IInv, SubscribersOK, TypeOK, Returned
  <1>6. ASSUME NEW c \in Conn, Wedged(c) PROVE SubscribersOK'
    BY <1>6 DEF Wedged, IInv, SubscribersOK, conns
  <1>7. ASSUME NEW s \in Shell, Finish(s) PROVE SubscribersOK'
    BY <1>7 DEF Finish, IInv, SubscribersOK, conns
  <1>8. ASSUME Activate PROVE SubscribersOK'
    BY <1>8, AttachFacts
       DEF Activate, IInv, SubscribersOK, TypeOK, shells, conns
  <1>9. ASSUME NEW p \in Pane, Opened(p) PROVE SubscribersOK'
    BY <1>9, AttachFacts DEF Opened, IInv, SubscribersOK, TypeOK, shells
  <1>10. ASSUME NEW p \in Pane, Closed(p) PROVE SubscribersOK'
    BY <1>10 DEF Closed, IInv, SubscribersOK, TypeOK, Cut, shells
  <1>11. ASSUME Quit PROVE SubscribersOK'
    BY <1>11 DEF Quit, IInv, SubscribersOK, TypeOK, Cut, shells
  <1>12. ASSUME NEW p \in Pane, SeesExit(p) PROVE SubscribersOK'
    BY <1>12 DEF SeesExit, IInv, SubscribersOK, shells
  <1>13. ASSUME NEW p \in Pane, SeesDrop(p) PROVE SubscribersOK'
    BY <1>13, AttachFacts DEF SeesDrop, IInv, SubscribersOK, TypeOK, shells
  <1>14. CASE \/ \E s \in Shell : ShellExits(s)
              \/ \E s \in Shell : Unregister(s)
              \/ \E L \in sent : SetLayout(L)
              \/ Open
              \/ \E p \in Pane : Close(p)
              \/ \E p \in Pane : ExitEvent(p)
    BY <1>0, <1>14
       DEF ShellExits, Unregister, SetLayout, Open, Close, ExitEvent, shells, conns
  <1>15. CASE UNCHANGED vars
    BY <1>0, <1>15 DEF vars, shells, conns
  <1>16. QED
    BY <1>1, <1>2, <1>3, <1>4, <1>5, <1>6, <1>7, <1>8, <1>9, <1>10, <1>11, <1>12, <1>13, <1>14, <1>15
       DEF Next, Handler, Reader, Update

LEMMA NamesStep == IInv /\ [Next]_vars => NamesOK'
  <1> SUFFICES ASSUME IInv, [Next]_vars PROVE NamesOK'
    OBVIOUS
  <1>0. CASE UNCHANGED <<nextName, table, link, at, pane, doing>>
    BY <1>0 DEF IInv, NamesOK, Known
  <1>1. ASSUME NEW c \in Conn, Look(c) PROVE NamesOK'
    BY <1>1, LookFacts DEF IInv, NamesOK, TypeOK, Known
  <1>2. ASSUME NEW c \in Conn, Register(c) PROVE NamesOK'
    BY <1>2 DEF Register, IInv, NamesOK, TypeOK, Known, tui
  <1>3. ASSUME NEW c \in Conn, Subscribe(c) PROVE NamesOK'
    BY <1>3 DEF Subscribe, IInv, NamesOK, Known, registry, tui
  <1>4. ASSUME NEW c \in Conn, Relay(c) PROVE NamesOK'
    BY <1>4 DEF Relay, IInv, NamesOK, Returned, Known, registry, tui
  <1>5. ASSUME NEW c \in Conn, Gone(c) PROVE NamesOK'
    BY <1>5 DEF Gone, IInv, NamesOK, Returned, Known, registry, tui
  <1>6. ASSUME NEW s \in Shell, Unregister(s) PROVE NamesOK'
    BY <1>6 DEF Unregister, IInv, NamesOK, Known, conns, tui
  <1>7. ASSUME NEW L \in sent, SetLayout(L) PROVE NamesOK'
    BY <1>7, KillFacts DEF SetLayout, IInv, NamesOK, Known, conns
  <1>8. ASSUME Activate PROVE NamesOK'
    BY <1>8, Bounds, DoneIs, AttachFacts
       DEF Activate, IInv, NamesOK, Known, Idle, Fresh, Alive, registry, conns
  <1>9. ASSUME Open PROVE NamesOK'
    BY <1>9, OpenFacts DEF IInv, NamesOK, TypeOK, Known
  <1>10. ASSUME NEW p \in Pane, Opened(p) PROVE NamesOK'
    BY <1>10, AttachFacts DEF Opened, IInv, NamesOK, Known, Idle, registry
  <1>11. ASSUME NEW p \in Pane, Close(p) PROVE NamesOK'
    BY <1>11, KillFacts DEF Close, IInv, NamesOK, Known, conns
  <1>12. ASSUME NEW p \in Pane, Closed(p) PROVE NamesOK'
    BY <1>12 DEF Closed, IInv, NamesOK, Cut, Known, Idle, registry
  <1>13. ASSUME Quit PROVE NamesOK'
    BY <1>13 DEF Quit, IInv, NamesOK, Cut, Known, Off, registry
  <1>14. ASSUME NEW p \in Pane, SeesExit(p) PROVE NamesOK'
    BY <1>14 DEF SeesExit, IInv, NamesOK, Known, registry
  <1>15. ASSUME NEW p \in Pane, SeesDrop(p) PROVE NamesOK'
    BY <1>15, AttachFacts DEF SeesDrop, IInv, NamesOK, Known, registry
  <1>16. CASE \/ \E c \in Conn : Wedged(c)
              \/ \E s \in Shell : ShellExits(s)
              \/ \E s \in Shell : Finish(s)
              \/ \E p \in Pane : ExitEvent(p)
    BY <1>0, <1>16 DEF Wedged, ShellExits, Finish, ExitEvent, registry, conns, tui
  <1>17. CASE UNCHANGED vars
    BY <1>0, <1>17 DEF vars, registry, conns, tui
  <1>18. QED
    BY <1>1, <1>2, <1>3, <1>4, <1>5, <1>6, <1>7, <1>8, <1>9, <1>10, <1>11, <1>12, <1>13, <1>14, <1>15, <1>16, <1>17
       DEF Next, Handler, Reader, Update

LEMMA OwnedStep == IInv /\ [Next]_vars => ShellsOwned'
  <1> SUFFICES ASSUME IInv, [Next]_vars PROVE ShellsOwned'
    OBVIOUS
  <1>0. CASE UNCHANGED <<table, paneOf, shellAt>>
    BY <1>0 DEF IInv, ShellsOwned
  <1>1. ASSUME NEW c \in Conn, Look(c) PROVE ShellsOwned'
    BY <1>1, LookFacts DEF IInv, ShellsOwned, TypeOK
  <1>2. ASSUME NEW c \in Conn, Register(c) PROVE ShellsOwned'
    BY <1>2, DoneIs DEF Register, IInv, ShellsOwned, TypeOK, HandlersOK, Reaped
  <1>3. ASSUME NEW s \in Shell, ShellExits(s) PROVE ShellsOwned'
    BY <1>3 DEF ShellExits, IInv, ShellsOwned, registry
  <1>4. ASSUME NEW s \in Shell, Finish(s) PROVE ShellsOwned'
    BY <1>4 DEF Finish, IInv, ShellsOwned, registry
  <1>5. ASSUME NEW s \in Shell, Unregister(s) PROVE ShellsOwned'
    BY <1>5 DEF Unregister, IInv, ShellsOwned, Reaped
  <1>6. ASSUME NEW L \in sent, SetLayout(L) PROVE ShellsOwned'
    BY <1>6, KillFacts DEF SetLayout, IInv, ShellsOwned, TypeOK
  <1>7. ASSUME Open PROVE ShellsOwned'
    <2>1. PICK s \in Shell :
            /\ shellAt[s] = "none"
            /\ table' = [table EXCEPT ![nextName'] = s]
            /\ shellAt' = [shellAt EXCEPT ![s] = "live"]
            /\ paneOf' = [paneOf EXCEPT ![s] = nextName']
      BY <1>7, OpenFacts DEF IInv
    <2>2. nextName' \in Pane /\ nextName' \notin Known
      BY <1>7, OpenFacts DEF IInv, TypeOK, Known
    <2>3. table[nextName'] = 0
      BY <2>2 DEF IInv, NamesOK
    <2>4. table'[paneOf'[s]] = s
      BY <2>1, <2>2 DEF IInv, TypeOK
    <2>5. ASSUME NEW t \in Shell, t # s, shellAt'[t] = "live" PROVE table'[paneOf'[t]] = t
      <3>1. shellAt[t] = "live" /\ paneOf'[t] = paneOf[t] /\ paneOf[t] \in Pane
        BY <2>1, <2>5 DEF IInv, TypeOK
      <3>2. table[paneOf[t]] = t /\ paneOf[t] # nextName'
        BY <2>3, <2>5, <3>1, Bounds DEF IInv, ShellsOwned
      <3>3. QED
        BY <2>1, <3>1, <3>2 DEF IInv, TypeOK
    <2>6. QED
      BY <2>4, <2>5 DEF ShellsOwned
  <1>8. ASSUME NEW p \in Pane, Close(p) PROVE ShellsOwned'
    BY <1>8, KillFacts DEF Close, IInv, ShellsOwned, TypeOK
  <1>9. CASE \/ \E c \in Conn : Subscribe(c)
             \/ \E c \in Conn : Relay(c)
             \/ \E c \in Conn : Gone(c)
             \/ \E c \in Conn : Wedged(c)
             \/ Activate
             \/ \E p \in Pane : Opened(p)
             \/ \E p \in Pane : Closed(p)
             \/ \E p \in Pane : ExitEvent(p)
             \/ Quit
             \/ \E p \in Pane : SeesExit(p)
             \/ \E p \in Pane : SeesDrop(p)
    BY <1>0, <1>9
       DEF Subscribe, Relay, Gone, Wedged, Activate, Opened, Closed, ExitEvent, Quit, SeesExit, SeesDrop, registry, shells
  <1>10. CASE UNCHANGED vars
    BY <1>0, <1>10 DEF vars, registry, shells
  <1>11. QED
    BY <1>1, <1>2, <1>3, <1>4, <1>5, <1>6, <1>7, <1>8, <1>9, <1>10
       DEF Next, Handler, Reader, Update

LEMMA HangsStep == IInv /\ [Next]_vars => NobodyHangs'
  <1> SUFFICES ASSUME IInv, [Next]_vars PROVE NobodyHangs'
    OBVIOUS
  <1>0. CASE UNCHANGED <<at, got, shellAt, subs>>
    BY <1>0 DEF IInv, NobodyHangs, Done
  <1>1. ASSUME NEW c \in Conn, Look(c) PROVE NobodyHangs'
    BY <1>1, DoneIs, DoneIsNext, LookFacts DEF IInv, NobodyHangs, TypeOK
  <1>2. ASSUME NEW c \in Conn, Register(c) PROVE NobodyHangs'
    BY <1>2, DoneIs, DoneIsNext
       DEF Register, IInv, NobodyHangs, TypeOK, HandlersOK, Reaped
  <1>3. ASSUME NEW c \in Conn, Subscribe(c) PROVE NobodyHangs'
    BY <1>3, Bounds, DoneIs, DoneIsNext
       DEF Subscribe, IInv, NobodyHangs, TypeOK, SubscribersOK, HandlersOK
  <1>4. ASSUME NEW c \in Conn, Relay(c) PROVE NobodyHangs'
    BY <1>4, DoneIs, DoneIsNext
       DEF Relay, IInv, NobodyHangs, TypeOK, Returned, shells
  <1>5. ASSUME NEW c \in Conn, Gone(c) PROVE NobodyHangs'
    BY <1>5, DoneIs, DoneIsNext DEF Gone, IInv, NobodyHangs, TypeOK, Returned
  <1>6. ASSUME NEW c \in Conn, Wedged(c) PROVE NobodyHangs'
    BY <1>6, DoneIs, DoneIsNext DEF Wedged, IInv, NobodyHangs, conns
  <1>7. ASSUME NEW s \in Shell, ShellExits(s) PROVE NobodyHangs'
    BY <1>7, DoneIs, DoneIsNext DEF ShellExits, IInv, NobodyHangs, conns
  <1>8. ASSUME NEW s \in Shell, Finish(s) PROVE NobodyHangs'
    BY <1>8, DoneIs, DoneIsNext DEF Finish, IInv, NobodyHangs, TypeOK, conns
  <1>9. ASSUME NEW s \in Shell, Unregister(s) PROVE NobodyHangs'
    BY <1>9, DoneIs, DoneIsNext DEF Unregister, IInv, NobodyHangs, Reaped, conns
  <1>10. ASSUME NEW L \in sent, SetLayout(L) PROVE NobodyHangs'
    BY <1>10, DoneIs, DoneIsNext, KillFacts
       DEF SetLayout, IInv, NobodyHangs, conns
  <1>11. ASSUME Activate PROVE NobodyHangs'
    BY <1>11, DoneIs, DoneIsNext, AttachFacts
       DEF Activate, IInv, NobodyHangs, TypeOK, shells, conns
  <1>12. ASSUME Open PROVE NobodyHangs'
    BY <1>12, DoneIs, DoneIsNext, OpenFacts DEF IInv, NobodyHangs, TypeOK
  <1>13. ASSUME NEW p \in Pane, Opened(p) PROVE NobodyHangs'
    BY <1>13, DoneIs, DoneIsNext, AttachFacts
       DEF Opened, IInv, NobodyHangs, shells
  <1>14. ASSUME NEW p \in Pane, Close(p) PROVE NobodyHangs'
    BY <1>14, DoneIs, DoneIsNext, KillFacts DEF Close, IInv, NobodyHangs, conns
  <1>15. ASSUME NEW p \in Pane, Closed(p) PROVE NobodyHangs'
    BY <1>15, DoneIs, DoneIsNext DEF Closed, IInv, NobodyHangs, Cut, shells
  <1>16. ASSUME Quit PROVE NobodyHangs'
    BY <1>16, DoneIs, DoneIsNext DEF Quit, IInv, NobodyHangs, Cut, shells
  <1>17. ASSUME NEW p \in Pane, SeesExit(p) PROVE NobodyHangs'
    BY <1>17, DoneIs, DoneIsNext DEF SeesExit, IInv, NobodyHangs, shells
  <1>18. ASSUME NEW p \in Pane, SeesDrop(p) PROVE NobodyHangs'
    BY <1>18, DoneIs, DoneIsNext, AttachFacts
       DEF SeesDrop, IInv, NobodyHangs, shells
  <1>19. CASE \/ \E p \in Pane : ExitEvent(p)
    BY <1>0, <1>19 DEF ExitEvent, shells, conns
  <1>20. CASE UNCHANGED vars
    BY <1>0, <1>20 DEF vars, shells, conns
  <1>21. QED
    BY <1>1, <1>2, <1>3, <1>4, <1>5, <1>6, <1>7, <1>8, <1>9, <1>10, <1>11, <1>12, <1>13, <1>14, <1>15, <1>16, <1>17, <1>18, <1>19, <1>20
       DEF Next, Handler, Reader, Update

-----------------------------------------------------------------------------
LEMMA Inductive == IInv /\ [Next]_vars => IInv'
  <1>1. IInv => TypeOK
    BY DEF IInv
  <1>2. QED
    BY <1>1, TypeStep, TableStep, HandlersStep, SubscribersStep, NamesStep,
       OwnedStep, HangsStep DEF IInv

\* The table of the daemon, its handlers and the names it has handed out fit
\* together in every reachable state (GetOrCreate, Attach, finish, Open).
THEOREM Invariance == Spec => []IInv
  BY InitInv, Inductive, PTL DEF Spec

\* Every shell that runs is in the table under its own pane, however many
\* handlers race to start one (GetOrCreate).
THEOREM ShellsStayOwned == Spec => []ShellsOwned
  <1>1. IInv => ShellsOwned
    BY DEF IInv
  <1>2. QED
    BY Invariance, <1>1, PTL

\* No handler is subscribed to a shell that is done, so its channel is closed
\* and it returns (Attach, finish, handleTerminalAttach).
THEOREM NobodyEverHangs == Spec => []NobodyHangs
  <1>1. IInv => NobodyHangs
    BY DEF IInv
  <1>2. QED
    BY Invariance, <1>1, PTL

=============================================================================
