------------------------------ MODULE Protocol ------------------------------
(***************************************************************************)
(* Who says what on a connection: what each function of the client library *)
(* (internal/client) sends and how it reads the answer, and what the       *)
(* daemon's handler of each request (internal/server) answers.  The two    *)
(* sides agree by hand only: a message is a type and a payload of any      *)
(* registered kind.                                                        *)
(***************************************************************************)

\* The rows of all tables in one; no two tables have a row of one name.
Merged(tables) ==
    [name \in UNION {DOMAIN t : t \in tables} |->
        (CHOOSE t \in tables : name \in DOMAIN t)[name]]

\* A call: the message sent, and what its answer is read as: a payload of
\* that name, "lines" up to a ListEnd, "ack" for anything that is no error,
\* or "nothing".
Ask(sends, reads) == [sends |-> sends, reads |-> reads]

\* An answer, and whether the handler may answer with an error instead.
Answer(type, carries, mayRefuse) ==
    [type |-> type, carries |-> carries, mayRefuse |-> mayRefuse]

Ack(mayRefuse) == Answer("ActionOK", "nothing", mayRefuse)

Lines == [type |-> "ListEnd", carries |-> "Slots", mayRefuse |-> FALSE]

-----------------------------------------------------------------------------
\* The client library.

QueueCalls ==
    [ListJobs      |-> Ask("List", "lines"),
     KillServer    |-> Ask("KillServer", "nothing"),
     ClearFinished |-> Ask("ClearFinished", "ack"),
     GetVersion    |-> Ask("GetVersion", "Version"),
     RemoveJob     |-> Ask("RemoveJob", "ack")]

\* One connection for all of them; see Conversations!AskAgain.
BatchCalls ==
    [RemoveJobs     |-> Ask("RemoveJob", "ack"),
     KillJobs       |-> Ask("KillJob", "ack"),
     MakeUrgentJobs |-> Ask("Urgent", "ack"),
     RerunJobs      |-> Ask("Rerun", "ack")]

SubmitCalls == [SubmitJob |-> Ask("NewJob", "JobID")]

OutputCalls ==
    [Rerun     |-> Ask("Rerun", "JobID"),
     GetState  |-> Ask("GetState", "State"),
     GetOutput |-> Ask("AskOutput", "Output")]

SlotCalls ==
    [GetInfo     |-> Ask("Info", "Info"),
     SetMaxSlots |-> Ask("SetMaxSlots", "ack"),
     GetMaxSlots |-> Ask("GetMaxSlots", "Slots"),
     MakeUrgent  |-> Ask("Urgent", "ack"),
     SwapJobs    |-> Ask("SwapJobs", "ack")]

RunCalls ==
    [WaitJob      |-> Ask("WaitJob", "Result"),
     KillJob      |-> Ask("KillJob", "ack"),
     KillAllJobs  |-> Ask("KillAll", "ack"),
     CountRunning |-> Ask("CountRunning", "Count")]

JobCalls ==
    [GetLabel      |-> Ask("GetLabel", "Label"),
     SetJobLabel   |-> Ask("SetJobLabel", "ack"),
     SetJobTimeout |-> Ask("SetJobTimeout", "ack"),
     LastID        |-> Ask("LastID", "JobID"),
     GetCmd        |-> Ask("GetCmd", "Cmd")]

SettingCalls ==
    [GetEnv      |-> Ask("GetEnv", "Env"),
     SetEnv      |-> Ask("SetEnv", "ack"),
     UnsetEnv    |-> Ask("UnsetEnv", "ack"),
     GetLogdir   |-> Ask("GetLogdir", "Logdir"),
     SetLogdir   |-> Ask("SetLogdir", "ack"),
     ResetServer |-> Ask("Reset", "ack")]

SessionCalls ==
    [SessionList   |-> Ask("SessionList", "SessionList"),
     SessionCreate |-> Ask("SessionCreate", "ack"),
     SessionRename |-> Ask("SessionRename", "ack"),
     SessionDelete |-> Ask("SessionDelete", "ack"),
     SessionMove   |-> Ask("SessionMove", "ack")]

GroupCalls ==
    [GroupList              |-> Ask("GroupList", "GroupList"),
     GroupCreate            |-> Ask("GroupCreate", "ack"),
     GroupRename            |-> Ask("GroupRename", "ack"),
     GroupDelete            |-> Ask("GroupDelete", "ack"),
     ListJobsInSession      |-> Ask("ListSession", "lines"),
     ClearFinishedInSession |-> Ask("ClearFinishedSession", "ack"),
     TreeData               |-> Ask("TreeList", "TreeData"),
     RequestJobsView        |-> Ask("RequestJobsView", "ack")]

PaneCalls ==
    [AttachTUI         |-> Ask("TUIAttach", "ack"),
     OpenTerminal      |-> Ask("TerminalOpen", "TerminalName"),
     GetTerminalLayout |-> Ask("TerminalGetLayout", "TerminalLayout"),
     SetTerminalLayout |-> Ask("TerminalSetLayout", "ack"),
     ListTerminals     |-> Ask("TerminalListAll", "TerminalListAll"),
     KillTerminal      |-> Ask("TerminalKill", "ack")]

CallTables ==
    {QueueCalls, BatchCalls, SubmitCalls, OutputCalls, SlotCalls, RunCalls,
     JobCalls, SettingCalls, SessionCalls, GroupCalls, PaneCalls}

Calls == Merged(CallTables)

CallNames == DOMAIN Calls

\* The calls `ru' makes with the ID of the last job when none is given, and
\* SubmitJob, whose -d takes the last job too.
ByID ==
    {"GetOutput", "GetInfo", "GetState", "RemoveJob", "Rerun", "WaitJob", "KillJob",
     "MakeUrgent", "GetLabel", "GetCmd", "SubmitJob"}
IsBatch(call) == call \in DOMAIN BatchCalls

-----------------------------------------------------------------------------
\* The daemon.  WaitJob, TUIAttach and KillServer have actions of their own.

SubmitAnswers ==
    [NewJob     |-> Answer("NewJobOK", "JobID", FALSE),
     Rerun      |-> Answer("NewJobOK", "JobID", TRUE),
     List       |-> Lines,
     GetVersion |-> Answer("Version", "Version", FALSE)]

QueueAnswers ==
    [RemoveJob   |-> Answer("RemoveJobOK", "nothing", TRUE),
     GetState    |-> Answer("AnswerState", "State", TRUE),
     AskOutput   |-> Answer("AnswerOutput", "Output", TRUE),
     Info        |-> Answer("InfoData", "Info", TRUE),
     SetMaxSlots |-> Ack(TRUE),
     GetMaxSlots |-> Answer("GetMaxSlotsOK", "Slots", FALSE),
     Urgent      |-> Answer("UrgentOK", "nothing", TRUE),
     SwapJobs    |-> Answer("SwapJobsOK", "nothing", TRUE)]

\* Mutant of JobAnswers: GetCmd answers with what was copied from GetLabel.
JobAnswersCopied ==
    [KillJob       |-> Ack(TRUE),
     CountRunning  |-> Answer("CountRunningOK", "Count", FALSE),
     GetLabel      |-> Answer("AnswerLabel", "Label", TRUE),
     SetJobLabel   |-> Ack(TRUE),
     SetJobTimeout |-> Ack(TRUE),
     LastID        |-> Answer("LastIDOK", "JobID", FALSE),
     GetCmd        |-> Answer("AnswerLabel", "Label", TRUE)]

JobAnswers ==
    [KillJob       |-> Ack(TRUE),
     CountRunning  |-> Answer("CountRunningOK", "Count", FALSE),
     GetLabel      |-> Answer("AnswerLabel", "Label", TRUE),
     SetJobLabel   |-> Ack(TRUE),
     SetJobTimeout |-> Ack(TRUE),
     LastID        |-> Answer("LastIDOK", "JobID", FALSE),
     GetCmd        |-> Answer("AnswerCmd", "Cmd", TRUE)]

SettingAnswers ==
    [GetEnv    |-> Answer("AnswerEnv", "Env", FALSE),
     SetEnv    |-> Ack(TRUE),
     UnsetEnv  |-> Ack(TRUE),
     GetLogdir |-> Answer("AnswerLogdir", "Logdir", FALSE),
     SetLogdir |-> Ack(TRUE)]

SessionAnswers ==
    [SessionList          |-> Answer("SessionListOK", "SessionList", FALSE),
     SessionCreate        |-> Answer("SessionCreateOK", "nothing", TRUE),
     SessionRename        |-> Answer("SessionRenameOK", "nothing", TRUE),
     SessionDelete        |-> Answer("SessionDeleteOK", "nothing", TRUE),
     ListSession          |-> Lines,
     ClearFinishedSession |-> Ack(FALSE),
     TreeList             |-> Answer("TreeListOK", "TreeData", FALSE),
     RequestJobsView      |-> Answer("RequestJobsViewOK", "nothing", FALSE),
     GroupList            |-> Answer("GroupListOK", "GroupList", FALSE),
     GroupCreate          |-> Answer("GroupCreateOK", "nothing", TRUE),
     GroupRename          |-> Answer("GroupRenameOK", "nothing", TRUE),
     GroupDelete          |-> Answer("GroupDeleteOK", "nothing", TRUE),
     SessionMove          |-> Answer("SessionMoveOK", "nothing", TRUE)]

PaneAnswers ==
    [TerminalKill      |-> Ack(FALSE),
     TerminalOpen      |-> Answer("TerminalOpenOK", "TerminalName", TRUE),
     TerminalGetLayout |-> Answer("TerminalLayout", "TerminalLayout", FALSE),
     TerminalSetLayout |-> Ack(FALSE),
     TerminalListAll   |-> Answer("TerminalListAllOK", "TerminalListAll", FALSE)]

\* dispatch answers these two itself; handleReset is in server.go too.
InlineAnswers == [ClearFinished |-> Ack(FALSE), KillAll |-> Ack(FALSE), Reset |-> Ack(FALSE)]

AnswerTables ==
    {SubmitAnswers, QueueAnswers, JobAnswers, SettingAnswers, SessionAnswers,
     PaneAnswers, InlineAnswers}

Answers == Merged(AnswerTables)

\* How dispatch treats a request: it is answered at once, or the connection
\* waits for a job, becomes the TUI's, or ends the daemon.
Dispatch(request) ==
    IF request \in DOMAIN Answers THEN "answer"
    ELSE CASE request = "WaitJob" -> "wait"
           [] request = "TUIAttach" -> "attach"
           [] request = "KillServer" -> "shutdown"
           [] OTHER -> "unknown"

Error == [type |-> "Error", carries |-> "Error"]

\* What a handler may put on the connection: one message, or a list.
Replies(request) ==
    LET a == Answers[request]
        yes == [type |-> a.type, carries |-> a.carries]
        line == [type |-> "ListLine", carries |-> "ListLine"]
    IN  (IF a.type = "ListEnd" THEN {<<yes>>, <<line, yes>>} ELSE {<<yes>>})
        \cup (IF a.mayRefuse THEN {<<Error>>} ELSE {})

\* How a call reads a message: recvOK, PayloadAs and the loops over lists.
\* SubmitJob knows one answer and no errors.
Reading(call, msg) ==
    LET reads == Calls[call].reads IN
    IF msg = Error
    THEN IF call = "SubmitJob" THEN "unexpected" ELSE "refused"
    ELSE CASE reads = "ack" -> "success"
           [] reads = "lines" /\ msg.carries = "ListLine" -> "more"
           [] reads = "lines" /\ msg.type = "ListEnd" /\ msg.carries = "Slots" -> "success"
           [] reads = msg.carries -> "success"
           [] OTHER -> "unexpected"
=============================================================================
