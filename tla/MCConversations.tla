--------------------------- MODULE MCConversations ---------------------------
\* Two processes: one makes any call, the other is a TUI or waits for a job.
EXTENDS Conversations

CONSTANTS ru, other

Roles ==
    [c \in Clients |-> IF c = ru THEN CallNames ELSE {"AttachTUI", "WaitJob"}]
=============================================================================
