------------------------------ MODULE MCManage ------------------------------
EXTENDS Manage, TLC

\* A second session with a job that is over, and an empty group.
Small ==
    {[groups |-> {0, 1}, sessions |-> (0 :> 0 @@ 1 :> 0),
      jobs |-> (0 :> [session |-> 1, state |-> "finished"])]}

\* And jobs in every state.
Busy ==
    {[groups |-> {0, 1}, sessions |-> (0 :> 0 @@ 1 :> 0),
      jobs |-> (0 :> [session |-> 1, state |-> "finished"] @@
                1 :> [session |-> 0, state |-> "running"] @@
                2 :> [session |-> 1, state |-> "queued"])]}

=============================================================================
