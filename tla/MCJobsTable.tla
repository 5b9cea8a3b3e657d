---------------------------- MODULE MCJobsTable -----------------------------
EXTENDS JobsTable, TLC

\* One job is over.
OneOver == {0 :> "finished"}

\* A filter that hides all but the first job.
FirstOnly == {{0}}

=============================================================================
