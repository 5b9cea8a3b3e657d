----------------------------- MODULE MCExecutor -----------------------------
EXTENDS Executor

\* The first job may be retried once, the second never.
OneRetry == <<1, 0>>
=============================================================================
