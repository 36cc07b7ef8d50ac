--------------------------- MODULE MCPollingParts ---------------------------
(***************************************************************************)
(* An instance of PollingParts for TLC.                                    *)
(***************************************************************************)
EXTENDS PollingParts

\* One task, running or failed, and room for a retry.
SomeRows ==
    {[t \in 1 .. 2 |-> IF t = 1 THEN st ELSE "UNBORN"] : st \in {"RUNNING", "ERROR"}}
=============================================================================
