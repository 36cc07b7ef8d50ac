------------------------------ MODULE ApiCalls ------------------------------
(***************************************************************************)
(* The calls of one page of the web front end (request in                  *)
(* web/src/lib/api.ts).                                                    *)
(*                                                                         *)
(* A handler awaits fetch: the call is sent, the server executes it, and   *)
(* its answer or its error runs the rest of the handler.  Several calls    *)
(* may be out, and nothing orders their executions or their answers.  A    *)
(* page keeps its calls in slots; a call record has a kind, "idle" for a   *)
(* free slot, a state, and mine: whether the component that sent it is     *)
(* still mounted, so that its hooks still take effect.                     *)
(***************************************************************************)
EXTENDS Integers

CONSTANT MaxCalls   \* bound on the calls of a page that are out at once

ASSUME CallsAssumption == MaxCalls \in Nat \ {0}

Slot == 1 .. MaxCalls

CallState == {"sent", "ok", "error"}

\* The free slots: the first one only, since slots are all alike.
Free(calls) ==
    {s \in Slot : /\ calls[s].kind = "idle"
                  /\ \A r \in Slot : calls[r].kind = "idle" => s <= r}

AllIdle(calls) == \A s \in Slot : calls[s].kind = "idle"

\* The calls of a kind whose answers still reach the page.
Out(calls, kind) == {s \in Slot : calls[s].kind = kind /\ calls[s].mine}

\* res.ok decides between the JSON of the answer and an exception.
Back(calls, s, kind) == calls[s].kind = kind /\ calls[s].state # "sent"

Succeeded(calls, s) == calls[s].state = "ok"

\* The component is gone: setting its state has no effect any more.
Orphaned(calls) == [s \in Slot |-> [calls[s] EXCEPT !.mine = FALSE]]
=============================================================================
