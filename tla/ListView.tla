------------------------------ MODULE ListView ------------------------------
(***************************************************************************)
(* What a page that shows a list promises, however it talks to the server: *)
(* it never makes a list up.  While it is open it shows nothing yet, or a  *)
(* listing that the server really gave it since it was opened, as it was   *)
(* given; the listings it asked for may arrive in any order.               *)
(***************************************************************************)
CONSTANTS
    Listing,    \* what the server may list
    Nothing     \* the listing that a page shows before the first one

VARIABLES
    store,      \* what the server would list now
    flying,     \* listings taken for this page and not shown so far
    view        \* what the page shows

vars == <<store, flying, view>>

Init ==
    /\ store \in Listing
    /\ flying = {}
    /\ view = Nothing

Change ==
    /\ store' \in Listing
    /\ UNCHANGED <<flying, view>>

Take ==
    /\ flying' = flying \union {store}
    /\ UNCHANGED <<store, view>>

\* A listing is shown; the same one may be on its way once more.
Show ==
    /\ \E listing \in flying :
        /\ view' = listing
        /\ flying' \in {flying, flying \ {listing}}
    /\ UNCHANGED store

Leave ==
    /\ view' = Nothing
    /\ flying' = {}
    /\ UNCHANGED store

Next == Change \/ Take \/ Show \/ Leave

Spec == Init /\ [][Next]_vars
=============================================================================
