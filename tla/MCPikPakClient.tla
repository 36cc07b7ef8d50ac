--------------------------- MODULE MCPikPakClient ---------------------------
(***************************************************************************)
(* Instances of PikPakClient for TLC.                                      *)
(***************************************************************************)
EXTENDS PikPakClient, TLC

Symmetry == Permutations(Call)

Stored(password, access, refresh, legacy) ==
    [live |-> TRUE, password |-> password, access |-> access, refresh |-> refresh,
     legacy |-> legacy]

\* An account in use whose secret has changed, a new one with a password, and
\* one that was created from a refresh token alone.
Rows == {Stored(TRUE, 1, 1, TRUE), Stored(TRUE, 0, 0, FALSE), Stored(FALSE, 0, 1, FALSE)}

=============================================================================
