---------------------------- MODULE MCScheduler ----------------------------
(***************************************************************************)
(* Instances of Scheduler for TLC.  Space 0 is a full (or never            *)
(* synchronised) account, 1 one below the minimum, 3 a roomy one.          *)
(***************************************************************************)
EXTENDS Scheduler, TLC

LiveRow(p, f) ==
    [stored |-> "live", enabled |-> TRUE, status |-> "HEALTHY",
     lastDay |-> NoDate, exhaustedOn |-> NoDate, count |-> 0,
     prio |-> p, free |-> f, buildable |-> TRUE]

UnbornRow == [LiveRow(1, 0) EXCEPT !.stored = "unborn"]

Equal == [a \in Account |-> LiveRow(1, 3)]

OneUnborn == [Equal EXCEPT ![2] = UnbornRow]

RoomyAndTight == [Equal EXCEPT ![2] = LiveRow(1, 1)]

OneMisconfigured == [Equal EXCEPT ![2].buildable = FALSE]

\* Two accounts in service, or one and another that may be created, or one and
\* another that is healthy but whose proxy_url no client can be built with.
OperatorTables == {Equal, OneUnborn, OneMisconfigured}

TightTables == {RoomyAndTight}

EqualTables == {Equal}

FullOrRoomy == {0, 3}
AnySpace == {0, 1, 3}

NoNeed == [s \in Submission |-> 0]

\* One submission states a size that only the roomy account can take.
OneNeed == [NoNeed EXCEPT ![CHOOSE s \in Submission : TRUE] = 2]

Symmetry == Permutations(Submission)

=============================================================================
