--------------------------- MODULE MCComputation ---------------------------
(***************************************************************************)
(* What the application computes on one thread: a behaviour either asks    *)
(* the algorithms one query (MCAlgorithms) or feeds the detector packet    *)
(* after packet (MCDetection).  The two share no state.                    *)
(***************************************************************************)
EXTENDS MCDetection, MCAlgorithms

NothingFed == output = <<>>

ComputeInit == Init /\ AskInit
ComputeNext ==
    \/ NothingFed /\ AskNext /\ UNCHANGED vars
    \/ Asked("none") /\ Next /\ UNCHANGED query
ComputeSpec == ComputeInit /\ [][ComputeNext]_<<vars, query>>
=============================================================================
