----------------------------- MODULE MCPicker -----------------------------
(***************************************************************************)
(* A picker with one pipeline.  Its constants keep the order of the real   *)
(* ones: the burn-in (6.3 s at 100 Hz) ends before the mask of the         *)
(* detector (8 s), which is longer than the window of the characteristic   *)
(* function (4 s).                                                         *)
(***************************************************************************)
EXTENDS Picker

CONSTANT p1
MCPipelines == {p1}
MCWindow == [p \in MCPipelines |-> 2]
MCEnvelopeLength == [p \in MCPipelines |-> 2]
MCNumberOfCascades == [p \in MCPipelines |-> 0]
MCFilterStartUp == [p \in MCPipelines |-> 12]
===========================================================================
