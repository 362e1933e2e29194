------------------------- MODULE MCOperatorManager -------------------------
(***************************************************************************)
(* Three managers and three graphs for TLC: an operator that occurs twice  *)
(* with different sizes, graphs that share an operator, and one that names *)
(* a transfer itself.                                                      *)
(***************************************************************************)
EXTENDS OperatorManager

TaskOf(o, mib) == [op |-> o, inputSize_MiB |-> mib]

ThreeGraphs ==
  {<<TaskOf("LOGIC_START", 200), TaskOf("AFFINE", 200), TaskOf("AFFINE", 400),
     TaskOf("LOGIC_END", 200)>>,
   <<TaskOf("AFFINE", 200), TaskOf("CONV_1D", 300), TaskOf("LOGIC_END", 200)>>,
   <<TaskOf("MAP", 600), TaskOf("CONV_1D", 200)>>}
=============================================================================
