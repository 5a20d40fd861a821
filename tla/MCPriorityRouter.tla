-------------------------- MODULE MCPriorityRouter --------------------------
(* Instances of PriorityRouter for TLC.                                     *)
EXTENDS PriorityRouter

\* The default weights of the processor.
ThreeTwoOne == <<3, 2, 1>>
=============================================================================
