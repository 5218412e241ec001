---------------------------- MODULE MCScalarAlu ----------------------------
(* All instructions, for the runs of ScalarAlu.                            *)
EXTENDS ScalarAlu

AllOps == SOP2Ops \cup SOP2PairOps \cup SOPKOps \cup SOPCOps \cup SOP1Ops \cup SOP1PairOps
=============================================================================
