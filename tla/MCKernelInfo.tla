---------------------------- MODULE MCKernelInfo ----------------------------
(* Grids and blocks of up to three in each dimension, empty ones included. *)
EXTENDS KernelInfo

SmallDims == [x : 0..3, y : 0..2, z : 0..2]
=============================================================================
