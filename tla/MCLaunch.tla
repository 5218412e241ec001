------------------------------ MODULE MCLaunch ------------------------------
(* Grids and blocks for model-checking Launch.                             *)
EXTENDS Launch

Grid2x2 == Dim(2, 2, 1)
Grid3 == Dim(3, 1, 1)
Grid2 == Dim(2, 1, 1)
Grid1 == Dim(1, 1, 1)
Block1 == Dim(1, 1, 1)
Block2 == Dim(2, 1, 1)
=============================================================================
