----------------------------- MODULE MCRegFile -----------------------------
(* The register numbers that are written.                                  *)
EXTENDS RegFile

AllNumbers == Index
OffTheWindow == Index \ Constant
=============================================================================
