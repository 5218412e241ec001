-------------------------------- MODULE Dim3 --------------------------------
(* The dim3 arithmetic of src/model/KernelInfo.cpp and inc/KernelInfo.h.   *)
EXTENDS Naturals

Dim(x, y, z) == [x |-> x, y |-> y, z |-> z]
Zero == Dim(0, 0, 0)

(* Mutants of the increment: x runs one too far, y is walked before x.     *)
IncrementFar(i, bound) ==
    IF i.x < bound.x THEN Dim(i.x + 1, i.y, i.z)
    ELSE IF i.y + 1 < bound.y THEN Dim(0, i.y + 1, i.z)
    ELSE Dim(0, 0, i.z + 1)
IncrementYFirst(i, bound) ==
    IF i.y + 1 < bound.y THEN Dim(i.x, i.y + 1, i.z)
    ELSE IF i.x + 1 < bound.x THEN Dim(i.x + 1, 0, i.z)
    ELSE Dim(0, 0, IF i.z < bound.z THEN i.z + 1 ELSE i.z)

(* increment_x_then_y_then_z: z stops at its bound, which ends the walk.   *)
Increment(i, bound) ==
    IF i.x + 1 < bound.x THEN Dim(i.x + 1, i.y, i.z)
    ELSE IF i.y + 1 < bound.y THEN Dim(0, i.y + 1, i.z)
    ELSE Dim(0, 0, IF i.z < bound.z THEN i.z + 1 ELSE i.z)

(* no_more_ctas_to_run, and the negation of more_threads_in_cta.           *)
NoMore(i, bound) == i.x >= bound.x \/ i.y >= bound.y \/ i.z >= bound.z

(* get_next_cta_id_single and get_next_thread_id.                          *)
Linear(i, bound) == i.x + bound.x * i.y + bound.x * bound.y * i.z

(* num_blocks and threads_per_cta.                                         *)
Count(bound) == bound.x * bound.y * bound.z
=============================================================================
