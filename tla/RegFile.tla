------------------------------ MODULE RegFile ------------------------------
(***************************************************************************)
(* The scalar registers of a warp: getSreg, setSreg, getBitmaskSreg and    *)
(* setBitmaskSreg of src/model/WarpState.cpp.  Register numbers below      *)
(* MAX_RESERVED_SREG_NUM are the first cells of m_sreg, the next           *)
(* m_kernel_const_reg_num numbers are a window on the constant buffer of   *)
(* the kernel, and the numbers above it are the remaining cells.  A value  *)
(* is the set of its bits.                                                 *)
(***************************************************************************)
EXTENDS Integers

CONSTANTS
    Cells,      \* the size of m_sreg
    Reserved,   \* MAX_RESERVED_SREG_NUM
    ConstNum,   \* m_kernel_const_reg_num
    Bits,       \* the bits of a register
    Written     \* the register numbers the program writes

Index == 0..Cells+ConstNum-1
Constant == { r \in Index : Reserved <= r /\ r < Reserved + ConstNum }
Contents == SUBSET Bits

ASSUME RegAssumption ==
    /\ Cells \in Nat /\ Reserved \in Nat /\ ConstNum \in Nat
    /\ Reserved <= Cells
    /\ Written \subseteq Index

VARIABLES sreg, constBuffer

RegVars == <<sreg, constBuffer>>

(* m_sreg is not initialised.                                              *)
RegInit ==
    /\ sreg \in [0..Cells-1 -> Contents]
    /\ constBuffer \in [0..ConstNum-1 -> Contents]

(* The mutant reads the registers above the window one cell too low.       *)
getSregShort(r) ==
    IF r < Reserved THEN sreg[r]
    ELSE IF r < Reserved + ConstNum THEN constBuffer[r - Reserved]
    ELSE sreg[r - ConstNum - 1]

getSreg(r) ==
    IF r < Reserved THEN sreg[r]
    ELSE IF r < Reserved + ConstNum THEN constBuffer[r - Reserved]
    ELSE sreg[r - ConstNum]

(* The cell that setSreg writes: the number of the register, also inside   *)
(* the window and at the first number above it.                            *)
Slot(r) == IF r > Reserved + ConstNum THEN r - ConstNum ELSE r

setSreg(r, v) ==
    /\ Slot(r) < Cells
    /\ sreg' = [sreg EXCEPT ![Slot(r)] = v]
    /\ UNCHANGED constBuffer

(* setBitmaskSreg: read the register, change the bit of a lane, write it.  *)
setBitmaskSreg(r, b, lane) ==
    setSreg(r, IF b THEN getSreg(r) \cup {lane} ELSE getSreg(r) \ {lane})

RegNext ==
    \E r \in Written :
        \/ \E v \in Contents : setSreg(r, v)
        \/ \E b \in BOOLEAN, lane \in Bits : setBitmaskSreg(r, b, lane)

RegSpec == RegInit /\ [][RegNext]_RegVars

-----------------------------------------------------------------------------
RegTypeOK ==
    /\ sreg \in [0..Cells-1 -> Contents]
    /\ constBuffer \in [0..ConstNum-1 -> Contents]

(* Read through getSreg, the file is a file of registers, whichever        *)
(* numbers are written, those of the window and of its upper edge too: a   *)
(* write changes one number at most, two numbers never share a cell, and   *)
(* the constants never change.  That the number it changes is the one the  *)
(* program has named is AboveWindowKept below.                             *)
View == [r \in Index |-> getSreg(r)]

Abstract == INSTANCE Registers WITH reg <- View, Values <- Contents

ImplementsRegisters == Abstract!RSpec

(* The registers above the window can be written and read ("Sreg have a    *)
(* hole which is decoded as cons reg").                                    *)
AboveWindowKept ==
    [][\A r \in Written \ Constant : \A v \in Contents : setSreg(r, v) => getSreg(r)' = v]_RegVars

(* A write to a constant register is skipped ("skip const write").         *)
ConstWriteSkipped ==
    [][\A r \in Written \cap Constant : \A v \in Contents :
          setSreg(r, v) => \A q \in Index : getSreg(q)' = getSreg(q)]_RegVars
=============================================================================
