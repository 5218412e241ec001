---------------------------- MODULE AddressSpace ----------------------------
(***************************************************************************)
(* The generic address space of src/isa/MemCommon.cpp: below the global    *)
(* heap lie the windows of the shared memories, one for each SM, and below *)
(* them those of the local memories, one for each thread of each SM.  The  *)
(* constants are those of coasm_define.h, which is outside the repository. *)
(* Here they are only assumed to leave room for every window.  They are    *)
(* small enough in the code for no product to wrap.                        *)
(***************************************************************************)
EXTENDS Integers

CONSTANTS
    NSM, NThreads,          \* the SMs, and the hardware threads of each
    SHARED_MEM_SIZE_MAX, LOCAL_MEM_SIZE_MAX,
    GLOBAL_HEAP_START, SHARED_GENERIC_START, LOCAL_GENERIC_START, STATIC_ALLOC_LIMIT

TOTAL_LOCAL_MEM_PER_SM == NThreads * LOCAL_MEM_SIZE_MAX

ASSUME LayoutAssumption ==
    /\ NSM \in Nat /\ NThreads \in Nat
    /\ SHARED_MEM_SIZE_MAX \in Nat /\ LOCAL_MEM_SIZE_MAX \in Nat
    /\ GLOBAL_HEAP_START \in Nat /\ SHARED_GENERIC_START \in Nat
    /\ LOCAL_GENERIC_START \in Nat /\ STATIC_ALLOC_LIMIT \in Nat
    /\ STATIC_ALLOC_LIMIT <= LOCAL_GENERIC_START
    /\ LOCAL_GENERIC_START + NSM * TOTAL_LOCAL_MEM_PER_SM <= SHARED_GENERIC_START
    /\ SHARED_GENERIC_START + NSM * SHARED_MEM_SIZE_MAX <= GLOBAL_HEAP_START

SM == 0..NSM-1
Thread == 0..NThreads-1
SharedAddr == 0..SHARED_MEM_SIZE_MAX-1
LocalAddr == 0..LOCAL_MEM_SIZE_MAX-1

(* Mutant: the start of the windows is forgotten.                          *)
shared_to_generic_raw(smid, addr) == smid * SHARED_MEM_SIZE_MAX + addr

SharedWindow(smid) == SHARED_GENERIC_START + smid * SHARED_MEM_SIZE_MAX
shared_to_generic(smid, addr) == SharedWindow(smid) + addr
isspace_shared(smid, addr) == ~(addr >= SharedWindow(smid + 1) \/ addr < SharedWindow(smid))
generic_to_shared(smid, addr) == addr - SharedWindow(smid)

LocalWindow(smid, hwtid) ==
    LOCAL_GENERIC_START + TOTAL_LOCAL_MEM_PER_SM * smid + LOCAL_MEM_SIZE_MAX * hwtid
local_to_generic(smid, hwtid, addr) == LocalWindow(smid, hwtid) + addr
isspace_local(smid, hwtid, addr) ==
    ~(addr >= LocalWindow(smid, hwtid + 1) \/ addr < LocalWindow(smid, hwtid))
generic_to_local(smid, hwtid, addr) == addr - LocalWindow(smid, hwtid)

isspace_global(addr) == addr >= GLOBAL_HEAP_START \/ addr < STATIC_ALLOC_LIMIT

whichspace(addr) ==
    IF isspace_global(addr) THEN "global"
    ELSE IF addr >= SHARED_GENERIC_START THEN "shared" ELSE "local"

(* A generic address lies in the shared memory of at most one SM, or in    *)
(* the local memory of at most one thread, and whichspace says in which.   *)
Unambiguous(g) ==
    /\ \A m, n \in SM : isspace_shared(m, g) /\ isspace_shared(n, g) => m = n
    /\ \A m, n \in SM, t, u \in Thread :
          isspace_local(m, t, g) /\ isspace_local(n, u, g) => m = n /\ t = u
    /\ \A m \in SM : isspace_shared(m, g) => whichspace(g) = "shared"
    /\ \A m \in SM, t \in Thread : isspace_local(m, t, g) => whichspace(g) = "local"
-----------------------------------------------------------------------------
(* The generic address of a shared address is recognised as shared, by     *)
(* whichspace and by the SM it belongs to and no other, and converts back. *)
SharedRoundTrip ==
    \A m, n \in SM, a \in SharedAddr :
        LET g == shared_to_generic(m, a)
        IN  /\ whichspace(g) = "shared"
            /\ isspace_shared(n, g) <=> m = n
            /\ generic_to_shared(m, g) = a

(* The same of the local memory of a thread: no other thread of any SM     *)
(* takes the address for its own.                                          *)
LocalRoundTrip ==
    \A m, n \in SM, t, u \in Thread, a \in LocalAddr :
        LET g == local_to_generic(m, t, a)
        IN  /\ whichspace(g) = "local"
            /\ isspace_local(n, u, g) <=> m = n /\ t = u
            /\ generic_to_local(m, t, g) = a
=============================================================================
