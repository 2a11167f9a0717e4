------------------------- MODULE MC_AddressResolver -------------------------
(* A frame with fp = (1, 2): below fp, cell (1, 0) holds a pointer to the   *)
(* data segment 2 and cell (1, 1) a felt too big for usize; the program    *)
(* stores small felts and pointers from fp = ap up to (1, 4) and may open  *)
(* one new tracking group.                                                  *)
EXTENDS AddressResolver

Ptr(o) == Reloc(2, o)
Exec(o) == Reloc(EXEC, o)

FrameMem(arg) ==
  [a \in {Exec(o) : o \in 0 .. 6} \cup {Ptr(0), Ptr(1)} |->
     CASE a = Exec(0) -> Ptr(0)
       [] a = Exec(1) -> Felt(arg)
       [] a = Ptr(0)  -> Felt(5)
       [] OTHER       -> Unknown]

MCInitMems == {FrameMem(USIZE_BOUND)}
MCStoreVals == {Felt(1), Ptr(1)}
MCInsertVals == {Felt(1)}
MCOff1 == {-3, -1, 0, 1}
\* Inputs the compiler does not emit: a reference tracked in a later group
\* than the hint, and negative constant second offsets.  Given to
\* ForeignTrackings or Off2, they reach the underflow at
\* hint_processor_utils.rs:112 and the negative offset at :95.
MCTracking == {[group |-> 0, offset |-> 1]}
MCOff2Neg == {-1, 0}
=============================================================================
