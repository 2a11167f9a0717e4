---------------------------- MODULE EcOpSegment ----------------------------
(***************************************************************************)
(* The segment accounting of the EC-op builtin runner,                     *)
(* src/src/vm/runners/builtin_runner/ec_op.rs: the runner record, its      *)
(* segment and initial stack, the used and allocated cells, and            *)
(* final_stack's check of the stop pointer the program returns.  These     *)
(* are pure functions of the runner, the step count, the segments' used    *)
(* sizes and memory; CairoRun calls them from the runner's phases.         *)
(***************************************************************************)
EXTENDS Integers, MathKernel

CONSTANTS
  None,     \* Option::None
  NoValue   \* content of a memory cell nobody has written

CELLS_PER_EC_OP == 7
INPUT_CELLS_PER_EC_OP == 5

(* MaybeRelocatable, as one record shape *)
Felt(n) == [int |-> TRUE, seg |-> 0, off |-> n]
Ptr(s, o) == [int |-> FALSE, seg |-> s, off |-> o]
IsPtr(v) == v # NoValue /\ ~v.int

(* EcOpBuiltinRunner::new *)
New(ratio, included) ==
  [base |-> 0, ratio |-> ratio, cells_per_instance |-> CELLS_PER_EC_OP,
   n_input_cells |-> INPUT_CELLS_PER_EC_OP, stop_ptr |-> None,
   included |-> included, instances_per_component |-> 1]

(* initialize_segments: the builtin gets the next segment *)
InitializeSegments(b, seg) == [b EXCEPT !.base = seg]

InitialStack(b) == IF b.included THEN <<Ptr(b.base, 0)>> ELSE <<>>

GetMemorySegmentAddresses(b) == <<"ec_op", <<b.base, b.stop_ptr>>>>

GetAllocatedMemoryUnits(b, step) ==
  LET q == SafeDiv(step, b.ratio)
  IN  IF q.ok THEN Ok(b.cells_per_instance * q.val)
      ELSE Err("ErrorCalculatingMemoryUnits")

(* sizes: segment index -> used size, or None before they are computed *)
GetUsedCells(b, sizes) ==
  IF b.base < 0 THEN Err("AddressInTemporarySegment")
  ELSE IF sizes = None \/ b.base \notin DOMAIN sizes THEN Err("MissingSegmentUsedSizes")
  ELSE Ok(sizes[b.base])

\* Mutant: the used cells not compared with the allocated size.
GetUsedCellsAndAllocatedSizeNoBound(b, step, sizes) ==
  IF step < b.ratio * b.instances_per_component THEN Err("InsufficientAllocatedCells")
  ELSE LET used == GetUsedCells(b, sizes)
           q    == SafeDiv(step, b.ratio)
       IN  IF ~used.ok THEN used
           ELSE IF ~q.ok THEN Err("InsufficientAllocatedCells")
           ELSE Ok(<<used.val, b.cells_per_instance * q.val>>)

GetUsedCellsAndAllocatedSize(b, step, sizes) ==
  IF step < b.ratio * b.instances_per_component THEN Err("InsufficientAllocatedCells")
  ELSE LET used == GetUsedCells(b, sizes)
           q    == SafeDiv(step, b.ratio)
       IN  IF ~used.ok THEN used
           ELSE IF ~q.ok THEN Err("InsufficientAllocatedCells")
           ELSE IF used.val > b.cells_per_instance * q.val
                THEN Err("InsufficientAllocatedCells")
           ELSE Ok(<<used.val, b.cells_per_instance * q.val>>)

\* Mutant: floor division in place of div_ceil.
GetUsedInstancesFloor(b, sizes) ==
  LET u == GetUsedCells(b, sizes)
  IN  IF u.ok THEN Ok(u.val \div b.cells_per_instance) ELSE u

GetUsedInstances(b, sizes) ==
  LET u == GetUsedCells(b, sizes)
  IN  IF u.ok THEN Ok((u.val + b.cells_per_instance - 1) \div b.cells_per_instance)
      ELSE u

(* final_stack(pointer): the stop pointer at pointer - 1 must lie in the   *)
(* builtin's segment, just past its last used instance; a builtin the      *)
(* program does not include returns the pointer untouched.  Ok carries     *)
(* <<new pointer, stop_ptr>>.                                              *)
FinalStack(b, mem, pointer, sizes) ==
  LET stop == IF Ptr(pointer.seg, pointer.off - 1) \in DOMAIN mem
              THEN mem[Ptr(pointer.seg, pointer.off - 1)] ELSE NoValue
      n    == GetUsedInstances(b, sizes)
  IN  IF ~b.included THEN Ok(<<pointer, b.base>>)
      ELSE IF pointer.off < 1 THEN Err("FinalStack")
      ELSE IF ~IsPtr(stop) THEN Err("FinalStack")
      ELSE IF stop.seg # b.base THEN Err("InvalidStopPointer")
      ELSE IF ~n.ok THEN Err("FinalStack")
      ELSE IF stop.off # n.val * b.cells_per_instance THEN Err("InvalidStopPointer")
      ELSE Ok(<<Ptr(pointer.seg, pointer.off - 1), stop.off>>)
=============================================================================
