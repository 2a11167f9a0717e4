-------------------------------- MODULE EcOp --------------------------------
(***************************************************************************)
(* The EC-op builtin's deduction of src/src/vm/runners/builtin_runner/     *)
(* ec_op.rs (deduce_memory_cell, ec_op_impl, point_on_curve) over the      *)
(* point arithmetic of src/src/math_utils.rs (igcdex, div_mod, line_slope, *)
(* ec_add, ec_double_slope, ec_double).                                    *)
(*                                                                         *)
(* One builtin instance of CELLS_PER_EC_OP = 7 cells: inputs P.x, P.y,     *)
(* Q.x, Q.y, m and outputs R.x, R.y with R = P + m * Q on                  *)
(* y^2 = x^3 + Alpha * x + Beta over GF(Prime).  The program writes the    *)
(* input cells one at a time, in any order; between its writes the VM may  *)
(* ask deduce_memory_cell for any unwritten cell, and writes back a value  *)
(* it returns.  One step of the loop of ec_op_impl is one step here.  An   *)
(* error returned by deduction ends the run; a failed assert! panics.      *)
(***************************************************************************)
EXTENDS Integers, MathKernel

CONSTANTS
  Prime,         \* the field prime (felt::PRIME_STR in the code)
  Alpha,         \* curve coefficient alpha (Felt::one() in the code)
  Beta,          \* curve coefficient beta
  ScalarHeight,  \* ec_op_builtin.scalar_height: iterations of ec_op_impl
  Programs,      \* the input-cell values a program may write: [0..4 -> _]
  Unknown,       \* model value: an unwritten cell
  Reloc          \* model value: a relocatable (pointer) written to a cell

CELLS_PER_EC_OP == 7
INPUT_CELLS_PER_EC_OP == 5
InputCells == 0 .. INPUT_CELLS_PER_EC_OP - 1
Cells == 0 .. CELLS_PER_EC_OP - 1
\* EC_POINT_INDICES[2]
OUTPUT_INDICES == <<5, 6>>

VARIABLES
  want,     \* the values the program writes to the input cells
  mem,      \* the instance's cells: value, Reloc or Unknown
  dpc,      \* "idle", "loop" (inside ec_op_impl), "error", "panic"
  probe,    \* the output cell being deduced
  ps,       \* ec_op_impl's partial_sum
  dp,       \* ec_op_impl's doubled_point
  slope,    \* ec_op_impl's `slope`: m shifted right once per iteration
  iter,     \* iterations of ec_op_impl done
  result    \* the last outcome of deduce_memory_cell: [cell, outcome]

vars == <<want, mem, dpc, probe, ps, dp, slope, iter, result>>

(***************************************************************************)
(* ec_op.rs                                                                *)
(***************************************************************************)

\* point_on_curve, in field (Felt) arithmetic.
PointOnCurve(x, y, alpha, beta) ==
  (y * y - (x * x * x + alpha * x + beta)) % Prime = 0

P == <<mem[0], mem[1]>>
Q == <<mem[2], mem[3]>>

\* The first input cell that stops deduce_memory_cell's input loop: unwritten
\* (return Ok(None)) or not an integer (ExpectedInteger); -1 if none does.
FirstBadInput ==
  IF \A i \in InputCells : mem[i] \notin {Unknown, Reloc} THEN -1
  ELSE CHOOSE i \in InputCells :
         /\ mem[i] \in {Unknown, Reloc}
         /\ \A j \in 0 .. i - 1 : mem[j] \notin {Unknown, Reloc}

Outcome(a, o) == result' = [cell |-> a, outcome |-> o]

\* The VM asks for an unwritten cell a while no deduction is running.
CanProbe(a) == dpc = "idle" /\ mem[a] = Unknown

\* index is not an output index: Ok(None).
DeduceNotOutput(a) ==
  /\ CanProbe(a)
  /\ a \notin {OUTPUT_INDICES[1], OUTPUT_INDICES[2]}
  /\ Outcome(a, "none")
  /\ UNCHANGED <<want, mem, dpc, probe, ps, dp, slope, iter>>

\* An input cell before any pointer is unwritten: Ok(None).
DeduceMissingInput(a) ==
  /\ CanProbe(a)
  /\ a \in {OUTPUT_INDICES[1], OUTPUT_INDICES[2]}
  /\ FirstBadInput # -1 /\ mem[FirstBadInput] = Unknown
  /\ Outcome(a, "none")
  /\ UNCHANGED <<want, mem, dpc, probe, ps, dp, slope, iter>>

\* An input cell holds a pointer: Err(ExpectedInteger).
DeduceExpectedInteger(a) ==
  /\ CanProbe(a)
  /\ a \in {OUTPUT_INDICES[1], OUTPUT_INDICES[2]}
  /\ FirstBadInput # -1 /\ mem[FirstBadInput] = Reloc
  /\ Outcome(a, "ExpectedInteger")
  /\ dpc' = "error"
  /\ UNCHANGED <<want, mem, probe, ps, dp, slope, iter>>

\* The pairs EC_POINT_INDICES[0..1] checked: P only.
DeducePointNotOnCurve(a) ==
  /\ CanProbe(a)
  /\ a \in {OUTPUT_INDICES[1], OUTPUT_INDICES[2]}
  /\ FirstBadInput = -1
  /\ ~PointOnCurve(P[1], P[2], Alpha, Beta)
  /\ Outcome(a, "PointNotOnCurve")
  /\ dpc' = "error"
  /\ UNCHANGED <<want, mem, probe, ps, dp, slope, iter>>

\* All inputs are integers and P is on the curve: enter ec_op_impl with
\* partial_sum = P, doubled_point = Q, slope = m.
DeduceStart(a) ==
  /\ CanProbe(a)
  /\ a \in {OUTPUT_INDICES[1], OUTPUT_INDICES[2]}
  /\ FirstBadInput = -1
  /\ PointOnCurve(P[1], P[2], Alpha, Beta)
  /\ dpc' = "loop"
  /\ probe' = a
  /\ ps' = P
  /\ dp' = Q
  /\ slope' = mem[4]
  /\ iter' = 0
  /\ UNCHANGED <<want, mem, result>>

\* Mutant: no same-x test in the loop.
SameXNever == FALSE

\* ec_op_impl's test (doubled_point.x - partial_sum.x).is_zero().
SameX == dp[1] - ps[1] = 0

\* doubled_point.x == partial_sum.x: Err(EcOpSameXCoordinate).
EcOpSameX ==
  /\ dpc = "loop"
  /\ iter < ScalarHeight
  /\ SameX
  /\ Outcome(probe, "EcOpSameXCoordinate")
  /\ dpc' = "error"
  /\ UNCHANGED <<want, mem, probe, ps, dp, slope, iter>>

\* The asserts of the ec_add (when the low bit of slope is 1) and ec_double
\* calls of this iteration hold.
StepAssertsHold ==
  /\ slope % 2 = 1 => LineSlopeOk(ps, dp, Prime)
  /\ EcDoubleSlopeOk(dp, Alpha, Prime)

\* One iteration: add doubled_point when the low bit is set, double it,
\* shift slope.
EcOpStep ==
  /\ dpc = "loop"
  /\ iter < ScalarHeight
  /\ ~SameX
  /\ StepAssertsHold
  /\ ps' = IF slope % 2 = 1 THEN EcAdd(ps, dp, Prime) ELSE ps
  /\ dp' = EcDouble(dp, Alpha, Prime)
  /\ slope' = slope \div 2
  /\ iter' = iter + 1
  /\ UNCHANGED <<want, mem, dpc, probe, result>>

\* An assert! of line_slope, ec_double_slope or div_mod fails: panic.
EcOpPanic ==
  /\ dpc = "loop"
  /\ iter < ScalarHeight
  /\ ~SameX
  /\ ~StepAssertsHold
  /\ dpc' = "panic"
  /\ UNCHANGED <<want, mem, probe, ps, dp, slope, iter, result>>

\* ec_op_impl returns partial_sum; deduce_memory_cell returns its x for
\* index 5 and its y for index 6, and the VM writes it to the cell.
EcOpDone ==
  /\ dpc = "loop"
  /\ iter = ScalarHeight
  /\ mem' = [mem EXCEPT ![probe] =
               IF probe - INPUT_CELLS_PER_EC_OP = 0 THEN ps[1] ELSE ps[2]]
  /\ Outcome(probe, "value")
  /\ dpc' = "idle"
  /\ UNCHANGED <<want, probe, ps, dp, slope, iter>>

(***************************************************************************)
(* The program writing the instance's inputs (the VM's step loop, outside  *)
(* this code).                                                             *)
(***************************************************************************)

WriteInput(i) ==
  /\ dpc = "idle"
  /\ mem[i] = Unknown
  /\ mem' = [mem EXCEPT ![i] = want[i]]
  /\ UNCHANGED <<want, dpc, probe, ps, dp, slope, iter, result>>

Init ==
  /\ want \in Programs
  /\ mem = [c \in Cells |-> Unknown]
  /\ dpc = "idle"
  /\ probe = OUTPUT_INDICES[1]
  /\ ps = <<0, 0>>
  /\ dp = <<0, 0>>
  /\ slope = 0
  /\ iter = 0
  /\ result = [cell |-> OUTPUT_INDICES[1], outcome |-> "none"]

Next ==
  \/ \E i \in InputCells : WriteInput(i)
  \/ \E a \in Cells :
       \/ DeduceNotOutput(a) \/ DeduceMissingInput(a)
       \/ DeduceExpectedInteger(a) \/ DeducePointNotOnCurve(a)
       \/ DeduceStart(a)
  \/ EcOpSameX \/ EcOpStep \/ EcOpPanic \/ EcOpDone

Spec == Init /\ [][Next]_vars

(***************************************************************************)
(* Reference: the group law of the curve, with the point at infinity.      *)
(***************************************************************************)

Inf == <<"inf">>
Field == 0 .. Prime - 1
OnCurve(pt) == pt # Inf /\ PointOnCurve(pt[1], pt[2], Alpha, Beta)
Inverse(d) == CHOOSE x \in Field : (x * d) % Prime = 1
Chord(a, b, l) ==
  LET x == (l * l - a[1] - b[1]) % Prime
  IN  <<x, (l * (a[1] - x) - a[2]) % Prime>>
RefAdd(a, b) ==
  CASE a = Inf -> b
    [] b = Inf -> a
    [] a[1] = b[1] /\ (a[2] + b[2]) % Prime = 0 -> Inf
    [] a = b -> Chord(a, a, ((3 * a[1] * a[1] + Alpha)
                             * Inverse(2 * a[2])) % Prime)
    [] OTHER -> Chord(a, b, ((a[2] - b[2]) * Inverse(a[1] - b[1])) % Prime)
RECURSIVE RefMul(_, _)
RefMul(k, pt) == IF k = 0 THEN Inf ELSE RefAdd(pt, RefMul(k - 1, pt))

(***************************************************************************)
(* Properties.                                                             *)
(***************************************************************************)

Outcomes == {"none", "value", "ExpectedInteger", "PointNotOnCurve",
             "EcOpSameXCoordinate"}

TypeOK ==
  /\ want \in Programs
  /\ mem \in [Cells -> Field \cup {Unknown, Reloc}]
  /\ dpc \in {"idle", "loop", "error", "panic"}
  /\ probe \in Cells
  /\ ps \in Field \X Field
  /\ dp \in Field \X Field
  /\ slope \in Field
  /\ iter \in 0 .. ScalarHeight
  /\ result \in [cell: Cells, outcome: Outcomes]

\* An output cell the VM wrote from deduce_memory_cell holds the matching
\* coordinate of P + m * Q under the group law, whichever of the two cells
\* was deduced first and however the program interleaved its writes: the
\* double-and-add of ec_op_impl is the scalar product, and it never
\* returns a point for a sum at infinity.
DeducedIsPPlusMQ ==
  \A o \in {OUTPUT_INDICES[1], OUTPUT_INDICES[2]} :
    (mem[o] # Unknown /\ OnCurve(Q)) =>
      LET r == RefAdd(P, RefMul(mem[4], Q))
      IN  r # Inf /\ mem[o] = r[o - INPUT_CELLS_PER_EC_OP + 1]

\* The same-x test of ec_op_impl is what keeps the asserts of ec_add and
\* ec_double from firing (spec.md 4.2): deduction panics only when the
\* program's Q is not on the curve.
PanicOnlyOffCurveQ == dpc = "panic" => ~OnCurve(Q)

\* spec.md 7: every error of deduction is returned to the caller; nothing
\* aborts the process.
NoPanic == dpc # "panic"

=============================================================================
