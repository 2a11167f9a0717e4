------------------------------ MODULE MC_EcOp ------------------------------
(***************************************************************************)
(* y^2 = x^3 + x + 6 over GF(7): ten affine points and a group of prime    *)
(* order 11, so, as on the STARK curve, no point of it has y = 0.  Three   *)
(* iterations cover every m below 7, as 256 cover every felt.             *)
(***************************************************************************)
EXTENDS EcOp

CurvePoints == {pt \in (0 .. 6) \X (0 .. 6) : PointOnCurve(pt[1], pt[2], 1, 6)}

\* What a program may write: a P on or off the curve, a Q on the curve, an m
\* that is an integer or a pointer.
OnCurvePrograms ==
  {[i \in 0 .. 4 |-> CASE i = 0 -> p[1] [] i = 1 -> p[2]
                       [] i = 2 -> q[1] [] i = 3 -> q[2] [] i = 4 -> m] :
     p \in CurvePoints \cup {<<0, 0>>}, q \in CurvePoints,
     m \in (0 .. 6) \cup {Reloc}}

\* And a Q off the curve with y = 0.
OffCurveQPrograms ==
  {[i \in 0 .. 4 |-> CASE i = 0 -> p[1] [] i = 1 -> p[2]
                       [] i = 2 -> 1 [] i = 3 -> 0 [] i = 4 -> m] :
     p \in CurvePoints, m \in 0 .. 6}

AllPrograms == OnCurvePrograms \cup OffCurveQPrograms
=============================================================================
