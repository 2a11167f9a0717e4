--------------------------- MODULE MC_ModCircuit ---------------------------
(***************************************************************************)
(* Circuits for checking ModCircuit.  Cells are offsets into the values    *)
(* buffer; a gate is <<lhs, rhs, res>>.                                    *)
(***************************************************************************)
EXTENDS ModCircuit

\* The spec.md 8 fixture: gate 0 forward (c2 = c0 + c1), gate 1 a sub gate
\* on gate 0's result (c3 = c2 - c1).
TwoAdds(m) ==
  [modulus |-> m, cells |-> 4,
   add |-> << <<0, 1, 2>>, <<3, 1, 2>> >>, mul |-> << >>,
   consts |-> << >>, inputs |-> [c \in {0, 1} |-> 0 .. m - 1]]

\* In compiler order, with inputs a = c1, b = c2 and the constant 1 in c0:
\*   t = a + b; u = 1 / t; v = a * u; w = v - b; d = a + a; z = w * w;
\*   e = z + a.
\* d is independent of the inverse, but queued behind the sub gate w.
InverseChain(m, inputs) ==
  [modulus |-> m, cells |-> 10,
   add |-> << <<1, 2, 3>>, <<6, 2, 5>>, <<1, 1, 8>>, <<7, 1, 9>> >>,
   mul |-> << <<4, 3, 0>>, <<1, 4, 5>>, <<6, 6, 7>> >>,
   consts |-> [c \in {0} |-> 1],
   inputs |-> [c \in {1, 2} |-> inputs]]

WellFormed ==
  {TwoAdds(5), InverseChain(6, 0 .. 5), InverseChain(7, 0 .. 6)}

\* Gate lists not produced by the compiler.
Malformed ==
  {  \* a cycle: the mul gate's rhs is an add gate's result that needs it
     [modulus |-> 6, cells |-> 3,
      add |-> << <<2, 0, 1>> >>, mul |-> << <<0, 1, 2>> >>,
      consts |-> << >>, inputs |-> [c \in {0} |-> 0 .. 5]],
     \* two gates writing the same cell: c2 = a + b and c2 = a * b
     [modulus |-> 6, cells |-> 3,
      add |-> << <<0, 1, 2>> >>, mul |-> << <<0, 1, 2>> >>,
      consts |-> << >>, inputs |-> [c \in {0, 1} |-> 0 .. 5]],
     \* a sub gate whose rhs input is not reduced
     [modulus |-> 6, cells |-> 3,
      add |-> << <<2, 1, 0>> >>, mul |-> << >>,
      consts |-> << >>, inputs |-> [c \in {0, 1} |-> {0, 3, 9, 15}]] }

\* The inverse chain with unreduced inputs (u384 limbs allow any value
\* below 2^384; here below 2^(4 * LimbBits)).
Unreduced == {InverseChain(6, {0, 1, 12, 15})}

AllCircuits == WellFormed \cup Malformed
=============================================================================
