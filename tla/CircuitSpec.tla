---------------------------- MODULE CircuitSpec ----------------------------
(***************************************************************************)
(* What one call of eval_circuit promises (spec.md 4.3 and the doc comment *)
(* of eval_circuit in circuit.rs), with no scheduling at all: the call      *)
(* takes the values buffer the program prepared and, in one step, returns  *)
(* the buffer completed and the first mul gate that failed to invert.      *)
(*                                                                         *)
(*   - the cells the program wrote keep their values;                      *)
(*   - the failure index k is n_mul_mods, or a mul gate whose rhs has no   *)
(*     inverse and whose lhs is a nonzero nullifier;                       *)
(*   - every mul gate before k holds, and on success every add gate too;   *)
(*   - all add-mod instances and the first k mul-mod instances are filled, *)
(*     instance i pointing at gate i with countdown n - i.                 *)
(***************************************************************************)
EXTENDS Integers, Sequences

CONSTANTS
  Circuits,  \* the circuits eval_circuit may be called on
  Unknown    \* a cell with no value; also "not yet returned"

VARIABLES
  circuit,   \* the circuit of this call
  inputs,    \* the values the program wrote: input cell -> value
  out        \* Unknown, or what the call returned

vars == <<circuit, inputs, out>>

Prepared(c) == DOMAIN c.inputs \cup DOMAIN c.consts

\* Buffers the program may hand over: each input from its range, constants.
InputsOf(c) ==
  {f \in [Prepared(c) -> Nat] :
     \A x \in Prepared(c) :
       IF x \in DOMAIN c.consts THEN f[x] = c.consts[x] ELSE f[x] \in c.inputs[x]}

Holds(V, g, m, Op(_, _)) ==
  /\ \A x \in {g[1], g[2], g[3]} : V[x] # Unknown
  /\ (Op(V[g[1]], V[g[2]]) - V[g[3]]) % m = 0

Plus(a, b) == a + b
Times(a, b) == a * b

\* n instances, instance i naming gate i with countdown n - i.
Filled(n) == [i \in 0 .. n - 1 |-> <<i, n - i>>]

Promise(c, in, r) ==
  LET V == r.values
      m == c.modulus
      k == r.failure
      n == Len(c.mul)
  IN  /\ V \in [0 .. c.cells - 1 -> Nat \cup {Unknown}]
      /\ \A x \in Prepared(c) : V[x] = in[x]
      /\ k \in 0 .. n
      /\ \A j \in 1 .. k : Holds(V, c.mul[j], m, Times)
      /\ k = n => \A i \in DOMAIN c.add : Holds(V, c.add[i], m, Plus)
      /\ k < n => LET g == c.mul[k + 1]
                  IN  /\ V[g[1]] # Unknown /\ V[g[2]] # Unknown
                      /\ ~\E x \in 0 .. m - 1 : (x * V[g[2]]) % m = 1
                      /\ V[g[1]] % m # 0
                      /\ (V[g[1]] * V[g[2]]) % m = 0
      /\ r.add_inst = Filled(Len(c.add))
      /\ r.mul_inst = Filled(k)

Init ==
  /\ circuit \in Circuits
  /\ inputs \in InputsOf(circuit)
  /\ out = Unknown

\* The call returns.
Return ==
  /\ out = Unknown
  /\ out' # Unknown
  /\ Promise(circuit, inputs, out')
  /\ UNCHANGED <<circuit, inputs>>

Spec == Init /\ [][Return]_vars
=============================================================================
