----------------------------- MODULE ModCircuit -----------------------------
(***************************************************************************)
(* The Cairo 1 circuit evaluator of                                        *)
(* vm/src/hint_processor/cairo_1_hint_processor/circuit.rs:                *)
(* eval_circuit, compute_gates and fill_instances.                         *)
(*                                                                         *)
(* A circuit is an add-mod gate list and a mul-mod gate list sharing one   *)
(* values buffer and one modulus.  Every gate is a triple of offsets       *)
(* <<lhs, rhs, res>> into the buffer; every buffer value is stored as      *)
(* LIMBS_COUNT limbs of LimbBits bits each (96 in the code), least         *)
(* significant limb first, and each limb cell is write-once memory.        *)
(*                                                                         *)
(* One step of the model is one iteration of a loop of compute_gates: one  *)
(* add gate drained, the drain stopping, one mul gate, or the end of the   *)
(* mul gates.  FillInstances is the tail of eval_circuit (both calls of    *)
(* fill_instances).  A failed insert_value(..).unwrap(), a BigUint         *)
(* subtraction below zero and unreachable!() are panics: pc = "panic".     *)
(***************************************************************************)
EXTENDS Integers, Sequences, FiniteSets

CONSTANTS
  LimbBits,   \* bits per limb (96 in the code; small here)
  Circuits,   \* the circuits eval_circuit may be called on
  Unknown     \* model value: a memory cell nobody has written

ASSUME LimbBits \in Nat \ {0}

LIMBS_COUNT == 4
Limbs == 0 .. LIMBS_COUNT - 1
LimbBase == 2 ^ LimbBits
LimbVals == 0 .. LimbBase - 1

VARIABLES
  circuit,            \* the circuit (offsets, modulus, inputs) of this call
  mem,                \* values buffer: cell -> limb -> limb value or Unknown
  addmod_idx,         \* next add gate to drain
  mulmod_idx,         \* next mul gate
  first_failure_idx,  \* first mul gate whose rhs had no inverse, or n_mul_mods
  pc,                 \* "add" (draining), "mul", "fill", "done", "panic"
  add_inst,           \* add-mod builtin instances written by fill_instances
  mul_inst            \* mul-mod builtin instances written by fill_instances

vars == <<circuit, mem, addmod_idx, mulmod_idx, first_failure_idx, pc,
          add_inst, mul_inst>>

Modulus == circuit.modulus
NAdd == Len(circuit.add)
NMul == Len(circuit.mul)
Cells == 0 .. circuit.cells - 1
\* The values the program may have written to the circuit's input cells.
InputChoices ==
  LET In == DOMAIN circuit.inputs
  IN  {f \in [In -> UNION {circuit.inputs[c] : c \in In}] :
         \A c \in In : f[c] \in circuit.inputs[c]}
AddGate(i) == circuit.add[i + 1]   \* gates are 0-indexed in the code
MulGate(i) == circuit.mul[i + 1]

(***************************************************************************)
(* Limb encoding.                                                          *)
(***************************************************************************)

\* read_circuit_value: limbs from the most significant down,
\* res = (res << LimbBits) + limb; None as soon as a limb is missing.
ReadCircuitValue(limbs) ==
  LET RECURSIVE Acc(_, _)
      Acc(res, l) == IF l < 0 THEN res
                     ELSE Acc(res * LimbBase + limbs[l], l - 1)
  IN  IF \E l \in Limbs : limbs[l] = Unknown THEN Unknown
      ELSE Acc(0, LIMBS_COUNT - 1)

\* Mutant: a limb split that forgets the remainder.
WriteCircuitValueNoRem(value) == [l \in Limbs |-> value \div (LimbBase ^ l)]

\* write_circuit_value: repeated div_rem by 2^LimbBits; whatever is left
\* after LIMBS_COUNT limbs is dropped.
WriteCircuitValue(value) ==
  [l \in Limbs |-> (value \div (LimbBase ^ l)) % LimbBase]

Value(c) == ReadCircuitValue(mem[c])
Known(c) == Value(c) # Unknown

(***************************************************************************)
(* Number theory of find_inverse / get_modulus.                            *)
(***************************************************************************)

\* Integer::extended_gcd of num-integer, as called by find_inverse:
\* r = (b, a), s = (0, 1); while r.0 # 0 { q = r.1 / r.0; r = (r.1 - q*r.0,
\* r.0); s likewise }.  Arguments are nonnegative here, so the sign-fixing
\* branch of the library is never taken and gcd = r.1, x = s.1.
ExtendedGcd(a, b) ==
  LET RECURSIVE Loop(_, _)
      Loop(r, s) ==
        IF r[1] = 0 THEN [gcd |-> r[2], x |-> s[2]]
        ELSE LET q == r[2] \div r[1]
             IN  Loop(<<r[2] - q * r[1], r[1]>>, <<s[2] - q * s[1], s[1]>>)
  IN  Loop(<<b, a>>, <<0, 1>>)

\* get_modulus: reduce a signed Bezout coefficient into [0, modulus].
GetModulus(value, modulus) ==
  LET magnitud == (IF value < 0 THEN -value ELSE value) % modulus
  IN  IF value < 0 THEN modulus - magnitud ELSE magnitud

\* Mutant: the nullifier taken as the modulus itself, not modulus / gcd.
FindInverseFullNullifier(value, modulus) ==
  LET e == ExtendedGcd(value, modulus)
  IN  IF e.gcd = 1 THEN [success |-> TRUE, res |-> GetModulus(e.x, modulus)]
      ELSE [success |-> FALSE, res |-> modulus]

\* find_inverse: (true, 1/value) when gcd(value, modulus) = 1, otherwise
\* (false, modulus / gcd), a nullifier with value * nullifier = 0 mod modulus.
FindInverse(value, modulus) ==
  LET e == ExtendedGcd(value, modulus)
  IN  IF e.gcd = 1 THEN [success |-> TRUE, res |-> GetModulus(e.x, modulus)]
      ELSE [success |-> FALSE, res |-> modulus \div e.gcd]

\* Mutant: the sub gate with its operands swapped.
SubGateValueSwapped(res, rhs, modulus) == (rhs + modulus - res) % modulus

\* The value a sub gate writes to lhs: (res + modulus - rhs) % modulus.
SubGateValue(res, rhs, modulus) == (res + modulus - rhs) % modulus

(***************************************************************************)
(* Writes.  insert_value(..).unwrap() panics on a limb already holding a   *)
(* different value.                                                        *)
(***************************************************************************)

Conflicts(c, value) ==
  \E l \in Limbs : mem[c][l] \notin {Unknown, WriteCircuitValue(value)[l]}

\* Write value to cell c, then take the step Continue; or panic.
WriteValue(c, value, Continue) ==
  \/ /\ Conflicts(c, value)
     /\ pc' = "panic"
     /\ UNCHANGED <<mem, addmod_idx, mulmod_idx, first_failure_idx>>
  \/ /\ ~Conflicts(c, value)
     /\ mem' = [mem EXCEPT ![c] = WriteCircuitValue(value)]
     /\ Continue

(***************************************************************************)
(* compute_gates: the add-gate drain.                                      *)
(***************************************************************************)

\* (Some(l), Some(r)): res = (l + r) % modulus.
AddForward ==
  /\ pc = "add"
  /\ addmod_idx < NAdd
  /\ LET g == AddGate(addmod_idx) IN
     /\ Known(g[1]) /\ Known(g[2])
     /\ WriteValue(g[3], (Value(g[1]) + Value(g[2])) % Modulus,
                   /\ addmod_idx' = addmod_idx + 1
                   /\ UNCHANGED <<pc, mulmod_idx, first_failure_idx>>)
  /\ UNCHANGED <<circuit, add_inst, mul_inst>>

\* (None, Some(r)) with res known: sub gate, lhs = res - rhs.  The BigUint
\* expression res + modulus - r panics when r exceeds res + modulus.
AddSub ==
  /\ pc = "add"
  /\ addmod_idx < NAdd
  /\ LET g == AddGate(addmod_idx) IN
     /\ ~Known(g[1]) /\ Known(g[2]) /\ Known(g[3])
     /\ \/ /\ Value(g[3]) + Modulus < Value(g[2])
           /\ pc' = "panic"
           /\ UNCHANGED <<mem, addmod_idx, mulmod_idx, first_failure_idx>>
        \/ /\ Value(g[3]) + Modulus >= Value(g[2])
           /\ WriteValue(g[1], SubGateValue(Value(g[3]), Value(g[2]), Modulus),
                         /\ addmod_idx' = addmod_idx + 1
                         /\ UNCHANGED <<pc, mulmod_idx, first_failure_idx>>)
  /\ UNCHANGED <<circuit, add_inst, mul_inst>>

\* Mutant: a drain that knows only forward add gates.
AddBlockedForwardOnly(g) == ~Known(g[2]) \/ ~Known(g[1])

\* An add gate the drain cannot evaluate: rhs unknown, or lhs and res both
\* unknown (the `_ => break` and the `else { break }` of the sub case).
AddBlocked(g) == ~Known(g[2]) \/ (~Known(g[1]) /\ ~Known(g[3]))

\* The drain ends at `while addmod_idx < n_add_mods`: all add gates done.
AddDrained ==
  /\ pc = "add"
  /\ addmod_idx = NAdd
  /\ pc' = "mul"
  /\ UNCHANGED <<circuit, mem, addmod_idx, mulmod_idx, first_failure_idx,
                 add_inst, mul_inst>>

\* The drain ends at a `break`: the next add gate is blocked.
AddBreak ==
  /\ pc = "add"
  /\ addmod_idx < NAdd
  /\ AddBlocked(AddGate(addmod_idx))
  /\ pc' = "mul"
  /\ UNCHANGED <<circuit, mem, addmod_idx, mulmod_idx, first_failure_idx,
                 add_inst, mul_inst>>

(***************************************************************************)
(* compute_gates: one mul gate per round.                                  *)
(***************************************************************************)

\* Mutant: the end-of-loop test off by one.
MulFinishOffByOne ==
  /\ pc = "mul"
  /\ mulmod_idx = NMul + 1
  /\ pc' = "fill"
  /\ UNCHANGED <<circuit, mem, addmod_idx, mulmod_idx, first_failure_idx,
                 add_inst, mul_inst>>

\* mulmod_idx == n_mul_mods: leave the loop.
MulFinish ==
  /\ pc = "mul"
  /\ mulmod_idx = NMul
  /\ pc' = "fill"
  /\ UNCHANGED <<circuit, mem, addmod_idx, mulmod_idx, first_failure_idx,
                 add_inst, mul_inst>>

\* Mutant: the loop left right after the last mul gate, before the add
\* gates are drained once more.
MulForwardLastNoDrain ==
  /\ pc = "mul"
  /\ mulmod_idx < NMul
  /\ LET g == MulGate(mulmod_idx) IN
     /\ Known(g[1]) /\ Known(g[2])
     /\ WriteValue(g[3], (Value(g[1]) * Value(g[2])) % Modulus,
                   /\ mulmod_idx' = mulmod_idx + 1
                   /\ pc' = IF mulmod_idx + 1 = NMul THEN "fill" ELSE "add"
                   /\ UNCHANGED <<addmod_idx, first_failure_idx>>)
  /\ UNCHANGED <<circuit, add_inst, mul_inst>>

\* (Some(l), Some(r)): res = l * r % modulus, then drain add gates again.
MulForward ==
  /\ pc = "mul"
  /\ mulmod_idx < NMul
  /\ LET g == MulGate(mulmod_idx) IN
     /\ Known(g[1]) /\ Known(g[2])
     /\ WriteValue(g[3], (Value(g[1]) * Value(g[2])) % Modulus,
                   /\ mulmod_idx' = mulmod_idx + 1
                   /\ pc' = "add"
                   /\ UNCHANGED <<addmod_idx, first_failure_idx>>)
  /\ UNCHANGED <<circuit, add_inst, mul_inst>>

\* (None, Some(r)), rhs invertible: lhs = 1 / rhs, then drain again.
MulInverse ==
  /\ pc = "mul"
  /\ mulmod_idx < NMul
  /\ LET g   == MulGate(mulmod_idx)
         inv == FindInverse(Value(g[2]), Modulus)
     IN  /\ ~Known(g[1]) /\ Known(g[2])
         /\ inv.success
         /\ WriteValue(g[1], inv.res,
                       /\ mulmod_idx' = mulmod_idx + 1
                       /\ pc' = "add"
                       /\ UNCHANGED <<addmod_idx, first_failure_idx>>)
  /\ UNCHANGED <<circuit, add_inst, mul_inst>>

\* (None, Some(r)), rhs not invertible: lhs = nullifier, record the failure
\* and leave the loop.
MulNullify ==
  /\ pc = "mul"
  /\ mulmod_idx < NMul
  /\ LET g   == MulGate(mulmod_idx)
         inv == FindInverse(Value(g[2]), Modulus)
     IN  /\ ~Known(g[1]) /\ Known(g[2])
         /\ ~inv.success
         /\ WriteValue(g[1], inv.res,
                       /\ first_failure_idx' = mulmod_idx
                       /\ pc' = "fill"
                       /\ UNCHANGED <<addmod_idx, mulmod_idx>>)
  /\ UNCHANGED <<circuit, add_inst, mul_inst>>

\* rhs unknown: unreachable!("Unexpected None value while filling mul_mod gate").
MulUnreachable ==
  /\ pc = "mul"
  /\ mulmod_idx < NMul
  /\ ~Known(MulGate(mulmod_idx)[2])
  /\ pc' = "panic"
  /\ UNCHANGED <<circuit, mem, addmod_idx, mulmod_idx, first_failure_idx,
                 add_inst, mul_inst>>

(***************************************************************************)
(* eval_circuit's tail: fill_instances for both builtins.                  *)
(***************************************************************************)

\* Mutant: the countdown written as n - i - 1.
InstancesCountdownOffByOne(n) ==
  [i \in 0 .. n - 1 |-> [modulus   |-> WriteCircuitValue(Modulus),
                         offsets   |-> i,
                         countdown |-> n - i - 1]]

\* fill_instances(n): instance i gets the modulus limbs, the offsets pointer
\* offsets_ptr + 3*i (here: gate i) and the countdown n - i.  The values
\* pointer is the same in every instance and is left out.
Instances(n) ==
  [i \in 0 .. n - 1 |-> [modulus   |-> WriteCircuitValue(Modulus),
                         offsets   |-> i,
                         countdown |-> n - i]]

\* Mutant: all n_mul_mods mul instances filled, the failed gate included.
FillInstancesAllMul ==
  /\ pc = "fill"
  /\ add_inst' = Instances(NAdd)
  /\ mul_inst' = Instances(NMul)
  /\ pc' = "done"
  /\ UNCHANGED <<circuit, mem, addmod_idx, mulmod_idx, first_failure_idx>>

\* All n_add_mods add instances, then the first n_computed_gates mul
\* instances (n_computed_gates = compute_gates' first_failure_idx).
FillInstances ==
  /\ pc = "fill"
  /\ add_inst' = Instances(NAdd)
  /\ mul_inst' = Instances(first_failure_idx)
  /\ pc' = "done"
  /\ UNCHANGED <<circuit, mem, addmod_idx, mulmod_idx, first_failure_idx>>

(***************************************************************************)
(* The specification.                                                      *)
(***************************************************************************)

\* A call of eval_circuit: the inputs and constants the program wrote to
\* the buffer, every other cell unknown.
Init ==
  /\ circuit \in Circuits
  /\ \E vals \in InputChoices :
       mem = [c \in Cells |->
                IF c \in DOMAIN vals THEN WriteCircuitValue(vals[c])
                ELSE IF c \in DOMAIN circuit.consts
                     THEN WriteCircuitValue(circuit.consts[c])
                ELSE [l \in Limbs |-> Unknown]]
  /\ addmod_idx = 0
  /\ mulmod_idx = 0
  /\ first_failure_idx = Len(circuit.mul)
  /\ pc = "add"
  /\ add_inst = <<>>
  /\ mul_inst = <<>>

Next ==
  \/ AddForward \/ AddSub \/ AddDrained \/ AddBreak
  \/ MulFinish \/ MulForward \/ MulInverse \/ MulNullify \/ MulUnreachable
  \/ FillInstances

\* eval_circuit is a synchronous call: it runs until it returns or panics.
Spec == Init /\ [][Next]_vars /\ WF_vars(Next)

(***************************************************************************)
(* Refinement mapping to CircuitSpec: the cells the program prepared are   *)
(* read back from the buffer; the call has returned once pc = "done", with *)
(* the buffer, first_failure_idx and the instances' offsets pointer and    *)
(* countdown (the modulus and values pointer are the same in every one).   *)
(***************************************************************************)

InstanceView(inst) == [i \in DOMAIN inst |-> <<inst[i].offsets, inst[i].countdown>>]

Abs == INSTANCE CircuitSpec
         WITH inputs <- [x \in DOMAIN circuit.inputs \cup DOMAIN circuit.consts |-> Value(x)],
              out <- IF pc = "done"
                     THEN [values   |-> [c \in Cells |-> Value(c)],
                           failure  |-> first_failure_idx,
                           add_inst |-> InstanceView(add_inst),
                           mul_inst |-> InstanceView(mul_inst)]
                     ELSE Unknown

(***************************************************************************)
(* Properties.                                                             *)
(***************************************************************************)

AddHolds(g) ==
  /\ Known(g[1]) /\ Known(g[2]) /\ Known(g[3])
  /\ (Value(g[1]) + Value(g[2]) - Value(g[3])) % Modulus = 0

MulHolds(g) ==
  /\ Known(g[1]) /\ Known(g[2]) /\ Known(g[3])
  /\ (Value(g[1]) * Value(g[2]) - Value(g[3])) % Modulus = 0

\* Reference: r has an inverse modulo the modulus.
HasInverse(r) == \E x \in 0 .. Modulus - 1 : (x * r) % Modulus = 1

InstanceRec ==
  [modulus: [Limbs -> LimbVals], offsets: Nat, countdown: Nat]

TypeOK ==
  /\ mem \in [Cells -> [Limbs -> LimbVals \cup {Unknown}]]
  /\ addmod_idx \in 0 .. NAdd
  /\ mulmod_idx \in 0 .. NMul
  /\ first_failure_idx \in 0 .. NMul
  /\ pc \in {"add", "mul", "fill", "done", "panic"}
  /\ \E n \in 0 .. NAdd : add_inst \in [0 .. n - 1 -> InstanceRec]
  /\ \E n \in 0 .. NMul : mul_inst \in [0 .. n - 1 -> InstanceRec]

\* Every gate compute_gates has passed satisfies its constraint modulo the
\* modulus: lhs + rhs = res for the add gates drained so far, lhs * rhs = res
\* for the mul gates passed so far (an inverse gate's res cell holds 1).
\* Write-once memory must keep this true even when a later gate writes a
\* cell an earlier gate used.
GatesSound ==
  /\ \A i \in 0 .. addmod_idx - 1 : AddHolds(AddGate(i))
  /\ \A j \in 0 .. mulmod_idx - 1 : MulHolds(MulGate(j))

\* Every mul-mod instance eval_circuit hands to the builtin names, through
\* its offsets pointer, a gate whose constraint holds: the gate that failed
\* to invert, and the ones after it, are not filled.
FilledInstancesSound ==
  pc = "done" =>
    \A i \in DOMAIN mul_inst : MulHolds(MulGate(mul_inst[i].offsets))

\* A recorded failure is genuine: the failed gate's rhs has no inverse, and
\* the nullifier written as its lhs is nonzero with lhs * rhs = 0.
FailureIsGenuine ==
  (pc = "done" /\ first_failure_idx < NMul) =>
    LET g == MulGate(first_failure_idx)
    IN  /\ ~HasInverse(Value(g[2]))
        /\ (Value(g[1]) * Value(g[2])) % Modulus = 0
        /\ Value(g[1]) % Modulus # 0

\* On a circuit in compiler order, a call that reports no failure leaves
\* every cell of the values buffer written.
CompleteOnSuccess ==
  (pc = "done" /\ first_failure_idx = NMul) => \A c \in Cells : Known(c)

\* compute_gates never panics (insert_value conflict, BigUint underflow,
\* unreachable!) on a circuit in compiler order with reduced inputs.
NoPanic == pc # "panic"

\* eval_circuit implements what spec.md 4.3 promises of one call, whatever
\* order compute_gates takes the gates in: the prepared cells never change,
\* and on return the failure index is n_mul_mods or the first mul gate with
\* no inverse (nullified), every gate before it and, on success, every add
\* gate holds, and exactly the add instances and the first k mul instances
\* are filled, each pointing at its own gate with countdown n - i.
RefinesCircuitSpec == Abs!Spec

\* The loops of compute_gates end: eval_circuit returns or panics.
Terminates == <>(pc \in {"done", "panic"})

\* spec.md 8: after a mul gate fails to invert, add gates whose inputs are
\* known still complete.
IndependentAddsComplete ==
  pc = "done" =>
    \A i \in 0 .. NAdd - 1 :
      LET g == AddGate(i) IN (Known(g[1]) /\ Known(g[2])) => Known(g[3])

=============================================================================
