# TLA+ models of cairo-vm components

These modules model the parts of cairo-vm under `src/` (see `spec.md`) that
compute, deduce or resolve values. TLC can check those parts in full over
small domains. `PROJECT.json` holds the machine-readable index: the
components, the runs, the mutants, the map from every TLA+ definition to the
source lines it translates, the findings and the hazards.

## The system and how its parts interact

| Part | Source | State | Operations |
|---|---|---|---|
| Circuit evaluator (Cairo 1 hint) | `vm/src/hint_processor/cairo_1_hint_processor/circuit.rs` | the values buffer in VM memory (write-once cells of 4 limbs), `addmod_idx`, `mulmod_idx`, `first_failure_idx` | `compute_gates`, `find_inverse`, `get_modulus`, `read/write_circuit_value`, `fill_instances`, `eval_circuit` |
| EC-op builtin deduction | `src/vm/runners/builtin_runner/ec_op.rs` | the builtin segment: 7 cells per instance (P.x, P.y, Q.x, Q.y, m, R.x, R.y) | `deduce_memory_cell`, `ec_op_impl`, `point_on_curve`, plus the segment accounting (`get_used_cells_and_allocated_size`, `final_stack`) |
| Math kernel | `src/math_utils.rs` | pure | `igcdex`, `div_mod`, `line_slope`, `ec_add`, `ec_double`, `ec_double_slope`, `isqrt`, `safe_div(_usize)` |
| Reference resolution | `src/hint_processor/hint_processor_utils.rs`, `hint_processor_definition.rs` | reads fp, ap and memory | `compute_addr_from_reference`, `apply_ap_tracking_correction`, `get_*_from_reference`, `insert_value_from_reference` |
| secp signature hints | `src/hint_processor/builtin_hint_processor/secp/signature.rs` | the exec scope (`a`, `b`, `res`, `value`) and ids | `div_mod_n_packed_divmod`, `div_mod_n_safe_div`, `get_point_from_x` |
| Runner entry points | `vm/src/cairo_run.rs` | the CairoRunner (outside `src/`), the computed `secure_run` / `allow_missing_builtins`, the phase reached | `cairo_run_program*`, `cairo_run`, `cairo_run_pie`, `cairo_run_fuzzed_program`, trace and memory encoders |

How the parts interact:
- The circuit evaluator reads and writes VM memory and fills the AddMod and
  MulMod builtins' instances.
- EC-op deduction is called by the VM whenever an instruction reads an
  unknown output cell of the builtin. This happens at any point while the
  program writes the inputs.
- Both of these, and the secp hints, use the math kernel.
- The hints locate their operands through reference resolution.
- The entry points drive the runner through its phases. In
  `read_return_values` every builtin's `final_stack` checks the stop
  pointer the program returned, and the EC-op runner records it as the
  stop offset that `get_memory_segment_addresses` later reports.

Behaviours that are hard to test:
- The interleaving of deduction with the program's input writes.
- Circuits with a non-invertible divisor, and what is filled when that
  happens.
- Gate lists that are malformed or cyclic.
- Unreduced circuit inputs.
- Off-curve points.
- Usize and i32 edges in reference arithmetic.
- Exec-scope variables that two hints share.

## Modules

Listed in order of importance.

1. **`ModCircuit`**, with `MC_ModCircuit`, models `circuit.rs`.
   - **State.** `mem` maps each buffer cell to 4 limbs, each a value or
     `Unknown`. `addmod_idx`, `mulmod_idx` and `first_failure_idx` are the
     loop counters. `pc` is one of `compute`, `fill`, `done` or `panic`. The
     instances filled so far are also part of the state.
   - **The outer loop.** Each pass of the `loop` in `compute_gates` is cut
     into the steps the code takes:
     - the add drain: `AddForward`, `AddSub`, `AddBreak` and `AddDrained`;
     - one mul gate: `MulForward`, `MulInverse`, `MulNullify`,
       `MulUnreachable` and `MulFinish`.
   - **Panics.** Each `unwrap` and `unreachable!` that can panic is a
     disjunct that moves `pc` to `panic`.
   - **After the loop.** `FillInstances` is the rest of `eval_circuit`. It
     calls `fill_instances` for add with `n_add_mods`, and for mul with
     `first_failure_idx`.
   - **Values.** They are kept as limbs. `WriteCircuitValue` and
     `ReadCircuitValue` do the base-2^LimbBits encoding.
   - **Inverses.** `FindInverse` is the extended Euclid of `num-integer`
     that the code calls. It returns the nullifier `modulus / gcd` when the
     value is not invertible.
   - **Circuits.** `Circuits` is a set of records whose fields are the
     modulus, the cell count, the gate offset triples, the constants, and
     the values the program may place in each input cell.
   - **The abstract spec.** `CircuitSpec` states what one call of
     `eval_circuit` promises (spec.md 4.3 and the function's doc comment),
     as a single `Return` step with no scheduling:
     - the prepared cells keep their values;
     - the failure index k is `n_mul_mods`, or a mul gate whose rhs has no
       inverse and whose lhs is a nonzero nullifier;
     - the mul gates before k hold, and on success every add gate holds;
     - all add instances and the first k mul instances are filled, each
       naming its gate with countdown n - i.

     The mapping reads the prepared cells back from the buffer, and shows
     the call as returned once `pc = "done"`. `RefinesCircuitSpec` checks
     `Abs!Spec` under that mapping.
2. **`EcOp`**, with `MC_EcOp`, models `ec_op.rs`. It uses the curve
   operators of `MathKernel`.
   - **State.** `mem` is one builtin instance: 7 cells, each a field
     element, `Unknown`, or `Reloc` (a relocatable). `want` is the output
     cell the VM asked for.
   - **Running `ec_op_impl`.** It runs one iteration per step
     (`EcOpSameX`, `EcOpStep`, `EcOpPanic`, `EcOpDone`), so its
     `scalar_height` iterations and their asserts are visible.
   - **The environment.** `WriteInput` is the program writing an input
     cell. It is interleaved freely with deduction requests.
   - **The curve.** It is the toy curve y^2 = x^3 + x + 6 over GF(7). The
     curve has prime order 11 and no point with y = 0, like the STARK
     curve. So a point on the curve never doubles to infinity.
3. **`MathKernel`**, with `MC_MathKernel`, models `math_utils.rs` as pure
   operators with no variables: `Isqrt` (its Newton loop is the recursive
   `IsqrtLoop`), `SafeDiv`, `Igcdex`, `DivMod`, `LineSlope`, `EcAdd`,
   `EcDoubleSlope` and `EcDouble`.
   - An `assert!` of the code is an `...Ok` predicate the caller checks, and
     an error is an `Err` record.
   - `MC_MathKernel` sweeps `n` over -3..150 and compares each operator with
     a reference definition: the floor square root by search, the gcd by
     search, the congruence `m·x ≡ n (mod p)`, and exact division.
   - `EcOp` and `SecpSignature` extend this module.
4. **`AddressResolver`**, with `AddressSpec` and `MC_AddressResolver`, models
   `hint_processor_utils.rs`.
   - **State.** `mem` is the frame's memory of MaybeRelocatable records.
     `ap` and `tracking` (the `ApTracking` of the running instruction) are
     registers. `refs` holds the `HintReference`s handed to hints, each with
     the ap at its definition site. `last` is the latest hint access.
   - **The code.** `ComputeAddrFromReference`, `GetOffsetValueReference` and
     `ApplyApTrackingCorrection` translate the three functions.
     `GetIntegerFromReference`, `GetPtrFromReference` and
     `InsertValueFromReference` are the hint accessors, one action each.
   - **Undefined behaviour.** A usize subtraction or an i32 offset that
     underflows panics in a debug build and wraps in a release build. So
     every resolution operator yields the set of results the code can
     produce, and `Bind` chains them like `?`.
   - **The environment.** The program acts through `StoreAtAp`, `AdvanceAp`
     and `NewTrackingGroup`. The compiler hands over references through
     `DefineReference`, with the shapes `CompiledRefs` lists.
   - **The abstract spec.** `AddressSpec` states spec.md 4.1 without
     registers: a reference denotes, for good, the cells it named where it
     was defined, and the spec lists its checks in order. `Meaning` maps each
     detailed reference to that abstract form. `RefinesAddressSpec` checks
     `Abs!Spec`, which is `AddressSpec` under that mapping.
5. **`SecpSignature`**, with `MC_SecpSignature`, models
   `secp/signature.rs`.
   - **State.** `scope` is the execution scope: the names `a`, `b`, `value`
     and `res`, each with a value or `Absent`. `last` is the latest hint run.
   - **Actions.** `DivModNPackedDivmod`, `DivModNSafeDiv` and
     `GetPointFromX` are the three hints. Each models its whole body: every
     error path, and the scope inserts it makes.
   - **Order.** The program may run the hints in any order.
   - **Parameters.** N = 7 and p = 31 are toy stand-ins with secp256k1's
     shape. N is prime. p ≡ 3 (mod 4), so the `(p+1)/4` exponent gives a
     square root. The curve y² = x³ + 7 has no point with y = 0, like
     secp256k1.
6. **`EcOpSegment`** models the segment accounting of `ec_op.rs` as pure
   operators over the runner record (`New`): `InitializeSegments`,
   `InitialStack`, `GetUsedCells`, `GetUsedCellsAndAllocatedSize`,
   `GetUsedInstances`, `GetAllocatedMemoryUnits`,
   `GetMemorySegmentAddresses` and `FinalStack`. A `MaybeRelocatable` is
   one record shape (`Felt`, `Ptr`); the segments' used sizes are a
   function from segment index to size, or `None` before `end_run`.
7. **`CairoRun`**, with `MC_CairoRun`, models `cairo_run.rs` composed with
   `EcOpSegment`.
   - **State.** `entry` (program, pie or fuzzed), `cfg`, the `pie`, and
     `prog` (what the program does: whether it reaches its end pc, after
     how many steps, the EC-op cells it uses, its stop pointer and return
     pointer) are fixed by `Init`. `pc` is the call the entry point is at.
     `secure` and `allow` are the computed defaults. `trail` lists the
     calls that succeeded. `todo` and `loaded` are the additional-data
     loop. `ecop`, `step` and `sizes` are the EC-op runner, the VM's
     current step and the used sizes.
   - **Actions.** One per call of the entry points: `Configure` and
     `PieChecks` (the file's own checks and defaults), `RunnerNew`,
     `Initialize`, `LoadAdditionalData`, `LoadPieMemory`, `RunUntilPc`,
     `RunForSteps`, `RunUntilSteps`, `EndRun`, `VerifyAutoDeductions`,
     `ReadReturnValues` (which calls `FinalStack`), `FinalizeSegments`,
     `VerifySecureRunner`, `CheckPieCompatibility` and `Relocate`.
   - **The runner.** `CairoRunner` is not in the repository, so each call
     into it either passes or fails with its own error (`Pass`, `Fail`),
     and a failure ends the entry point, as `?` does.
8. **`TraceEncoding`** models `write_encoded_trace` and
   `write_encoded_memory` of `cairo_run.rs` as recursive operators over
   byte sequences. `LeBytes` is `to_le_bytes`. The writer has room for
   `cap` bytes, and a write that does not fit fails. It either writes
   nothing (bincode's `SliceWriter`) or fills the room first (an
   `IoWriter` on a full device). `WriteEach` is the chain of writes with
   `?`. `MC_MathKernel` checks both encoders against a reference decoder.

## Runs

| Run | Cfg | Expect | What it shows |
|---|---|---|---|
| circuit_wellformed | `MC_ModCircuit.cfg` | pass | On circuits in compiler order, both with and without a non-invertible divisor: every gate that is passed holds; only sound mul instances are filled; a failure is genuine; success leaves every cell known; nothing panics; evaluation terminates; and the evaluator refines `CircuitSpec`, the one-step promise of `eval_circuit`. |
| circuit_malformed | `MC_ModCircuit_malformed.cfg` | pass | Cyclic, cell-sharing and unreduced circuits may panic, but no gate that was passed and no instance that was filled is ever unsound. |
| circuit_failure_skips_adds | `MC_ModCircuit_failure_adds.cfg` | violation | An add gate that has known inputs but is queued behind the failed inverse is never computed. This contradicts spec.md §8. |
| circuit_unreduced_sub | `MC_ModCircuit_unreduced.cfg` | violation | A sub gate panics with BigUint underflow when its rhs input exceeds res + modulus. |
| ecop_deduce | `MC_EcOp.cfg` | pass | At every interleaving of input writes and requests for either output cell, a deduced output is P + m·Q under the reference group law, and a panic happens only for an off-curve Q. |
| ecop_q_unchecked | `MC_EcOp_q_unchecked.cfg` | violation | Q = (1, 0) is not on the curve and is never checked, so `ec_double_slope`'s `assert!` panics. |
| math_kernel | `MC_MathKernel.cfg` | pass | For n in -3..150, `isqrt` returns the floor square root and never divides by zero. `igcdex` returns Bézout coefficients of the gcd. `div_mod` solves the congruence in [0, p). `safe_div` returns the exact quotient, or the error its inputs call for. The trace and memory streams decode back to the trace and to the written cells with their addresses. After a writer error, they hold exactly the entries before the reported index, plus part of one. |
| resolve_compiled_refs | `MC_AddressResolver.cfg` | pass | Resolution refines `AddressSpec` for every reference shape the compiler emits, under any interleaving of the program's stores, ap moves and new tracking groups. Each resolved address is the one the reference named at its definition, or the error the spec lists first. |
| resolve_foreign_tracking | `MC_AddressResolver_foreign.cfg` | violation | A reference whose ap-tracking offset is later than its hint's, in the same group, makes `apply_ap_tracking_correction` (hint_processor_utils.rs:112) subtract `usize` offsets past zero. It panics, or wraps in release builds, where spec.md §3 names FailedToGetIds. The compiler never emits such a reference, so the run widens `ForeignTrackings` to `MCTracking`. |
| secp_hints | `MC_SecpSignature.cfg` | pass | In every order of the three hints, a `div_mod_n_safe_div` that follows a `div_mod_n_packed_divmod` succeeds with the exact quotient, even if `get_point_from_x` overwrote `value` in between. `get_point_from_x` stores a reduced square root with v's parity whenever one exists. |
| cairo_run_pipeline | `MC_CairoRun.cfg` | pass | For all three entry points, every proof_mode / secure_run setting and any runner failure: a returned runner passed every check its configuration calls for, in order; a secure PIE run never loads the pedersen data; the EC-op stop offset is the end of its used instances; the cell accounting matches a reference; a fuzzed run, or a run whose program ends, returns. |
| secp_divmod_zero_b | `MC_SecpSignature_zero_b.cfg` | violation | A packed b of 0 or N reaches `div_mod`'s `assert_eq!` and panics the process. spec.md 4.4 says callers pass only nonzero denominators. |

Every property of a passing run has a mutant in `PROJECT.json`. A mutant
replaces a mapped definition with a plausible bug, for example:
- the remainder dropped in the limb encoding;
- the sub operands swapped;
- every mul instance filled;
- the full modulus used as the nullifier;
- the last add drain skipped;
- a missing guard;
- an off-by-one at the end of the loop;
- a missing `mod p`;
- the doubling slope negated;
- the same-x check removed;
- the `+ 1` of isqrt's first guess dropped;
- igcdex's signs not restored;
- Rust's truncating `%` in `div_mod`;
- `safe_div`'s remainder check dropped;
- the ap-tracking group check skipped;
- `safe_div`'s numerator written `res * a - b`;
- the parity flip not reduced mod p;
- a misspelled scope key;
- a PIE's `secure_run` defaulting to false;
- the pedersen data loaded in a secure run;
- floor division in `get_used_instances`;
- the used cells not compared with the allocation;
- the fuzzed run without its step limit;
- the `fill_instances` countdown off by one;
- fp written before ap in the trace;
- the memory address written one past the cell's index.

TLC finds each of these.

## Bounds and why they suffice

**Circuits: `LimbBits = 1`.** Each limb holds 0..1, so values up to 15 use
all 4 limbs, and carries cross limb boundaries. The moduli are 5, 6 and 7.
This gives a prime, a composite with non-invertible non-zero values (2, 3
and 4 mod 6), and a prime where only 0 is non-invertible.

**The InverseChain circuit** has 10 cells and uses every gate kind:
- add;
- sub (add with unknown lhs);
- mul;
- inverse (mul with unknown lhs);
- adds that depend on a mul's output;
- a final add that is drained only after the last mul gate.

The inputs range over the whole residue set, so the run covers both the
success path and the failure path, the failure at the first mul gate
included. The malformed circuits add a cycle (a mul that needs a later add),
two gates writing one cell, and unreduced inputs up to 15.

**EC-op: `ScalarHeight = 3`.** Scalars 0..6 are all reduced field elements,
which matches the code, where height 256 exceeds the felt width.
- P ranges over every curve point and one off-curve point.
- Q ranges over every curve point, or over the off-curve point (1, 0) in the
  q_unchecked run.
- m may also be a relocatable.

This covers the same-x abort (m·Q meeting the doubled point), sums at
infinity, and the four deduction error paths.

**MathKernel: n in -3..150.** Second arguments range over -8..8, and the
moduli are 5, 6 and 7. So the sweep covers:
- zero, negative and sign-mixed operands of `igcdex`;
- a composite modulus, where `div_mod` is asked only of units;
- `isqrt` on 0, 1 and perfect squares up to 144, and on the values on each
  side of them, where Newton's loop is most likely to end one step early.

**AddressResolver.** The bounds are fp = 2 and ap up to 4, one tracking
group change, one reference at a time, and `USIZE_BOUND = 1024` standing
for 2^64. First offsets -3..1 reach below the frame, and the memory holds a
pointer, an integer and a felt at the usize bound. This covers every error
of spec.md 4.1, the underflow edges, and a reference used after ap moved
past it.

**SecpSignature.** a ranges over {-1, 0, 3, 9} and b over units {-1, 1, 4,
8}; the violation run adds b = 0 and b = N. x_cube ranges over the cubes of
-1..32, unreduced and negative ones included. Some of them give x³ + 7 a
non-square mod 31. v ranges over 0, 1 and 2, so both parities are asked
for, and an even v above 1 too.

**CairoRun.** Every entry point meets every configuration with
`proof_mode` true and false and `secure_run` true, false and unset. Two
PIEs: one with pedersen and signature data and a matching step budget,
one with output data and no budget (the mismatch error). Programs end or
never end, after 1 or 2 steps, with `steps_limit = 2` and a cap of 3 steps
on a program that never ends. The EC-op ratio is 2, so step counts 1, 2
and 3 give too few steps, an exact multiple and a remainder. Used cells
0, 5 and 9 give an empty segment, a part instance and one over an
instance. The stop pointers cover the right offsets 0, 7 and 14, a wrong
segment, a felt and a missing cell.

Earlier sittings also ran `AddressResolver` with ap-based second slots
(`Slot2Regs = {"FP", "AP"}`). TLC then found that the first slot is
resolved, and may be loaded, before the second slot's tracking group is
checked, so a reference used in the wrong group fails with
FailedToGetIds where spec.md §8 says InvalidTrackingGroup. The compiler
does not emit that shape, and the hazard at `hint_processor_utils.rs:65`
records it.

**Encoders.** The sweep runs n from -3 to 150, and checks at every n:
- traces of up to two entries, with words of zero, one and two bytes;
- memories of up to three cells, each unwritten or holding one of two
  values;
- writers with room for 0 to 120 bytes, of both kinds.

So the writer runs out inside an address, inside a value and between
entries, and unwritten cells shift the byte offsets of later ones. TLC's
integers are 32-bit, so the values stay small. The upper bytes are then
zero, but they are written and decoded all the same.

## Fairness

`ModCircuit` assumes weak fairness of `Next`: `eval_circuit` is a single
synchronous call that, once entered, keeps running until it returns.
`Terminates` is checked under that assumption.

`CairoRun` assumes weak fairness of every step except a failure of a
call into `CairoRunner`. An entry point is one synchronous call, so once
entered it keeps going. The runner may fail at any call, but nothing forces
it to, so those failures are not fair. The errors this file and
`final_stack` decide are ordinary steps. `CallReturns` is checked under
that assumption.

`EcOp`, `AddressResolver` and `SecpSignature` assume no fairness. The VM
asks for an output cell only if an instruction reads it. A hint runs only
if the program reaches it. So none of these modules claims a liveness
property.

## Not modelled, and why

- **Memory addresses.** The segment/offset addresses in the circuit buffer
  are abstracted to cell indices. Every instance shares the same `values_ptr`,
  so the pointers carry no information that a property distinguishes.
- **Pre-written `fill_instances` conflicts.** The code conflicts when the
  AddMod/MulMod segment already holds instance 0. This needs the builtin's
  own writes, which happen outside `src/`.
- **`CairoRunner`.** It is not in the repository, so its phases are steps
  that pass or fail, and only the EC-op builtin's part of
  `read_return_values` is modelled.
- **The bincode writers.** They live outside the repository, and only
  their failure behaviour is modelled: a write that does not fit fails.
- **The rest of `ec_op.rs`.** `base`, `ratio` and `add_validation_rule`
  are getters or no-ops.
- **`ExecutionScopes` and `pack_from_var_name`.** These live outside
  `src/`. The scope is modelled only as far as these hints use it: a map
  from names to values, where `get_ref` fails on an absent name. The
  packed operands are inputs, because reference resolution is what
  `AddressResolver` checks.
- **`HintProcessor`.** It is a trait with no state. Its use is modelled
  through the hint functions that implement it.
- **Inputs that the compiler does not emit.** Three hazards in
  `PROJECT.json` have no checked property, because each bites only on a
  program file the Cairo compiler never produces:
  - an inverse gate whose res is not the constant 1 (`circuit.rs:177`);
  - a negative constant second offset (`hint_processor_utils.rs:95`);
  - an `i32::MIN` offset (`:154`).

  Widening the inputs shows each failure. For the first two, spec.md says
  nothing about the case. `i32::MIN` lies outside every offset the model
  enumerates. The passing configurations stay on compiler output. The
  one such input the spec does decide, a reference tracked after its
  hint (`:112`), has its own violation run, `resolve_foreign_tracking`.
- **The stop of an EC-op runner the program does not list.**
  `final_stack` returns the segment index as the stop at ec_op.rs:266.
  Only a runner for an unlisted builtin reaches that line. Such a runner
  exists only in proof mode, and it is created outside `src/`. The
  vm-crate `read_return_values` does not call this root-crate
  `final_stack` either. `MC_CairoRun` therefore keeps the EC-op builtin
  included (`EcOpIncluded = TRUE`), and that branch of `FinalStack` is
  not checked.
- **Unmapped lines.** Some lines of `src/` have no definition:
  - imports and plain struct declarations;
  - `CairoRunConfig` and its `Default`, whose fields the model takes as
    constants;
  - the `ec_op.rs` getters;
  - `felt_to_usize`/`felt_to_u32`, which are range conversions the model
    never exceeds.
