------------------------------ MODULE CairoRun ------------------------------
(***************************************************************************)
(* The run entry points of src/vm/src/cairo_run.rs:                        *)
(* cairo_run_program_with_initial_scope (and cairo_run_program, which      *)
(* calls it with a fresh scope), cairo_run_pie and cairo_run_fuzzed_program,*)
(* composed with the EC-op builtin's segment accounting (EcOpSegment).     *)
(*                                                                         *)
(* Each entry point is a chain of CairoRunner calls, each ending in ?.     *)
(* The runner lives outside src/: every call the file makes into it is one *)
(* step here that either succeeds or fails (the error is returned and the  *)
(* runner dropped).  What the file itself decides is kept exactly: the     *)
(* secure_run and allow_missing_builtins defaults, which calls happen for  *)
(* which entry and configuration and in what order, the PIE pre-checks,    *)
(* the loop that loads a PIE's additional builtin data, and the mapping of *)
(* EndOfProgram to success in the fuzzed run.  The program is an input:    *)
(* whether it reaches its end pc, after how many steps, the EC-op cells    *)
(* it uses and the stop pointer it leaves on the stack.                    *)
(***************************************************************************)
EXTENDS Integers, Sequences, EcOpSegment

CONSTANTS
  Entries,        \* subset of {"program", "pie", "fuzzed"}
  Configs,        \* CairoRunConfig: [proof_mode, secure_run, allow_missing_builtins]
  Pies,           \* [n_steps, additional (builtin names with data),
                  \*  budget (hint_processor.get_n_steps(): steps or None)]
  Programs,       \* [ends, len, used, stop, ptr]
  LayoutBuiltins, \* builtin runners the layout creates
  EcOpRatio,      \* the EC-op instance definition's ratio
  EcOpSeg,        \* the segment index initialize_segments gives the EC-op builtin
  EcOpIncluded,   \* whether the program lists ec_op among its builtins
  STEPS_LIMIT,    \* steps_limit of cairo_run_fuzzed_program
  STEP_CAP        \* bound on the steps of a program that never ends

EXEC_SEG == 1

VARIABLES
  entry,    \* the entry point called
  cfg,      \* its CairoRunConfig
  pie,      \* the CairoPie (cairo_run_pie only)
  prog,     \* what the program does when run
  pc,       \* the call the entry point is at, or "returned"
  secure,   \* the secure_run it computed
  allow,    \* the allow_missing_builtins it computed
  trail,    \* the calls that succeeded, in order
  todo,     \* additional-data entries of the PIE not yet visited
  loaded,   \* builtins whose additional data was loaded
  ecop,     \* the EC-op builtin runner
  step,     \* vm.current_step
  sizes,    \* segment used sizes (None until end_run computes them)
  result    \* None, or the Ok / Err the entry point returned

vars == <<entry, cfg, pie, prog, pc, secure, allow, trail, todo, loaded,
          ecop, step, sizes, result>>

\* One call succeeded and the entry point moves on to the next.
Pass(call, next) ==
  /\ pc = call
  /\ pc' = next
  /\ trail' = Append(trail, call)

\* One call returned an error, which the entry point propagates with ?.
Fail(call, err) ==
  /\ pc = call
  /\ pc' = "returned"
  /\ result' = Err(err)
  /\ UNCHANGED <<secure, allow, trail, todo, loaded, ecop, step, sizes>>

Fixed == UNCHANGED <<entry, cfg, pie, prog>>

\* What a runner call that only moves the entry point on leaves alone.
Rest == <<secure, allow, todo, loaded, ecop, step, sizes, result>>

(* The memory the program leaves: its stop pointer at return pointer - 1. *)
ReturnMem ==
  IF prog.stop = NoValue THEN [a \in {} |-> NoValue]
  ELSE [a \in {Ptr(EXEC_SEG, prog.ptr - 1)} |-> prog.stop]

-----------------------------------------------------------------------------
\* Mutant: cairo_run_pie's secure_run defaulting to false.
SecureRunDefaultFalse(e, c) ==
  IF c.secure_run # None THEN c.secure_run
  ELSE IF e = "pie" THEN FALSE ELSE ~c.proof_mode

(* secure_run.unwrap_or(!proof_mode); cairo_run_pie: unwrap_or(true) *)
SecureRunDefault(e, c) ==
  IF c.secure_run # None THEN c.secure_run
  ELSE IF e = "pie" THEN TRUE ELSE ~c.proof_mode

(* allow_missing_builtins.unwrap_or(proof_mode); cairo_run_pie: unwrap_or_default() *)
AllowMissingDefault(e, c) ==
  IF c.allow_missing_builtins # None THEN c.allow_missing_builtins
  ELSE IF e = "pie" THEN FALSE ELSE c.proof_mode

(* The program and fuzzed entries compute their defaults first. *)
Configure ==
  /\ pc = "configure"
  /\ entry # "pie"
  /\ pc' = "new"
  /\ secure' = SecureRunDefault(entry, cfg)
  /\ allow' = AllowMissingDefault(entry, cfg)
  /\ UNCHANGED <<trail, todo, loaded, ecop, step, sizes, result>>

(* cairo_run_pie: no proof mode; the hint processor's step budget must   *)
(* equal the PIE's n_steps; run_validity_checks; then the defaults.      *)
PieChecks ==
  /\ pc = "pie_checks"
  /\ \/ cfg.proof_mode /\ Fail("pie_checks", "CairoPieProofMode")
     \/ /\ ~cfg.proof_mode
        /\ pie.budget # pie.n_steps
        /\ Fail("pie_checks", "PieNStepsVsRunResourcesNStepsMismatch")
     \/ /\ ~cfg.proof_mode /\ pie.budget = pie.n_steps
        /\ Fail("pie_checks", "run_validity_checks")
     \/ /\ ~cfg.proof_mode /\ pie.budget = pie.n_steps
        /\ Pass("pie_checks", "new")
        /\ secure' = SecureRunDefault(entry, cfg)
        /\ allow' = AllowMissingDefault(entry, cfg)
        /\ UNCHANGED <<todo, loaded, ecop, step, sizes, result>>

(* CairoRunner::new, then the scope is installed *)
RunnerNew ==
  \/ Fail("new", "new")
  \/ Pass("new", "initialize") /\ UNCHANGED Rest

(* initialize(allow_missing_builtins) creates the builtin segments; for  *)
(* a PIE the segments are then finalized from it.                         *)
Initialize ==
  \/ Fail("initialize", "initialize")
  \/ /\ Pass("initialize", CASE entry = "pie"    -> "load_additional_data"
                             [] entry = "fuzzed" -> "run_until_steps"
                             [] OTHER            -> "run_until_pc")
     /\ ecop' = InitializeSegments(New(EcOpRatio, EcOpIncluded), EcOpSeg)
     /\ todo' = IF entry = "pie" THEN pie.additional ELSE {}
     /\ UNCHANGED <<secure, allow, loaded, step, sizes, result>>

(* for (name, data) in pie.additional_data: the pedersen data is skipped *)
(* in a secure run, and data of a builtin the layout lacks is dropped.    *)
\* Mutant: the pedersen data loaded even in a secure run.
SkippedNoPedersen(name) == name \notin LayoutBuiltins

Skipped(name) == (name = "pedersen" /\ secure) \/ name \notin LayoutBuiltins

LoadAdditionalData ==
  \/ /\ todo = {}
     /\ Pass("load_additional_data", "load_pie_memory")
     /\ UNCHANGED Rest
  \/ \E name \in todo :
       /\ pc = "load_additional_data"
       /\ \/ /\ Skipped(name)
             /\ todo' = todo \ {name}
             /\ UNCHANGED <<pc, trail, secure, allow, loaded, ecop, step, sizes, result>>
          \/ ~Skipped(name) /\ Fail("load_additional_data", "extend_additional_data")
          \/ /\ ~Skipped(name)
             /\ todo' = todo \ {name}
             /\ loaded' = loaded \cup {name}
             /\ UNCHANGED <<pc, trail, secure, allow, ecop, step, sizes, result>>

(* segments.load_pie_memory *)
LoadPieMemory ==
  \/ Fail("load_pie_memory", "load_pie_memory")
  \/ Pass("load_pie_memory", "run_until_pc")
     /\ UNCHANGED Rest

AtEnd == prog.ends /\ step = prog.len

(* run_until_pc(end): VM steps until pc = end; a program that never gets *)
(* there keeps the runner busy forever (here: past STEP_CAP, no step).   *)
RunUntilPc ==
  /\ pc = "run_until_pc"
  /\ \/ Fail("run_until_pc", "VmException")
     \/ /\ ~AtEnd /\ step < STEP_CAP
        /\ step' = step + 1
        /\ UNCHANGED <<pc, trail, secure, allow, todo, loaded, ecop, sizes, result>>
     \/ /\ AtEnd
        /\ Pass("run_until_pc", IF entry = "program" /\ cfg.proof_mode
                                THEN "run_for_steps" ELSE "end_run")
        /\ UNCHANGED Rest

(* proof mode: run_for_steps(1) after the end pc *)
RunForSteps ==
  \/ Fail("run_for_steps", "run_for_steps")
  \/ /\ Pass("run_for_steps", "end_run")
     /\ step' = step + 1
     /\ UNCHANGED <<secure, allow, todo, loaded, ecop, sizes, result>>

\* Mutant: the fuzzed run without its step limit.
RunUntilStepsNoLimit ==
  /\ pc = "run_until_steps"
  /\ \/ Fail("run_until_steps", "VmException")
     \/ /\ ~AtEnd /\ step < STEP_CAP
        /\ step' = step + 1
        /\ UNCHANGED <<pc, trail, secure, allow, todo, loaded, ecop, sizes, result>>
     \/ /\ AtEnd
        /\ Pass("run_until_steps", "end_run")
        /\ UNCHANGED Rest

(* run_until_steps(steps_limit): stops at the limit, or earlier with     *)
(* EndOfProgram, which the fuzzed run maps to Ok.                        *)
RunUntilSteps ==
  /\ pc = "run_until_steps"
  /\ \/ Fail("run_until_steps", "VmException")
     \/ /\ ~AtEnd /\ step < STEPS_LIMIT
        /\ step' = step + 1
        /\ UNCHANGED <<pc, trail, secure, allow, todo, loaded, ecop, sizes, result>>
     \/ /\ AtEnd \/ step = STEPS_LIMIT
        /\ Pass("run_until_steps", "end_run")
        /\ UNCHANGED Rest

(* end_run; it leaves the segments' used sizes computed *)
EndRun ==
  \/ Fail("end_run", "end_run")
  \/ /\ Pass("end_run", "verify_auto_deductions")
     /\ sizes' = [s \in {EcOpSeg} |-> prog.used]
     /\ UNCHANGED <<secure, allow, todo, loaded, ecop, step, result>>

VerifyAutoDeductions ==
  \/ Fail("verify_auto_deductions", "verify_auto_deductions")
  \/ Pass("verify_auto_deductions", "read_return_values")
     /\ UNCHANGED Rest

AfterFinalize == IF secure THEN "verify_secure_runner" ELSE "relocate"

(* read_return_values: each builtin's final_stack at the return pointer; *)
(* the EC-op runner records the stop_ptr it returns.                     *)
ReadReturnValues ==
  LET fs == FinalStack(ecop, ReturnMem, Ptr(EXEC_SEG, prog.ptr), sizes)
  IN  \/ Fail("read_return_values", "read_return_values")
      \/ ~fs.ok /\ Fail("read_return_values", fs.val)
      \/ /\ fs.ok
         /\ Pass("read_return_values", IF entry # "pie" /\ cfg.proof_mode
                                       THEN "finalize_segments" ELSE AfterFinalize)
         /\ ecop' = [ecop EXCEPT !.stop_ptr = fs.val[2]]
         /\ UNCHANGED <<secure, allow, todo, loaded, step, sizes, result>>

FinalizeSegments ==
  \/ Fail("finalize_segments", "finalize_segments")
  \/ Pass("finalize_segments", AfterFinalize)
     /\ UNCHANGED Rest

VerifySecureRunner ==
  \/ Fail("verify_secure_runner", "verify_secure_runner")
  \/ Pass("verify_secure_runner", IF entry = "pie" THEN "check_pie_compatibility"
                                  ELSE "relocate")
     /\ UNCHANGED Rest

(* get_cairo_pie()?.check_pie_compatibility(pie) *)
CheckPieCompatibility ==
  \/ Fail("check_pie_compatibility", "check_pie_compatibility")
  \/ Pass("check_pie_compatibility", "relocate")
     /\ UNCHANGED Rest

Relocate ==
  \/ Fail("relocate", "relocate")
  \/ /\ Pass("relocate", "returned")
     /\ result' = Ok("runner")
     /\ UNCHANGED <<secure, allow, todo, loaded, ecop, step, sizes>>

Init ==
  /\ entry \in Entries
  /\ cfg \in Configs
  /\ IF entry = "pie" THEN pie \in Pies ELSE pie = None
  /\ prog \in Programs
  /\ pc = IF entry = "pie" THEN "pie_checks" ELSE "configure"
  /\ secure = FALSE
  /\ allow = FALSE
  /\ trail = <<>>
  /\ todo = {}
  /\ loaded = {}
  /\ ecop = New(EcOpRatio, EcOpIncluded)
  /\ step = 0
  /\ sizes = None
  /\ result = None

Next ==
  /\ Fixed
  /\ \/ Configure \/ PieChecks \/ RunnerNew \/ Initialize
     \/ LoadAdditionalData \/ LoadPieMemory
     \/ RunUntilPc \/ RunForSteps \/ RunUntilSteps
     \/ EndRun \/ VerifyAutoDeductions \/ ReadReturnValues
     \/ FinalizeSegments \/ VerifySecureRunner \/ CheckPieCompatibility
     \/ Relocate

(* Each entry point is one synchronous call: once running it keeps going. *)
(* Fairness excludes the failures of the runner's own calls (outside     *)
(* src/): one is possible at every call, but nothing forces it.  Errors   *)
(* this file and final_stack decide are ordinary steps.                   *)
RunnerErrors ==
  {"new", "initialize", "run_validity_checks", "extend_additional_data",
   "load_pie_memory", "VmException", "run_for_steps", "end_run",
   "verify_auto_deductions", "read_return_values", "finalize_segments",
   "verify_secure_runner", "check_pie_compatibility", "relocate"}
RunnerFailed(r) == r # None /\ ~r.ok /\ r.val \in RunnerErrors
Spec == Init /\ [][Next]_vars /\ WF_vars(Next /\ ~RunnerFailed(result'))
-----------------------------------------------------------------------------
(* What the entry points promise, stated apart from the code above.        *)

\* The secure_run the doc comments ask for: a PIE's data is not trusted
\* unless said otherwise; a plain run is checked unless it is a proof run.
ExpectedSecure(e, c) ==
  IF c.secure_run # None THEN c.secure_run ELSE e = "pie" \/ ~c.proof_mode

\* The calls a successful run must have made, in this order.
Required(e, c) ==
  LET proof == e # "pie" /\ c.proof_mode
      sec   == ExpectedSecure(e, c)
  IN  (IF e = "pie" THEN <<"pie_checks">> ELSE <<>>)
      \o <<"new", "initialize">>
      \o (IF e = "pie" THEN <<"load_additional_data", "load_pie_memory">> ELSE <<>>)
      \o <<IF e = "fuzzed" THEN "run_until_steps" ELSE "run_until_pc">>
      \o (IF e = "program" /\ c.proof_mode THEN <<"run_for_steps">> ELSE <<>>)
      \o <<"end_run", "verify_auto_deductions", "read_return_values">>
      \o (IF proof THEN <<"finalize_segments">> ELSE <<>>)
      \o (IF sec THEN <<"verify_secure_runner">> ELSE <<>>)
      \o (IF sec /\ e = "pie" THEN <<"check_pie_compatibility">> ELSE <<>>)
      \o <<"relocate">>

Made(call) == \E i \in DOMAIN trail : trail[i] = call

\* Whatever the entry point and configuration, a runner is returned only
\* after every check they call for has passed, in the pipeline's order:
\* the extra proof-mode step and finalize_segments in proof mode,
\* verify_secure_runner in a secure run, and for a PIE its pre-checks and
\* the compatibility check of the PIE it reproduces.
OkRunPassedRequiredChecks ==
  (result # None /\ result.ok) => trail = Required(entry, cfg)

\* cairo_run_pie: "Data is not trusted in secure_run, therefore we skip
\* extending the hash builtin's data": in a secure run the pedersen
\* additional data of the PIE is never loaded into the runner.
UntrustedDataNotLoaded ==
  ExpectedSecure(entry, cfg) => "pedersen" \notin loaded

\* Once read_return_values has passed, the stop offset the EC-op runner
\* reports through get_memory_segment_addresses is the end of its used
\* instances: the used cells rounded up to whole 7-cell instances (0 when
\* the program never used the segment).
RoundUp(u) == CHOOSE k \in u .. u + CELLS_PER_EC_OP - 1 : k % CELLS_PER_EC_OP = 0
SegmentAddressesStopIsUsedSize ==
  Made("read_return_values")
    => GetMemorySegmentAddresses(ecop)[2][2] = RoundUp(prog.used)

\* get_used_cells_and_allocated_size, at every step once the used sizes
\* are known: Ok((used, size)) exactly when at least one instance's worth
\* of steps ran, the step count is a multiple of the ratio and the used
\* cells fit, with size the get_allocated_memory_units of that step;
\* otherwise InsufficientAllocatedCells.
AccountingAgrees ==
  sizes # None =>
    GetUsedCellsAndAllocatedSize(ecop, step, sizes) =
      IF /\ step >= EcOpRatio /\ step % EcOpRatio = 0
         /\ prog.used <= CELLS_PER_EC_OP * (step \div EcOpRatio)
      THEN Ok(<<prog.used, GetAllocatedMemoryUnits(ecop, step).val>>)
      ELSE Err("InsufficientAllocatedCells")

\* A fuzzed run, bounded by steps_limit, always returns; the other entry
\* points return whenever the program reaches its end pc.
CallReturns == (entry = "fuzzed" \/ prog.ends) ~> (pc = "returned")

=============================================================================
