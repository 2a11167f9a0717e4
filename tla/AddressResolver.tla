--------------------------- MODULE AddressResolver ---------------------------
(***************************************************************************)
(* hint_processor_utils.rs: a hint resolves its ids through HintReferences *)
(* against fp, ap and memory as they are at the instruction the hint is    *)
(* attached to. The program's side is the environment: it stores at ap,   *)
(* moves ap, opens a new tracking group after an unknown ap change, and    *)
(* the compiler hands the hint a reference captured where it was defined. *)
(*                                                                         *)
(* Undefined outcomes of the build (a usize or relocatable underflow       *)
(* panics in debug and wraps in release) are nondeterministic, so every   *)
(* resolution operator yields the SET of results the code can produce.    *)
(***************************************************************************)
EXTENDS Integers, Sequences

CONSTANTS
  FP_OFFSET,        \* fp of the running frame in the execution segment
  MAX_AP,           \* the highest ap offset the program reaches
  MAX_GROUP,        \* the highest tracking group it opens
  MAX_REFS,         \* references handed to hints
  InitMems,         \* memories the frame may start with (arguments, data)
  StoreVals,        \* values the program stores at ap
  InsertVals,       \* values a hint inserts
  ImmVals,          \* immediate values of constant references
  Off1,             \* register offsets of compiled references
  Off2,             \* constant second offsets of compiled references
  Slot2Regs,        \* registers a register-relative second slot may use
  ForeignTrackings, \* ap tracking data a malformed program may attach
  Unknown, NoImm, NoCell, NoGroup, NoAccess, NoTracking,
  USIZE_BOUND       \* 2^64: usize arithmetic wraps modulo it

EXEC == 1

VARIABLES
  mem,       \* address -> MaybeRelocatable or Unknown
  ap,        \* the ap register
  tracking,  \* ApTracking of the instruction now executing
  refs,      \* <<[hr |-> HintReference, ap |-> ap at its definition]>>
  last       \* outcome of the latest hint access

vars == <<mem, ap, tracking, refs, last>>

-----------------------------------------------------------------------------
(* Memory facade and Relocatable arithmetic (outside src/).                *)
(* MaybeRelocatable: a felt or a relocatable, as one record shape *)
Felt(n) == [int |-> TRUE, seg |-> 0, off |-> n]
Reloc(s, o) == [int |-> FALSE, seg |-> s, off |-> o]
IsReloc(v) == v \in [int : {FALSE}, seg : Int, off : Int]
IsInt(v) == v \in [int : {TRUE}, seg : {0}, off : Int]
Shift(a, k) == [a EXCEPT !.off = @ + k]
Read(a) == IF a \in DOMAIN mem THEN mem[a] ELSE Unknown
Store(a, v) == [x \in DOMAIN mem \cup {a} |-> IF x = a THEN v ELSE Read(x)]
Ok(v) == [ok |-> TRUE, val |-> v]
Err(e) == [ok |-> FALSE, val |-> e]
PANIC == Err("Panic")
FP == Reloc(EXEC, FP_OFFSET)

(* Every success in S continued by F, every error in S kept. *)
Bind(S, F(_)) == UNION {IF s.ok THEN F(s.val) ELSE {s} : s \in S}

(* Relocatable::sub_usize *)
SubUsize(r, n) == IF r.off < n THEN {Err("CantSubOffset")} ELSE {Ok(Shift(r, -n))}
(* Relocatable + i32: the offset is a usize *)
AddI32(r, k) ==
  IF r.off + k >= 0 THEN {Ok(Shift(r, k))} ELSE {PANIC, Ok(Shift(r, k + USIZE_BOUND))}
(* a - b on usize *)
UsizeSub(a, b) == IF a >= b THEN {Ok(a - b)} ELSE {PANIC, Ok(a - b + USIZE_BOUND)}

-----------------------------------------------------------------------------
(* OffsetValue and HintReference (serde::deserialize_program, outside src/) *)
OV(kind, reg, off, deref, val) ==
  [kind |-> kind, reg |-> reg, off |-> off, deref |-> deref, val |-> val]
Reference(reg, off, deref) == OV("Reference", reg, off, deref, 0)
Value(v) == OV("Value", "None", 0, FALSE, v)
Immediate(v) == OV("Immediate", "None", 0, FALSE, v)

(* The references the compiler builds at tracking t: [reg + o1] or        *)
(* [[reg + o1] + k] or [[reg + o1] + [reg2 + o2]], and constants.         *)
Slot2 == {Value(k) : k \in Off2} \cup
         {Reference(r, o, d) : r \in Slot2Regs, o \in Off1, d \in BOOLEAN}
CompiledRefs(t) ==
  {[offset1 |-> Reference(r, o, d), offset2 |-> s, dereference |-> dd,
    ap_tracking_data |-> t] : r \in {"FP", "AP"}, o \in Off1, d \in BOOLEAN,
                              s \in Slot2, dd \in BOOLEAN}
  \cup {[offset1 |-> Immediate(v), offset2 |-> Value(0), dereference |-> FALSE,
         ap_tracking_data |-> t] : v \in ImmVals}

-----------------------------------------------------------------------------
(* Mutant: the tracking groups are not compared. *)
ApplyApTrackingCorrectionNoGroup(a, ref_t, hint_t) ==
  Bind(UsizeSub(hint_t.offset, ref_t.offset), LAMBDA d : SubUsize(a, d))

(* apply_ap_tracking_correction *)
ApplyApTrackingCorrection(a, ref_t, hint_t) ==
  IF ref_t.group # hint_t.group THEN {Err("InvalidTrackingGroup")}
  ELSE Bind(UsizeSub(hint_t.offset, ref_t.offset), LAMBDA d : SubUsize(a, d))

(* Mutant: no check that a negative offset stays inside the segment; the *)
(* offset is added as a signed number.                                    *)
GetOffsetValueReferenceNoCheck(hr, hint_t, ov) ==
  LET base == IF ov.reg = "FP" THEN {Ok(FP)}
              ELSE IF hr.ap_tracking_data = NoTracking THEN {Err("NoneApTrackingData")}
              ELSE ApplyApTrackingCorrection(ap, hr.ap_tracking_data, hint_t)
  IN  IF ov.kind # "Reference" THEN {Err("FailedToGetIds")}
      ELSE Bind(base, LAMBDA b :
             LET a == Shift(b, ov.off)
             IN  IF ~ov.deref THEN {Ok(a)}
                 ELSE IF Read(a) = Unknown THEN {Err("FailedToGetIds")}
                 ELSE {Ok(Read(a))})

(* get_offset_value_reference *)
GetOffsetValueReference(hr, hint_t, ov) ==
  LET base == IF ov.reg = "FP" THEN {Ok(FP)}
              ELSE IF hr.ap_tracking_data = NoTracking THEN {Err("NoneApTrackingData")}
              ELSE ApplyApTrackingCorrection(ap, hr.ap_tracking_data, hint_t)
  IN  IF ov.kind # "Reference" THEN {Err("FailedToGetIds")}
      ELSE Bind(base, LAMBDA b :
             IF ov.off < 0 /\ b.off < -ov.off THEN {Err("FailedToGetIds")}
             ELSE Bind(AddI32(b, ov.off), LAMBDA a :
                    IF ~ov.deref THEN {Ok(a)}
                    ELSE IF Read(a) = Unknown THEN {Err("FailedToGetIds")}
                    ELSE {Ok(Read(a))}))

(* compute_addr_from_reference *)
ComputeAddrFromReference(hr, hint_t) ==
  IF hr.offset1.kind # "Reference" THEN {Err("NoRegisterInReference")}
  ELSE Bind(GetOffsetValueReference(hr, hint_t, hr.offset1), LAMBDA v :
         IF ~IsReloc(v) THEN {Err("ExpectedRelocatable")}
         ELSE CASE hr.offset2.kind = "Reference" ->
                     Bind(GetOffsetValueReference(hr, hint_t, hr.offset2), LAMBDA w :
                       IF ~IsInt(w) THEN {Err("ExpectedInteger")}
                       ELSE IF w.off >= USIZE_BOUND THEN {Err("BigintToUsizeFail")}
                       ELSE {Ok(Shift(v, w.off))})
                [] hr.offset2.kind = "Value" -> AddI32(v, hr.offset2.val)
                [] OTHER -> {Err("NoRegisterInReference")})

Outcome(op, i, arg, res) == [op |-> op, ref |-> i, arg |-> arg, res |-> res]
Halted == last # NoAccess /\ ~last.res.ok /\ last.res.val = "Panic"

(* get_integer_from_reference, called by a hint at the current tracking *)
GetIntegerFromReference(i) ==
  LET hr == refs[i].hr
  IN  /\ ~Halted
      /\ last' \in {Outcome("GetInteger", i, Unknown, r) :
                      r \in IF hr.offset1.kind = "Immediate" THEN {Ok(Felt(hr.offset1.val))}
                            ELSE Bind(ComputeAddrFromReference(hr, tracking), LAMBDA a :
                                   IF IsInt(Read(a)) THEN {Ok(Read(a))}
                                   ELSE {Err("ExpectedInteger")})}
      /\ UNCHANGED <<mem, ap, tracking, refs>>

(* get_ptr_from_reference *)
GetPtrFromReference(i) ==
  LET hr == refs[i].hr
  IN  /\ ~Halted
      /\ last' \in {Outcome("GetPtr", i, Unknown, r) :
                      r \in Bind(ComputeAddrFromReference(hr, tracking), LAMBDA a :
                              IF ~hr.dereference THEN {Ok(a)}
                              ELSE IF IsReloc(Read(a)) THEN {Ok(Read(a))}
                              ELSE {Err("ExpectedRelocatable")})}
      /\ UNCHANGED <<mem, ap, tracking, refs>>

(* insert_value_from_reference: vm.insert_value is a write-once store *)
InsertValueFromReference(i, v) ==
  /\ ~Halted
  /\ \E r \in ComputeAddrFromReference(refs[i].hr, tracking) :
       LET res == IF ~r.ok THEN r
                  ELSE IF Read(r.val) \in {Unknown, v} THEN Ok(v)
                  ELSE Err("InconsistentMemory")
       IN  /\ last' = Outcome("Insert", i, v, res)
           /\ mem' = IF r.ok /\ Read(r.val) = Unknown THEN Store(r.val, v) ELSE mem
  /\ UNCHANGED <<ap, tracking, refs>>

-----------------------------------------------------------------------------
(* The program around the hint (the step loop and compiler, outside src/). *)

(* [ap] = v; ap++ *)
StoreAtAp(v) ==
  /\ ~Halted
  /\ ap.off < MAX_AP
  /\ Read(ap) \in {Unknown, v}
  /\ mem' = Store(ap, v)
  /\ ap' = Shift(ap, 1)
  /\ tracking' = [tracking EXCEPT !.offset = @ + 1]
  /\ UNCHANGED <<refs, last>>

(* ap += 1 *)
AdvanceAp ==
  /\ ~Halted
  /\ ap.off < MAX_AP
  /\ ap' = Shift(ap, 1)
  /\ tracking' = [tracking EXCEPT !.offset = @ + 1]
  /\ UNCHANGED <<mem, refs, last>>

(* a call or join with an unknown ap change starts a new group at offset 0 *)
NewTrackingGroup(k) ==
  /\ ~Halted
  /\ tracking.group < MAX_GROUP
  /\ ap.off + k <= MAX_AP
  /\ ap' = Shift(ap, k)
  /\ tracking' = [group |-> tracking.group + 1, offset |-> 0]
  /\ UNCHANGED <<mem, refs, last>>

(* a reference defined here becomes visible to later hints *)
DefineReference(hr) ==
  /\ ~Halted
  /\ Len(refs) < MAX_REFS
  /\ refs' = Append(refs, [hr |-> hr, ap |-> ap])
  /\ UNCHANGED <<mem, ap, tracking, last>>

Init ==
  /\ mem \in InitMems
  /\ ap = FP
  /\ tracking = [group |-> 0, offset |-> 0]
  /\ refs = <<>>
  /\ last = NoAccess

Next ==
  \/ \E v \in StoreVals : StoreAtAp(v)
  \/ AdvanceAp
  \/ \E k \in 0 .. 1 : NewTrackingGroup(k)
  \/ \E t \in {tracking} \cup ForeignTrackings : \E hr \in CompiledRefs(t) : DefineReference(hr)
  \/ \E i \in 1 .. Len(refs) :
       \/ GetIntegerFromReference(i)
       \/ GetPtrFromReference(i)
       \/ \E v \in InsertVals : InsertValueFromReference(i, v)

Spec == Init /\ [][Next]_vars

-----------------------------------------------------------------------------
(* Refinement mapping: a reference denotes the cells fp + o and ap + o     *)
(* named at its definition site; ap there is the history kept in refs.    *)
Meaning(d) ==
  LET hr == d.hr
      Cell(ov) == Shift(IF ov.reg = "FP" THEN FP ELSE d.ap, ov.off)
      uses_ap == "AP" \in {hr.offset1.reg, hr.offset2.reg}
  IN  [imm    |-> IF hr.offset1.kind = "Immediate" THEN hr.offset1.val ELSE NoImm,
       cell1  |-> Cell(hr.offset1),
       d1     |-> hr.offset1.deref,
       second |-> IF hr.offset2.kind = "Value"
                  THEN [cell |-> NoCell, deref |-> FALSE, val |-> hr.offset2.val]
                  ELSE [cell |-> Cell(hr.offset2), deref |-> hr.offset2.deref, val |-> 0],
       deref  |-> hr.dereference,
       group  |-> IF uses_ap THEN hr.ap_tracking_data.group ELSE NoGroup]

Abs == INSTANCE AddressSpec
         WITH refs <- [i \in 1 .. Len(refs) |-> Meaning(refs[i])],
              group <- tracking.group

-----------------------------------------------------------------------------
(* Properties *)

ErrorNames == {"NoRegisterInReference", "InvalidTrackingGroup", "FailedToGetIds",
               "NoneApTrackingData", "CantSubOffset", "ExpectedRelocatable",
               "ExpectedInteger", "BigintToUsizeFail", "InconsistentMemory"}
Address == [int : {FALSE}, seg : {1, 2}, off : Nat]
CellValue == [int : {TRUE}, seg : {0}, off : Nat] \cup Address

(* Registers stay in the frame; every access ends in a value of its       *)
(* Result type (a panic is not one), and every address a hint is handed   *)
(* or writes through has a non-negative offset (Relocatable offsets are   *)
(* usize).                                                                 *)
TypeOK ==
  /\ ap \in [int : {FALSE}, seg : {EXEC}, off : FP_OFFSET .. MAX_AP]
  /\ tracking \in [group : 0 .. MAX_GROUP, offset : 0 .. MAX_AP]
  /\ Len(refs) <= MAX_REFS
  /\ DOMAIN mem \subseteq Address
  /\ \A a \in DOMAIN mem : mem[a] \in CellValue \cup {Unknown}
  /\ last = NoAccess \/ last.res \in [ok : {TRUE}, val : CellValue]
                                    \cup [ok : {FALSE}, val : ErrorNames]

(* Whatever the program does between a reference's definition and the     *)
(* hint, get_integer_from_reference, get_ptr_from_reference and           *)
(* insert_value_from_reference behave as spec.md 4.1 says: they reach the *)
(* cells the reference named where it was defined, with ap corrected by   *)
(* the tracking offsets, and fail with the errors and in the order the    *)
(* spec lists.                                                             *)
RefinesAddressSpec == Abs!Spec
=============================================================================
