---------------------------- MODULE AddressSpec ----------------------------
(***************************************************************************)
(* What reference resolution promises (spec.md 4.1), stated without        *)
(* registers: a hint variable names, for good, the cells its reference     *)
(* named where it was defined. A stack-pointer reference stays usable only *)
(* inside the tracking group it was defined in. Mismatched groups fail     *)
(* before memory is read; a first slot that cannot be a base fails;        *)
(* a second slot must load a plain non-negative integer. get_value of an   *)
(* immediate touches no memory, and insert_value is a write-once store.    *)
(***************************************************************************)
EXTENDS Integers, Sequences

CONSTANTS
  Unknown,      \* content of a cell nobody has written
  NoImm,        \* the reference carries no immediate value
  NoCell,       \* the second slot is a constant, not a cell
  NoGroup,      \* the reference does not depend on the stack pointer
  NoAccess,     \* no hint access has happened yet
  USIZE_BOUND   \* 2^64: felts at or above it fail usize conversion

VARIABLES
  mem,     \* address -> cell value or Unknown
  refs,    \* the references defined so far, as the cells they denote
  group,   \* tracking group of the instruction now executing
  last     \* the outcome of the latest hint access

vars == <<mem, refs, group, last>>

(* MaybeRelocatable: a felt or a relocatable, as one record shape *)
Felt(n) == [int |-> TRUE, seg |-> 0, off |-> n]
IsReloc(v) == v \in [int : {FALSE}, seg : Int, off : Int]
IsInt(v) == v \in [int : {TRUE}, seg : {0}, off : Int]
Shift(a, k) == [a EXCEPT !.off = @ + k]
Read(a) == IF a \in DOMAIN mem THEN mem[a] ELSE Unknown
Store(a, v) == [x \in DOMAIN mem \cup {a} |-> IF x = a THEN v ELSE Read(x)]
Ok(v) == [ok |-> TRUE, val |-> v]
Err(e) == [ok |-> FALSE, val |-> e]

(* A reference as its definition site fixed it: the first cell, whether    *)
(* it is loaded as a pointer, the second slot (a constant or a loaded      *)
(* cell), the outer dereference flag and the group it is tied to.          *)
Cell == [int : {FALSE}, seg : Int, off : Int]
Second == [cell : Cell \cup {NoCell}, deref : BOOLEAN, val : Int]
Ref == [imm : Int \cup {NoImm}, cell1 : Cell, d1 : BOOLEAN,
        second : Second, deref : BOOLEAN, group : Int \cup {NoGroup}]

(* compute_address, in the order spec.md 4.1 lists its checks. *)
Address(r) ==
  LET base == IF r.d1 THEN Read(r.cell1) ELSE r.cell1
      c2   == r.second.cell
      load == Read(c2)
      add  == IF c2 = NoCell THEN r.second.val ELSE load.off
  IN  IF r.imm # NoImm THEN Err("NoRegisterInReference")
      ELSE IF r.group \notin {NoGroup, group} THEN Err("InvalidTrackingGroup")
      ELSE IF r.cell1.off < 0 \/ (r.d1 /\ base = Unknown) THEN Err("FailedToGetIds")
      ELSE IF ~IsReloc(base) THEN Err("ExpectedRelocatable")
      ELSE IF c2 # NoCell /\ (c2.off < 0 \/ (r.second.deref /\ load = Unknown))
           THEN Err("FailedToGetIds")
      ELSE IF c2 # NoCell /\ ~(r.second.deref /\ IsInt(load)) THEN Err("ExpectedInteger")
      ELSE IF add >= USIZE_BOUND THEN Err("BigintToUsizeFail")
      ELSE IF base.off + add < 0 THEN Err("FailedToGetIds")
      ELSE Ok(Shift(base, add))

Outcome(op, i, arg, res) == [op |-> op, ref |-> i, arg |-> arg, res |-> res]

(* The program stores into a cell it has not written. *)
Write(a, v) ==
  /\ Read(a) = Unknown
  /\ mem' = Store(a, v)
  /\ UNCHANGED <<refs, group, last>>

(* The compiler hands a hint a new reference. *)
Define ==
  /\ Len(refs') = Len(refs) + 1
  /\ SubSeq(refs', 1, Len(refs)) = refs
  /\ refs'[Len(refs')] \in Ref
  /\ UNCHANGED <<mem, group, last>>

(* Control flow with an unknown stack change opens a new group. *)
NewGroup ==
  /\ group' = group + 1
  /\ UNCHANGED <<mem, refs, last>>

GetValue(i) ==
  LET r == refs[i]
      a == Address(r)
  IN  /\ last' = Outcome("GetInteger", i, Unknown,
                   IF r.imm # NoImm THEN Ok(Felt(r.imm))
                   ELSE IF ~a.ok THEN a
                   ELSE IF IsInt(Read(a.val)) THEN Ok(Read(a.val))
                   ELSE Err("ExpectedInteger"))
      /\ UNCHANGED <<mem, refs, group>>

GetPointer(i) ==
  LET r == refs[i]
      a == Address(r)
  IN  /\ last' = Outcome("GetPtr", i, Unknown,
                   IF ~a.ok \/ ~r.deref THEN a
                   ELSE IF IsReloc(Read(a.val)) THEN Ok(Read(a.val))
                   ELSE Err("ExpectedRelocatable"))
      /\ UNCHANGED <<mem, refs, group>>

InsertValue(i, v) ==
  LET a == Address(refs[i])
  IN  /\ last' = Outcome("Insert", i, v,
                   IF ~a.ok THEN a
                   ELSE IF Read(a.val) \in {Unknown, v} THEN Ok(v)
                   ELSE Err("InconsistentMemory"))
      /\ mem' = IF a.ok /\ Read(a.val) = Unknown THEN Store(a.val, v) ELSE mem
      /\ UNCHANGED <<refs, group>>

Next ==
  \/ \E a \in DOMAIN mem', v \in {mem'[x] : x \in DOMAIN mem'} : Write(a, v)
  \/ Define
  \/ NewGroup
  \/ \E i \in 1 .. Len(refs) :
       \/ GetValue(i)
       \/ GetPointer(i)
       \/ last' # NoAccess /\ \E v \in {last'.arg} : InsertValue(i, v)

(* Nothing is defined and no hint has run yet. *)
Init ==
  /\ refs = <<>>
  /\ last = NoAccess

Spec == Init /\ [][Next]_vars
=============================================================================
