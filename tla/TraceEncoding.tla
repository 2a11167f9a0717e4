--------------------------- MODULE TraceEncoding ---------------------------
(***************************************************************************)
(* The binary encoders of src/vm/src/cairo_run.rs: write_encoded_trace and *)
(* write_encoded_memory, over a bincode Writer.  A byte sequence is a      *)
(* sequence of 0 .. 255.  The writer has room for cap bytes; a write that  *)
(* does not fit fails, either writing nothing (bincode's SliceWriter) or   *)
(* filling the room first (an IoWriter's write_all on a full device).      *)
(* An error carries the index of the trace entry or memory cell at which   *)
(* a write failed: EncodeTraceError(i, _).                                  *)
(***************************************************************************)
EXTENDS Integers, Sequences

CONSTANT None   \* Option::None of a relocated memory cell; no error

\* v.to_le_bytes() on n bytes: the least significant byte first.
RECURSIVE LeBytes(_, _)
LeBytes(v, n) == IF n = 0 THEN <<>> ELSE <<v % 256>> \o LeBytes(v \div 256, n - 1)

\* Writer::write(bytes) on a writer w = [cap, kind] that holds out.
Write(w, out, bytes) ==
  IF Len(out) + Len(bytes) <= w.cap THEN [out |-> out \o bytes, ok |-> TRUE]
  ELSE [out |-> IF w.kind = "io" THEN out \o SubSeq(bytes, 1, w.cap - Len(out)) ELSE out,
        ok  |-> FALSE]

\* The writes of one entry, each followed by ?: stop at the first failure.
RECURSIVE WriteEach(_, _, _)
WriteEach(w, out, chunks) ==
  IF chunks = <<>> THEN [out |-> out, ok |-> TRUE]
  ELSE LET r == Write(w, out, Head(chunks))
       IN  IF r.ok THEN WriteEach(w, r.out, Tail(chunks)) ELSE r

\* Mutant: fp written before ap.
TraceWordsFpFirst(e) == <<LeBytes(e.fp, 8), LeBytes(e.ap, 8), LeBytes(e.pc, 8)>>

\* One trace entry: ap, fp and pc, each as u64 little endian.
TraceWords(e) == <<LeBytes(e.ap, 8), LeBytes(e.fp, 8), LeBytes(e.pc, 8)>>

\* Mutant: the address written one past the cell's index.
CellWordsOneBased(i, v) == <<LeBytes(i, 8), LeBytes(v, 32)>>

\* One written memory cell (the i-th, 1-based): its index as u64, then the
\* felt's 32-byte little-endian form.
CellWords(i, v) == <<LeBytes(i - 1, 8), LeBytes(v, 32)>>

\* write_encoded_trace: the entries in order; an error names the entry.
WriteEncodedTrace(trace, w) ==
  LET RECURSIVE Loop(_, _)
      Loop(i, out) ==
        IF i > Len(trace) THEN [out |-> out, err |-> None]
        ELSE LET r == WriteEach(w, out, TraceWords(trace[i]))
             IN  IF r.ok THEN Loop(i + 1, r.out) ELSE [out |-> r.out, err |-> i - 1]
  IN  Loop(1, <<>>)

\* write_encoded_memory: the written cells in order, an unwritten one
\* skipped; an error names the cell.
WriteEncodedMemory(mem, w) ==
  LET RECURSIVE Loop(_, _)
      Loop(i, out) ==
        IF i > Len(mem) THEN [out |-> out, err |-> None]
        ELSE IF mem[i] = None THEN Loop(i + 1, out)
        ELSE LET r == WriteEach(w, out, CellWords(i, mem[i]))
             IN  IF r.ok THEN Loop(i + 1, r.out) ELSE [out |-> r.out, err |-> i - 1]
  IN  Loop(1, <<>>)
=============================================================================
