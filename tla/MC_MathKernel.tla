---------------------------- MODULE MC_MathKernel ----------------------------
(* The kernel's operators and the trace and memory encoders checked       *)
(* against reference definitions: the state sweeps n over Lo .. Hi, and   *)
(* each invariant checks the operators at n, against every second         *)
(* argument of a small range.                                             *)
EXTENDS MathKernel, TraceEncoding, SequencesExt

CONSTANTS Lo, Hi, Moduli

VARIABLE n

MCLo == -3
Args == -8 .. 8

Init == n = Lo
Next == n < Hi /\ n' = n + 1
Spec == Init /\ [][Next]_n

\* References: the floor square root and the gcd, by search.
RefIsqrt(k) == CHOOSE r \in 0 .. k : r * r <= k /\ k < (r + 1) * (r + 1)
Divides(d, k) == \E q \in -Abs(k) .. Abs(k) : d * q = k
RefGcd(a, b) ==
  IF a = 0 /\ b = 0 THEN 0
  ELSE LET common == {d \in 1 .. Abs(a) + Abs(b) : Divides(d, a) /\ Divides(d, b)}
       IN  CHOOSE d \in common : \A e \in common : e <= d

\* spec.md 4.4 and 8: isqrt's Newton loop ends (without dividing by zero)
\* at the floor square root for every n >= 0, so its FailedToGetSqrt
\* check never fires; a negative n is SqrtNegative.
IsqrtMatchesReference ==
  Isqrt(n) = IF n < 0 THEN Err("SqrtNegative") ELSE Ok(RefIsqrt(n))

\* igcdex returns Bezout coefficients of the gcd, for every sign of its
\* arguments and for zero ones: x*a + y*b = g = gcd(a, b).
IgcdexBezout ==
  \A b \in Args :
    LET r == Igcdex(n, b)
    IN  r.x * n + r.y * b = r.g /\ r.g = RefGcd(n, b)

\* div_mod(n, m, p) passes its assert exactly when m is invertible mod p,
\* and then returns the x in [0, p) with m * x = n (mod p), for negative
\* n and m too (the secp hint passes signed values).
DivModSolves ==
  \A p \in Moduli, m \in Args :
    /\ DivModOk(m, p) <=> RefGcd(m, p) = 1
    /\ DivModOk(m, p) =>
         LET x == DivMod(n, m, p)
         IN  x \in 0 .. p - 1 /\ (m * x - n) % p = 0

\* safe_div returns the exact quotient, and fails DividedByZero or
\* SafeDivFail exactly when y is zero or does not divide x (y is a Felt
\* representative, a usize or the positive N; x may be negative).
SafeDivExact ==
  \A y \in 0 .. 8 :
    LET r == SafeDiv(n, y)
    IN  /\ r.ok => r.val * y = n
        /\ r.ok <=> (y # 0 /\ Divides(y, n))
\* Reference decoding of a little-endian byte sequence.
RECURSIVE FromLe(_)
FromLe(s) == IF s = <<>> THEN 0 ELSE Head(s) + 256 * FromLe(Tail(s))
Bytes(s, from, to) == FromLe(SubSeq(s, from, to))

\* Writers with room for no byte, for part of an entry or cell, or for all.
Writers == [cap : {0, 5, 8, 16, 20, 24, 39, 40, 45, 48, 80, 120}, kind : {"slice", "io"}]
\* Traces of up to two entries and memories of up to three cells, with
\* values that use one byte, two bytes, or none (zero).
Traces ==
  SeqOf({[ap |-> Abs(n), fp |-> 1, pc |-> 256 + Abs(n)],
         [ap |-> 0, fp |-> 256 * Abs(n), pc |-> 2]}, 2)
Mems == SeqOf({None, Abs(n), 256 * Abs(n) + 1}, 3)

\* The trace file holds, per entry, ap, fp and pc as 8-byte little-endian
\* words (the doc comment of write_encoded_trace; the order is the cairo
\* trace format's).  Decoded, it is the trace; after EncodeTraceError(i, _)
\* the writer holds entries 0 .. i-1 whole and only a part of entry i.
TraceDecodes ==
  \A t \in Traces, w \in Writers :
    LET r   == WriteEncodedTrace(t, w)
        nd  == Len(r.out) \div 24
        dec == [k \in 1 .. nd |-> [ap |-> Bytes(r.out, 24 * k - 23, 24 * k - 16),
                                  fp |-> Bytes(r.out, 24 * k - 15, 24 * k - 8),
                                  pc |-> Bytes(r.out, 24 * k - 7, 24 * k)]]
    IN  IF r.err = None THEN Len(r.out) = 24 * Len(t) /\ dec = t
        ELSE r.err = nd /\ nd < Len(t) /\ dec = SubSeq(t, 1, nd)

\* The memory file is a run of (address: 8 bytes, value: 32 bytes) pairs,
\* one per written cell in address order (the doc comment of
\* write_encoded_memory).  Decoded, it is the written cells with their
\* addresses, unwritten ones left out; after EncodeTraceError(i, _) cell i
\* is a written one, and the writer holds every written cell below i whole
\* and at most a part of cell i.
MemoryDecodes ==
  \A m \in Mems, w \in Writers :
    LET r   == WriteEncodedMemory(m, w)
        nd  == Len(r.out) \div 40
        dec == [k \in 1 .. nd |-> <<Bytes(r.out, 40 * k - 39, 40 * k - 32),
                                  Bytes(r.out, 40 * k - 31, 40 * k)>>]
        Written(lim) == SelectSeq([i \in 1 .. lim |-> <<i - 1, m[i]>>],
                                  LAMBDA p : p[2] # None)
    IN  IF r.err = None THEN Len(r.out) = 40 * nd /\ dec = Written(Len(m))
        ELSE m[r.err + 1] # None /\ dec = Written(r.err)
=============================================================================
