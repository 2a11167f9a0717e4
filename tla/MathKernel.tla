----------------------------- MODULE MathKernel -----------------------------
(***************************************************************************)
(* The number-theory kernel of src/src/math_utils.rs, as pure operators:   *)
(* isqrt, safe_div, safe_div_usize, igcdex, div_mod and the affine point   *)
(* arithmetic (line_slope, ec_add, ec_double_slope, ec_double).  An        *)
(* assert! of the code is an ...Ok predicate the caller must check; an     *)
(* error is a result record.  EcOp and SecpSignature use these operators.  *)
(***************************************************************************)
EXTENDS Integers

Ok(v) == [ok |-> TRUE, val |-> v]
Err(e) == [ok |-> FALSE, val |-> e]
PANIC == Err("Panic")

\* The while loop of isqrt: x = y; y = (x + n.div_floor(x)) >> 1 while y < x.
\* A division by x = 0 panics.
RECURSIVE IsqrtLoop(_, _, _)
IsqrtLoop(n, x, y) ==
  IF ~(y < x) THEN Ok(x)
  ELSE IF y = 0 THEN PANIC
  ELSE IsqrtLoop(n, y, (y + n \div y) \div 2)

\* Mutant: the first guess (x + 1) >> 1 without the + 1.
IsqrtNoRoundUp(n) ==
  IF n < 0 THEN Err("SqrtNegative")
  ELSE LET r == IsqrtLoop(n, n, n \div 2)
       IN  IF ~r.ok THEN r
           ELSE IF r.val * r.val <= n /\ n < (r.val + 1) * (r.val + 1) THEN r
           ELSE Err("FailedToGetSqrt")

\* isqrt: Newton's iteration from x = n, then the x^2 <= n < (x+1)^2 check.
Isqrt(n) ==
  IF n < 0 THEN Err("SqrtNegative")
  ELSE LET r == IsqrtLoop(n, n, (n + 1) \div 2)
       IN  IF ~r.ok THEN r
           ELSE IF r.val * r.val <= n /\ n < (r.val + 1) * (r.val + 1) THEN r
           ELSE Err("FailedToGetSqrt")

\* Mutant: the remainder is not checked.
SafeDivNoRem(x, y) ==
  IF y = 0 THEN Err("DividedByZero") ELSE Ok(x \div y)

\* safe_div (Felt: div_mod_floor of the representatives) and safe_div_usize.
SafeDiv(x, y) ==
  IF y = 0 THEN Err("DividedByZero")
  ELSE IF x % y # 0 THEN Err("SafeDivFail")
  ELSE Ok(x \div y)

Sign(n) == IF n > 0 THEN 1 ELSE IF n < 0 THEN -1 ELSE 0
Abs(n) == IF n < 0 THEN -n ELSE n

\* Mutant: the signs of num_a and num_b are not put back on x and y.
IgcdexNoSign(num_a, num_b) ==
  LET RECURSIVE Loop(_, _, _, _, _, _)
      Loop(a, b, r, s, x, y) ==
        IF b = 0 THEN [x |-> x, y |-> y, g |-> a]
        ELSE Loop(b, a % b, x - (a \div b) * r, y - (a \div b) * s, r, s)
  IN  CASE num_a = 0 /\ num_b = 0 -> [x |-> 0, y |-> 1, g |-> 0]
        [] num_a = 0 -> [x |-> 0, y |-> Sign(num_b), g |-> Abs(num_b)]
        [] num_b = 0 -> [x |-> Sign(num_a), y |-> 0, g |-> Abs(num_a)]
        [] OTHER -> Loop(Abs(num_a), Abs(num_b), 0, 1, 1, 0)

\* igcdex: x, y, g with g = x*a + y*b = gcd(a, b).
Igcdex(num_a, num_b) ==
  LET RECURSIVE Loop(_, _, _, _, _, _)
      \* while b != 0: (a, b, r, s, x, y) = (b, a mod b, x - q*r, y - q*s, r, s)
      Loop(a, b, r, s, x, y) ==
        IF b = 0 THEN [x |-> x * Sign(num_a), y |-> y * Sign(num_b), g |-> a]
        ELSE LET q == a \div b
             IN  Loop(b, a % b, x - q * r, y - q * s, r, s)
  IN  CASE num_a = 0 /\ num_b = 0 -> [x |-> 0, y |-> 1, g |-> 0]
        [] num_a = 0 -> [x |-> 0, y |-> Sign(num_b), g |-> Abs(num_b)]
        [] num_b = 0 -> [x |-> Sign(num_a), y |-> 0, g |-> Abs(num_a)]
        [] OTHER -> Loop(Abs(num_a), Abs(num_b), 0, 1, 1, 0)

\* div_mod's assert_eq!(c, 1).
DivModOk(m, p) == Igcdex(m, p).g = 1

\* Mutant: Rust's truncating % in place of mod_floor.
DivModTruncated(n, m, p) ==
  LET v == n * Igcdex(m, p).x
  IN  IF v < 0 THEN -((-v) % p) ELSE v % p

\* div_mod: x in [0, p) with m * x = n (mod p).
DivMod(n, m, p) == (n * Igcdex(m, p).x) % p

\* line_slope's assert: point_a.x - (point_b.x mod p) is nonzero.
LineSlopeOk(a, b, p) ==
  /\ a[1] - (b[1] % p) # 0
  /\ DivModOk(a[1] - b[1], p)

LineSlope(a, b, p) == DivMod(a[2] - b[2], a[1] - b[1], p)

\* Mutant: the sum's x left unreduced.
EcAddNoMod(a, b, p) ==
  LET m == LineSlope(a, b, p)
      x == m * m - a[1] - b[1]
  IN  <<x, (m * (a[1] - x) - a[2]) % p>>

EcAdd(a, b, p) ==
  LET m == LineSlope(a, b, p)
      x == (m * m - a[1] - b[1]) % p
  IN  <<x, (m * (a[1] - x) - a[2]) % p>>

\* ec_double_slope's assert: point.y mod p is nonzero.
EcDoubleSlopeOk(pt, alpha, p) ==
  /\ pt[2] % p # 0
  /\ DivModOk(2 * pt[2], p)

EcDoubleSlope(pt, alpha, p) == DivMod(3 * pt[1] * pt[1] + alpha, 2 * pt[2], p)

\* Mutant: the doubled point's y with the sign of (x - x') flipped.
EcDoubleFlipped(pt, alpha, p) ==
  LET m == EcDoubleSlope(pt, alpha, p)
      x == (m * m - 2 * pt[1]) % p
  IN  <<x, (m * (x - pt[1]) - pt[2]) % p>>

EcDouble(pt, alpha, p) ==
  LET m == EcDoubleSlope(pt, alpha, p)
      x == (m * m - 2 * pt[1]) % p
  IN  <<x, (m * (pt[1] - x) - pt[2]) % p>>

=============================================================================
