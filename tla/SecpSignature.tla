--------------------------- MODULE SecpSignature ---------------------------
(***************************************************************************)
(* The secp signature hints of                                             *)
(* src/src/hint_processor/builtin_hint_processor/secp/signature.rs and the *)
(* execution scope through which they talk to each other.                  *)
(* div_mod_n_packed_divmod leaves a, b, value and res in the scope;        *)
(* div_mod_n_safe_div, run later, reads a, b and res back;                 *)
(* get_point_from_x overwrites value.  Any hint may run at any time; the   *)
(* packed operands (pack_from_var_name over ids) are inputs drawn from     *)
(* small sets.  The group order N and the field prime SecpP are toy        *)
(* stand-ins with the shape of secp256k1's: N prime, SecpP = 3 (mod 4).    *)
(***************************************************************************)
EXTENDS Integers, MathKernel

CONSTANTS
  N,          \* n2 * BASE^2 + n1 * BASE + n0: the group order
  SecpP,      \* 2^256 - SECP_REM: the field prime
  BETA,       \* the curve constant: y^2 = x^3 + BETA
  Constants,  \* the names among BASE_86, N0, N1, N2, BETA, SECP_REM the program defines
  AVals,      \* values pack(ids.a) can take
  BVals,      \* values pack(ids.b) can take
  XCubeVals,  \* values pack(ids.x_cube) can take
  VVals,      \* values ids.v can take
  Absent      \* a name with no value in the execution scope

VARIABLES
  scope,   \* the execution scope: name -> BigInt or Absent
  last     \* the latest hint run: its name, inputs and result

vars == <<scope, last>>

Names == {"a", "b", "value", "res"}
NConsts == {"BASE_86", "N0", "N1", "N2"}

\* ExecutionScopes::get_ref::<BigInt>: a missing name is an error.
InScope(names) == \A x \in names : scope[x] # Absent

\* BigInt::modpow, by repeated multiplication (exponents are small here).
RECURSIVE ModPow(_, _, _)
ModPow(b, e, m) == IF e = 0 THEN 1 % m ELSE (b * ModPow(b, e - 1, m)) % m

\* The file's own safe_div over BigInt.
SafeDivBigInt(x, y) ==
  IF y = 0 THEN Err("DividedByZero")
  ELSE IF x % y # 0 THEN Err("SafeDivFailBigInt")
  ELSE Ok(x \div y)

Run(op, in, res) == [op |-> op, in |-> in, res |-> res]

\* Mutant: the quotient inserted under a misspelled scope key "val".
DivModNPackedDivmodWrongKey(a, b) ==
  IF ~DivModOk(b, N)
  THEN /\ last' = Run("DivModNPackedDivmod", <<a, b>>, PANIC)
       /\ UNCHANGED scope
  ELSE LET value == DivMod(a, b, N)
       IN  /\ scope' = [x \in Names \cup {"val"} |->
                          CASE x = "a" -> a [] x = "b" -> b [] x = "val" -> value
                            [] x = "res" -> value [] OTHER -> scope[x]]
           /\ last' = Run("DivModNPackedDivmod", <<a, b>>, Ok(value))

(* a = pack(ids.a); b = pack(ids.b); value = res = div_mod(a, b, N).      *)
(* div_mod's assert_eq!(gcd, 1) panics when b is not a unit mod N.        *)
DivModNPackedDivmod(a, b) ==
  IF ~(NConsts \subseteq Constants)
  THEN /\ last' = Run("DivModNPackedDivmod", <<a, b>>, Err("MissingConstant"))
       /\ UNCHANGED scope
  ELSE IF ~DivModOk(b, N)
  THEN /\ last' = Run("DivModNPackedDivmod", <<a, b>>, PANIC)
       /\ UNCHANGED scope
  ELSE LET value == DivMod(a, b, N)
       IN  /\ scope' = [scope EXCEPT !["a"] = a, !["b"] = b,
                                     !["value"] = value, !["res"] = value]
           /\ last' = Run("DivModNPackedDivmod", <<a, b>>, Ok(value))

\* Mutant: the numerator written res * a - b.
DivModNSafeDivSwapped ==
  IF ~InScope({"a", "b", "res"})
  THEN /\ last' = Run("DivModNSafeDiv", <<>>, Err("VariableNotInScope"))
       /\ UNCHANGED scope
  ELSE LET k == SafeDivBigInt(scope["res"] * scope["a"] - scope["b"], N)
       IN  /\ last' = Run("DivModNSafeDiv", <<>>, k)
           /\ scope' = IF k.ok THEN [scope EXCEPT !["value"] = k.val] ELSE scope

(* value = k = safe_div(res * b - a, N), from the scope's a, b and res.   *)
DivModNSafeDiv ==
  IF ~InScope({"a", "b", "res"})
  THEN /\ last' = Run("DivModNSafeDiv", <<>>, Err("VariableNotInScope"))
       /\ UNCHANGED scope
  ELSE IF ~(NConsts \subseteq Constants)
  THEN /\ last' = Run("DivModNSafeDiv", <<>>, Err("MissingConstant"))
       /\ UNCHANGED scope
  ELSE LET k == SafeDivBigInt(scope["res"] * scope["b"] - scope["a"], N)
       IN  /\ last' = Run("DivModNSafeDiv", <<>>, k)
           /\ scope' = IF k.ok THEN [scope EXCEPT !["value"] = k.val] ELSE scope

\* Mutant: the parity flip negates y without reducing it mod p.
GetPointFromXNoMod(x_cube, v) ==
  IF ~({"BETA", "SECP_REM"} \subseteq Constants)
  THEN /\ last' = Run("GetPointFromX", <<x_cube, v>>, Err("MissingConstant"))
       /\ UNCHANGED scope
  ELSE LET y0 == ModPow(((x_cube % SecpP) + BETA) % SecpP, (SecpP + 1) \div 4, SecpP)
           y  == IF v % 2 # y0 % 2 THEN -y0 ELSE y0
       IN  /\ scope' = [scope EXCEPT !["value"] = y]
           /\ last' = Run("GetPointFromX", <<x_cube, v>>, Ok(y))

(* y = (x_cube + BETA)^((p + 1) / 4) mod p, negated mod p when its parity *)
(* differs from v's; value = y.                                            *)
GetPointFromX(x_cube, v) ==
  IF ~({"BETA", "SECP_REM"} \subseteq Constants)
  THEN /\ last' = Run("GetPointFromX", <<x_cube, v>>, Err("MissingConstant"))
       /\ UNCHANGED scope
  ELSE LET y0 == ModPow(((x_cube % SecpP) + BETA) % SecpP, (SecpP + 1) \div 4, SecpP)
           y  == IF v % 2 # y0 % 2 THEN (-y0) % SecpP ELSE y0
       IN  /\ scope' = [scope EXCEPT !["value"] = y]
           /\ last' = Run("GetPointFromX", <<x_cube, v>>, Ok(y))

\* A panic ends the process: no hint runs after it.
Halted == last # Absent /\ last.res = PANIC

\* A fresh scope, before any of these hints has run.
Init ==
  /\ scope = [x \in Names |-> Absent]
  /\ last = Absent

Next ==
  /\ ~Halted
  /\ \/ \E a \in AVals, b \in BVals : DivModNPackedDivmod(a, b)
     \/ DivModNSafeDiv
     \/ \E x \in XCubeVals, v \in VVals : GetPointFromX(x, v)

Spec == Init /\ [][Next]_vars

-----------------------------------------------------------------------------
Result == [ok : {TRUE}, val : Int] \cup [ok : {FALSE}, val : STRING]

TypeOK ==
  /\ scope \in [Names -> Int \cup {Absent}]
  /\ last = Absent \/ (last.op \in {"DivModNPackedDivmod", "DivModNSafeDiv", "GetPointFromX"}
                       /\ last.res \in Result)

\* The two-hint protocol of div_mod_n: once div_mod_n_packed_divmod has
\* filled the scope, every later div_mod_n_safe_div succeeds, whatever
\* get_point_from_x did in between, and leaves in value the exact quotient
\* k with res * b - a = k * N.
SafeDivAfterDivmod ==
  (last # Absent /\ last.op = "DivModNSafeDiv" /\ InScope({"a", "b", "res"}))
    => /\ last.res.ok
       /\ scope["value"] * N = scope["res"] * scope["b"] - scope["a"]

\* get_point_from_x: when x_cube + BETA is a square mod p, value is one of
\* its square roots, reduced into [0, p), with the parity of v.
IsSquare(z) == \E r \in 0 .. SecpP - 1 : (r * r - z) % SecpP = 0
PointFromXIsRoot ==
  (last # Absent /\ last.op = "GetPointFromX" /\ last.res.ok
     /\ IsSquare(last.in[1] + BETA))
    => LET y == last.res.val
       IN  /\ y \in 0 .. SecpP - 1
           /\ (y * y - (last.in[1] + BETA)) % SecpP = 0
           /\ y % 2 = last.in[2] % 2

\* spec.md 4.4: div_mod's gcd assertion is fatal and "callers only invoke
\* on known-nonzero curve denominators"; so no hint run may panic.
NoPanic == ~Halted
=============================================================================
