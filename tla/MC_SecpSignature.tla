-------------------------- MODULE MC_SecpSignature --------------------------
(* Toy secp parameters: group order N = 7 (prime), field prime p = 31     *)
(* (p = 3 mod 4, and x^3 = -7 has no root, so y = 0 never occurs on the    *)
(* curve y^2 = x^3 + 7), and x_cube ranging over true cubes, unreduced     *)
(* and negative ones included.                                             *)
EXTENDS SecpSignature

MCAVals == {-1, 0, 3, 9}
MCBVals == {-1, 1, 4, 8}
\* b = 0 and b = N: denominators that are not units mod N.
MCBValsZero == {1, 0, 7}
MCXCubeVals == {x * x * x : x \in -1 .. 32}
MCConstants == {"BASE_86", "N0", "N1", "N2", "BETA", "SECP_REM"}
=============================================================================
