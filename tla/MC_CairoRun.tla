----------------------------- MODULE MC_CairoRun -----------------------------
(* Every entry point under proof and plain, secure, insecure and default  *)
(* configurations; PIEs whose step budget matches or not, with pedersen   *)
(* data and data of a builtin the layout lacks; programs that end before, *)
(* at or after the fuzzed step limit or never, with EC-op used sizes that *)
(* fill, half-fill or overflow the allocated cells and stop pointers that *)
(* are right, short, in another segment, not a pointer or missing.        *)
EXTENDS CairoRun

MCConfigs ==
  [proof_mode : BOOLEAN, secure_run : {TRUE, FALSE, None},
   allow_missing_builtins : {None}]
MCPies ==
  {[n_steps |-> 2, additional |-> {"pedersen", "signature"}, budget |-> 2],
   [n_steps |-> 2, additional |-> {"output"}, budget |-> None]}
MCStops == {Ptr(4, 0), Ptr(4, 7), Ptr(4, 14), Ptr(1, 7), Felt(7), NoValue}
MCPrograms ==
  {[ends |-> e, len |-> l, used |-> u, stop |-> s, ptr |-> p] :
     e \in BOOLEAN, l \in {1, 2}, u \in {0, 5, 9}, s \in MCStops, p \in {0, 3}}
=============================================================================
