---------------------------- MODULE MCShimInstall -----------------------------
(* The install race of the shim on two modules with two imports each. *)
EXTENDS ShimInstall

MCTargets == <<"tlx.dll", "TLB.dll">>
MCImports == <<"CreateFileW", "ReadFile">>
==============================================================================
