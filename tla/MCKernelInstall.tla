-------------------------- MODULE MCKernelInstall --------------------------
(* Bounds for KernelInstall: the running kernel and the one being built,   *)
(* two runs so that a child can be orphaned, two calls in each.            *)
EXTENDS KernelInstall

CONSTANTS old, new

MCKernels == {old, new}
=============================================================================
