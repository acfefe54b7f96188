------------------------------ MODULE MCKernel ------------------------------
EXTENDS Kernel, TLC
CONSTANTS c0, i0, s1, s2, w
MCIdle == c0 :> i0
=============================================================================
