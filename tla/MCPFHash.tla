------------------------------ MODULE MCPFHash ------------------------------
(* PFHash for TLC: values for its constants. *)
EXTENDS PFHash
TwoFD == 0 .. 1
ThreePages == 0 .. 2
=============================================================================
