---------------------------- MODULE MCDiscovery ----------------------------
(***************************************************************************)
(* Values for Discovery's constants: hidraw10 comes before hidraw2 in the  *)
(* directory.                                                              *)
(***************************************************************************)
EXTENDS Discovery

CONSTANTS u1, a, b, k
=============================================================================
