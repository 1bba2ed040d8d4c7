----------------------------- MODULE MCDownload -----------------------------
(***************************************************************************)
(* Values for Download's constants.                                        *)
(***************************************************************************)
EXTENDS Download

CONSTANTS c1, c2
=============================================================================
