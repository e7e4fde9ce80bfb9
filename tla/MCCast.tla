------------------------------- MODULE MCCast -------------------------------
(***************************************************************************)
(* The instance of Cast for TLC.                                           *)
(***************************************************************************)
EXTENDS Cast
=============================================================================
