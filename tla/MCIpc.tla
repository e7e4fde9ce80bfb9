------------------------------- MODULE MCIpc -------------------------------
(***************************************************************************)
(* The instance of Ipc for TLC.                                            *)
(***************************************************************************)
EXTENDS Ipc

=============================================================================
