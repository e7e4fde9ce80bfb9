------------------------------ MODULE MCArena -------------------------------
(***************************************************************************)
(* Three players, or two and an observer, in both modes.                   *)
(***************************************************************************)
EXTENDS Arena, TLC

CONSTANTS a, b, c

MCTeam == a :> "red" @@ b :> "blue" @@ c :> "red"
=============================================================================
