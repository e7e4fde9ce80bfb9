---------------------------- MODULE MCAccounts -----------------------------
(***************************************************************************)
(* Instances of Accounts for TLC.                                          *)
(***************************************************************************)
EXTENDS Accounts, TLC

CONSTANTS s1, s2, a1, a2

\* One client has both accounts, the other the first.
MCCredentials == s1 :> {a1} @@ s2 :> {a1, a2}

\* Bound: the database refuses writes of one account, or two connections use
\* one account at once, but not both in one behaviour.
OneTrouble == Cardinality(lost) + Cardinality(shared) <= 1
=============================================================================
