------------------------------- MODULE MCAccounts -------------------------------
(***************************************************************************)
(* Three users for TLC: "root", whom the bootstrap makes, and two whom     *)
(* administrators make.                                                    *)
(***************************************************************************)
EXTENDS Accounts
=============================================================================
