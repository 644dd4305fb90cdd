----------------------------- MODULE MCAccounts -----------------------------
(* The instance of Accounts for TLC: its cfg says it all.                  *)
EXTENDS Accounts
=============================================================================
