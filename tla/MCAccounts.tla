---------------------------- MODULE MCAccounts ----------------------------
(* Accounts for TLC: two addresses. *)
EXTENDS Accounts, TLC

CONSTANTS e1, e2

TwoEmails == {e1, e2}
Letters == [email : TwoEmails, user : 1..3]
=============================================================================
