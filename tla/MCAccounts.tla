----------------------------- MODULE MCAccounts -----------------------------
(***************************************************************************)
(* Instances of Accounts for TLC.                                          *)
(***************************************************************************)
EXTENDS Accounts

\* One account and one key are configured.
OneOfEach ==
  << [op |-> "post", email |-> "a", password |-> "p", list |-> {}],
     [op |-> "postKey", domain |-> "d", key |-> "k"] >>
=============================================================================
