------------------------------ MODULE MCRelay ------------------------------
(***************************************************************************)
(* Instances of Relay for TLC.                                             *)
(***************************************************************************)
EXTENDS Relay

CONSTANTS a, b, c   \* recipients; a and b share a domain, c has another

TwoDomains == [r \in Rcpt |-> IF r = c THEN "d2" ELSE "d1"]

\* Every message goes to everyone.
ToAll == [m \in Msg |-> Rcpt]
============================================================================
