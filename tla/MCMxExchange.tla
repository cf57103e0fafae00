---------------------------- MODULE MCMxExchange ----------------------------
(***************************************************************************)
(* Instances of MxExchange for TLC.                                        *)
(***************************************************************************)
EXTENDS MxExchange

\* The envelope may name a recipient twice.
Envelope == <<"a", "b", "a">>
=============================================================================
