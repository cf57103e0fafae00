--------------------------- MODULE MCSmtpSession ---------------------------
(***************************************************************************)
(* Instances of SmtpSession, with its deadlines, for TLC.                  *)
(***************************************************************************)
EXTENDS SessionDeadlines
============================================================================
