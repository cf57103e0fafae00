--------------------------- MODULE GroupDelivery ----------------------------
(***************************************************************************)
(* What deliver relies on when it hands the recipients of one domain to    *)
(* deliverGroup, retries included: the two outcomes that Relay knows as    *)
(* GroupAnswered and GroupFailed, with what the MX did, and no commands,   *)
(* connections or delays.  With Once, D and R of an answer are a set of    *)
(* recipients and the rest of the group, as in GroupAnswered.              *)
(***************************************************************************)
EXTENDS Integers

CONSTANTS
  Group,         \* the recipients of the domain
  MaxAttempts,
  Once           \* nobody is named twice in the envelope

VARIABLES
  stage,         \* "open", "answered" or "exhausted"
  attempts,      \* failed attempts
  accepted,      \* recipients the MX took the message for
  dup,           \* recipients it took the message for again
  exposed,       \* recipients it took the message for without a report
  reported,      \* the delivered and the refused, once it is answered
  lost           \* reports that were lost

gdVars == <<stage, attempts, accepted, dup, exposed, reported, lost>>

Init ==
  /\ stage = "open" /\ attempts = 0 /\ lost = 0
  /\ accepted = {} /\ dup = {} /\ exposed = {}
  /\ reported = [delivered |-> {}, refused |-> {}]

\* The MX takes the message for the recipients A.
Accept(A) ==
  /\ accepted' = accepted \cup A
  /\ dup' = dup \cup (A \cap accepted)

\* No error: everybody is delivered or refused, and the delivered are those the
\* MX took the message for.
Answered(D, R) ==
  /\ stage = "open" /\ stage' = "answered"
  /\ D \cup R = Group
  /\ Once => D \cap R = {}
  /\ Accept(D)
  /\ reported' = [delivered |-> D, refused |-> R]
  /\ UNCHANGED <<attempts, exposed, lost>>

\* An error: the whole group stays.  The MX has the message for A, and for
\* somebody only if its report was lost.
Failed(A) ==
  /\ stage = "open"
  /\ attempts' = attempts + 1
  /\ stage' = IF attempts' >= MaxAttempts THEN "exhausted" ELSE "open"
  /\ Accept(A)
  /\ exposed' = exposed \cup A
  /\ lost' = IF A = {} THEN lost ELSE lost + 1
  /\ UNCHANGED reported

Next ==
  \/ \E D, R \in SUBSET Group : Answered(D, R)
  \/ \E A \in SUBSET Group : Failed(A)

Spec == Init /\ [][Next]_gdVars
=============================================================================
