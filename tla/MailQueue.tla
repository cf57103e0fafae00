----------------------------- MODULE MailQueue -----------------------------
(***************************************************************************)
(* What the relay promises to whoever submits a message, without leases,   *)
(* copies, attempts or instances: once queued, a message stays until every *)
(* recipient's fate is settled, is set aside as dead (for an operator to   *)
(* revive, or the cap to discard), and is never resurrected once it has    *)
(* gone.                                                                   *)
(***************************************************************************)
CONSTANTS
  Msg,
  Envelope       \* Envelope[m]: the recipients message m was submitted with

VARIABLES
  state,         \* "none", "queued", "dead", "done" or "pruned"
  settled        \* settled[m]: recipients whose MX accepted or refused

mqVars == <<state, settled>>

Init ==
  /\ state = [m \in Msg |-> "none"]
  /\ settled = [m \in Msg |-> {}]

Move(m, from, to) ==
  /\ state[m] = from
  /\ state' = [state EXCEPT ![m] = to]
  /\ UNCHANGED settled

Submit(m) == Move(m, "none", "queued")

\* An MX answers for some recipients of m.
Settle(m, R) ==
  /\ state[m] # "none"
  /\ R \subseteq Envelope[m] \ settled[m]
  /\ settled' = [settled EXCEPT ![m] = @ \cup R]
  /\ UNCHANGED state

\* The message may be forgotten only when nobody is left.
Finish(m) == settled[m] = Envelope[m] /\ Move(m, "queued", "done")

Bury(m) == Move(m, "queued", "dead")

Revive(m) == Move(m, "dead", "queued")

Discard(m) == Move(m, "dead", "pruned")

Next ==
  \E m \in Msg :
    \/ Submit(m)
    \/ \E R \in SUBSET Envelope[m] : Settle(m, R)
    \/ Finish(m)
    \/ Bury(m)
    \/ Revive(m)
    \/ Discard(m)

Spec == Init /\ [][Next]_mqVars
============================================================================
