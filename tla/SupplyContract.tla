-------------------------- MODULE SupplyContract --------------------------
(***************************************************************************)
(* What the two-level factory supply promises of the tokens it handles,    *)
(* whatever fails: each is made, sold, delivered and used at most once and *)
(* in that order, one delivery is under way at a time, and a delivery that *)
(* does not arrive ends the sales.                                         *)
(***************************************************************************)
CONSTANT Tokens

VARIABLES
  fate,     \* of each token
  halted    \* a delivery was lost

Steps == {<<"unmade", "stock">>, <<"stock", "transit">>, <<"transit", "held">>, <<"held", "used">>}
Losses == {<<f, "lost">> : f \in {"stock", "transit", "held"}}

Init ==
  /\ fate = [t \in Tokens |-> "unmade"]
  /\ halted = FALSE

Sold == {t \in Tokens : fate[t] = "stock" /\ fate'[t] = "transit"}
LostUnderway == {t \in Tokens : fate[t] = "transit" /\ fate'[t] = "lost"}

\* One step may change several tokens: a wave of calls, or a process that fails.
Next ==
  /\ \A t \in Tokens : fate'[t] = fate[t] \/ <<fate[t], fate'[t]>> \in Steps \cup Losses
  /\ \A t, u \in Tokens : fate'[t] = "transit" /\ fate'[u] = "transit" => t = u
  /\ halted => Sold = {} /\ halted'
  /\ LostUnderway # {} => halted'

Spec == Init /\ [][Next]_<<fate, halted>>
=============================================================================
