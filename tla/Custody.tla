------------------------------ MODULE Custody ------------------------------
(***************************************************************************)
(* What a resource ledger promises, without times, epochs and phases.      *)
(*                                                                         *)
(* A carrier is held by one owner or by none, and holds one resource token *)
(* or none.  It is taken and dropped empty; with a token on it, it changes *)
(* hands only by being assigned to the token's consumer.  A token is       *)
(* offered once, assigned at most once, and then used or discarded once.   *)
(***************************************************************************)
CONSTANTS Carriers, Tokens, Owners, NoOwner

VARIABLES
  holder,     \* the owner of each carrier
  resident,   \* the usable token on each carrier: a set of at most one
  fate        \* what became of each token

custody == <<holder, resident, fate>>

Init ==
  /\ holder = [c \in Carriers |-> NoOwner]
  /\ resident = [c \in Carriers |-> {}]
  /\ fate = [t \in Tokens |-> "absent"]

Take(c, owner) ==
  /\ holder[c] = NoOwner /\ resident[c] = {}
  /\ holder' = [holder EXCEPT ![c] = owner]
  /\ UNCHANGED <<resident, fate>>

Drop(c) ==
  /\ holder[c] # NoOwner /\ resident[c] = {}
  /\ holder' = [holder EXCEPT ![c] = NoOwner]
  /\ UNCHANGED <<resident, fate>>

Place(c, t) ==
  /\ holder[c] # NoOwner /\ resident[c] = {}
  /\ fate[t] = "absent"
  /\ resident' = [resident EXCEPT ![c] = {t}]
  /\ fate' = [fate EXCEPT ![t] = "offered"]
  /\ UNCHANGED holder

Assign(c, t, consumer) ==
  /\ holder[c] # NoOwner /\ resident[c] = {t}
  /\ fate[t] = "offered"
  /\ holder' = [holder EXCEPT ![c] = consumer]
  /\ fate' = [fate EXCEPT ![t] = "reserved"]
  /\ UNCHANGED resident

\* Only an assigned token is consumed; any usable one may be discarded.
Finish(c, t, outcome) ==
  /\ holder[c] # NoOwner /\ resident[c] = {t}
  /\ outcome = "consumed" => fate[t] = "reserved"
  /\ resident' = [resident EXCEPT ![c] = {}]
  /\ fate' = [fate EXCEPT ![t] = outcome]
  /\ UNCHANGED holder

Next ==
  \E c \in Carriers :
    \/ \E owner \in Owners : Take(c, owner)
    \/ Drop(c)
    \/ \E t \in Tokens :
         \/ Place(c, t)
         \/ \E owner \in Owners : Assign(c, t, owner)
         \/ \E outcome \in {"consumed", "discarded"} : Finish(c, t, outcome)

Spec == Init /\ [][Next]_custody
=============================================================================
