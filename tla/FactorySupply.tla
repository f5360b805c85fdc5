--------------------------- MODULE FactorySupply ---------------------------
(***************************************************************************)
(* Two levels of magic-state factories on one cooperative runtime          *)
(* (modules/logical_compiler/src/protocols/factory_supply.py, run by       *)
(* cooperative.py on the flows of factory_process.py).                     *)
(*                                                                         *)
(* Producers make tokens cycle by cycle.  A token waits on its producer's  *)
(* carrier in a bounded FIFO until a consumer claims it; three transports  *)
(* then exchange the token's carrier with the consumer's free one over the *)
(* single parking site, the runtime swaps the two role bindings, and the   *)
(* producer acknowledges.  A consumer takes InitialRoles at once and then  *)
(* one token per rotation, in step with the other consumers.               *)
(*                                                                         *)
(* Every process is a set of fibers.  The runtime advances each fiber that *)
(* can go on, releases barriers when none can, and then runs one wave of   *)
(* the calls that wait.  Waves end before fibers go on, so no clock is     *)
(* kept: a carrier is safe whenever a fiber looks at it.  Fibers advance   *)
(* in any order here, in the order of a list there.  What a producer does  *)
(* to make a token is one call.  So are a consumer's own preparation of    *)
(* its output role beside the inputs, the work of a rotation up to the use *)
(* of its token with the barriers inside, the rest of the rotation, and    *)
(* the final measurement.                                                  *)
(***************************************************************************)
EXTENDS Naturals, Sequences, FiniteSets, Functions

CONSTANTS
  Producers, Consumers,
  InitialRoles,   \* consumer roles supplied before the first rotation
  Rotations,      \* rotations of one batch, each using one token on "R"
  Capacities,     \* the token buffer has one of them
  MaxCycles,      \* production cycles of a producer
  Batches,        \* attempts of a consumer
  MaxFaults,      \* bound on waves that fail
  None,
  Parking         \* the parking site

Processes == Producers \cup Consumers
Inputs == Consumers \X (InitialRoles \cup {"R"})
Outputs == Producers \X {"out"}
Slots == Inputs \cup Outputs              \* role slots, and the carriers born there
Mains == Consumers \X {"main"}
Fibers == Slots \cup Mains
Tokens == Producers \X (1..MaxCycles)

ASSUME SupplyAssumption ==
  /\ Capacities \subseteq Nat \ {0} /\ MaxCycles \in Nat \ {0} /\ Batches \in Nat \ {0}
  /\ Rotations \in Nat /\ MaxFaults \in Nat
  /\ Producers \cap Consumers = {} /\ IsFiniteSet(Consumers)
  /\ None \notin Processes \cup Slots \cup Tokens /\ Parking \notin Slots
  /\ {"out", "main", "R"} \cap InitialRoles = {}

VARIABLES
  status,     \* of each process
  pc,         \* where each fiber waits: the intent it yielded last
  round,      \* cycle of a producer, batch of a consumer
  rotation,   \* of a consumer, 0 during the initial preparations
  binding,    \* roles: the carrier each role is bound to
  carrier,    \* owner, epoch and place of each carrier
  token,      \* the ledger's tokens
  waiting,    \* _waiting: outputs not yet published, in order of arrival
  shelf,      \* _published and the buffer's entries, in order of publication
  demands,    \* _demands, in order of arrival
  transfer,   \* the transfer of each token, if it was claimed
  lease,      \* _parking: the token whose transfer holds the parking site
  broken,     \* _failure is set
  closed,     \* of the buffer
  capacity,   \* of the buffer, as it was configured
  faults      \* waves that failed

inventory == <<waiting, shelf, demands, transfer, lease, broken, closed>>
flows == <<status, pc, round, rotation>>
vars == <<flows, binding, carrier, token, inventory, capacity, faults>>

NoTransfer == [progress |-> "none", input |-> None, replacement |-> None]

Init ==
  /\ status = [p \in Processes |-> "running"]
  /\ pc = [f \in Fibers |-> IF f \in Outputs THEN "cycle"
                            ELSE IF f \in Mains THEN "local"
                            ELSE IF f[2] = "R" THEN "idle" ELSE "ask"]
  /\ round = [p \in Processes |-> IF p \in Producers THEN 0 ELSE 1]
  /\ rotation = [c \in Consumers |-> 0]
  /\ binding = [s \in Slots |-> s]
  /\ carrier = [s \in Slots |-> [owner |-> None, epoch |-> 0, place |-> s]]
  /\ token = [t \in Tokens |-> [status |-> "absent", on |-> None, epoch |-> 0, consumer |-> None]]
  /\ waiting = <<>> /\ shelf = <<>> /\ demands = <<>>
  /\ transfer = [t \in Tokens |-> NoTransfer]
  /\ lease = None /\ broken = FALSE /\ closed = FALSE
  /\ capacity \in Capacities
  /\ faults = 0

-----------------------------------------------------------------------------
(* What the fibers look at.                                                *)

Running(p) == status[p] = "running"
DownstreamDone == \A c \in Consumers : ~Running(c)
Current(p) == <<p, round[p]>>             \* the output a producer is busy with
Live(t) == token[t].status \in {"offered", "reserved"}
Spent(t) == token[t].status \in {"consumed", "discarded"}

Reclaimable == {t \in Range(shelf) : Spent(t)}
\* Variant: used tokens are never taken off the shelf.
ReapedNone == shelf

\* The part of a list that lies in a set, in order.
Kept(list, set) ==
  LET kept[i \in 0..Len(list)] ==
        IF i = 0 THEN <<>>
        ELSE IF list[i] \in set THEN Append(kept[i - 1], list[i]) ELSE kept[i - 1]
  IN kept[Len(list)]

Reaped == Kept(shelf, {t \in Tokens : ~Spent(t)})
Available == Kept(shelf, {t \in Tokens : token[t].status = "offered"})
HasRoom(entries) == ~closed /\ Len(entries) < capacity

Without(list, x) == Kept(list, Range(list) \ {x})
Arrived(p) == IF pc[<<p, "out">>] = "offer" THEN Append(waiting, Current(p)) ELSE waiting
Asked(d) == IF pc[d] = "ask" THEN Append(demands, d) ELSE demands

\* Variant: a claim does not wait for the parking site.
CanStartUnleased(d) ==
  /\ d = Head(Kept(Asked(d), {e \in Inputs : Running(e[1])}))
  /\ carrier[binding[d]].owner = None
  /\ Available # <<>>

CanStart(d) ==
  /\ lease = None
  /\ d = Head(Kept(Asked(d), {e \in Inputs : Running(e[1])}))
  /\ carrier[binding[d]].owner = None
  /\ Available # <<>>

Exhausted == Available = <<>> /\ \A p \in Producers : ~Running(p)

Claimed(t) == transfer[t].progress # "none"
HandedOff(t) == transfer[t].progress \in {"handed_off", "acknowledged", "finished"}
Acknowledged(t) == transfer[t].progress \in {"acknowledged", "finished"}
ConsumerOf(t) == transfer[t].input[1]

\* The transfer an input fiber takes part in: the lease tells until the handoff.
TransferOf(d) ==
  CHOOSE t \in Tokens : transfer[t].input = d /\ transfer[t].progress # "finished"

\* _check_peers, from either side.
PeersLost(t) ==
  broken \/ ~Running(ConsumerOf(t)) \/ (~Running(t[1]) /\ ~Acknowledged(t))

\* The wait predicates: the fiber goes on when the runtime next visits it.
Wakes(f) ==
  CASE pc[f] = "wait" -> broken \/ CanStart(f) \/ Reclaimable # {}
    [] pc[f] = "backpressure" ->
         \/ broken \/ DownstreamDone \/ Reclaimable # {}
         \/ Head(waiting) = Current(f[1]) /\ HasRoom(shelf)
    [] pc[f] = "handshake" ->
         LET t == Current(f[1]) IN
         \/ broken \/ DownstreamDone
         \/ /\ Claimed(t)
            /\ ~Running(ConsumerOf(t)) \/ HandedOff(t) \/ transfer[t].progress = "parked"
    [] pc[f] = "parked" ->
         broken \/ transfer[lease].progress = "delivered" \/ ~Running(lease[1])
    [] pc[f] = "ack" ->
         broken \/ Acknowledged(TransferOf(f)) \/ ~Running(TransferOf(f)[1])
    [] OTHER -> FALSE

-----------------------------------------------------------------------------
(* Failure.  A process that fails closes its fibers, which marks a transfer *)
(* they leave unfinished, discards the live tokens on the carriers it owns  *)
(* and gives those carriers up.  Bindings and places stay as they are.      *)

\* Variant: a consumer that ends leaves no mark on its transfer.
CutBySource(t, S) == t[1] \in S /\ Claimed(t) /\ ~Acknowledged(t)

Cut(t, S) ==
  \/ t[1] \in S /\ Claimed(t) /\ ~Acknowledged(t)
  \/ Claimed(t) /\ ConsumerOf(t) \in S /\ transfer[t].progress # "finished"

\* Variant: whatever the process's roles are bound to is given up.
OwnedByRole(S) == {binding[s] : s \in {r \in Slots : r[1] \in S}}

Owned(S) == {x \in Slots : carrier[x].owner \in S}

\* Variant: the carriers are given up, the tokens on them forgotten.
AbandonedNone(S) == {}

Abandoned(S) == {t \in Tokens : Live(t) /\ token[t].on \in Owned(S)}

Fail(S, entries) ==
  /\ status' = [p \in Processes |-> IF p \in S THEN "failed" ELSE status[p]]
  /\ pc' = [f \in Fibers |-> IF f[1] \in S THEN "end" ELSE pc[f]]
  /\ token' = [t \in Tokens |-> IF t \in Abandoned(S)
                                THEN [token[t] EXCEPT !.status = "discarded"] ELSE token[t]]
  /\ carrier' = [x \in Slots |-> IF x \in Owned(S) THEN [carrier[x] EXCEPT !.owner = None]
                                 ELSE carrier[x]]
  /\ broken' = (broken \/ \E t \in Tokens : Cut(t, S))
  /\ waiting' = Kept(waiting, {t \in Tokens : t[1] \notin S})
  /\ demands' = Kept(demands, {d \in Inputs : d[1] \notin S})
  /\ shelf' = entries
  /\ UNCHANGED <<round, rotation, binding, transfer, lease, closed>>

Complete(p) ==
  /\ status' = [status EXCEPT ![p] = "complete"]
  /\ pc' = [f \in Fibers |-> IF f[1] = p THEN "end" ELSE pc[f]]

Goto(f, place) == pc' = [pc EXCEPT ![f] = place]

-----------------------------------------------------------------------------
(* Producers: FactoryProcess._production around FactorySupply.producer_sink. *)

\* production_continuation, then the next cycle or the end of production.
StartCycle(p) ==
  LET f == <<p, "out">> IN
  /\ pc[f] = "cycle"
  /\ IF round[p] < MaxCycles /\ ~broken /\ ~DownstreamDone
     THEN /\ round' = [round EXCEPT ![p] = @ + 1]
          /\ Goto(f, "make")
          /\ UNCHANGED status
     ELSE Complete(p) /\ UNCHANGED round
  /\ UNCHANGED <<rotation, binding, carrier, token, inventory, faults>>

\* OutputRetention.validate
MayRetain(t) ==
  LET x == binding[<<t[1], "out">>] IN
  /\ token[t].status = "offered" /\ token[t].on = x /\ token[t].epoch = carrier[x].epoch
  /\ carrier[x].owner = t[1]

\* All consumers ended: the surplus stays where it is, and production ends.
Retain(p) ==
  /\ MayRetain(Current(p))
  /\ Complete(p)
  /\ closed' = TRUE
  /\ shelf' = Reaped /\ waiting' = Without(waiting, Current(p))
  /\ UNCHANGED <<round, rotation, binding, carrier, token, demands, transfer, lease, broken>>

\* The first loop of the sink, up to its next wait.
Publish(p) ==
  LET f == <<p, "out">>
      line == Arrived(p)
      first == Head(line) = Current(p) /\ HasRoom(Reaped)
  IN
  /\ pc[f] = "offer" \/ (pc[f] = "backpressure" /\ Wakes(f))
  /\ ~broken /\ ~DownstreamDone
  /\ shelf' = IF first THEN Append(Reaped, Current(p)) ELSE Reaped
  /\ waiting' = IF first THEN Tail(line) ELSE line
  /\ Goto(f, IF first THEN "handshake" ELSE "backpressure")
  /\ UNCHANGED <<status, round, rotation, binding, carrier, token, demands, transfer,
                 lease, broken, closed, faults>>

\* OutputHandoff.validate, on the ledger and the producer's new binding.
MayAcknowledge(t) ==
  LET x == token[t].on
      r == transfer[t].replacement
  IN
  /\ token[t].status = "reserved" /\ token[t].consumer = ConsumerOf(t)
  /\ token[t].epoch = carrier[x].epoch /\ carrier[x].owner = ConsumerOf(t)
  /\ r # x /\ binding[<<t[1], "out">>] = r /\ carrier[r].owner = None

\* The second loop: queue the delivery, or acknowledge the handoff.
Shake(p) ==
  LET f == <<p, "out">>
      t == Current(p)
  IN
  /\ pc[f] = "handshake" /\ Wakes(f)
  /\ Claimed(t) /\ ~PeersLost(t)
  /\ HandedOff(t) => MayAcknowledge(t)
  /\ shelf' = Reaped
  /\ transfer' = IF HandedOff(t) THEN [transfer EXCEPT ![t].progress = "acknowledged"]
                 ELSE transfer
  /\ Goto(f, IF HandedOff(t) THEN "cycle_complete" ELSE "deliver")
  /\ UNCHANGED <<status, round, rotation, binding, carrier, token, waiting, demands,
                 lease, broken, closed, faults>>

\* The sink ends without a sale: the surplus is kept, or the producer fails.
LeaveSink(p) ==
  LET f == <<p, "out">>
      t == Current(p)
      keep == ~broken /\ DownstreamDone /\ ~Claimed(t)
  IN
  /\ pc[f] = "offer" \/ (pc[f] \in {"backpressure", "handshake"} /\ Wakes(f))
  /\ \/ keep /\ Retain(p)
     \/ /\ \/ broken
           \/ keep /\ ~MayRetain(t)
           \/ Claimed(t) /\ (PeersLost(t) \/ (HandedOff(t) /\ ~MayAcknowledge(t)))
        /\ Fail({p}, Reaped)
  /\ UNCHANGED faults

-----------------------------------------------------------------------------
(* Inputs: FactorySupply.consumer_supplier inside _external_prepare.        *)

\* The demand at the head of the line takes the oldest token on offer.
Claim(d) ==
  LET t == Head(Available)
      c == d[1]
  IN
  /\ pc[d] \in {"ask", "wait"}
  /\ CanStart(d) /\ ~broken
  /\ token' = [token EXCEPT ![t].status = "reserved", ![t].consumer = c]
  /\ carrier' = [carrier EXCEPT ![token[t].on].owner = c]
  /\ transfer' = [transfer EXCEPT ![t] = [progress |-> "claimed", input |-> d,
                                          replacement |-> binding[d]]]
  /\ lease' = t
  /\ demands' = Without(demands, d)
  /\ Goto(d, "park")
  /\ UNCHANGED <<status, round, rotation, binding, waiting, shelf, broken, closed, faults>>

Wait(d) ==
  /\ pc[d] = "ask" \/ (pc[d] = "wait" /\ Wakes(d))
  /\ ~CanStart(d) /\ ~broken
  /\ shelf' = Reaped
  /\ demands' = Asked(d)
  /\ Goto(d, "wait")
  /\ UNCHANGED <<status, round, rotation, binding, carrier, token, waiting, transfer,
                 lease, broken, closed, faults>>

\* No producer is left to wait for, or a delivery failed somewhere.
GiveUp(d) ==
  /\ \/ /\ pc[d] \in {"ask", "wait"} /\ broken
        /\ Fail({d[1]}, IF CanStart(d) THEN shelf ELSE Reaped)
     \/ pc[d] = "wait" /\ ~Wakes(d) /\ Exhausted /\ Fail({d[1]}, shelf)
  /\ UNCHANGED faults

SourceDelivered(d) ==
  /\ pc[d] = "parked" /\ Wakes(d)
  /\ ~PeersLost(lease)
  /\ Goto(d, "replace")
  /\ UNCHANGED <<status, round, rotation, binding, carrier, token, inventory, faults>>

\* The roles a queued call works on.
Used(f) ==
  IF f \notin Mains THEN {f}
  ELSE IF pc[f] = "local" THEN {}
  ELSE {<<f[1], r>> : r \in IF pc[f] = "final" THEN InitialRoles ELSE InitialRoles \cup {"R"}}
Calls == {"make", "deliver", "park", "replace", "local", "inject", "restore", "final"}
Queued == {f \in Fibers : pc[f] \in Calls}

\* The checks of commit_role_handoff.
MayHandOff(d) ==
  LET t == lease
      out == <<t[1], "out">>
      x == binding[out]
      r == binding[d]
  IN
  /\ Running(t[1]) /\ transfer[t].replacement = r
  /\ token[t].on = x /\ token[t].epoch = carrier[x].epoch
  /\ token[t].status = "reserved" /\ token[t].consumer = d[1]
  /\ carrier[x].owner = d[1] /\ carrier[r].owner = None
  /\ \A f \in Queued : \A s \in Used(f) : binding[s] \notin {x, r}

\* Variant: the swap is forgotten.
SwappedNone(d) == binding

Swapped(d) ==
  LET out == <<lease[1], "out">> IN [binding EXCEPT ![out] = binding[d], ![d] = binding[out]]

\* The runtime swaps both bindings in one visit and the parking site is free.
HandOff(d) ==
  /\ pc[d] = "handoff" /\ MayHandOff(d)
  /\ binding' = Swapped(d)
  /\ transfer' = [transfer EXCEPT ![lease].progress = "handed_off"]
  /\ lease' = None
  /\ Goto(d, "ack")
  /\ UNCHANGED <<status, round, rotation, carrier, token, waiting, shelf, demands, broken,
                 closed, faults>>

\* _external_prepare: the input is what the recipe may adopt or hold.
MayAdmit(d, t) ==
  LET x == binding[d] IN
  /\ token[t].on = x /\ token[t].epoch = carrier[x].epoch
  /\ token[t].status = "reserved" /\ token[t].consumer = d[1] /\ carrier[x].owner = d[1]

\* The producer acknowledged; an initial input is adopted, R's is kept in reserve.
Admit(d) ==
  LET t == TransferOf(d) IN
  /\ pc[d] = "ack" /\ Wakes(d)
  /\ ~PeersLost(t) /\ Acknowledged(t) /\ MayAdmit(d, t)
  /\ transfer' = [transfer EXCEPT ![t].progress = "finished"]
  /\ token' = IF d[2] = "R" THEN token ELSE [token EXCEPT ![t].status = "consumed"]
  /\ Goto(d, "got")
  /\ UNCHANGED <<status, round, rotation, binding, carrier, waiting, shelf, demands, lease,
                 broken, closed, faults>>

\* A peer is gone, or one of the checks refuses.
LoseInput(d) ==
  /\ \/ pc[d] = "parked" /\ Wakes(d) /\ PeersLost(lease)
     \/ pc[d] = "handoff" /\ ~MayHandOff(d)
     \/ /\ pc[d] = "ack" /\ Wakes(d)
        /\ LET t == TransferOf(d) IN PeersLost(t) \/ ~Acknowledged(t) \/ ~MayAdmit(d, t)
  /\ Fail({d[1]}, shelf)
  /\ UNCHANGED faults

-----------------------------------------------------------------------------
(* Consumers: FactoryProcess._factory.                                      *)

Gathered(c) ==
  \/ pc[<<c, "main">>] = "prepare" /\ \A r \in InitialRoles : pc[<<c, r>>] = "got"
  \/ pc[<<c, "main">>] = "rotate" /\ pc[<<c, "R">>] = "got"

\* The parallel preparations, or the rotation's input, have returned.
Gather(c) ==
  LET main == <<c, "main">> IN
  /\ Gathered(c)
  /\ Goto(main, IF pc[main] = "prepare" THEN "inputs_ready" ELSE "raw_prepared")
  /\ UNCHANGED <<status, round, rotation, binding, carrier, token, inventory, faults>>

Freed(roles, c) ==
  [x \in Slots |-> IF \E r \in roles : binding[<<c, r>>] = x
                   THEN [carrier[x] EXCEPT !.owner = None] ELSE carrier[x]]

Accept(c) ==
  /\ pc[<<c, "main">>] = "decided"
  /\ Complete(c)
  /\ carrier' = Freed(InitialRoles \cup {"R"}, c)
  /\ UNCHANGED <<round, rotation, binding, token, inventory, faults>>

\* A rejected batch starts over with new inputs.
Reject(c) ==
  /\ pc[<<c, "main">>] = "decided" /\ round[c] < Batches
  /\ round' = [round EXCEPT ![c] = @ + 1]
  /\ rotation' = [rotation EXCEPT ![c] = 0]
  /\ carrier' = Freed(InitialRoles, c)
  /\ pc' = [f \in Fibers |-> IF f[1] # c THEN pc[f] ELSE IF f[2] = "main" THEN "local"
                             ELSE IF f[2] = "R" THEN "idle" ELSE "ask"]
  /\ UNCHANGED <<status, binding, token, inventory, faults>>

RejectLast(c) ==
  /\ pc[<<c, "main">>] = "decided" /\ round[c] = Batches
  /\ Fail({c}, shelf)
  /\ UNCHANGED faults

-----------------------------------------------------------------------------
(* The runtime: barriers once every fiber has settled, then a wave.         *)

CanAdvance(f) ==
  \/ pc[f] \in {"cycle", "offer", "ask", "handoff", "decided"}
  \/ Wakes(f)
  \/ pc[f] = "wait" /\ Exhausted
  \/ f \in Mains /\ Gathered(f[1])

Settled == \A f \in Fibers : ~CanAdvance(f)

Barriers == {"inputs_ready", "raw_prepared", "consumption_complete", "rotation_complete",
             "decision", "cycle_complete"}

\* _in_cohort: the running processes of the cohort in the same cycle or batch.
Cohort(p) == IF p \in Producers THEN Producers ELSE Consumers
\* Variant: a barrier waits for the whole cohort, ended or in another batch.
PeersEver(p) == Cohort(p)

Peers(p) == {q \in Cohort(p) : Running(q) /\ round[q] = round[p]}
Main(p) == IF p \in Producers THEN <<p, "out">> ELSE <<p, "main">>

Assembled(p) ==
  /\ Running(p) /\ pc[Main(p)] \in Barriers
  /\ \A q \in Peers(p) : /\ pc[Main(q)] = pc[Main(p)]
                         /\ p \in Consumers => rotation[q] = rotation[p]

Rotates(c) == pc[Main(c)] \in {"inputs_ready", "rotation_complete"} /\ rotation[c] < Rotations

\* Where a fiber goes on behind the barrier its process has passed.
Beyond(f) ==
  LET c == f[1] IN
  CASE f \in Outputs -> "cycle"
    [] f \in Mains -> IF Rotates(c) THEN "rotate"
                      ELSE CASE pc[f] = "raw_prepared" -> "inject"
                             [] pc[f] = "consumption_complete" -> "restore"
                             [] pc[f] = "decision" -> "decided"
                             [] OTHER -> "final"
    [] OTHER -> IF f[2] = "R" /\ Rotates(c) THEN "ask" ELSE pc[f]

ReleaseBarrier(p) ==
  /\ Settled /\ Assembled(p)
  /\ pc' = [f \in Fibers |-> IF f[1] \in Peers(p) THEN Beyond(f) ELSE pc[f]]
  /\ rotation' = [c \in Consumers |-> IF c \in Peers(p) /\ Rotates(c) THEN rotation[c] + 1
                                      ELSE rotation[c]]
  /\ UNCHANGED <<status, round, binding, carrier, token, inventory, faults>>

Ready == Settled /\ \A p \in Processes : ~Assembled(p)

\* The token a consumer holds for this rotation.
Held(c) == CHOOSE t \in Tokens :
  token[t].status = "reserved" /\ transfer[t].input = <<c, "R">> /\ transfer[t].progress = "finished"

\* The checks _execute makes on the ledger before a wave starts.
MayExecute(f) ==
  LET p == f[1] IN
  CASE pc[f] = "make" -> carrier[binding[f]].owner = None
    [] pc[f] = "park" -> carrier[binding[f]].owner \in {None, p}
    [] pc[f] = "deliver" ->
         LET t == Current(p) IN
         /\ token[t].status = "reserved" /\ token[t].on = binding[f]
         /\ token[t].consumer = ConsumerOf(t) /\ carrier[binding[f]].owner = ConsumerOf(t)
    [] pc[f] = "replace" -> carrier[binding[f]].owner = p
    [] OTHER ->
         /\ \A s \in Used(f) : carrier[binding[s]].owner = p
         /\ pc[f] = "inject" => token[Held(p)].on = binding[<<p, "R">>]

After == [make |-> "offer", park |-> "parked", deliver |-> "handshake", replace |-> "handoff",
          local |-> "prepare", inject |-> "consumption_complete",
          restore |-> "rotation_complete", final |-> "decision"]

Arrival == [park |-> "parked", deliver |-> "delivered", replace |-> "returned"]

\* The role whose carrier a call changes, and the carrier after the call.
Hand(f) == IF f \in Mains THEN <<f[1], "R">> ELSE f
\* Variant: the replacement stays with the consumer.
MovedUnreleased(f) ==
  LET x == carrier[binding[Hand(f)]] IN
  CASE pc[f] = "make" -> [x EXCEPT !.owner = f[1], !.epoch = @ + 1]
    [] pc[f] = "park" -> [x EXCEPT !.owner = f[1], !.place = Parking]
    [] pc[f] = "deliver" -> [x EXCEPT !.place = transfer[Current(f[1])].input]
    [] pc[f] = "replace" -> [x EXCEPT !.place = <<lease[1], "out">>]
    [] pc[f] = "restore" -> [x EXCEPT !.owner = None]
    [] OTHER -> x

Moved(f) ==
  LET x == carrier[binding[Hand(f)]] IN
  CASE pc[f] = "make" -> [x EXCEPT !.owner = f[1], !.epoch = @ + 1]
    [] pc[f] = "park" -> [x EXCEPT !.owner = f[1], !.place = Parking]
    [] pc[f] = "deliver" -> [x EXCEPT !.place = transfer[Current(f[1])].input]
    [] pc[f] = "replace" -> [x EXCEPT !.owner = None, !.place = <<lease[1], "out">>]
    [] pc[f] = "restore" -> [x EXCEPT !.owner = None]
    [] OTHER -> x

\* Every call of an admitted wave takes effect, then its fiber is resumed.
Execute(calls) ==
  LET made == {Current(f[1]) : f \in {g \in calls : pc[g] = "make"}}
      used == {Held(f[1]) : f \in {g \in calls : pc[g] = "inject"}}
      hops == {f \in calls : pc[f] \in DOMAIN Arrival}
  IN
  /\ Ready /\ \A f \in calls : MayExecute(f)
  /\ pc' = [f \in Fibers |-> IF f \in calls THEN After[pc[f]] ELSE pc[f]]
  /\ carrier' = [x \in Slots |-> IF \E f \in calls : binding[Hand(f)] = x
                                 THEN Moved(CHOOSE f \in calls : binding[Hand(f)] = x)
                                 ELSE carrier[x]]
  /\ token' = [t \in Tokens |->
       IF t \in made
       THEN LET x == binding[<<t[1], "out">>] IN
            [status |-> "offered", on |-> x, epoch |-> carrier'[x].epoch, consumer |-> None]
       ELSE IF t \in used THEN [token[t] EXCEPT !.status = "consumed"] ELSE token[t]]
  /\ transfer' = [t \in Tokens |->
       IF t = lease /\ hops # {}
       THEN [transfer[t] EXCEPT !.progress = Arrival[pc[CHOOSE f \in hops : TRUE]]]
       ELSE transfer[t]]
  /\ UNCHANGED <<status, round, rotation, binding, waiting, shelf, demands, lease, broken,
                 closed, faults>>

\* A check stops the wave before it starts, and fails the one process it names.
Refuse(f) ==
  /\ Ready /\ f \in Queued /\ ~MayExecute(f)
  /\ Fail({f[1]}, shelf)
  /\ UNCHANGED faults

\* The kernel rejects the merged wave: all its processes fail, nothing moved.
Miscarry(calls) ==
  /\ Ready /\ \A f \in calls : MayExecute(f)
  /\ faults < MaxFaults /\ faults' = faults + 1
  /\ Fail({f[1] : f \in calls}, shelf)

Stuck == Ready /\ Queued = {} /\ \E p \in Processes : Running(p)

\* Nothing is ready and no deadline is ahead: protocol_deadlock.
Deadlock ==
  /\ Stuck
  /\ Fail({p \in Processes : Running(p)}, shelf)
  /\ UNCHANGED faults

Ended == \A p \in Processes : ~Running(p)
Finished == Ended /\ UNCHANGED vars

ProducerStep ==
  \E p \in Producers : StartCycle(p) \/ Publish(p) \/ Shake(p) \/ LeaveSink(p)
InputStep ==
  \E d \in Inputs : Claim(d) \/ Wait(d) \/ GiveUp(d) \/ SourceDelivered(d) \/ HandOff(d)
                    \/ Admit(d) \/ LoseInput(d)
ConsumerStep ==
  \E c \in Consumers : Gather(c) \/ Accept(c) \/ Reject(c) \/ RejectLast(c)
RuntimeStep ==
  \/ \E p \in Processes : ReleaseBarrier(p)
  \/ \E calls \in (SUBSET Queued) \ {{}} : Execute(calls) \/ Miscarry(calls)
  \/ \E f \in Queued : Refuse(f)
  \/ Deadlock

Next ==
  /\ ProducerStep \/ InputStep \/ ConsumerStep \/ RuntimeStep \/ Finished
  /\ UNCHANGED capacity

\* The run loop returns only when every process has ended.
Spec == Init /\ [][Next]_vars /\ WF_vars(Next)

-----------------------------------------------------------------------------
(* Properties.                                                              *)

SupplyTypeOK ==
  /\ status \in [Processes -> {"running", "complete", "failed"}]
  /\ DOMAIN pc = Fibers
  /\ binding \in [Slots -> Slots]
  /\ carrier \in [Slots -> [owner : Processes \cup {None}, epoch : Nat,
                            place : Slots \cup {Parking}]]
  /\ \A t \in Tokens :
       /\ token[t].status \in {"absent", "offered", "reserved", "consumed", "discarded"}
       /\ transfer[t].input \in Inputs \cup {None}
       /\ transfer[t].replacement \in Slots \cup {None}
  /\ {waiting, shelf} \subseteq Seq(Tokens) /\ demands \in Seq(Inputs)
  /\ lease \in Tokens \cup {None}
  /\ capacity \in Capacities

\* The handshakes exchange carriers and places in steps that belong to two
\* processes, either of which may fail in between.  No carrier is ever bound to
\* two roles, and no two carriers stand on one site: every transport goes to a
\* vacant destination.
NoAliasing ==
  /\ \A r, s \in Slots : binding[r] = binding[s] => r = s
  /\ \A x, y \in Slots : carrier[x].place = carrier[y].place => x = y

\* Once no delivery is under way the runtime's role bindings and the atoms
\* agree: every role's carrier stands on the role's own site.
RolesAtHome ==
  (lease = None /\ ~broken) => \A s \in Slots : carrier[binding[s]].place = s

\* Roles, carriers and sites keep to one another through every exchange.
RolesSound == SupplyTypeOK /\ NoAliasing /\ RolesAtHome

\* A call is declared by one fiber and checked at a later wave, a handoff or a
\* receipt is composed from what an earlier visit saw.  While every delivery
\* succeeds none of the checks the code repeats can refuse: not those of
\* _execute, of commit_role_handoff, of OutputHandoff and OutputRetention, nor
\* those of _external_prepare.
ChecksAgree ==
  /\ ~broken => \A f \in Queued : MayExecute(f)
  /\ \A d \in Inputs :
       /\ pc[d] = "handoff" => MayHandOff(d)
       /\ (pc[d] = "ack" /\ Acknowledged(TransferOf(d))) => MayAdmit(d, TransferOf(d))
  /\ \A p \in Producers :
       LET t == Current(p) IN
       /\ (pc[<<p, "out">>] = "handshake" /\ HandedOff(t)) => MayAcknowledge(t)
       /\ (pc[<<p, "out">>] \in {"backpressure", "handshake"} /\ ~Claimed(t)) => MayRetain(t)

\* Failures and retirements never strand a token or take one that is another's.
\* A live token is on the carrier of a process that runs and has it in a role or
\* in delivery, or it is the kept surplus of a producer that completed.  And an
\* entry of the shelf is of its carrier's present preparation, though carriers go
\* back to producers with used tokens on the shelf: available() raises for the
\* whole inventory on one that is not.
InventoryKept ==
  /\ \A t \in Range(shelf) : token[t].epoch = carrier[token[t].on].epoch
  /\ \A t \in Tokens : Live(t) =>
       LET x == token[t].on
           owner == carrier[x].owner
       IN
       /\ token[t].epoch = carrier[x].epoch /\ owner \in Processes
       /\ \/ /\ token[t].status = "offered" /\ owner = t[1] /\ status[owner] # "failed"
             /\ binding[<<owner, "out">>] = x
          \/ /\ token[t].status = "reserved" /\ Running(owner) /\ owner = ConsumerOf(t)
             /\ binding[transfer[t].input] = x \/ ~HandedOff(t)

\* A failing process gives up what it owns and nothing else: a token is discarded
\* only in a step that fails the process holding it.
DiscardByKeeper ==
  [][\A t \in Tokens :
       (token[t].status # "discarded" /\ token'[t].status = "discarded")
         => status'[carrier[token[t].on].owner] = "failed"]_vars

\* Each token is sold once, delivered alone, used once, and nothing is sold after
\* a delivery was lost: FactorySupply keeps the contract over every interleaving.
Fate(t) ==
  CASE token[t].status = "absent" -> "unmade"
    [] token[t].status = "offered" -> "stock"
    [] token[t].status = "reserved" -> IF HandedOff(t) THEN "held" ELSE "transit"
    [] token[t].status = "consumed" -> "used"
    [] token[t].status = "discarded" -> "lost"

Contract == INSTANCE SupplyContract WITH fate <- [t \in Tokens |-> Fate(t)], halted <- broken
KeepsContract == Contract!Spec

\* With room for one token per consumer the runtime never runs out of things to
\* do while a process runs: the lockstep of the cohorts, the single parking site,
\* the bounded buffer and the producers' barrier cannot wait on one another.  With
\* less room it may give up with protocol_deadlock, for one reason: every slot
\* holds the input of a consumer that waits at the barrier of its rotation, and
\* the peer it waits for has no slot left to be supplied from.
StuckForRoom ==
  Stuck =>
    /\ capacity < Cardinality(Consumers)
    /\ Len(shelf) = capacity
    /\ \A t \in Range(shelf) : /\ token[t].status = "reserved"
                               /\ pc[Main(ConsumerOf(t))] = "raw_prepared"
    /\ \E c \in Consumers : pc[<<c, "R">>] = "wait"

\* The pump and the run loop end whatever fails: no fiber is woken for ever
\* without going on, and no process waits for ever.
Terminates == <>Ended
=============================================================================
