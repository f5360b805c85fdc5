----------------------- MODULE FactorySupply_proofs -----------------------
(***************************************************************************)
(* For any producers, consumers, roles, capacities and numbers of cycles,  *)
(* batches and failing waves: roles, carriers and sites keep to one        *)
(* another, no repeated check can refuse while deliveries succeed, no      *)
(* usable token is stranded, failures discard what they own, the contract  *)
(* of the supply is kept, and a run that can do nothing lacks room on the  *)
(* shelf.                                                                  *)
(*                                                                         *)
(* All of it follows from one invariant.  Its core is that the delivery    *)
(* that holds the lease says where the two carriers it exchanges stand,    *)
(* and that until a delivery is lost both its fibers stand where its       *)
(* progress says.                                                          *)
(***************************************************************************)
EXTENDS FactorySupply, FiniteSetTheorems, WellFoundedInduction, TLAPS

(* Lists.                                                                    *)

\* A set of numbers has a least one.
LEMMA LeastNumber ==
  ASSUME NEW S \in SUBSET Nat, S # {}
  PROVE  \E n \in S : \A k \in S : n =< k
<1> PICK top \in S : TRUE
  OBVIOUS
<1> DEFINE low == {n \in S : n =< top}
           T == {0..n : n \in low}
<1>1. IsFiniteSet(0..top) /\ T \subseteq FiniteSubsetsOf(0..top) /\ T # {}
  <2>1. IsFiniteSet(0..top)
    BY FS_Interval
  <2>2. \A t \in T : t \in SUBSET (0..top)
    OBVIOUS
  <2>3. top \in low
    OBVIOUS
  <2>4. T # {}
    BY <2>3
  <2>5. \A t \in T : IsFiniteSet(t)
    <3> HIDE DEF T
    <3> QED BY <2>1, <2>2, FS_Subset
  <2> HIDE DEF T
  <2> QED BY <2>1, <2>2, <2>4, <2>5 DEF FiniteSubsetsOf
<1>2. PICK t \in T : \A u \in T : <<u, t>> \notin StrictSubsetOrdering(0..top)
  <2> HIDE DEF T
  <2> QED BY <1>1, FS_StrictSubsetOrderingWellFounded, WFMin
<1>3. PICK n \in low : t = 0..n
  BY <1>2
<1>4. ASSUME NEW k \in low PROVE n =< k
  <2>1. <<0..k, 0..n>> \notin StrictSubsetOrdering(0..top)
    BY <1>2, <1>3
  <2>2. 0..k \subseteq 0..top /\ 0..n \subseteq 0..top
    OBVIOUS
  <2>3. ~(0..k \subseteq 0..n /\ 0..k # 0..n)
    BY <2>1, <2>2 DEF StrictSubsetOrdering
  <2>4. ASSUME k < n PROVE FALSE
    <3>1. n \in 0..n /\ n \notin 0..k /\ 0..k \subseteq 0..n
      BY <2>4
    <3> QED BY <2>3, <3>1
  <2> QED BY <2>4
<1> QED BY <1>4

\* g keeps what lies in the set of the first n of a list.
KeepsUpTo(g, list, set, n) ==
  g = [i \in 0..n |->
        IF i = 0 THEN <<>>
        ELSE IF list[i] \in set THEN Append(g[i - 1], list[i]) ELSE g[i - 1]]

\* Such a function goes on by one element.
LEMMA KeepingGoesOn ==
  ASSUME NEW list, NEW set, NEW n \in Nat
  PROVE  \E g : KeepsUpTo(g, list, set, n)
<1> DEFINE Bad == {m \in Nat : ~\E g : KeepsUpTo(g, list, set, m)}
<1>1. ASSUME Bad # {} PROVE FALSE
  <2>1. PICK m \in Bad : \A k \in Bad : m =< k
    BY <1>1, LeastNumber
  <2>2. CASE m = 0
    <3> DEFINE g == [i \in 0..0 |-> <<>>]
    <3>1. KeepsUpTo(g, list, set, 0)
      BY DEF KeepsUpTo
    <3> QED BY <2>1, <2>2, <3>1
  <2>3. CASE m # 0
    <3>1. m - 1 \in Nat /\ m - 1 \notin Bad
      BY <2>1, <2>3
    <3>2. PICK h : KeepsUpTo(h, list, set, m - 1)
      BY <3>1
    <3> DEFINE more == IF list[m] \in set THEN Append(h[m - 1], list[m]) ELSE h[m - 1]
               g == [i \in 0..m |-> IF i = m THEN more ELSE h[i]]
    <3>3. \A i \in 0..(m - 1) : h[i] = IF i = 0 THEN <<>>
             ELSE IF list[i] \in set THEN Append(h[i - 1], list[i]) ELSE h[i - 1]
      BY <3>2 DEF KeepsUpTo
    <3>4. \A i \in 0..m : g[i] = IF i = 0 THEN <<>>
             ELSE IF list[i] \in set THEN Append(g[i - 1], list[i]) ELSE g[i - 1]
      <4> TAKE i \in 0..m
      <4>1. CASE i = m
        BY <4>1, <2>3, <3>1
      <4>2. CASE i # m
        <5>1. i \in 0..(m - 1) /\ (i # 0 => i - 1 \in 0..m /\ i - 1 # m)
          BY <4>2
        <5> QED BY <5>1, <4>2, <3>3
      <4> QED BY <4>1, <4>2
    <3>5. KeepsUpTo(g, list, set, m)
      <4> HIDE DEF g
      <4>1. g = [i \in 0..m |-> g[i]]
        BY DEF g
      <4> QED BY <3>4, <4>1 DEF KeepsUpTo
    <3> QED BY <2>1, <3>5
  <2> QED BY <2>2, <2>3
<1> QED BY <1>1

\* What is kept of a list is of the list and of the set.
LEMMA KeptPart ==
  ASSUME NEW T, NEW list \in Seq(T), NEW set
  PROVE  /\ Kept(list, set) \in Seq(T)
         /\ Range(Kept(list, set)) \subseteq Range(list) \cap set
<1> DEFINE P == {y \in T : y \in Range(list) /\ y \in set}
           g == CHOOSE h : KeepsUpTo(h, list, set, Len(list))
<1>1. Len(list) \in Nat /\ Kept(list, set) = g[Len(list)]
  BY DEF Kept, KeepsUpTo
<1>2. KeepsUpTo(g, list, set, Len(list))
  BY <1>1, KeepingGoesOn
<1> HIDE DEF g
<1>3. \A i \in 0..Len(list) : g[i] = IF i = 0 THEN <<>>
             ELSE IF list[i] \in set THEN Append(g[i - 1], list[i]) ELSE g[i - 1]
  BY <1>2 DEF KeepsUpTo
<1> DEFINE Bad == {i \in 0..Len(list) : g[i] \notin Seq(P)}
<1>4. ASSUME Bad # {} PROVE FALSE
  <2>1. PICK i \in Bad : \A k \in Bad : i =< k
    <3>1. Bad \in SUBSET Nat
      BY <1>1
    <3> HIDE DEF Bad
    <3> QED BY <3>1, <1>4, LeastNumber
  <2>2. i # 0 /\ i \in 1..Len(list)
    <3>1. g[0] = <<>>
      BY <1>1, <1>3
    <3>2. g[0] \in Seq(P)
      BY <3>1
    <3> QED BY <2>1, <3>2, <1>1
  <2>3. g[i - 1] \in Seq(P)
    BY <2>1, <2>2, <1>1
  <2>4. list[i] \in set => list[i] \in P
    <3>1. list[i] \in T /\ i \in DOMAIN list
      BY <2>2
    <3> QED BY <3>1 DEF Range
  <2>5. g[i] \in Seq(P)
    <3> HIDE DEF P
    <3>1. CASE list[i] \in set
      <4>1. g[i] = Append(g[i - 1], list[i])
        BY <3>1, <2>2, <1>3, <1>1
      <4>2. list[i] \in P
        BY <3>1, <2>4
      <4> QED BY <2>3, <4>1, <4>2
    <3>2. CASE list[i] \notin set
      BY <3>2, <2>2, <2>3, <2>4, <1>3, <1>1
    <3> QED BY <3>1, <3>2
  <2> QED BY <2>1, <2>5
<1>5. g[Len(list)] \in Seq(P)
  BY <1>1, <1>4
<1>6. \A s \in Seq(P) : s \in Seq(T) /\ \A k \in DOMAIN s : s[k] \in P
  OBVIOUS
<1> QED BY <1>1, <1>5, <1>6 DEF Range

\* A longer list holds what it held and what was added.
LEMMA AppendPart ==
  ASSUME NEW T, NEW list \in Seq(T), NEW x \in T
  PROVE  /\ Append(list, x) \in Seq(T)
         /\ Range(Append(list, x)) \subseteq Range(list) \cup {x}
<1>1. \A i \in DOMAIN Append(list, x) :
        Append(list, x)[i] = x \/ (i \in DOMAIN list /\ Append(list, x)[i] = list[i])
  OBVIOUS
<1>2. Append(list, x) \in Seq(T)
  OBVIOUS
<1> QED BY <1>1, <1>2 DEF Range

\* The rest of a list of some kind is a list of that kind.
LEMMA TailPart ==
  ASSUME NEW T, NEW list \in Seq(T)
  PROVE  Tail(list) \in Seq(T)
<1>1. CASE list = <<>>
  <2>1. Tail(<<>>) \in Seq(T)
    OBVIOUS
  <2> QED BY <1>1, <2>1
<1>2. CASE list # <<>>
  BY <1>2
<1> QED BY <1>1, <1>2

-----------------------------------------------------------------------------
(* The invariant.                                                            *)

Out(p) == <<p, "out">>
MainOf(c) == <<c, "main">>
On(t) == token[t].on
Progress(t) == transfer[t].progress
InputOf(t) == transfer[t].input

Underway == {"claimed", "parked", "delivered", "returned"}
Received == {"handed_off", "acknowledged"}
Progresses == {"none", "finished"} \cup Underway \cup Received

OutputPlaces == {"cycle", "make", "offer", "backpressure", "handshake", "deliver",
                 "cycle_complete", "end"}
InputPlaces == {"idle", "ask", "wait", "park", "parked", "replace", "handoff", "ack", "got", "end"}
MainPlaces == {"local", "prepare", "inputs_ready", "rotate", "raw_prepared", "inject",
               "consumption_complete", "restore", "rotation_complete", "final", "decision",
               "decided", "end"}

\* The shapes of the variables.
Shapes ==
  /\ status \in [Processes -> {"running", "complete", "failed"}]
  /\ DOMAIN pc = Fibers
  /\ \A f \in Outputs : pc[f] \in OutputPlaces
  /\ \A f \in Inputs : pc[f] \in InputPlaces
  /\ \A f \in Mains : pc[f] \in MainPlaces
  /\ round \in [Processes -> Nat]
  /\ \A p \in Producers : round[p] =< MaxCycles
  /\ binding \in [Slots -> Slots]
  /\ carrier \in [Slots -> [owner : Processes \cup {None}, epoch : Nat,
                            place : Slots \cup {Parking}]]
  /\ token \in [Tokens -> [status : {"absent", "offered", "reserved", "consumed", "discarded"},
                           on : Slots \cup {None}, epoch : Nat,
                           consumer : Consumers \cup {None}]]
  /\ transfer \in [Tokens -> [progress : Progresses, input : Inputs \cup {None},
                              replacement : Slots \cup {None}]]
  /\ waiting \in Seq(Tokens) /\ shelf \in Seq(Tokens) /\ demands \in Seq(Inputs)
  /\ lease \in Tokens \cup {None}
  /\ broken \in BOOLEAN
  /\ capacity \in Capacities

\* The fibers of a process end with it.
EndsMet == \A f \in Fibers : pc[f] = "end" <=> ~Running(f[1])

\* Every carrier is bound to exactly one role.
Bound ==
  /\ \A r, s \in Slots : binding[r] = binding[s] => r = s
  /\ \A x \in Slots : \E s \in Slots : binding[s] = x

\* Where the delivery that holds the lease has brought the carrier of a role.
Site(s) ==
  IF lease = None \/ s \notin {InputOf(lease), Out(lease[1])} \/ Progress(lease) = "claimed" THEN s
  ELSE IF s = InputOf(lease)
       THEN IF Progress(lease) = "returned" THEN Out(lease[1]) ELSE Parking
       ELSE IF Progress(lease) = "parked" THEN s ELSE InputOf(lease)
Sited == \A s \in Slots : carrier[binding[s]].place = Site(s)

\* The lease and the records of the deliveries.
Leased ==
  /\ \A t \in Tokens : Progress(t) \in Underway <=> lease = t
  /\ \A t \in Tokens : Progress(t) = "none" => transfer[t] = NoTransfer
  /\ \A t \in Tokens : Claimed(t) => InputOf(t) \in Inputs /\ transfer[t].replacement \in Slots
  /\ \A t, u \in Tokens :
       /\ Claimed(t) /\ Progress(t) # "finished" /\ Claimed(u) /\ Progress(u) # "finished"
       /\ InputOf(t) = InputOf(u)
       => t = u

\* Where an input fiber stands tells how far its delivery is.
InputStands(d) ==
  /\ pc[d] = "park" => lease # None /\ InputOf(lease) = d /\ Progress(lease) = "claimed"
  /\ pc[d] = "parked" => lease # None /\ InputOf(lease) = d
                           /\ Progress(lease) \in {"parked", "delivered"}
  /\ pc[d] = "replace" => lease # None /\ InputOf(lease) = d /\ Progress(lease) = "delivered"
                            /\ ~broken
  /\ pc[d] = "handoff" => lease # None /\ InputOf(lease) = d /\ Progress(lease) = "returned"
                            /\ ~broken
  /\ pc[d] = "ack" => ~broken /\ \E t \in Tokens : InputOf(t) = d /\ Progress(t) \in Received
  /\ pc[d] \in {"idle", "ask", "wait", "got"} =>
       \A t \in Tokens : InputOf(t) = d => Progress(t) \in {"none", "finished"}

\* A token on offer is its producer's current one, on the producer's carrier.
OfferedTold(t) ==
  token[t].status = "offered" =>
    /\ Progress(t) = "none" /\ t = Current(t[1])
    /\ On(t) = binding[Out(t[1])]
    /\ carrier[On(t)].owner = t[1] /\ token[t].epoch = carrier[On(t)].epoch
    /\ IF Running(t[1]) THEN pc[Out(t[1])] \in {"offer", "backpressure", "handshake"}
       ELSE status[t[1]] = "complete" /\ DownstreamDone

\* A reserved one is its consumer's, on one of the two carriers of its delivery.
ReservedTold(t) ==
  token[t].status = "reserved" =>
    /\ Claimed(t) /\ On(t) \in Slots
    /\ token[t].consumer = ConsumerOf(t) /\ Running(ConsumerOf(t))
    /\ carrier[On(t)].owner = ConsumerOf(t) /\ token[t].epoch = carrier[On(t)].epoch
    /\ lease = t => /\ On(t) = binding[Out(t[1])]
                    /\ transfer[t].replacement = binding[InputOf(t)]
                    /\ Progress(t) \in {"claimed", "returned"} =>
                         carrier[binding[InputOf(t)]].owner = None
                    /\ Progress(t) \in {"parked", "delivered"} =>
                         carrier[binding[InputOf(t)]].owner = ConsumerOf(t)
    /\ HandedOff(t) => On(t) = binding[InputOf(t)]
    /\ Progress(t) = "handed_off" => /\ transfer[t].replacement = binding[Out(t[1])]
                                     /\ carrier[binding[Out(t[1])]].owner = None
    /\ Progress(t) = "finished" =>
         /\ InputOf(t)[2] = "R" /\ pc[InputOf(t)] = "got"
         /\ pc[MainOf(ConsumerOf(t))] \in {"rotate", "raw_prepared", "inject"}

\* Unclaimed are the tokens not made yet, received the ones used, and while its
\* consumer runs a claimed one is reserved until it is received.
RestTold(t) ==
  /\ token[t].status = "absent" => Progress(t) = "none"
  /\ token[t].status = "consumed" => Progress(t) = "finished"
  /\ (Claimed(t) /\ Progress(t) # "finished" /\ Running(ConsumerOf(t)))
       => token[t].status = "reserved"

\* Until a delivery is lost both its fibers stand where its progress says.
InStep(t) ==
  (~broken /\ Claimed(t) /\ Progress(t) # "finished") =>
    LET at == pc[InputOf(t)] IN
    /\ Running(ConsumerOf(t))
    /\ Progress(t) = "claimed" => at = "park"
    /\ Progress(t) = "parked" => at = "parked"
    /\ Progress(t) = "delivered" => at \in {"parked", "replace"}
    /\ Progress(t) = "returned" => at = "handoff"
    /\ Progress(t) \in Received => at = "ack"
    /\ Running(t[1]) /\ t = Current(t[1])
    /\ \/ Progress(t) = "acknowledged" /\ pc[Out(t[1])] = "cycle_complete"
       \/ Progress(t) # "acknowledged" /\ pc[Out(t[1])] = "handshake"
       \/ Progress(t) = "parked" /\ pc[Out(t[1])] = "deliver"

\* What was handed over is received before a delivery is lost.
LostUnderLease ==
  broken => \A t \in Tokens : Progress(t) \notin Received

\* Where a producer stands tells of its current token and its carrier.
ProducerStands(p) ==
  LET at == pc[Out(p)]
      t == Current(p)
  IN
  /\ \A u \in Tokens : u[1] = p /\ u[2] > round[p] => token[u].status = "absent"
  /\ at # "end" => (at = "cycle" \/ round[p] > 0)
  /\ at = "make" => token[t].status = "absent"
  /\ at \in {"offer", "backpressure"} => token[t].status = "offered"
  /\ at = "handshake" => ~Acknowledged(t) /\ (~Claimed(t) => token[t].status = "offered")
  /\ at = "deliver" => lease = t /\ Progress(t) = "parked"
  /\ at \in {"make", "offer", "backpressure"} => t \notin Range(shelf)
  /\ at \in {"cycle", "make", "cycle_complete"} =>
       /\ carrier[binding[Out(p)]].owner = None
       /\ \A u \in Range(shelf) : On(u) # binding[Out(p)]

\* What is on the shelf was made, and its carrier is not prepared anew.
ShelfInv ==
  \A t \in Range(shelf) : /\ token[t].status # "absent" /\ On(t) \in Slots
                          /\ token[t].epoch = carrier[On(t)].epoch

\* A carrier has one usable token.
OneLive ==
  \A t, u \in Tokens : Live(t) /\ Live(u) /\ On(t) = On(u) => t = u

\* Where a consumer stands tells of its input fibers and their carriers.
ConsumerStands(c) ==
  LET at == pc[MainOf(c)]
      R == <<c, "R">>
  IN
  /\ at \notin {"local", "prepare", "end"} => \A r \in InitialRoles : pc[<<c, r>>] = "got"
  /\ at # "rotate" => pc[R] \in {"idle", "got", "end"}
  /\ at \in {"raw_prepared", "inject", "consumption_complete", "restore"} => pc[R] = "got"
  /\ \A r \in InitialRoles : pc[<<c, r>>] # "idle"
  /\ \A r \in InitialRoles : pc[<<c, r>>] = "got" => carrier[binding[<<c, r>>]].owner = c
  /\ pc[R] = "got" /\ at \in {"rotate", "raw_prepared", "inject", "consumption_complete", "restore"}
       => carrier[binding[R]].owner = c
  /\ pc[R] = "got" /\ at \in {"rotate", "raw_prepared", "inject"}
       => \E t \in Tokens : /\ token[t].status = "reserved" /\ InputOf(t) = R
                            /\ Progress(t) = "finished"

InputsStand == \A d \in Inputs : InputStands(d)
TokensTold == \A t \in Tokens : OfferedTold(t) /\ ReservedTold(t) /\ RestTold(t)
DeliveriesInStep == \A t \in Tokens : InStep(t)
ProducersStand == \A p \in Producers : ProducerStands(p)
ConsumersStand == \A c \in Consumers : ConsumerStands(c)

SupplyInv ==
  /\ Shapes /\ EndsMet /\ Bound /\ Sited /\ Leased
  /\ InputsStand /\ TokensTold /\ DeliveriesInStep /\ LostUnderLease
  /\ ProducersStand /\ ShelfInv /\ OneLive /\ ConsumersStand

\* The output fiber of a producer, which is its role too.
LEMMA OutputNames ==
  /\ \A p \in Producers : /\ Out(p) \in Outputs /\ Out(p) \in Slots /\ Out(p) \in Fibers
                          /\ Out(p)[1] = p /\ Out(p) \notin Inputs /\ Out(p) \notin Mains
                          /\ p \in Processes /\ p \notin Consumers /\ p # None
  /\ \A f \in Outputs : f[1] \in Producers /\ f = Out(f[1])
<1>1. \A f \in Mains \cup Inputs : f[2] # "out"
  BY SupplyAssumption DEF Mains, Inputs
<1>2. \A p \in Producers : Out(p) \in Outputs /\ Out(p)[1] = p /\ Out(p)[2] = "out"
  BY DEF Outputs, Out
<1>3. \A f \in Outputs : f[1] \in Producers /\ f = Out(f[1])
  BY DEF Outputs, Out
<1> QED BY <1>1, <1>2, <1>3, SupplyAssumption DEF Slots, Fibers, Processes

\* The main fiber of a consumer, which is no role.
LEMMA MainNames ==
  /\ \A c \in Consumers : /\ MainOf(c) \in Mains /\ MainOf(c) \in Fibers /\ MainOf(c) \notin Slots
                          /\ MainOf(c)[1] = c /\ c \in Processes /\ c \notin Producers /\ c # None
  /\ \A f \in Mains : f[1] \in Consumers /\ f = MainOf(f[1]) /\ f \in Fibers /\ f \notin Slots
<1>1. \A f \in Outputs \cup Inputs : f[2] # "main"
  BY SupplyAssumption DEF Outputs, Inputs
<1>2. \A c \in Consumers : MainOf(c) \in Mains /\ MainOf(c)[1] = c
  BY DEF Mains, MainOf
<1>3. \A f \in Mains : f[1] \in Consumers /\ f = MainOf(f[1]) /\ f[2] = "main"
  BY DEF Mains, MainOf
<1> QED BY <1>1, <1>2, <1>3, SupplyAssumption DEF Slots, Fibers, Processes

\* The input fibers of a consumer, which are its roles too.
LEMMA InputNames ==
  /\ \A c \in Consumers : \A r \in InitialRoles \cup {"R"} :
       /\ <<c, r>> \in Inputs /\ <<c, r>> \in Slots /\ <<c, r>> \in Fibers
       /\ <<c, r>> \notin Mains /\ <<c, r>> \notin Outputs
  /\ \A d \in Inputs : /\ d[1] \in Consumers /\ d[2] \in InitialRoles \cup {"R"} /\ d = <<d[1], d[2]>>
                       /\ d \in Slots /\ d \in Fibers /\ d \notin Mains /\ d \notin Outputs
                       /\ d # None
  /\ "R" \notin InitialRoles
<1>1. \A f \in Outputs \cup Mains : f[2] \in {"main", "out"}
  BY DEF Outputs, Mains
<1>2. \A d \in Inputs : /\ d[1] \in Consumers /\ d[2] \in InitialRoles \cup {"R"} /\ d = <<d[1], d[2]>>
                       /\ d[2] \notin {"main", "out"}
  BY SupplyAssumption DEF Inputs
<1>3. \A c \in Consumers : \A r \in InitialRoles \cup {"R"} : <<c, r>> \in Inputs
  BY DEF Inputs
<1> QED BY <1>1, <1>2, <1>3, SupplyAssumption DEF Slots, Fibers

\* A fiber is an output, an input or a main one, of a process.
LEMMA FiberKinds ==
  /\ \A f \in Fibers : f \in Inputs \/ f \in Outputs \/ f \in Mains
  /\ \A s \in Slots : s \in Fibers /\ (s \in Inputs \/ s \in Outputs) /\ s # None /\ s # Parking
  /\ \A f \in Fibers : f[1] \in Processes
  /\ \A p \in Processes : p # None /\ (p \in Producers \/ p \in Consumers)
BY SupplyAssumption, OutputNames, MainNames, InputNames DEF Slots, Fibers, Processes

\* A token is its producer's, by the number of the cycle.
LEMMA TokenNames ==
  \A t \in Tokens : /\ t[1] \in Producers /\ t[2] \in 1..MaxCycles /\ t = <<t[1], t[2]>>
                   /\ t # None
BY SupplyAssumption DEF Tokens

\* The invariant holds at the start.
LEMMA SupplyInit == ASSUME Init PROVE SupplyInv
<1>1. /\ \A p \in Processes : status[p] = "running" /\ Running(p)
      /\ \A p \in Producers : round[p] = 0
      /\ \A f \in Outputs : pc[f] = "cycle"
      /\ \A f \in Mains : pc[f] = "local"
      /\ \A d \in Inputs : pc[d] = IF d[2] = "R" THEN "idle" ELSE "ask"
      /\ DOMAIN pc = Fibers
  <2>1. \A p \in Processes : status[p] = "running" /\ Running(p)
    BY DEF Init, Running
  <2>2. \A p \in Producers : round[p] = 0
    BY OutputNames DEF Init
  <2>3. DOMAIN pc = Fibers
    BY DEF Init
  <2>4. \A f \in Outputs : pc[f] = "cycle"
    BY OutputNames DEF Init
  <2>5. \A f \in Mains : pc[f] = "local"
    BY MainNames, OutputNames DEF Init
  <2>6. \A d \in Inputs : pc[d] = IF d[2] = "R" THEN "idle" ELSE "ask"
    BY InputNames DEF Init
  <2> QED BY <2>1, <2>2, <2>3, <2>4, <2>5, <2>6
<1>2. /\ \A s \in Slots : binding[s] = s
      /\ \A s \in Slots : carrier[s].owner = None /\ carrier[s].epoch = 0 /\ carrier[s].place = s
      /\ \A t \in Tokens : /\ token[t].status = "absent" /\ transfer[t] = NoTransfer
                           /\ Progress(t) = "none" /\ ~Claimed(t) /\ ~Live(t)
      /\ shelf = <<>> /\ lease = None /\ broken = FALSE
  BY DEF Init, NoTransfer, Progress, Claimed, Live
<1>3. Shapes
  <2>1. status \in [Processes -> {"running", "complete", "failed"}]
    BY DEF Init
  <2>2. /\ \A f \in Outputs : pc[f] \in OutputPlaces
        /\ \A f \in Mains : pc[f] \in MainPlaces
    BY <1>1 DEF OutputPlaces, MainPlaces
  <2>3. \A f \in Inputs : pc[f] \in InputPlaces
    BY <1>1 DEF InputPlaces
  <2>4. round \in [Processes -> Nat] /\ \A p \in Producers : round[p] =< MaxCycles
    BY <1>1, OutputNames, SupplyAssumption DEF Init
  <2>5. /\ binding \in [Slots -> Slots]
        /\ carrier \in [Slots -> [owner : Processes \cup {None}, epoch : Nat,
                            place : Slots \cup {Parking}]]
    BY DEF Init
  <2>6. /\ token \in [Tokens -> [status : {"absent", "offered", "reserved", "consumed", "discarded"},
                           on : Slots \cup {None}, epoch : Nat, consumer : Consumers \cup {None}]]
        /\ transfer \in [Tokens -> [progress : Progresses, input : Inputs \cup {None},
                              replacement : Slots \cup {None}]]
    BY DEF Init, NoTransfer, Progresses
  <2>7. /\ waiting \in Seq(Tokens) /\ shelf \in Seq(Tokens) /\ demands \in Seq(Inputs)
        /\ lease \in Tokens \cup {None} /\ broken \in BOOLEAN
    <3>1. waiting = <<>> /\ shelf = <<>> /\ demands = <<>> /\ lease = None /\ broken = FALSE
      BY DEF Init
    <3>2. <<>> \in Seq(Tokens) /\ <<>> \in Seq(Inputs)
      OBVIOUS
    <3> QED BY <3>1, <3>2
  <2>8. capacity \in Capacities
    BY DEF Init
  <2> QED BY <1>1, <2>1, <2>2, <2>3, <2>4, <2>5, <2>6, <2>7, <2>8 DEF Shapes
<1>4. EndsMet
  BY <1>1, FiberKinds DEF EndsMet
<1>5. Bound /\ Sited
  BY <1>2 DEF Bound, Sited, Site
<1>6. Leased
  BY <1>2, TokenNames DEF Leased, Underway, Received
<1>7. InputsStand
  BY <1>1, <1>2 DEF InputsStand, InputStands
<1>8. TokensTold /\ DeliveriesInStep /\ LostUnderLease /\ OneLive
  BY <1>2 DEF TokensTold, OfferedTold, ReservedTold, RestTold, DeliveriesInStep, InStep, LostUnderLease, OneLive
<1>9. ShelfInv /\ Range(shelf) = {}
  BY <1>2 DEF ShelfInv, Range
<1>10. ProducersStand
  BY <1>1, <1>2, <1>9, OutputNames, TokenNames DEF ProducersStand, ProducerStands
<1>11. ConsumersStand
  <2> SUFFICES ASSUME NEW c \in Consumers PROVE ConsumerStands(c)
    BY DEF ConsumersStand
  <2>1. /\ pc[MainOf(c)] = "local" /\ pc[<<c, "R">>] = "idle"
        /\ \A r \in InitialRoles : pc[<<c, r>>] = "ask"
    BY <1>1, InputNames, MainNames
  <2> QED BY <2>1 DEF ConsumerStands
<1> QED BY <1>3, <1>4, <1>5, <1>6, <1>7, <1>8, <1>9, <1>10, <1>11 DEF SupplyInv

\* What the lists of the inventory are made of.
LEMMA ShelfParts ==
  ASSUME Shapes
  PROVE  /\ Range(shelf) \subseteq Tokens
         /\ Reaped \in Seq(Tokens) /\ Range(Reaped) \subseteq Range(shelf)
         /\ \A t \in Range(Reaped) : ~Spent(t)
         /\ Available # <<>> =>
              /\ Head(Available) \in Tokens /\ Head(Available) \in Range(shelf)
              /\ token[Head(Available)].status = "offered"
<1>1. shelf \in Seq(Tokens)
  BY DEF Shapes
<1>2. Range(shelf) \subseteq Tokens
  BY <1>1 DEF Range
<1>3. /\ Reaped \in Seq(Tokens)
      /\ Range(Reaped) \subseteq Range(shelf) \cap {t \in Tokens : ~Spent(t)}
  BY <1>1, KeptPart DEF Reaped
<1>4. /\ Available \in Seq(Tokens)
      /\ Range(Available) \subseteq Range(shelf) \cap {t \in Tokens : token[t].status = "offered"}
  BY <1>1, KeptPart DEF Available
<1>5. Available # <<>> => Head(Available) \in Range(Available)
  <2> SUFFICES ASSUME Available # <<>> PROVE Head(Available) \in Range(Available)
    OBVIOUS
  <2>1. 1 \in DOMAIN Available /\ Head(Available) = Available[1]
    BY <1>4
  <2> QED BY <2>1 DEF Range
<1> QED BY <1>2, <1>3, <1>4, <1>5

\* Deliveries that no step touches.
LEMMA SameDeliveries ==
  ASSUME transfer' = transfer
  PROVE  \A t : /\ Progress(t)' = Progress(t) /\ InputOf(t)' = InputOf(t)
                /\ ConsumerOf(t)' = ConsumerOf(t) /\ (Claimed(t)' <=> Claimed(t))
                /\ (HandedOff(t)' <=> HandedOff(t)) /\ (Acknowledged(t)' <=> Acknowledged(t))
BY DEF Progress, InputOf, ConsumerOf, Claimed, HandedOff, Acknowledged

\* What goes for an input fiber and its process.
LEMMA InputAt ==
  ASSUME SupplyInv, NEW d \in Inputs
  PROVE  /\ d \in Slots /\ d \in Fibers /\ d[1] \in Consumers /\ d[1] \in Processes
         /\ Running(d[1]) <=> pc[d] # "end"
         /\ InputStands(d) /\ ConsumerStands(d[1])
         /\ pc[d] \in InputPlaces /\ binding[d] \in Slots
         /\ \A p \in Producers : binding[Out(p)] \in Slots /\ binding[d] # binding[Out(p)]
<1>1. d \in Slots /\ d \in Fibers /\ d[1] \in Consumers /\ d[1] \in Processes
  BY InputNames, MainNames
<1>2. \A p \in Producers : Out(p) \in Slots /\ d # Out(p)
  BY OutputNames
<1> QED BY <1>1, <1>2 DEF SupplyInv, EndsMet, InputsStand, ConsumersStand, Shapes, Bound

\* What goes for a token and its delivery.
LEMMA TokenAt ==
  ASSUME SupplyInv, NEW t \in Tokens
  PROVE  /\ t[1] \in Producers /\ t[1] \in Processes /\ Out(t[1]) \in Slots /\ Out(t[1]) \in Fibers
         /\ binding[Out(t[1])] \in Slots
         /\ OfferedTold(t) /\ ReservedTold(t) /\ RestTold(t) /\ InStep(t)
         /\ Progress(t) \in Progresses /\ (Claimed(t) <=> Progress(t) # "none")
         /\ Claimed(t) => /\ InputOf(t) \in Inputs /\ InputOf(t) \in Slots
                          /\ ConsumerOf(t) = InputOf(t)[1] /\ binding[InputOf(t)] \in Slots
                          /\ ConsumerOf(t) \in Consumers /\ ConsumerOf(t) \in Processes
<1>1. t[1] \in Producers /\ t[1] \in Processes /\ Out(t[1]) \in Slots /\ Out(t[1]) \in Fibers
  BY TokenNames, OutputNames
<1>2. /\ OfferedTold(t) /\ ReservedTold(t) /\ RestTold(t) /\ InStep(t)
      /\ binding[Out(t[1])] \in Slots
  BY <1>1 DEF SupplyInv, TokensTold, DeliveriesInStep, Shapes
<1>3. Progress(t) \in Progresses /\ (Claimed(t) <=> Progress(t) # "none")
  BY DEF SupplyInv, Shapes, Progress, Claimed
<1>4. Claimed(t) => /\ InputOf(t) \in Inputs /\ InputOf(t) \in Slots
                    /\ ConsumerOf(t) = InputOf(t)[1] /\ binding[InputOf(t)] \in Slots
                    /\ ConsumerOf(t) \in Consumers /\ ConsumerOf(t) \in Processes
  BY InputNames, MainNames DEF SupplyInv, Leased, Shapes, ConsumerOf, InputOf
<1> QED BY <1>1, <1>2, <1>3, <1>4

\* Where an input fiber stands from asking for a token to having it.
Asking == {"ask", "wait", "park", "parked", "replace", "handoff", "ack"}

\* What a consumer's main fiber tells stays true while it stands still, its inputs
\* do or go on asking, its carriers keep their owner and its reserve is kept.
LEMMA SameConsumer ==
  ASSUME NEW c \in Consumers, ConsumerStands(c),
         pc'[MainOf(c)] = pc[MainOf(c)],
         \A r \in InitialRoles \cup {"R"} :
           /\ pc'[<<c, r>>] = pc[<<c, r>>] \/ {pc[<<c, r>>], pc'[<<c, r>>]} \subseteq Asking
           /\ pc[<<c, r>>] = "got" /\ carrier[binding[<<c, r>>]].owner = c
                => carrier'[binding'[<<c, r>>]].owner = c,
         \A t \in Tokens :
           token[t].status = "reserved" /\ InputOf(t) = <<c, "R">> /\ Progress(t) = "finished"
             => token'[t].status = "reserved" /\ InputOf(t)' = <<c, "R">> /\ Progress(t)' = "finished"
  PROVE  ConsumerStands(c)'
<1>1. /\ pc'[<<c, "R">>] = pc[<<c, "R">>] \/ {pc[<<c, "R">>], pc'[<<c, "R">>]} \subseteq Asking
      /\ pc[<<c, "R">>] = "got" /\ carrier[binding[<<c, "R">>]].owner = c
           => carrier'[binding'[<<c, "R">>]].owner = c
  OBVIOUS
<1>2. \A r \in InitialRoles : /\ \/ pc'[<<c, r>>] = pc[<<c, r>>]
                                 \/ {pc[<<c, r>>], pc'[<<c, r>>]} \subseteq Asking
                              /\ pc[<<c, r>>] = "got" /\ carrier[binding[<<c, r>>]].owner = c
                                   => carrier'[binding'[<<c, r>>]].owner = c
  OBVIOUS
<1> QED BY <1>1, <1>2 DEF ConsumerStands, Asking

\* What a producer's fiber tells stays true while the fiber stands still and the
\* facts it tells do.
LEMMA SameProducer ==
  ASSUME SupplyInv, NEW p \in Producers,
         pc'[Out(p)] = pc[Out(p)], round'[p] = round[p], binding'[Out(p)] = binding[Out(p)],
         carrier[binding[Out(p)]].owner = None => carrier'[binding[Out(p)]].owner = None,
         Range(shelf') \subseteq Range(shelf),
         \A u \in Tokens : On(u)' = On(u) \/ token[u].status = "absent",
         \A u \in Tokens : u[1] = p => /\ Claimed(u) => Claimed(u)'
                                       /\ Acknowledged(u)' => Acknowledged(u),
         \A u \in Tokens : u[1] = p /\ token[u].status = "absent" => token'[u].status = "absent",
         \A u \in Tokens : u[1] = p /\ token[u].status = "offered" =>
            token'[u].status = "offered" \/ (u \in Range(shelf) /\ Claimed(u)'),
         pc[Out(p)] = "deliver" => lease' = lease /\ Progress(lease)' = Progress(lease)
  PROVE  ProducerStands(p)'
<1>1. Current(p)' = Current(p) /\ ProducerStands(p)
  BY DEF Current, SupplyInv, ProducersStand
<1>2. pc[Out(p)] \notin {"end", "cycle"} => Current(p) \in Tokens /\ Current(p)[1] = p
  <2>1. pc[Out(p)] \notin {"end", "cycle"} => round[p] \in 1..MaxCycles
    BY <1>1, OutputNames, SupplyAssumption DEF ProducerStands, SupplyInv, Shapes
  <2> QED BY <2>1 DEF Current, Tokens
<1>3. Range(shelf) \subseteq Tokens /\ \A u \in Range(shelf) : token[u].status # "absent"
  BY ShelfParts DEF SupplyInv, ShelfInv
<1>4. \A u \in Range(shelf') : u \in Range(shelf) /\ On(u)' = On(u)
  BY <1>3
<1>5. carrier[binding[Out(p)]].owner = None /\ (\A u \in Range(shelf) : On(u) # binding[Out(p)])
      => /\ carrier'[binding'[Out(p)]].owner = None
         /\ \A u \in Range(shelf') : On(u)' # binding'[Out(p)]
  BY <1>4
<1> QED BY <1>1, <1>2, <1>4, <1>5 DEF ProducerStands

-----------------------------------------------------------------------------
(* Failure.                                                                  *)

\* Processes that fail give up what they own, and what they cut is the delivery
\* that holds the lease.
LEMMA FailKeeps ==
  ASSUME SupplyInv, NEW S \in SUBSET Processes, NEW entries \in Seq(Tokens),
         Range(entries) \subseteq Range(shelf), Fail(S, entries), UNCHANGED capacity,
         (~broken /\ \E t \in Tokens : Cut(t, S)) =>
           /\ \A t \in Tokens : Progress(t) \notin Received
           /\ \A d \in Inputs : pc[d] \in {"replace", "handoff"} => d[1] \in S,
         ~broken => \A t \in Tokens : Progress(t) = "acknowledged" => t[1] \notin S
  PROVE  SupplyInv'
<1>1. /\ \A p \in Processes : status'[p] = IF p \in S THEN "failed" ELSE status[p]
      /\ \A p \in Processes : Running(p)' <=> Running(p) /\ p \notin S
      /\ \A f \in Fibers : pc'[f] = IF f[1] \in S THEN "end" ELSE pc[f]
      /\ DOMAIN pc' = Fibers
  BY DEF Fail, Running
<1>2. /\ \A t \in Tokens : /\ token'[t].status = IF t \in Abandoned(S) THEN "discarded" ELSE token[t].status
                           /\ On(t)' = On(t) /\ token'[t].epoch = token[t].epoch
                           /\ token'[t].consumer = token[t].consumer
      /\ token' \in [Tokens -> [status : {"absent", "offered", "reserved", "consumed", "discarded"},
                           on : Slots \cup {None}, epoch : Nat, consumer : Consumers \cup {None}]]
  <2>1. /\ token' = [t \in Tokens |-> IF t \in Abandoned(S)
                                    THEN [token[t] EXCEPT !.status = "discarded"] ELSE token[t]]
        /\ token \in [Tokens -> [status : {"absent", "offered", "reserved", "consumed", "discarded"},
                           on : Slots \cup {None}, epoch : Nat, consumer : Consumers \cup {None}]]
    BY DEF Fail, SupplyInv, Shapes
  <2> QED BY <2>1 DEF On
<1>3. /\ \A x \in Slots : /\ carrier'[x].owner = IF carrier[x].owner \in S THEN None ELSE carrier[x].owner
                          /\ carrier'[x].epoch = carrier[x].epoch
                          /\ carrier'[x].place = carrier[x].place
      /\ carrier' \in [Slots -> [owner : Processes \cup {None}, epoch : Nat,
                            place : Slots \cup {Parking}]]
  <2>1. /\ carrier' = [x \in Slots |-> IF x \in Owned(S) THEN [carrier[x] EXCEPT !.owner = None]
                                     ELSE carrier[x]]
        /\ carrier \in [Slots -> [owner : Processes \cup {None}, epoch : Nat,
                            place : Slots \cup {Parking}]]
    BY DEF Fail, SupplyInv, Shapes
  <2>2. \A x \in Slots : x \in Owned(S) <=> carrier[x].owner \in S
    BY DEF Owned
  <2> QED BY <2>1, <2>2
<1>4. /\ round' = round /\ rotation' = rotation /\ binding' = binding /\ transfer' = transfer
      /\ lease' = lease /\ shelf' = entries /\ capacity' = capacity
      /\ broken' = (broken \/ \E t \in Tokens : Cut(t, S))
  BY DEF Fail
<1>5. Shapes'
  <2>1. status' \in [Processes -> {"running", "complete", "failed"}]
    BY DEF Fail, SupplyInv, Shapes
  <2>2. /\ \A f \in Outputs : pc'[f] \in OutputPlaces
        /\ \A f \in Inputs : pc'[f] \in InputPlaces
        /\ \A f \in Mains : pc'[f] \in MainPlaces
    BY <1>1 DEF SupplyInv, Shapes, OutputPlaces, InputPlaces, MainPlaces, Fibers, Slots
  <2>3. waiting' \in Seq(Tokens) /\ demands' \in Seq(Inputs)
    BY KeptPart DEF Fail, SupplyInv, Shapes
  <2>4. broken' \in BOOLEAN
    BY <1>4 DEF SupplyInv, Shapes
  <2> QED BY <1>1, <1>2, <1>3, <1>4, <2>1, <2>2, <2>3, <2>4 DEF SupplyInv, Shapes
<1>6. EndsMet'
  BY <1>1, FiberKinds DEF SupplyInv, EndsMet
<1>7. Bound'
  BY <1>4 DEF SupplyInv, Bound
<1>8. Sited' /\ Leased'
  BY <1>3, <1>4, SameDeliveries DEF SupplyInv, Sited, Site, Leased, Shapes
<1>9. InputsStand'
  <2> SUFFICES ASSUME NEW d \in Inputs PROVE InputStands(d)'
    BY DEF InputsStand
  <2>1. InputStands(d) /\ pc'[d] = IF d[1] \in S THEN "end" ELSE pc[d]
    BY <1>1, InputNames DEF SupplyInv, InputsStand
  <2>2. pc[d] \in {"replace", "handoff", "ack"} /\ d[1] \notin S => ~broken'
    BY <1>4, <2>1 DEF InputStands
  <2> QED BY <1>4, <2>1, <2>2, SameDeliveries DEF InputStands
<1>10. TokensTold'
  <2> SUFFICES ASSUME NEW t \in Tokens
               PROVE  OfferedTold(t)' /\ ReservedTold(t)' /\ RestTold(t)'
    BY DEF TokensTold
  <2>1. OfferedTold(t) /\ ReservedTold(t) /\ RestTold(t)
    BY DEF SupplyInv, TokensTold
  <2>2. /\ t[1] \in Producers /\ t[1] \in Processes /\ Out(t[1]) \in Slots /\ Out(t[1]) \in Fibers
        /\ Out(t[1])[1] = t[1] /\ binding[Out(t[1])] \in Slots
    BY TokenNames, OutputNames DEF SupplyInv, Shapes
  <2>3. OfferedTold(t)'
    <3> SUFFICES ASSUME token'[t].status = "offered" PROVE OfferedTold(t)'
      BY DEF OfferedTold
    <3>1. token[t].status = "offered" /\ t \notin Abandoned(S)
      BY <1>2
    <3>2. /\ On(t) = binding[Out(t[1])] /\ On(t) \in Slots /\ carrier[On(t)].owner = t[1]
          /\ token[t].epoch = carrier[On(t)].epoch
          /\ Progress(t) = "none" /\ t = Current(t[1])
      BY <3>1, <2>1, <2>2 DEF OfferedTold
    <3>3. t[1] \notin S
      BY <3>1, <3>2 DEF Abandoned, Owned, Live, On
    <3>4. /\ Running(t[1])' <=> Running(t[1])
          /\ status'[t[1]] = status[t[1]] /\ pc'[Out(t[1])] = pc[Out(t[1])]
          /\ DownstreamDone => DownstreamDone'
      BY <1>1, <2>2, <3>3 DEF DownstreamDone, Processes
    <3>5. Current(t[1])' = Current(t[1])
      BY <1>4 DEF Current
    <3> QED BY <1>2, <1>3, <1>4, <2>1, <3>1, <3>2, <3>3, <3>4, <3>5, SameDeliveries
            DEF OfferedTold
  <2>4. ASSUME Claimed(t), ConsumerOf(t) \notin S
        PROVE  /\ InputOf(t) \in Inputs /\ ConsumerOf(t) \in Consumers /\ ConsumerOf(t) \in Processes
               /\ ConsumerOf(t) = InputOf(t)[1]
               /\ binding[InputOf(t)] \in Slots /\ pc'[InputOf(t)] = pc[InputOf(t)]
               /\ pc'[MainOf(ConsumerOf(t))] = pc[MainOf(ConsumerOf(t))]
    <3>1. InputOf(t) \in Inputs /\ ConsumerOf(t) = InputOf(t)[1]
      BY <2>4 DEF SupplyInv, Leased, ConsumerOf, InputOf
    <3>2. /\ InputOf(t) \in Slots /\ InputOf(t) \in Fibers /\ InputOf(t)[1] \in Consumers
          /\ binding \in [Slots -> Slots]
      BY <3>1, InputNames DEF SupplyInv, Shapes
    <3>3. ConsumerOf(t) \in Processes /\ MainOf(ConsumerOf(t)) \in Fibers
          /\ MainOf(ConsumerOf(t))[1] = ConsumerOf(t)
      BY <3>1, <3>2, MainNames
    <3> QED BY <1>1, <2>4, <3>1, <3>2, <3>3
  <2>5. ReservedTold(t)'
    <3> SUFFICES ASSUME token'[t].status = "reserved" PROVE ReservedTold(t)'
      BY DEF ReservedTold
    <3>1. token[t].status = "reserved" /\ t \notin Abandoned(S)
      BY <1>2
    <3>2. Claimed(t) /\ On(t) \in Slots /\ carrier[On(t)].owner = ConsumerOf(t)
      BY <3>1, <2>1 DEF ReservedTold
    <3>3. ConsumerOf(t) \notin S
      BY <3>1, <3>2 DEF Abandoned, Owned, Live, On
    <3> QED BY <1>1, <1>2, <1>3, <1>4, <2>1, <2>2, <2>4, <3>1, <3>2, <3>3, SameDeliveries
            DEF ReservedTold
  <2>6. RestTold(t)'
    <3>1. ASSUME Claimed(t), Progress(t) # "finished", Running(ConsumerOf(t))'
          PROVE  token'[t].status = "reserved"
      <4>1. ConsumerOf(t) \in Processes
        BY <3>1, InputNames, MainNames DEF SupplyInv, Leased, ConsumerOf, InputOf
      <4>2. Running(ConsumerOf(t)) /\ ConsumerOf(t) \notin S
        BY <1>1, <1>4, <3>1, <4>1 DEF ConsumerOf
      <4>3. token[t].status = "reserved" /\ carrier[On(t)].owner = ConsumerOf(t)
        BY <2>1, <3>1, <4>2 DEF RestTold, ReservedTold
      <4> QED BY <1>2, <4>2, <4>3 DEF Abandoned, Owned, On
    <3> QED BY <1>2, <2>1, <3>1, <1>4, SameDeliveries DEF RestTold
  <2> QED BY <2>3, <2>5, <2>6
<1>11. DeliveriesInStep' /\ LostUnderLease'
  <2>1. LostUnderLease'
    BY <1>4, SameDeliveries DEF SupplyInv, LostUnderLease
  <2>2. ASSUME NEW t \in Tokens, ~broken', Claimed(t), Progress(t) # "finished" PROVE InStep(t)'
    <3>1. ~broken /\ ~Cut(t, S) /\ InStep(t)
      BY <1>4, <2>2 DEF SupplyInv, DeliveriesInStep
    <3>2. /\ InputOf(t) \in Inputs /\ ConsumerOf(t) = InputOf(t)[1] /\ ConsumerOf(t) \notin S
          /\ Progress(t) # "acknowledged" => t[1] \notin S
      BY <2>2, <3>1 DEF SupplyInv, Leased, ConsumerOf, InputOf, Cut, Acknowledged, Progress
    <3>3. /\ ConsumerOf(t) \in Processes /\ pc'[InputOf(t)] = pc[InputOf(t)]
          /\ t[1] \in Processes /\ Out(t[1]) \in Fibers /\ Out(t[1])[1] = t[1]
      BY <1>1, <3>2, InputNames, MainNames, OutputNames, TokenNames
    <3>4. Current(t[1])' = Current(t[1])
      BY <1>4 DEF Current
    <3> QED BY <1>1, <1>4, <2>2, <3>1, <3>2, <3>3, <3>4, SameDeliveries DEF InStep
  <2> QED BY <2>1, <2>2, SameDeliveries, <1>4 DEF DeliveriesInStep, InStep
<1>12. ProducersStand'
  <2> SUFFICES ASSUME NEW p \in Producers PROVE ProducerStands(p)'
    BY DEF ProducersStand
  <2>1. /\ ProducerStands(p) /\ Current(p)' = Current(p)
        /\ pc'[Out(p)] = IF p \in S THEN "end" ELSE pc[Out(p)]
        /\ binding[Out(p)] \in Slots
    <3>1. Out(p) \in Fibers /\ Out(p)[1] = p /\ Out(p) \in Slots
      BY OutputNames
    <3>2. ProducerStands(p) /\ binding \in [Slots -> Slots]
      BY DEF SupplyInv, ProducersStand, Shapes
    <3> QED BY <1>1, <1>4, <3>1, <3>2 DEF Current
  <2>2. \A u \in Tokens : token[u].status = "absent" => token'[u].status = "absent"
    BY <1>2 DEF Abandoned, Live
  <2>3. ASSUME token[Current(p)].status = "offered", p \notin S, Current(p) \in Tokens
        PROVE  token'[Current(p)].status = "offered"
    <3>1. carrier[On(Current(p))].owner = p
      BY <2>3 DEF SupplyInv, TokensTold, OfferedTold, Current
    <3> QED BY <1>2, <2>3, <3>1 DEF Abandoned, Owned, On
  <2>4. Range(shelf') \subseteq Range(shelf) /\ Range(shelf) \subseteq Tokens
    BY <1>4, ShelfParts DEF SupplyInv
  <2>5. pc[Out(p)] \notin {"end", "cycle"} => Current(p) \in Tokens
    <3>1. pc[Out(p)] \notin {"end", "cycle"} => round[p] \in 1..MaxCycles
      BY <2>1, OutputNames, SupplyAssumption DEF ProducerStands, SupplyInv, Shapes
    <3> QED BY <3>1 DEF Current, Tokens
  <2>6. carrier[binding[Out(p)]].owner = None => carrier'[binding[Out(p)]].owner = None
    BY <1>3, <2>1
  <2> QED BY <1>2, <1>4, <2>1, <2>2, <2>3, <2>4, <2>5, <2>6, SameDeliveries DEF ProducerStands
<1>13. ShelfInv' /\ OneLive'
  <2>1. Range(shelf') \subseteq Range(shelf) /\ Range(shelf) \subseteq Tokens
    BY <1>4, ShelfParts DEF SupplyInv
  <2>2. \A t \in Tokens : Live(t)' => Live(t)
    BY <1>2 DEF Live
  <2>3. OneLive'
    BY <1>2, <2>2 DEF SupplyInv, OneLive
  <2>4. ShelfInv'
    <3> SUFFICES ASSUME NEW t \in Range(shelf')
                 PROVE  /\ token'[t].status # "absent" /\ On(t)' \in Slots
                        /\ token'[t].epoch = carrier'[On(t)'].epoch
      BY DEF ShelfInv, On
    <3>1. /\ t \in Tokens /\ token[t].status # "absent" /\ On(t) \in Slots
          /\ token[t].epoch = carrier[On(t)].epoch
      BY <2>1 DEF SupplyInv, ShelfInv
    <3> QED BY <1>2, <1>3, <3>1
  <2> QED BY <2>3, <2>4
<1>14. ConsumersStand'
  <2> SUFFICES ASSUME NEW c \in Consumers PROVE ConsumerStands(c)'
    BY DEF ConsumersStand
  <2>1. /\ ConsumerStands(c)
        /\ pc'[MainOf(c)] = IF c \in S THEN "end" ELSE pc[MainOf(c)]
        /\ \A r \in InitialRoles \cup {"R"} :
             /\ pc'[<<c, r>>] = IF c \in S THEN "end" ELSE pc[<<c, r>>]
             /\ binding[<<c, r>>] \in Slots
    <3>1. ConsumerStands(c) /\ binding \in [Slots -> Slots]
      BY DEF SupplyInv, ConsumersStand, Shapes
    <3>2. \A r \in InitialRoles \cup {"R"} : <<c, r>> \in Slots /\ <<c, r>> \in Fibers
      BY InputNames
    <3> QED BY <1>1, <3>1, <3>2, MainNames
  <2>2. ASSUME NEW t \in Tokens, token[t].status = "reserved", InputOf(t) = <<c, "R">>, c \notin S
        PROVE  token'[t].status = "reserved"
    <3>1. carrier[On(t)].owner = c
      BY <2>2 DEF SupplyInv, TokensTold, ReservedTold, ConsumerOf, InputOf
    <3> QED BY <1>2, <2>2, <3>1 DEF Abandoned, Owned, On
  <2>3. c \in Processes /\ c # None
    BY MainNames
  <2>4. CASE c \in S
    BY <2>1, <2>4, <1>1 DEF ConsumerStands
  <2>5. CASE c \notin S
    BY <1>3, <1>4, <2>1, <2>2, <2>3, <2>5, SameDeliveries DEF ConsumerStands
  <2> QED BY <2>4, <2>5
<1> QED BY <1>5, <1>6, <1>7, <1>8, <1>9, <1>10, <1>11, <1>12, <1>13, <1>14 DEF SupplyInv

-----------------------------------------------------------------------------
(* Producers.                                                                *)

\* A step of a producer that leaves carriers, tokens and deliveries alone keeps
\* the invariant if it does so for the producer's own fiber and tokens.
LEMMA ProducerFrame ==
  ASSUME SupplyInv, NEW p \in Producers,
         UNCHANGED <<binding, carrier, token, transfer, lease, broken, capacity, demands>>,
         DOMAIN pc' = Fibers, pc'[Out(p)] \in OutputPlaces,
         \A f \in Fibers : f # Out(p) => pc'[f] = pc[f],
         status' \in [Processes -> {"running", "complete", "failed"}],
         \A q \in Processes : q # p => status'[q] = status[q],
         round' \in [Processes -> Nat], round'[p] =< MaxCycles,
         \A q \in Processes : q # p => round'[q] = round[q],
         waiting' \in Seq(Tokens), shelf' \in Seq(Tokens),
         \A t \in Range(shelf') :
           t \in Range(shelf) \/ (t = Current(p) /\ token[t].status = "offered"),
         pc'[Out(p)] = "end" <=> ~Running(p)',
         \A t \in Tokens : t[1] = p => OfferedTold(t)' /\ InStep(t)',
         ProducerStands(p)'
  PROVE  SupplyInv'
<1>1. /\ \A q \in Processes : q # p => (Running(q)' <=> Running(q))
      /\ DownstreamDone' <=> DownstreamDone
      /\ \A q \in Producers : q # p => Current(q)' = Current(q) /\ pc'[Out(q)] = pc[Out(q)]
      /\ \A d \in Inputs : pc'[d] = pc[d]
      /\ \A c \in Consumers : pc'[MainOf(c)] = pc[MainOf(c)] /\ (Running(c)' <=> Running(c))
  <2>1. \A q \in Processes : q # p => (Running(q)' <=> Running(q))
    BY DEF Running
  <2>2. \A c \in Consumers : c # p /\ c \in Processes
    BY MainNames
  <2>3. \A q \in Producers : q # p => Current(q)' = Current(q) /\ pc'[Out(q)] = pc[Out(q)]
    BY OutputNames DEF Current
  <2>4. \A d \in Inputs : pc'[d] = pc[d]
    BY OutputNames, InputNames
  <2>5. \A c \in Consumers : pc'[MainOf(c)] = pc[MainOf(c)]
    BY OutputNames, MainNames
  <2> QED BY <2>1, <2>2, <2>3, <2>4, <2>5 DEF DownstreamDone
<1>2. Shapes'
  <2>1. /\ \A f \in Outputs : pc'[f] \in OutputPlaces
        /\ \A f \in Inputs : pc'[f] \in InputPlaces
        /\ \A f \in Mains : pc'[f] \in MainPlaces
    <3>1. /\ \A f \in Outputs : f \in Fibers
          /\ \A d \in Inputs : d # Out(p)
          /\ \A f \in Mains : f # Out(p) /\ f \in Fibers
      BY OutputNames, MainNames
    <3> QED BY <1>1, <3>1 DEF SupplyInv, Shapes
  <2>2. \A q \in Producers : round'[q] =< MaxCycles
    BY OutputNames DEF SupplyInv, Shapes
  <2> QED BY <2>1, <2>2 DEF SupplyInv, Shapes
<1>3. EndsMet'
  <2> SUFFICES ASSUME NEW f \in Fibers PROVE pc'[f] = "end" <=> ~Running(f[1])'
    BY DEF EndsMet
  <2>1. f[1] = p => f = Out(p)
    BY FiberKinds, OutputNames, InputNames, MainNames
  <2>2. f[1] \in Processes
    BY FiberKinds
  <2> QED BY <1>1, <2>1, <2>2, OutputNames DEF SupplyInv, EndsMet
<1>4. Bound' /\ Sited' /\ Leased' /\ LostUnderLease' /\ OneLive'
  BY SameDeliveries DEF SupplyInv, Bound, Sited, Site, Leased, LostUnderLease, OneLive, Live, On
<1>5. InputsStand'
  BY <1>1, SameDeliveries DEF SupplyInv, InputsStand, InputStands
<1>6. TokensTold' /\ DeliveriesInStep'
  <2> SUFFICES ASSUME NEW t \in Tokens
               PROVE  OfferedTold(t)' /\ ReservedTold(t)' /\ RestTold(t)' /\ InStep(t)'
    BY DEF TokensTold, DeliveriesInStep
  <2>1. OfferedTold(t) /\ ReservedTold(t) /\ RestTold(t) /\ InStep(t)
    BY DEF SupplyInv, TokensTold, DeliveriesInStep
  <2>2. t[1] \in Producers /\ t[1] \in Processes /\ On(t)' = On(t)
    BY TokenNames, OutputNames DEF On
  <2>3. Claimed(t) => /\ InputOf(t) \in Inputs /\ ConsumerOf(t) \in Consumers
                      /\ ConsumerOf(t) = InputOf(t)[1]
    BY InputNames DEF SupplyInv, Leased, ConsumerOf, InputOf
  <2>4. ReservedTold(t)' /\ RestTold(t)'
    BY <1>1, <2>1, <2>2, <2>3, SameDeliveries DEF ReservedTold, RestTold
  <2>5. t[1] # p => OfferedTold(t)'
    BY <1>1, <2>1, <2>2, SameDeliveries DEF OfferedTold
  <2>6. t[1] # p => InStep(t)'
    BY <1>1, <2>1, <2>2, <2>3, SameDeliveries DEF InStep
  <2> QED BY <2>4, <2>5, <2>6
<1>7. ASSUME NEW t \in Range(shelf'), t \notin Range(shelf)
      PROVE  /\ t \in Tokens /\ On(t) = binding[Out(p)] /\ On(t) \in Slots
             /\ token[t].status = "offered" /\ token[t].epoch = carrier[On(t)].epoch
  <2>1. t \in Tokens /\ t = Current(p) /\ token[t].status = "offered"
    <3>1. shelf' \in Seq(Tokens)
      OBVIOUS
    <3>2. Range(shelf') \subseteq Tokens
      BY <3>1 DEF Range
    <3> QED BY <1>7, <3>2
  <2>2. t[1] = p
    BY <2>1 DEF Current
  <2> QED BY <2>1, <2>2, OutputNames DEF SupplyInv, TokensTold, OfferedTold, Shapes
<1>8. ProducersStand'
  <2> SUFFICES ASSUME NEW q \in Producers, q # p PROVE ProducerStands(q)'
    BY DEF ProducersStand
  <2>1. /\ ProducerStands(q) /\ Current(q)' = Current(q) /\ pc'[Out(q)] = pc[Out(q)]
        /\ round'[q] = round[q]
    BY <1>1, OutputNames DEF SupplyInv, ProducersStand
  <2>2. Current(q) # Current(p) /\ binding[Out(q)] # binding[Out(p)]
    BY OutputNames DEF Current, SupplyInv, Bound, Out
  <2>3. \A t \in Range(shelf') : t \in Range(shelf) \/ (t # Current(q) /\ On(t) # binding[Out(q)])
    BY <1>7, <2>2
  <2> QED BY <2>1, <2>3, SameDeliveries DEF ProducerStands, On
<1>9. ShelfInv'
  BY <1>7 DEF SupplyInv, ShelfInv, On
<1>10. ConsumersStand'
  <2> SUFFICES ASSUME NEW c \in Consumers PROVE ConsumerStands(c)'
    BY DEF ConsumersStand
  <2>1. ConsumerStands(c) /\ pc'[MainOf(c)] = pc[MainOf(c)]
    BY <1>1 DEF SupplyInv, ConsumersStand
  <2>2. \A r \in InitialRoles \cup {"R"} : pc'[<<c, r>>] = pc[<<c, r>>]
    BY <1>1, InputNames
  <2> QED BY <2>1, <2>2, SameConsumer, SameDeliveries
<1> QED BY <1>2, <1>3, <1>4, <1>5, <1>6, <1>8, <1>9, <1>10 DEF SupplyInv

\* Where a producer stands when it is given by its fiber.
LEMMA ProducerAt ==
  ASSUME SupplyInv, NEW p \in Producers
  PROVE  /\ Running(p) <=> pc[Out(p)] # "end"
         /\ ProducerStands(p) /\ binding[Out(p)] \in Slots
         /\ round[p] \in Nat /\ round[p] =< MaxCycles
         /\ pc[Out(p)] \notin {"end", "cycle"} =>
              Current(p) \in Tokens /\ Current(p)[1] = p /\ Current(p)[2] = round[p]
         /\ \A t \in Tokens : /\ t = Current(t[1]) /\ t[1] = p => t = Current(p)
                              /\ OfferedTold(t) /\ ReservedTold(t) /\ RestTold(t) /\ InStep(t)
<1>1. /\ ProducerStands(p) /\ round[p] \in Nat /\ round[p] =< MaxCycles
      /\ Running(p) <=> pc[Out(p)] # "end"
      /\ binding[Out(p)] \in Slots
  BY OutputNames DEF SupplyInv, ProducersStand, Shapes, EndsMet
<1>2. pc[Out(p)] \notin {"end", "cycle"} => round[p] \in 1..MaxCycles
  BY <1>1, SupplyAssumption DEF ProducerStands
<1> QED BY <1>1, <1>2 DEF Current, Tokens, SupplyInv, TokensTold, DeliveriesInStep

\* The next cycle begins, or production ends.
LEMMA StartCycleKeeps ==
  ASSUME SupplyInv, NEW p \in Producers, StartCycle(p), UNCHANGED capacity
  PROVE  SupplyInv'
<1>1. /\ pc[Out(p)] = "cycle" /\ Running(p) /\ ProducerStands(p)
      /\ round[p] \in Nat /\ round[p] =< MaxCycles
  BY ProducerAt DEF StartCycle, Out
<1>2. /\ UNCHANGED <<binding, carrier, token, transfer, lease, broken, capacity, demands, waiting, shelf>>
      /\ UNCHANGED rotation
  BY DEF StartCycle, inventory
<1>3. /\ DOMAIN pc' = Fibers
      /\ \A f \in Fibers : f # Out(p) => pc'[f] = pc[f]
      /\ status' \in [Processes -> {"running", "complete", "failed"}]
      /\ \A q \in Processes : q # p => status'[q] = status[q]
      /\ round' \in [Processes -> Nat] /\ round'[p] =< MaxCycles
      /\ \A q \in Processes : q # p => round'[q] = round[q]
      /\ \/ /\ pc'[Out(p)] = "make" /\ Running(p)' /\ round'[p] = round[p] + 1
         \/ /\ pc'[Out(p)] = "end" /\ ~Running(p)' /\ round'[p] = round[p]
  <2>1. /\ DOMAIN pc = Fibers /\ Out(p) \in Fibers /\ p \in Processes
        /\ status \in [Processes -> {"running", "complete", "failed"}]
        /\ round \in [Processes -> Nat]
    BY OutputNames DEF SupplyInv, Shapes
  <2>2. \A f \in Fibers : f[1] = p => f = Out(p)
    BY FiberKinds, OutputNames, InputNames, MainNames
  <2>3. CASE round[p] < MaxCycles /\ ~broken /\ ~DownstreamDone
    <3>1. /\ round' = [round EXCEPT ![p] = @ + 1] /\ status' = status
          /\ DOMAIN pc' = Fibers /\ pc'[Out(p)] = "make"
          /\ \A f \in Fibers : f # Out(p) => pc'[f] = pc[f]
      BY <2>1, <2>3 DEF StartCycle, Goto, Out
    <3> QED BY <1>1, <2>1, <2>3, <3>1, SupplyAssumption DEF Running
  <2>4. CASE ~(round[p] < MaxCycles /\ ~broken /\ ~DownstreamDone)
    <3>1. Complete(p) /\ round' = round
      BY <2>4 DEF StartCycle
    <3> QED BY <1>1, <2>1, <2>2, <3>1, OutputNames DEF Complete, Running
  <2> QED BY <2>3, <2>4
<1>4. pc'[Out(p)] = "end" <=> ~Running(p)'
  BY <1>3
<1>5. ASSUME NEW t \in Tokens, t[1] = p PROVE OfferedTold(t)' /\ InStep(t)'
  <2>1. OfferedTold(t) /\ InStep(t)
    BY ProducerAt
  <2>2. token[t].status # "offered"
    BY <1>1, <1>5, <2>1 DEF OfferedTold
  <2>3. Claimed(t) => InputOf(t) \in Inputs /\ ConsumerOf(t) = InputOf(t)[1] /\ ConsumerOf(t) \in Processes
    BY InputNames, MainNames DEF SupplyInv, Leased, ConsumerOf, InputOf
  <2>4. Claimed(t) => pc'[InputOf(t)] = pc[InputOf(t)] /\ (Running(ConsumerOf(t))' <=> Running(ConsumerOf(t)))
    BY <1>2, <1>3, <2>3, InputNames, OutputNames DEF Running, ConsumerOf
  <2> QED BY <1>1, <1>2, <1>5, <2>1, <2>2, <2>4, SameDeliveries DEF OfferedTold, InStep
<1>6. ProducerStands(p)'
  <2>1. CASE pc'[Out(p)] = "make" /\ round'[p] = round[p] + 1
    <3>1. Current(p)' = <<p, round[p] + 1>>
      BY <2>1 DEF Current
    <3>2. token[<<p, round[p] + 1>>].status = "absent"
      <4>1. round[p] + 1 \in 1..MaxCycles
        BY <1>1, <1>3, <2>1, SupplyAssumption
      <4>2. <<p, round[p] + 1>> \in Tokens
        BY <4>1 DEF Tokens
      <4> QED BY <1>1, <4>2 DEF ProducerStands
    <3>3. <<p, round[p] + 1>> \notin Range(shelf)
      BY <3>2 DEF SupplyInv, ShelfInv
    <3>4. \A u \in Tokens : u[1] = p /\ u[2] > round'[p] => token[u].status = "absent"
      <4> TAKE u \in Tokens
      <4>1. u[2] \in Nat
        BY TokenNames, SupplyAssumption
      <4> QED BY <1>1, <2>1, <4>1 DEF ProducerStands
    <3> QED BY <1>1, <1>2, <2>1, <3>1, <3>2, <3>3, <3>4 DEF ProducerStands, On
  <2>2. CASE pc'[Out(p)] = "end" /\ round'[p] = round[p]
    BY <1>1, <1>2, <2>2 DEF ProducerStands
  <2> QED BY <1>3, <2>1, <2>2
<1>7. waiting' \in Seq(Tokens) /\ shelf' \in Seq(Tokens) /\ pc'[Out(p)] \in OutputPlaces
  BY <1>2, <1>3 DEF SupplyInv, Shapes, OutputPlaces
<1> QED BY <1>2, <1>3, <1>4, <1>5, <1>6, <1>7, ProducerFrame

\* A delivery whose producer still stands where its progress says is in step.
LEMMA SourceInStep ==
  ASSUME SupplyInv, UNCHANGED <<transfer, broken>>, NEW t \in Tokens,
         \A d \in Inputs : pc'[d] = pc[d],
         \A c \in Consumers : Running(c) => Running(c)',
         ~broken /\ Progress(t) \in Underway \cup Received =>
           /\ Running(t[1])' /\ t = Current(t[1])'
           /\ \/ Progress(t) = "acknowledged" /\ pc'[Out(t[1])] = "cycle_complete"
              \/ Progress(t) # "acknowledged" /\ pc'[Out(t[1])] = "handshake"
              \/ Progress(t) = "parked" /\ pc'[Out(t[1])] = "deliver"
  PROVE  InStep(t)'
<1>1. InStep(t) /\ Progress(t) \in Progresses
  BY DEF SupplyInv, DeliveriesInStep, Shapes, Progress
<1>2. Claimed(t) => InputOf(t) \in Inputs /\ ConsumerOf(t) \in Consumers
  BY InputNames DEF SupplyInv, Leased, ConsumerOf, InputOf
<1> QED BY <1>1, <1>2, SameDeliveries DEF InStep, Progresses, Underway, Received, Claimed, Progress

\* The output goes on the shelf, or waits in line.
LEMMA PublishKeeps ==
  ASSUME SupplyInv, NEW p \in Producers, Publish(p), UNCHANGED capacity
  PROVE  SupplyInv'
<1>1. /\ pc[Out(p)] \in {"offer", "backpressure"} /\ Running(p) /\ ProducerStands(p)
      /\ Current(p) \in Tokens /\ Current(p)[1] = p /\ Current(p)[2] = round[p]
      /\ token[Current(p)].status = "offered"
      /\ round[p] \in Nat /\ round[p] =< MaxCycles /\ round[p] > 0
  BY ProducerAt DEF Publish, Out, ProducerStands
<1>2. /\ UNCHANGED <<binding, carrier, token, transfer, lease, broken, capacity, demands, status, round>>
      /\ Current(p)' = Current(p) /\ (Running(p)' <=> Running(p))
  BY DEF Publish, Current, Running
<1> DEFINE first == Head(Arrived(p)) = Current(p) /\ HasRoom(Reaped)
<1>3. /\ DOMAIN pc' = Fibers
      /\ \A f \in Fibers : f # Out(p) => pc'[f] = pc[f]
      /\ pc'[Out(p)] = IF first THEN "handshake" ELSE "backpressure"
  BY OutputNames DEF Publish, Goto, Out, SupplyInv, Shapes
<1>4. /\ shelf' = IF first THEN Append(Reaped, Current(p)) ELSE Reaped
      /\ waiting' = IF first THEN Tail(Arrived(p)) ELSE Arrived(p)
  BY DEF Publish
<1>5. waiting' \in Seq(Tokens)
  <2>1. Arrived(p) \in Seq(Tokens)
    BY <1>1 DEF Arrived, SupplyInv, Shapes
  <2> QED BY <1>4, <2>1, TailPart
<1>6. /\ shelf' \in Seq(Tokens)
      /\ \A t \in Range(shelf') : t \in Range(shelf) \/ (t = Current(p) /\ first)
  <2>1. Reaped \in Seq(Tokens) /\ Range(Reaped) \subseteq Range(shelf)
    BY ShelfParts DEF SupplyInv
  <2>2. CASE first
    <3>1. shelf' = Append(Reaped, Current(p))
      BY <1>4, <2>2
    <3> QED BY <1>1, <2>1, <2>2, <3>1, AppendPart
  <2>3. CASE ~first
    BY <1>4, <2>1, <2>3
  <2> QED BY <2>2, <2>3
<1>7. ASSUME NEW t \in Tokens, t[1] = p PROVE OfferedTold(t)' /\ InStep(t)'
  <2>1. OfferedTold(t) /\ InStep(t)
    BY ProducerAt
  <2>2. OfferedTold(t)'
    BY <1>1, <1>2, <1>3, <1>7, <2>1, SameDeliveries DEF OfferedTold, On
  <2>3. ~broken => Progress(t) \notin Underway \cup Received
    BY <1>1, <1>7, <2>1 DEF InStep, Underway, Received, Claimed, Progress
  <2>4. /\ \A d \in Inputs : pc'[d] = pc[d]
        /\ \A c \in Consumers : Running(c) => Running(c)'
    BY <1>2, <1>3, InputNames, OutputNames DEF Running
  <2> QED BY <1>2, <2>2, <2>3, <2>4, SourceInStep
<1>8. ProducerStands(p)'
  <2>1. ~Acknowledged(Current(p))
    BY <1>1, ProducerAt DEF OfferedTold, Acknowledged, Progress
  <2> QED BY <1>1, <1>2, <1>3, <1>6, <2>1, SameDeliveries DEF ProducerStands
<1>9. pc'[Out(p)] \in OutputPlaces /\ (pc'[Out(p)] = "end" <=> ~Running(p)')
  BY <1>1, <1>2, <1>3 DEF OutputPlaces
<1>10. /\ status' \in [Processes -> {"running", "complete", "failed"}]
       /\ round' \in [Processes -> Nat] /\ round'[p] =< MaxCycles
  BY <1>1, <1>2 DEF SupplyInv, Shapes
<1> QED BY <1>1, <1>2, <1>3, <1>5, <1>6, <1>7, <1>8, <1>9, <1>10, ProducerFrame

\* The surplus stays where it is.
LEMMA RetainKeeps ==
  ASSUME SupplyInv, NEW p \in Producers, Retain(p), DownstreamDone,
         pc[Out(p)] \in {"offer", "backpressure", "handshake"},
         UNCHANGED capacity
  PROVE  SupplyInv'
<1>1. /\ Running(p) /\ ProducerStands(p) /\ p \in Processes
      /\ Current(p) \in Tokens /\ Current(p)[1] = p /\ Current(p)[2] = round[p]
      /\ round[p] \in Nat /\ round[p] =< MaxCycles /\ round[p] > 0
  BY ProducerAt, OutputNames DEF ProducerStands
<1>2. /\ UNCHANGED <<binding, carrier, token, transfer, lease, broken, capacity, demands, round>>
      /\ Current(p)' = Current(p)
      /\ shelf' = Reaped /\ waiting' = Without(waiting, Current(p))
  BY DEF Retain, Current
<1>3. /\ DOMAIN pc' = Fibers /\ pc'[Out(p)] = "end"
      /\ \A f \in Fibers : f # Out(p) => pc'[f] = pc[f]
      /\ status' \in [Processes -> {"running", "complete", "failed"}]
      /\ status'[p] = "complete" /\ ~Running(p)'
      /\ \A q \in Processes : q # p => status'[q] = status[q]
  <2>1. \A f \in Fibers : f[1] = p => f = Out(p)
    BY FiberKinds, OutputNames, InputNames, MainNames
  <2>2. status \in [Processes -> {"running", "complete", "failed"}] /\ Complete(p)
    BY DEF SupplyInv, Shapes, Retain
  <2> QED BY <1>1, <2>1, <2>2, OutputNames DEF Complete, Running
<1>4. waiting' \in Seq(Tokens) /\ shelf' \in Seq(Tokens) /\ Range(shelf') \subseteq Range(shelf)
  BY <1>2, KeptPart, ShelfParts DEF Without, SupplyInv, Shapes
<1>5. /\ \A d \in Inputs : pc'[d] = pc[d]
      /\ \A c \in Consumers : Running(c)' <=> Running(c)
  BY <1>3, InputNames, OutputNames, MainNames DEF Running
<1>6. ASSUME NEW t \in Tokens, t[1] = p PROVE OfferedTold(t)' /\ InStep(t)'
  <2>1. OfferedTold(t) /\ InStep(t)
    BY ProducerAt
  <2>2. OfferedTold(t)'
    BY <1>1, <1>2, <1>3, <1>5, <1>6, <2>1, SameDeliveries DEF OfferedTold, On, DownstreamDone
  <2>3. Claimed(t) => ConsumerOf(t) \in Consumers /\ ~Running(ConsumerOf(t))
    BY InputNames DEF SupplyInv, Leased, ConsumerOf, InputOf, DownstreamDone
  <2> QED BY <1>2, <2>1, <2>2, <2>3, SameDeliveries DEF InStep
<1>7. ProducerStands(p)'
  BY <1>1, <1>2, <1>3 DEF ProducerStands
<1>8. round' \in [Processes -> Nat] /\ round'[p] =< MaxCycles /\ "end" \in OutputPlaces
  BY <1>1, <1>2 DEF SupplyInv, Shapes, OutputPlaces
<1> QED BY <1>2, <1>3, <1>4, <1>6, <1>7, <1>8, ProducerFrame

\* What the shelf still has after the used tokens are taken off is in somebody's
\* hands, so its carrier has an owner.
LEMMA ShelfOwned ==
  ASSUME SupplyInv, NEW t \in Range(Reaped)
  PROVE  t \in Tokens /\ Live(t) /\ carrier[On(t)].owner # None
<1>1. t \in Tokens /\ ~Spent(t) /\ t \in Range(shelf)
  BY ShelfParts DEF SupplyInv
<1>2. Live(t) /\ OfferedTold(t) /\ ReservedTold(t) /\ t[1] # None
  <2>1. token[t].status \in {"absent", "offered", "reserved", "consumed", "discarded"}
    BY <1>1 DEF SupplyInv, Shapes
  <2> QED BY <1>1, <2>1, TokenNames, OutputNames DEF SupplyInv, ShelfInv, TokensTold, Spent, Live
<1>3. Claimed(t) => ConsumerOf(t) # None
  BY <1>1, InputNames, MainNames DEF SupplyInv, Leased, ConsumerOf, InputOf
<1> QED BY <1>1, <1>2, <1>3 DEF Live, OfferedTold, ReservedTold

\* The delivery is queued.
LEMMA DeliverKeeps ==
  ASSUME SupplyInv, NEW p \in Producers, Shake(p), ~HandedOff(Current(p)), UNCHANGED capacity
  PROVE  SupplyInv'
<1>1. /\ pc[Out(p)] = "handshake" /\ Running(p) /\ ProducerStands(p)
      /\ Current(p) \in Tokens /\ Current(p)[1] = p /\ Current(p)[2] = round[p]
      /\ round[p] \in Nat /\ round[p] =< MaxCycles /\ round[p] > 0
  BY ProducerAt DEF Shake, Out, ProducerStands
<1>2. /\ UNCHANGED <<binding, carrier, token, transfer, lease, broken, capacity, demands, status,
                     round, waiting>>
      /\ Current(p)' = Current(p) /\ (Running(p)' <=> Running(p))
      /\ shelf' = Reaped /\ Goto(Out(p), "deliver")
  BY DEF Shake, Current, Running, Out
<1>3. /\ DOMAIN pc' = Fibers /\ pc'[Out(p)] = "deliver"
      /\ \A f \in Fibers : f # Out(p) => pc'[f] = pc[f]
  BY <1>2, OutputNames DEF Goto, SupplyInv, Shapes
<1>4. Progress(Current(p)) = "parked" /\ lease = Current(p)
  <2>1. /\ Claimed(Current(p)) /\ ~broken /\ Running(ConsumerOf(Current(p)))
        /\ ConsumerOf(Current(p)) \in Consumers
    BY <1>1, InputNames DEF Shake, PeersLost, SupplyInv, Leased, ConsumerOf, InputOf
  <2>2. Wakes(Out(p)) /\ ~DownstreamDone /\ Out(p)[1] = p
    BY <2>1, OutputNames DEF Shake, Out, DownstreamDone
  <2>3. Progress(Current(p)) = "parked"
    BY <1>1, <2>1, <2>2 DEF Wakes, Progress
  <2> QED BY <1>1, <2>3 DEF SupplyInv, Leased, Underway
<1>5. /\ shelf' \in Seq(Tokens) /\ waiting' \in Seq(Tokens) /\ Range(shelf') \subseteq Range(shelf)
      /\ status' \in [Processes -> {"running", "complete", "failed"}]
      /\ round' \in [Processes -> Nat] /\ round'[p] =< MaxCycles
      /\ "deliver" \in OutputPlaces
  BY <1>1, <1>2, ShelfParts DEF SupplyInv, Shapes, OutputPlaces
<1>6. ASSUME NEW t \in Tokens, t[1] = p PROVE OfferedTold(t)' /\ InStep(t)'
  <2>1. OfferedTold(t) /\ InStep(t)
    BY ProducerAt
  <2>2. OfferedTold(t)'
    BY <1>1, <1>2, <1>4, <1>6, <2>1, SameDeliveries DEF OfferedTold, On
  <2>3. ~broken /\ Progress(t) \in Underway \cup Received => t = Current(p)
    BY <1>6, <2>1, ProducerAt DEF InStep, Underway, Received, Claimed, Progress
  <2>4. /\ \A d \in Inputs : pc'[d] = pc[d]
        /\ \A c \in Consumers : Running(c) => Running(c)'
    BY <1>2, <1>3, InputNames, OutputNames DEF Running
  <2> QED BY <1>1, <1>2, <1>3, <1>4, <1>6, <2>2, <2>3, <2>4, SourceInStep
<1>7. ProducerStands(p)'
  BY <1>1, <1>2, <1>3, <1>4, SameDeliveries DEF ProducerStands
<1> QED BY <1>1, <1>2, <1>3, <1>5, <1>6, <1>7, ProducerFrame

\* The handoff is acknowledged.
LEMMA AcknowledgeKeeps ==
  ASSUME SupplyInv, NEW p \in Producers, Shake(p), HandedOff(Current(p)), UNCHANGED capacity
  PROVE  SupplyInv'
<1> DEFINE h == Current(p)
<1>1. /\ pc[Out(p)] = "handshake" /\ Running(p) /\ ProducerStands(p)
      /\ h \in Tokens /\ h[1] = p /\ h[2] = round[p] /\ p \in Processes
      /\ round[p] \in Nat /\ round[p] =< MaxCycles /\ round[p] > 0
  BY ProducerAt, OutputNames DEF Shake, Out, ProducerStands
<1>2. /\ UNCHANGED <<binding, carrier, token, lease, broken, capacity, demands, status,
                     round, waiting, rotation>>
      /\ shelf' = Reaped /\ Goto(Out(p), "cycle_complete")
      /\ transfer' = [transfer EXCEPT ![h].progress = "acknowledged"]
      /\ MayAcknowledge(h) /\ ~PeersLost(h)
  BY DEF Shake, Out
<1>3. /\ DOMAIN pc' = Fibers /\ pc'[Out(p)] = "cycle_complete"
      /\ \A f \in Fibers : f # Out(p) => pc'[f] = pc[f]
      /\ \A d \in Inputs : pc'[d] = pc[d]
      /\ \A c \in Consumers : pc'[MainOf(c)] = pc[MainOf(c)]
  BY <1>2, OutputNames, InputNames, MainNames DEF Goto, SupplyInv, Shapes
<1>4. Progress(h) = "handed_off" /\ lease # h /\ ~broken /\ InputOf(h) \in Inputs
  <2>1. Progress(h) = "handed_off"
    BY <1>1 DEF ProducerStands, Acknowledged, HandedOff, Progress
  <2> QED BY <1>1, <1>2, <2>1 DEF SupplyInv, Leased, Underway, PeersLost, Claimed, Progress
<1>5. /\ transfer' \in [Tokens -> [progress : Progresses, input : Inputs \cup {None},
                                   replacement : Slots \cup {None}]]
      /\ \A t \in Tokens : /\ InputOf(t)' = InputOf(t) /\ ConsumerOf(t)' = ConsumerOf(t)
                           /\ transfer'[t].replacement = transfer[t].replacement
                           /\ Progress(t)' = IF t = h THEN "acknowledged" ELSE Progress(t)
                           /\ (Claimed(t)' <=> Claimed(t)) /\ (HandedOff(t)' <=> HandedOff(t))
                           /\ t # h => transfer'[t] = transfer[t]
                           /\ On(t)' = On(t)
  <2>1. transfer \in [Tokens -> [progress : Progresses, input : Inputs \cup {None},
                                   replacement : Slots \cup {None}]]
    BY DEF SupplyInv, Shapes
  <2> QED BY <1>1, <1>2, <1>4, <2>1
          DEF Progress, InputOf, ConsumerOf, Claimed, HandedOff, On, Progresses, Received
<1>6. /\ \A q \in Processes : Running(q)' <=> Running(q)
      /\ DownstreamDone' <=> DownstreamDone
      /\ \A q \in Producers : Current(q)' = Current(q) /\ (q # p => pc'[Out(q)] = pc[Out(q)])
  BY <1>2, <1>3, OutputNames DEF Running, DownstreamDone, Current, Out
<1>7. Shapes'
  <2>1. \A f \in Outputs : pc'[f] \in OutputPlaces
    BY <1>3, FiberKinds, OutputNames DEF SupplyInv, Shapes, OutputPlaces, Slots
  <2>2. \A f \in Mains : pc'[f] \in MainPlaces
    <3>1. \A f \in Mains : f \in Fibers /\ f # Out(p)
      BY MainNames, OutputNames
    <3> QED BY <1>3, <3>1 DEF SupplyInv, Shapes
  <2>3. shelf' \in Seq(Tokens)
    BY <1>2, ShelfParts DEF SupplyInv
  <2> QED BY <1>2, <1>3, <1>5, <2>1, <2>2, <2>3 DEF SupplyInv, Shapes
<1>8. EndsMet'
  <2>1. Out(p)[1] = p
    BY OutputNames
  <2> QED BY <1>1, <1>3, <1>6, <2>1, FiberKinds DEF SupplyInv, EndsMet
<1>9. Bound' /\ Sited' /\ OneLive' /\ LostUnderLease'
  BY <1>2, <1>4, <1>5 DEF SupplyInv, Bound, Sited, Site, Shapes, OneLive, Live, LostUnderLease
<1>10. Leased'
  BY <1>2, <1>4, <1>5 DEF SupplyInv, Leased, Underway
<1>11. InputsStand'
  <2> SUFFICES ASSUME NEW d \in Inputs PROVE InputStands(d)'
    BY DEF InputsStand
  <2>1. InputStands(d) /\ pc'[d] = pc[d] /\ lease \in Tokens \cup {None}
    BY <1>3 DEF SupplyInv, InputsStand, Shapes
  <2>2. pc[d] \in {"idle", "ask", "wait", "got"} => InputOf(h) # d
    BY <1>1, <1>4, <2>1 DEF InputStands
  <2> QED BY <1>1, <1>2, <1>4, <1>5, <2>1, <2>2 DEF InputStands, Received
<1>12. TokensTold' /\ DeliveriesInStep'
  <2> SUFFICES ASSUME NEW t \in Tokens
               PROVE  OfferedTold(t)' /\ ReservedTold(t)' /\ RestTold(t)' /\ InStep(t)'
    BY DEF TokensTold, DeliveriesInStep
  <2>1. /\ OfferedTold(t) /\ ReservedTold(t) /\ RestTold(t) /\ InStep(t)
        /\ t[1] \in Producers /\ t[1] \in Processes
    BY TokenNames, OutputNames DEF SupplyInv, TokensTold, DeliveriesInStep
  <2>2. Claimed(t) => InputOf(t) \in Inputs /\ ConsumerOf(t) \in Consumers /\ ConsumerOf(t) \in Processes
    BY InputNames, MainNames DEF SupplyInv, Leased, ConsumerOf, InputOf
  <2>3. t[1] = p /\ Progress(t) \notin {"none", "finished"} => t = h
    BY <1>4, <2>1, ProducerAt DEF InStep, Claimed, Progress
  <2>4. OfferedTold(t)'
    BY <1>1, <1>2, <1>4, <1>5, <1>6, <2>1 DEF OfferedTold
  <2>5. ReservedTold(t)'
    BY <1>2, <1>3, <1>4, <1>5, <1>6, <2>1, <2>2 DEF ReservedTold
  <2>6. RestTold(t)'
    BY <1>2, <1>4, <1>5, <1>6, <2>1, <2>2 DEF RestTold
  <2>7. InStep(t)'
    <3>1. CASE t = h
      <4>1. /\ Running(ConsumerOf(t)) /\ pc[InputOf(t)] = "ack" /\ ~broken /\ Claimed(t)
            /\ Running(p) /\ t[1] = p
        BY <1>1, <1>4, <2>1, <3>1, TokenAt DEF InStep, Received
      <4> QED BY <1>2, <1>3, <1>5, <1>6, <2>1, <2>2, <3>1, <4>1 DEF InStep, Received
    <3>2. CASE t # h
      <4>1. t[1] # p \/ Progress(t) \in {"none", "finished"}
        BY <2>3, <3>2
      <4> QED BY <1>2, <1>3, <1>5, <1>6, <2>1, <2>2, <3>2, <4>1, TokenAt DEF InStep
    <3> QED BY <3>1, <3>2
  <2> QED BY <2>4, <2>5, <2>6, <2>7
<1>13. ProducersStand'
  <2> SUFFICES ASSUME NEW q \in Producers PROVE ProducerStands(q)'
    BY DEF ProducersStand
  <2>1. CASE q = p
    <3>1. binding[Out(p)] = transfer[h].replacement /\ carrier[binding[Out(p)]].owner = None
      BY <1>1, <1>2 DEF MayAcknowledge, Out
    <3>2. \A u \in Range(Reaped) : On(u) # binding[Out(p)] /\ On(u)' = On(u)
      BY <1>5, <3>1, ShelfOwned
    <3> QED BY <1>1, <1>2, <1>3, <2>1, <3>1, <3>2 DEF ProducerStands
  <2>2. CASE q # p
    <3>1. /\ pc[Out(q)] = "deliver" => lease \in Tokens /\ lease # h
          /\ q \in Processes
          /\ Range(shelf') \subseteq Range(shelf)
      BY <1>2, <1>4, ProducerAt, OutputNames, ShelfParts DEF ProducerStands, SupplyInv
    <3>2. \A u \in Tokens : u[1] = q => (Acknowledged(u)' => Acknowledged(u))
      BY <1>1, <1>5, <2>2 DEF Acknowledged, Progress
    <3> QED BY <1>2, <1>3, <1>5, <1>6, <2>2, <3>1, <3>2, SameProducer DEF Progress
  <2> QED BY <2>1, <2>2
<1>14. ShelfInv'
  <2>1. Range(shelf') \subseteq Range(shelf) /\ Range(shelf) \subseteq Tokens
    BY <1>2, ShelfParts DEF SupplyInv
  <2> QED BY <1>2, <1>5, <2>1 DEF SupplyInv, ShelfInv
<1>15. ConsumersStand'
  <2> SUFFICES ASSUME NEW c \in Consumers PROVE ConsumerStands(c)'
    BY DEF ConsumersStand
  <2>1. /\ ConsumerStands(c) /\ pc'[MainOf(c)] = pc[MainOf(c)]
        /\ \A r \in InitialRoles \cup {"R"} : pc'[<<c, r>>] = pc[<<c, r>>]
    BY <1>3, InputNames DEF SupplyInv, ConsumersStand
  <2> QED BY <1>2, <1>4, <1>5, <2>1, SameConsumer
<1> QED BY <1>7, <1>8, <1>9, <1>10, <1>11, <1>12, <1>13, <1>14, <1>15 DEF SupplyInv

\* A producer that sells nothing may keep its output.
LEMMA RetainMay ==
  ASSUME SupplyInv, NEW p \in Producers,
         pc[Out(p)] \in {"offer", "backpressure", "handshake"}, ~Claimed(Current(p))
  PROVE  MayRetain(Current(p))
<1>1. /\ Current(p) \in Tokens /\ Current(p)[1] = p /\ OfferedTold(Current(p))
      /\ token[Current(p)].status = "offered"
  BY ProducerAt DEF ProducerStands
<1> QED BY <1>1 DEF MayRetain, OfferedTold, On, Out

\* A handoff that a producer is told of is one it may acknowledge.
LEMMA AcknowledgeMay ==
  ASSUME SupplyInv, NEW p \in Producers, pc[Out(p)] = "handshake", HandedOff(Current(p))
  PROVE  MayAcknowledge(Current(p)) /\ ~PeersLost(Current(p))
<1> DEFINE t == Current(p)
<1>1. /\ t \in Tokens /\ t[1] = p /\ ~Acknowledged(t) /\ Running(p)
      /\ ReservedTold(t) /\ RestTold(t) /\ InStep(t)
  BY ProducerAt DEF ProducerStands
<1>2. Progress(t) = "handed_off" /\ Claimed(t)
  BY <1>1 DEF HandedOff, Acknowledged, Claimed, Progress
<1>3. ~broken /\ Running(ConsumerOf(t)) /\ InputOf(t) \in Inputs
  BY <1>1, <1>2 DEF SupplyInv, LostUnderLease, Received, InStep, Leased
<1>4. /\ token[t].status = "reserved" /\ token[t].consumer = ConsumerOf(t)
      /\ token[t].epoch = carrier[On(t)].epoch /\ carrier[On(t)].owner = ConsumerOf(t)
      /\ On(t) = binding[InputOf(t)] /\ transfer[t].replacement = binding[Out(p)]
      /\ carrier[binding[Out(p)]].owner = None
  BY <1>1, <1>2, <1>3 DEF RestTold, ReservedTold, HandedOff, Progress
<1>5. binding[Out(p)] # binding[InputOf(t)]
  BY <1>3, OutputNames, InputNames DEF SupplyInv, Bound
<1> QED BY <1>1, <1>3, <1>4, <1>5 DEF MayAcknowledge, PeersLost, On, Out

\* The sink ends without a sale.
LEMMA LeaveSinkKeeps ==
  ASSUME SupplyInv, NEW p \in Producers, LeaveSink(p), UNCHANGED capacity
  PROVE  SupplyInv'
<1>1. /\ pc[Out(p)] \in {"offer", "backpressure", "handshake"} /\ Running(p)
      /\ Current(p) \in Tokens /\ Current(p)[1] = p /\ p \in Processes
      /\ OfferedTold(Current(p)) /\ InStep(Current(p)) /\ ProducerStands(p)
  BY ProducerAt, OutputNames DEF LeaveSink, Out
<1>2. CASE ~broken /\ DownstreamDone /\ ~Claimed(Current(p)) /\ Retain(p)
  BY <1>1, <1>2, RetainKeeps
<1>3. CASE /\ \/ broken
              \/ ~broken /\ DownstreamDone /\ ~Claimed(Current(p)) /\ ~MayRetain(Current(p))
              \/ /\ Claimed(Current(p))
                 /\ \/ PeersLost(Current(p))
                    \/ HandedOff(Current(p)) /\ ~MayAcknowledge(Current(p))
           /\ Fail({p}, Reaped)
  <2>1. broken
    <3>1. SUFFICES ASSUME ~broken, Claimed(Current(p)) PROVE FALSE
      BY <1>1, <1>3, RetainMay
    <3>2. pc[Out(p)] = "handshake" /\ ~Acknowledged(Current(p))
      BY <1>1, <3>1 DEF ProducerStands, OfferedTold, Claimed, Progress
    <3>3. Running(ConsumerOf(Current(p)))
      BY <1>1, <3>1, <3>2 DEF InStep, Acknowledged, Progress
    <3> QED BY <1>1, <1>3, <3>1, <3>2, <3>3, AcknowledgeMay DEF PeersLost
  <2>2. Reaped \in Seq(Tokens) /\ Range(Reaped) \subseteq Range(shelf)
    BY ShelfParts DEF SupplyInv
  <2> QED BY <1>1, <1>3, <2>1, <2>2, FailKeeps
<1> QED BY <1>2, <1>3 DEF LeaveSink

-----------------------------------------------------------------------------
(* Inputs.                                                                   *)

\* A step that moves one fiber of inputs leaves the others where they stand.
LEMMA InputMoves ==
  ASSUME SupplyInv, NEW d \in Inputs, NEW place \in InputPlaces, Goto(d, place)
  PROVE  /\ DOMAIN pc' = Fibers /\ pc'[d] = place
         /\ \A f \in Fibers : f # d => pc'[f] = pc[f]
         /\ \A p \in Producers : pc'[Out(p)] = pc[Out(p)]
         /\ \A c \in Consumers : pc'[MainOf(c)] = pc[MainOf(c)]
         /\ \A e \in Inputs : e # d => pc'[e] = pc[e]
         /\ \A f \in Outputs : pc'[f] \in OutputPlaces
         /\ \A f \in Inputs : pc'[f] \in InputPlaces
         /\ \A f \in Mains : pc'[f] \in MainPlaces
<1>1. /\ DOMAIN pc' = Fibers /\ pc'[d] = place
      /\ \A f \in Fibers : f # d => pc'[f] = pc[f]
  BY InputNames DEF Goto, SupplyInv, Shapes
<1>2. /\ \A p \in Producers : Out(p) \in Fibers /\ Out(p) # d
      /\ \A c \in Consumers : MainOf(c) \in Fibers /\ MainOf(c) # d
      /\ \A e \in Inputs : e \in Fibers
      /\ \A f \in Outputs : f \in Fibers /\ f # d
      /\ \A f \in Mains : f \in Fibers /\ f # d
  BY OutputNames, MainNames, InputNames
<1> QED BY <1>1, <1>2 DEF SupplyInv, Shapes

\* The oldest token on offer is its running producer's, who waits to sell it.
LEMMA OnOffer ==
  ASSUME SupplyInv, Available # <<>>, ~DownstreamDone
  PROVE  LET t == Head(Available) IN
         /\ t \in Tokens /\ t \in Range(shelf) /\ token[t].status = "offered"
         /\ Progress(t) = "none" /\ t = Current(t[1]) /\ Running(t[1])
         /\ pc[Out(t[1])] = "handshake"
         /\ On(t) = binding[Out(t[1])] /\ On(t) \in Slots
         /\ carrier[On(t)].owner = t[1] /\ token[t].epoch = carrier[On(t)].epoch
<1> DEFINE t == Head(Available)
<1>1. t \in Tokens /\ t \in Range(shelf) /\ token[t].status = "offered"
  BY ShelfParts DEF SupplyInv
<1>2. /\ Progress(t) = "none" /\ t = Current(t[1]) /\ Running(t[1])
      /\ On(t) = binding[Out(t[1])] /\ On(t) \in Slots
      /\ carrier[On(t)].owner = t[1] /\ token[t].epoch = carrier[On(t)].epoch
      /\ pc[Out(t[1])] \in {"offer", "backpressure", "handshake"}
  BY <1>1, TokenAt DEF OfferedTold
<1>3. ProducerStands(t[1])
  BY <1>1, TokenAt, ProducerAt
<1> QED BY <1>1, <1>2, <1>3 DEF ProducerStands

\* The demand at the head takes the token at the head.
LEMMA ClaimKeeps ==
  ASSUME SupplyInv, NEW d \in Inputs, Claim(d), UNCHANGED capacity
  PROVE  SupplyInv'
<1> DEFINE c == d[1]
<1>1. /\ pc[d] \in {"ask", "wait"} /\ Running(c) /\ ~broken /\ ~DownstreamDone
      /\ lease = None /\ carrier[binding[d]].owner = None /\ Available # <<>>
      /\ InputStands(d)
      /\ d \in Slots /\ c \in Consumers /\ c \in Processes /\ binding[d] \in Slots
  BY InputAt DEF Claim, CanStart, DownstreamDone
<1>2. PICK h \in Tokens :
      /\ h = Head(Available) /\ h \in Range(shelf) /\ token[h].status = "offered"
      /\ Progress(h) = "none" /\ h = Current(h[1]) /\ Running(h[1])
      /\ pc[Out(h[1])] = "handshake"
      /\ On(h) = binding[Out(h[1])] /\ On(h) \in Slots
      /\ carrier[On(h)].owner = h[1] /\ token[h].epoch = carrier[On(h)].epoch
      /\ h[1] # None /\ h[1] # c /\ h[1] \in Producers /\ h # None
      /\ binding[d] # On(h)
  BY <1>1, OnOffer, TokenNames, OutputNames, InputAt
<1>3. /\ UNCHANGED <<binding, broken, capacity, status, round, waiting, shelf>>
      /\ lease' = h /\ demands' = Without(demands, d) /\ Goto(d, "park")
  BY <1>2 DEF Claim
<1>4. /\ token' \in [Tokens -> [status : {"absent", "offered", "reserved", "consumed", "discarded"},
                           on : Slots \cup {None}, epoch : Nat, consumer : Consumers \cup {None}]]
      /\ \A t \in Tokens : /\ t # h => token'[t] = token[t]
                           /\ On(t)' = On(t) /\ token'[t].epoch = token[t].epoch
                           /\ (Live(t)' <=> Live(t))
      /\ token'[h].status = "reserved" /\ token'[h].consumer = c
  <2>1. /\ token \in [Tokens -> [status : {"absent", "offered", "reserved", "consumed", "discarded"},
                           on : Slots \cup {None}, epoch : Nat, consumer : Consumers \cup {None}]]
        /\ token' = [token EXCEPT ![h].status = "reserved", ![h].consumer = c]
    BY <1>2 DEF Claim, SupplyInv, Shapes
  <2> QED BY <1>1, <1>2, <2>1 DEF On, Live
<1>5. /\ carrier' \in [Slots -> [owner : Processes \cup {None}, epoch : Nat,
                            place : Slots \cup {Parking}]]
      /\ \A x \in Slots : /\ carrier'[x].owner = IF x = On(h) THEN c ELSE carrier[x].owner
                          /\ carrier'[x].epoch = carrier[x].epoch
                          /\ carrier'[x].place = carrier[x].place
  <2>1. /\ carrier \in [Slots -> [owner : Processes \cup {None}, epoch : Nat,
                            place : Slots \cup {Parking}]]
        /\ carrier' = [carrier EXCEPT ![On(h)].owner = c]
    BY <1>2 DEF Claim, On, SupplyInv, Shapes
  <2> QED BY <1>1, <1>2, <2>1
<1>6. /\ transfer' \in [Tokens -> [progress : Progresses, input : Inputs \cup {None},
                                   replacement : Slots \cup {None}]]
      /\ \A t \in Tokens : t # h =>
           /\ transfer'[t] = transfer[t]
           /\ InputOf(t)' = InputOf(t) /\ ConsumerOf(t)' = ConsumerOf(t) /\ Progress(t)' = Progress(t)
           /\ (Claimed(t)' <=> Claimed(t)) /\ (HandedOff(t)' <=> HandedOff(t))
           /\ (Acknowledged(t)' <=> Acknowledged(t))
      /\ Progress(h)' = "claimed" /\ InputOf(h)' = d /\ ConsumerOf(h)' = c
      /\ transfer'[h].replacement = binding[d] /\ Claimed(h)' /\ ~HandedOff(h)' /\ ~Acknowledged(h)'
  <2>1. /\ transfer \in [Tokens -> [progress : Progresses, input : Inputs \cup {None},
                                   replacement : Slots \cup {None}]]
        /\ transfer' = [transfer EXCEPT ![h] = [progress |-> "claimed", input |-> d,
                                                replacement |-> binding[d]]]
    BY <1>2 DEF Claim, SupplyInv, Shapes
  <2>2. transfer' \in [Tokens -> [progress : Progresses, input : Inputs \cup {None},
                                   replacement : Slots \cup {None}]]
    BY <1>1, <1>2, <2>1 DEF Progresses, Underway
  <2> QED BY <1>1, <1>2, <2>1, <2>2
          DEF Progress, InputOf, ConsumerOf, Claimed, HandedOff, Acknowledged
<1>7. /\ DOMAIN pc' = Fibers /\ pc'[d] = "park"
      /\ \A f \in Fibers : f # d => pc'[f] = pc[f]
      /\ \A p \in Producers : pc'[Out(p)] = pc[Out(p)]
      /\ \A e \in Consumers : pc'[MainOf(e)] = pc[MainOf(e)]
      /\ \A e \in Inputs : e # d => pc'[e] = pc[e]
      /\ \A f \in Outputs : pc'[f] \in OutputPlaces
      /\ \A f \in Inputs : pc'[f] \in InputPlaces
      /\ \A f \in Mains : pc'[f] \in MainPlaces
  <2>1. "park" \in InputPlaces
    BY DEF InputPlaces
  <2> QED BY <1>3, <2>1, InputMoves
<1>8. /\ \A q \in Processes : Running(q)' <=> Running(q)
      /\ DownstreamDone' <=> DownstreamDone
      /\ \A q \in Producers : Current(q)' = Current(q)
  BY <1>3 DEF Running, DownstreamDone, Current
<1>9. /\ \A t \in Tokens : Progress(t) \notin Underway
      /\ \A t \in Tokens : InputOf(t) = d => Progress(t) \in {"none", "finished"}
  <2>1. \A t \in Tokens : t # None
    BY TokenNames
  <2> QED BY <1>1, <2>1 DEF SupplyInv, Leased, InputStands
<1>10. Shapes'
  <2>1. demands' \in Seq(Inputs)
    BY <1>3, KeptPart DEF Without, SupplyInv, Shapes
  <2> QED BY <1>2, <1>3, <1>4, <1>5, <1>6, <1>7, <2>1 DEF SupplyInv, Shapes
<1>11. EndsMet'
  <2>1. \A f \in Fibers : f[1] \in Processes
    BY FiberKinds
  <2> QED BY <1>1, <1>7, <1>8, <2>1 DEF SupplyInv, EndsMet
<1>12. Bound' /\ Sited'
  <2>1. \A s \in Slots : carrier[binding[s]].place = s /\ binding[s] \in Slots
    BY <1>1 DEF SupplyInv, Sited, Site, Shapes
  <2>2. \A s \in Slots : Site(s)' = s
    BY <1>3, <1>6 DEF Site
  <2> QED BY <1>3, <1>5, <2>1, <2>2 DEF SupplyInv, Bound, Sited
<1>13. Leased' /\ LostUnderLease'
  <2>1. \A t \in Tokens : (Progress(t) \in Underway)' <=> lease' = t
    BY <1>3, <1>6, <1>9 DEF Underway
  <2>2. \A t, u \in Tokens :
          /\ Claimed(t)' /\ Progress(t)' # "finished" /\ Claimed(u)' /\ Progress(u)' # "finished"
          /\ InputOf(t)' = InputOf(u)'
          => t = u
    <3>1. \A t \in Tokens : Claimed(t) /\ Progress(t) # "finished" => InputOf(t) # d
      BY <1>9 DEF Claimed, Progress
    <3> QED BY <1>6, <3>1 DEF SupplyInv, Leased
  <2> QED BY <1>1, <1>3, <1>6, <2>1, <2>2 DEF SupplyInv, Leased, LostUnderLease, Received
<1>14. InputsStand'
  <2> SUFFICES ASSUME NEW e \in Inputs PROVE InputStands(e)'
    BY DEF InputsStand
  <2>1. InputStands(e)
    BY DEF SupplyInv, InputsStand
  <2>2. CASE e = d
    BY <1>2, <1>3, <1>6, <1>7, <2>2 DEF InputStands
  <2>3. CASE e # d
    <3>1. Progress(h) \notin Received
      BY <1>2 DEF Received
    <3> QED BY <1>1, <1>3, <1>6, <1>7, <2>1, <2>3, <3>1 DEF InputStands
  <2> QED BY <2>2, <2>3
<1>15. OfferedTold(h)' /\ ReservedTold(h)' /\ RestTold(h)' /\ InStep(h)'
  <2>1. OfferedTold(h)' /\ RestTold(h)'
    BY <1>4 DEF OfferedTold, RestTold
  <2>2. ReservedTold(h)'
    BY <1>1, <1>2, <1>3, <1>4, <1>5, <1>6, <1>8 DEF ReservedTold
  <2>3. InStep(h)'
    BY <1>1, <1>2, <1>6, <1>7, <1>8, TokenAt DEF InStep, Received
  <2> QED BY <2>1, <2>2, <2>3
<1>16. ASSUME NEW t \in Tokens, t # h
       PROVE  OfferedTold(t)' /\ ReservedTold(t)' /\ RestTold(t)' /\ InStep(t)'
  <2>1. /\ OfferedTold(t) /\ ReservedTold(t) /\ RestTold(t) /\ InStep(t)
        /\ t[1] \in Producers /\ t[1] \in Processes /\ binding[Out(t[1])] \in Slots
        /\ Claimed(t) => /\ InputOf(t) \in Inputs /\ ConsumerOf(t) \in Processes
                         /\ ConsumerOf(t) \in Consumers
    BY TokenAt
  <2>2. /\ Live(t) => On(t) # On(h)
        /\ token[t].status \in {"offered", "reserved"} => Live(t)
    BY <1>2, <1>16 DEF SupplyInv, OneLive, Live
  <2>3. OfferedTold(t)'
    BY <1>3, <1>4, <1>5, <1>6, <1>7, <1>8, <1>16, <2>1, <2>2 DEF OfferedTold
  <2>4. InputOf(t) # d \/ Progress(t) \in {"none", "finished"}
    BY <1>9
  <2>5. ReservedTold(t)'
    <3> SUFFICES ASSUME token[t].status = "reserved" PROVE ReservedTold(t)'
      BY <1>4, <1>16 DEF ReservedTold
    <3>1. carrier[binding[Out(t[1])]].owner = None => binding[Out(t[1])] # On(h)
      BY <1>2
    <3>2. Progress(t) = "finished" => InputOf(t) # d
      BY <1>1, <2>1 DEF ReservedTold
    <3> QED BY <1>3, <1>4, <1>5, <1>6, <1>7, <1>8, <1>16, <2>1, <2>2, <3>1, <3>2 DEF ReservedTold
  <2>6. RestTold(t)'
    BY <1>4, <1>6, <1>8, <1>16, <2>1 DEF RestTold
  <2>7. InStep(t)'
    BY <1>3, <1>6, <1>7, <1>8, <1>16, <2>1, <2>4 DEF InStep, Claimed, Progress
  <2> QED BY <2>3, <2>5, <2>6, <2>7
<1>17. TokensTold' /\ DeliveriesInStep'
  BY <1>15, <1>16 DEF TokensTold, DeliveriesInStep
<1>18. ProducersStand'
  <2> SUFFICES ASSUME NEW p \in Producers PROVE ProducerStands(p)'
    BY DEF ProducersStand
  <2>1. /\ ProducerStands(p) /\ p \in Processes /\ binding[Out(p)] \in Slots
        /\ pc[Out(p)] # "deliver"
    <3>1. pc[Out(p)] = "deliver" => Current(p) \in Tokens /\ lease = Current(p)
      BY ProducerAt DEF ProducerStands
    <3> QED BY <1>1, <3>1, ProducerAt, OutputNames, TokenNames
  <2>2. carrier[binding[Out(p)]].owner = None => carrier'[binding[Out(p)]].owner = None
    BY <1>2, <1>5, <2>1
  <2>3. \A u \in Tokens : /\ token[u].status = "absent" => token'[u].status = "absent"
                          /\ token[u].status = "offered" =>
                               token'[u].status = "offered" \/ (u \in Range(shelf) /\ Claimed(u)')
                          /\ On(u)' = On(u)
                          /\ Claimed(u) => Claimed(u)'
                          /\ Acknowledged(u)' => Acknowledged(u)
    BY <1>2, <1>4, <1>6
  <2> QED BY <1>3, <1>7, <2>1, <2>2, <2>3, SameProducer
<1>19. ShelfInv' /\ OneLive'
  <2>1. Range(shelf) \subseteq Tokens
    BY ShelfParts DEF SupplyInv
  <2>2. OneLive'
    BY <1>4 DEF SupplyInv, OneLive
  <2>3. ShelfInv'
    BY <1>3, <1>4, <1>5, <2>1 DEF SupplyInv, ShelfInv
  <2> QED BY <2>2, <2>3
<1>20. ConsumersStand'
  <2> SUFFICES ASSUME NEW e \in Consumers PROVE ConsumerStands(e)'
    BY DEF ConsumersStand
  <2>1. ConsumerStands(e) /\ pc'[MainOf(e)] = pc[MainOf(e)] /\ e # h[1]
    BY <1>2, <1>7, MainNames DEF SupplyInv, ConsumersStand
  <2>2. ASSUME NEW r \in InitialRoles \cup {"R"}
        PROVE  /\ pc'[<<e, r>>] = pc[<<e, r>>] \/ {pc[<<e, r>>], pc'[<<e, r>>]} \subseteq Asking
               /\ carrier[binding[<<e, r>>]].owner = e => carrier'[binding'[<<e, r>>]].owner = e
    <3>1. <<e, r>> \in Inputs /\ binding[<<e, r>>] \in Slots
      BY InputNames DEF SupplyInv, Shapes
    <3> QED BY <1>1, <1>2, <1>3, <1>5, <1>7, <2>1, <3>1 DEF Asking
  <2> QED BY <1>2, <1>4, <1>6, <2>1, <2>2, SameConsumer
<1> QED BY <1>10, <1>11, <1>12, <1>13, <1>14, <1>17, <1>18, <1>19, <1>20 DEF SupplyInv

\* An input fiber that only goes on to where its delivery is keeps the invariant.
LEMMA InputFrame ==
  ASSUME SupplyInv, NEW d \in Inputs, NEW place \in Asking, pc[d] \in Asking, Goto(d, place),
         UNCHANGED <<status, round, binding, carrier, token, transfer, lease, broken, capacity,
                     waiting>>,
         shelf' \in Seq(Tokens), Range(shelf') \subseteq Range(shelf), demands' \in Seq(Inputs),
         InputStands(d)',
         \A t \in Tokens : InputOf(t) = d => InStep(t)'
  PROVE  SupplyInv'
<1>1. /\ DOMAIN pc' = Fibers /\ pc'[d] = place /\ place # "end" /\ pc[d] # "end"
      /\ \A f \in Fibers : f # d => pc'[f] = pc[f]
      /\ \A p \in Producers : pc'[Out(p)] = pc[Out(p)]
      /\ \A e \in Consumers : pc'[MainOf(e)] = pc[MainOf(e)]
      /\ \A e \in Inputs : e # d => pc'[e] = pc[e]
      /\ \A f \in Outputs : pc'[f] \in OutputPlaces
      /\ \A f \in Inputs : pc'[f] \in InputPlaces
      /\ \A f \in Mains : pc'[f] \in MainPlaces
  <2>1. place \in InputPlaces
    BY DEF InputPlaces, Asking
  <2> QED BY <2>1, InputMoves DEF Asking
<1>2. /\ \A q \in Processes : Running(q)' <=> Running(q)
      /\ DownstreamDone' <=> DownstreamDone
      /\ \A q \in Producers : Current(q)' = Current(q)
      /\ \A t : On(t)' = On(t) /\ (Live(t)' <=> Live(t))
  BY DEF Running, DownstreamDone, Current, On, Live
<1>3. Shapes'
  BY <1>1 DEF SupplyInv, Shapes
<1>4. EndsMet'
  <2>1. \A f \in Fibers : f[1] \in Processes
    BY FiberKinds
  <2> QED BY <1>1, <1>2, <2>1, InputNames DEF SupplyInv, EndsMet
<1>5. Bound' /\ Sited' /\ Leased' /\ LostUnderLease' /\ OneLive'
  BY <1>2, SameDeliveries DEF SupplyInv, Bound, Sited, Site, Leased, LostUnderLease, OneLive
<1>6. InputsStand'
  <2> SUFFICES ASSUME NEW e \in Inputs, e # d PROVE InputStands(e)'
    BY DEF InputsStand
  <2>1. InputStands(e)
    BY DEF SupplyInv, InputsStand
  <2> QED BY <1>1, <2>1, SameDeliveries DEF InputStands
<1>7. TokensTold' /\ DeliveriesInStep'
  <2> SUFFICES ASSUME NEW t \in Tokens
               PROVE  OfferedTold(t)' /\ ReservedTold(t)' /\ RestTold(t)' /\ InStep(t)'
    BY DEF TokensTold, DeliveriesInStep
  <2>1. /\ OfferedTold(t) /\ ReservedTold(t) /\ RestTold(t) /\ InStep(t)
        /\ t[1] \in Producers /\ t[1] \in Processes
        /\ Claimed(t) => /\ InputOf(t) \in Inputs /\ ConsumerOf(t) \in Processes
                         /\ ConsumerOf(t) \in Consumers
    BY TokenAt
  <2>2. OfferedTold(t)'
    BY <1>1, <1>2, <2>1, SameDeliveries DEF OfferedTold
  <2>3. ReservedTold(t)'
    BY <1>1, <1>2, <2>1, SameDeliveries DEF ReservedTold, Asking
  <2>4. RestTold(t)'
    BY <1>2, <2>1, SameDeliveries DEF RestTold
  <2>5. InStep(t)'
    BY <1>1, <1>2, <2>1, SameDeliveries DEF InStep
  <2> QED BY <2>2, <2>3, <2>4, <2>5
<1>8. ProducersStand'
  <2> SUFFICES ASSUME NEW p \in Producers PROVE ProducerStands(p)'
    BY DEF ProducersStand
  <2>1. p \in Processes
    BY OutputNames
  <2> QED BY <1>1, <1>2, <2>1, SameProducer, SameDeliveries
<1>9. ShelfInv'
  BY <1>2 DEF SupplyInv, ShelfInv
<1>10. ConsumersStand'
  <2> SUFFICES ASSUME NEW e \in Consumers PROVE ConsumerStands(e)'
    BY DEF ConsumersStand
  <2>1. ConsumerStands(e) /\ pc'[MainOf(e)] = pc[MainOf(e)]
    BY <1>1 DEF SupplyInv, ConsumersStand
  <2>2. \A r \in InitialRoles \cup {"R"} :
          pc'[<<e, r>>] = pc[<<e, r>>] \/ {pc[<<e, r>>], pc'[<<e, r>>]} \subseteq Asking
    BY <1>1, InputNames
  <2> QED BY <2>1, <2>2, SameConsumer, SameDeliveries
<1> QED BY <1>3, <1>4, <1>5, <1>6, <1>7, <1>8, <1>9, <1>10 DEF SupplyInv

\* The demand is recorded, or stays.
LEMMA WaitKeeps ==
  ASSUME SupplyInv, NEW d \in Inputs, Wait(d), UNCHANGED capacity
  PROVE  SupplyInv'
<1>1. /\ pc[d] \in {"ask", "wait"} /\ Goto(d, "wait")
      /\ UNCHANGED <<status, round, binding, carrier, token, transfer, lease, broken, capacity,
                     waiting>>
      /\ shelf' = Reaped /\ demands' = Asked(d)
  BY DEF Wait
<1>2. /\ shelf' \in Seq(Tokens) /\ Range(shelf') \subseteq Range(shelf)
      /\ demands' \in Seq(Inputs)
  <2>1. Asked(d) \in Seq(Inputs)
    BY DEF Asked, SupplyInv, Shapes
  <2> QED BY <1>1, <2>1, ShelfParts DEF SupplyInv
<1>3. pc'[d] = "wait" /\ InputStands(d)
  BY <1>1, InputMoves, InputAt DEF InputPlaces
<1>4. InputStands(d)'
  BY <1>1, <1>3, SameDeliveries DEF InputStands
<1>5. \A t \in Tokens : InputOf(t) = d => InStep(t)'
  BY <1>1, <1>3, SameDeliveries DEF InputStands, InStep, Claimed, Progress
<1> QED BY <1>1, <1>2, <1>4, <1>5, InputFrame DEF Asking

\* What the delivery of an input fiber is, while it holds the lease.
LEMMA LeaseOf ==
  ASSUME SupplyInv, NEW d \in Inputs, pc[d] \in {"park", "parked", "replace", "handoff"}
  PROVE  /\ lease \in Tokens /\ InputOf(lease) = d /\ Claimed(lease) /\ Progress(lease) \in Underway
         /\ ConsumerOf(lease) = d[1] /\ Running(d[1])
         /\ \A t \in Tokens : InputOf(t) = d /\ Claimed(t) /\ Progress(t) # "finished" => t = lease
<1>1. lease \in Tokens /\ InputOf(lease) = d /\ Progress(lease) \in Underway /\ Running(d[1])
  BY InputAt DEF InputStands, Underway, SupplyInv, Shapes
<1>2. Claimed(lease) /\ Progress(lease) # "finished"
  BY <1>1 DEF Underway, Claimed, Progress
<1> QED BY <1>1, <1>2 DEF SupplyInv, Leased, ConsumerOf, InputOf

\* The source has arrived.
LEMMA SourceDeliveredKeeps ==
  ASSUME SupplyInv, NEW d \in Inputs, SourceDelivered(d), UNCHANGED capacity
  PROVE  SupplyInv'
<1>1. /\ pc[d] = "parked" /\ Goto(d, "replace")
      /\ UNCHANGED <<status, round, binding, carrier, token, transfer, lease, broken, capacity,
                     waiting, shelf, demands>>
      /\ Wakes(d) /\ ~PeersLost(lease)
  BY DEF SourceDelivered, inventory
<1>2. /\ lease \in Tokens /\ InputOf(lease) = d /\ Progress(lease) \in Underway
      /\ \A t \in Tokens : InputOf(t) = d /\ Claimed(t) /\ Progress(t) # "finished" => t = lease
  BY <1>1, LeaseOf
<1>3. Progress(lease) = "delivered" /\ ~broken
  <2>1. ~Acknowledged(lease)
    BY <1>2 DEF Acknowledged, Progress, Underway
  <2> QED BY <1>1, <2>1 DEF Wakes, PeersLost, Progress
<1>4. pc'[d] = "replace" /\ lease # None
  BY <1>1, <1>2, InputMoves, TokenNames DEF InputPlaces
<1>5. InputStands(d)'
  BY <1>1, <1>2, <1>3, <1>4, SameDeliveries DEF InputStands
<1>6. \A t \in Tokens : InputOf(t) = d => InStep(t)'
  <2> SUFFICES ASSUME NEW t \in Tokens, InputOf(t) = d, Claimed(t), Progress(t) # "finished"
               PROVE  InStep(t)'
    BY <1>1, SameDeliveries DEF InStep
  <2>1. t = lease /\ InStep(t) /\ Running(t[1])' = Running(t[1]) /\ Current(t[1])' = Current(t[1])
    BY <1>1, <1>2, TokenAt DEF Running, Current
  <2>2. pc'[Out(t[1])] = pc[Out(t[1])] /\ (Running(ConsumerOf(t))' <=> Running(ConsumerOf(t)))
    BY <1>1, InputMoves, TokenAt, SameDeliveries DEF InputPlaces, Running
  <2>3. Progress(t) = "delivered"
    BY <2>1, <1>3
  <2> QED BY <1>1, <1>3, <1>4, <2>1, <2>2, <2>3, SameDeliveries DEF InStep, Received
<1>7. shelf' \in Seq(Tokens) /\ Range(shelf') \subseteq Range(shelf) /\ demands' \in Seq(Inputs)
  BY <1>1 DEF SupplyInv, Shapes
<1> QED BY <1>1, <1>5, <1>6, <1>7, InputFrame DEF Asking

\* The roles a queued call works on are its own fiber's, or the inputs a consumer
\* has.
LEMMA UsedRoles ==
  ASSUME SupplyInv, NEW f \in Queued
  PROVE  /\ f \in Fibers
         /\ \A s \in Used(f) : s \in Slots /\ s[1] = f[1] /\ (s = f \/ (s \in Inputs /\ pc[s] = "got"))
         /\ f \in Mains => pc[f] \in {"local", "inject", "restore", "final"}
<1>1. f \in Fibers /\ pc[f] \in Calls
  BY DEF Queued
<1>2. CASE f \notin Mains
  <2>1. f \in Slots
    BY <1>1, <1>2 DEF Fibers
  <2> QED BY <1>1, <1>2, <2>1 DEF Used
<1>3. CASE f \in Mains
  <2>1. f[1] \in Consumers /\ f = MainOf(f[1]) /\ pc[f] \in {"local", "inject", "restore", "final"}
    BY <1>1, <1>3, MainNames DEF SupplyInv, Shapes, MainPlaces, Calls
  <2>2. ConsumerStands(f[1])
    BY <2>1 DEF SupplyInv, ConsumersStand
  <2>3. ASSUME NEW s \in Used(f) PROVE s \in Slots /\ s[1] = f[1] /\ s \in Inputs /\ pc[s] = "got"
    <3>1. pc[f] # "local"
      BY <1>3, <2>3 DEF Used
    <3>2. PICK r \in InitialRoles \cup {"R"} : s = <<f[1], r>> /\ (pc[f] = "final" => r \in InitialRoles)
      BY <1>3, <2>3, <3>1 DEF Used
    <3>3. pc[s] = "got"
      <4>1. CASE r \in InitialRoles
        BY <2>1, <2>2, <3>1, <3>2, <4>1 DEF ConsumerStands
      <4>2. CASE r = "R" /\ r \notin InitialRoles
        BY <2>1, <2>2, <3>1, <3>2, <4>2 DEF ConsumerStands
      <4> QED BY <4>1, <4>2
    <3> QED BY <2>1, <3>2, <3>3, InputNames
  <2> QED BY <1>1, <2>1, <2>3
<1> QED BY <1>2, <1>3

\* A role of a process whose fiber for it stands at a handshake is not at work.
LEMMA NotAtWork ==
  ASSUME SupplyInv, NEW s \in Slots, pc[s] \notin Calls, pc[s] # "got"
  PROVE  \A f \in Queued : \A r \in Used(f) : binding[r] # binding[s]
<1> SUFFICES ASSUME NEW f \in Queued, NEW r \in Used(f) PROVE r # s /\ r \in Slots
  BY DEF SupplyInv, Bound
<1>1. pc[f] \in Calls
  BY DEF Queued
<1> QED BY <1>1, UsedRoles

\* When the replacement is back commit_role_handoff refuses nothing.
LEMMA HandOffMay ==
  ASSUME SupplyInv, NEW d \in Inputs, pc[d] = "handoff"
  PROVE  MayHandOff(d)
<1>1. /\ lease \in Tokens /\ InputOf(lease) = d /\ Claimed(lease) /\ Progress(lease) = "returned"
      /\ ConsumerOf(lease) = d[1] /\ Running(d[1]) /\ ~broken
  BY LeaseOf, InputAt DEF InputStands
<1>2. /\ InStep(lease) /\ ReservedTold(lease) /\ RestTold(lease)
      /\ Out(lease[1]) \in Slots /\ d \in Slots /\ lease[1] \in Producers
  BY <1>1, TokenAt, InputAt
<1>3. Running(lease[1]) /\ pc[Out(lease[1])] = "handshake"
  BY <1>1, <1>2 DEF InStep
<1>4. /\ token[lease].status = "reserved" /\ token[lease].consumer = d[1]
      /\ On(lease) = binding[Out(lease[1])] /\ token[lease].epoch = carrier[On(lease)].epoch
      /\ carrier[On(lease)].owner = d[1] /\ transfer[lease].replacement = binding[d]
      /\ carrier[binding[d]].owner = None
  BY <1>1, <1>2 DEF RestTold, ReservedTold
<1>5. \A f \in Queued : \A s \in Used(f) : binding[s] \notin {binding[Out(lease[1])], binding[d]}
  <2>1. "handshake" \notin Calls /\ "handoff" \notin Calls
    BY DEF Calls
  <2> QED BY <1>2, <1>3, <2>1, NotAtWork
<1> QED BY <1>3, <1>4, <1>5 DEF MayHandOff, On, Out

\* The two roles exchange their carriers.
LEMMA HandOffKeeps ==
  ASSUME SupplyInv, NEW d \in Inputs, HandOff(d), UNCHANGED capacity
  PROVE  SupplyInv'
<1>1. /\ pc[d] = "handoff" /\ Running(d[1]) /\ ~broken
      /\ d \in Slots /\ d[1] \in Consumers /\ d[1] \in Processes /\ binding[d] \in Slots
      /\ d[1] # None
  BY InputAt, MainNames DEF HandOff, InputStands
<1>2. PICK h \in Tokens :
      /\ h = lease /\ InputOf(h) = d /\ ConsumerOf(h) = d[1] /\ Progress(h) = "returned"
      /\ h # None /\ Claimed(h)
      /\ \A t \in Tokens : InputOf(t) = d /\ Claimed(t) /\ Progress(t) # "finished" => t = h
  BY <1>1, LeaseOf, InputAt, TokenNames DEF InputStands
<1> DEFINE p == h[1]
<1>3. /\ p \in Producers /\ p \in Processes /\ Out(p) \in Slots /\ Out(p) # d /\ d \notin Outputs
      /\ Running(p) /\ h = Current(p) /\ pc[Out(p)] = "handshake"
      /\ token[h].status = "reserved" /\ On(h) = binding[Out(p)]
      /\ transfer[h].replacement = binding[d] /\ carrier[binding[d]].owner = None
      /\ ReservedTold(h) /\ binding[Out(p)] \in Slots
  BY <1>1, <1>2, TokenAt, OutputNames, InputNames DEF InStep, RestTold, ReservedTold
<1>4. /\ UNCHANGED <<status, round, carrier, token, waiting, shelf, demands, broken, capacity>>
      /\ lease' = None /\ Goto(d, "ack")
      /\ \A t : On(t)' = On(t) /\ (Live(t)' <=> Live(t))
  BY DEF HandOff, On, Live
<1>5. /\ binding' \in [Slots -> Slots]
      /\ binding'[d] = binding[Out(p)] /\ binding'[Out(p)] = binding[d]
      /\ \A s \in Slots : s # d /\ s # Out(p) => binding'[s] = binding[s]
  <2>1. binding \in [Slots -> Slots] /\ binding' = [binding EXCEPT ![Out(p)] = binding[d], ![d] = binding[Out(p)]]
    BY <1>2 DEF HandOff, Swapped, Out, SupplyInv, Shapes
  <2> QED BY <1>1, <1>3, <2>1
<1>6. /\ transfer' \in [Tokens -> [progress : Progresses, input : Inputs \cup {None},
                                   replacement : Slots \cup {None}]]
      /\ \A t \in Tokens : /\ InputOf(t)' = InputOf(t) /\ ConsumerOf(t)' = ConsumerOf(t)
                           /\ transfer'[t].replacement = transfer[t].replacement
                           /\ Progress(t)' = IF t = h THEN "handed_off" ELSE Progress(t)
                           /\ (Claimed(t)' <=> Claimed(t))
                           /\ (Acknowledged(t)' <=> Acknowledged(t))
                           /\ t # h => transfer'[t] = transfer[t] /\ (HandedOff(t)' <=> HandedOff(t))
      /\ HandedOff(h)'
  <2>1. /\ transfer \in [Tokens -> [progress : Progresses, input : Inputs \cup {None},
                                   replacement : Slots \cup {None}]]
        /\ transfer' = [transfer EXCEPT ![h].progress = "handed_off"]
    BY <1>2 DEF HandOff, SupplyInv, Shapes
  <2> QED BY <1>2, <2>1
          DEF Progress, InputOf, ConsumerOf, Claimed, HandedOff, Acknowledged, Progresses, Received
<1>7. /\ DOMAIN pc' = Fibers /\ pc'[d] = "ack"
      /\ \A f \in Fibers : f # d => pc'[f] = pc[f]
      /\ \A q \in Producers : pc'[Out(q)] = pc[Out(q)]
      /\ \A e \in Consumers : pc'[MainOf(e)] = pc[MainOf(e)]
      /\ \A e \in Inputs : e # d => pc'[e] = pc[e]
      /\ \A f \in Outputs : pc'[f] \in OutputPlaces
      /\ \A f \in Inputs : pc'[f] \in InputPlaces
      /\ \A f \in Mains : pc'[f] \in MainPlaces
  <2>1. "ack" \in InputPlaces
    BY DEF InputPlaces
  <2> QED BY <1>4, <2>1, InputMoves
<1>8. /\ \A q \in Processes : Running(q)' <=> Running(q)
      /\ DownstreamDone' <=> DownstreamDone
      /\ \A q \in Producers : Current(q)' = Current(q)
  BY <1>4 DEF Running, DownstreamDone, Current
<1>9. \A t \in Tokens : t # h => Progress(t) \notin Underway
  BY <1>2 DEF SupplyInv, Leased
<1>10. Shapes'
  BY <1>4, <1>5, <1>6, <1>7 DEF SupplyInv, Shapes
<1>11. EndsMet'
  <2>1. \A f \in Fibers : f[1] \in Processes
    BY FiberKinds
  <2> QED BY <1>1, <1>7, <1>8, <2>1 DEF SupplyInv, EndsMet
<1>12. Bound'
  <2>1. /\ \A r, s \in Slots : binding[r] = binding[s] => r = s
        /\ \A x \in Slots : \E s \in Slots : binding[s] = x
    BY DEF SupplyInv, Bound
  <2>2. \A r, s \in Slots : binding'[r] = binding'[s] => r = s
    BY <1>1, <1>3, <1>5, <2>1
  <2>3. \A x \in Slots : \E s \in Slots : binding'[s] = x
    <3> TAKE x \in Slots
    <3>1. PICK s \in Slots : binding[s] = x
      BY <2>1
    <3> QED BY <1>1, <1>3, <1>5, <3>1
  <2> QED BY <2>2, <2>3 DEF Bound
<1>13. Sited'
  <2>1. /\ carrier[binding[d]].place = Out(p) /\ carrier[binding[Out(p)]].place = d
        /\ \A s \in Slots : s # d /\ s # Out(p) => carrier[binding[s]].place = s
    BY <1>1, <1>2, <1>3 DEF SupplyInv, Sited, Site
  <2>2. \A s \in Slots : Site(s)' = s
    BY <1>4 DEF Site
  <2> QED BY <1>1, <1>3, <1>4, <1>5, <2>1, <2>2 DEF Sited
<1>14. Leased' /\ LostUnderLease'
  <2>1. \A t \in Tokens : (Progress(t) \in Underway)' <=> lease' = t
    BY <1>4, <1>6, <1>9, TokenNames DEF Underway
  <2>2. LostUnderLease'
    BY <1>1, <1>4 DEF LostUnderLease
  <2> QED BY <1>2, <1>6, <2>1, <2>2 DEF SupplyInv, Leased
<1>15. InputsStand'
  <2> SUFFICES ASSUME NEW e \in Inputs PROVE InputStands(e)'
    BY DEF InputsStand
  <2>1. InputStands(e)
    BY DEF SupplyInv, InputsStand
  <2>2. CASE e = d
    BY <1>1, <1>2, <1>4, <1>6, <1>7, <2>2 DEF InputStands, Received
  <2>3. CASE e # d
    BY <1>1, <1>2, <1>4, <1>6, <1>7, <2>1, <2>3 DEF InputStands, Received
  <2> QED BY <2>2, <2>3
<1>16. OfferedTold(h)' /\ ReservedTold(h)' /\ RestTold(h)' /\ InStep(h)'
  <2>1. OfferedTold(h)' /\ RestTold(h)'
    BY <1>2, <1>3, <1>4, <1>6 DEF OfferedTold, RestTold
  <2>2. ReservedTold(h)'
    BY <1>1, <1>2, <1>3, <1>4, <1>5, <1>6, <1>8 DEF ReservedTold
  <2>3. InStep(h)'
    BY <1>1, <1>2, <1>3, <1>6, <1>7, <1>8 DEF InStep, Received
  <2> QED BY <2>1, <2>2, <2>3
<1>17. ASSUME NEW t \in Tokens, t # h
       PROVE  OfferedTold(t)' /\ ReservedTold(t)' /\ RestTold(t)' /\ InStep(t)'
  <2>1. /\ OfferedTold(t) /\ ReservedTold(t) /\ RestTold(t) /\ InStep(t)
        /\ t[1] \in Producers /\ t[1] \in Processes /\ Out(t[1]) \in Slots
        /\ (t[1] # p => Out(t[1]) # Out(p)) /\ Out(t[1]) # d /\ t # None
        /\ Claimed(t) => /\ InputOf(t) \in Inputs /\ InputOf(t) \in Slots /\ InputOf(t) # Out(p)
                         /\ ConsumerOf(t) \in Processes /\ ConsumerOf(t) \in Consumers
    BY <1>3, TokenAt, TokenNames, OutputNames, InputAt
  <2>2. OfferedTold(t)'
    <3> SUFFICES ASSUME token[t].status = "offered" PROVE OfferedTold(t)'
      BY <1>4 DEF OfferedTold
    <3>1. t[1] # p
      BY <1>3, <1>17, <2>1 DEF OfferedTold
    <3> QED BY <1>4, <1>5, <1>6, <1>7, <1>8, <1>17, <2>1, <3>1 DEF OfferedTold
  <2>3. InputOf(t) = d => ~Claimed(t) \/ Progress(t) = "finished"
    BY <1>2, <1>17
  <2>4. ReservedTold(t)'
    <3> SUFFICES ASSUME token[t].status = "reserved" PROVE ReservedTold(t)'
      BY <1>4 DEF ReservedTold
    <3>1. InputOf(t) # d
      BY <1>1, <2>1, <2>3 DEF ReservedTold
    <3>2. Progress(t) = "handed_off" => t[1] # p
      BY <1>1, <1>3, <1>17, <2>1 DEF InStep, ReservedTold
    <3> QED BY <1>2, <1>4, <1>5, <1>6, <1>7, <1>8, <1>17, <2>1, <3>1, <3>2 DEF ReservedTold
  <2>5. RestTold(t)'
    BY <1>4, <1>6, <1>8, <1>17, <2>1 DEF RestTold
  <2>6. InStep(t)'
    BY <1>4, <1>6, <1>7, <1>8, <1>17, <2>1, <2>3 DEF InStep
  <2> QED BY <2>2, <2>4, <2>5, <2>6
<1>18. TokensTold' /\ DeliveriesInStep'
  BY <1>16, <1>17 DEF TokensTold, DeliveriesInStep
<1>19. ProducersStand'
  <2> SUFFICES ASSUME NEW q \in Producers PROVE ProducerStands(q)'
    BY DEF ProducersStand
  <2>1. ProducerStands(q) /\ q \in Processes /\ Out(q) \in Slots /\ Out(q) # d
    BY ProducerAt, OutputNames, InputNames
  <2>2. CASE q = p
    BY <1>2, <1>3, <1>4, <1>6, <1>7, <1>8, <2>1, <2>2 DEF ProducerStands
  <2>3. CASE q # p
    <3>1. Out(q) # Out(p)
      BY <1>3, <2>3, OutputNames
    <3>2. pc[Out(q)] # "deliver"
      BY <1>2, <2>1, <2>3, ProducerAt DEF ProducerStands
    <3> QED BY <1>4, <1>5, <1>6, <1>7, <2>1, <3>1, <3>2, SameProducer
  <2> QED BY <2>2, <2>3
<1>20. ShelfInv' /\ OneLive'
  BY <1>4 DEF SupplyInv, ShelfInv, OneLive
<1>21. ConsumersStand'
  <2> SUFFICES ASSUME NEW e \in Consumers PROVE ConsumerStands(e)'
    BY DEF ConsumersStand
  <2>1. ConsumerStands(e) /\ pc'[MainOf(e)] = pc[MainOf(e)]
    BY <1>7 DEF SupplyInv, ConsumersStand
  <2>2. ASSUME NEW r \in InitialRoles \cup {"R"}
        PROVE  /\ pc'[<<e, r>>] = pc[<<e, r>>] \/ {pc[<<e, r>>], pc'[<<e, r>>]} \subseteq Asking
               /\ carrier[binding[<<e, r>>]].owner = e => carrier'[binding'[<<e, r>>]].owner = e
    <3>1. <<e, r>> \in Inputs /\ <<e, r>> \in Slots /\ <<e, r>> # Out(p) /\ e # None
      BY <1>3, InputNames, OutputNames, MainNames
    <3> QED BY <1>1, <1>3, <1>4, <1>5, <1>7, <3>1 DEF Asking
  <2> QED BY <1>2, <1>4, <1>6, <2>1, <2>2, SameConsumer
<1> QED BY <1>10, <1>11, <1>12, <1>13, <1>14, <1>15, <1>18, <1>19, <1>20, <1>21 DEF SupplyInv

\* The transfer of an input fiber that waits for its receipt is the one that was
\* handed over to it.
LEMMA TransferIs ==
  ASSUME SupplyInv, NEW d \in Inputs, pc[d] = "ack"
  PROVE  LET t == TransferOf(d) IN
         /\ t \in Tokens /\ InputOf(t) = d /\ Progress(t) \in Received /\ ~broken
         /\ Claimed(t) /\ ConsumerOf(t) = d[1] /\ Running(d[1])
         /\ \A u \in Tokens : InputOf(u) = d /\ Claimed(u) /\ Progress(u) # "finished" => u = t
<1>1. PICK h \in Tokens : InputOf(h) = d /\ Progress(h) \in Received
  BY InputAt DEF InputStands
<1>2. ~broken /\ Running(d[1])
  BY InputAt DEF InputStands
<1>3. \A u \in Tokens : InputOf(u) = d /\ Progress(u) # "finished" => u = h
  <2>1. Claimed(h) /\ Progress(h) # "finished"
    BY <1>1 DEF Received, Claimed, Progress
  <2>2. \A u \in Tokens : InputOf(u) = d => Claimed(u)
    BY InputNames DEF SupplyInv, Leased, NoTransfer, InputOf, Progress, Claimed
  <2> QED BY <1>1, <2>1, <2>2 DEF SupplyInv, Leased
<1>4. TransferOf(d) = h
  BY <1>1, <1>3 DEF TransferOf, InputOf, Progress, Received
<1> QED BY <1>1, <1>2, <1>3, <1>4 DEF Received, Claimed, Progress, ConsumerOf, InputOf

\* The recipe may adopt or hold the input its producer acknowledged.
LEMMA AdmitMay ==
  ASSUME SupplyInv, NEW d \in Inputs, pc[d] = "ack"
  PROVE  MayAdmit(d, TransferOf(d))
<1>1. PICK h \in Tokens : /\ h = TransferOf(d) /\ InputOf(h) = d /\ Progress(h) \in Received
                          /\ Claimed(h) /\ ConsumerOf(h) = d[1] /\ Running(d[1])
  BY TransferIs
<1>2. ReservedTold(h) /\ RestTold(h) /\ HandedOff(h) /\ Progress(h) # "finished"
  BY <1>1, TokenAt DEF Received, HandedOff, Progress
<1> QED BY <1>1, <1>2 DEF MayAdmit, ReservedTold, RestTold, On

\* The input is adopted, or kept in reserve.
LEMMA AdmitKeeps ==
  ASSUME SupplyInv, NEW d \in Inputs, Admit(d), UNCHANGED capacity
  PROVE  SupplyInv'
<1>1. /\ pc[d] = "ack" /\ Running(d[1]) /\ d \in Slots /\ d[1] \in Consumers /\ d[1] \in Processes
      /\ d[2] \in InitialRoles \cup {"R"} /\ d = <<d[1], d[2]>> /\ "R" \notin InitialRoles
      /\ binding[d] \in Slots /\ ConsumerStands(d[1])
  BY InputAt, InputNames DEF Admit
<1>2. PICK h \in Tokens :
      /\ h = TransferOf(d) /\ InputOf(h) = d /\ ConsumerOf(h) = d[1] /\ Progress(h) = "acknowledged"
      /\ Claimed(h) /\ MayAdmit(d, h) /\ HandedOff(h) /\ Acknowledged(h)
      /\ \A t \in Tokens : InputOf(t) = d /\ Claimed(t) /\ Progress(t) # "finished" => t = h
  <2>1. PICK h \in Tokens :
        /\ h = TransferOf(d) /\ InputOf(h) = d /\ ConsumerOf(h) = d[1] /\ Progress(h) \in Received
        /\ Claimed(h)
        /\ \A t \in Tokens : InputOf(t) = d /\ Claimed(t) /\ Progress(t) # "finished" => t = h
    BY <1>1, TransferIs
  <2>2. Acknowledged(h) /\ MayAdmit(d, h)
    BY <2>1 DEF Admit
  <2> QED BY <2>1, <2>2 DEF Received, Acknowledged, HandedOff, Progress
<1>3. /\ UNCHANGED <<status, round, binding, carrier, waiting, shelf, demands, lease, broken, capacity>>
      /\ Goto(d, "got")
  BY DEF Admit
<1>4. /\ token' \in [Tokens -> [status : {"absent", "offered", "reserved", "consumed", "discarded"},
                           on : Slots \cup {None}, epoch : Nat, consumer : Consumers \cup {None}]]
      /\ \A t \in Tokens : /\ t # h => token'[t] = token[t]
                           /\ On(t)' = On(t) /\ token'[t].epoch = token[t].epoch
                           /\ token'[t].consumer = token[t].consumer
      /\ token[h].status = "reserved"
      /\ token'[h].status = IF d[2] = "R" THEN "reserved" ELSE "consumed"
  <2>1. /\ token \in [Tokens -> [status : {"absent", "offered", "reserved", "consumed", "discarded"},
                           on : Slots \cup {None}, epoch : Nat, consumer : Consumers \cup {None}]]
        /\ token' = IF d[2] = "R" THEN token ELSE [token EXCEPT ![h].status = "consumed"]
        /\ token[h].status = "reserved"
    BY <1>2 DEF Admit, SupplyInv, Shapes, MayAdmit
  <2>2. CASE d[2] = "R"
    BY <2>1, <2>2 DEF On
  <2>3. CASE d[2] # "R"
    BY <2>1, <2>3 DEF On
  <2> QED BY <2>2, <2>3
<1>5. /\ transfer' \in [Tokens -> [progress : Progresses, input : Inputs \cup {None},
                                   replacement : Slots \cup {None}]]
      /\ \A t \in Tokens : /\ InputOf(t)' = InputOf(t) /\ ConsumerOf(t)' = ConsumerOf(t)
                           /\ transfer'[t].replacement = transfer[t].replacement
                           /\ Progress(t)' = IF t = h THEN "finished" ELSE Progress(t)
                           /\ (Claimed(t)' <=> Claimed(t))
                           /\ (Acknowledged(t)' <=> Acknowledged(t))
                           /\ (HandedOff(t)' <=> HandedOff(t))
                           /\ t # h => transfer'[t] = transfer[t]
  <2>1. /\ transfer \in [Tokens -> [progress : Progresses, input : Inputs \cup {None},
                                   replacement : Slots \cup {None}]]
        /\ transfer' = [transfer EXCEPT ![h].progress = "finished"]
    BY <1>2 DEF Admit, SupplyInv, Shapes
  <2> QED BY <1>2, <2>1
          DEF Progress, InputOf, ConsumerOf, Claimed, HandedOff, Acknowledged, Progresses
<1>6. /\ DOMAIN pc' = Fibers /\ pc'[d] = "got"
      /\ \A f \in Fibers : f # d => pc'[f] = pc[f]
      /\ \A q \in Producers : pc'[Out(q)] = pc[Out(q)]
      /\ \A e \in Consumers : pc'[MainOf(e)] = pc[MainOf(e)]
      /\ \A e \in Inputs : e # d => pc'[e] = pc[e]
      /\ \A f \in Outputs : pc'[f] \in OutputPlaces
      /\ \A f \in Inputs : pc'[f] \in InputPlaces
      /\ \A f \in Mains : pc'[f] \in MainPlaces
  <2>1. "got" \in InputPlaces
    BY DEF InputPlaces
  <2> QED BY <1>3, <2>1, InputMoves
<1>7. /\ \A q \in Processes : Running(q)' <=> Running(q)
      /\ DownstreamDone' <=> DownstreamDone
      /\ \A q \in Producers : Current(q)' = Current(q)
  BY <1>3 DEF Running, DownstreamDone, Current
<1>8. lease # h
  BY <1>2 DEF SupplyInv, Leased, Underway
<1>9. Shapes'
  BY <1>3, <1>4, <1>5, <1>6 DEF SupplyInv, Shapes
<1>10. EndsMet'
  <2>1. \A f \in Fibers : f[1] \in Processes
    BY FiberKinds
  <2> QED BY <1>1, <1>6, <1>7, <2>1 DEF SupplyInv, EndsMet
<1>11. Bound' /\ Sited'
  BY <1>3, <1>5, <1>8 DEF SupplyInv, Bound, Sited, Site, Shapes
<1>12. Leased' /\ LostUnderLease'
  BY <1>2, <1>3, <1>5 DEF SupplyInv, Leased, LostUnderLease, Underway, Received
<1>13. InputsStand'
  <2> SUFFICES ASSUME NEW e \in Inputs PROVE InputStands(e)'
    BY DEF InputsStand
  <2>1. InputStands(e) /\ lease \in Tokens \cup {None}
    BY DEF SupplyInv, InputsStand, Shapes
  <2>2. CASE e = d
    <3>1. \A t \in Tokens : InputOf(t)' = d => Progress(t)' \in {"none", "finished"}
      BY <1>2, <1>5 DEF Claimed, Progress
    <3> QED BY <1>6, <2>2, <3>1 DEF InputStands
  <2>3. CASE e # d
    BY <1>2, <1>3, <1>5, <1>6, <1>8, <2>1, <2>3 DEF InputStands
  <2> QED BY <2>2, <2>3
<1>14. ASSUME NEW t \in Tokens
       PROVE  OfferedTold(t)' /\ ReservedTold(t)' /\ RestTold(t)' /\ InStep(t)'
  <2>1. /\ OfferedTold(t) /\ ReservedTold(t) /\ RestTold(t) /\ InStep(t)
        /\ t[1] \in Producers /\ t[1] \in Processes
        /\ Claimed(t) => /\ InputOf(t) \in Inputs
                         /\ ConsumerOf(t) \in Processes /\ ConsumerOf(t) \in Consumers
    BY TokenAt
  <2>2. OfferedTold(t)'
    <3>1. token'[t].status = "offered" => t # h
      BY <1>4
    <3> QED BY <1>3, <1>4, <1>5, <1>6, <1>7, <2>1, <3>1 DEF OfferedTold
  <2>3. ReservedTold(t)'
    <3> SUFFICES ASSUME token'[t].status = "reserved" PROVE ReservedTold(t)'
      BY DEF ReservedTold
    <3>1. CASE t = h
      <4>1. d[2] = "R" /\ pc[MainOf(d[1])] = "rotate"
        BY <1>1, <1>4, <3>1 DEF ConsumerStands
      <4> QED BY <1>1, <1>2, <1>3, <1>4, <1>5, <1>6, <1>7, <1>8, <2>1, <3>1, <4>1 DEF ReservedTold
    <3>2. CASE t # h
      BY <1>1, <1>3, <1>4, <1>5, <1>6, <1>7, <2>1, <3>2 DEF ReservedTold
    <3> QED BY <3>1, <3>2
  <2>4. RestTold(t)'
    BY <1>4, <1>5, <1>7, <2>1 DEF RestTold
  <2>5. InStep(t)'
    BY <1>2, <1>3, <1>5, <1>6, <1>7, <2>1 DEF InStep
  <2> QED BY <2>2, <2>3, <2>4, <2>5
<1>15. TokensTold' /\ DeliveriesInStep'
  BY <1>14 DEF TokensTold, DeliveriesInStep
<1>16. ProducersStand'
  <2> SUFFICES ASSUME NEW q \in Producers PROVE ProducerStands(q)'
    BY DEF ProducersStand
  <2>1. ProducerStands(q) /\ q \in Processes
    BY ProducerAt, OutputNames
  <2>2. pc[Out(q)] = "deliver" => Progress(lease)' = Progress(lease)
    <3>1. pc[Out(q)] = "deliver" => lease \in Tokens /\ lease' = lease
      BY <1>3, <2>1, ProducerAt DEF ProducerStands
    <3> QED BY <1>5, <1>8, <3>1 DEF Progress
  <2>3. \A u \in Tokens : u # h \/ token[u].status \notin {"absent", "offered"}
    BY <1>4
  <2> QED BY <1>3, <1>4, <1>5, <1>6, <2>1, <2>2, <2>3, SameProducer
<1>17. ShelfInv' /\ OneLive'
  <2>1. \A t \in Tokens : Live(t)' => Live(t)
    BY <1>4 DEF Live
  <2>2. Range(shelf) \subseteq Tokens
    BY ShelfParts DEF SupplyInv
  <2>3. OneLive'
    BY <1>4, <2>1 DEF SupplyInv, OneLive
  <2>4. ShelfInv'
    BY <1>3, <1>4, <2>2 DEF SupplyInv, ShelfInv
  <2> QED BY <2>3, <2>4
<1>18. ASSUME NEW e \in Consumers, e # d[1] PROVE ConsumerStands(e)'
  <2>1. ConsumerStands(e) /\ pc'[MainOf(e)] = pc[MainOf(e)]
    BY <1>6 DEF SupplyInv, ConsumersStand
  <2>2. \A r \in InitialRoles \cup {"R"} : pc'[<<e, r>>] = pc[<<e, r>>] /\ <<e, r>> # d
    BY <1>1, <1>6, <1>18, InputNames
  <2> QED BY <1>2, <1>3, <1>4, <1>5, <2>1, <2>2, SameConsumer
<1>19. ConsumerStands(d[1])'
  <2> DEFINE c == d[1]
  <2>1. carrier[binding[d]].owner = c
    BY <1>2 DEF MayAdmit
  <2>2. pc'[MainOf(c)] = pc[MainOf(c)]
    BY <1>1, <1>6
  <2>3. CASE d[2] = "R"
    <3>1. pc[MainOf(c)] = "rotate" /\ d = <<c, "R">>
      BY <1>1, <2>3 DEF ConsumerStands
    <3>2. \A r \in InitialRoles : pc'[<<c, r>>] = pc[<<c, r>>]
      BY <1>1, <1>6, InputNames, <3>1
    <3>3. \E t \in Tokens : /\ token'[t].status = "reserved" /\ InputOf(t)' = d
                            /\ Progress(t)' = "finished"
      BY <1>2, <1>4, <1>5, <2>3
    <3> QED BY <1>1, <1>3, <1>6, <2>1, <2>2, <3>1, <3>2, <3>3 DEF ConsumerStands
  <2>4. CASE d[2] # "R"
    <3>1. d[2] \in InitialRoles /\ d = <<c, d[2]>> /\ d # <<c, "R">>
      BY <1>1, <2>4
    <3>2. \A r \in InitialRoles : pc'[<<c, r>>] = IF r = d[2] THEN "got" ELSE pc[<<c, r>>]
      BY <1>1, <1>6, InputNames, <3>1
    <3>3. pc'[<<c, "R">>] = pc[<<c, "R">>]
      BY <1>1, <1>6, InputNames, <3>1
    <3>4. \A t \in Tokens : InputOf(t) = <<c, "R">> => t # h
      BY <1>2, <3>1
    <3>5. (\E t \in Tokens : /\ token[t].status = "reserved" /\ InputOf(t) = <<c, "R">>
                             /\ Progress(t) = "finished")
          => \E t \in Tokens : /\ token'[t].status = "reserved" /\ InputOf(t)' = <<c, "R">>
                               /\ Progress(t)' = "finished"
      BY <1>4, <1>5, <3>4
    <3> QED BY <1>1, <1>3, <2>1, <2>2, <3>1, <3>2, <3>3, <3>5 DEF ConsumerStands
  <2> QED BY <2>3, <2>4
<1>20. ConsumersStand'
  BY <1>18, <1>19 DEF ConsumersStand
<1> QED BY <1>9, <1>10, <1>11, <1>12, <1>13, <1>15, <1>16, <1>17, <1>20 DEF SupplyInv

\* An input fiber gives up when no delivery of its process can be under way, or
\* when one was lost.
LEMMA GiveUpKeeps ==
  ASSUME SupplyInv, NEW d \in Inputs, GiveUp(d), UNCHANGED capacity
  PROVE  SupplyInv'
<1> DEFINE c == d[1]
<1>1. {c} \in SUBSET Processes /\ c \notin Producers
  BY InputAt, MainNames
<1>2. PICK entries \in {shelf, Reaped} :
      Fail({c}, entries) /\ (broken \/ \A p \in Producers : ~Running(p))
  BY DEF GiveUp, Exhausted
<1>3. entries \in Seq(Tokens) /\ Range(entries) \subseteq Range(shelf)
  BY ShelfParts DEF SupplyInv, Shapes
<1>4. ASSUME ~broken, NEW t \in Tokens PROVE ~Cut(t, {c}) /\ t[1] \notin {c}
  <2>1. t[1] # c /\ ~Running(t[1]) /\ InStep(t)
    BY <1>1, <1>2, <1>4, TokenAt
  <2> QED BY <1>4, <2>1 DEF Cut, InStep, Progress
<1> QED BY <1>1, <1>2, <1>3, <1>4, FailKeeps

\* An input fiber loses its delivery only after one was lost.
LEMMA LoseInputKeeps ==
  ASSUME SupplyInv, NEW d \in Inputs, LoseInput(d), UNCHANGED capacity
  PROVE  SupplyInv' /\ broken
<1>1. broken
  <2>1. SUFFICES ASSUME ~broken PROVE FALSE
    OBVIOUS
  <2>2. CASE pc[d] = "parked" /\ PeersLost(lease)
    <3>1. /\ lease \in Tokens /\ Claimed(lease) /\ Progress(lease) # "finished" /\ InStep(lease)
      BY <2>2, LeaseOf, TokenAt DEF Underway
    <3> QED BY <2>1, <2>2, <3>1 DEF InStep, PeersLost
  <2>3. CASE pc[d] = "handoff" /\ ~MayHandOff(d)
    BY <2>3, HandOffMay
  <2>4. CASE /\ pc[d] = "ack" /\ Wakes(d)
             /\ LET t == TransferOf(d) IN PeersLost(t) \/ ~Acknowledged(t) \/ ~MayAdmit(d, t)
    <3>1. PICK t \in Tokens : /\ t = TransferOf(d) /\ Claimed(t) /\ Progress(t) # "finished"
      BY <2>4, TransferIs DEF Received
    <3>2. Running(t[1]) /\ Running(ConsumerOf(t))
      BY <2>1, <3>1, TokenAt DEF InStep
    <3> QED BY <2>1, <2>4, <3>1, <3>2, AdmitMay DEF PeersLost, Wakes
  <2> QED BY <2>2, <2>3, <2>4 DEF LoseInput
<1>2. {d[1]} \in SUBSET Processes /\ shelf \in Seq(Tokens) /\ Fail({d[1]}, shelf)
  BY InputAt DEF LoseInput, SupplyInv, Shapes
<1> QED BY <1>1, <1>2, FailKeeps

-----------------------------------------------------------------------------
(* Consumers.                                                                *)

\* The inputs have arrived.
LEMMA GatherKeeps ==
  ASSUME SupplyInv, NEW c \in Consumers, Gather(c), UNCHANGED capacity
  PROVE  SupplyInv'
<1> DEFINE m == MainOf(c)
<1>1. /\ UNCHANGED <<status, round, binding, carrier, token, transfer, lease, broken, capacity,
                     waiting, shelf, demands>>
      /\ \/ /\ pc[m] = "prepare" /\ \A r \in InitialRoles : pc[<<c, r>>] = "got"
            /\ Goto(m, "inputs_ready")
         \/ /\ pc[m] = "rotate" /\ pc[<<c, "R">>] = "got" /\ Goto(m, "raw_prepared")
  BY DEF Gather, Gathered, inventory, MainOf
<1>2. PICK place \in {"inputs_ready", "raw_prepared"} :
      /\ DOMAIN pc' = Fibers /\ pc'[m] = place /\ pc[m] # "end"
      /\ place = "inputs_ready" => pc[m] = "prepare" /\ \A r \in InitialRoles : pc[<<c, r>>] = "got"
      /\ place = "raw_prepared" => pc[m] = "rotate" /\ pc[<<c, "R">>] = "got"
      /\ \A f \in Fibers : f # m => pc'[f] = pc[f]
      /\ \A e \in Consumers : e # c => pc'[MainOf(e)] = pc[MainOf(e)]
      /\ \A p \in Producers : pc'[Out(p)] = pc[Out(p)]
      /\ \A e \in Inputs : pc'[e] = pc[e]
      /\ \A f \in Outputs : pc'[f] = pc[f]
  <2>1. /\ \A e \in Consumers : e # c => MainOf(e) \in Fibers /\ MainOf(e) # m
        /\ \A p \in Producers : Out(p) \in Fibers /\ Out(p) # m
        /\ \A e \in Inputs : e \in Fibers /\ e # m
        /\ \A f \in Outputs : f \in Fibers /\ f # m
        /\ m \in Fibers
    BY MainNames, OutputNames, InputNames
  <2>2. DOMAIN pc = Fibers
    BY DEF SupplyInv, Shapes
  <2> QED BY <1>1, <2>1, <2>2 DEF Goto
<1>3. /\ \A q \in Processes : Running(q)' <=> Running(q)
      /\ DownstreamDone' <=> DownstreamDone
      /\ \A q \in Producers : Current(q)' = Current(q)
      /\ \A t : On(t)' = On(t) /\ (Live(t)' <=> Live(t))
  BY <1>1 DEF Running, DownstreamDone, Current, On, Live
<1>4. Shapes'
  <2>1. \A f \in Mains : pc'[f] \in MainPlaces
    BY <1>2, MainNames DEF SupplyInv, Shapes, MainPlaces
  <2> QED BY <1>1, <1>2, <2>1 DEF SupplyInv, Shapes
<1>5. EndsMet'
  <2>1. \A f \in Fibers : f[1] \in Processes
    BY FiberKinds
  <2> QED BY <1>2, <1>3, <2>1 DEF SupplyInv, EndsMet
<1>6. Bound' /\ Sited' /\ Leased' /\ LostUnderLease' /\ OneLive' /\ ShelfInv'
  BY <1>1, <1>3, SameDeliveries
     DEF SupplyInv, Bound, Sited, Site, Leased, LostUnderLease, OneLive, ShelfInv
<1>7. InputsStand'
  <2> SUFFICES ASSUME NEW e \in Inputs PROVE InputStands(e)'
    BY DEF InputsStand
  <2>1. InputStands(e)
    BY DEF SupplyInv, InputsStand
  <2> QED BY <1>1, <1>2, <2>1, SameDeliveries DEF InputStands
<1>8. TokensTold' /\ DeliveriesInStep'
  <2> SUFFICES ASSUME NEW t \in Tokens
               PROVE  OfferedTold(t)' /\ ReservedTold(t)' /\ RestTold(t)' /\ InStep(t)'
    BY DEF TokensTold, DeliveriesInStep
  <2>1. /\ OfferedTold(t) /\ ReservedTold(t) /\ RestTold(t) /\ InStep(t)
        /\ t[1] \in Producers /\ t[1] \in Processes
        /\ Claimed(t) => /\ InputOf(t) \in Inputs /\ ConsumerOf(t) \in Processes
                         /\ ConsumerOf(t) \in Consumers
    BY TokenAt
  <2>2. OfferedTold(t)'
    BY <1>1, <1>2, <1>3, <2>1, SameDeliveries DEF OfferedTold
  <2>3. ReservedTold(t)'
    BY <1>1, <1>2, <1>3, <2>1, SameDeliveries DEF ReservedTold
  <2>4. RestTold(t)'
    BY <1>1, <1>3, <2>1, SameDeliveries DEF RestTold
  <2>5. InStep(t)'
    BY <1>1, <1>2, <1>3, <2>1, SameDeliveries DEF InStep
  <2> QED BY <2>2, <2>3, <2>4, <2>5
<1>9. ProducersStand'
  <2> SUFFICES ASSUME NEW p \in Producers PROVE ProducerStands(p)'
    BY DEF ProducersStand
  <2>1. p \in Processes
    BY OutputNames
  <2> QED BY <1>1, <1>2, <1>3, <2>1, SameProducer, SameDeliveries
<1>10. ConsumersStand'
  <2> SUFFICES ASSUME NEW e \in Consumers PROVE ConsumerStands(e)'
    BY DEF ConsumersStand
  <2>1. /\ ConsumerStands(e)
        /\ \A r \in InitialRoles \cup {"R"} : pc'[<<e, r>>] = pc[<<e, r>>]
    BY <1>2, InputNames DEF SupplyInv, ConsumersStand
  <2>2. CASE e # c
    BY <1>1, <1>2, <2>1, <2>2, SameConsumer, SameDeliveries
  <2>3. CASE e = c
    BY <1>1, <1>2, <2>1, <2>3, SameDeliveries DEF ConsumerStands
  <2> QED BY <2>2, <2>3
<1> QED BY <1>4, <1>5, <1>6, <1>7, <1>8, <1>9, <1>10 DEF SupplyInv

\* When a batch is decided its consumer has no delivery open and no token left.
LEMMA DecidedAlone ==
  ASSUME SupplyInv, NEW c \in Consumers, pc[MainOf(c)] = "decided"
  PROVE  /\ Running(c) /\ c \in Processes /\ c # None
         /\ \A r \in InitialRoles : pc[<<c, r>>] = "got"
         /\ pc[<<c, "R">>] \in {"idle", "got", "end"}
         /\ \A t \in Tokens : Claimed(t) /\ ConsumerOf(t) = c =>
              Progress(t) = "finished" /\ token[t].status # "reserved"
<1>1. Running(c) /\ c \in Processes /\ c # None
  BY MainNames DEF SupplyInv, EndsMet
<1>2. /\ \A r \in InitialRoles : pc[<<c, r>>] = "got"
      /\ pc[<<c, "R">>] \in {"idle", "got", "end"}
  BY DEF SupplyInv, ConsumersStand, ConsumerStands
<1>3. \A r \in InitialRoles \cup {"R"} : pc[<<c, r>>] \in {"idle", "got"}
  <2>1. pc[<<c, "R">>] # "end"
    BY <1>1, InputNames DEF SupplyInv, EndsMet
  <2> QED BY <1>2, <2>1
<1>4. ASSUME NEW t \in Tokens, Claimed(t), ConsumerOf(t) = c
      PROVE  Progress(t) = "finished" /\ token[t].status # "reserved"
  <2>1. /\ InputOf(t) \in Inputs /\ InputOf(t)[1] = c /\ ReservedTold(t)
        /\ Progress(t) # "none"
    BY <1>4, TokenAt
  <2>2. pc[InputOf(t)] \in {"idle", "got"}
    <3>1. InputOf(t) = <<c, InputOf(t)[2]>> /\ InputOf(t)[2] \in InitialRoles \cup {"R"}
      BY <2>1, InputNames
    <3> QED BY <1>3, <3>1
  <2>3. Progress(t) = "finished"
    BY <2>1, <2>2, InputAt DEF InputStands
  <2> QED BY <1>4, <2>1, <2>3 DEF ReservedTold
<1> QED BY <1>1, <1>2, <1>4

\* A consumer whose batch is decided may end or start over and let its carriers go.
LEMMA RetireFrame ==
  ASSUME SupplyInv, NEW c \in Consumers, pc[MainOf(c)] = "decided", NEW roles,
         roles \subseteq InitialRoles \cup {"R"}, carrier' = Freed(roles, c),
         UNCHANGED <<binding, token, transfer, lease, broken, capacity, waiting, shelf, demands>>,
         DOMAIN pc' = Fibers,
         \A f \in Fibers : f[1] # c => pc'[f] = pc[f],
         \A d \in Inputs : d[1] = c => pc'[d] \in {"idle", "ask", "end"},
         pc'[MainOf(c)] \in MainPlaces,
         status' \in [Processes -> {"running", "complete", "failed"}],
         \A q \in Processes : q # c => status'[q] = status[q],
         round' \in [Processes -> Nat],
         \A q \in Processes : q # c => round'[q] = round[q],
         \A f \in Fibers : f[1] = c => (pc'[f] = "end" <=> ~Running(c)'),
         ConsumerStands(c)'
  PROVE  SupplyInv'
<1>1. /\ Running(c) /\ c \in Processes /\ c # None /\ ~DownstreamDone
      /\ \A t \in Tokens : Claimed(t) /\ ConsumerOf(t) = c =>
              Progress(t) = "finished" /\ token[t].status # "reserved"
  BY DecidedAlone DEF DownstreamDone
<1>2. /\ \A f \in Outputs : f \in Fibers /\ f[1] # c
      /\ \A p \in Producers : p # c /\ p \in Processes /\ Out(p) \in Fibers /\ Out(p)[1] = p
      /\ \A d \in Inputs : d \in Fibers
      /\ \A e \in Consumers : MainOf(e) \in Fibers /\ MainOf(e)[1] = e
      /\ \A f \in Mains : f \in Fibers /\ (f[1] = c => f = MainOf(c))
  BY OutputNames, InputNames, MainNames
<1>3. /\ \A p \in Producers : pc'[Out(p)] = pc[Out(p)] /\ Current(p)' = Current(p)
      /\ \A q \in Processes : q # c => (Running(q)' <=> Running(q))
      /\ \A d \in Inputs : d[1] # c => pc'[d] = pc[d]
      /\ \A e \in Consumers : e # c => pc'[MainOf(e)] = pc[MainOf(e)]
      /\ \A t : On(t)' = On(t) /\ (Live(t)' <=> Live(t))
  BY <1>2 DEF Current, Running, On, Live
<1>4. /\ carrier' \in [Slots -> [owner : Processes \cup {None}, epoch : Nat,
                            place : Slots \cup {Parking}]]
      /\ \A x \in Slots : /\ carrier'[x].epoch = carrier[x].epoch
                          /\ carrier'[x].place = carrier[x].place
                          /\ carrier'[x].owner \in {carrier[x].owner, None}
      /\ \A s \in Slots : s[1] # c \/ s \in Outputs =>
           carrier'[binding[s]].owner = carrier[binding[s]].owner
  <2>1. /\ carrier \in [Slots -> [owner : Processes \cup {None}, epoch : Nat,
                            place : Slots \cup {Parking}]]
        /\ binding \in [Slots -> Slots]
    BY DEF SupplyInv, Shapes
  <2>2. ASSUME NEW s \in Slots, s[1] # c \/ s \in Outputs
        PROVE  carrier'[binding[s]] = carrier[binding[s]]
    <3>1. \A r \in roles : <<c, r>> \in Slots /\ <<c, r>> # s
      BY <1>2, <2>2, InputNames
    <3>2. \A r \in roles : binding[<<c, r>>] # binding[s]
      BY <3>1 DEF SupplyInv, Bound
    <3> QED BY <2>1, <3>2 DEF Freed
  <2>3. /\ \A x \in Slots : carrier'[x] \in {carrier[x], [carrier[x] EXCEPT !.owner = None]}
        /\ DOMAIN carrier' = Slots /\ carrier' = [x \in Slots |-> carrier'[x]]
    BY <2>1 DEF Freed
  <2> QED BY <2>1, <2>2, <2>3
<1>5. ASSUME NEW t \in Tokens, Live(t)
      PROVE  carrier'[On(t)].owner = carrier[On(t)].owner
  <2>1. /\ OfferedTold(t) /\ ReservedTold(t) /\ Out(t[1]) \in Slots /\ Out(t[1]) \in Outputs
        /\ Claimed(t) => /\ InputOf(t) \in Slots /\ InputOf(t) \in Inputs
                         /\ ConsumerOf(t) = InputOf(t)[1]
    BY TokenAt, OutputNames
  <2>2. CASE token[t].status = "offered"
    BY <1>4, <2>1, <2>2 DEF OfferedTold
  <2>3. CASE token[t].status = "reserved"
    <3>1. Claimed(t) /\ InputOf(t)[1] # c
      BY <1>1, <2>1, <2>3 DEF ReservedTold
    <3>2. On(t) \in {binding[InputOf(t)], binding[Out(t[1])]}
      <4>1. HandedOff(t) \/ lease = t
        BY <3>1, TokenAt DEF SupplyInv, Leased, HandedOff, Progresses, Received, Claimed, Progress
      <4> QED BY <2>1, <2>3, <4>1 DEF ReservedTold
    <3> QED BY <1>4, <2>1, <3>1, <3>2
  <2> QED BY <1>5, <2>2, <2>3 DEF Live
<1>6. Shapes'
  <2>1. /\ \A f \in Outputs : pc'[f] \in OutputPlaces
        /\ \A f \in Mains : pc'[f] \in MainPlaces
    BY <1>2 DEF SupplyInv, Shapes
  <2>2. \A d \in Inputs : pc'[d] \in InputPlaces
    BY <1>3 DEF SupplyInv, Shapes, InputPlaces
  <2>3. \A p \in Producers : round'[p] =< MaxCycles
    BY <1>2 DEF SupplyInv, Shapes
  <2> QED BY <1>4, <2>1, <2>2, <2>3 DEF SupplyInv, Shapes
<1>7. EndsMet'
  <2>1. \A f \in Fibers : f[1] \in Processes
    BY FiberKinds
  <2> QED BY <1>3, <2>1 DEF SupplyInv, EndsMet
<1>8. Bound' /\ Sited' /\ Leased' /\ LostUnderLease' /\ OneLive' /\ ShelfInv'
  <2>1. Sited'
    BY <1>4, SameDeliveries DEF SupplyInv, Sited, Site, Shapes
  <2>2. Leased'
    BY SameDeliveries DEF SupplyInv, Leased
  <2>3. Bound' /\ OneLive' /\ LostUnderLease'
    BY <1>3, SameDeliveries DEF SupplyInv, Bound, OneLive, LostUnderLease
  <2>4. ShelfInv'
    BY <1>3, <1>4 DEF SupplyInv, ShelfInv
  <2> QED BY <2>1, <2>2, <2>3, <2>4
<1>9. InputsStand'
  <2> SUFFICES ASSUME NEW e \in Inputs PROVE InputStands(e)'
    BY DEF InputsStand
  <2>1. InputStands(e)
    BY DEF SupplyInv, InputsStand
  <2>2. CASE e[1] # c
    BY <1>3, <2>1, <2>2, SameDeliveries DEF InputStands
  <2>3. CASE e[1] = c
    <3>1. \A t \in Tokens : InputOf(t) = e => Progress(t) \in {"none", "finished"}
      BY <1>1, <2>3, TokenAt
    <3> QED BY <2>3, <3>1, SameDeliveries DEF InputStands
  <2> QED BY <2>2, <2>3
<1>10. TokensTold' /\ DeliveriesInStep'
  <2> SUFFICES ASSUME NEW t \in Tokens
               PROVE  OfferedTold(t)' /\ ReservedTold(t)' /\ RestTold(t)' /\ InStep(t)'
    BY DEF TokensTold, DeliveriesInStep
  <2>1. /\ OfferedTold(t) /\ ReservedTold(t) /\ RestTold(t) /\ InStep(t)
        /\ t[1] \in Producers /\ t[1] \in Processes /\ t[1] # c
        /\ Out(t[1]) \in Slots /\ Out(t[1]) \in Outputs
        /\ Claimed(t) => /\ InputOf(t) \in Inputs /\ ConsumerOf(t) \in Processes
                         /\ ConsumerOf(t) \in Consumers /\ ConsumerOf(t) = InputOf(t)[1]
                         /\ InputOf(t) \in Slots
    BY <1>2, TokenAt, OutputNames
  <2>2. OfferedTold(t)'
    <3> SUFFICES ASSUME token[t].status = "offered" PROVE OfferedTold(t)'
      BY DEF OfferedTold
    <3>1. On(t) \in Slots /\ Live(t)
      BY <2>1, TokenAt DEF OfferedTold, Live
    <3> QED BY <1>1, <1>3, <1>4, <1>5, <2>1, <3>1, SameDeliveries DEF OfferedTold
  <2>3. ReservedTold(t)'
    <3> SUFFICES ASSUME token[t].status = "reserved" PROVE ReservedTold(t)'
      BY DEF ReservedTold
    <3>1. Live(t) /\ Claimed(t) /\ ConsumerOf(t) # c /\ On(t) \in Slots
      BY <1>1, <2>1 DEF Live, ReservedTold
    <3> QED BY <1>3, <1>4, <1>5, <2>1, <3>1, SameDeliveries DEF ReservedTold
  <2>4. RestTold(t)'
    BY <1>1, <1>3, <2>1, SameDeliveries DEF RestTold
  <2>5. InStep(t)'
    BY <1>1, <1>3, <2>1, SameDeliveries DEF InStep
  <2> QED BY <2>2, <2>3, <2>4, <2>5
<1>11. ProducersStand'
  <2> SUFFICES ASSUME NEW p \in Producers PROVE ProducerStands(p)'
    BY DEF ProducersStand
  <2>1. carrier'[binding[Out(p)]].owner = carrier[binding[Out(p)]].owner
    BY <1>4, OutputNames
  <2> QED BY <1>2, <1>3, <2>1, SameProducer, SameDeliveries
<1>12. ConsumersStand'
  <2> SUFFICES ASSUME NEW e \in Consumers, e # c PROVE ConsumerStands(e)'
    BY DEF ConsumersStand
  <2>1. ConsumerStands(e) /\ pc'[MainOf(e)] = pc[MainOf(e)]
    BY <1>3 DEF SupplyInv, ConsumersStand
  <2>2. \A r \in InitialRoles \cup {"R"} :
          /\ pc'[<<e, r>>] = pc[<<e, r>>]
          /\ carrier'[binding[<<e, r>>]].owner = carrier[binding[<<e, r>>]].owner
    BY <1>3, <1>4, InputNames
  <2> QED BY <2>1, <2>2, SameConsumer, SameDeliveries
<1> QED BY <1>6, <1>7, <1>8, <1>9, <1>10, <1>11, <1>12 DEF SupplyInv

\* The batch is accepted.
LEMMA AcceptKeeps ==
  ASSUME SupplyInv, NEW c \in Consumers, Accept(c), UNCHANGED capacity
  PROVE  SupplyInv'
<1>1. /\ pc[MainOf(c)] = "decided" /\ carrier' = Freed(InitialRoles \cup {"R"}, c)
      /\ UNCHANGED <<binding, token, transfer, lease, broken, capacity, waiting, shelf, demands, round>>
      /\ Complete(c)
  BY DEF Accept, inventory, MainOf
<1>2. /\ status \in [Processes -> {"running", "complete", "failed"}] /\ c \in Processes
      /\ round \in [Processes -> Nat]
  BY MainNames DEF SupplyInv, Shapes
<1>3. /\ DOMAIN pc' = Fibers
      /\ \A f \in Fibers : pc'[f] = IF f[1] = c THEN "end" ELSE pc[f]
      /\ status' \in [Processes -> {"running", "complete", "failed"}]
      /\ \A q \in Processes : q # c => status'[q] = status[q]
      /\ ~Running(c)'
  BY <1>1, <1>2 DEF Complete, Running
<1>4. /\ \A d \in Inputs : d[1] = c => pc'[d] = "end"
      /\ \A r \in InitialRoles \cup {"R"} : pc'[<<c, r>>] = "end"
      /\ pc'[MainOf(c)] = "end"
  <2>1. \A r \in InitialRoles \cup {"R"} : <<c, r>> \in Fibers
    BY InputNames
  <2> QED BY <1>3, <2>1, InputNames, MainNames
<1>5. ConsumerStands(c)'
  BY <1>4 DEF ConsumerStands
<1> QED BY <1>1, <1>2, <1>3, <1>4, <1>5, RetireFrame DEF MainPlaces

\* A rejected batch starts over.
LEMMA RejectKeeps ==
  ASSUME SupplyInv, NEW c \in Consumers, Reject(c), UNCHANGED capacity
  PROVE  SupplyInv'
<1>1. /\ pc[MainOf(c)] = "decided" /\ carrier' = Freed(InitialRoles, c)
      /\ UNCHANGED <<binding, token, transfer, lease, broken, capacity, waiting, shelf, demands, status>>
      /\ round' = [round EXCEPT ![c] = @ + 1]
      /\ pc' = [f \in Fibers |-> IF f[1] # c THEN pc[f] ELSE IF f[2] = "main" THEN "local"
                             ELSE IF f[2] = "R" THEN "idle" ELSE "ask"]
  BY DEF Reject, inventory, MainOf
<1>2. /\ c \in Processes /\ Running(c) /\ status \in [Processes -> {"running", "complete", "failed"}]
      /\ round \in [Processes -> Nat]
  BY <1>1, DecidedAlone DEF SupplyInv, Shapes
<1>3. /\ \A r \in InitialRoles : <<c, r>> \in Fibers /\ r \notin {"main", "R"}
      /\ <<c, "R">> \in Fibers /\ MainOf(c) \in Fibers /\ MainOf(c)[1] = c /\ MainOf(c)[2] = "main"
      /\ \A d \in Inputs : d \in Fibers /\ d[2] # "main"
  <2>1. \A r \in InitialRoles : r # "main" /\ r # "R"
    BY SupplyAssumption
  <2>2. \A d \in Inputs : d \in Fibers /\ d[2] \in InitialRoles \cup {"R"}
    BY InputNames
  <2>3. MainOf(c)[2] = "main"
    BY DEF MainOf
  <2> QED BY <2>1, <2>2, <2>3, InputNames, MainNames
<1>4. /\ DOMAIN pc' = Fibers
      /\ \A f \in Fibers : f[1] # c => pc'[f] = pc[f]
      /\ \A f \in Fibers : f[1] = c => pc'[f] \in {"local", "idle", "ask"}
      /\ \A d \in Inputs : d[1] = c => pc'[d] \in {"idle", "ask"}
      /\ pc'[MainOf(c)] = "local" /\ pc'[<<c, "R">>] = "idle"
      /\ \A r \in InitialRoles : pc'[<<c, r>>] = "ask"
  BY <1>1, <1>3
<1>5. /\ Running(c)' /\ round' \in [Processes -> Nat]
      /\ \A q \in Processes : q # c => round'[q] = round[q]
  BY <1>1, <1>2 DEF Running
<1>6. ConsumerStands(c)'
  BY <1>4 DEF ConsumerStands
<1>7. /\ status' \in [Processes -> {"running", "complete", "failed"}]
      /\ \A q \in Processes : status'[q] = status[q]
      /\ \A f \in Fibers : f[1] = c => (pc'[f] = "end" <=> ~Running(c)')
      /\ "local" \in MainPlaces /\ InitialRoles \subseteq InitialRoles \cup {"R"}
  BY <1>1, <1>2, <1>4, <1>5 DEF MainPlaces
<1> QED BY <1>1, <1>4, <1>5, <1>6, <1>7, RetireFrame

\* The last batch is rejected.
LEMMA RejectLastKeeps ==
  ASSUME SupplyInv, NEW c \in Consumers, RejectLast(c), UNCHANGED capacity
  PROVE  SupplyInv'
<1>1. /\ pc[MainOf(c)] = "decided" /\ Fail({c}, shelf) /\ {c} \in SUBSET Processes
      /\ shelf \in Seq(Tokens)
  BY MainNames DEF RejectLast, MainOf, SupplyInv, Shapes
<1>2. ASSUME NEW t \in Tokens PROVE ~Cut(t, {c}) /\ t[1] \notin {c}
  <2>1. t[1] # c
    BY TokenAt, MainNames
  <2> QED BY <1>1, <2>1, DecidedAlone DEF Cut, Progress
<1> QED BY <1>1, <1>2, FailKeeps

-----------------------------------------------------------------------------
(* The runtime.                                                              *)

\* When every fiber has settled nothing waits for its receipt.
LEMMA SettledQuiet ==
  ASSUME SupplyInv, Settled
  PROVE  /\ \A t \in Tokens : Progress(t) \notin Received
         /\ \A d \in Inputs : pc[d] \notin {"ask", "handoff", "ack"}
<1>1. \A f \in Fibers : ~Wakes(f) /\ pc[f] \notin {"cycle", "offer", "ask", "handoff", "decided"}
  BY DEF Settled, CanAdvance
<1>2. ASSUME NEW t \in Tokens, Progress(t) \in Received PROVE FALSE
  <2>1. ~broken /\ Claimed(t) /\ Progress(t) # "finished"
    BY <1>2 DEF SupplyInv, LostUnderLease, Received, Claimed, Progress
  <2>2. /\ pc[InputOf(t)] = "ack" /\ Running(t[1]) /\ t = Current(t[1])
        /\ InputOf(t) \in Inputs /\ InputOf(t) \in Fibers
        /\ Progress(t) = "handed_off" => pc[Out(t[1])] = "handshake"
        /\ Out(t[1]) \in Fibers /\ Out(t[1])[1] = t[1]
    BY <1>2, <2>1, TokenAt, InputNames, OutputNames DEF InStep, Received
  <2>3. CASE Progress(t) = "handed_off"
    <3>1. HandedOff(t)
      BY <2>3 DEF HandedOff, Progress
    <3>2. Wakes(Out(t[1]))
      BY <2>1, <2>2, <2>3, <3>1 DEF Wakes
    <3> QED BY <1>1, <2>2, <3>2
  <2>4. CASE Progress(t) = "acknowledged"
    <3>1. TransferOf(InputOf(t)) = t /\ Acknowledged(t)
      BY <2>1, <2>2, <2>4, TransferIs DEF Acknowledged, Progress
    <3>2. Wakes(InputOf(t))
      BY <2>2, <3>1 DEF Wakes
    <3> QED BY <1>1, <2>2, <3>2
  <2> QED BY <1>2, <2>3, <2>4 DEF Received
<1>3. \A d \in Inputs : d \in Fibers /\ (pc[d] = "ack" => \E t \in Tokens : Progress(t) \in Received)
  BY InputAt DEF InputStands
<1> QED BY <1>1, <1>2, <1>3

\* The run loop gives up.
LEMMA DeadlockKeeps ==
  ASSUME SupplyInv, Deadlock, UNCHANGED capacity
  PROVE  SupplyInv'
<1>1. /\ Settled /\ Fail({p \in Processes : Running(p)}, shelf)
      /\ {p \in Processes : Running(p)} \in SUBSET Processes /\ shelf \in Seq(Tokens)
  BY DEF Deadlock, Stuck, Ready, SupplyInv, Shapes
<1>2. /\ \A t \in Tokens : Progress(t) \notin Received
      /\ \A d \in Inputs : pc[d] \in {"replace", "handoff"} => d[1] \in {p \in Processes : Running(p)}
  BY <1>1, SettledQuiet, InputAt
<1>3. \A t \in Tokens : Progress(t) # "acknowledged"
  BY <1>2 DEF Received
<1> QED BY <1>1, <1>2, <1>3, FailKeeps

\* A wave that fails while a replacement is on its way fails the delivery's consumer
\* with it: the producer has nothing queued.
LEMMA MiscarryKeeps ==
  ASSUME SupplyInv, NEW calls \in SUBSET Queued, Miscarry(calls), UNCHANGED capacity
  PROVE  SupplyInv'
<1> DEFINE S == {f[1] : f \in calls}
<1>1. /\ Settled /\ Fail(S, shelf) /\ S \in SUBSET Processes /\ shelf \in Seq(Tokens)
  BY FiberKinds DEF Miscarry, Ready, SupplyInv, Shapes, Queued
<1>2. /\ \A t \in Tokens : Progress(t) \notin Received
      /\ \A d \in Inputs : pc[d] # "handoff"
  BY <1>1, SettledQuiet
<1>3. \A t \in Tokens : Progress(t) # "acknowledged"
  BY <1>2 DEF Received
<1>4. ASSUME ~broken, NEW t \in Tokens, Cut(t, S), NEW d \in Inputs, pc[d] = "replace"
      PROVE  d[1] \in S
  <2>1. /\ lease \in Tokens /\ InputOf(lease) = d /\ Progress(lease) = "delivered"
        /\ Claimed(lease) /\ ConsumerOf(lease) = d[1]
    BY <1>4, LeaseOf, InputAt DEF InputStands
  <2>2. t = lease
    <3>1. Claimed(t) /\ Progress(t) # "finished" /\ Progress(t) # "none"
      BY <1>4 DEF Cut, Acknowledged, Claimed, Progress
    <3>2. Progress(t) \in Underway
      BY <1>2, <3>1, TokenAt DEF Progresses
    <3> QED BY <3>2 DEF SupplyInv, Leased
  <2>3. lease[1] \notin S
    <3>1. pc[Out(lease[1])] = "handshake" /\ lease[1] \in Producers
      BY <1>4, <2>1, TokenAt DEF InStep
    <3>2. ASSUME NEW f \in calls, f[1] = lease[1] PROVE FALSE
      <4>1. f \in Fibers /\ pc[f] \in Calls
        BY DEF Queued
      <4>2. f = Out(lease[1])
        BY <3>1, <3>2, <4>1, FiberKinds, OutputNames, InputNames, MainNames
      <4> QED BY <3>1, <4>1, <4>2 DEF Calls
    <3> QED BY <3>2
  <2> QED BY <1>4, <2>1, <2>2, <2>3 DEF Cut
<1> HIDE DEF S
<1> QED BY <1>1, <1>2, <1>3, <1>4, FailKeeps

\* The token that a consumer uses in a rotation is the one on the carrier of its R.
LEMMA HeldIs ==
  ASSUME SupplyInv, NEW c \in Consumers, pc[MainOf(c)] = "inject"
  PROVE  /\ Held(c) \in Tokens /\ token[Held(c)].status = "reserved"
         /\ InputOf(Held(c)) = <<c, "R">> /\ Progress(Held(c)) = "finished"
         /\ On(Held(c)) = binding[<<c, "R">>]
         /\ \A t \in Tokens : token[t].status = "reserved" /\ InputOf(t) = <<c, "R">>
                                /\ Progress(t) = "finished" => t = Held(c)
<1>1. \E t \in Tokens : /\ token[t].status = "reserved" /\ InputOf(t) = <<c, "R">>
                        /\ Progress(t) = "finished"
  BY DEF SupplyInv, ConsumersStand, ConsumerStands
<1>2. /\ Held(c) \in Tokens /\ token[Held(c)].status = "reserved"
      /\ InputOf(Held(c)) = <<c, "R">> /\ Progress(Held(c)) = "finished"
  BY <1>1 DEF Held, InputOf, Progress
<1>3. ASSUME NEW t \in Tokens, token[t].status = "reserved", InputOf(t) = <<c, "R">>,
             Progress(t) = "finished"
      PROVE  On(t) = binding[<<c, "R">>]
  BY <1>3, TokenAt DEF ReservedTold, HandedOff, Progress
<1> QED BY <1>2, <1>3 DEF SupplyInv, OneLive, Live

\* Until a delivery is lost a wave's checks refuse nothing.
LEMMA ExecuteMay ==
  ASSUME SupplyInv, ~broken, NEW f \in Queued
  PROVE  MayExecute(f)
<1>1. f \in Fibers /\ pc[f] \in Calls
  BY DEF Queued
<1>2. CASE f \in Outputs
  <2>1. f[1] \in Producers /\ f = Out(f[1]) /\ pc[f] \in {"make", "deliver"}
    BY <1>1, <1>2, OutputNames DEF SupplyInv, Shapes, OutputPlaces, Calls
  <2>2. ProducerStands(f[1])
    BY <2>1, ProducerAt
  <2>3. CASE pc[f] = "make"
    BY <2>1, <2>2, <2>3 DEF ProducerStands, MayExecute
  <2>4. CASE pc[f] = "deliver"
    <3> DEFINE t == Current(f[1])
    <3>1. lease = t /\ Progress(t) = "parked" /\ t \in Tokens /\ t[1] = f[1] /\ Claimed(t)
      BY <2>1, <2>2, <2>4, ProducerAt DEF ProducerStands, Claimed, Progress
    <3>2. token[t].status = "reserved" /\ ReservedTold(t)
      BY <3>1, TokenAt DEF InStep, RestTold
    <3> HIDE DEF t
    <3>3. /\ token[t].on = binding[f] /\ token[t].consumer = ConsumerOf(t)
          /\ carrier[binding[f]].owner = ConsumerOf(t)
      BY <2>1, <3>1, <3>2 DEF ReservedTold, On
    <3> QED BY <2>4, <3>2, <3>3 DEF MayExecute, t
  <2> QED BY <2>1, <2>3, <2>4
<1>3. CASE f \in Inputs
  <2>1. pc[f] \in {"park", "replace"} /\ InputStands(f)
    BY <1>1, <1>3, InputAt DEF InputPlaces, Calls
  <2>2. /\ lease \in Tokens /\ InputOf(lease) = f /\ token[lease].status = "reserved"
        /\ ReservedTold(lease) /\ ConsumerOf(lease) = f[1]
    BY <1>3, <2>1, LeaseOf, TokenAt DEF RestTold, Underway
  <2> QED BY <2>1, <2>2 DEF InputStands, ReservedTold, MayExecute
<1>4. CASE f \in Mains
  <2>1. /\ f[1] \in Consumers /\ f = MainOf(f[1]) /\ pc[f] \in {"local", "inject", "restore", "final"}
        /\ ConsumerStands(f[1])
    BY <1>4, MainNames, UsedRoles DEF SupplyInv, ConsumersStand
  <2>2. ASSUME NEW s \in Used(f) PROVE carrier[binding[s]].owner = f[1]
    <3>1. pc[f] # "local"
      BY <1>4, <2>2 DEF Used
    <3>2. PICK r \in InitialRoles \cup {"R"} : s = <<f[1], r>> /\ (pc[f] = "final" => r \in InitialRoles)
      BY <1>4, <2>2, <3>1 DEF Used
    <3>3. CASE r \in InitialRoles
      BY <2>1, <3>1, <3>2, <3>3 DEF ConsumerStands
    <3>4. CASE r = "R" /\ r \notin InitialRoles
      BY <2>1, <3>1, <3>2, <3>4 DEF ConsumerStands
    <3> QED BY <3>3, <3>4
  <2>3. pc[f] = "inject" => token[Held(f[1])].on = binding[<<f[1], "R">>]
    BY <2>1, HeldIs DEF On
  <2> QED BY <2>1, <2>2, <2>3 DEF MayExecute
<1> QED BY <1>1, <1>2, <1>3, <1>4, FiberKinds

\* A check stops a wave.
LEMMA RefuseKeeps ==
  ASSUME SupplyInv, NEW f \in Queued, Refuse(f), UNCHANGED capacity
  PROVE  SupplyInv'
<1>1. broken /\ Fail({f[1]}, shelf) /\ {f[1]} \in SUBSET Processes /\ shelf \in Seq(Tokens)
  BY ExecuteMay, FiberKinds DEF Refuse, SupplyInv, Shapes, Queued
<1> QED BY <1>1, FailKeeps

\* Where the fibers of a consumer go behind a barrier.
BarrierMoves(c) ==
  LET m == MainOf(c)
      R == <<c, "R">>
  IN
  /\ \A r \in InitialRoles : pc'[<<c, r>>] = pc[<<c, r>>]
  /\ \/ pc'[m] = pc[m] /\ pc'[R] = pc[R]
     \/ /\ pc[m] \in {"inputs_ready", "rotation_complete"} /\ pc'[m] = "rotate"
        /\ pc[R] \in {"idle", "got"} /\ pc'[R] = "ask"
     \/ /\ pc'[R] = pc[R]
        /\ <<pc[m], pc'[m]>> \in {<<"inputs_ready", "final">>, <<"rotation_complete", "final">>,
                                  <<"raw_prepared", "inject">>, <<"consumption_complete", "restore">>,
                                  <<"decision", "decided">>}

\* What a released barrier does to the fibers behind it.
LEMMA BarrierReleased ==
  ASSUME SupplyInv, NEW p \in Processes, ReleaseBarrier(p)
  PROVE  /\ DOMAIN pc' = Fibers
         /\ \A f \in Outputs : pc'[f] = pc[f] \/ (pc[f] = "cycle_complete" /\ pc'[f] = "cycle")
         /\ \A c \in Consumers : BarrierMoves(c)
<1>1. /\ DOMAIN pc' = Fibers
      /\ \A f \in Fibers : pc'[f] = IF f[1] \in Peers(p) THEN Beyond(f) ELSE pc[f]
      /\ \A q \in Peers(p) : Running(q) /\ pc[Main(q)] \in Barriers
  BY DEF ReleaseBarrier, Assembled, Peers
<1>2. ASSUME NEW f \in Outputs
      PROVE  pc'[f] = pc[f] \/ (pc[f] = "cycle_complete" /\ pc'[f] = "cycle")
  <2>1. f \in Fibers /\ f[1] \in Producers /\ f = Out(f[1]) /\ f \notin Mains
    BY OutputNames
  <2>2. CASE f[1] \in Peers(p)
    <3>1. Main(f[1]) = f
      BY <2>1 DEF Main, Out
    <3>2. pc[f] = "cycle_complete"
      BY <1>1, <1>2, <2>2, <3>1 DEF Barriers, SupplyInv, Shapes, OutputPlaces
    <3>3. Beyond(f) = "cycle"
      BY <2>1 DEF Beyond
    <3> QED BY <1>1, <2>1, <2>2, <3>2, <3>3
  <2> QED BY <1>1, <2>1, <2>2
<1>3. ASSUME NEW c \in Consumers PROVE BarrierMoves(c)
  <2> DEFINE m == MainOf(c)
             R == <<c, "R">>
  <2>1. /\ m \in Fibers /\ m \in Mains /\ m \notin Outputs /\ m[1] = c
        /\ R \in Fibers /\ R \notin Outputs /\ R \notin Mains /\ R[1] = c /\ R[2] = "R"
    BY MainNames, OutputNames, InputNames
  <2>2. ASSUME NEW r \in InitialRoles PROVE pc'[<<c, r>>] = pc[<<c, r>>]
    <3>1. /\ <<c, r>> \in Fibers /\ <<c, r>> \notin Outputs /\ <<c, r>> \notin Mains
          /\ r # "R"
      BY InputNames
    <3> QED BY <1>1, <3>1 DEF Beyond
  <2>3. CASE c \notin Peers(p)
    BY <1>1, <2>1, <2>2, <2>3 DEF BarrierMoves
  <2>4. CASE c \in Peers(p)
    <3>1. Main(c) = m
      BY MainNames DEF Main, MainOf
    <3>2. /\ Running(c) /\ c \in Processes /\ ConsumerStands(c)
          /\ pc[m] \in {"inputs_ready", "raw_prepared", "consumption_complete",
                        "rotation_complete", "decision"}
      <4>1. Running(c) /\ pc[m] \in Barriers /\ c \in Processes /\ ConsumerStands(c)
        BY <1>1, <2>4, <3>1, MainNames DEF SupplyInv, ConsumersStand
      <4>2. pc[m] \in MainPlaces
        BY <2>1 DEF SupplyInv, Shapes
      <4> QED BY <4>1, <4>2 DEF Barriers, MainPlaces
    <3>3. pc[R] \in {"idle", "got"}
      <4>1. pc[R] # "end"
        BY <2>1, <3>2 DEF SupplyInv, EndsMet
      <4> QED BY <3>2, <4>1 DEF ConsumerStands
    <3>4. pc'[m] = Beyond(m) /\ pc'[R] = Beyond(R)
      BY <1>1, <2>1, <2>4
    <3>5. /\ Rotates(c) => pc[m] \in {"inputs_ready", "rotation_complete"}
      BY <3>1 DEF Rotates
    <3>6. CASE Rotates(c)
      BY <2>1, <2>2, <3>2, <3>3, <3>4, <3>5, <3>6 DEF BarrierMoves, Beyond
    <3>7. CASE ~Rotates(c)
      BY <2>1, <2>2, <3>2, <3>4, <3>7 DEF BarrierMoves, Beyond
    <3> QED BY <3>6, <3>7
  <2> QED BY <2>3, <2>4
<1> QED BY <1>1, <1>2, <1>3

\* The peers pass their barrier.
LEMMA ReleaseBarrierKeeps ==
  ASSUME SupplyInv, NEW p \in Processes, ReleaseBarrier(p), UNCHANGED capacity
  PROVE  SupplyInv'
<1>1. /\ UNCHANGED <<status, round, binding, carrier, token, transfer, lease, broken, capacity,
                     waiting, shelf, demands>>
      /\ \A t \in Tokens : Progress(t) \notin Received
  BY SettledQuiet DEF ReleaseBarrier, inventory
<1>2. /\ DOMAIN pc' = Fibers
      /\ \A f \in Outputs : pc'[f] = pc[f] \/ (pc[f] = "cycle_complete" /\ pc'[f] = "cycle")
      /\ \A c \in Consumers : BarrierMoves(c)
  BY BarrierReleased
<1>3. /\ \A q \in Processes : Running(q)' <=> Running(q)
      /\ DownstreamDone' <=> DownstreamDone
      /\ \A q \in Producers : Current(q)' = Current(q)
      /\ \A t : On(t)' = On(t) /\ (Live(t)' <=> Live(t))
  BY <1>1 DEF Running, DownstreamDone, Current, On, Live
<1>4. ASSUME NEW d \in Inputs
      PROVE  \/ pc'[d] = pc[d]
             \/ d[2] = "R" /\ pc[d] \in {"idle", "got"} /\ pc'[d] = "ask"
  <2>1. d = <<d[1], d[2]>> /\ d[1] \in Consumers /\ d[2] \in InitialRoles \cup {"R"}
    BY InputNames
  <2>2. BarrierMoves(d[1])
    BY <1>2, <2>1
  <2>3. CASE d[2] \in InitialRoles
    BY <2>1, <2>2, <2>3 DEF BarrierMoves
  <2>4. CASE d[2] = "R"
    <3>1. d = <<d[1], "R">>
      BY <2>1, <2>4
    <3> QED BY <2>2, <2>4, <3>1 DEF BarrierMoves
  <2> QED BY <2>1, <2>3, <2>4
<1>5. Shapes'
  <2>1. /\ \A f \in Outputs : pc'[f] \in OutputPlaces
        /\ \A f \in Inputs : pc'[f] \in InputPlaces
    BY <1>2, <1>4 DEF SupplyInv, Shapes, OutputPlaces, InputPlaces
  <2>2. ASSUME NEW f \in Mains PROVE pc'[f] \in MainPlaces
    <3>1. f = MainOf(f[1]) /\ BarrierMoves(f[1]) /\ pc[f] \in MainPlaces
      BY <1>2, MainNames DEF SupplyInv, Shapes
    <3> QED BY <3>1 DEF BarrierMoves, MainPlaces
  <2> QED BY <1>1, <1>2, <2>1, <2>2 DEF SupplyInv, Shapes
<1>6. EndsMet'
  <2> SUFFICES ASSUME NEW f \in Fibers PROVE pc'[f] = "end" <=> pc[f] = "end"
    BY <1>3, FiberKinds DEF SupplyInv, EndsMet
  <2>1. CASE f \in Outputs \cup Inputs
    BY <1>2, <1>4, <2>1
  <2>2. CASE f \in Mains
    <3>1. f = MainOf(f[1]) /\ BarrierMoves(f[1])
      BY <1>2, <2>2, MainNames
    <3> QED BY <3>1 DEF BarrierMoves
  <2> QED BY <2>1, <2>2, FiberKinds
<1>7. Bound' /\ Sited' /\ Leased' /\ LostUnderLease' /\ OneLive' /\ ShelfInv'
  BY <1>1, <1>3, SameDeliveries
     DEF SupplyInv, Bound, Sited, Site, Leased, LostUnderLease, OneLive, ShelfInv
<1>8. InputsStand'
  <2> SUFFICES ASSUME NEW e \in Inputs PROVE InputStands(e)'
    BY DEF InputsStand
  <2>1. InputStands(e)
    BY DEF SupplyInv, InputsStand
  <2> QED BY <1>1, <1>4, <2>1, SameDeliveries DEF InputStands
<1>9. TokensTold' /\ DeliveriesInStep'
  <2> SUFFICES ASSUME NEW t \in Tokens
               PROVE  OfferedTold(t)' /\ ReservedTold(t)' /\ RestTold(t)' /\ InStep(t)'
    BY DEF TokensTold, DeliveriesInStep
  <2>1. /\ OfferedTold(t) /\ ReservedTold(t) /\ RestTold(t) /\ InStep(t)
        /\ t[1] \in Producers /\ t[1] \in Processes /\ Out(t[1]) \in Outputs
        /\ Claimed(t) => /\ InputOf(t) \in Inputs /\ ConsumerOf(t) \in Processes
                         /\ ConsumerOf(t) \in Consumers /\ ConsumerOf(t) = InputOf(t)[1]
        /\ Progress(t) \in Progresses \ Received /\ (Claimed(t) <=> Progress(t) # "none")
    BY <1>1, TokenAt, OutputNames
  <2>2. OfferedTold(t)'
    <3>1. pc[Out(t[1])] # "cycle_complete" => pc'[Out(t[1])] = pc[Out(t[1])]
      BY <1>2, <2>1
    <3> QED BY <1>1, <1>3, <2>1, <3>1, SameDeliveries DEF OfferedTold
  <2>3. ReservedTold(t)'
    <3>1. ASSUME token[t].status = "reserved", Progress(t) = "finished"
          PROVE  /\ pc'[InputOf(t)] = "got"
                 /\ pc'[MainOf(ConsumerOf(t))] \in {"rotate", "raw_prepared", "inject"}
      <4>1. /\ pc[InputOf(t)] = "got" /\ InputOf(t)[2] = "R" /\ InputOf(t) \in Inputs
            /\ pc[MainOf(ConsumerOf(t))] \in {"rotate", "raw_prepared", "inject"}
            /\ ConsumerOf(t) \in Consumers /\ ConsumerOf(t) = InputOf(t)[1]
        BY <2>1, <3>1 DEF ReservedTold
      <4>2. InputOf(t) = <<ConsumerOf(t), "R">> /\ BarrierMoves(ConsumerOf(t))
        BY <1>2, <4>1, InputNames
      <4> QED BY <4>1, <4>2 DEF BarrierMoves
    <3> QED BY <1>1, <1>3, <2>1, <3>1, SameDeliveries DEF ReservedTold
  <2>4. RestTold(t)'
    BY <1>1, <1>3, <2>1, SameDeliveries DEF RestTold
  <2>5. InStep(t)'
    <3> SUFFICES ASSUME ~broken, Claimed(t), Progress(t) # "finished" PROVE InStep(t)'
      BY <1>1, SameDeliveries DEF InStep
    <3>1. Progress(t) \in Underway
      BY <2>1 DEF Progresses
    <3>2. pc'[InputOf(t)] = pc[InputOf(t)] /\ pc'[Out(t[1])] = pc[Out(t[1])]
      BY <1>2, <1>4, <2>1, <3>1 DEF InStep, Underway
    <3> QED BY <1>1, <1>3, <2>1, <3>2, SameDeliveries DEF InStep
  <2> QED BY <2>2, <2>3, <2>4, <2>5
<1>10. ProducersStand'
  <2> SUFFICES ASSUME NEW q \in Producers PROVE ProducerStands(q)'
    BY DEF ProducersStand
  <2>1. q \in Processes /\ Out(q) \in Outputs /\ ProducerStands(q)
    BY OutputNames DEF SupplyInv, ProducersStand
  <2>2. CASE pc'[Out(q)] = pc[Out(q)]
    BY <1>1, <1>3, <2>1, <2>2, SameProducer, SameDeliveries
  <2>3. CASE pc[Out(q)] = "cycle_complete" /\ pc'[Out(q)] = "cycle"
    BY <1>1, <1>3, <2>1, <2>3, SameDeliveries DEF ProducerStands
  <2> QED BY <1>2, <2>1, <2>2, <2>3
<1>11. ConsumersStand'
  <2> SUFFICES ASSUME NEW e \in Consumers PROVE ConsumerStands(e)'
    BY DEF ConsumersStand
  <2>1. ConsumerStands(e) /\ BarrierMoves(e)
    BY <1>2 DEF SupplyInv, ConsumersStand
  <2>2. CASE pc'[MainOf(e)] = pc[MainOf(e)] /\ pc'[<<e, "R">>] = pc[<<e, "R">>]
    <3>1. \A r \in InitialRoles \cup {"R"} : pc'[<<e, r>>] = pc[<<e, r>>]
      BY <2>1, <2>2 DEF BarrierMoves
    <3> QED BY <1>1, <2>1, <2>2, <3>1, SameConsumer, SameDeliveries
  <2>3. CASE /\ pc[MainOf(e)] \in {"inputs_ready", "rotation_complete"}
             /\ pc'[MainOf(e)] = "rotate" /\ pc'[<<e, "R">>] = "ask"
    BY <1>1, <2>1, <2>3 DEF ConsumerStands, BarrierMoves
  <2>4. CASE /\ pc'[<<e, "R">>] = pc[<<e, "R">>]
             /\ <<pc[MainOf(e)], pc'[MainOf(e)]>> \in
                  {<<"inputs_ready", "final">>, <<"rotation_complete", "final">>,
                   <<"raw_prepared", "inject">>, <<"consumption_complete", "restore">>,
                   <<"decision", "decided">>}
    BY <1>1, <2>1, <2>4, SameDeliveries DEF ConsumerStands, BarrierMoves
  <2> QED BY <2>1, <2>2, <2>3, <2>4 DEF BarrierMoves
<1> QED BY <1>5, <1>6, <1>7, <1>8, <1>9, <1>10, <1>11 DEF SupplyInv

\* A queued transport is the next of the delivery that holds the lease.
LEMMA HopAt ==
  ASSUME SupplyInv, NEW f \in Queued, pc[f] \in {"park", "deliver", "replace"}
  PROVE  /\ lease \in Tokens /\ Claimed(lease) /\ f \in Slots
         /\ \/ pc[f] = "park" /\ Progress(lease) = "claimed" /\ f = InputOf(lease) /\ f \in Inputs
            \/ /\ pc[f] = "deliver" /\ Progress(lease) = "parked" /\ f = Out(lease[1])
               /\ lease = Current(lease[1]) /\ f \in Outputs
            \/ /\ pc[f] = "replace" /\ Progress(lease) = "delivered" /\ f = InputOf(lease)
               /\ f \in Inputs /\ ~broken
<1>1. f \in Fibers
  BY DEF Queued
<1>2. CASE f \in Mains
  BY <1>2 DEF SupplyInv, Shapes, MainPlaces
<1>3. CASE f \in Inputs
  <2>1. pc[f] \in {"park", "replace"}
    BY <1>3 DEF SupplyInv, Shapes, InputPlaces
  <2> QED BY <1>3, <2>1, LeaseOf, InputAt DEF InputStands
<1>4. CASE f \in Outputs
  <2>1. pc[f] = "deliver" /\ f[1] \in Producers /\ f = Out(f[1]) /\ f \in Slots
    <3>1. f[1] \in Producers /\ f = Out(f[1]) /\ f \in Slots
      BY <1>4, OutputNames
    <3>2. pc[f] \in OutputPlaces
      BY <1>4 DEF SupplyInv, Shapes
    <3> QED BY <3>1, <3>2 DEF OutputPlaces
  <2>2. lease = Current(f[1]) /\ Progress(lease) = "parked" /\ lease \in Tokens /\ lease[1] = f[1]
    BY <2>1, ProducerAt DEF ProducerStands
  <2> QED BY <1>4, <2>1, <2>2 DEF Claimed, Progress
<1> QED BY <1>1, <1>2, <1>3, <1>4, FiberKinds

\* The call of a consumer's main fiber and those of its inputs change the carriers of
\* different roles.
LEMMA HandsApart ==
  ASSUME SupplyInv
  PROVE  /\ \A f \in Queued : Hand(f) \in Slots /\ (f \notin Mains => Hand(f) = f)
         /\ \A f \in Queued : f \in Mains => Hand(f) = <<f[1], "R">> /\ pc[Hand(f)] \notin Calls
         /\ \A f, g \in Queued : Hand(f) = Hand(g) => f = g
<1>1. ASSUME NEW f \in Queued
      PROVE  /\ Hand(f) \in Slots /\ (f \notin Mains => Hand(f) = f)
             /\ f \in Mains => /\ Hand(f) = <<f[1], "R">> /\ pc[Hand(f)] \notin Calls
                               /\ f = MainOf(f[1])
  <2>1. f \in Fibers
    BY DEF Queued
  <2>2. CASE f \notin Mains
    BY <2>1, <2>2 DEF Hand, Fibers
  <2>3. CASE f \in Mains
    <3>1. /\ f[1] \in Consumers /\ f = MainOf(f[1]) /\ Hand(f) = <<f[1], "R">>
          /\ pc[f] \in {"local", "inject", "restore", "final"} /\ ConsumerStands(f[1])
      BY <2>3, UsedRoles, MainNames DEF Hand, SupplyInv, ConsumersStand
    <3>2. pc[<<f[1], "R">>] \in {"idle", "got", "end"} /\ <<f[1], "R">> \in Slots
      BY <3>1, InputNames DEF ConsumerStands
    <3> QED BY <2>3, <3>1, <3>2 DEF Calls
  <2> QED BY <2>2, <2>3
<1>2. ASSUME NEW f \in Queued, NEW g \in Queued, Hand(f) = Hand(g) PROVE f = g
  <2>1. pc[f] \in Calls /\ pc[g] \in Calls
    BY DEF Queued
  <2>2. CASE f \in Mains /\ g \in Mains
    <3>1. <<f[1], "R">> = <<g[1], "R">>
      BY <1>1, <1>2, <2>2
    <3>2. f[1] = g[1]
      BY <3>1
    <3>3. f = MainOf(f[1]) /\ g = MainOf(g[1])
      BY <1>1, <2>2
    <3> QED BY <3>2, <3>3
  <2>3. CASE f \notin Mains \/ g \notin Mains
    BY <1>1, <1>2, <2>1, <2>3
  <2> QED BY <2>2, <2>3
<1> QED BY <1>1, <1>2

\* What a wave does to the carrier of each role.
LEMMA ExecutedCarriers ==
  ASSUME SupplyInv, NEW calls \in SUBSET Queued, Execute(calls)
  PROVE  /\ \A f \in calls : carrier'[binding[Hand(f)]] = Moved(f)
         /\ \A s \in Slots : (\A f \in calls : Hand(f) # s) =>
              carrier'[binding[s]] = carrier[binding[s]]
         /\ DOMAIN carrier' = Slots /\ carrier' = [x \in Slots |-> carrier'[x]]
<1>1. carrier' = [x \in Slots |-> IF \E f \in calls : binding[Hand(f)] = x
                                  THEN Moved(CHOOSE f \in calls : binding[Hand(f)] = x)
                                  ELSE carrier[x]]
  BY DEF Execute
<1>2. /\ \A s \in Slots : binding[s] \in Slots
      /\ \A r, s \in Slots : binding[r] = binding[s] => r = s
      /\ \A f \in calls : f \in Queued /\ Hand(f) \in Slots
  BY HandsApart DEF SupplyInv, Shapes, Bound
<1>3. ASSUME NEW f \in calls PROVE carrier'[binding[Hand(f)]] = Moved(f)
  <2>1. \A g \in calls : binding[Hand(g)] = binding[Hand(f)] => g = f
    BY <1>2, <1>3, HandsApart
  <2>2. (CHOOSE g \in calls : binding[Hand(g)] = binding[Hand(f)]) = f
    BY <1>3, <2>1
  <2> QED BY <1>1, <1>2, <1>3, <2>2
<1>4. ASSUME NEW s \in Slots, \A f \in calls : Hand(f) # s
      PROVE  carrier'[binding[s]] = carrier[binding[s]]
  <2>1. ~\E f \in calls : binding[Hand(f)] = binding[s]
    BY <1>2, <1>4
  <2> QED BY <1>1, <1>2, <2>1
<1> QED BY <1>1, <1>3, <1>4

\* A role's carrier after a wave.
LEMMA ExecutedRole ==
  ASSUME SupplyInv, NEW calls \in SUBSET Queued, Execute(calls), NEW s \in Slots
  PROVE  LET x == carrier[binding[s]]
             y == carrier'[binding[s]]
         IN
         \/ /\ s \in Outputs /\ s \in calls /\ pc[s] = "make"
            /\ y = [x EXCEPT !.owner = s[1], !.epoch = @ + 1]
         \/ /\ s \in Outputs /\ s \in calls /\ pc[s] = "deliver"
            /\ y = [x EXCEPT !.place = InputOf(lease)]
         \/ s \in Inputs /\ s \in calls /\ pc[s] = "park" /\ y = [x EXCEPT !.owner = s[1], !.place = Parking]
         \/ /\ s \in Inputs /\ s \in calls /\ pc[s] = "replace"
            /\ y = [x EXCEPT !.owner = None, !.place = Out(lease[1])]
         \/ /\ s \in Inputs /\ s \notin calls /\ s = <<s[1], "R">> /\ pc[MainOf(s[1])] = "restore"
            /\ MainOf(s[1]) \in calls /\ y = [x EXCEPT !.owner = None]
         \/ s \notin calls /\ y = x
<1> DEFINE x == carrier[binding[s]]
           y == carrier'[binding[s]]
<1>1. CASE s \in calls
  <2>1. s \in Queued /\ pc[s] \in Calls /\ s \notin Mains /\ Hand(s) = s
    <3>1. s \notin Mains
      BY FiberKinds, InputNames, OutputNames
    <3> QED BY <1>1, <3>1, HandsApart DEF Queued
  <2>2. y = Moved(s)
    BY <1>1, <2>1, ExecutedCarriers
  <2>3. CASE s \in Outputs
    <3>1. pc[s] \in {"make", "deliver"}
      BY <2>1, <2>3 DEF SupplyInv, Shapes, OutputPlaces, Calls
    <3>2. CASE pc[s] = "make"
      BY <1>1, <2>1, <2>2, <2>3, <3>2 DEF Moved
    <3>3. CASE pc[s] = "deliver"
      <4>1. s = Out(lease[1]) /\ lease = Current(lease[1]) /\ lease[1] = s[1]
        BY <2>1, <3>3, HopAt, TokenAt, OutputNames
      <4>2. transfer[Current(s[1])].input = InputOf(lease)
        BY <4>1 DEF InputOf
      <4> QED BY <1>1, <2>1, <2>2, <2>3, <3>3, <4>2 DEF Moved
    <3> QED BY <3>1, <3>2, <3>3
  <2>4. CASE s \in Inputs
    <3>1. pc[s] \in {"park", "replace"}
      BY <2>1, <2>4 DEF SupplyInv, Shapes, InputPlaces, Calls
    <3>2. CASE pc[s] = "park"
      BY <1>1, <2>1, <2>2, <2>4, <3>2 DEF Moved
    <3>3. CASE pc[s] = "replace"
      BY <1>1, <2>1, <2>2, <2>4, <3>3 DEF Moved, Out
    <3> QED BY <3>1, <3>2, <3>3
  <2> QED BY <2>3, <2>4, FiberKinds
<1>2. CASE s \notin calls /\ \E f \in calls : Hand(f) = s
  <2>1. PICK f \in calls : Hand(f) = s
    BY <1>2
  <2>2. /\ f \in Queued /\ f \in Mains /\ s = <<f[1], "R">> /\ f[1] \in Consumers
        /\ f = MainOf(f[1]) /\ pc[f] \in {"local", "inject", "restore", "final"}
    BY <1>2, <2>1, HandsApart, MainNames, UsedRoles
  <2>3. s \in Inputs /\ s[1] = f[1] /\ y = Moved(f)
    BY <2>1, <2>2, InputNames, ExecutedCarriers
  <2>4. CASE pc[f] = "restore"
    BY <1>2, <2>1, <2>2, <2>3, <2>4 DEF Moved
  <2>5. CASE pc[f] # "restore"
    BY <1>2, <2>1, <2>2, <2>3, <2>5 DEF Moved
  <2> QED BY <2>4, <2>5
<1>3. CASE s \notin calls /\ \A f \in calls : Hand(f) # s
  BY <1>3, ExecutedCarriers
<1> QED BY <1>1, <1>2, <1>3

\* Every carrier keeps its record, and what changes of it is said by the calls.
LEMMA ExecutedShapes ==
  ASSUME SupplyInv, NEW calls \in SUBSET Queued, Execute(calls)
  PROVE  /\ carrier' \in [Slots -> [owner : Processes \cup {None}, epoch : Nat,
                                    place : Slots \cup {Parking}]]
         /\ \A s \in Slots :
              LET x == carrier[binding[s]]
                  y == carrier'[binding[s]]
              IN
              /\ y.epoch = IF s \in calls /\ pc[s] = "make" THEN x.epoch + 1 ELSE x.epoch
              /\ y.place = IF s \in calls /\ pc[s] = "deliver" THEN InputOf(lease)
                           ELSE IF s \in calls /\ pc[s] = "park" THEN Parking
                           ELSE IF s \in calls /\ pc[s] = "replace" THEN Out(lease[1])
                           ELSE x.place
              /\ \/ s \in calls /\ pc[s] \in {"make", "park"} /\ y.owner = s[1]
                 \/ s \in calls /\ pc[s] = "replace" /\ y.owner = None
                 \/ s \in calls /\ pc[s] = "deliver" /\ y.owner = x.owner
                 \/ /\ s \notin calls /\ s = <<s[1], "R">> /\ s \in Inputs
                    /\ pc[MainOf(s[1])] = "restore" /\ y.owner = None
                 \/ s \notin calls /\ y.owner = x.owner
<1> DEFINE Record == [owner : Processes \cup {None}, epoch : Nat, place : Slots \cup {Parking}]
<1>1. ASSUME NEW s \in Slots
      PROVE  LET x == carrier[binding[s]]
                 y == carrier'[binding[s]]
             IN
             /\ y \in Record
             /\ y.epoch = IF s \in calls /\ pc[s] = "make" THEN x.epoch + 1 ELSE x.epoch
             /\ y.place = IF s \in calls /\ pc[s] = "deliver" THEN InputOf(lease)
                          ELSE IF s \in calls /\ pc[s] = "park" THEN Parking
                          ELSE IF s \in calls /\ pc[s] = "replace" THEN Out(lease[1])
                          ELSE x.place
             /\ \/ s \in calls /\ pc[s] \in {"make", "park"} /\ y.owner = s[1]
                \/ s \in calls /\ pc[s] = "replace" /\ y.owner = None
                \/ s \in calls /\ pc[s] = "deliver" /\ y.owner = x.owner
                \/ /\ s \notin calls /\ s = <<s[1], "R">> /\ s \in Inputs
                   /\ pc[MainOf(s[1])] = "restore" /\ y.owner = None
                \/ s \notin calls /\ y.owner = x.owner
  <2>1. PICK x \in Record : x = carrier[binding[s]]
    BY DEF SupplyInv, Shapes
  <2>2. PICK y : y = carrier'[binding[s]]
    OBVIOUS
  <2>3. s[1] \in Processes
    BY FiberKinds
  <2>4. \/ s \in calls /\ pc[s] = "make" /\ y = [x EXCEPT !.owner = s[1], !.epoch = @ + 1]
        \/ s \in calls /\ pc[s] = "deliver" /\ y = [x EXCEPT !.place = InputOf(lease)]
        \/ s \in calls /\ pc[s] = "park" /\ y = [x EXCEPT !.owner = s[1], !.place = Parking]
        \/ s \in calls /\ pc[s] = "replace" /\ y = [x EXCEPT !.owner = None, !.place = Out(lease[1])]
        \/ /\ s \in Inputs /\ s \notin calls /\ s = <<s[1], "R">> /\ pc[MainOf(s[1])] = "restore"
           /\ y = [x EXCEPT !.owner = None]
        \/ s \notin calls /\ y = x
    BY <2>1, <2>2, ExecutedRole
  <2>5. s \in calls /\ pc[s] \in {"deliver", "replace"} =>
          InputOf(lease) \in Slots /\ Out(lease[1]) \in Slots
    BY HopAt, TokenAt
  <2>6. CASE s \in calls /\ pc[s] = "make" /\ y = [x EXCEPT !.owner = s[1], !.epoch = @ + 1]
    <3>1. y.owner = s[1] /\ y.epoch = x.epoch + 1 /\ y.place = x.place /\ y \in Record
      <4>1. x.epoch \in Nat /\ x.place \in Slots \cup {Parking}
        BY <2>1
      <4>2. y = [owner |-> s[1], epoch |-> x.epoch + 1, place |-> x.place]
        BY <2>1, <2>6
      <4>3. x.epoch + 1 \in Nat
        BY <4>1
      <4> QED BY <2>3, <4>1, <4>2, <4>3
    <3> HIDE DEF Record
    <3> QED BY <2>1, <2>2, <2>6, <3>1
  <2>7. CASE s \in calls /\ pc[s] = "deliver" /\ y = [x EXCEPT !.place = InputOf(lease)]
    <3>1. y.owner = x.owner /\ y.epoch = x.epoch /\ y.place = InputOf(lease) /\ y \in Record
      <4>1. x.owner \in Processes \cup {None} /\ x.epoch \in Nat /\ x.place \in Slots \cup {Parking}
        BY <2>1
      <4> QED BY <2>1, <2>5, <4>1, <2>7
    <3> HIDE DEF Record
    <3> QED BY <2>1, <2>2, <2>7, <3>1
  <2>8. CASE s \in calls /\ pc[s] = "park" /\ y = [x EXCEPT !.owner = s[1], !.place = Parking]
    <3>1. y.owner = s[1] /\ y.epoch = x.epoch /\ y.place = Parking /\ y \in Record
      <4>1. x.owner \in Processes \cup {None} /\ x.epoch \in Nat /\ x.place \in Slots \cup {Parking}
        BY <2>1
      <4> QED BY <2>1, <2>3, <4>1, <2>8
    <3> HIDE DEF Record
    <3> QED BY <2>1, <2>2, <2>8, <3>1
  <2>9. CASE s \in calls /\ pc[s] = "replace" /\ y = [x EXCEPT !.owner = None, !.place = Out(lease[1])]
    <3>1. y.owner = None /\ y.epoch = x.epoch /\ y.place = Out(lease[1]) /\ y \in Record
      <4>1. x.owner \in Processes \cup {None} /\ x.epoch \in Nat /\ x.place \in Slots \cup {Parking}
        BY <2>1
      <4> QED BY <2>1, <2>5, <4>1, <2>9
    <3> HIDE DEF Record
    <3> QED BY <2>1, <2>2, <2>9, <3>1
  <2>10. CASE /\ s \in Inputs /\ s \notin calls /\ s = <<s[1], "R">> /\ pc[MainOf(s[1])] = "restore"
              /\ y = [x EXCEPT !.owner = None]
    <3>1. y.owner = None /\ y.epoch = x.epoch /\ y.place = x.place /\ y \in Record
      <4>1. x.owner \in Processes \cup {None} /\ x.epoch \in Nat /\ x.place \in Slots \cup {Parking}
        BY <2>1
      <4> QED BY <2>1, <4>1, <2>10
    <3> HIDE DEF Record
    <3> QED BY <2>1, <2>2, <2>10, <3>1
  <2>11. CASE s \notin calls /\ y = x
    BY <2>1, <2>2, <2>11
  <2> QED BY <2>4, <2>6, <2>7, <2>8, <2>9, <2>10, <2>11
<1>2. \A z \in Slots : carrier'[z] \in Record
  BY <1>1 DEF SupplyInv, Bound
<1> QED BY <1>1, <1>2, ExecutedCarriers

\* Where a wave leaves the fibers.
LEMMA ExecutedFibers ==
  ASSUME SupplyInv, NEW calls \in SUBSET Queued, Execute(calls)
  PROVE  /\ DOMAIN pc' = Fibers
         /\ \A f \in Fibers : f \notin calls => pc'[f] = pc[f]
         /\ \A f \in calls : /\ f \in Fibers /\ f \in Queued /\ pc[f] \in Calls
                             /\ pc[f] = "make" => pc'[f] = "offer"
                             /\ pc[f] = "park" => pc'[f] = "parked"
                             /\ pc[f] = "deliver" => pc'[f] = "handshake"
                             /\ pc[f] = "replace" => pc'[f] = "handoff"
                             /\ pc[f] = "local" => pc'[f] = "prepare"
                             /\ pc[f] = "inject" => pc'[f] = "consumption_complete"
                             /\ pc[f] = "restore" => pc'[f] = "rotation_complete"
                             /\ pc[f] = "final" => pc'[f] = "decision"
<1>1. pc' = [f \in Fibers |-> IF f \in calls THEN After[pc[f]] ELSE pc[f]]
  BY DEF Execute
<1>2. \A f \in calls : f \in Fibers /\ f \in Queued /\ pc[f] \in Calls
  BY DEF Queued
<1>3. /\ After["make"] = "offer" /\ After["park"] = "parked" /\ After["deliver"] = "handshake"
      /\ After["replace"] = "handoff" /\ After["local"] = "prepare"
      /\ After["inject"] = "consumption_complete" /\ After["restore"] = "rotation_complete"
      /\ After["final"] = "decision"
  BY DEF After
<1> QED BY <1>1, <1>2, <1>3

\* How far a wave brings the delivery that holds the lease.
Hopped(calls) ==
  \/ Progress(lease)' = Progress(lease) /\ \A f \in calls : pc[f] \notin {"park", "deliver", "replace"}
  \/ /\ Progress(lease) = "claimed" /\ Progress(lease)' = "parked"
     /\ InputOf(lease) \in calls /\ pc[InputOf(lease)] = "park"
     /\ \A f \in calls : pc[f] \notin {"deliver", "replace"}
  \/ /\ Progress(lease) = "parked" /\ Progress(lease)' = "delivered"
     /\ Out(lease[1]) \in calls /\ pc[Out(lease[1])] = "deliver"
     /\ \A f \in calls : pc[f] \notin {"park", "replace"}
  \/ /\ Progress(lease) = "delivered" /\ Progress(lease)' = "returned"
     /\ InputOf(lease) \in calls /\ pc[InputOf(lease)] = "replace"
     /\ \A f \in calls : pc[f] \notin {"park", "deliver"}

\* A wave moves the delivery that holds the lease on, and no other.
LEMMA ExecutedDeliveries ==
  ASSUME SupplyInv, NEW calls \in SUBSET Queued, Execute(calls)
  PROVE  /\ transfer' \in [Tokens -> [progress : Progresses, input : Inputs \cup {None},
                                      replacement : Slots \cup {None}]]
         /\ \A t \in Tokens : t # lease => transfer'[t] = transfer[t] /\ Progress(t)' = Progress(t)
         /\ \A t \in Tokens : /\ transfer'[t].replacement = transfer[t].replacement
                              /\ InputOf(t)' = InputOf(t) /\ ConsumerOf(t)' = ConsumerOf(t)
                              /\ (Claimed(t)' <=> Claimed(t)) /\ (HandedOff(t)' <=> HandedOff(t))
                              /\ (Acknowledged(t)' <=> Acknowledged(t))
         /\ lease \in Tokens => Hopped(calls) /\ {Progress(lease), Progress(lease)'} \subseteq Underway
         /\ lease \notin Tokens => transfer' = transfer
<1> DEFINE hops == {f \in calls : pc[f] \in DOMAIN Arrival}
<1>1. /\ DOMAIN Arrival = {"park", "deliver", "replace"}
      /\ Arrival["park"] = "parked" /\ Arrival["deliver"] = "delivered"
      /\ Arrival["replace"] = "returned"
  BY DEF Arrival
<1>2. transfer' = [t \in Tokens |->
       IF t = lease /\ hops # {}
       THEN [transfer[t] EXCEPT !.progress = Arrival[pc[CHOOSE f \in hops : TRUE]]]
       ELSE transfer[t]]
  BY DEF Execute
<1>3. transfer \in [Tokens -> [progress : Progresses, input : Inputs \cup {None},
                                replacement : Slots \cup {None}]]
  BY DEF SupplyInv, Shapes
<1>4. \A f \in hops : f \in Queued /\ pc[f] \in {"park", "deliver", "replace"} /\ f \in calls
  BY <1>1
<1>5. CASE hops = {} \/ lease \notin Tokens
  <2>1. transfer' = transfer
    BY <1>2, <1>3, <1>5
  <2>2. lease \in Tokens => \A f \in calls : pc[f] \notin {"park", "deliver", "replace"}
    BY <1>1, <1>5
  <2>3. lease \in Tokens => Progress(lease) \in Underway
    BY DEF SupplyInv, Leased
  <2>4. lease' = lease /\ Progress(lease)' = Progress(lease)
    BY <2>1 DEF Execute, Progress
  <2>5. lease \in Tokens => Hopped(calls)
    BY <2>2, <2>4 DEF Hopped
  <2> QED BY <1>3, <2>1, <2>3, <2>4, <2>5, SameDeliveries
<1>6. CASE hops # {} /\ lease \in Tokens
  <2> DEFINE g == CHOOSE f \in hops : TRUE
  <2>1. PICK f : f = g /\ f \in hops
    BY <1>6
  <2>2. PICK before : before = pc[f] /\ before \in {"park", "deliver", "replace"}
    BY <1>4, <2>1
  <2>3. /\ before = "park" => Progress(lease) = "claimed" /\ f = InputOf(lease)
        /\ before = "deliver" => Progress(lease) = "parked" /\ f = Out(lease[1])
        /\ before = "replace" => Progress(lease) = "delivered" /\ f = InputOf(lease)
        /\ \A h \in calls : pc[h] \in {"park", "deliver", "replace"} => pc[h] = before
    BY <1>4, <2>1, <2>2, HopAt
  <2>4. PICK after : /\ after = Arrival[before]
                     /\ before = "park" => after = "parked"
                     /\ before = "deliver" => after = "delivered"
                     /\ before = "replace" => after = "returned"
    BY <1>1, <2>2
  <2>5. transfer' = [t \in Tokens |-> IF t = lease THEN [transfer[t] EXCEPT !.progress = after]
                                      ELSE transfer[t]]
    BY <1>2, <1>6, <2>1, <2>2, <2>4
  <2>6. {Progress(lease), after} \subseteq Underway /\ after \in Progresses
    BY <2>2, <2>3, <2>4 DEF Underway, Progresses
  <2>7. transfer' \in [Tokens -> [progress : Progresses, input : Inputs \cup {None},
                                   replacement : Slots \cup {None}]]
    BY <1>3, <2>5, <2>6
  <2>8. /\ \A t \in Tokens : t # lease => transfer'[t] = transfer[t]
        /\ \A t \in Tokens : /\ transfer'[t].replacement = transfer[t].replacement
                             /\ transfer'[t].input = transfer[t].input
        /\ transfer'[lease].progress = after
    BY <1>3, <1>6, <2>5
  <2>9. ASSUME NEW t \in Tokens
        PROVE  /\ (Claimed(t)' <=> Claimed(t)) /\ (HandedOff(t)' <=> HandedOff(t))
               /\ (Acknowledged(t)' <=> Acknowledged(t))
    BY <2>6, <2>8 DEF Claimed, HandedOff, Acknowledged, Progress, Underway
  <2>10. Hopped(calls) /\ Progress(lease)' = after
    <3>1. Progress(lease)' = after
      BY <2>8 DEF Progress, Execute
    <3> QED BY <1>4, <2>1, <2>2, <2>3, <2>4, <3>1 DEF Hopped
  <2> QED BY <1>6, <2>6, <2>7, <2>8, <2>9, <2>10 DEF Progress, InputOf, ConsumerOf
<1> QED BY <1>5, <1>6

\* What a wave does to a token: it is made, used, or left alone.
Made(t, calls) ==
  /\ t = Current(t[1]) /\ Out(t[1]) \in calls /\ pc[Out(t[1])] = "make"
  /\ token[t].status = "absent" /\ token'[t].status = "offered"
  /\ On(t)' = binding[Out(t[1])]
  /\ token'[t].epoch = carrier[binding[Out(t[1])]].epoch + 1
UsedUp(t, calls) ==
  /\ MainOf(ConsumerOf(t)) \in calls /\ pc[MainOf(ConsumerOf(t))] = "inject"
  /\ ConsumerOf(t) \in Consumers
  /\ token[t].status = "reserved" /\ Progress(t) = "finished"
  /\ token'[t].status = "consumed" /\ On(t)' = On(t) /\ token'[t].epoch = token[t].epoch
LeftAlone(t, calls) ==
  /\ ~(t = Current(t[1]) /\ Out(t[1]) \in calls /\ pc[Out(t[1])] = "make")
  /\ \A c \in Consumers : MainOf(c) \in calls /\ pc[MainOf(c)] = "inject" => t # Held(c)
  /\ token'[t] = token[t] /\ On(t)' = On(t)

\* A wave makes, uses or leaves alone every token.
LEMMA ExecutedTokens ==
  ASSUME SupplyInv, NEW calls \in SUBSET Queued, Execute(calls)
  PROVE  /\ token' \in [Tokens -> [status : {"absent", "offered", "reserved", "consumed", "discarded"},
                           on : Slots \cup {None}, epoch : Nat, consumer : Consumers \cup {None}]]
         /\ \A t \in Tokens : Made(t, calls) \/ UsedUp(t, calls) \/ LeftAlone(t, calls)
<1> DEFINE made == {Current(f[1]) : f \in {g \in calls : pc[g] = "make"}}
           used == {Held(f[1]) : f \in {g \in calls : pc[g] = "inject"}}
           Record == [status : {"absent", "offered", "reserved", "consumed", "discarded"},
                      on : Slots \cup {None}, epoch : Nat, consumer : Consumers \cup {None}]
<1>1. token' = [t \in Tokens |->
       IF t \in made
       THEN LET x == binding[<<t[1], "out">>] IN
            [status |-> "offered", on |-> x, epoch |-> carrier'[x].epoch, consumer |-> None]
       ELSE IF t \in used THEN [token[t] EXCEPT !.status = "consumed"] ELSE token[t]]
  BY DEF Execute
<1>2. \A f \in calls : /\ f \in Queued /\ f \in Fibers
                       /\ pc[f] = "make" => f[1] \in Producers /\ f = Out(f[1])
                       /\ pc[f] = "inject" => f[1] \in Consumers /\ f = MainOf(f[1])
  <2> SUFFICES ASSUME NEW f \in calls
               PROVE  /\ f \in Queued /\ f \in Fibers
                      /\ pc[f] = "make" => f[1] \in Producers /\ f = Out(f[1])
                      /\ pc[f] = "inject" => f[1] \in Consumers /\ f = MainOf(f[1])
    OBVIOUS
  <2>1. f \in Fibers
    BY DEF Queued
  <2>2. /\ f \in Outputs => pc[f] \in OutputPlaces
        /\ f \in Inputs => pc[f] \in InputPlaces
        /\ f \in Mains => pc[f] \in MainPlaces
    BY DEF SupplyInv, Shapes
  <2>3. /\ pc[f] = "make" => f \in Outputs
        /\ pc[f] = "inject" => f \in Mains
    BY <2>1, <2>2, FiberKinds DEF OutputPlaces, InputPlaces, MainPlaces
  <2> QED BY <2>1, <2>3, OutputNames, MainNames
<1> HIDE DEF made, used
<1> SUFFICES ASSUME NEW t \in Tokens
             PROVE  token'[t] \in Record /\ (Made(t, calls) \/ UsedUp(t, calls) \/ LeftAlone(t, calls))
  BY <1>1
<1>3. token[t] \in Record /\ t[1] \in Producers
  BY TokenAt DEF SupplyInv, Shapes
<1>4. CASE t \in made
  <2>1. PICK f \in calls : pc[f] = "make" /\ t = Current(f[1])
    BY <1>4 DEF made
  <2>2. f = Out(t[1]) /\ t[1] = f[1] /\ f[1] \in Producers
    BY <1>2, <2>1 DEF Current
  <2>3. token[t].status = "absent" /\ f \in Slots /\ binding[f] \in Slots
    BY <2>1, <2>2, ProducerAt, OutputNames DEF ProducerStands
  <2>4. carrier'[binding[f]].epoch = carrier[binding[f]].epoch + 1
    BY <2>1, <2>3, ExecutedShapes
  <2>5. token'[t] = [status |-> "offered", on |-> binding[f],
                     epoch |-> carrier'[binding[f]].epoch, consumer |-> None]
    BY <1>1, <1>4, <2>2 DEF Out
  <2>6. carrier'[binding[f]].epoch \in Nat
    BY <2>3, ExecutedShapes
  <2>7. token'[t] \in Record
    BY <2>3, <2>5, <2>6
  <2>8. Made(t, calls)
    <3>1. /\ token'[t].status = "offered" /\ token'[t].on = binding[f]
          /\ token'[t].epoch = carrier[binding[f]].epoch + 1
      BY <2>4, <2>5
    <3>2. On(t)' = binding[f]
      BY <3>1 DEF On
    <3>3. t = Current(t[1]) /\ Out(t[1]) \in calls /\ pc[Out(t[1])] = "make"
      BY <2>1, <2>2
    <3> QED BY <2>2, <2>3, <3>1, <3>2, <3>3 DEF Made
  <2> QED BY <2>7, <2>8
<1>5. CASE t \notin made /\ t \in used
  <2>1. PICK f \in calls : pc[f] = "inject" /\ t = Held(f[1])
    BY <1>5 DEF used
  <2>2. f[1] \in Consumers /\ f = MainOf(f[1])
    BY <1>2, <2>1
  <2>3. token[t].status = "reserved" /\ InputOf(t) = <<f[1], "R">> /\ Progress(t) = "finished"
    BY <2>1, <2>2, HeldIs
  <2>4. ConsumerOf(t) = f[1]
    BY <2>3 DEF ConsumerOf, InputOf
  <2>5. token'[t] = [token[t] EXCEPT !.status = "consumed"]
    BY <1>1, <1>5
  <2>6. token'[t] \in Record
    BY <1>3, <2>5
  <2>7. token'[t].status = "consumed" /\ token'[t].on = token[t].on /\ token'[t].epoch = token[t].epoch
    BY <1>3, <2>5
  <2> QED BY <2>1, <2>2, <2>3, <2>4, <2>6, <2>7 DEF UsedUp, On
<1>6. CASE t \notin made /\ t \notin used
  <2>1. token'[t] = token[t]
    BY <1>1, <1>6
  <2>2. ~(t = Current(t[1]) /\ Out(t[1]) \in calls /\ pc[Out(t[1])] = "make")
    BY <1>3, <1>6, OutputNames DEF made
  <2>3. \A c \in Consumers : MainOf(c) \in calls /\ pc[MainOf(c)] = "inject" => t # Held(c)
    BY <1>6, MainNames DEF used
  <2> QED BY <1>3, <2>1, <2>2, <2>3 DEF LeftAlone, On
<1> QED BY <1>4, <1>5, <1>6

\* A wave keeps the places where the delivery says the carriers stand.
LEMMA ExecutedSites ==
  ASSUME SupplyInv, NEW calls \in SUBSET Queued, Execute(calls)
  PROVE  Sited'
<1> SUFFICES ASSUME NEW s \in Slots PROVE carrier'[binding[s]].place = Site(s)'
  BY DEF Sited, Execute
<1>1. /\ carrier[binding[s]].place = Site(s) /\ lease' = lease /\ lease \in Tokens \cup {None}
      /\ None \notin Tokens
  BY SupplyAssumption DEF SupplyInv, Sited, Execute, Shapes
<1>2. carrier'[binding[s]].place =
        IF s \in calls /\ pc[s] = "deliver" THEN InputOf(lease)
        ELSE IF s \in calls /\ pc[s] = "park" THEN Parking
        ELSE IF s \in calls /\ pc[s] = "replace" THEN Out(lease[1])
        ELSE carrier[binding[s]].place
  BY ExecutedShapes
<1>3. CASE lease = None
  <2>1. s \notin calls \/ pc[s] \notin {"park", "deliver", "replace"}
    BY <1>1, <1>3, HopAt
  <2> QED BY <1>1, <1>2, <1>3, <2>1 DEF Site
<1>4. CASE lease \in Tokens
  <2> DEFINE d == InputOf(lease)
             o == Out(lease[1])
  <2>1. /\ lease # None /\ Claimed(lease) /\ d \in Slots /\ o \in Slots /\ d # o
        /\ InputOf(lease)' = d /\ Hopped(calls) /\ Progress(lease) \in Underway
        /\ Progress(lease)' \in Underway
    <3>1. /\ InputOf(lease)' = d /\ Hopped(calls) /\ Progress(lease) \in Underway
          /\ Progress(lease)' \in Underway
      BY <1>1, <1>4, ExecutedDeliveries
    <3>2. Claimed(lease)
      BY <3>1 DEF Underway, Claimed, Progress
    <3> QED BY <1>1, <1>4, <3>1, <3>2, TokenAt, OutputNames
  <2>2. Out(lease[1])' = o
    BY <1>1 DEF Out
  <2>3. /\ s \in calls /\ pc[s] = "park" => s = d /\ Progress(lease) = "claimed"
        /\ s \in calls /\ pc[s] = "deliver" => s = o /\ Progress(lease) = "parked"
        /\ s \in calls /\ pc[s] = "replace" => s = d /\ Progress(lease) = "delivered"
    BY HopAt
  <2>4. PICK before : before = Progress(lease) /\ before \in Underway
    BY <2>1
  <2>5. PICK after : after = Progress(lease)' /\ after \in Underway
    BY <2>1
  <2>6. Site(s)' = IF s \notin {d, o} \/ after = "claimed" THEN s
                   ELSE IF s = d THEN IF after = "returned" THEN o ELSE Parking
                        ELSE IF after = "parked" THEN s ELSE d
    BY <1>1, <2>1, <2>2, <2>5 DEF Site
  <2>7. Site(s) = IF s \notin {d, o} \/ before = "claimed" THEN s
                   ELSE IF s = d THEN IF before = "returned" THEN o ELSE Parking
                        ELSE IF before = "parked" THEN s ELSE d
    BY <2>1, <2>4 DEF Site
  <2>8. \/ after = before /\ \A f \in calls : pc[f] \notin {"park", "deliver", "replace"}
        \/ /\ before = "claimed" /\ after = "parked" /\ d \in calls /\ pc[d] = "park"
        \/ /\ before = "parked" /\ after = "delivered" /\ o \in calls /\ pc[o] = "deliver"
        \/ /\ before = "delivered" /\ after = "returned" /\ d \in calls /\ pc[d] = "replace"
    BY <2>1, <2>4, <2>5 DEF Hopped
  <2> HIDE DEF d, o
  <2>9. /\ carrier'[binding[s]].place =
             IF s \in calls /\ pc[s] = "deliver" THEN d
             ELSE IF s \in calls /\ pc[s] = "park" THEN Parking
             ELSE IF s \in calls /\ pc[s] = "replace" THEN o
             ELSE Site(s)
    BY <1>1, <1>2 DEF d, o
  <2> QED BY <2>1, <2>3, <2>4, <2>6, <2>7, <2>8, <2>9
<1> QED BY <1>1, <1>3, <1>4

\* A wave keeps what is told of the tokens.
LEMMA ExecutedTold ==
  ASSUME SupplyInv, NEW calls \in SUBSET Queued, Execute(calls), NEW t \in Tokens
  PROVE  OfferedTold(t)' /\ ReservedTold(t)' /\ RestTold(t)'
<1> DEFINE o == Out(t[1])
<1>1. /\ UNCHANGED <<status, round, binding, lease, broken>>
      /\ OfferedTold(t) /\ ReservedTold(t) /\ RestTold(t)
      /\ t[1] \in Producers /\ t[1] \in Processes /\ o \in Slots /\ o \in Fibers /\ o[1] = t[1]
      /\ o \notin Inputs
      /\ Progress(t) \notin Received /\ Progress(t) \in Progresses
      /\ Claimed(t) => /\ InputOf(t) \in Inputs /\ InputOf(t) \in Slots
                       /\ ConsumerOf(t) = InputOf(t)[1] /\ ConsumerOf(t) \in Consumers
                       /\ ConsumerOf(t) \in Processes
  BY TokenAt, OutputNames, SettledQuiet DEF Execute, Ready
<1>2. /\ InputOf(t)' = InputOf(t) /\ ConsumerOf(t)' = ConsumerOf(t)
      /\ transfer'[t].replacement = transfer[t].replacement
      /\ (Claimed(t)' <=> Claimed(t)) /\ (HandedOff(t)' <=> HandedOff(t))
      /\ t # lease => Progress(t)' = Progress(t)
      /\ t = lease => Hopped(calls) /\ {Progress(t), Progress(t)'} \subseteq Underway
  BY <1>1, ExecutedDeliveries
<1>3. /\ \A q \in Processes : Running(q)' <=> Running(q)
      /\ DownstreamDone' <=> DownstreamDone
      /\ Current(t[1])' = Current(t[1]) /\ binding[Out(t[1])]' = binding[o]
  BY <1>1 DEF Running, DownstreamDone, Current, Out
<1>4. /\ Made(t, calls) \/ UsedUp(t, calls) \/ LeftAlone(t, calls)
  BY ExecutedTokens
<1>5. OfferedTold(t)'
  <2> SUFFICES ASSUME token'[t].status = "offered" PROVE OfferedTold(t)'
    BY DEF OfferedTold
  <2>1. CASE Made(t, calls)
    <3>1. Progress(t) = "none" /\ t # lease
      BY <1>1, <1>2, <2>1 DEF RestTold, Made, Underway
    <3>2. carrier'[binding[o]].owner = t[1] /\ carrier'[binding[o]].epoch = carrier[binding[o]].epoch + 1
      BY <1>1, <2>1, ExecutedShapes DEF Made
    <3>3. pc'[o] = "offer" /\ Running(t[1])
      BY <1>1, <2>1, ExecutedFibers, ProducerAt DEF Made
    <3> QED BY <1>1, <1>2, <1>3, <2>1, <3>1, <3>2, <3>3 DEF Made, OfferedTold
  <2>2. CASE LeftAlone(t, calls)
    <3>1. /\ token[t].status = "offered" /\ On(t)' = On(t) /\ token'[t].epoch = token[t].epoch
          /\ Progress(t) = "none" /\ t # lease
      BY <1>1, <1>2, <2>2 DEF LeftAlone, OfferedTold, Underway
    <3>2. pc[o] \in {"offer", "backpressure", "handshake", "end"} /\ o \notin calls
      <4>1. pc[o] \in {"offer", "backpressure", "handshake", "end"}
        BY <1>1, <3>1, ProducerAt DEF OfferedTold
      <4> QED BY <4>1, ExecutedFibers DEF Calls
    <3>3. /\ carrier'[binding[o]].owner = carrier[binding[o]].owner
          /\ carrier'[binding[o]].epoch = carrier[binding[o]].epoch
          /\ pc'[o] = pc[o]
      BY <1>1, <3>2, ExecutedShapes, ExecutedFibers
    <3> QED BY <1>1, <1>2, <1>3, <3>1, <3>2, <3>3 DEF OfferedTold
  <2> QED BY <1>4, <2>1, <2>2 DEF UsedUp
<1>6. ReservedTold(t)'
  <2> SUFFICES ASSUME token'[t].status = "reserved" PROVE ReservedTold(t)'
    BY DEF ReservedTold
  <2>1. LeftAlone(t, calls) /\ token[t].status = "reserved" /\ token'[t] = token[t] /\ On(t)' = On(t)
    BY <1>4 DEF Made, UsedUp, LeftAlone
  <2> DEFINE d == InputOf(t)
             c == ConsumerOf(t)
  <2>2. /\ Claimed(t) /\ On(t) \in Slots /\ d \in Inputs /\ d \in Slots /\ d \in Fibers
        /\ c = d[1] /\ c \in Consumers /\ c # None /\ c # t[1] /\ d # o
        /\ token[t].consumer = c /\ Running(c) /\ carrier[On(t)].owner = c
        /\ token[t].epoch = carrier[On(t)].epoch
    BY <1>1, <2>1, InputNames, MainNames, OutputNames DEF ReservedTold
  <2>3. CASE t = lease
    <3>1. /\ On(t) = binding[o] /\ transfer[t].replacement = binding[d] /\ ~HandedOff(t)
          /\ Progress(t) \in {"claimed", "returned"} => carrier[binding[d]].owner = None
          /\ Progress(t) \in {"parked", "delivered"} => carrier[binding[d]].owner = c
          /\ Progress(t) \in Underway /\ Progress(t)' \in Underway
      BY <1>1, <1>2, <2>1, <2>3 DEF ReservedTold, Underway, HandedOff, Progress
    <3>2. ~(o \in calls /\ pc[o] = "make")
      <4>1. pc[o] = "make" => carrier[binding[o]].owner = None
        BY <1>1, ProducerAt DEF ProducerStands
      <4> QED BY <2>2, <3>1, <4>1
    <3>3. carrier'[On(t)].owner = c /\ carrier'[On(t)].epoch = carrier[On(t)].epoch
      <4>1. /\ carrier'[binding[o]].owner = carrier[binding[o]].owner
            /\ carrier'[binding[o]].epoch = carrier[binding[o]].epoch
        BY <1>1, <3>2, HopAt, ExecutedShapes
      <4> QED BY <2>2, <3>1, <4>1
    <3>4. /\ d \in calls => pc[d] \in {"park", "replace"}
          /\ d \notin calls => carrier'[binding[d]].owner = carrier[binding[d]].owner
      <4>1. pc[d] \notin {"got", "idle"}
        BY <1>2, <2>2, <2>3, InputAt DEF InputStands, Underway
      <4>2. pc[MainOf(c)] = "restore" => pc[<<c, "R">>] = "got"
        BY <2>2 DEF SupplyInv, ConsumersStand, ConsumerStands
      <4>3. d \in calls => pc[d] \in {"park", "replace"}
        <5>1. pc[d] \in InputPlaces
          BY <2>2, InputAt
        <5>2. d \in calls => pc[d] \in Calls
          BY ExecutedFibers
        <5> QED BY <5>1, <5>2 DEF InputPlaces, Calls
      <4>4. d \notin calls => carrier'[binding[d]].owner = carrier[binding[d]].owner
        BY <2>2, <4>1, <4>2, ExecutedShapes
      <4> QED BY <4>3, <4>4
    <3>5. /\ Progress(t)' \in {"claimed", "returned"} => carrier'[binding[d]].owner = None
          /\ Progress(t)' \in {"parked", "delivered"} => carrier'[binding[d]].owner = c
      <4>1. d \in calls /\ pc[d] = "park" => carrier'[binding[d]].owner = c
        BY <2>2, ExecutedShapes
      <4>2. d \in calls /\ pc[d] = "replace" => carrier'[binding[d]].owner = None
        BY <2>2, ExecutedShapes
      <4>3. PICK before : before = Progress(t) /\ before \in Underway
        BY <3>1
      <4>4. PICK after : after = Progress(t)' /\ after \in Underway
        BY <3>1
      <4>5. \/ after = before /\ d \notin calls
            \/ before = "claimed" /\ after = "parked" /\ d \in calls /\ pc[d] = "park"
            \/ before = "parked" /\ after = "delivered" /\ d \notin calls
            \/ before = "delivered" /\ after = "returned" /\ d \in calls /\ pc[d] = "replace"
        <5>1. Progress(lease)' = after /\ Progress(lease) = before
          BY <1>1, <2>3, <4>3, <4>4 DEF Progress
        <5> QED BY <1>2, <2>3, <3>4, <5>1 DEF Hopped
      <4> QED BY <3>1, <3>4, <4>1, <4>2, <4>3, <4>4, <4>5 DEF Underway
    <3>6. On(t)' = binding[o] /\ ~HandedOff(t)' /\ Progress(t)' \notin {"handed_off", "finished"}
      BY <1>2, <2>1, <3>1 DEF Underway
    <3> QED BY <1>1, <1>2, <1>3, <2>1, <2>2, <3>1, <3>3, <3>5, <3>6 DEF ReservedTold
  <2>4. CASE t # lease
    <3>1. Progress(t) = "finished" /\ Progress(t)' = "finished" /\ HandedOff(t)
      <4>1. Progress(t) = "finished"
        BY <1>1, <2>2, <2>4 DEF SupplyInv, Leased, Progresses, Claimed, Progress
      <4> QED BY <1>2, <2>4, <4>1 DEF HandedOff, Progress
    <3>2. /\ On(t) = binding[d] /\ d[2] = "R" /\ pc[d] = "got"
          /\ pc[MainOf(c)] \in {"rotate", "raw_prepared", "inject"}
      BY <1>1, <2>1, <3>1 DEF ReservedTold
    <3>3. d = <<c, "R">>
      BY <2>2, <3>2, InputNames
    <3>4. d \notin calls /\ pc'[d] = "got"
      <4>1. d \notin calls
        BY <3>2, ExecutedFibers DEF Calls
      <4> QED BY <2>2, <3>2, <4>1, ExecutedFibers
    <3>5. carrier'[On(t)].owner = c /\ carrier'[On(t)].epoch = carrier[On(t)].epoch
      BY <2>2, <3>2, <3>4, ExecutedShapes
    <3>6. pc'[MainOf(c)] = pc[MainOf(c)]
      <4>1. MainOf(c) \notin calls
        <5>1. SUFFICES ASSUME MainOf(c) \in calls PROVE FALSE
          OBVIOUS
        <5>2. pc[MainOf(c)] = "inject"
          BY <3>2, <5>1, ExecutedFibers DEF Calls
        <5>3. t = Held(c)
          BY <2>1, <2>2, <3>1, <3>3, <5>2, HeldIs
        <5> QED BY <2>1, <2>2, <5>1, <5>2, <5>3 DEF LeftAlone
      <4> QED BY <2>2, <4>1, MainNames, ExecutedFibers
    <3> QED BY <1>1, <1>2, <1>3, <2>1, <2>2, <2>4, <3>1, <3>2, <3>4, <3>5, <3>6 DEF ReservedTold
  <2> QED BY <2>3, <2>4
<1>7. RestTold(t)'
  <2>1. (Claimed(t)' /\ Progress(t)' # "finished" /\ Running(ConsumerOf(t))')
          => Claimed(t) /\ Progress(t) # "finished" /\ Running(ConsumerOf(t))
    BY <1>1, <1>2, <1>3 DEF Underway
  <2>2. CASE Made(t, calls)
    <3>1. Progress(t) = "none" /\ ~Claimed(t)
      BY <1>1, <2>2 DEF RestTold, Made, Claimed, Progress
    <3> QED BY <2>1, <2>2, <3>1 DEF Made, RestTold
  <2>3. CASE UsedUp(t, calls)
    <3>1. Progress(t)' = "finished"
      BY <1>2, <2>3 DEF UsedUp, Underway
    <3> QED BY <2>3, <3>1 DEF UsedUp, RestTold
  <2>4. CASE LeftAlone(t, calls)
    <3>1. token'[t].status \in {"absent", "consumed"} => t # lease
      BY <1>1, <1>2, <2>4 DEF LeftAlone, RestTold, Underway
    <3> QED BY <1>1, <1>2, <2>1, <2>4, <3>1 DEF LeftAlone, RestTold
  <2> QED BY <1>4, <2>2, <2>3, <2>4
<1> QED BY <1>5, <1>6, <1>7

\* The calls of a wave take effect.
LEMMA ExecuteKeeps ==
  ASSUME SupplyInv, NEW calls \in SUBSET Queued, Execute(calls), UNCHANGED capacity
  PROVE  SupplyInv'
<1>1. /\ UNCHANGED <<status, round, binding, lease, broken, waiting, shelf, demands, capacity>>
      /\ \A t \in Tokens : Progress(t) \notin Received
      /\ \A d \in Inputs : pc[d] \notin {"ask", "handoff", "ack"}
  BY SettledQuiet DEF Execute, Ready
<1>2. /\ \A q \in Processes : Running(q)' <=> Running(q)
      /\ \A q \in Producers : Current(q)' = Current(q)
  BY <1>1 DEF Running, Current
<1>3. Shapes'
  <2>1. ASSUME NEW f \in Outputs PROVE pc'[f] \in OutputPlaces
    <3>1. f \in Fibers /\ pc[f] \in OutputPlaces
      BY OutputNames DEF SupplyInv, Shapes
    <3>2. CASE f \in calls
      <4>1. pc[f] \in {"make", "deliver"}
        BY <3>1, <3>2, ExecutedFibers DEF OutputPlaces, Calls
      <4>2. pc'[f] \in {"offer", "handshake"}
        BY <3>2, <4>1, ExecutedFibers
      <4> QED BY <4>2 DEF OutputPlaces
    <3> QED BY <3>1, <3>2, ExecutedFibers
  <2>2. ASSUME NEW f \in Inputs PROVE pc'[f] \in InputPlaces
    <3>1. f \in Fibers /\ pc[f] \in InputPlaces
      BY InputAt
    <3>2. CASE f \in calls
      <4>1. pc[f] \in {"park", "replace"}
        BY <3>1, <3>2, ExecutedFibers DEF InputPlaces, Calls
      <4>2. pc'[f] \in {"parked", "handoff"}
        BY <3>2, <4>1, ExecutedFibers
      <4> QED BY <4>2 DEF InputPlaces
    <3> QED BY <3>1, <3>2, ExecutedFibers
  <2>3. ASSUME NEW f \in Mains PROVE pc'[f] \in MainPlaces
    <3>1. f \in Fibers /\ pc[f] \in MainPlaces
      BY MainNames DEF SupplyInv, Shapes
    <3>2. CASE f \in calls
      <4>1. pc[f] \in {"local", "inject", "restore", "final"}
        BY <3>1, <3>2, ExecutedFibers DEF MainPlaces, Calls
      <4>2. pc'[f] \in {"prepare", "consumption_complete", "rotation_complete", "decision"}
        BY <3>2, <4>1, ExecutedFibers
      <4> QED BY <4>2 DEF MainPlaces
    <3> QED BY <3>1, <3>2, ExecutedFibers
  <2>4. DOMAIN pc' = Fibers
    BY ExecutedFibers
  <2>5. carrier' \in [Slots -> [owner : Processes \cup {None}, epoch : Nat,
                                place : Slots \cup {Parking}]]
    BY ExecutedShapes
  <2>6. token' \in [Tokens -> [status : {"absent", "offered", "reserved", "consumed", "discarded"},
                           on : Slots \cup {None}, epoch : Nat, consumer : Consumers \cup {None}]]
    BY ExecutedTokens
  <2>7. transfer' \in [Tokens -> [progress : Progresses, input : Inputs \cup {None},
                                  replacement : Slots \cup {None}]]
    BY ExecutedDeliveries
  <2> QED BY <1>1, <2>1, <2>2, <2>3, <2>4, <2>5, <2>6, <2>7 DEF SupplyInv, Shapes
<1>4. EndsMet'
  <2> SUFFICES ASSUME NEW f \in Fibers PROVE pc'[f] = "end" <=> pc[f] = "end"
    BY <1>2, FiberKinds DEF SupplyInv, EndsMet
  <2>1. CASE f \in calls
    BY <2>1, ExecutedFibers DEF Calls
  <2> QED BY <2>1, ExecutedFibers
<1>5. Bound' /\ Sited'
  BY <1>1, ExecutedSites DEF SupplyInv, Bound
<1>6. ASSUME NEW t \in Tokens
      PROVE  /\ InputOf(t)' = InputOf(t) /\ ConsumerOf(t)' = ConsumerOf(t)
             /\ transfer'[t].replacement = transfer[t].replacement
             /\ (Claimed(t)' <=> Claimed(t)) /\ (HandedOff(t)' <=> HandedOff(t))
             /\ (Acknowledged(t)' <=> Acknowledged(t))
             /\ t # lease => transfer'[t] = transfer[t] /\ Progress(t)' = Progress(t)
             /\ t = lease => Hopped(calls) /\ {Progress(t), Progress(t)'} \subseteq Underway
  BY <1>1, <1>6, ExecutedDeliveries
<1>7. Leased'
  <2>1. \A t \in Tokens : Progress(t)' \in Underway <=> lease = t
    BY <1>6 DEF SupplyInv, Leased
  <2>2. ASSUME NEW t \in Tokens
        PROVE  /\ Progress(t)' = "none" => t # lease /\ Progress(t) = "none"
               /\ Progress(t)' = "finished" <=> Progress(t) = "finished"
    BY <1>6, <2>2 DEF Underway
  <2>3. \A t \in Tokens : Progress(t)' = "none" => transfer'[t] = NoTransfer
    BY <1>6, <2>2 DEF SupplyInv, Leased
  <2>4. \A t \in Tokens : Claimed(t)' => InputOf(t)' \in Inputs /\ transfer'[t].replacement \in Slots
    BY <1>6 DEF SupplyInv, Leased
  <2>5. \A t, u \in Tokens :
          /\ Claimed(t)' /\ Progress(t)' # "finished" /\ Claimed(u)' /\ Progress(u)' # "finished"
          /\ InputOf(t)' = InputOf(u)'
          => t = u
    BY <1>6, <2>2 DEF SupplyInv, Leased
  <2> QED BY <1>1, <2>1, <2>3, <2>4, <2>5 DEF Leased
<1>8. InputsStand'
  <2> SUFFICES ASSUME NEW d \in Inputs PROVE InputStands(d)'
    BY DEF InputsStand
  <2>1. d \in Fibers /\ InputStands(d) /\ pc[d] \in InputPlaces
    BY InputAt
  <2>2. lease # None => lease \in Tokens
    BY DEF SupplyInv, Shapes
  <2>3. CASE d \in calls
    <3>1. pc[d] \in {"park", "replace"}
      BY <2>1, <2>3, ExecutedFibers DEF InputPlaces, Calls
    <3>2. PICK at : at = pc'[d] /\ (pc[d] = "park" => at = "parked") /\ (pc[d] = "replace" => at = "handoff")
      BY <2>3, ExecutedFibers
    <3>3. lease \in Tokens /\ InputOf(lease) = d /\ lease # None
      BY <2>1, <2>2, <3>1 DEF InputStands
    <3>4. InputOf(lease)' = d /\ Hopped(calls) /\ lease' = lease
      BY <1>1, <1>6, <3>3
    <3>5. /\ pc[d] = "park" => Progress(lease)' = "parked"
          /\ pc[d] = "replace" => Progress(lease)' = "returned" /\ ~broken
      BY <2>1, <2>3, <3>1, <3>3, <3>4 DEF Hopped, InputStands
    <3> QED BY <1>1, <3>1, <3>2, <3>3, <3>4, <3>5 DEF InputStands
  <2>4. CASE d \notin calls
    <3>1. pc'[d] = pc[d]
      BY <2>1, <2>4, ExecutedFibers
    <3>2. \A t \in Tokens : InputOf(t) = d /\ Progress(t) \in {"none", "finished"} =>
            Progress(t)' = Progress(t) /\ InputOf(t)' = d
      BY <1>6 DEF Underway
    <3>3. lease \in Tokens /\ InputOf(lease) = d =>
            /\ InputOf(lease)' = d
            /\ \/ Progress(lease)' = Progress(lease)
               \/ Progress(lease) = "parked" /\ Progress(lease)' = "delivered"
      BY <1>1, <1>6, <2>4 DEF Hopped
    <3>4. /\ pc[d] = "park" => lease # None /\ InputOf(lease)' = d /\ Progress(lease)' = "claimed"
          /\ pc[d] = "parked" => lease # None /\ InputOf(lease)' = d
                           /\ Progress(lease)' \in {"parked", "delivered"}
          /\ pc[d] = "replace" => lease # None /\ InputOf(lease)' = d /\ Progress(lease)' = "delivered"
                            /\ ~broken
      BY <2>1, <2>2, <3>3 DEF InputStands
    <3>5. pc[d] \in {"idle", "ask", "wait", "got"} =>
       \A t \in Tokens : InputOf(t)' = d => Progress(t)' \in {"none", "finished"}
      BY <1>6, <2>1, <3>2 DEF InputStands
    <3> QED BY <1>1, <3>1, <3>4, <3>5 DEF InputStands
  <2> QED BY <2>3, <2>4
<1>9. TokensTold'
  BY ExecutedTold DEF TokensTold
<1>10. DeliveriesInStep'
  <2> SUFFICES ASSUME NEW t \in Tokens PROVE InStep(t)'
    BY DEF DeliveriesInStep
  <2> SUFFICES ASSUME ~broken, Claimed(t), Progress(t)' # "finished" PROVE InStep(t)'
    BY <1>1, <1>6 DEF InStep
  <2> DEFINE d == InputOf(t)
             o == Out(t[1])
  <2>1. t = lease /\ Hopped(calls) /\ {Progress(t), Progress(t)'} \subseteq Underway
    <3>1. Progress(t) # "finished"
      BY <1>6 DEF Underway
    <3>2. Progress(t) \in Underway
      BY <1>1, <3>1, TokenAt DEF Progresses
    <3> QED BY <1>6, <3>2 DEF SupplyInv, Leased
  <2>2. /\ d \in Inputs /\ d \in Fibers /\ o \in Fibers /\ t[1] \in Producers /\ t[1] \in Processes
        /\ InputOf(t)' = d /\ ConsumerOf(t)' = ConsumerOf(t) /\ ConsumerOf(t) \in Processes
        /\ InStep(t)
    BY <1>6, TokenAt, InputNames
  <2>3. PICK before : before = Progress(t) /\ before \in Underway
    BY <2>1
  <2>4. PICK after : after = Progress(t)' /\ after \in Underway
    BY <2>1
  <2>5. /\ Running(ConsumerOf(t)) /\ Running(t[1]) /\ t = Current(t[1])
        /\ before = "claimed" => pc[d] = "park"
        /\ before = "parked" => pc[d] = "parked"
        /\ before = "delivered" => pc[d] \in {"parked", "replace"}
        /\ before = "returned" => pc[d] = "handoff"
        /\ pc[o] = "handshake" \/ (before = "parked" /\ pc[o] = "deliver")
    BY <2>1, <2>2, <2>3 DEF InStep, Underway
  <2>6. \/ after = before /\ \A f \in calls : pc[f] \notin {"park", "deliver", "replace"}
        \/ before = "claimed" /\ after = "parked" /\ d \in calls /\ pc[d] = "park"
        \/ before = "parked" /\ after = "delivered" /\ o \in calls /\ pc[o] = "deliver"
        \/ before = "delivered" /\ after = "returned" /\ d \in calls /\ pc[d] = "replace"
    <3>1. Progress(lease)' = after /\ Progress(lease) = before
      BY <1>1, <2>1, <2>3, <2>4 DEF Progress
    <3> QED BY <2>1, <3>1 DEF Hopped
  <2>7. /\ pc[d] \notin Calls => d \notin calls
        /\ pc[o] \notin Calls => o \notin calls
        /\ d \notin calls => pc'[d] = pc[d]
        /\ o \notin calls => pc'[o] = pc[o]
        /\ d \in calls /\ pc[d] = "park" => pc'[d] = "parked"
        /\ d \in calls /\ pc[d] = "replace" => pc'[d] = "handoff"
        /\ o \in calls /\ pc[o] = "deliver" => pc'[o] = "handshake"
    BY <2>2, ExecutedFibers
  <2>8. /\ after = "claimed" => pc'[d] = "park"
        /\ after = "parked" => pc'[d] = "parked"
        /\ after = "delivered" => pc'[d] \in {"parked", "replace"}
        /\ after = "returned" => pc'[d] = "handoff"
        /\ pc'[o] = "handshake" \/ (after = "parked" /\ pc'[o] = "deliver")
    BY <2>3, <2>4, <2>5, <2>6, <2>7 DEF Calls, Underway
  <2>9. /\ Running(ConsumerOf(t))' /\ Running(t[1])' /\ t = Current(t[1])'
        /\ pc[InputOf(t)]' = pc'[d] /\ pc[Out(t[1])]' = pc'[o]
        /\ Progress(t)' \notin Received /\ Progress(t)' # "acknowledged"
    BY <1>2, <2>2, <2>4, <2>5 DEF Underway, Received, Running, Out
  <2> QED BY <2>4, <2>8, <2>9 DEF InStep
<1>11. LostUnderLease'
  BY <1>1, <1>6 DEF LostUnderLease, Underway, Received
<1>12. ASSUME NEW t \in Tokens
       PROVE  /\ Made(t, calls) \/ UsedUp(t, calls) \/ LeftAlone(t, calls)
              /\ token[t].status # "absent" => On(t)' = On(t) /\ token'[t].epoch = token[t].epoch
                                               /\ token'[t].status # "absent"
  BY <1>12, ExecutedTokens DEF Made, UsedUp, LeftAlone
<1>13. ProducersStand'
  <2> SUFFICES ASSUME NEW p \in Producers PROVE ProducerStands(p)'
    BY DEF ProducersStand
  <2> DEFINE o == Out(p)
             t == Current(p)
  <2>1. /\ o \in Slots /\ o \in Fibers /\ o \in Outputs /\ o[1] = p /\ ProducerStands(p)
        /\ pc[o] \in OutputPlaces
        /\ p \in Processes /\ Current(p)' = t /\ round'[p] = round[p]
    BY <1>1, <1>2, OutputNames DEF SupplyInv, ProducersStand, Shapes
  <2>2. CASE o \notin calls
    <3>1. pc'[o] = pc[o] /\ carrier'[binding[o]].owner = carrier[binding[o]].owner
      BY <2>1, <2>2, ExecutedFibers, ExecutedShapes, InputNames
    <3>2. ASSUME NEW u \in Tokens
          PROVE  /\ u[1] = p /\ token[u].status = "absent" => token'[u].status = "absent"
                 /\ u[1] = p /\ token[u].status = "offered" => token'[u].status = "offered"
      BY <1>12, <2>2 DEF Made, UsedUp, LeftAlone
    <3>3. pc[o] = "deliver" => lease' = lease /\ Progress(lease)' = Progress(lease)
      <4> SUFFICES ASSUME pc[o] = "deliver" PROVE Progress(lease)' = Progress(lease)
        BY <1>1
      <4>1. lease \in Tokens /\ Progress(lease) = "parked" /\ Out(lease[1]) = o
        BY <2>1, ProducerAt DEF ProducerStands, Current
      <4> QED BY <1>6, <2>2, <4>1 DEF Hopped
    <3> QED BY <1>1, <1>6, <1>12, <2>1, <3>1, <3>2, <3>3, SameProducer
  <2>3. CASE o \in calls
    <3>1. pc[o] \in {"make", "deliver"} /\ t \in Tokens /\ t[1] = p /\ t[2] = round[p] /\ round[p] > 0
      <4>1. pc[o] \in {"make", "deliver"}
        BY <2>1, <2>3, ExecutedFibers DEF OutputPlaces, Calls
      <4> QED BY <2>1, <4>1, ProducerAt DEF ProducerStands
    <3>2. \A u \in Tokens : u[1] = p /\ u[2] > round[p] => token'[u].status = "absent"
      <4> SUFFICES ASSUME NEW u \in Tokens, u[1] = p, u[2] > round[p]
                   PROVE  token'[u].status = "absent"
        OBVIOUS
      <4>1. token[u].status = "absent" /\ u # t
        BY <2>1, <3>1, SupplyAssumption DEF ProducerStands, SupplyInv, Shapes
      <4> QED BY <1>12, <4>1 DEF Made, UsedUp, LeftAlone
    <3>3. CASE pc[o] = "make"
      <4>1. pc'[o] = "offer"
        BY <2>3, <3>3, ExecutedFibers
      <4>2. token'[t].status = "offered"
        <5>1. ~LeftAlone(t, calls) /\ ~UsedUp(t, calls)
          BY <2>1, <2>3, <3>1, <3>3 DEF LeftAlone, UsedUp, ProducerStands
        <5> QED BY <1>12, <3>1, <5>1 DEF Made
      <4>3. t \notin Range(shelf)
        BY <2>1, <3>3 DEF ProducerStands
      <4> QED BY <1>1, <2>1, <3>1, <3>2, <4>1, <4>2, <4>3 DEF ProducerStands
    <3>4. CASE pc[o] = "deliver"
      <4>1. pc'[o] = "handshake"
        BY <2>3, <3>4, ExecutedFibers
      <4>2. Claimed(t)' /\ ~Acknowledged(t)'
        <5>1. Progress(t) = "parked"
          BY <2>1, <3>1, <3>4 DEF ProducerStands
        <5>2. Claimed(t) /\ ~Acknowledged(t)
          BY <5>1 DEF Claimed, Acknowledged, Progress
        <5>3. \A u \in Tokens : Claimed(u)' <=> Claimed(u)
          BY <1>6
        <5>4. \A u \in Tokens : Acknowledged(u)' <=> Acknowledged(u)
          BY <1>6
        <5> QED BY <2>1, <3>1, <5>2, <5>3, <5>4 DEF Claimed, Acknowledged
      <4> QED BY <1>1, <2>1, <3>1, <3>2, <4>1, <4>2 DEF ProducerStands
    <3> QED BY <3>1, <3>3, <3>4
  <2> QED BY <2>2, <2>3
<1>14. ShelfInv'
  <2> SUFFICES ASSUME NEW t \in Range(shelf)
               PROVE  /\ token'[t].status # "absent" /\ On(t)' \in Slots
                      /\ token'[t].epoch = carrier'[On(t)'].epoch
    BY <1>1 DEF ShelfInv, On
  <2>1. /\ t \in Tokens /\ token[t].status # "absent" /\ On(t) \in Slots
        /\ token[t].epoch = carrier[On(t)].epoch
    BY ShelfParts DEF SupplyInv, ShelfInv
  <2>2. token'[t].status # "absent" /\ On(t)' = On(t) /\ token'[t].epoch = token[t].epoch
    BY <1>12, <2>1
  <2>3. PICK s \in Slots : binding[s] = On(t)
    BY <2>1 DEF SupplyInv, Bound
  <2>4. ~(s \in calls /\ pc[s] = "make")
    <3>1. SUFFICES ASSUME s \in calls, pc[s] = "make" PROVE FALSE
      OBVIOUS
    <3>2. s \in Outputs
      BY <3>1, FiberKinds DEF SupplyInv, Shapes, InputPlaces
    <3>3. s = Out(s[1]) /\ s[1] \in Producers
      BY <3>2, OutputNames
    <3> QED BY <2>3, <3>1, <3>3, ProducerAt DEF ProducerStands
  <2>5. carrier'[On(t)].epoch = carrier[On(t)].epoch
    BY <2>3, <2>4, ExecutedShapes
  <2> QED BY <2>1, <2>2, <2>5
<1>15. OneLive'
  <2>1. ASSUME NEW t \in Tokens, NEW u \in Tokens, Made(t, calls), Live(u)', On(t)' = On(u)'
        PROVE  t = u
    <3>1. /\ t[1] \in Producers /\ Out(t[1]) \in Slots /\ On(t)' = binding[Out(t[1])]
          /\ carrier[binding[Out(t[1])]].owner = None /\ t = Current(t[1])
      <4>1. t[1] \in Producers /\ Out(t[1]) \in Slots
        BY TokenAt
      <4> QED BY <2>1, <4>1, ProducerAt DEF Made, ProducerStands
    <3>2. CASE Made(u, calls)
      <4>1. /\ u[1] \in Producers /\ Out(u[1]) \in Slots /\ On(u)' = binding[Out(u[1])]
            /\ u = Current(u[1])
        BY <3>2, TokenAt DEF Made
      <4>2. Out(t[1]) = Out(u[1])
        <5>1. binding[Out(t[1])] = binding[Out(u[1])]
          BY <2>1, <3>1, <4>1
        <5> QED BY <3>1, <4>1, <5>1 DEF SupplyInv, Bound
      <4>3. t[1] = u[1]
        BY <3>1, <4>1, <4>2, OutputNames
      <4> QED BY <3>1, <4>1, <4>3
    <3>3. CASE ~Made(u, calls)
      <4>1. Live(u) /\ On(u)' = On(u)
        BY <1>12, <2>1, <3>3 DEF UsedUp, LeftAlone, Live
      <4>2. carrier[On(u)].owner # None
        <5>1. /\ u[1] # None
              /\ OfferedTold(u) /\ ReservedTold(u) /\ (Claimed(u) => ConsumerOf(u) # None)
          BY TokenAt, OutputNames, MainNames
        <5> QED BY <4>1, <5>1 DEF Live, OfferedTold, ReservedTold
      <4> QED BY <2>1, <3>1, <4>1, <4>2
    <3> QED BY <3>2, <3>3
  <2>2. ASSUME NEW t \in Tokens, ~Made(t, calls), Live(t)' PROVE Live(t) /\ On(t)' = On(t)
    BY <1>12, <2>2 DEF UsedUp, LeftAlone, Live
  <2> QED BY <2>1, <2>2 DEF SupplyInv, OneLive
<1>16. ConsumersStand'
  <2> SUFFICES ASSUME NEW c \in Consumers PROVE ConsumerStands(c)'
    BY DEF ConsumersStand
  <2> DEFINE m == MainOf(c)
             R == <<c, "R">>
  <2>1. /\ m \in Fibers /\ m \in Mains /\ ConsumerStands(c) /\ pc[m] \in MainPlaces
    BY MainNames DEF SupplyInv, ConsumersStand, Shapes
  <2>2. ASSUME NEW r \in InitialRoles \cup {"R"}
        PROVE  /\ pc'[<<c, r>>] = pc[<<c, r>>] \/ {pc[<<c, r>>], pc'[<<c, r>>]} \subseteq Asking
               /\ pc[<<c, r>>] \notin Calls => pc'[<<c, r>>] = pc[<<c, r>>]
               /\ pc[<<c, r>>] = "got" /\ carrier[binding[<<c, r>>]].owner = c
                    /\ ~(r = "R" /\ pc[m] = "restore")
                    => carrier'[binding[<<c, r>>]].owner = c
    <3> DEFINE d == <<c, r>>
    <3>1. d \in Inputs /\ d \in Slots /\ d \in Fibers /\ pc[d] \in InputPlaces /\ d[1] = c /\ d[2] = r
      BY <2>2, InputNames, InputAt
    <3>2. CASE d \notin calls
      <4>1. pc'[d] = pc[d]
        BY <3>1, <3>2, ExecutedFibers
      <4>2. carrier'[binding[d]].owner = carrier[binding[d]].owner \/ (r = "R" /\ pc[m] = "restore")
        BY <3>1, <3>2, ExecutedShapes
      <4> QED BY <4>1, <4>2
    <3>3. CASE d \in calls
      <4>1. pc[d] \in {"park", "replace"} /\ pc[d] \in Calls
        BY <3>1, <3>3, ExecutedFibers DEF InputPlaces, Calls
      <4>2. pc'[d] \in {"parked", "handoff"}
        BY <3>3, <4>1, ExecutedFibers
      <4> QED BY <4>1, <4>2 DEF Asking
    <3> QED BY <3>2, <3>3
  <2>3. CASE m \notin calls
    <3>1. pc'[m] = pc[m]
      BY <2>1, <2>3, ExecutedFibers
    <3>2. ASSUME NEW t \in Tokens, token[t].status = "reserved", InputOf(t) = R,
                 Progress(t) = "finished"
          PROVE  token'[t].status = "reserved" /\ InputOf(t)' = R /\ Progress(t)' = "finished"
      <4>1. ~UsedUp(t, calls)
        <5>1. ConsumerOf(t) = c
          BY <3>2 DEF ConsumerOf, InputOf
        <5> QED BY <2>3, <5>1 DEF UsedUp
      <4>2. token'[t].status = "reserved"
        BY <1>12, <3>2, <4>1 DEF Made, LeftAlone
      <4> QED BY <1>6, <3>2, <4>2 DEF Underway
    <3>4. CASE \A r \in InitialRoles \cup {"R"} :
                 pc[<<c, r>>] = "got" /\ carrier[binding[<<c, r>>]].owner = c
                    => carrier'[binding'[<<c, r>>]].owner = c
      BY <1>1, <2>1, <2>2, <3>1, <3>2, <3>4, SameConsumer
    <3>5. ASSUME NEW r \in InitialRoles \cup {"R"}, pc[<<c, r>>] = "got"
          PROVE  carrier'[binding[<<c, r>>]].owner = carrier[binding[<<c, r>>]].owner
      <4>1. <<c, r>> \in Slots /\ <<c, r>> \in Inputs /\ <<c, r>>[1] = c
        BY <3>5, InputNames
      <4>2. <<c, r>> \notin calls
        BY <3>5, ExecutedFibers DEF Calls
      <4>3. \A f \in calls : Hand(f) # <<c, r>>
        <5> SUFFICES ASSUME NEW f \in calls, Hand(f) = <<c, r>> PROVE FALSE
          OBVIOUS
        <5>1. f \in Mains /\ Hand(f) = <<f[1], "R">>
          BY <4>2, HandsApart
        <5>2. f[1] = c /\ f = MainOf(f[1])
          BY <5>1, MainNames
        <5> QED BY <2>3, <5>2
      <4> QED BY <4>1, <4>3, ExecutedCarriers
    <3> QED BY <1>1, <3>4, <3>5
  <2>4. CASE m \in calls
    <3>1. pc[m] \in {"local", "inject", "restore", "final"}
      BY <2>1, <2>4, ExecutedFibers DEF MainPlaces, Calls
    <3>2. PICK at : /\ at = pc'[m]
                    /\ pc[m] = "local" => at = "prepare"
                    /\ pc[m] = "inject" => at = "consumption_complete"
                    /\ pc[m] = "restore" => at = "rotation_complete"
                    /\ pc[m] = "final" => at = "decision"
      BY <2>4, ExecutedFibers
    <3>3. pc[R] \in {"idle", "got", "end"} /\ pc'[R] = pc[R]
      <4>1. pc[R] \in {"idle", "got", "end"}
        BY <2>1, <3>1 DEF ConsumerStands
      <4>2. pc[R] \notin Calls
        BY <4>1 DEF Calls
      <4> QED BY <2>2, <4>1, <4>2
    <3>4. \A r \in InitialRoles :
            /\ r # "R"
            /\ pc'[<<c, r>>] = "got" => carrier'[binding[<<c, r>>]].owner = c
            /\ pc'[<<c, r>>] # "idle"
            /\ pc[<<c, r>>] = "got" => pc'[<<c, r>>] = "got"
      <4> SUFFICES ASSUME NEW r \in InitialRoles
                   PROVE  /\ r # "R"
                          /\ pc'[<<c, r>>] = "got" => carrier'[binding[<<c, r>>]].owner = c
                          /\ pc'[<<c, r>>] # "idle"
                          /\ pc[<<c, r>>] = "got" => pc'[<<c, r>>] = "got"
        OBVIOUS
      <4>1. r # "R"
        BY InputNames
      <4>2. /\ pc[<<c, r>>] # "idle"
            /\ pc[<<c, r>>] = "got" => carrier[binding[<<c, r>>]].owner = c
        BY <2>1 DEF ConsumerStands
      <4> QED BY <2>2, <4>1, <4>2 DEF Calls, Asking
    <3>5. pc[m] = "inject" => pc[R] = "got" /\ carrier'[binding[R]].owner = c
      BY <2>1, <2>2 DEF ConsumerStands
    <3>6. /\ pc[m] = "restore" => pc[R] = "got"
          /\ pc[m] # "local" => \A r \in InitialRoles : pc[<<c, r>>] = "got"
      BY <2>1, <3>1 DEF ConsumerStands
    <3> QED BY <1>1, <3>1, <3>2, <3>3, <3>4, <3>5, <3>6 DEF ConsumerStands
  <2> QED BY <2>3, <2>4
<1> QED BY <1>3, <1>4, <1>5, <1>7, <1>8, <1>9, <1>10, <1>11, <1>13, <1>14, <1>15, <1>16 DEF SupplyInv

-----------------------------------------------------------------------------
(* Every step.                                                               *)

\* Nothing happens, or the runtime moves on.
LEMMA SupplyStutters ==
  ASSUME SupplyInv, UNCHANGED vars
  PROVE  SupplyInv'
<1>1. UNCHANGED <<status, pc, round, rotation, binding, carrier, token, waiting, shelf, demands,
                  transfer, lease, broken, closed, capacity, faults>>
  BY DEF vars, flows, inventory
<1>2. \A t : /\ Progress(t)' = Progress(t) /\ InputOf(t)' = InputOf(t)
             /\ ConsumerOf(t)' = ConsumerOf(t) /\ (Claimed(t)' <=> Claimed(t))
             /\ (HandedOff(t)' <=> HandedOff(t)) /\ (Acknowledged(t)' <=> Acknowledged(t))
             /\ On(t)' = On(t) /\ (Live(t)' <=> Live(t))
  BY <1>1, SameDeliveries DEF On, Live
<1>3. /\ \A p : (Running(p)' <=> Running(p)) /\ Current(p)' = Current(p)
      /\ DownstreamDone' <=> DownstreamDone
  BY <1>1 DEF Running, Current, DownstreamDone
<1>4. Shapes' /\ EndsMet' /\ Bound' /\ Sited' /\ LostUnderLease' /\ ShelfInv' /\ OneLive'
  BY <1>1, <1>2, <1>3
     DEF SupplyInv, Shapes, EndsMet, Bound, Sited, Site, LostUnderLease, ShelfInv, OneLive
<1>5. Leased'
  BY <1>1, <1>2 DEF SupplyInv, Leased
<1>6. InputsStand'
  BY <1>1, <1>2 DEF SupplyInv, InputsStand, InputStands
<1>7. TokensTold'
  <2>1. \A t \in Tokens : OfferedTold(t)'
    BY <1>1, <1>2, <1>3 DEF SupplyInv, TokensTold, OfferedTold
  <2>2. \A t \in Tokens : ReservedTold(t)'
    BY <1>1, <1>2, <1>3 DEF SupplyInv, TokensTold, ReservedTold
  <2>3. \A t \in Tokens : RestTold(t)'
    BY <1>1, <1>2, <1>3 DEF SupplyInv, TokensTold, RestTold
  <2> QED BY <2>1, <2>2, <2>3 DEF TokensTold
<1>8. DeliveriesInStep'
  BY <1>1, <1>2, <1>3 DEF SupplyInv, DeliveriesInStep, InStep
<1>9. ProducersStand'
  BY <1>1, <1>2, <1>3 DEF SupplyInv, ProducersStand, ProducerStands
<1>10. ConsumersStand'
  BY <1>1, <1>2 DEF SupplyInv, ConsumersStand, ConsumerStands
<1> QED BY <1>4, <1>5, <1>6, <1>7, <1>8, <1>9, <1>10 DEF SupplyInv

\* Every step keeps the invariant.
LEMMA SupplyStep ==
  ASSUME SupplyInv, [Next]_vars
  PROVE  SupplyInv'
<1>1. CASE UNCHANGED vars
  BY <1>1, SupplyStutters
<1>2. CASE ProducerStep /\ UNCHANGED capacity
  <2>1. PICK p \in Producers : StartCycle(p) \/ Publish(p) \/ Shake(p) \/ LeaveSink(p)
    BY <1>2 DEF ProducerStep
  <2>2. CASE StartCycle(p)
    BY <1>2, <2>2, StartCycleKeeps
  <2>3. CASE Publish(p)
    BY <1>2, <2>3, PublishKeeps
  <2>4. CASE Shake(p) /\ ~HandedOff(Current(p))
    BY <1>2, <2>4, DeliverKeeps
  <2>5. CASE Shake(p) /\ HandedOff(Current(p))
    BY <1>2, <2>5, AcknowledgeKeeps
  <2>6. CASE LeaveSink(p)
    BY <1>2, <2>6, LeaveSinkKeeps
  <2> QED BY <2>1, <2>2, <2>3, <2>4, <2>5, <2>6
<1>3. CASE InputStep /\ UNCHANGED capacity
  <2>1. PICK d \in Inputs : Claim(d) \/ Wait(d) \/ GiveUp(d) \/ SourceDelivered(d) \/ HandOff(d)
                            \/ Admit(d) \/ LoseInput(d)
    BY <1>3 DEF InputStep
  <2>2. CASE Claim(d)
    BY <1>3, <2>2, ClaimKeeps
  <2>3. CASE Wait(d)
    BY <1>3, <2>3, WaitKeeps
  <2>4. CASE GiveUp(d)
    BY <1>3, <2>4, GiveUpKeeps
  <2>5. CASE SourceDelivered(d)
    BY <1>3, <2>5, SourceDeliveredKeeps
  <2>6. CASE HandOff(d)
    BY <1>3, <2>6, HandOffKeeps
  <2>7. CASE Admit(d)
    BY <1>3, <2>7, AdmitKeeps
  <2>8. CASE LoseInput(d)
    BY <1>3, <2>8, LoseInputKeeps
  <2> QED BY <2>1, <2>2, <2>3, <2>4, <2>5, <2>6, <2>7, <2>8
<1>4. CASE ConsumerStep /\ UNCHANGED capacity
  <2>1. PICK c \in Consumers : Gather(c) \/ Accept(c) \/ Reject(c) \/ RejectLast(c)
    BY <1>4 DEF ConsumerStep
  <2> QED BY <1>4, <2>1, GatherKeeps, AcceptKeeps, RejectKeeps, RejectLastKeeps
<1>5. CASE RuntimeStep /\ UNCHANGED capacity
  <2>1. CASE \E p \in Processes : ReleaseBarrier(p)
    BY <1>5, <2>1, ReleaseBarrierKeeps
  <2>2. CASE \E calls \in (SUBSET Queued) \ {{}} : Execute(calls) \/ Miscarry(calls)
    BY <1>5, <2>2, ExecuteKeeps, MiscarryKeeps
  <2>3. CASE \E f \in Queued : Refuse(f)
    BY <1>5, <2>3, RefuseKeeps
  <2>4. CASE Deadlock
    BY <1>5, <2>4, DeadlockKeeps
  <2> QED BY <1>5, <2>1, <2>2, <2>3, <2>4 DEF RuntimeStep
<1>6. CASE Finished
  BY <1>6, SupplyStutters DEF Finished
<1> QED BY <1>1, <1>2, <1>3, <1>4, <1>5, <1>6 DEF Next

\* The invariant holds in every reachable state.
THEOREM SupplyInvariant == Spec => []SupplyInv
<1> QED BY SupplyInit, SupplyStep, PTL DEF Spec

-----------------------------------------------------------------------------
(* What the invariant says of roles, checks and tokens.                      *)

\* No two roles' carriers stand on one site.
LEMMA SitesApart ==
  ASSUME SupplyInv, NEW r \in Slots, NEW s \in Slots, Site(r) = Site(s)
  PROVE  r = s
<1>1. CASE lease = None
  BY <1>1 DEF Site
<1>2. CASE lease # None
  <2> DEFINE d == InputOf(lease)
             o == Out(lease[1])
  <2>1. lease \in Tokens /\ Progress(lease) \in Underway
    BY <1>2 DEF SupplyInv, Shapes, Leased
  <2>2. Claimed(lease)
    BY <2>1 DEF Underway, Claimed, Progress
  <2>3. d \in Slots /\ o \in Slots /\ d # o /\ Parking \notin Slots
    BY <2>1, <2>2, TokenAt, OutputNames, SupplyAssumption
  <2>4. \A q \in Slots :
          Site(q) = IF q \notin {d, o} \/ Progress(lease) = "claimed" THEN q
                    ELSE IF q = d THEN IF Progress(lease) = "returned" THEN o ELSE Parking
                         ELSE IF Progress(lease) = "parked" THEN q ELSE d
    BY <1>2 DEF Site
  <2> HIDE DEF d, o
  <2> QED BY <2>1, <2>3, <2>4 DEF Underway
<1> QED BY <1>1, <1>2

\* Roles, carriers and sites keep to one another, whatever fails: no carrier is bound
\* twice, no two stand on one site, and between deliveries every one is at home.
THEOREM RolesKept == Spec => []RolesSound
<1>1. SupplyInv => RolesSound
  <2> SUFFICES ASSUME SupplyInv PROVE RolesSound
    OBVIOUS
  <2>1. SupplyTypeOK
    BY DEF SupplyInv, Shapes, SupplyTypeOK
  <2>2. \A x, y \in Slots : carrier[x].place = carrier[y].place => x = y
    <3> SUFFICES ASSUME NEW x \in Slots, NEW y \in Slots, carrier[x].place = carrier[y].place
                 PROVE  x = y
      OBVIOUS
    <3>1. PICK r \in Slots : binding[r] = x
      BY DEF SupplyInv, Bound
    <3>2. PICK s \in Slots : binding[s] = y
      BY DEF SupplyInv, Bound
    <3>3. Site(r) = Site(s)
      BY <3>1, <3>2 DEF SupplyInv, Sited
    <3> QED BY <3>1, <3>2, <3>3, SitesApart
  <2>3. NoAliasing
    BY <2>2 DEF SupplyInv, Bound, NoAliasing
  <2>4. RolesAtHome
    BY DEF SupplyInv, Sited, Site, RolesAtHome
  <2> QED BY <2>1, <2>3, <2>4 DEF RolesSound
<1> QED BY <1>1, SupplyInvariant, PTL

\* While deliveries succeed none of the checks the code repeats can refuse.
THEOREM ChecksNeverRefuse == Spec => []ChecksAgree
<1>1. SupplyInv => ChecksAgree
  <2> SUFFICES ASSUME SupplyInv PROVE ChecksAgree
    OBVIOUS
  <2>1. ~broken => \A f \in Queued : MayExecute(f)
    BY ExecuteMay
  <2>2. \A d \in Inputs :
          /\ pc[d] = "handoff" => MayHandOff(d)
          /\ (pc[d] = "ack" /\ Acknowledged(TransferOf(d))) => MayAdmit(d, TransferOf(d))
    BY HandOffMay, AdmitMay
  <2>3. \A p \in Producers :
          /\ (pc[Out(p)] = "handshake" /\ HandedOff(Current(p))) => MayAcknowledge(Current(p))
          /\ (pc[Out(p)] \in {"backpressure", "handshake"} /\ ~Claimed(Current(p)))
               => MayRetain(Current(p))
    BY AcknowledgeMay, RetainMay
  <2> QED BY <2>1, <2>2, <2>3 DEF ChecksAgree, Out
<1> QED BY <1>1, SupplyInvariant, PTL

\* No failure strands a usable token or takes one that is another's, and what lies on
\* the shelf is of its carrier's present preparation.
THEOREM InventoryIsKept == Spec => []InventoryKept
<1>1. SupplyInv => InventoryKept
  <2> SUFFICES ASSUME SupplyInv PROVE InventoryKept
    OBVIOUS
  <2>1. \A t \in Range(shelf) : token[t].epoch = carrier[token[t].on].epoch
    BY DEF SupplyInv, ShelfInv, On
  <2>2. ASSUME NEW t \in Tokens, Live(t)
        PROVE  LET x == token[t].on
                   owner == carrier[x].owner
               IN
               /\ token[t].epoch = carrier[x].epoch /\ owner \in Processes
               /\ \/ /\ token[t].status = "offered" /\ owner = t[1] /\ status[owner] # "failed"
                     /\ binding[<<owner, "out">>] = x
                  \/ /\ token[t].status = "reserved" /\ Running(owner) /\ owner = ConsumerOf(t)
                     /\ binding[transfer[t].input] = x \/ ~HandedOff(t)
    <3>1. /\ OfferedTold(t) /\ ReservedTold(t) /\ t[1] \in Processes
          /\ Claimed(t) => ConsumerOf(t) \in Processes
      BY TokenAt
    <3>2. CASE token[t].status = "offered"
      BY <3>1, <3>2 DEF OfferedTold, On, Out, Running
    <3>3. CASE token[t].status = "reserved"
      BY <3>1, <3>3 DEF ReservedTold, On, InputOf
    <3> QED BY <2>2, <3>2, <3>3 DEF Live
  <2> QED BY <2>1, <2>2 DEF InventoryKept
<1> QED BY <1>1, SupplyInvariant, PTL

-----------------------------------------------------------------------------
(* What a step may do to tokens and deliveries.                              *)

\* The steps that change them.
LEMMA StepKinds ==
  ASSUME SupplyInv, [Next]_vars
  PROVE  \/ \E S \in SUBSET Processes : \E entries : Fail(S, entries)
         \/ \E d \in Inputs : Claim(d) \/ HandOff(d) \/ Admit(d)
         \/ \E p \in Producers : Shake(p)
         \/ \E calls \in SUBSET Queued : Execute(calls)
         \/ UNCHANGED <<token, transfer, broken>>
<1>1. CASE UNCHANGED vars
  BY <1>1 DEF vars, inventory
<1>2. CASE ProducerStep
  <2>1. PICK p \in Producers : StartCycle(p) \/ Publish(p) \/ Shake(p) \/ LeaveSink(p)
    BY <1>2 DEF ProducerStep
  <2>2. {p} \in SUBSET Processes
    BY OutputNames
  <2>3. CASE StartCycle(p) \/ Publish(p)
    BY <2>3 DEF StartCycle, Publish, inventory
  <2>4. CASE LeaveSink(p)
    BY <2>2, <2>4 DEF LeaveSink, Retain
  <2> QED BY <2>1, <2>3, <2>4
<1>3. CASE InputStep
  <2>1. PICK d \in Inputs : Claim(d) \/ Wait(d) \/ GiveUp(d) \/ SourceDelivered(d) \/ HandOff(d)
                            \/ Admit(d) \/ LoseInput(d)
    BY <1>3 DEF InputStep
  <2>2. {d[1]} \in SUBSET Processes
    BY InputAt
  <2>3. CASE Wait(d) \/ SourceDelivered(d)
    BY <2>3 DEF Wait, SourceDelivered, inventory
  <2>4. CASE GiveUp(d) \/ LoseInput(d)
    BY <2>2, <2>4 DEF GiveUp, LoseInput
  <2> QED BY <2>1, <2>3, <2>4
<1>4. CASE ConsumerStep
  <2>1. PICK c \in Consumers : Gather(c) \/ Accept(c) \/ Reject(c) \/ RejectLast(c)
    BY <1>4 DEF ConsumerStep
  <2>2. {c} \in SUBSET Processes
    BY MainNames
  <2>3. CASE Gather(c) \/ Accept(c) \/ Reject(c)
    BY <2>3 DEF Gather, Accept, Reject, inventory
  <2> QED BY <2>1, <2>2, <2>3 DEF RejectLast
<1>5. CASE RuntimeStep
  <2>1. CASE \E p \in Processes : ReleaseBarrier(p)
    BY <2>1 DEF ReleaseBarrier, inventory
  <2>2. ASSUME NEW calls \in (SUBSET Queued) \ {{}}, Miscarry(calls)
        PROVE  \E S \in SUBSET Processes : \E entries : Fail(S, entries)
    <3>1. {f[1] : f \in calls} \in SUBSET Processes
      BY FiberKinds DEF Queued
    <3> QED BY <2>2, <3>1 DEF Miscarry
  <2>3. ASSUME NEW f \in Queued, Refuse(f)
        PROVE  \E S \in SUBSET Processes : \E entries : Fail(S, entries)
    <3>1. {f[1]} \in SUBSET Processes
      BY FiberKinds DEF Queued
    <3> QED BY <2>3, <3>1 DEF Refuse
  <2>4. CASE Deadlock
    <3>1. {p \in Processes : Running(p)} \in SUBSET Processes
      OBVIOUS
    <3> QED BY <2>4, <3>1 DEF Deadlock
  <2> QED BY <1>5, <2>1, <2>2, <2>3, <2>4 DEF RuntimeStep
<1>6. CASE Finished
  BY <1>6 DEF Finished, vars, inventory
<1> QED BY <1>1, <1>2, <1>3, <1>4, <1>5, <1>6 DEF Next

\* What the other steps do to the token they are about.
LEMMA StepTells ==
  ASSUME SupplyInv
  PROVE  /\ \A d \in Inputs : Claim(d) =>
              /\ ~broken /\ lease = None /\ Head(Available) \in Tokens
              /\ token[Head(Available)].status = "offered"
              /\ token'[Head(Available)].status = "reserved"
              /\ transfer'[Head(Available)].progress = "claimed"
              /\ \A t \in Tokens \ {Head(Available)} :
                   token'[t].status = token[t].status /\ transfer'[t].progress = transfer[t].progress
              /\ broken' = broken
         /\ \A d \in Inputs : HandOff(d) =>
              /\ lease \in Tokens /\ token[lease].status = "reserved" /\ ~HandedOff(lease)
              /\ transfer'[lease].progress = "handed_off"
              /\ token' = token /\ \A t \in Tokens \ {lease} : transfer'[t] = transfer[t]
              /\ broken' = broken
         /\ \A d \in Inputs : Admit(d) =>
              /\ TransferOf(d) \in Tokens /\ token[TransferOf(d)].status = "reserved"
              /\ HandedOff(TransferOf(d)) /\ transfer'[TransferOf(d)].progress = "finished"
              /\ token'[TransferOf(d)].status \in {"reserved", "consumed"}
              /\ \A t \in Tokens \ {TransferOf(d)} :
                   token'[t].status = token[t].status /\ transfer'[t].progress = transfer[t].progress
              /\ broken' = broken
         /\ \A p \in Producers : Shake(p) =>
              /\ token' = token /\ broken' = broken
              /\ \A t \in Tokens : (HandedOff(t)' <=> HandedOff(t))
<1>1. /\ \A t \in Tokens : DOMAIN token[t] = {"status", "on", "epoch", "consumer"}
      /\ \A t \in Tokens : DOMAIN transfer[t] = {"progress", "input", "replacement"}
      /\ DOMAIN token = Tokens /\ DOMAIN transfer = Tokens
  BY DEF SupplyInv, Shapes
<1>2. ASSUME NEW d \in Inputs, Claim(d)
      PROVE  /\ ~broken /\ lease = None /\ Head(Available) \in Tokens
             /\ token[Head(Available)].status = "offered"
             /\ token'[Head(Available)].status = "reserved"
             /\ transfer'[Head(Available)].progress = "claimed"
             /\ \A t \in Tokens \ {Head(Available)} :
                  token'[t].status = token[t].status /\ transfer'[t].progress = transfer[t].progress
             /\ broken' = broken
  <2>1. ~broken /\ lease = None /\ Available # <<>> /\ broken' = broken
    BY <1>2 DEF Claim, CanStart
  <2>2. PICK h \in Tokens : h = Head(Available) /\ token[h].status = "offered"
    BY <2>1, ShelfParts DEF SupplyInv
  <2>3. /\ token' = [token EXCEPT ![h].status = "reserved", ![h].consumer = d[1]]
        /\ transfer' = [transfer EXCEPT ![h] = [progress |-> "claimed", input |-> d,
                                                 replacement |-> binding[d]]]
    BY <1>2, <2>2 DEF Claim
  <2> QED BY <1>1, <2>1, <2>2, <2>3
<1>3. ASSUME NEW d \in Inputs, HandOff(d)
      PROVE  /\ lease \in Tokens /\ token[lease].status = "reserved" /\ ~HandedOff(lease)
             /\ transfer'[lease].progress = "handed_off"
             /\ token' = token /\ \A t \in Tokens \ {lease} : transfer'[t] = transfer[t]
             /\ broken' = broken
  <2>1. /\ lease \in Tokens /\ Progress(lease) \in Underway
    BY <1>3, LeaseOf DEF HandOff
  <2>2. token[lease].status = "reserved" /\ ~HandedOff(lease)
    BY <1>3, <2>1 DEF HandOff, MayHandOff, HandedOff, Progress, Underway
  <2>3. transfer' = [transfer EXCEPT ![lease].progress = "handed_off"]
        /\ token' = token /\ broken' = broken
    BY <1>3 DEF HandOff
  <2> QED BY <1>1, <2>1, <2>2, <2>3
<1>4. ASSUME NEW d \in Inputs, Admit(d)
      PROVE  /\ TransferOf(d) \in Tokens /\ token[TransferOf(d)].status = "reserved"
             /\ HandedOff(TransferOf(d)) /\ transfer'[TransferOf(d)].progress = "finished"
             /\ token'[TransferOf(d)].status \in {"reserved", "consumed"}
             /\ \A t \in Tokens \ {TransferOf(d)} :
                  token'[t].status = token[t].status /\ transfer'[t].progress = transfer[t].progress
             /\ broken' = broken
  <2>1. PICK h \in Tokens : h = TransferOf(d) /\ Progress(h) \in Received
    BY <1>4, TransferIs DEF Admit
  <2>2. /\ token[h].status = "reserved" /\ broken' = broken
        /\ transfer' = [transfer EXCEPT ![h].progress = "finished"]
        /\ token' = IF d[2] = "R" THEN token ELSE [token EXCEPT ![h].status = "consumed"]
    BY <1>4, <2>1 DEF Admit, MayAdmit
  <2>3. HandedOff(h)
    BY <2>1 DEF HandedOff, Progress, Received
  <2>4. token'[h].status \in {"reserved", "consumed"}
    BY <1>1, <2>2
  <2>5. \A t \in Tokens \ {h} :
          token'[t].status = token[t].status /\ transfer'[t].progress = transfer[t].progress
    BY <1>1, <2>2
  <2>6. transfer'[h].progress = "finished"
    BY <1>1, <2>2
  <2> QED BY <2>1, <2>2, <2>3, <2>4, <2>5, <2>6
<1>5. ASSUME NEW p \in Producers, Shake(p)
      PROVE  /\ token' = token /\ broken' = broken
             /\ \A t \in Tokens : (HandedOff(t)' <=> HandedOff(t))
  <2>1. PICK h : /\ h = Current(p)
                 /\ transfer' = IF HandedOff(h) THEN [transfer EXCEPT ![h].progress = "acknowledged"]
                                ELSE transfer
    BY <1>5 DEF Shake
  <2>2. \A t \in Tokens : HandedOff(t)' <=> HandedOff(t)
    BY <1>1, <2>1 DEF HandedOff
  <2> QED BY <1>5, <2>2 DEF Shake
<1> QED BY <1>2, <1>3, <1>4, <1>5

\* Tokens are discarded by the failures of the processes that hold them.
LEMMA DiscardStep ==
  ASSUME SupplyInv, [Next]_vars, NEW t \in Tokens,
         token[t].status # "discarded", token'[t].status = "discarded"
  PROVE  status'[carrier[token[t].on].owner] = "failed"
<1>1. DOMAIN token = Tokens /\ DOMAIN token[t] = {"status", "on", "epoch", "consumer"}
  BY DEF SupplyInv, Shapes
<1>2. ASSUME NEW S \in SUBSET Processes, NEW entries, Fail(S, entries)
      PROVE  status'[carrier[token[t].on].owner] = "failed"
  <2>1. t \in Abandoned(S)
    BY <1>2 DEF Fail
  <2>2. carrier[token[t].on].owner \in S
    BY <2>1 DEF Abandoned, Owned
  <2> QED BY <1>2, <2>2 DEF Fail
<1>3. ASSUME NEW d \in Inputs, Claim(d) \/ HandOff(d) \/ Admit(d)
      PROVE  FALSE
  BY <1>3, StepTells
<1>4. ASSUME NEW p \in Producers, Shake(p)
      PROVE  FALSE
  BY <1>4 DEF Shake
<1>5. ASSUME NEW calls \in SUBSET Queued, Execute(calls)
      PROVE  FALSE
  BY <1>5, ExecutedTokens DEF Made, UsedUp, LeftAlone
<1> QED BY <1>2, <1>3, <1>4, <1>5, StepKinds

\* A token is discarded only in a step that fails the process holding it.
THEOREM KeeperDiscards == Spec => DiscardByKeeper
<1>1. SupplyInv /\ [Next]_vars =>
        [\A t \in Tokens :
           (token[t].status # "discarded" /\ token'[t].status = "discarded")
             => status'[carrier[token[t].on].owner] = "failed"]_vars
  BY DiscardStep
<1> QED BY <1>1, SupplyInvariant, PTL DEF Spec, DiscardByKeeper

-----------------------------------------------------------------------------
(* The contract.                                                             *)

\* Fates, by the status of a token.
LEMMA FateIs ==
  /\ \A t : /\ token[t].status = "absent" => Fate(t) = "unmade"
            /\ token[t].status = "offered" => Fate(t) = "stock"
            /\ token[t].status = "reserved" /\ HandedOff(t) => Fate(t) = "held"
            /\ token[t].status = "reserved" /\ ~HandedOff(t) => Fate(t) = "transit"
            /\ token[t].status = "consumed" => Fate(t) = "used"
            /\ token[t].status = "discarded" => Fate(t) = "lost"
  /\ \A t : /\ token'[t].status = "absent" => Fate(t)' = "unmade"
            /\ token'[t].status = "offered" => Fate(t)' = "stock"
            /\ token'[t].status = "reserved" /\ HandedOff(t)' => Fate(t)' = "held"
            /\ token'[t].status = "reserved" /\ ~HandedOff(t)' => Fate(t)' = "transit"
            /\ token'[t].status = "consumed" => Fate(t)' = "used"
            /\ token'[t].status = "discarded" => Fate(t)' = "lost"
BY DEF Fate

\* There is one delivery under way at most: the one that holds the lease.
TransitLeased == \A t \in Tokens : Fate(t) = "transit" => lease = t

\* The lease is with the delivery under way.
LEMMA TransitIsLease == ASSUME SupplyInv PROVE TransitLeased
<1> SUFFICES ASSUME NEW t \in Tokens, Fate(t) = "transit" PROVE lease = t
  BY DEF TransitLeased
<1>1. token[t].status \in {"absent", "offered", "reserved", "consumed", "discarded"}
  BY DEF SupplyInv, Shapes
<1>2. token[t].status = "reserved" /\ ~HandedOff(t)
  BY <1>1, FateIs
<1>3. Claimed(t) /\ (Progress(t) = "finished" => HandedOff(t))
  BY <1>2, TokenAt DEF ReservedTold, HandedOff, Progress
<1>4. Progress(t) \in Underway
  BY <1>2, <1>3, TokenAt DEF Progresses, Received, HandedOff, Progress
<1> QED BY <1>4 DEF SupplyInv, Leased

\* How one step may change the fate of a token.
FateMoves(t) ==
  \/ Fate(t)' = Fate(t)
  \/ Fate(t) = "unmade" /\ Fate(t)' = "stock"
  \/ Fate(t) = "stock" /\ Fate(t)' = "transit" /\ ~broken
  \/ Fate(t) = "transit" /\ Fate(t)' = "held"
  \/ Fate(t) = "held" /\ Fate(t)' = "used"
  \/ Fate(t) \in {"stock", "held"} /\ Fate(t)' = "lost"
  \/ Fate(t) = "transit" /\ Fate(t)' = "lost" /\ broken'

\* A failure loses what its processes hold, and a delivery only to an end of sales.
LEMMA FailMoves ==
  ASSUME SupplyInv, NEW S \in SUBSET Processes, NEW entries, Fail(S, entries), NEW t \in Tokens
  PROVE  FateMoves(t)
<1>1. HandedOff(t)' <=> HandedOff(t)
  BY DEF Fail, HandedOff
<1>2. /\ token[t].status \in {"absent", "offered", "reserved", "consumed", "discarded"}
      /\ DOMAIN token[t] = {"status", "on", "epoch", "consumer"}
  BY DEF SupplyInv, Shapes
<1>3. CASE t \notin Abandoned(S)
  <2>1. token'[t] = token[t]
    BY <1>3 DEF Fail
  <2>2. Fate(t)' = Fate(t)
    BY <1>1, <1>2, <2>1, FateIs
  <2> QED BY <2>2 DEF FateMoves
<1>4. CASE t \in Abandoned(S)
  <2>1. token'[t].status = "discarded" /\ Live(t) /\ carrier[token[t].on].owner \in S
    BY <1>2, <1>4 DEF Fail, Abandoned, Owned
  <2>2. Fate(t)' = "lost" /\ Fate(t) \in {"stock", "held", "transit"}
    BY <2>1, FateIs DEF Live
  <2>3. ASSUME Fate(t) = "transit" PROVE broken'
    <3>1. token[t].status = "reserved" /\ ~HandedOff(t)
      BY <1>2, <2>3, FateIs
    <3>2. Claimed(t) /\ carrier[token[t].on].owner = ConsumerOf(t)
      BY <3>1, TokenAt DEF ReservedTold, On
    <3>3. Cut(t, S)
      BY <2>1, <3>1, <3>2 DEF Cut, HandedOff
    <3> QED BY <3>3 DEF Fail
  <2> QED BY <2>2, <2>3 DEF FateMoves
<1> QED BY <1>3, <1>4

\* Every step moves every token as the contract says.
LEMMA FatesMove ==
  ASSUME SupplyInv, [Next]_vars, NEW t \in Tokens
  PROVE  FateMoves(t)
<1>1. token[t].status \in {"absent", "offered", "reserved", "consumed", "discarded"}
  BY DEF SupplyInv, Shapes
<1>2. ASSUME token'[t].status = token[t].status, HandedOff(t)' <=> HandedOff(t)
      PROVE  FateMoves(t)
  <2>1. Fate(t)' = Fate(t)
    BY <1>1, <1>2, FateIs
  <2> QED BY <2>1 DEF FateMoves
<1>3. ASSUME NEW d \in Inputs, Claim(d) PROVE FateMoves(t)
  <2>1. CASE t = Head(Available)
    BY <1>3, <2>1, StepTells, FateIs DEF HandedOff, FateMoves
  <2>2. CASE t # Head(Available)
    <3>1. token'[t].status = token[t].status /\ transfer'[t].progress = transfer[t].progress
      BY <1>3, <2>2, StepTells
    <3> QED BY <1>2, <3>1 DEF HandedOff
  <2> QED BY <2>1, <2>2
<1>4. ASSUME NEW d \in Inputs, HandOff(d) PROVE FateMoves(t)
  <2>1. CASE t = lease
    <3>1. /\ token[t].status = "reserved" /\ ~HandedOff(t) /\ token' = token
          /\ transfer'[t].progress = "handed_off"
      BY <1>4, <2>1, StepTells
    <3>2. HandedOff(t)'
      BY <3>1 DEF HandedOff
    <3> QED BY <3>1, <3>2, FateIs DEF FateMoves
  <2>2. CASE t # lease
    <3>1. token'[t].status = token[t].status /\ transfer'[t] = transfer[t]
      BY <1>4, <2>2, StepTells
    <3> QED BY <1>2, <3>1 DEF HandedOff
  <2> QED BY <2>1, <2>2
<1>5. ASSUME NEW d \in Inputs, Admit(d) PROVE FateMoves(t)
  <2>1. CASE t = TransferOf(d)
    <3>1. /\ token[t].status = "reserved" /\ HandedOff(t)
          /\ token'[t].status \in {"reserved", "consumed"}
          /\ transfer'[t].progress = "finished"
      BY <1>5, <2>1, StepTells
    <3>2. HandedOff(t)'
      BY <3>1 DEF HandedOff
    <3> QED BY <3>1, <3>2, FateIs DEF FateMoves
  <2>2. CASE t # TransferOf(d)
    <3>1. token'[t].status = token[t].status /\ transfer'[t].progress = transfer[t].progress
      BY <1>5, <2>2, StepTells
    <3> QED BY <1>2, <3>1 DEF HandedOff
  <2> QED BY <2>1, <2>2
<1>6. ASSUME NEW p \in Producers, Shake(p) PROVE FateMoves(t)
  BY <1>2, <1>6, StepTells
<1>7. ASSUME NEW calls \in SUBSET Queued, Execute(calls) PROVE FateMoves(t)
  <2>1. HandedOff(t)' <=> HandedOff(t)
    BY <1>7, ExecutedDeliveries
  <2>2. CASE Made(t, calls)
    BY <2>2, FateIs DEF Made, FateMoves
  <2>3. CASE UsedUp(t, calls)
    BY <2>3, FateIs DEF UsedUp, FateMoves, HandedOff, Progress
  <2>4. CASE LeftAlone(t, calls)
    BY <1>2, <2>1, <2>4 DEF LeftAlone
  <2> QED BY <1>7, <2>2, <2>3, <2>4, ExecutedTokens
<1>8. CASE UNCHANGED <<token, transfer, broken>>
  BY <1>2, <1>8 DEF HandedOff
<1> QED BY <1>3, <1>4, <1>5, <1>6, <1>7, <1>8, FailMoves, StepKinds

\* Once a delivery was lost, it stays lost.
LEMMA BrokenStays == ASSUME SupplyInv, [Next]_vars, broken PROVE broken'
<1>1. ASSUME NEW S \in SUBSET Processes, NEW entries, Fail(S, entries) PROVE broken'
  BY <1>1 DEF Fail
<1>2. ASSUME NEW calls \in SUBSET Queued, Execute(calls) PROVE broken'
  BY <1>2 DEF Execute
<1> QED BY <1>1, <1>2, StepKinds, StepTells

\* A step of the supply is a step of the contract.
LEMMA ContractStep ==
  ASSUME SupplyInv, TransitLeased', [Next]_vars PROVE Contract!Next
<1>1. \A t \in Tokens : FateMoves(t)
  BY FatesMove
<1>2. \A t \in Tokens : Fate(t)' = Fate(t)
                        \/ <<Fate(t), Fate(t)'>> \in Contract!Steps \cup Contract!Losses
  BY <1>1 DEF FateMoves, Contract!Steps, Contract!Losses
<1>3. \A t, u \in Tokens : Fate(t)' = "transit" /\ Fate(u)' = "transit" => t = u
  BY DEF TransitLeased
<1>4. broken => Contract!Sold = {} /\ broken'
  BY <1>1, BrokenStays DEF FateMoves, Contract!Sold
<1>5. Contract!LostUnderway # {} => broken'
  BY <1>1 DEF FateMoves, Contract!LostUnderway
<1> QED BY <1>2, <1>3, <1>4, <1>5 DEF Contract!Next

\* The supply keeps its contract: a token is made, sold, delivered and used at
\* most once and in that order, one delivery is under way at a time, and one
\* that is lost ends the sales.
THEOREM ContractKept == Spec => KeepsContract
<1>1. Init => Contract!Init
  <2> SUFFICES ASSUME Init PROVE Contract!Init
    OBVIOUS
  <2>1. \A t \in Tokens : token[t].status = "absent"
    BY DEF Init
  <2>2. \A t \in Tokens : Fate(t) = "unmade"
    BY <2>1, FateIs
  <2> QED BY <2>2 DEF Init, Contract!Init
<1>2. SupplyInv => TransitLeased
  BY TransitIsLease
<1>3. SupplyInv /\ TransitLeased' /\ [Next]_vars => Contract!Next
  BY ContractStep
<1> QED BY <1>1, <1>2, <1>3, SupplyInvariant, PTL DEF Spec, KeepsContract, Contract!Spec

-----------------------------------------------------------------------------
(* What a run waits for.                                                     *)

\* No element of a list comes twice.
Single(list) == \A i, j \in DOMAIN list : list[i] = list[j] => i = j

\* What is kept of a list is all that lies in the set, once for each time it was
\* there.
LEMMA KeptAll ==
  ASSUME NEW T, NEW list \in Seq(T), NEW set
  PROVE  /\ Range(Kept(list, set)) = Range(list) \cap set
         /\ Single(list) => /\ Len(Kept(list, set)) =< Len(list)
                            /\ Single(Kept(list, set))
<1> DEFINE g == CHOOSE h : KeepsUpTo(h, list, set, Len(list))
           Upto(i) == {list[j] : j \in 1..i} \cap set
           Good(i) == /\ g[i] \in Seq(T) /\ Range(g[i]) = Upto(i) /\ Len(g[i]) =< i
                      /\ Single(list) => Single(g[i])
<1>1. Len(list) \in Nat /\ Kept(list, set) = g[Len(list)]
  BY DEF Kept, KeepsUpTo
<1>2. KeepsUpTo(g, list, set, Len(list))
  BY <1>1, KeepingGoesOn
<1> HIDE DEF g
<1>3. \A i \in 0..Len(list) : g[i] = IF i = 0 THEN <<>>
             ELSE IF list[i] \in set THEN Append(g[i - 1], list[i]) ELSE g[i - 1]
  BY <1>2 DEF KeepsUpTo
<1>4. \A k \in 0..Len(list) : Good(k)
  <2> DEFINE Bad == {i \in 0..Len(list) : ~Good(i)}
  <2> SUFFICES ASSUME Bad # {} PROVE FALSE
    OBVIOUS
  <2>1. PICK i \in Bad : \A k \in Bad : i =< k
    <3>1. Bad \in SUBSET Nat
      BY <1>1
    <3> HIDE DEF Bad
    <3> QED BY <3>1, LeastNumber
  <2>2. Good(0)
    <3>1. g[0] = <<>>
      BY <1>1, <1>3
    <3>2. <<>> \in Seq(T) /\ Range(<<>>) = {} /\ Len(<<>>) = 0 /\ Single(<<>>)
      BY DEF Range, Single
    <3>3. Upto(0) = {}
      OBVIOUS
    <3> QED BY <3>1, <3>2, <3>3
  <2>3. i \in 0..Len(list) /\ ~Good(i)
    BY <2>1
  <2>4. \A k \in 0..Len(list) : k < i => Good(k)
    <3> HIDE DEF Good
    <3> QED BY <2>1, <2>3, <1>1
  <2>5. i # 0
    <3> HIDE DEF Good
    <3> QED BY <2>2, <2>3
  <2>6. i \in 1..Len(list) /\ i - 1 \in 0..Len(list) /\ i - 1 < i /\ i \in Nat
    <3> HIDE DEF Good
    <3> QED BY <2>3, <2>5, <1>1
  <2>7. Good(i - 1)
    <3> HIDE DEF Good
    <3> QED BY <2>4, <2>6
  <2> DEFINE h == g[i - 1]
             x == list[i]
  <2>8. h \in Seq(T) /\ Range(h) = Upto(i - 1) /\ Len(h) =< i - 1 /\ (Single(list) => Single(h))
    BY <2>7
  <2>9. g[i] = IF x \in set THEN Append(h, x) ELSE h
    BY <1>3, <2>5, <2>3
  <2> HIDE DEF h
  <2>10. Upto(i) = Upto(i - 1) \cup ({x} \cap set)
    BY <2>6
  <2>11. x \in T
    BY <2>6
  <2>12. CASE x \in set
    <3>1. g[i] = Append(h, x)
      BY <2>9, <2>12
    <3>2. /\ Append(h, x) \in Seq(T) /\ Len(Append(h, x)) = Len(h) + 1
          /\ \A k \in 1..Len(h) : Append(h, x)[k] = h[k]
          /\ Append(h, x)[Len(h) + 1] = x
          /\ DOMAIN h = 1..Len(h) /\ DOMAIN Append(h, x) = 1..(Len(h) + 1) /\ Len(h) \in Nat
      BY <2>8, <2>11
    <3>3. Range(Append(h, x)) = Range(h) \cup {x}
      BY <3>2 DEF Range
    <3>4. Single(list) => x \notin Range(h)
      <4>1. ASSUME Single(list), NEW j \in 1..(i - 1), list[j] = list[i] PROVE FALSE
        BY <4>1, <2>6 DEF Single
      <4> QED BY <2>8, <4>1
    <3>5. Single(list) => Single(Append(h, x))
      <4> SUFFICES ASSUME Single(list), NEW a \in 1..(Len(h) + 1), NEW b \in 1..(Len(h) + 1),
                          Append(h, x)[a] = Append(h, x)[b]
                   PROVE  a = b
        BY <3>2 DEF Single
      <4>1. \A k \in 1..Len(h) : h[k] # x
        BY <3>2, <3>4 DEF Range
      <4>2. \A k \in 1..(Len(h) + 1) : k \in 1..Len(h) \/ k = Len(h) + 1
        <5>1. Len(h) \in Nat
          BY <3>2
        <5> QED BY <5>1
      <4>3. \A k, l \in 1..Len(h) : h[k] = h[l] => k = l
        BY <2>8, <3>2 DEF Single
      <4> QED BY <3>2, <4>1, <4>2, <4>3
    <3>6. Range(g[i]) = Upto(i)
      BY <2>8, <2>10, <2>12, <3>1, <3>3
    <3>7. Len(g[i]) =< i
      BY <2>6, <2>8, <3>1, <3>2
    <3> QED BY <2>3, <3>1, <3>2, <3>5, <3>6, <3>7
  <2>13. CASE x \notin set
    <3>1. g[i] = h
      BY <2>9, <2>13
    <3>2. Upto(i) = Upto(i - 1)
      BY <2>10, <2>13
    <3>3. Len(h) =< i
      BY <2>6, <2>8
    <3> QED BY <2>3, <2>8, <3>1, <3>2, <3>3
  <2> QED BY <2>12, <2>13
<1>5. Good(Len(list))
  <2>1. Len(list) \in 0..Len(list)
    BY <1>1
  <2> HIDE DEF Good
  <2> QED BY <2>1, <1>4
<1>6. Upto(Len(list)) = Range(list) \cap set
  BY DEF Range
<1> HIDE DEF Upto
<1> QED BY <1>1, <1>5, <1>6

\* A longer list holds what was in it and the new element.
LEMMA AppendAll ==
  ASSUME NEW T, NEW list \in Seq(T), NEW x \in T
  PROVE  /\ Append(list, x) \in Seq(T) /\ Len(Append(list, x)) = Len(list) + 1
         /\ Range(Append(list, x)) = Range(list) \cup {x}
         /\ Single(list) /\ x \notin Range(list) => Single(Append(list, x))
<1>1. /\ Append(list, x) \in Seq(T) /\ Len(Append(list, x)) = Len(list) + 1
      /\ \A k \in 1..Len(list) : Append(list, x)[k] = list[k]
      /\ Append(list, x)[Len(list) + 1] = x
      /\ DOMAIN list = 1..Len(list) /\ DOMAIN Append(list, x) = 1..(Len(list) + 1) /\ Len(list) \in Nat
  OBVIOUS
<1>2. Range(Append(list, x)) = Range(list) \cup {x}
  BY <1>1 DEF Range
<1>3. ASSUME Single(list), x \notin Range(list) PROVE Single(Append(list, x))
  <2> SUFFICES ASSUME NEW a \in 1..(Len(list) + 1), NEW b \in 1..(Len(list) + 1),
                      Append(list, x)[a] = Append(list, x)[b]
               PROVE  a = b
    BY <1>1 DEF Single
  <2>1. \A k \in 1..Len(list) : list[k] # x
    BY <1>1, <1>3 DEF Range
  <2>2. \A k \in 1..(Len(list) + 1) : k \in 1..Len(list) \/ k = Len(list) + 1
    <3>1. Len(list) \in Nat
      BY <1>1
    <3> QED BY <3>1
  <2>3. \A k, l \in 1..Len(list) : list[k] = list[l] => k = l
    BY <1>1, <1>3 DEF Single
  <2> QED BY <1>1, <2>1, <2>2, <2>3
<1> QED BY <1>1, <1>2, <1>3

\* A list without its head holds all the rest.
LEMMA TailAll ==
  ASSUME NEW T, NEW list \in Seq(T), list # <<>>
  PROVE  /\ Tail(list) \in Seq(T) /\ Head(list) \in Range(list) /\ Head(list) \in T
         /\ Single(list) => Single(Tail(list)) /\ Range(Tail(list)) = Range(list) \ {Head(list)}
<1>1. /\ Len(list) \in Nat \ {0} /\ DOMAIN list = 1..Len(list) /\ Head(list) = list[1]
      /\ Tail(list) \in Seq(T) /\ Len(Tail(list)) = Len(list) - 1
      /\ DOMAIN Tail(list) = 1..(Len(list) - 1)
      /\ \A i \in 1..(Len(list) - 1) : Tail(list)[i] = list[i + 1]
  OBVIOUS
<1>2. Head(list) \in Range(list) /\ Head(list) \in T
  BY <1>1 DEF Range
<1>3. ASSUME Single(list) PROVE Single(Tail(list)) /\ Range(Tail(list)) = Range(list) \ {Head(list)}
  <2>1. \A i \in 1..(Len(list) - 1) : i \in Nat /\ i + 1 \in 1..Len(list) /\ i + 1 # 1
    BY <1>1
  <2>2. \A i \in 1..Len(list) : i # 1 => i - 1 \in 1..(Len(list) - 1) /\ (i - 1) + 1 = i
    BY <1>1
  <2>3. Single(Tail(list))
    BY <1>1, <1>3, <2>1 DEF Single
  <2>4. Range(Tail(list)) \subseteq Range(list) \ {Head(list)}
    BY <1>1, <1>3, <2>1 DEF Single, Range
  <2>5. Range(list) \ {Head(list)} \subseteq Range(Tail(list))
    <3> SUFFICES ASSUME NEW i \in 1..Len(list), i # 1 PROVE list[i] \in Range(Tail(list))
      BY <1>1 DEF Range
    <3>1. i - 1 \in DOMAIN Tail(list) /\ Tail(list)[i - 1] = list[i]
      BY <1>1, <2>2
    <3> QED BY <3>1 DEF Range
  <2> QED BY <2>3, <2>4, <2>5
<1> QED BY <1>1, <1>2, <1>3

\* The barrier a consumer is on its way to.
Heading(at) ==
  CASE at \in {"local", "prepare", "inputs_ready"} -> "inputs_ready"
    [] at \in {"rotate", "raw_prepared"} -> "raw_prepared"
    [] at \in {"inject", "consumption_complete"} -> "consumption_complete"
    [] at \in {"restore", "rotation_complete"} -> "rotation_complete"
    [] at \in {"final", "decision"} -> "decision"
    [] OTHER -> at

\* Two running consumers are on their way to the same barrier, but for one that
\* starts its next batch while the other still has its last one decided.
Together(c, d) ==
  /\ round[c] = round[d] /\ rotation[c] = rotation[d]
  /\ Heading(pc[MainOf(c)]) = Heading(pc[MainOf(d)])
Ahead(c, d) ==
  /\ round[c] = round[d] + 1 /\ rotation[c] = 0
  /\ pc[MainOf(c)] = "local" /\ pc[MainOf(d)] = "decided"
Lockstep ==
  /\ DOMAIN rotation = Consumers
  /\ \A c, d \in Consumers :
       Running(c) /\ Running(d) => Together(c, d) \/ Ahead(c, d) \/ Ahead(d, c)

\* The rotations' input is asked for when the rotations begin.
RotationStands ==
  \A c \in Consumers :
    /\ pc[MainOf(c)] \in {"local", "prepare", "inputs_ready"} => pc[<<c, "R">>] = "idle"
    /\ pc[MainOf(c)] = "rotate" => pc[<<c, "R">>] # "idle"

\* The carrier of an input that asks for a token is free.
HandsFree ==
  /\ \A d \in Inputs : pc[d] \in {"idle", "ask", "wait"} => carrier[binding[d]].owner = None
  /\ \A c \in Consumers :
       (/\ pc[<<c, "R">>] = "got"
        /\ pc[MainOf(c)] \in {"rotation_complete", "final", "decision", "decided"})
         => carrier[binding[<<c, "R">>]].owner = None

\* The two lines hold the fibers that wait in them.
Demanded == \A d \in Inputs : d \in Range(demands) <=> pc[d] = "wait"
InLine ==
  /\ Single(waiting)
  /\ \A t \in Tokens : t \in Range(waiting) <=> pc[Out(t[1])] = "backpressure" /\ t = Current(t[1])

\* The shelf has room, and what is on offer there at its producer's handshake.
Shelved ==
  /\ Len(shelf) =< capacity /\ Single(shelf)
  /\ closed => DownstreamDone
  /\ \A p \in Producers :
       pc[Out(p)] = "handshake" /\ token[Current(p)].status = "offered" => Current(p) \in Range(shelf)

WaitInv == Lockstep /\ RotationStands /\ HandsFree /\ Demanded /\ InLine /\ Shelved

\* The steps there are, failures taken together.
LEMMA EveryStep ==
  ASSUME SupplyInv, [Next]_vars
  PROVE  /\ capacity' = capacity
         /\ \/ UNCHANGED vars
            \/ \E S \in SUBSET Processes : Fail(S, shelf) \/ Fail(S, Reaped)
            \/ \E p \in Producers :
                 \/ StartCycle(p) \/ Publish(p) \/ Shake(p)
                 \/ /\ DownstreamDone /\ pc[Out(p)] \in {"offer", "backpressure", "handshake"}
                    /\ Retain(p)
            \/ \E d \in Inputs : Claim(d) \/ Wait(d) \/ SourceDelivered(d) \/ HandOff(d) \/ Admit(d)
            \/ \E c \in Consumers : Gather(c) \/ Accept(c) \/ Reject(c)
            \/ \E p \in Processes : ReleaseBarrier(p)
            \/ \E calls \in SUBSET Queued : Execute(calls)
<1>1. CASE UNCHANGED vars
  BY <1>1 DEF vars
<1>2. CASE ProducerStep /\ UNCHANGED capacity
  <2>1. PICK p \in Producers : StartCycle(p) \/ Publish(p) \/ Shake(p) \/ LeaveSink(p)
    BY <1>2 DEF ProducerStep
  <2>2. {p} \in SUBSET Processes
    BY OutputNames
  <2>3. CASE LeaveSink(p)
    <3>1. pc[Out(p)] \in {"offer", "backpressure", "handshake"}
      BY <2>3 DEF LeaveSink, Out
    <3>2. (DownstreamDone /\ Retain(p)) \/ Fail({p}, Reaped)
      BY <2>3 DEF LeaveSink
    <3> QED BY <1>2, <2>2, <3>1, <3>2
  <2> QED BY <1>2, <2>1, <2>3
<1>3. CASE InputStep /\ UNCHANGED capacity
  <2>1. PICK d \in Inputs : Claim(d) \/ Wait(d) \/ GiveUp(d) \/ SourceDelivered(d) \/ HandOff(d)
                            \/ Admit(d) \/ LoseInput(d)
    BY <1>3 DEF InputStep
  <2>2. {d[1]} \in SUBSET Processes
    BY InputAt
  <2>3. CASE GiveUp(d) \/ LoseInput(d)
    <3>1. Fail({d[1]}, shelf) \/ Fail({d[1]}, Reaped)
      BY <2>3 DEF GiveUp, LoseInput
    <3> QED BY <1>3, <2>2, <3>1
  <2> QED BY <1>3, <2>1, <2>3
<1>4. CASE ConsumerStep /\ UNCHANGED capacity
  <2>1. PICK c \in Consumers : Gather(c) \/ Accept(c) \/ Reject(c) \/ RejectLast(c)
    BY <1>4 DEF ConsumerStep
  <2>2. {c} \in SUBSET Processes
    BY MainNames
  <2> QED BY <1>4, <2>1, <2>2 DEF RejectLast
<1>5. CASE RuntimeStep /\ UNCHANGED capacity
  <2>1. CASE \E p \in Processes : ReleaseBarrier(p)
    BY <1>5, <2>1
  <2>2. ASSUME NEW calls \in (SUBSET Queued) \ {{}}, Miscarry(calls)
        PROVE  \E S \in SUBSET Processes : Fail(S, shelf)
    <3>1. {f[1] : f \in calls} \in SUBSET Processes
      BY FiberKinds DEF Queued
    <3> QED BY <2>2, <3>1 DEF Miscarry
  <2>3. ASSUME NEW f \in Queued, Refuse(f)
        PROVE  \E S \in SUBSET Processes : Fail(S, shelf)
    <3>1. {f[1]} \in SUBSET Processes
      BY FiberKinds DEF Queued
    <3> QED BY <2>3, <3>1 DEF Refuse
  <2>4. CASE Deadlock
    <3>1. {p \in Processes : Running(p)} \in SUBSET Processes
      OBVIOUS
    <3> QED BY <1>5, <2>4, <3>1 DEF Deadlock
  <2> QED BY <1>5, <2>1, <2>2, <2>3, <2>4 DEF RuntimeStep
<1>6. CASE Finished
  BY <1>6 DEF Finished, vars
<1> QED BY <1>1, <1>2, <1>3, <1>4, <1>5, <1>6 DEF Next

\* What the fibers do in a step of one input.
InputGoes(d) == Claim(d) \/ Wait(d) \/ SourceDelivered(d) \/ HandOff(d) \/ Admit(d)
LEMMA InputSteps ==
  ASSUME SupplyInv, NEW d \in Inputs, InputGoes(d)
  PROVE  /\ UNCHANGED <<status, round, rotation, waiting, broken, closed>>
         /\ \A f \in Fibers : f # d => pc'[f] = pc[f]
         /\ \A c \in Consumers : pc'[MainOf(c)] = pc[MainOf(c)]
         /\ \A p \in Producers : pc'[Out(p)] = pc[Out(p)]
         /\ \/ Claim(d) /\ pc[d] \in {"ask", "wait"} /\ pc'[d] = "park"
            \/ Wait(d) /\ pc[d] \in {"ask", "wait"} /\ pc'[d] = "wait"
            \/ SourceDelivered(d) /\ pc[d] = "parked" /\ pc'[d] = "replace"
            \/ HandOff(d) /\ pc[d] = "handoff" /\ pc'[d] = "ack"
            \/ Admit(d) /\ pc[d] = "ack" /\ pc'[d] = "got"
<1>1. \A place \in InputPlaces : Goto(d, place) =>
         /\ pc'[d] = place
         /\ \A f \in Fibers : f # d => pc'[f] = pc[f]
         /\ \A c \in Consumers : pc'[MainOf(c)] = pc[MainOf(c)]
         /\ \A p \in Producers : pc'[Out(p)] = pc[Out(p)]
  BY InputMoves
<1>2. {"park", "wait", "replace", "ack", "got"} \subseteq InputPlaces
  BY DEF InputPlaces
<1>3. CASE Claim(d)
  BY <1>1, <1>2, <1>3 DEF Claim
<1>4. CASE Wait(d)
  BY <1>1, <1>2, <1>4 DEF Wait
<1>5. CASE SourceDelivered(d)
  BY <1>1, <1>2, <1>5 DEF SourceDelivered, inventory
<1>6. CASE HandOff(d)
  BY <1>1, <1>2, <1>6 DEF HandOff
<1>7. CASE Admit(d)
  BY <1>1, <1>2, <1>7 DEF Admit
<1> QED BY <1>3, <1>4, <1>5, <1>6, <1>7 DEF InputGoes

\* What the fibers do in a step of one producer.
ProducerGoes(p) ==
  \/ StartCycle(p) \/ Publish(p) \/ Shake(p)
  \/ DownstreamDone /\ pc[Out(p)] \in {"offer", "backpressure", "handshake"} /\ Retain(p)
LEMMA ProducerSteps ==
  ASSUME SupplyInv, NEW p \in Producers, ProducerGoes(p)
  PROVE  /\ UNCHANGED <<rotation, binding, carrier, token, demands, lease, broken>>
         /\ \A q \in Processes : q # p => status'[q] = status[q] /\ round'[q] = round[q]
         /\ Running(p)' => Running(p)
         /\ \A f \in Fibers : f # Out(p) => pc'[f] = pc[f]
         /\ \A d \in Inputs : pc'[d] = pc[d]
         /\ \A c \in Consumers : pc'[MainOf(c)] = pc[MainOf(c)]
         /\ \/ /\ StartCycle(p) /\ pc[Out(p)] = "cycle" /\ pc'[Out(p)] \in {"make", "end"}
               /\ UNCHANGED inventory
            \/ Publish(p) /\ pc'[Out(p)] \in {"handshake", "backpressure"}
            \/ Shake(p) /\ pc[Out(p)] = "handshake" /\ pc'[Out(p)] \in {"cycle_complete", "deliver"}
            \/ Retain(p) /\ DownstreamDone /\ pc'[Out(p)] = "end"
<1>1. /\ Out(p) \in Fibers /\ DOMAIN pc = Fibers /\ DOMAIN status = Processes /\ p \in Processes
      /\ \A d \in Inputs : d \in Fibers /\ d # Out(p)
      /\ \A c \in Consumers : MainOf(c) \in Fibers /\ MainOf(c) # Out(p)
      /\ \A f \in Fibers : f # Out(p) => f[1] # p
      /\ DOMAIN round = Processes
  BY OutputNames, MainNames, InputNames, FiberKinds DEF SupplyInv, Shapes, Outputs, Mains, Inputs
<1> QED BY <1>1 DEF ProducerGoes, StartCycle, Publish, Shake, Retain, Complete, Goto, Out, inventory, Running

\* What a failure does.
LEMMA FailTells ==
  ASSUME SupplyInv, NEW S \in SUBSET Processes, NEW entries, Fail(S, entries)
  PROVE  /\ UNCHANGED <<round, rotation, binding, transfer, lease, closed>>
         /\ \A f \in Fibers : pc'[f] = IF f[1] \in S THEN "end" ELSE pc[f]
         /\ \A p \in Processes : /\ p \in S => ~Running(p)'
                                 /\ p \notin S => status'[p] = status[p]
         /\ \A p \in Processes : Running(p)' => Running(p)
         /\ \A x \in Slots : carrier'[x].owner \in {None, carrier[x].owner}
         /\ \A t \in Tokens : token'[t].status \in {"discarded", token[t].status}
         /\ waiting' = Kept(waiting, {t \in Tokens : t[1] \notin S})
         /\ demands' = Kept(demands, {d \in Inputs : d[1] \notin S})
         /\ shelf' = entries
<1>1. /\ \A p \in Processes : /\ p \in S => status'[p] = "failed"
                              /\ p \notin S => status'[p] = status[p]
      /\ \A f \in Fibers : pc'[f] = IF f[1] \in S THEN "end" ELSE pc[f]
  BY DEF Fail
<1>2. \A x \in Slots : carrier'[x].owner \in {None, carrier[x].owner}
  <2>1. carrier \in [Slots -> [owner : Processes \cup {None}, epoch : Nat,
                               place : Slots \cup {Parking}]]
    BY DEF SupplyInv, Shapes
  <2> QED BY <2>1 DEF Fail
<1>3. \A t \in Tokens : token'[t].status \in {"discarded", token[t].status}
  <2>1. token \in [Tokens -> [status : {"absent", "offered", "reserved", "consumed", "discarded"},
                           on : Slots \cup {None}, epoch : Nat, consumer : Consumers \cup {None}]]
    BY DEF SupplyInv, Shapes
  <2> QED BY <2>1 DEF Fail
<1> QED BY <1>1, <1>2, <1>3 DEF Fail, Running

\* What the fibers do in a step of one consumer.
LEMMA ConsumerSteps ==
  ASSUME SupplyInv, NEW c \in Consumers, Gather(c) \/ Accept(c) \/ Reject(c)
  PROVE  /\ UNCHANGED <<binding, token, inventory>>
         /\ \A q \in Processes : q # c => status'[q] = status[q] /\ round'[q] = round[q]
         /\ \A e \in Consumers : e # c => rotation'[e] = rotation[e]
         /\ DOMAIN rotation' = DOMAIN rotation
         /\ \A q \in Processes : Running(q)' => Running(q)
         /\ \A f \in Fibers : f[1] # c => pc'[f] = pc[f]
         /\ \/ /\ Gather(c) /\ UNCHANGED <<status, round, rotation, carrier>>
               /\ \A f \in Fibers : f # MainOf(c) => pc'[f] = pc[f]
               /\ \/ pc[MainOf(c)] = "prepare" /\ pc'[MainOf(c)] = "inputs_ready"
                  \/ pc[MainOf(c)] = "rotate" /\ pc'[MainOf(c)] = "raw_prepared"
                     /\ pc[<<c, "R">>] = "got"
            \/ Accept(c) /\ pc[MainOf(c)] = "decided" /\ ~Running(c)'
               /\ \A f \in Fibers : f[1] = c => pc'[f] = "end"
            \/ /\ Reject(c) /\ pc[MainOf(c)] = "decided" /\ status' = status
               /\ round'[c] = round[c] + 1 /\ (DOMAIN rotation = Consumers => rotation'[c] = 0)
               /\ pc'[MainOf(c)] = "local" /\ pc'[<<c, "R">>] = "idle"
               /\ \A r \in InitialRoles : pc'[<<c, r>>] = "ask"
<1>1. /\ MainOf(c) \in Fibers /\ MainOf(c)[1] = c /\ DOMAIN pc = Fibers /\ DOMAIN status = Processes
      /\ c \in Processes /\ DOMAIN round = Processes
      /\ \A f \in Mains : f = MainOf(f[1])
      /\ <<c, "R">> \in Fibers /\ \A r \in InitialRoles : <<c, r>> \in Fibers /\ r # "main" /\ r # "R"
  BY MainNames, InputNames, SupplyAssumption DEF SupplyInv, Shapes
<1>2. CASE Gather(c)
  BY <1>1, <1>2 DEF Gather, Gathered, Goto, inventory, MainOf, Running
<1>3. CASE Accept(c)
  BY <1>1, <1>3 DEF Accept, Complete, inventory, MainOf, Running
<1>4. CASE Reject(c)
  <2>1. UNCHANGED <<binding, token, inventory, status>> /\ pc[MainOf(c)] = "decided"
    BY <1>4 DEF Reject, MainOf, inventory
  <2>2. \A f \in Fibers : pc'[f] = IF f[1] # c THEN pc[f] ELSE IF f[2] = "main" THEN "local"
                             ELSE IF f[2] = "R" THEN "idle" ELSE "ask"
    BY <1>4 DEF Reject
  <2>3. /\ round'[c] = round[c] + 1 /\ \A q \in Processes : q # c => round'[q] = round[q]
    BY <1>1, <1>4 DEF Reject
  <2>4. /\ \A e \in Consumers : e # c => rotation'[e] = rotation[e]
        /\ DOMAIN rotation = Consumers => rotation'[c] = 0
        /\ DOMAIN rotation' = DOMAIN rotation
    BY <1>4 DEF Reject
  <2>5. pc'[MainOf(c)] = "local" /\ pc'[<<c, "R">>] = "idle"
    BY <1>1, <2>2 DEF MainOf
  <2>6. \A r \in InitialRoles : pc'[<<c, r>>] = "ask"
    BY <1>1, <2>2
  <2> QED BY <1>4, <2>1, <2>2, <2>3, <2>4, <2>5, <2>6 DEF Running
<1> QED BY <1>2, <1>3, <1>4

\* Consumers that stay where they are heading stay in lockstep.
LEMMA LockstepFrame ==
  ASSUME Lockstep, DOMAIN rotation' = DOMAIN rotation,
         \A c \in Consumers : Running(c)' =>
           /\ Running(c) /\ round'[c] = round[c] /\ rotation'[c] = rotation[c]
           /\ Heading(pc'[MainOf(c)]) = Heading(pc[MainOf(c)]),
         \/ \A c \in Consumers : Running(c) => pc[MainOf(c)] # "decided"
         \/ \A c \in Consumers : Running(c)' /\ pc[MainOf(c)] \in {"local", "decided"}
              => pc'[MainOf(c)] = pc[MainOf(c)]
  PROVE  Lockstep'
<1> SUFFICES ASSUME NEW c \in Consumers, NEW d \in Consumers, Running(c)', Running(d)'
             PROVE  Together(c, d)' \/ Ahead(c, d)' \/ Ahead(d, c)'
  BY DEF Lockstep
<1>1. CASE Together(c, d)
  BY <1>1 DEF Together, MainOf, Heading
<1>2. CASE Ahead(c, d)
  BY <1>2 DEF Ahead
<1>3. CASE Ahead(d, c)
  BY <1>3 DEF Ahead
<1> QED BY <1>1, <1>2, <1>3 DEF Lockstep

\* A barrier is met by all running consumers at once.
LEMMA BarrierMet ==
  ASSUME SupplyInv, Lockstep, NEW c \in Consumers, Assembled(c)
  PROVE  /\ \A d \in Consumers : d \in Peers(c) <=> Running(d)
         /\ \A d \in Consumers : Running(d) => /\ pc[MainOf(d)] = pc[MainOf(c)]
                                               /\ rotation[d] = rotation[c] /\ round[d] = round[c]
         /\ \A p \in Producers : p \notin Peers(c)
<1>1. c \notin Producers /\ Cohort(c) = Consumers /\ Main(c) = MainOf(c) /\ Running(c)
  BY MainNames DEF Cohort, Main, MainOf, Assembled
<1>2. pc[MainOf(c)] \notin {"local", "decided"}
  BY <1>1 DEF Assembled, Barriers
<1>3. \A d \in Consumers : Running(d) => round[d] = round[c]
  BY <1>1, <1>2 DEF Lockstep, Together, Ahead
<1>4. \A d \in Consumers : d \in Peers(c) <=> Running(d)
  BY <1>1, <1>3 DEF Peers
<1>5. \A d \in Peers(c) : pc[Main(d)] = pc[Main(c)] /\ rotation[d] = rotation[c]
  BY DEF Assembled
<1>6. \A d \in Consumers : Main(d) = MainOf(d)
  BY MainNames DEF Main, MainOf
<1> QED BY <1>1, <1>3, <1>4, <1>5, <1>6, OutputNames DEF Peers

\* The lockstep is kept.
LEMMA LockstepStep ==
  ASSUME SupplyInv, Lockstep, [Next]_vars
  PROVE  Lockstep'
<1> DEFINE Same == /\ DOMAIN rotation' = DOMAIN rotation
                   /\ \A c \in Consumers : Running(c)' =>
                        /\ Running(c) /\ round'[c] = round[c] /\ rotation'[c] = rotation[c]
                        /\ pc'[MainOf(c)] = pc[MainOf(c)]
<1>1. ASSUME Same PROVE Lockstep'
  BY <1>1, LockstepFrame
<1>2. CASE UNCHANGED vars
  BY <1>1, <1>2 DEF vars, flows, Running
<1>3. ASSUME NEW S \in SUBSET Processes, NEW entries, Fail(S, entries) PROVE Same
  <2>1. UNCHANGED <<round, rotation>> /\ \A p \in Processes : p \in S => ~Running(p)'
    BY <1>3, FailTells
  <2>2. /\ \A f \in Fibers : pc'[f] = IF f[1] \in S THEN "end" ELSE pc[f]
        /\ \A p \in Processes : Running(p)' => Running(p)
    BY <1>3, FailTells
  <2> QED BY <2>1, <2>2, MainNames
<1>4. ASSUME NEW p \in Producers, ProducerGoes(p) PROVE Same
  BY <1>4, ProducerSteps, MainNames DEF Running
<1>5. ASSUME NEW d \in Inputs, InputGoes(d) PROVE Same
  BY <1>5, InputSteps DEF Running
<1>6. ASSUME NEW c \in Consumers, Gather(c) \/ Accept(c) \/ Reject(c) PROVE Lockstep'
  <2>1. \A d \in Consumers : d # c =>
          /\ pc'[MainOf(d)] = pc[MainOf(d)] /\ status'[d] = status[d] /\ round'[d] = round[d]
          /\ rotation'[d] = rotation[d]
    <3>1. /\ \A q \in Processes : q # c => status'[q] = status[q] /\ round'[q] = round[q]
          /\ \A e \in Consumers : e # c => rotation'[e] = rotation[e]
          /\ \A f \in Fibers : f[1] # c => pc'[f] = pc[f]
      BY <1>6, ConsumerSteps
    <3> QED BY <3>1, MainNames
  <2>2. DOMAIN rotation' = DOMAIN rotation /\ DOMAIN rotation = Consumers
    BY <1>6, ConsumerSteps DEF Lockstep
  <2> DEFINE m == pc[MainOf(c)]
             n == pc'[MainOf(c)]
  <2>3. \/ /\ UNCHANGED <<status, round, rotation>>
           /\ (m = "prepare" /\ n = "inputs_ready") \/ (m = "rotate" /\ n = "raw_prepared")
        \/ ~Running(c)'
        \/ /\ m = "decided" /\ n = "local" /\ status' = status
           /\ round'[c] = round[c] + 1 /\ rotation'[c] = 0
    BY <1>6, <2>2, ConsumerSteps
  <2>4. CASE /\ UNCHANGED <<status, round, rotation>>
             /\ (m = "prepare" /\ n = "inputs_ready") \/ (m = "rotate" /\ n = "raw_prepared")
    <3>1. Heading(n) = Heading(m) /\ m \notin {"local", "decided"}
      BY <2>4 DEF Heading
    <3>2. \A d \in Consumers : Heading(pc'[MainOf(d)]) = Heading(pc[MainOf(d)])
      BY <2>1, <3>1
    <3> QED BY <2>1, <2>2, <2>4, <3>1, <3>2, LockstepFrame DEF Running
  <2>5. CASE ~Running(c)'
    <3>1. Same
      BY <2>1, <2>2, <2>5 DEF Running
    <3> QED BY <3>1, <1>1
  <2>6. CASE /\ m = "decided" /\ n = "local" /\ status' = status
             /\ round'[c] = round[c] + 1 /\ rotation'[c] = 0
    <3>1. \A d \in Consumers : Running(d)' <=> Running(d)
      BY <2>6 DEF Running
    <3>2. ASSUME NEW d \in Consumers, d # c, Running(d) PROVE Together(c, d)' \/ Ahead(c, d)'
      <4>1. Running(c) /\ d \in Processes /\ c \in Processes /\ round[d] \in Nat /\ round[c] \in Nat
        <5>1. MainOf(c) \in Fibers /\ MainOf(c)[1] = c /\ d \in Processes /\ c \in Processes
          BY MainNames
        <5> QED BY <2>6, <5>1 DEF SupplyInv, EndsMet, Shapes
      <4>2. Together(c, d) \/ Ahead(d, c)
        <5>1. Together(c, d) \/ Ahead(c, d) \/ Ahead(d, c)
          BY <3>2, <4>1 DEF Lockstep
        <5> QED BY <2>6, <5>1 DEF Ahead
      <4>3. CASE Together(c, d)
        <5>1. pc[MainOf(d)] = "decided" /\ round[c] = round[d]
          BY <2>6, <4>3 DEF Together, Heading
        <5>2. Ahead(c, d)'
          BY <2>1, <2>6, <3>2, <5>1 DEF Ahead, MainOf
        <5> QED BY <5>2
      <4>4. CASE Ahead(d, c)
        <5>1. pc[MainOf(d)] = "local" /\ round[d] = round[c] + 1 /\ rotation[d] = 0
          BY <4>4 DEF Ahead
        <5>2. Together(c, d)'
          BY <2>1, <2>6, <3>2, <5>1 DEF Together, MainOf
        <5> QED BY <5>2
      <4> QED BY <4>2, <4>3, <4>4
    <3>3. ASSUME NEW d \in Consumers, NEW e \in Consumers, d # c, e # c, Running(d), Running(e)
          PROVE  Together(d, e)' \/ Ahead(d, e)' \/ Ahead(e, d)'
      <4>1. Together(d, e) \/ Ahead(d, e) \/ Ahead(e, d)
        BY <3>3 DEF Lockstep
      <4>2. Together(d, e) => Together(d, e)'
        BY <2>1, <3>3 DEF Together, MainOf
      <4>3. (Ahead(d, e) => Ahead(d, e)') /\ (Ahead(e, d) => Ahead(e, d)')
        BY <2>1, <3>3 DEF Ahead, MainOf
      <4> QED BY <4>1, <4>2, <4>3
    <3>4. Together(c, c)'
      BY DEF Together
    <3>5. \A d \in Consumers : Together(c, d)' => Together(d, c)'
      BY DEF Together
    <3>6. ASSUME NEW d \in Consumers, NEW e \in Consumers, Running(d)', Running(e)'
          PROVE  Together(d, e)' \/ Ahead(d, e)' \/ Ahead(e, d)'
      <4>1. CASE d = c /\ e = c
        BY <3>4, <4>1
      <4>2. CASE d = c /\ e # c
        BY <3>1, <3>2, <3>6, <4>2
      <4>3. CASE d # c /\ e = c
        BY <3>1, <3>2, <3>5, <3>6, <4>3
      <4>4. CASE d # c /\ e # c
        BY <3>1, <3>3, <3>6, <4>4
      <4> QED BY <4>1, <4>2, <4>3, <4>4
    <3> QED BY <2>2, <3>6 DEF Lockstep
  <2> QED BY <2>3, <2>4, <2>5, <2>6
<1>7. ASSUME NEW p \in Processes, ReleaseBarrier(p) PROVE Lockstep'
  <2>1. UNCHANGED <<status, round>> /\ DOMAIN rotation' = Consumers /\ Assembled(p)
    BY <1>7 DEF ReleaseBarrier
  <2>2. /\ \A c \in Consumers : pc'[MainOf(c)] = IF c \in Peers(p) THEN Beyond(MainOf(c)) ELSE pc[MainOf(c)]
        /\ \A c \in Consumers : rotation'[c] = IF c \in Peers(p) /\ Rotates(c) THEN rotation[c] + 1
                                               ELSE rotation[c]
    BY <1>7, MainNames DEF ReleaseBarrier
  <2>3. CASE p \in Producers
    <3>1. \A c \in Consumers : c \notin Peers(p)
      BY <2>3, MainNames DEF Peers, Cohort
    <3>2. Same
      BY <2>1, <2>2, <3>1 DEF Running, Lockstep
    <3> QED BY <3>2, <1>1
  <2>4. CASE p \in Consumers
    <3> SUFFICES ASSUME NEW c \in Consumers, NEW d \in Consumers, Running(c)', Running(d)'
                 PROVE  Together(c, d)'
      BY <2>1 DEF Lockstep
    <3>1. /\ c \in Peers(p) /\ d \in Peers(p) /\ pc[MainOf(c)] = pc[MainOf(d)]
          /\ rotation[c] = rotation[d] /\ round[c] = round[d]
      BY <2>1, <2>4, BarrierMet DEF Running
    <3>2. Rotates(c) <=> Rotates(d)
      <4>1. Main(c) = MainOf(c) /\ Main(d) = MainOf(d)
        BY MainNames DEF Main, MainOf
      <4> QED BY <3>1, <4>1 DEF Rotates
    <3>3. Beyond(MainOf(c)) = Beyond(MainOf(d))
      <4>1. /\ MainOf(c) \notin Outputs /\ MainOf(d) \notin Outputs
            /\ MainOf(c) \in Mains /\ MainOf(d) \in Mains /\ MainOf(c)[1] = c /\ MainOf(d)[1] = d
        BY MainNames DEF Slots
      <4> QED BY <3>1, <3>2, <4>1 DEF Beyond
    <3>4. pc'[MainOf(c)] = pc'[MainOf(d)] /\ rotation'[c] = rotation'[d] /\ round'[c] = round'[d]
      BY <2>1, <2>2, <3>1, <3>2, <3>3
    <3> QED BY <3>4 DEF Together, MainOf, Heading
  <2> QED BY <2>3, <2>4, FiberKinds
<1>8. ASSUME NEW calls \in SUBSET Queued, Execute(calls) PROVE Lockstep'
  <2>1. UNCHANGED <<status, round, rotation>> /\ Settled
    BY <1>8 DEF Execute, Ready
  <2>2. \A c \in Consumers : pc[MainOf(c)] # "decided"
    BY <2>1, MainNames DEF Settled, CanAdvance
  <2>3. ASSUME NEW c \in Consumers PROVE Heading(pc'[MainOf(c)]) = Heading(pc[MainOf(c)])
    <3>1. MainOf(c) \in Fibers /\ pc[MainOf(c)] \in MainPlaces
      BY MainNames DEF SupplyInv, Shapes
    <3>2. CASE MainOf(c) \notin calls
      BY <1>8, <3>1, <3>2, ExecutedFibers
    <3>3. CASE MainOf(c) \in calls
      <4>1. \/ pc[MainOf(c)] = "local" /\ pc'[MainOf(c)] = "prepare"
            \/ pc[MainOf(c)] = "inject" /\ pc'[MainOf(c)] = "consumption_complete"
            \/ pc[MainOf(c)] = "restore" /\ pc'[MainOf(c)] = "rotation_complete"
            \/ pc[MainOf(c)] = "final" /\ pc'[MainOf(c)] = "decision"
        BY <1>8, <3>1, <3>3, ExecutedFibers DEF Calls, MainPlaces
      <4> QED BY <4>1 DEF Heading
    <3> QED BY <3>2, <3>3
  <2> QED BY <2>1, <2>2, <2>3, LockstepFrame DEF Running
<1> HIDE DEF Same
<1>9. \A S \in SUBSET Processes : Fail(S, shelf) \/ Fail(S, Reaped) => Same
  BY <1>3
<1> QED BY <1>1, <1>2, <1>9, <1>4, <1>5, <1>6, <1>7, <1>8, EveryStep DEF ProducerGoes, InputGoes

\* Where the fibers of the inputs may go in one step.
LEMMA InputsGo ==
  ASSUME SupplyInv, [Next]_vars, NEW d \in Inputs
  PROVE  \/ pc'[d] = pc[d]
         \/ pc'[d] = "end"
         \/ Claim(d) /\ pc[d] \in {"ask", "wait"} /\ pc'[d] = "park"
         \/ Wait(d) /\ pc[d] \in {"ask", "wait"} /\ pc'[d] = "wait"
         \/ pc[d] \in {"park", "parked", "replace", "handoff", "ack"}
              /\ pc'[d] \in {"parked", "replace", "handoff", "ack", "got"}
         \/ /\ Reject(d[1]) /\ pc[MainOf(d[1])] = "decided" /\ pc'[MainOf(d[1])] = "local"
            /\ pc'[d] = IF d[2] = "R" THEN "idle" ELSE "ask"
         \/ /\ \E p \in Processes : ReleaseBarrier(p)
            /\ pc[MainOf(d[1])] \in {"inputs_ready", "rotation_complete"}
            /\ pc'[MainOf(d[1])] = "rotate"
            /\ d[2] = "R" /\ pc[d] \in {"idle", "got"} /\ pc'[d] = "ask"
<1> /\ d \in Fibers /\ d[1] \in Consumers /\ d[2] \in InitialRoles \cup {"R"} /\ d = <<d[1], d[2]>>
    /\ d[1] \in Processes /\ d \notin Outputs /\ d \notin Mains
  BY InputNames, InputAt
<1> /\ MainOf(d[1]) # d
  BY MainNames
<1>1. CASE UNCHANGED vars
  BY <1>1 DEF vars, flows
<1>2. ASSUME NEW S \in SUBSET Processes, NEW entries, Fail(S, entries)
      PROVE  pc'[d] = pc[d] \/ pc'[d] = "end"
  BY <1>2 DEF Fail
<1>3. ASSUME NEW p \in Producers, ProducerGoes(p) PROVE pc'[d] = pc[d]
  BY <1>3, ProducerSteps
<1>4. ASSUME NEW e \in Inputs, InputGoes(e), e # d PROVE pc'[d] = pc[d]
  BY <1>4, InputSteps
<1>5. ASSUME InputGoes(d)
      PROVE  \/ Claim(d) /\ pc[d] \in {"ask", "wait"} /\ pc'[d] = "park"
             \/ Wait(d) /\ pc[d] \in {"ask", "wait"} /\ pc'[d] = "wait"
             \/ pc[d] \in {"park", "parked", "replace", "handoff", "ack"}
                  /\ pc'[d] \in {"parked", "replace", "handoff", "ack", "got"}
  BY <1>5, InputSteps
<1>6. ASSUME NEW c \in Consumers, Gather(c) \/ Accept(c) \/ Reject(c)
      PROVE  \/ pc'[d] = pc[d] \/ pc'[d] = "end"
             \/ /\ Reject(d[1]) /\ pc[MainOf(d[1])] = "decided" /\ pc'[MainOf(d[1])] = "local"
                /\ pc'[d] = IF d[2] = "R" THEN "idle" ELSE "ask"
  <2>1. CASE d[1] # c
    BY <1>6, <2>1, ConsumerSteps
  <2>2. CASE d[1] = c
    <3>1. \/ \A f \in Fibers : f # MainOf(c) => pc'[f] = pc[f]
          \/ \A f \in Fibers : f[1] = c => pc'[f] = "end"
          \/ /\ Reject(c) /\ pc[MainOf(c)] = "decided" /\ pc'[MainOf(c)] = "local"
             /\ pc'[<<c, "R">>] = "idle"
             /\ \A r \in InitialRoles : pc'[<<c, r>>] = "ask"
      BY <1>6, ConsumerSteps
    <3>2. "R" \notin InitialRoles
      BY SupplyAssumption
    <3> QED BY <2>2, <3>1, <3>2
  <2> QED BY <2>1, <2>2
<1>7. ASSUME NEW p \in Processes, ReleaseBarrier(p)
      PROVE  \/ pc'[d] = pc[d]
             \/ /\ pc[MainOf(d[1])] \in {"inputs_ready", "rotation_complete"}
                /\ pc'[MainOf(d[1])] = "rotate"
                /\ d[2] = "R" /\ pc[d] \in {"idle", "got"} /\ pc'[d] = "ask"
  <2>1. BarrierMoves(d[1])
    BY <1>7, BarrierReleased
  <2>2. d[2] # "R" => pc'[d] = pc[d]
    BY <2>1 DEF BarrierMoves
  <2>3. CASE d[2] = "R"
    <3>1. d = <<d[1], "R">>
      BY <2>3
    <3> QED BY <2>1, <2>3, <3>1 DEF BarrierMoves
  <2> QED BY <2>2, <2>3
<1>8. ASSUME NEW calls \in SUBSET Queued, Execute(calls)
      PROVE  \/ pc'[d] = pc[d]
             \/ pc[d] \in {"park", "replace"} /\ pc'[d] \in {"parked", "handoff"}
  <2>1. CASE d \notin calls
    BY <1>8, <2>1, ExecutedFibers
  <2>2. CASE d \in calls
    <3>1. pc[d] \in Calls \cap InputPlaces
      BY <2>2 DEF Queued, SupplyInv, Shapes
    <3>2. pc[d] \in {"park", "replace"}
      BY <3>1 DEF Calls, InputPlaces
    <3> QED BY <1>8, <2>2, <3>2, ExecutedFibers
  <2> QED BY <2>1, <2>2
<1>9. \A S \in SUBSET Processes : Fail(S, shelf) \/ Fail(S, Reaped) => pc'[d] = pc[d] \/ pc'[d] = "end"
  BY <1>2
<1>10. CASE \E e \in Inputs : InputGoes(e)
  <2>1. PICK e \in Inputs : InputGoes(e)
    BY <1>10
  <2>2. CASE e = d
    BY <1>5, <2>1, <2>2
  <2>3. CASE e # d
    BY <1>4, <2>1, <2>3
  <2> QED BY <2>2, <2>3
<1>11. CASE \E c \in Consumers : Gather(c) \/ Accept(c) \/ Reject(c)
  BY <1>6, <1>11
<1>12. CASE \E p \in Processes : ReleaseBarrier(p)
  BY <1>7, <1>12
<1>13. CASE \E calls \in SUBSET Queued : Execute(calls)
  BY <1>8, <1>13
<1>14. CASE \E p \in Producers : ProducerGoes(p)
  BY <1>3, <1>14
<1>15. CASE \E S \in SUBSET Processes : Fail(S, shelf) \/ Fail(S, Reaped)
  BY <1>9, <1>15
<1> QED BY <1>1, <1>10, <1>11, <1>12, <1>13, <1>14, <1>15, EveryStep DEF ProducerGoes, InputGoes

\* Where the fibers of the factories go in one step.
LEMMA MainsGo ==
  ASSUME SupplyInv, [Next]_vars, NEW c \in Consumers
  PROVE  \/ pc'[MainOf(c)] = pc[MainOf(c)]
         \/ pc'[MainOf(c)] = "end" /\ \A f \in Fibers : f[1] = c => pc'[f] = "end"
         \/ pc[MainOf(c)] = "local" /\ pc'[MainOf(c)] = "prepare" /\ pc'[<<c, "R">>] = pc[<<c, "R">>]
         \/ pc[MainOf(c)] = "prepare" /\ pc'[MainOf(c)] = "inputs_ready" /\ pc'[<<c, "R">>] = pc[<<c, "R">>]
         \/ pc[MainOf(c)] = "rotate" /\ pc'[MainOf(c)] = "raw_prepared"
         \/ pc[MainOf(c)] = "decided" /\ pc'[MainOf(c)] = "local" /\ pc'[<<c, "R">>] = "idle"
         \/ pc[MainOf(c)] = "inject" /\ pc'[MainOf(c)] = "consumption_complete"
         \/ /\ pc[MainOf(c)] = "restore" /\ pc'[MainOf(c)] = "rotation_complete"
            /\ \E calls \in SUBSET Queued : Execute(calls) /\ MainOf(c) \in calls
         \/ pc[MainOf(c)] = "final" /\ pc'[MainOf(c)] = "decision"
         \/ (\E p \in Processes : ReleaseBarrier(p)) /\ BarrierMoves(c)
<1> /\ MainOf(c) \in Fibers /\ MainOf(c)[1] = c /\ c \in Processes /\ MainOf(c) \notin Slots
    /\ <<c, "R">> \in Fibers /\ <<c, "R">> \in Inputs /\ <<c, "R">> # MainOf(c)
  BY MainNames, InputNames
<1>1. CASE UNCHANGED vars
  BY <1>1 DEF vars, flows
<1>2. ASSUME NEW S \in SUBSET Processes, NEW entries, Fail(S, entries)
      PROVE  \/ pc'[MainOf(c)] = pc[MainOf(c)]
             \/ pc'[MainOf(c)] = "end" /\ \A f \in Fibers : f[1] = c => pc'[f] = "end"
  BY <1>2 DEF Fail
<1>3. ASSUME NEW p \in Producers, ProducerGoes(p) PROVE pc'[MainOf(c)] = pc[MainOf(c)]
  BY <1>3, ProducerSteps
<1>4. ASSUME NEW e \in Inputs, InputGoes(e) PROVE pc'[MainOf(c)] = pc[MainOf(c)]
  BY <1>4, InputSteps
<1>5. ASSUME NEW e \in Consumers, Gather(e) \/ Accept(e) \/ Reject(e), e # c
      PROVE  pc'[MainOf(c)] = pc[MainOf(c)]
  BY <1>5, ConsumerSteps
<1>6. ASSUME Gather(c) \/ Accept(c) \/ Reject(c)
      PROVE  \/ pc'[MainOf(c)] = "end" /\ \A f \in Fibers : f[1] = c => pc'[f] = "end"
             \/ pc[MainOf(c)] = "prepare" /\ pc'[MainOf(c)] = "inputs_ready" /\ pc'[<<c, "R">>] = pc[<<c, "R">>]
             \/ pc[MainOf(c)] = "rotate" /\ pc'[MainOf(c)] = "raw_prepared"
             \/ pc[MainOf(c)] = "decided" /\ pc'[MainOf(c)] = "local" /\ pc'[<<c, "R">>] = "idle"
  <2>1. \/ /\ \A f \in Fibers : f # MainOf(c) => pc'[f] = pc[f]
           /\ \/ pc[MainOf(c)] = "prepare" /\ pc'[MainOf(c)] = "inputs_ready"
              \/ pc[MainOf(c)] = "rotate" /\ pc'[MainOf(c)] = "raw_prepared"
        \/ \A f \in Fibers : f[1] = c => pc'[f] = "end"
        \/ pc[MainOf(c)] = "decided" /\ pc'[MainOf(c)] = "local" /\ pc'[<<c, "R">>] = "idle"
    BY <1>6, ConsumerSteps
  <2> QED BY <2>1
<1>7. ASSUME NEW p \in Processes, ReleaseBarrier(p) PROVE BarrierMoves(c)
  BY <1>7, BarrierReleased
<1>8. ASSUME NEW calls \in SUBSET Queued, Execute(calls)
      PROVE  \/ pc'[MainOf(c)] = pc[MainOf(c)]
             \/ pc[MainOf(c)] = "local" /\ pc'[MainOf(c)] = "prepare" /\ pc'[<<c, "R">>] = pc[<<c, "R">>]
             \/ pc[MainOf(c)] = "inject" /\ pc'[MainOf(c)] = "consumption_complete"
             \/ pc[MainOf(c)] = "restore" /\ pc'[MainOf(c)] = "rotation_complete" /\ MainOf(c) \in calls
             \/ pc[MainOf(c)] = "final" /\ pc'[MainOf(c)] = "decision"
  <2>1. CASE MainOf(c) \notin calls
    BY <1>8, <2>1, ExecutedFibers
  <2>2. CASE MainOf(c) \in calls
    <3>1. pc[MainOf(c)] \in Calls \cap MainPlaces
      BY <2>2, MainNames DEF Queued, SupplyInv, Shapes
    <3>2. pc[MainOf(c)] \in {"local", "inject", "restore", "final"}
      BY <3>1 DEF Calls, MainPlaces
    <3>3. ConsumerStands(c) /\ pc[MainOf(c)] = "local" => pc[<<c, "R">>] \notin Calls
      BY DEF ConsumerStands, Calls
    <3>4. ConsumerStands(c)
      BY DEF SupplyInv, ConsumersStand
    <3>5. pc[MainOf(c)] = "local" => pc'[<<c, "R">>] = pc[<<c, "R">>]
      BY <1>8, <3>3, <3>4, ExecutedFibers
    <3> QED BY <1>8, <2>2, <3>2, <3>5, ExecutedFibers
  <2> QED BY <2>1, <2>2
<1>9. \A S \in SUBSET Processes : Fail(S, shelf) \/ Fail(S, Reaped) =>
         \/ pc'[MainOf(c)] = pc[MainOf(c)]
         \/ pc'[MainOf(c)] = "end" /\ \A f \in Fibers : f[1] = c => pc'[f] = "end"
  BY <1>2
<1>10. CASE \E e \in Inputs : InputGoes(e)
  BY <1>4, <1>10
<1>11. CASE \E e \in Consumers : Gather(e) \/ Accept(e) \/ Reject(e)
  <2>1. PICK e \in Consumers : Gather(e) \/ Accept(e) \/ Reject(e)
    BY <1>11
  <2>2. CASE e = c
    BY <1>6, <2>1, <2>2
  <2>3. CASE e # c
    BY <1>5, <2>1, <2>3
  <2> QED BY <2>2, <2>3
<1>12. CASE \E p \in Processes : ReleaseBarrier(p)
  BY <1>7, <1>12
<1>13. CASE \E calls \in SUBSET Queued : Execute(calls)
  BY <1>8, <1>13
<1>14. CASE \E p \in Producers : ProducerGoes(p)
  BY <1>3, <1>14
<1>15. CASE \E S \in SUBSET Processes : Fail(S, shelf) \/ Fail(S, Reaped)
  BY <1>9, <1>15
<1> QED BY <1>1, <1>10, <1>11, <1>12, <1>13, <1>14, <1>15, EveryStep DEF ProducerGoes, InputGoes

\* So is the place of the rotations' input.
LEMMA RotationStep ==
  ASSUME SupplyInv, SupplyInv', RotationStands, [Next]_vars
  PROVE  RotationStands'
<1> SUFFICES ASSUME NEW c \in Consumers
             PROVE  /\ pc'[MainOf(c)] \in {"local", "prepare", "inputs_ready"} => pc'[<<c, "R">>] = "idle"
                    /\ pc'[MainOf(c)] = "rotate" => pc'[<<c, "R">>] # "idle"
  BY DEF RotationStands, MainOf
<1> DEFINE R == <<c, "R">>
           m == pc[MainOf(c)]
           n == pc'[MainOf(c)]
<1>1. R \in Inputs /\ R \in Fibers /\ R[1] = c /\ R[2] = "R" /\ MainOf(c) \in Fibers /\ MainOf(c)[1] = c
  BY InputNames, MainNames
<1>2. pc'[R] = "end" => n = "end"
  BY <1>1 DEF SupplyInv, EndsMet
<1>3. /\ m \in {"local", "prepare", "inputs_ready"} => pc[R] = "idle"
      /\ m = "rotate" => pc[R] # "idle"
  BY DEF RotationStands
<1>4. \/ pc'[R] = pc[R]
      \/ pc'[R] = "end"
      \/ pc[R] \notin {"idle", "got"} /\ pc'[R] # "idle"
      \/ m = "decided" /\ n = "local" /\ pc'[R] = "idle"
      \/ m \in {"inputs_ready", "rotation_complete"} /\ n = "rotate" /\ pc'[R] = "ask"
  BY <1>1, InputsGo
<1>5. CASE m = n
  BY <1>2, <1>3, <1>4, <1>5
<1>6. CASE m # n
  <2>1. \/ n \in {"prepare", "inputs_ready"} /\ m \in {"local", "prepare"} /\ pc'[R] = pc[R]
        \/ n = "local" /\ pc'[R] = "idle"
        \/ n \notin {"local", "prepare", "inputs_ready", "rotate"}
        \/ BarrierMoves(c)
    BY <1>6, MainsGo
  <2>2. CASE BarrierMoves(c)
    BY <1>6, <2>2 DEF BarrierMoves
  <2> QED BY <1>3, <2>1, <2>2
<1> QED BY <1>5, <1>6

\* The carrier of an input stays free until a token is on its way there.
LEMMA FreeStays ==
  ASSUME SupplyInv, [Next]_vars, NEW d \in Inputs, carrier[binding[d]].owner = None
  PROVE  carrier'[binding'[d]].owner = None \/ pc[d] \in {"park", "handoff"}
<1> d \in Slots /\ binding[d] \in Slots /\ \A p \in Producers : binding[d] # binding[Out(p)]
  BY InputAt
<1>1. CASE UNCHANGED vars
  BY <1>1 DEF vars
<1>2. ASSUME NEW S \in SUBSET Processes, NEW entries, Fail(S, entries)
      PROVE  carrier'[binding'[d]].owner = None
  <2>1. binding' = binding /\ carrier'[binding[d]].owner \in {None, carrier[binding[d]].owner}
    BY <1>2, FailTells
  <2> QED BY <2>1
<1>3. ASSUME NEW p \in Producers, ProducerGoes(p) PROVE carrier'[binding'[d]].owner = None
  BY <1>3, ProducerSteps
<1>4. ASSUME NEW e \in Inputs, Claim(e) PROVE carrier'[binding'[d]].owner = None
  <2>1. ~DownstreamDone /\ Available # <<>>
    <3>1. pc[e] # "end" /\ e[1] \in Consumers /\ (Running(e[1]) <=> pc[e] # "end")
      BY <1>4, InputAt DEF Claim
    <3> QED BY <1>4, <3>1 DEF DownstreamDone, Claim, CanStart
  <2> DEFINE t == Head(Available)
  <2>2. t \in Tokens /\ On(t) = binding[Out(t[1])] /\ t[1] \in Producers
    BY <2>1, OnOffer, TokenNames
  <2>3. /\ binding' = binding
        /\ carrier' = [carrier EXCEPT ![On(t)].owner = e[1]]
    BY <1>4 DEF Claim, On
  <2> QED BY <2>2, <2>3
<1>5. ASSUME NEW e \in Inputs, Wait(e) \/ SourceDelivered(e) \/ Admit(e)
      PROVE  carrier'[binding'[d]].owner = None
  BY <1>5 DEF Wait, SourceDelivered, Admit
<1>6. ASSUME NEW e \in Inputs, HandOff(e)
      PROVE  carrier'[binding'[d]].owner = None \/ pc[d] = "handoff"
  <2>1. pc[e] = "handoff" /\ carrier' = carrier /\ binding' = Swapped(e)
    BY <1>6 DEF HandOff
  <2>2. CASE e # d
    <3>1. lease \in Tokens
      BY <2>1, LeaseOf
    <3>2. Out(lease[1]) # d
      BY <3>1, TokenNames, OutputNames
    <3>3. binding'[d] = binding[d]
      BY <2>1, <2>2, <3>2 DEF Swapped, Out, SupplyInv, Shapes
    <3> QED BY <2>1, <3>3
  <2> QED BY <2>1, <2>2
<1>7. ASSUME NEW c \in Consumers, Gather(c) \/ Accept(c) \/ Reject(c)
      PROVE  carrier'[binding'[d]].owner = None
  <2>1. binding' = binding
    BY <1>7, ConsumerSteps
  <2>2. carrier' = carrier \/ \E roles : carrier' = Freed(roles, c)
    BY <1>7 DEF Gather, Accept, Reject
  <2>3. carrier \in [Slots -> [owner : Processes \cup {None}, epoch : Nat,
                               place : Slots \cup {Parking}]]
    BY DEF SupplyInv, Shapes
  <2> QED BY <2>1, <2>2, <2>3 DEF Freed
<1>8. ASSUME NEW p \in Processes, ReleaseBarrier(p) PROVE carrier'[binding'[d]].owner = None
  BY <1>8 DEF ReleaseBarrier
<1>9. ASSUME NEW calls \in SUBSET Queued, Execute(calls)
      PROVE  carrier'[binding'[d]].owner = None \/ pc[d] = "park"
  <2>1. binding' = binding
    BY <1>9 DEF Execute
  <2>2. d \in calls => pc[d] # "make"
    BY DEF SupplyInv, Shapes, InputPlaces
  <2>3. \/ d \in calls /\ pc[d] \in {"make", "park"}
        \/ carrier'[binding[d]].owner \in {None, carrier[binding[d]].owner}
    BY <1>9, ExecutedShapes
  <2> QED BY <2>1, <2>2, <2>3
<1>10. \A S \in SUBSET Processes : Fail(S, shelf) \/ Fail(S, Reaped) => carrier'[binding'[d]].owner = None
  BY <1>2
<1> QED BY <1>1, <1>10, <1>3, <1>4, <1>5, <1>6, <1>7, <1>8, <1>9, EveryStep DEF ProducerGoes

\* The inputs that ask for a token have their carriers free.
LEMMA HandsFreeStep ==
  ASSUME SupplyInv, SupplyInv', RotationStands, HandsFree, [Next]_vars
  PROVE  HandsFree'
<1> DEFINE Free(d) == carrier[binding[d]].owner = None
<1>1. ASSUME NEW d \in Inputs, pc'[d] \in {"idle", "ask", "wait"} PROVE carrier'[binding'[d]].owner = None
  <2> DEFINE c == d[1]
  <2>1. /\ d = <<c, d[2]>> /\ c \in Consumers /\ d[2] \in InitialRoles \cup {"R"} /\ binding[d] \in Slots
    BY InputNames, InputAt
  <2>2. Free(d) /\ pc[d] \notin {"park", "handoff"} => carrier'[binding'[d]].owner = None
    BY FreeStays
  <2>3. \/ pc[d] \in {"idle", "ask", "wait"}
        \/ Reject(c) /\ pc[MainOf(c)] = "decided" /\ pc'[d] = IF d[2] = "R" THEN "idle" ELSE "ask"
        \/ /\ pc[MainOf(c)] \in {"inputs_ready", "rotation_complete"} /\ d[2] = "R"
           /\ pc[d] \in {"idle", "got"}
    BY <1>1, InputsGo
  <2>4. CASE pc[d] \in {"idle", "ask", "wait"}
    BY <2>2, <2>4 DEF HandsFree
  <2>5. CASE Reject(c) /\ pc[MainOf(c)] = "decided"
    <3>1. CASE d[2] = "R"
      <4>1. pc[<<c, "R">>] \in {"idle", "got"}
        <5>1. pc[<<c, "R">>] \in {"idle", "got", "end"} /\ Running(c)
          BY <2>1, <2>5, DecidedAlone
        <5>2. Running(d[1]) <=> pc[d] # "end"
          BY InputAt
        <5> QED BY <2>1, <3>1, <5>1, <5>2
      <4>2. Free(d)
        BY <2>1, <2>5, <3>1, <4>1 DEF HandsFree
      <4> QED BY <2>1, <2>2, <3>1, <4>1, <4>2
    <3>2. CASE d[2] \in InitialRoles
      <4>1. carrier' = Freed(InitialRoles, c) /\ binding' = binding
        BY <2>5 DEF Reject
      <4>2. carrier \in [Slots -> [owner : Processes \cup {None}, epoch : Nat,
                                   place : Slots \cup {Parking}]]
        BY DEF SupplyInv, Shapes
      <4>3. \E r \in InitialRoles : binding[<<c, r>>] = binding[d]
        BY <2>1, <3>2
      <4> QED BY <2>1, <4>1, <4>2, <4>3 DEF Freed
    <3> QED BY <2>1, <3>1, <3>2
  <2>6. CASE /\ pc[MainOf(c)] \in {"inputs_ready", "rotation_complete"} /\ d[2] = "R"
             /\ pc[d] \in {"idle", "got"}
    <3>1. d = <<c, "R">>
      BY <2>1, <2>6
    <3>2. pc[MainOf(c)] = "inputs_ready" => pc[d] = "idle"
      BY <2>1, <3>1 DEF RotationStands
    <3>3. Free(d)
      BY <2>1, <2>6, <3>1, <3>2 DEF HandsFree
    <3> QED BY <2>2, <2>6, <3>3
  <2> QED BY <2>3, <2>4, <2>5, <2>6
<1>2. ASSUME NEW c \in Consumers, pc'[<<c, "R">>] = "got",
             pc'[MainOf(c)] \in {"rotation_complete", "final", "decision", "decided"}
      PROVE  carrier'[binding'[<<c, "R">>]].owner = None
  <2> DEFINE R == <<c, "R">>
             m == pc[MainOf(c)]
             n == pc'[MainOf(c)]
  <2>1. R \in Inputs /\ R[1] = c /\ R[2] = "R" /\ R \in Slots /\ binding[R] \in Slots
    BY InputNames, InputAt
  <2>2. Free(R) /\ pc[R] \notin {"park", "handoff"} => carrier'[binding'[R]].owner = None
    BY <2>1, FreeStays
  <2>3. \/ pc[R] = "got"
        \/ pc[R] \in {"park", "parked", "replace", "handoff", "ack"}
    BY <1>2, <2>1, InputsGo
  <2>4. m # "rotate" => pc[R] \in {"idle", "got", "end"}
    BY DEF SupplyInv, ConsumersStand, ConsumerStands
  <2>5. \/ m = n
        \/ m \in {"inputs_ready", "rotation_complete"} /\ n = "final" /\ pc'[R] = pc[R]
        \/ m = "decision" /\ n = "decided"
        \/ m = "final" /\ n = "decision"
        \/ m = "restore" /\ \E calls \in SUBSET Queued : Execute(calls) /\ MainOf(c) \in calls
    <3>1. BarrierMoves(c) =>
            \/ m = n
            \/ m \in {"inputs_ready", "rotation_complete"} /\ n = "final" /\ pc'[R] = pc[R]
            \/ m = "decision" /\ n = "decided"
      BY <1>2 DEF BarrierMoves
    <3>2. \/ m = n \/ (m = "final" /\ n = "decision")
          \/ m = "restore" /\ \E calls \in SUBSET Queued : Execute(calls) /\ MainOf(c) \in calls
          \/ BarrierMoves(c)
      BY <1>2, MainsGo
    <3> QED BY <3>1, <3>2
  <2>6. CASE m = "restore" /\ \E calls \in SUBSET Queued : Execute(calls) /\ MainOf(c) \in calls
    <3>1. PICK calls \in SUBSET Queued : Execute(calls) /\ MainOf(c) \in calls
      BY <2>6
    <3>2. carrier'[binding[R]] = Moved(MainOf(c)) /\ Hand(MainOf(c)) = R /\ binding' = binding
      <4>1. Hand(MainOf(c)) = R
        BY MainNames DEF Hand
      <4>2. carrier'[binding[Hand(MainOf(c))]] = Moved(MainOf(c))
        BY <3>1, ExecutedCarriers
      <4> QED BY <3>1, <4>1, <4>2 DEF Execute
    <3>3. carrier \in [Slots -> [owner : Processes \cup {None}, epoch : Nat,
                                 place : Slots \cup {Parking}]]
      BY DEF SupplyInv, Shapes
    <3>4. Moved(MainOf(c)).owner = None
      BY <2>1, <2>6, <3>2, <3>3 DEF Moved
    <3> QED BY <3>2, <3>4
  <2>7. CASE m # "restore"
    <3>1. m \in {"inputs_ready", "rotation_complete", "decision", "decided", "final"}
      BY <1>2, <2>5, <2>7
    <3>2. pc[R] = "got"
      BY <2>3, <2>4, <3>1
    <3>3. m # "inputs_ready"
      BY <3>2 DEF RotationStands
    <3>4. Free(R)
      BY <3>1, <3>2, <3>3 DEF HandsFree
    <3> QED BY <2>2, <3>2, <3>4
  <2> QED BY <1>2, <2>5, <2>6, <2>7
<1> QED BY <1>1, <1>2 DEF HandsFree, MainOf

\* The line of the demands is kept in order.
LEMMA DemandedStep ==
  ASSUME SupplyInv, SupplyInv', Demanded, [Next]_vars
  PROVE  Demanded'
<1>0. demands \in Seq(Inputs) /\ \A d \in Inputs : d[1] \in Consumers /\ d[1] \in Processes
  BY InputNames, InputAt DEF SupplyInv, Shapes
<1>1. ASSUME demands' = demands, \A d \in Inputs : pc'[d] = "wait" <=> pc[d] = "wait"
      PROVE  Demanded'
  BY <1>1 DEF Demanded
<1>3. CASE UNCHANGED vars
  BY <1>1, <1>3 DEF vars, inventory, flows
<1>4. ASSUME NEW S \in SUBSET Processes, NEW entries, Fail(S, entries) PROVE Demanded'
  <2>1. /\ demands' = Kept(demands, {d \in Inputs : d[1] \notin S})
        /\ \A f \in Fibers : pc'[f] = IF f[1] \in S THEN "end" ELSE pc[f]
    BY <1>4, FailTells
  <2>2. Range(demands') = Range(demands) \cap {d \in Inputs : d[1] \notin S}
    BY <1>0, <2>1, KeptAll
  <2>3. \A d \in Inputs : d \in Fibers
    BY InputNames
  <2> QED BY <2>1, <2>2, <2>3 DEF Demanded
<1>5. ASSUME NEW p \in Producers, ProducerGoes(p) PROVE Demanded'
  <2>1. demands' = demands /\ \A d \in Inputs : pc'[d] = pc[d]
    BY <1>5, ProducerSteps
  <2> QED BY <1>1, <2>1
<1>6. ASSUME NEW d \in Inputs, InputGoes(d) PROVE Demanded'
  <2>1. \A e \in Inputs : e # d => pc'[e] = pc[e]
    BY <1>6, InputSteps, InputNames
  <2>2. CASE Claim(d)
    <3>1. pc'[d] = "park"
      BY <2>2, InputMoves DEF Claim, InputPlaces
    <3>2. demands' = Kept(demands, Range(demands) \ {d})
      BY <2>2 DEF Claim, Without
    <3>3. Range(demands') = Range(demands) \ {d}
      BY <1>0, <3>2, KeptAll
    <3> QED BY <2>1, <3>1, <3>3 DEF Demanded
  <2>3. CASE Wait(d)
    <3>1. pc'[d] = "wait" /\ pc[d] \in {"ask", "wait"}
      BY <2>3, InputMoves DEF Wait, InputPlaces
    <3>2. demands' = IF pc[d] = "ask" THEN Append(demands, d) ELSE demands
      BY <2>3 DEF Wait, Asked
    <3>3. Range(demands') = Range(demands) \cup {d}
      <4>1. CASE pc[d] = "ask"
        <5>1. demands' = Append(demands, d)
          BY <3>2, <4>1
        <5> QED BY <1>0, <5>1, AppendAll
      <4>2. CASE pc[d] = "wait"
        BY <3>2, <4>2 DEF Demanded
      <4> QED BY <3>1, <4>1, <4>2
    <3> QED BY <2>1, <3>1, <3>3 DEF Demanded
  <2>4. CASE SourceDelivered(d) \/ HandOff(d) \/ Admit(d)
    <3>1. demands' = demands
      BY <2>4 DEF SourceDelivered, HandOff, Admit, inventory
    <3>2. \A place \in InputPlaces : Goto(d, place) => pc'[d] = place
      BY InputMoves
    <3>3. pc'[d] \in {"replace", "ack", "got"} /\ pc[d] \in {"parked", "handoff", "ack"}
      BY <2>4, <3>2 DEF SourceDelivered, HandOff, Admit, InputPlaces
    <3> QED BY <1>1, <2>1, <3>1, <3>3
  <2> QED BY <1>6, <2>2, <2>3, <2>4 DEF InputGoes
<1>7. ASSUME NEW c \in Consumers, Gather(c) \/ Accept(c) \/ Reject(c) PROVE Demanded'
  <2>1. demands' = demands
    BY <1>7, ConsumerSteps DEF inventory
  <2>2. ASSUME NEW d \in Inputs PROVE pc'[d] = "wait" <=> pc[d] = "wait"
    <3>1. d = <<d[1], d[2]>> /\ d[2] \in InitialRoles \cup {"R"} /\ d \in Fibers /\ d # MainOf(c)
          /\ "R" \notin InitialRoles
      BY InputNames, MainNames
    <3>2. CASE d[1] # c
      BY <1>7, <3>1, <3>2, ConsumerSteps
    <3>3. CASE d[1] = c
      <4>1. \/ \A f \in Fibers : f # MainOf(c) => pc'[f] = pc[f]
            \/ pc[MainOf(c)] = "decided" /\ \A f \in Fibers : f[1] = c => pc'[f] = "end"
            \/ /\ pc[MainOf(c)] = "decided" /\ pc'[<<c, "R">>] = "idle"
               /\ \A r \in InitialRoles : pc'[<<c, r>>] = "ask"
        BY <1>7, ConsumerSteps
      <4>2. pc[MainOf(c)] = "decided" => /\ \A r \in InitialRoles : pc[<<c, r>>] = "got"
                                         /\ pc[<<c, "R">>] \in {"idle", "got", "end"}
        BY DecidedAlone
      <4>3. pc[MainOf(c)] = "decided" => pc[d] # "wait"
        BY <3>1, <3>3, <4>2
      <4> QED BY <3>1, <3>3, <4>1, <4>3
    <3> QED BY <3>2, <3>3
  <2> QED BY <1>1, <2>1, <2>2
<1>8. ASSUME NEW p \in Processes, ReleaseBarrier(p) PROVE Demanded'
  <2>1. demands' = demands
    BY <1>8 DEF ReleaseBarrier, inventory
  <2>2. ASSUME NEW d \in Inputs PROVE pc'[d] = "wait" <=> pc[d] = "wait"
    <3>1. d = <<d[1], d[2]>> /\ d[2] \in InitialRoles \cup {"R"} /\ d[1] \in Consumers
      BY InputNames
    <3>2. BarrierMoves(d[1])
      BY <1>8, <3>1, BarrierReleased
    <3>3. CASE d[2] = "R"
      <4>1. d = <<d[1], "R">>
        BY <3>1, <3>3
      <4> QED BY <3>2, <4>1 DEF BarrierMoves
    <3>4. CASE d[2] \in InitialRoles
      BY <3>1, <3>2, <3>4 DEF BarrierMoves
    <3> QED BY <3>1, <3>3, <3>4
  <2> QED BY <1>1, <2>1, <2>2
<1>9. ASSUME NEW calls \in SUBSET Queued, Execute(calls) PROVE Demanded'
  <2>1. demands' = demands
    BY <1>9 DEF Execute
  <2>2. ASSUME NEW d \in Inputs PROVE pc'[d] = "wait" <=> pc[d] = "wait"
    <3>1. d \in Fibers
      BY InputNames
    <3>2. CASE d \notin calls
      BY <1>9, <3>1, <3>2, ExecutedFibers
    <3>3. CASE d \in calls
      <4>1. pc[d] \in Calls \cap InputPlaces
        BY <3>3 DEF Queued, SupplyInv, Shapes
      <4>2. pc[d] \in {"park", "replace"}
        BY <4>1 DEF Calls, InputPlaces
      <4> QED BY <1>9, <3>3, <4>2, ExecutedFibers
    <3> QED BY <3>2, <3>3
  <2> QED BY <1>1, <2>1, <2>2
<1>10. \A S \in SUBSET Processes : Fail(S, shelf) \/ Fail(S, Reaped) => Demanded'
  BY <1>4
<1> QED BY <1>3, <1>10, <1>5, <1>6, <1>7, <1>8, <1>9, EveryStep DEF ProducerGoes, InputGoes

\* So is the line of the outputs.
LEMMA InLineStep ==
  ASSUME SupplyInv, InLine, [Next]_vars
  PROVE  InLine'
<1>0. waiting \in Seq(Tokens)
  BY DEF SupplyInv, Shapes
<1>1. ASSUME waiting' = waiting,
             \A p \in Producers : /\ pc'[Out(p)] = "backpressure" <=> pc[Out(p)] = "backpressure"
                                  /\ pc[Out(p)] = "backpressure" => round'[p] = round[p]
      PROVE  InLine'
  <2>1. ASSUME NEW t \in Tokens
        PROVE  (pc'[Out(t[1])] = "backpressure" /\ t = Current(t[1])') <=>
               (pc[Out(t[1])] = "backpressure" /\ t = Current(t[1]))
    BY <1>1, TokenNames DEF Current
  <2> QED BY <1>1, <2>1 DEF InLine, Out
<1>2. CASE UNCHANGED vars
  BY <1>1, <1>2 DEF vars, inventory, flows
<1>3. ASSUME NEW S \in SUBSET Processes, NEW entries, Fail(S, entries) PROVE InLine'
  <2>1. /\ waiting' = Kept(waiting, {t \in Tokens : t[1] \notin S}) /\ round' = round
        /\ \A f \in Fibers : pc'[f] = IF f[1] \in S THEN "end" ELSE pc[f]
    BY <1>3, FailTells
  <2>2. /\ Range(waiting') = Range(waiting) \cap {t \in Tokens : t[1] \notin S}
        /\ Single(waiting) => Single(waiting')
    BY <1>0, <2>1, KeptAll
  <2>3. \A t \in Tokens : Out(t[1]) \in Fibers /\ Out(t[1])[1] = t[1]
    BY TokenNames, OutputNames
  <2>4. \A t \in Tokens : t \in Range(waiting') <=> pc'[Out(t[1])] = "backpressure" /\ t = Current(t[1])'
    BY <2>1, <2>2, <2>3 DEF InLine, Current
  <2> QED BY <2>2, <2>4 DEF InLine, Out
<1>4. ASSUME NEW p \in Producers, ProducerGoes(p) PROVE InLine'
  <2> p \in Processes /\ Out(p) \in Fibers
    BY OutputNames
  <2> DEFINE now == Current(p)
  <2>1. /\ \A q \in Producers : q # p => /\ pc'[Out(q)] = pc[Out(q)] /\ round'[q] = round[q]
                                         /\ Current(q)' = Current(q)
    <3>1. /\ \A q \in Processes : q # p => round'[q] = round[q]
          /\ \A f \in Fibers : f # Out(p) => pc'[f] = pc[f]
      BY <1>4, ProducerSteps
    <3>2. \A q \in Producers : q # p => Out(q) \in Fibers /\ Out(q) # Out(p) /\ q \in Processes
      BY OutputNames
    <3> QED BY <3>1, <3>2 DEF Current
  <2>2. \A t \in Tokens : /\ t[1] \in Producers
                          /\ t[1] = p /\ t = Current(t[1]) => t = now
                          /\ t = now => t[1] = p /\ t = Current(t[1])
    BY TokenNames DEF Current
  \* The others stand in the line as before.
  <2>3. ASSUME round' = round, pc[Out(p)] \notin {"cycle", "end"}, Single(waiting'),
               waiting' \in Seq(Tokens),
               Range(waiting') \ {now} = Range(waiting) \ {now},
               now \in Range(waiting') <=> pc'[Out(p)] = "backpressure"
        PROVE  InLine'
    <3>1. \A t \in Tokens : t[1] = p => (t = Current(t[1])' <=> t = now)
      BY <2>2, <2>3 DEF Current
    <3>2. \A t \in Tokens : t[1] = p =>
            (t \in Range(waiting') <=> pc'[Out(t[1])] = "backpressure" /\ t = Current(t[1])')
      BY <2>2, <2>3, <3>1 DEF InLine
    <3>3. \A t \in Tokens : t[1] # p =>
            (t \in Range(waiting') <=> pc'[Out(t[1])] = "backpressure" /\ t = Current(t[1])')
      BY <2>1, <2>2, <2>3 DEF InLine
    <3> QED BY <2>3, <3>2, <3>3 DEF InLine, Out
  <2>4. CASE StartCycle(p)
    <3>1. /\ pc[Out(p)] = "cycle" /\ pc'[Out(p)] \in {"make", "end"} /\ waiting' = waiting
      <4>1. pc[Out(p)] = "cycle" /\ waiting' = waiting
        BY <2>4 DEF StartCycle, Out, inventory
      <4>2. pc'[Out(p)] \in {"make", "end"}
        BY <2>4 DEF StartCycle, Out, Goto, Complete, SupplyInv, Shapes
      <4> QED BY <4>1, <4>2
    <3>2. \A q \in Producers : /\ pc'[Out(q)] = "backpressure" <=> pc[Out(q)] = "backpressure"
                               /\ pc[Out(q)] = "backpressure" => round'[q] = round[q]
      BY <2>1, <3>1
    <3> QED BY <1>1, <3>1, <3>2
  <2>5. CASE Shake(p)
    <3>1. /\ pc[Out(p)] = "handshake" /\ waiting' = waiting /\ round' = round
          /\ pc'[Out(p)] \in {"cycle_complete", "deliver"}
      BY <2>5 DEF Shake, Out, Goto, SupplyInv, Shapes
    <3>2. \A q \in Producers : /\ pc'[Out(q)] = "backpressure" <=> pc[Out(q)] = "backpressure"
                               /\ pc[Out(q)] = "backpressure" => round'[q] = round[q]
      BY <2>1, <3>1
    <3> QED BY <1>1, <3>1, <3>2
  <2>6. CASE pc[Out(p)] \in {"offer", "backpressure", "handshake"} /\ Retain(p)
    <3>1. waiting' = Kept(waiting, Range(waiting) \ {now}) /\ round' = round
      BY <2>6 DEF Retain, Without
    <3>2. Range(waiting') = Range(waiting) \ {now} /\ Single(waiting') /\ waiting' \in Seq(Tokens)
      BY <1>0, <3>1, KeptAll, KeptPart DEF InLine
    <3>3. pc'[Out(p)] = "end"
      BY <2>6 DEF Retain, Complete, Out
    <3> QED BY <2>3, <2>6, <3>1, <3>2, <3>3
  <2>7. CASE Publish(p)
    <3> DEFINE line == Arrived(p)
               first == Head(line) = now /\ HasRoom(Reaped)
    <3>1. /\ pc[Out(p)] \in {"offer", "backpressure"} /\ round' = round
          /\ waiting' = IF first THEN Tail(line) ELSE line
          /\ pc'[Out(p)] = IF first THEN "handshake" ELSE "backpressure"
      BY <2>7 DEF Publish, Goto, Out, SupplyInv, Shapes
    <3>2. now \in Tokens
      BY <3>1, ProducerAt
    <3>3. now \in Range(waiting) <=> pc[Out(p)] = "backpressure"
      BY <2>2, <3>2 DEF InLine
    <3>4. line \in Seq(Tokens) /\ Single(line) /\ Range(line) = Range(waiting) \cup {now}
      <4>1. CASE pc[Out(p)] = "offer"
        <5>1. line = Append(waiting, now)
          BY <4>1 DEF Arrived, Out
        <5> QED BY <1>0, <3>2, <3>3, <4>1, <5>1, AppendAll DEF InLine
      <4>2. CASE pc[Out(p)] = "backpressure"
        <5>1. line = waiting
          BY <4>2 DEF Arrived, Out
        <5> QED BY <1>0, <3>3, <4>2, <5>1 DEF InLine
      <4> QED BY <3>1, <4>1, <4>2
    <3> HIDE DEF line
    <3>5. CASE first
      <4>1. line # <<>>
        <5>1. Range(<<>>) = {}
          BY DEF Range
        <5> QED BY <3>4, <5>1
      <4>2. waiting' = Tail(line) /\ pc'[Out(p)] = "handshake" /\ Head(line) = now
        BY <3>1, <3>5
      <4>3. Range(waiting') = Range(line) \ {now} /\ Single(waiting') /\ waiting' \in Seq(Tokens)
        BY <3>4, <4>1, <4>2, TailAll
      <4> QED BY <2>3, <3>1, <3>4, <4>2, <4>3
    <3>6. CASE ~first
      <4>1. waiting' = line /\ pc'[Out(p)] = "backpressure"
        BY <3>1, <3>6
      <4> QED BY <2>3, <3>1, <3>4, <4>1
    <3> QED BY <3>5, <3>6
  <2> QED BY <1>4, <2>4, <2>5, <2>6, <2>7 DEF ProducerGoes
<1>5. ASSUME NEW d \in Inputs, InputGoes(d) PROVE InLine'
  BY <1>1, <1>5, InputSteps
<1>6. ASSUME NEW c \in Consumers, Gather(c) \/ Accept(c) \/ Reject(c) PROVE InLine'
  <2>1. /\ waiting' = waiting
        /\ \A q \in Processes : q # c => round'[q] = round[q]
        /\ \A f \in Fibers : f[1] # c => pc'[f] = pc[f]
    BY <1>6, ConsumerSteps DEF inventory
  <2>2. \A p \in Producers : p \in Processes /\ p # c /\ Out(p) \in Fibers /\ Out(p)[1] = p
    BY OutputNames
  <2> QED BY <1>1, <2>1, <2>2
<1>7. ASSUME NEW p \in Processes, ReleaseBarrier(p) PROVE InLine'
  <2>1. waiting' = waiting /\ round' = round
    BY <1>7 DEF ReleaseBarrier, inventory
  <2>2. \A q \in Producers : pc'[Out(q)] = pc[Out(q)] \/ (pc[Out(q)] = "cycle_complete" /\ pc'[Out(q)] = "cycle")
    BY <1>7, BarrierReleased, OutputNames
  <2> QED BY <1>1, <2>1, <2>2
<1>8. ASSUME NEW calls \in SUBSET Queued, Execute(calls) PROVE InLine'
  <2>1. waiting' = waiting /\ round' = round
    BY <1>8 DEF Execute
  <2>2. ASSUME NEW p \in Producers PROVE pc'[Out(p)] = "backpressure" <=> pc[Out(p)] = "backpressure"
    <3>1. CASE Out(p) \notin calls
      BY <1>8, <3>1, ExecutedFibers, OutputNames
    <3>2. CASE Out(p) \in calls
      <4>1. pc[Out(p)] \in Calls \cap OutputPlaces
        BY <3>2, OutputNames DEF Queued, SupplyInv, Shapes
      <4>2. pc[Out(p)] \in {"make", "deliver"}
        BY <4>1 DEF Calls, OutputPlaces
      <4> QED BY <1>8, <3>2, <4>2, ExecutedFibers
    <3> QED BY <3>1, <3>2
  <2> QED BY <1>1, <2>1, <2>2
<1>10. \A S \in SUBSET Processes : Fail(S, shelf) \/ Fail(S, Reaped) => InLine'
  BY <1>3
<1> QED BY <1>2, <1>10, <1>4, <1>5, <1>6, <1>7, <1>8, EveryStep DEF ProducerGoes, InputGoes

\* Reaping keeps what is on offer.
LEMMA ReapedHolds ==
  ASSUME SupplyInv, Shelved
  PROVE  /\ shelf \in Seq(Tokens) /\ Reaped \in Seq(Tokens) /\ Len(shelf) \in Nat /\ Len(Reaped) \in Nat
         /\ Len(Reaped) =< Len(shelf) /\ Single(Reaped) /\ capacity \in Nat
         /\ Range(Reaped) = {t \in Range(shelf) : ~Spent(t)}
<1>1. shelf \in Seq(Tokens) /\ capacity \in Nat /\ Range(shelf) \subseteq Tokens
  BY SupplyAssumption, ShelfParts DEF SupplyInv, Shapes
<1>2. Reaped \in Seq(Tokens)
  BY ShelfParts DEF SupplyInv
<1>3. /\ Range(Reaped) = Range(shelf) \cap {t \in Tokens : ~Spent(t)}
      /\ Len(Reaped) =< Len(shelf) /\ Single(Reaped)
  BY <1>1, KeptAll DEF Reaped, Shelved
<1> QED BY <1>1, <1>2, <1>3

\* Nothing is put on the shelf, and nothing new is on offer at a handshake.
LEMMA ShelvedFrame ==
  ASSUME SupplyInv, Shelved, shelf' \in {shelf, Reaped}, capacity' = capacity,
         closed' => closed \/ DownstreamDone,
         \A c \in Consumers : Running(c)' => Running(c),
         \A p \in Producers :
           pc'[Out(p)] = "handshake" /\ token'[Current(p)'].status = "offered"
             => /\ pc[Out(p)] = "handshake" /\ token[Current(p)].status = "offered"
                /\ Current(p)' = Current(p)
  PROVE  Shelved'
<1>1. closed' => DownstreamDone'
  BY DEF Shelved, DownstreamDone
<1>2. Len(shelf') =< capacity' /\ Single(shelf')
  BY ReapedHolds DEF Shelved
<1>3. \A p \in Producers :
        pc[Out(p)] = "handshake" /\ token[Current(p)].status = "offered" => Current(p) \in Range(shelf')
  BY ReapedHolds DEF Shelved, Spent
<1> QED BY <1>1, <1>2, <1>3 DEF Shelved, Out, Single

\* The shelf is kept within its capacity.
LEMMA ShelvedStep ==
  ASSUME SupplyInv, Shelved, [Next]_vars
  PROVE  Shelved'
<1>0. capacity' = capacity
  BY EveryStep
<1> DEFINE NoNew == \A p \in Producers :
             pc'[Out(p)] = "handshake" /\ token'[Current(p)'].status = "offered"
               => /\ pc[Out(p)] = "handshake" /\ token[Current(p)].status = "offered"
                  /\ Current(p)' = Current(p)
           NoStart == \A c \in Consumers : Running(c)' => Running(c)
<1>1. ASSUME NoNew, NoStart, shelf' \in {shelf, Reaped}, closed' => closed \/ DownstreamDone
      PROVE  Shelved'
  BY <1>0, <1>1, ShelvedFrame
<1>10. \A p \in Producers : /\ p \in Processes /\ Out(p) \in Fibers /\ Out(p)[1] = p /\ p \notin Consumers
                            /\ pc[Out(p)] = "handshake" => Current(p) \in Tokens
  BY OutputNames, ProducerAt
<1>2. CASE UNCHANGED vars
  <2>1. NoNew /\ NoStart /\ shelf' = shelf /\ closed' = closed
    BY <1>2 DEF vars, inventory, flows, Current, Running
  <2> HIDE DEF NoNew, NoStart
  <2> QED BY <1>1, <2>1
<1>3. ASSUME NEW S \in SUBSET Processes, NEW entries \in {shelf, Reaped}, Fail(S, entries) PROVE Shelved'
  <2>1. /\ round' = round /\ closed' = closed /\ shelf' = entries
        /\ \A f \in Fibers : pc'[f] = IF f[1] \in S THEN "end" ELSE pc[f]
        /\ \A p \in Processes : Running(p)' => Running(p)
        /\ \A t \in Tokens : token'[t].status \in {"discarded", token[t].status}
    BY <1>3, FailTells
  <2>2. NoNew
    BY <1>10, <2>1 DEF Current
  <2>3. NoStart
    BY <2>1, MainNames
  <2> HIDE DEF NoNew, NoStart
  <2> QED BY <1>1, <2>1, <2>2, <2>3
<1>4. ASSUME NEW p \in Producers, ProducerGoes(p) PROVE Shelved'
  <2>1. /\ token' = token
        /\ \A q \in Producers : q # p => pc'[Out(q)] = pc[Out(q)] /\ Current(q)' = Current(q)
    <3>1. /\ token' = token
          /\ \A q \in Processes : q # p => round'[q] = round[q]
          /\ \A f \in Fibers : f # Out(p) => pc'[f] = pc[f]
      BY <1>4, ProducerSteps
    <3>2. \A q \in Producers : q # p => Out(q) \in Fibers /\ Out(q) # Out(p) /\ q \in Processes
      BY <1>10
    <3> QED BY <3>1, <3>2 DEF Current
  <2>2. NoStart
    <3>1. \A q \in Processes : q # p => status'[q] = status[q]
      BY <1>4, ProducerSteps
    <3>2. \A c \in Consumers : c # p /\ c \in Processes
      BY MainNames
    <3> QED BY <3>1, <3>2 DEF Running
  <2>3. ASSUME pc'[Out(p)] # "handshake" PROVE NoNew
    BY <2>1, <2>3
  <2>8. DOMAIN pc = Fibers /\ Out(p) \in Fibers /\ Out(p)[1] = p
    BY <1>10 DEF SupplyInv, Shapes
  <2>4. CASE StartCycle(p)
    <3>1. shelf' = shelf /\ closed' = closed
      BY <2>4 DEF StartCycle, inventory
    <3>2. pc'[Out(p)] # "handshake"
      BY <2>4, <2>8 DEF StartCycle, Out, Goto, Complete
    <3> QED BY <1>1, <2>2, <2>3, <3>1, <3>2
  <2>5. CASE Shake(p)
    <3>1. shelf' = Reaped /\ closed' = closed
      BY <2>5 DEF Shake
    <3>2. pc'[Out(p)] # "handshake"
      BY <2>5, <2>8 DEF Shake, Out, Goto
    <3> QED BY <1>1, <2>2, <2>3, <3>1, <3>2
  <2>6. CASE DownstreamDone /\ Retain(p)
    <3>1. shelf' = Reaped
      BY <2>6 DEF Retain
    <3>2. pc'[Out(p)] # "handshake"
      BY <1>10, <2>6 DEF Retain, Complete, Out
    <3> QED BY <1>1, <2>2, <2>3, <2>6, <3>1, <3>2
  <2>7. CASE Publish(p)
    <3> DEFINE first == Head(Arrived(p)) = Current(p) /\ HasRoom(Reaped)
    <3>1. /\ pc[Out(p)] \in {"offer", "backpressure"} /\ round' = round /\ closed' = closed
          /\ shelf' = IF first THEN Append(Reaped, Current(p)) ELSE Reaped
          /\ pc'[Out(p)] = IF first THEN "handshake" ELSE "backpressure"
      BY <2>7, <2>8 DEF Publish, Goto, Out
    <3>2. CASE ~first
      <4>1. shelf' = Reaped /\ pc'[Out(p)] # "handshake"
        BY <3>1, <3>2
      <4> QED BY <1>1, <2>2, <2>3, <3>1, <4>1
    <3>3. CASE first
      <4>1. Current(p) \in Tokens /\ Current(p) \notin Range(shelf)
        BY <3>1, ProducerAt DEF ProducerStands
      <4>2. Current(p) \notin Range(Reaped)
        BY <4>1, ReapedHolds
      <4>3. /\ shelf' = Append(Reaped, Current(p)) /\ Len(shelf') = Len(Reaped) + 1
            /\ Range(shelf') = Range(Reaped) \cup {Current(p)} /\ Single(shelf')
        BY <3>1, <3>3, <4>1, <4>2, ReapedHolds, AppendAll
      <4>4. Len(shelf') =< capacity'
        BY <1>0, <3>3, <4>3, ReapedHolds DEF HasRoom
      <4>5. \A q \in Producers : Current(q)' = Current(q)
        BY <3>1 DEF Current
      <4>6. ASSUME NEW q \in Producers, pc'[Out(q)] = "handshake", token'[Current(q)'].status = "offered"
            PROVE  Current(q)' \in Range(shelf')
        <5>1. CASE q = p
          BY <4>3, <4>5, <5>1
        <5>2. CASE q # p
          <6>1. pc[Out(q)] = "handshake" /\ token[Current(q)].status = "offered"
            BY <2>1, <4>5, <4>6, <5>2
          <6>2. Current(q) \in Range(shelf)
            BY <6>1 DEF Shelved
          <6> QED BY <4>3, <4>5, <6>1, <6>2, ReapedHolds DEF Spent
        <5> QED BY <5>1, <5>2
      <4>7. closed' => DownstreamDone'
        BY <2>2, <3>1 DEF Shelved, DownstreamDone
      <4> QED BY <4>3, <4>4, <4>6, <4>7 DEF Shelved, Out, Single
    <3> QED BY <3>2, <3>3
  <2> QED BY <1>4, <2>4, <2>5, <2>6, <2>7 DEF ProducerGoes
<1>5. ASSUME NEW d \in Inputs, InputGoes(d) PROVE Shelved'
  <2>1. /\ \A p \in Producers : pc'[Out(p)] = pc[Out(p)] /\ Current(p)' = Current(p)
        /\ closed' = closed /\ NoStart
    BY <1>5, InputSteps DEF Current, Running
  <2>2. \A t \in Tokens : token'[t].status = "offered" => token[t].status = "offered"
    <3>1. token \in [Tokens -> [status : {"absent", "offered", "reserved", "consumed", "discarded"},
                           on : Slots \cup {None}, epoch : Nat, consumer : Consumers \cup {None}]]
      BY DEF SupplyInv, Shapes
    <3>2. CASE Claim(d)
      <4> DEFINE t == Head(Available)
      <4>1. token' = [token EXCEPT ![t] = [token[t] EXCEPT !.status = "reserved", !.consumer = d[1]]]
        BY <3>1, <3>2, StepTells, Zenon DEF Claim
      <4> QED BY <3>1, <4>1
    <3>3. CASE Wait(d) \/ SourceDelivered(d) \/ HandOff(d)
      BY <3>3 DEF Wait, SourceDelivered, HandOff
    <3>4. CASE Admit(d)
      <4>1. token' = token \/ token' = [token EXCEPT ![TransferOf(d)].status = "consumed"]
        BY <3>4 DEF Admit
      <4> QED BY <3>1, <4>1
    <3> QED BY <1>5, <3>2, <3>3, <3>4 DEF InputGoes
  <2>3. shelf' \in {shelf, Reaped}
    BY <1>5 DEF InputGoes, Claim, Wait, SourceDelivered, HandOff, Admit, inventory
  <2>4. NoNew
    BY <1>10, <2>1, <2>2
  <2> HIDE DEF NoNew, NoStart
  <2> QED BY <1>1, <2>1, <2>3, <2>4
<1>6. ASSUME NEW c \in Consumers, Gather(c) \/ Accept(c) \/ Reject(c) PROVE Shelved'
  <2>1. /\ shelf' = shelf /\ closed' = closed /\ token' = token
        /\ \A q \in Processes : q # c => round'[q] = round[q]
        /\ \A f \in Fibers : f[1] # c => pc'[f] = pc[f]
        /\ \A q \in Processes : Running(q)' => Running(q)
    BY <1>6, ConsumerSteps DEF inventory
  <2>2. NoNew
    BY <1>10, <2>1 DEF Current
  <2>3. NoStart
    BY <2>1, MainNames
  <2> HIDE DEF NoNew, NoStart
  <2> QED BY <1>1, <2>1, <2>2, <2>3
<1>7. ASSUME NEW p \in Processes, ReleaseBarrier(p) PROVE Shelved'
  <2>1. shelf' = shelf /\ closed' = closed /\ token' = token /\ round' = round /\ status' = status
    BY <1>7 DEF ReleaseBarrier, inventory
  <2>2. \A q \in Producers : pc'[Out(q)] = pc[Out(q)] \/ (pc[Out(q)] = "cycle_complete" /\ pc'[Out(q)] = "cycle")
    BY <1>7, BarrierReleased, OutputNames
  <2>3. NoNew /\ NoStart
    BY <2>1, <2>2 DEF Current, Running
  <2> HIDE DEF NoNew, NoStart
  <2> QED BY <1>1, <2>1, <2>3
<1>8. ASSUME NEW calls \in SUBSET Queued, Execute(calls) PROVE Shelved'
  <2>1. shelf' = shelf /\ closed' = closed /\ round' = round /\ status' = status
    BY <1>8 DEF Execute
  <2>2. ASSUME NEW p \in Producers, pc'[Out(p)] = "handshake", token'[Current(p)].status = "offered"
        PROVE  pc[Out(p)] = "handshake" /\ token[Current(p)].status = "offered"
    <3>1. CASE Out(p) \in calls
      <4>1. pc[Out(p)] \in Calls \cap OutputPlaces
        BY <3>1, OutputNames DEF Queued, SupplyInv, Shapes
      <4>2. pc[Out(p)] \in {"make", "deliver"}
        BY <4>1 DEF Calls, OutputPlaces
      <4>3. pc[Out(p)] = "deliver"
        BY <1>8, <2>2, <3>1, <4>2, ExecutedFibers
      <4>4. Current(p) \in Tokens /\ Progress(Current(p)) = "parked" /\ Current(p)[1] = p
        BY <4>3, ProducerAt DEF ProducerStands
      <4>5. token[Current(p)].status # "offered"
        BY <4>4, TokenAt DEF OfferedTold
      <4>6. Made(Current(p), calls) \/ UsedUp(Current(p), calls) \/ LeftAlone(Current(p), calls)
        BY <1>8, <4>4, ExecutedTokens
      <4> QED BY <2>2, <4>3, <4>4, <4>5, <4>6 DEF Made, UsedUp, LeftAlone
    <3>2. CASE Out(p) \notin calls
      <4>1. pc[Out(p)] = "handshake"
        BY <1>8, <1>10, <2>2, <3>2, ExecutedFibers
      <4>2. Current(p) \in Tokens /\ Current(p)[1] = p
        BY <4>1, ProducerAt
      <4>3. Made(Current(p), calls) \/ UsedUp(Current(p), calls) \/ LeftAlone(Current(p), calls)
        BY <1>8, <4>2, ExecutedTokens
      <4> QED BY <2>2, <3>2, <4>1, <4>2, <4>3 DEF Made, UsedUp, LeftAlone
    <3> QED BY <3>1, <3>2
  <2>3. NoNew /\ NoStart
    BY <2>1, <2>2 DEF Current, Running
  <2> HIDE DEF NoNew, NoStart
  <2> QED BY <1>1, <2>1, <2>3
<1>9. ASSUME NEW S \in SUBSET Processes, Fail(S, shelf) \/ Fail(S, Reaped) PROVE Shelved'
  BY <1>3, <1>9
<1> QED BY <1>2, <1>9, <1>4, <1>5, <1>6, <1>7, <1>8, EveryStep DEF ProducerGoes, InputGoes

\* All of it holds at the start, and in every step.
LEMMA WaitsInit == ASSUME Init PROVE WaitInv
<1>1. /\ \A c \in Consumers : pc[MainOf(c)] = "local" /\ rotation[c] = 0 /\ round[c] = 1
      /\ \A c \in Consumers : pc[<<c, "R">>] = "idle"
  <2>1. \A c \in Consumers : /\ MainOf(c) \in Fibers /\ MainOf(c) \in Mains /\ MainOf(c) \notin Outputs
                             /\ c \in Processes /\ c \notin Producers
                             /\ <<c, "R">> \in Fibers /\ <<c, "R">> \notin Mains /\ <<c, "R">> \notin Outputs
    BY MainNames, InputNames DEF Slots
  <2>2. pc = [f \in Fibers |-> IF f \in Outputs THEN "cycle"
                            ELSE IF f \in Mains THEN "local"
                            ELSE IF f[2] = "R" THEN "idle" ELSE "ask"]
    BY DEF Init
  <2>3. round = [p \in Processes |-> IF p \in Producers THEN 0 ELSE 1] /\ rotation = [c \in Consumers |-> 0]
    BY DEF Init
  <2> QED BY <2>1, <2>2, <2>3
<1>2. \A d \in Inputs : carrier[binding[d]].owner = None /\ pc[d] # "wait"
  <2>1. \A d \in Inputs : d \in Slots /\ d \in Fibers /\ d \notin Outputs /\ d \notin Mains
    BY InputNames
  <2> QED BY <2>1 DEF Init
<1>3. \A p \in Producers : pc[Out(p)] = "cycle"
  BY OutputNames DEF Init
<1>4. /\ waiting = <<>> /\ shelf = <<>> /\ demands = <<>> /\ closed = FALSE
      /\ capacity \in Nat /\ DOMAIN rotation = Consumers
  BY SupplyAssumption DEF Init
<1>5. Range(<<>>) = {} /\ Single(<<>>) /\ Len(<<>>) = 0
  BY DEF Range, Single
<1>6. Lockstep
  BY <1>1, <1>4 DEF Lockstep, Together
<1>7. RotationStands
  BY <1>1 DEF RotationStands
<1>8. HandsFree
  BY <1>1, <1>2 DEF HandsFree
<1>9. Demanded
  BY <1>2, <1>4, <1>5 DEF Demanded
<1>10. InLine
  BY <1>3, <1>4, <1>5, TokenNames DEF InLine
<1>11. Shelved
  BY <1>3, <1>4, <1>5 DEF Shelved
<1> QED BY <1>6, <1>7, <1>8, <1>9, <1>10, <1>11 DEF WaitInv

LEMMA WaitsStep ==
  ASSUME WaitInv, SupplyInv, SupplyInv', [Next]_vars
  PROVE  WaitInv'
<1> QED BY LockstepStep, RotationStep, HandsFreeStep, DemandedStep, InLineStep, ShelvedStep DEF WaitInv

\* Where the fibers stand when nothing is left to do.
LEMMA StuckStands ==
  ASSUME SupplyInv, WaitInv, Stuck
  PROVE  /\ \A p \in Producers : pc[Out(p)] \in {"backpressure", "handshake", "cycle_complete", "end"}
         /\ \A d \in Inputs : pc[d] \in {"idle", "wait", "parked", "got", "end"}
         /\ \A c \in Consumers : pc[MainOf(c)] \in {"prepare", "rotate", "end"} \cup Barriers
         /\ \A f \in Fibers : ~Wakes(f) /\ (pc[f] = "wait" => ~Exhausted)
         /\ \A c \in Consumers : ~Gathered(c)
         /\ \A p \in Processes : ~Assembled(p)
         /\ \A t \in Tokens : Progress(t) \notin Received
<1>1. Settled /\ Queued = {} /\ \A p \in Processes : ~Assembled(p)
  BY DEF Stuck, Ready
<1>2. \A f \in Fibers : /\ pc[f] \notin Calls
                        /\ pc[f] \notin {"cycle", "offer", "ask", "handoff", "decided"}
                        /\ ~Wakes(f) /\ (pc[f] = "wait" => ~Exhausted)
                        /\ f \in Mains => ~Gathered(f[1])
  BY <1>1 DEF Settled, CanAdvance, Queued
<1>3. \A p \in Producers : pc[Out(p)] \in {"backpressure", "handshake", "cycle_complete", "end"}
  <2>1. \A p \in Producers : Out(p) \in Fibers /\ pc[Out(p)] \in OutputPlaces
    BY OutputNames DEF SupplyInv, Shapes
  <2> QED BY <1>2, <2>1 DEF OutputPlaces, Calls
<1>4. \A d \in Inputs : pc[d] \in {"idle", "wait", "parked", "got", "end"}
  <2>1. \A d \in Inputs : d \in Fibers /\ pc[d] \in InputPlaces /\ pc[d] # "ack"
    BY <1>1, InputNames, SettledQuiet DEF SupplyInv, Shapes
  <2> QED BY <1>2, <2>1 DEF InputPlaces, Calls
<1>5. \A c \in Consumers : pc[MainOf(c)] \in {"prepare", "rotate", "end"} \cup Barriers
  <2>1. \A c \in Consumers : MainOf(c) \in Fibers /\ pc[MainOf(c)] \in MainPlaces
    BY MainNames DEF SupplyInv, Shapes
  <2> QED BY <1>2, <2>1 DEF MainPlaces, Calls, Barriers
<1>6. \A c \in Consumers : ~Gathered(c)
  BY <1>2, MainNames
<1>7. \A t \in Tokens : Progress(t) \notin Received
  BY <1>1, SettledQuiet
<1> QED BY <1>1, <1>2, <1>3, <1>4, <1>5, <1>6, <1>7

\* The producers never wait for one another alone.
LEMMA ProducersMet ==
  ASSUME SupplyInv, NEW p \in Producers, Running(p),
         \A q \in Producers : Running(q) => pc[Out(q)] = "cycle_complete"
  PROVE  Assembled(p)
<1>1. /\ \A q \in Producers : Main(q) = Out(q) /\ q \notin Consumers
      /\ Cohort(p) = Producers
  BY OutputNames DEF Main, Out, Cohort
<1>2. \A q \in Peers(p) : q \in Producers /\ Running(q)
  BY <1>1 DEF Peers
<1> QED BY <1>1, <1>2 DEF Assembled, Barriers

\* Nor do the consumers.
LEMMA ConsumersMet ==
  ASSUME SupplyInv, WaitInv, NEW c \in Consumers, Running(c),
         \A d \in Consumers : Running(d) => pc[MainOf(d)] \in Barriers
  PROVE  Assembled(c)
<1>1. /\ \A d \in Consumers : Main(d) = MainOf(d) /\ d \notin Producers
      /\ Cohort(c) = Consumers
  BY MainNames DEF Main, MainOf, Cohort
<1>2. ASSUME NEW d \in Consumers, Running(d)
      PROVE  pc[MainOf(d)] = pc[MainOf(c)] /\ rotation[d] = rotation[c]
  <2>1. pc[MainOf(d)] \in Barriers /\ pc[MainOf(c)] \in Barriers
    BY <1>2
  <2>2. Together(c, d)
    <3>1. Together(c, d) \/ Ahead(c, d) \/ Ahead(d, c)
      BY <1>2 DEF WaitInv, Lockstep
    <3> QED BY <2>1, <3>1 DEF Ahead, Barriers
  <2>3. Heading(pc[MainOf(d)]) = pc[MainOf(d)] /\ Heading(pc[MainOf(c)]) = pc[MainOf(c)]
    BY <2>1 DEF Heading, Barriers
  <2> QED BY <2>2, <2>3 DEF Together
<1>3. \A d \in Peers(c) : d \in Consumers /\ Running(d)
  BY <1>1 DEF Peers
<1> QED BY <1>1, <1>2, <1>3 DEF Assembled

\* An input waits for a token, and no delivery is under way.
LEMMA InputWaits ==
  ASSUME SupplyInv, WaitInv, Stuck
  PROVE  /\ \E d \in Inputs : pc[d] = "wait"
         /\ ~broken /\ lease = None /\ ~DownstreamDone
<1>0. \A f \in Fibers : ~Wakes(f)
  BY StuckStands
<1>1. ASSUME DownstreamDone PROVE FALSE
  <2>1. PICK p \in Producers : Running(p)
    BY <1>1, FiberKinds DEF Stuck, DownstreamDone
  <2>2. ASSUME NEW q \in Producers, Running(q) PROVE pc[Out(q)] = "cycle_complete"
    <3>1. pc[Out(q)] \in {"backpressure", "handshake", "cycle_complete"} /\ ~Wakes(Out(q))
      BY <2>2, StuckStands, ProducerAt, OutputNames
    <3>2. pc[Out(q)] \in {"backpressure", "handshake"} => Wakes(Out(q))
      BY <1>1 DEF Wakes
    <3> QED BY <3>1, <3>2
  <2>3. Assembled(p) /\ p \in Processes
    BY <2>1, <2>2, ProducersMet, OutputNames
  <2> QED BY <2>3, StuckStands
<1>2. \E c \in Consumers : Running(c) /\ pc[MainOf(c)] \in {"prepare", "rotate"}
  <2>1. PICK c \in Consumers : Running(c)
    BY <1>1 DEF DownstreamDone
  <2>2. \A d \in Consumers : Running(d) => pc[MainOf(d)] # "end"
    BY MainNames DEF SupplyInv, EndsMet
  <2>3. ~Assembled(c)
    BY StuckStands, MainNames
  <2> QED BY <2>1, <2>2, <2>3, ConsumersMet, StuckStands
<1>3. \E d \in Inputs : pc[d] \in {"wait", "parked"}
  <2>1. PICK c \in Consumers : Running(c) /\ pc[MainOf(c)] \in {"prepare", "rotate"}
    BY <1>2
  <2>2. ConsumerStands(c) /\ RotationStands /\ ~Gathered(c)
    BY StuckStands DEF SupplyInv, ConsumersStand, WaitInv
  <2>3. \A r \in InitialRoles \cup {"R"} :
          <<c, r>> \in Inputs /\ pc[<<c, r>>] \in {"idle", "wait", "parked", "got"}
    <3>1. \A r \in InitialRoles \cup {"R"} :
            /\ <<c, r>> \in Inputs /\ <<c, r>> \in Fibers /\ <<c, r>>[1] = c
            /\ pc[<<c, r>>] \in {"idle", "wait", "parked", "got", "end"}
      BY StuckStands, InputNames
    <3>2. \A r \in InitialRoles \cup {"R"} : pc[<<c, r>>] # "end"
      BY <2>1, <3>1 DEF SupplyInv, EndsMet
    <3> QED BY <3>1, <3>2
  <2>4. CASE pc[MainOf(c)] = "prepare"
    <3>1. PICK r \in InitialRoles : pc[<<c, r>>] # "got"
      BY <2>2, <2>4 DEF Gathered, MainOf
    <3>2. pc[<<c, r>>] # "idle"
      BY <2>2, <3>1 DEF ConsumerStands
    <3> QED BY <2>3, <3>1, <3>2
  <2>5. CASE pc[MainOf(c)] = "rotate"
    <3>1. pc[<<c, "R">>] # "got"
      BY <2>2, <2>5 DEF Gathered, MainOf
    <3>2. pc[<<c, "R">>] # "idle"
      BY <2>2, <2>5 DEF RotationStands
    <3> QED BY <2>3, <3>1, <3>2
  <2> QED BY <2>1, <2>4, <2>5
<1>4. ASSUME broken PROVE FALSE
  <2>1. PICK d \in Inputs : pc[d] \in {"wait", "parked"}
    BY <1>3
  <2>2. Wakes(d)
    BY <1>4, <2>1 DEF Wakes
  <2> QED BY <1>0, <2>2, InputNames
<1>5. ASSUME NEW d \in Inputs, pc[d] = "parked" PROVE FALSE
  <2>1. /\ lease \in Tokens /\ InputOf(lease) = d /\ Claimed(lease)
        /\ Progress(lease) \in {"parked", "delivered"}
    BY <1>5, LeaseOf, InputAt DEF InputStands
  <2>2. Progress(lease) # "delivered"
    <3>1. Progress(lease) = "delivered" => Wakes(d)
      BY <1>5 DEF Wakes, Progress
    <3> QED BY <1>0, <3>1, InputNames
  <2>3. Progress(lease) = "parked"
    BY <2>1, <2>2
  <2>4. /\ pc[Out(lease[1])] \in {"handshake", "deliver"} /\ lease = Current(lease[1])
        /\ lease[1] \in Producers /\ Out(lease[1]) \in Fibers
    BY <1>4, <2>1, <2>3, TokenAt DEF InStep
  <2>5. pc[Out(lease[1])] = "handshake"
    BY <2>4, StuckStands
  <2>6. Out(lease[1])[1] = lease[1]
    BY DEF Out
  <2>7. Wakes(Out(lease[1]))
    BY <2>1, <2>3, <2>4, <2>5, <2>6 DEF Wakes, Progress
  <2> QED BY <1>0, <2>4, <2>7
<1>6. ASSUME lease # None PROVE FALSE
  <2>1. lease \in Tokens /\ Progress(lease) \in Underway
    BY <1>6 DEF SupplyInv, Shapes, Leased
  <2>2. Claimed(lease) /\ Progress(lease) # "finished"
    BY <2>1 DEF Claimed, Progress, Underway
  <2>3. InStep(lease) /\ InputOf(lease) \in Inputs
    BY <2>1, <2>2, TokenAt
  <2>4. pc[InputOf(lease)] \in {"park", "parked", "replace", "handoff"}
    BY <1>4, <2>1, <2>2, <2>3 DEF InStep, Underway
  <2>5. pc[InputOf(lease)] \in {"idle", "wait", "parked", "got", "end"}
    BY <2>3, StuckStands
  <2> QED BY <1>5, <2>3, <2>4, <2>5
<1> QED BY <1>1, <1>3, <1>4, <1>5, <1>6

\* Every slot holds the input of a consumer that waits at its barrier.
LEMMA ShelfHeld ==
  ASSUME SupplyInv, WaitInv, Stuck
  PROVE  /\ \A t \in Range(shelf) :
              /\ t \in Tokens /\ token[t].status = "reserved" /\ Progress(t) = "finished"
              /\ ConsumerOf(t) \in Consumers /\ Running(ConsumerOf(t))
              /\ InputOf(t) = <<ConsumerOf(t), "R">> /\ pc[InputOf(t)] = "got"
              /\ pc[MainOf(ConsumerOf(t))] = "raw_prepared"
              /\ On(t) = binding[InputOf(t)]
         /\ \E p \in Producers : Running(p)
<1>1. PICK d \in Inputs : pc[d] = "wait"
  BY InputWaits
<1>2. ~broken /\ lease = None
  BY InputWaits
<1>3. d \in Fibers /\ ~Wakes(d) /\ ~Exhausted
  BY <1>1, InputNames, StuckStands
<1>4. Reclaimable = {}
  BY <1>1, <1>3 DEF Wakes
<1>5. demands \in Seq(Inputs) /\ shelf \in Seq(Tokens) /\ Range(shelf) \subseteq Tokens
  BY ShelfParts DEF SupplyInv, Shapes
\* The demand at the head of the line could start.
<1>6. Available = <<>>
  <2> DEFINE line == Kept(demands, {e \in Inputs : Running(e[1])})
  <2>1. \A e \in Range(demands) : e \in Inputs /\ pc[e] = "wait" /\ Running(e[1])
    <3>1. Range(demands) \subseteq Inputs
      BY <1>5 DEF Range
    <3>2. \A e \in Range(demands) : pc[e] = "wait"
      BY <3>1 DEF WaitInv, Demanded
    <3> QED BY <3>1, <3>2, InputAt
  <2>2. line \in Seq(Inputs) /\ Range(line) = Range(demands) \cap {e \in Inputs : Running(e[1])}
    BY <1>5, KeptPart, KeptAll
  <2>3. d \in Range(line)
    BY <1>1, <2>1, <2>2 DEF WaitInv, Demanded
  <2>4. line # <<>>
    <3>1. Range(<<>>) = {}
      BY DEF Range
    <3> HIDE DEF line
    <3> QED BY <2>3, <3>1
  <2> DEFINE e == Head(line)
  <2>5. e \in Range(line)
    <3> HIDE DEF line
    <3> QED BY <2>2, <2>4, TailAll
  <2>6. e \in Inputs /\ pc[e] = "wait"
    BY <2>1, <2>2, <2>5
  <2>7. Asked(e) = demands
    BY <2>6 DEF Asked
  <2>8. carrier[binding[e]].owner = None
    BY <2>6 DEF WaitInv, HandsFree
  <2>9. Available # <<>> => CanStart(e)
    BY <1>2, <2>7, <2>8 DEF CanStart
  <2>10. ~CanStart(e)
    <3>1. ~Wakes(e)
      BY <2>6, InputNames, StuckStands
    <3> QED BY <2>6, <3>1 DEF Wakes
  <2> QED BY <2>9, <2>10
<1>7. \A t \in Range(shelf) : token[t].status # "offered"
  <2>1. Range(Available) = Range(shelf) \cap {t \in Tokens : token[t].status = "offered"}
    BY <1>5, KeptAll DEF Available
  <2>2. Range(Available) = {}
    BY <1>6 DEF Range
  <2> QED BY <1>5, <2>1, <2>2
<1>8. ASSUME NEW t \in Range(shelf)
      PROVE  /\ t \in Tokens /\ token[t].status = "reserved" /\ Progress(t) = "finished"
             /\ ConsumerOf(t) \in Consumers /\ Running(ConsumerOf(t))
             /\ InputOf(t) = <<ConsumerOf(t), "R">> /\ pc[InputOf(t)] = "got"
             /\ pc[MainOf(ConsumerOf(t))] = "raw_prepared"
             /\ On(t) = binding[InputOf(t)]
  <2>1. t \in Tokens
    BY <1>5
  <2>2. token[t].status = "reserved"
    <3>1. token[t].status \in {"absent", "offered", "reserved", "consumed", "discarded"}
      BY <2>1 DEF SupplyInv, Shapes
    <3>2. token[t].status # "absent"
      BY DEF SupplyInv, ShelfInv
    <3>3. token[t].status \notin {"consumed", "discarded"}
      BY <1>4 DEF Reclaimable, Spent
    <3> QED BY <1>7, <3>1, <3>2, <3>3
  <2>3. Progress(t) = "finished"
    <3>1. Claimed(t) /\ Progress(t) \in Progresses /\ Progress(t) # "none"
      BY <2>1, <2>2, TokenAt DEF ReservedTold
    <3>2. Progress(t) \notin Underway
      BY <1>2, <2>1, TokenNames DEF SupplyInv, Leased
    <3>3. Progress(t) \notin Received
      BY <2>1, StuckStands
    <3> QED BY <3>1, <3>2, <3>3 DEF Progresses
  <2>4. /\ Claimed(t) /\ HandedOff(t) /\ Running(ConsumerOf(t)) /\ InputOf(t)[2] = "R"
        /\ pc[InputOf(t)] = "got" /\ On(t) = binding[InputOf(t)]
        /\ pc[MainOf(ConsumerOf(t))] \in {"rotate", "raw_prepared", "inject"}
    <3>1. HandedOff(t)
      BY <2>3 DEF HandedOff, Progress
    <3> QED BY <2>1, <2>2, <2>3, <3>1, TokenAt DEF ReservedTold
  <2>5. /\ InputOf(t) \in Inputs /\ ConsumerOf(t) = InputOf(t)[1] /\ ConsumerOf(t) \in Consumers
    BY <2>1, <2>4, TokenAt
  <2>6. InputOf(t) = <<ConsumerOf(t), "R">>
    BY <2>4, <2>5, InputNames
  <2>7. pc[MainOf(ConsumerOf(t))] # "inject"
    BY <2>5, StuckStands DEF Barriers
  <2>8. pc[MainOf(ConsumerOf(t))] # "rotate"
    <3>1. pc[MainOf(ConsumerOf(t))] = "rotate" => Gathered(ConsumerOf(t))
      BY <2>4, <2>6 DEF Gathered, MainOf
    <3> QED BY <2>5, <3>1, StuckStands
  <2> QED BY <2>1, <2>2, <2>3, <2>4, <2>5, <2>6, <2>7, <2>8
<1>9. \E p \in Producers : Running(p)
  BY <1>3, <1>6 DEF Exhausted
<1> QED BY <1>8, <1>9

\* And there is no slot left.
LEMMA ShelfFull ==
  ASSUME SupplyInv, WaitInv, Stuck
  PROVE  Len(shelf) = capacity
<1>1. PICK p \in Producers : Running(p)
  BY ShelfHeld
<1>2. ~DownstreamDone /\ lease = None
  BY InputWaits
<1>3. \A q \in Producers : pc[Out(q)] # "handshake"
  <2> SUFFICES ASSUME NEW q \in Producers, pc[Out(q)] = "handshake" PROVE FALSE
    OBVIOUS
  <2> DEFINE t == Current(q)
  <2>1. t \in Tokens /\ ~Acknowledged(t) /\ (~Claimed(t) => token[t].status = "offered")
    BY ProducerAt DEF ProducerStands
  <2>2. ~Claimed(t)
    <3>1. Progress(t) \in Progresses /\ (Claimed(t) <=> Progress(t) # "none")
      BY <2>1, TokenAt
    <3>2. Progress(t) \notin Underway
      BY <1>2, <2>1, TokenNames DEF SupplyInv, Leased
    <3>3. Progress(t) \notin Received
      BY <2>1, StuckStands
    <3>4. Progress(t) # "finished"
      BY <2>1 DEF Acknowledged, Progress
    <3> QED BY <3>1, <3>2, <3>3, <3>4 DEF Progresses
  <2>3. t \in Range(shelf)
    BY <2>1, <2>2 DEF WaitInv, Shelved
  <2> QED BY <2>1, <2>2, <2>3, ShelfHeld
<1>4. \E q \in Producers : pc[Out(q)] = "backpressure"
  <2> SUFFICES ASSUME \A q \in Producers : pc[Out(q)] # "backpressure" PROVE FALSE
    OBVIOUS
  <2>1. \A q \in Producers : Running(q) => pc[Out(q)] = "cycle_complete"
    BY <1>3, StuckStands, ProducerAt
  <2> QED BY <1>1, <2>1, ProducersMet, StuckStands, OutputNames
<1>5. PICK q \in Producers : pc[Out(q)] = "backpressure"
  BY <1>4
<1>6. waiting \in Seq(Tokens) /\ waiting # <<>>
  <2>1. Current(q) \in Tokens /\ Current(q)[1] = q
    BY <1>5, ProducerAt
  <2>2. Current(q) \in Range(waiting)
    BY <1>5, <2>1 DEF WaitInv, InLine
  <2>3. Range(<<>>) = {}
    BY DEF Range
  <2> QED BY <2>2, <2>3 DEF SupplyInv, Shapes
<1> DEFINE t == Head(waiting)
<1>7. t \in Tokens /\ t \in Range(waiting)
  BY <1>6, TailAll
<1>8. pc[Out(t[1])] = "backpressure" /\ t = Current(t[1]) /\ t[1] \in Producers
  BY <1>7, TokenNames DEF WaitInv, InLine
<1>9. ~HasRoom(shelf)
  <2>1. ~Wakes(Out(t[1])) /\ Out(t[1])[1] = t[1]
    BY <1>8, StuckStands, OutputNames
  <2> QED BY <1>8, <2>1 DEF Wakes
<1>10. ~closed /\ Len(shelf) =< capacity /\ Len(shelf) \in Nat /\ capacity \in Nat
  BY <1>2, ReapedHolds DEF WaitInv, Shelved
<1> QED BY <1>9, <1>10 DEF HasRoom

\* So a run that is stuck is stuck for want of room.
LEMMA StuckForOneReason == ASSUME SupplyInv, WaitInv PROVE StuckForRoom
<1> SUFFICES ASSUME Stuck
             PROVE  /\ capacity < Cardinality(Consumers) /\ Len(shelf) = capacity
                    /\ \A t \in Range(shelf) : /\ token[t].status = "reserved"
                                               /\ pc[Main(ConsumerOf(t))] = "raw_prepared"
                    /\ \E c \in Consumers : pc[<<c, "R">>] = "wait"
  BY DEF StuckForRoom
<1>1. Len(shelf) = capacity /\ capacity \in Nat \ {0} /\ shelf \in Seq(Tokens)
  BY ShelfFull, SupplyAssumption DEF SupplyInv, Shapes
<1>2. \A t \in Range(shelf) : /\ token[t].status = "reserved"
                              /\ pc[Main(ConsumerOf(t))] = "raw_prepared"
  <2>1. \A c \in Consumers : Main(c) = MainOf(c)
    BY MainNames DEF Main, MainOf
  <2> QED BY <2>1, ShelfHeld
<1>3. \A i \in 1..capacity : shelf[i] \in Range(shelf)
  BY <1>1 DEF Range
<1>4. PICK d \in Inputs : pc[d] = "wait"
  BY InputWaits
<1> DEFINE c == d[1]
<1>5. c \in Consumers /\ Running(c) /\ d = <<c, d[2]>> /\ d[2] \in InitialRoles \cup {"R"}
  BY <1>4, InputNames, InputAt
\* The waiting consumer is in its rotation, as are those that hold the slots.
<1>6. pc[MainOf(c)] = "rotate" /\ d = <<c, "R">>
  <2> DEFINE b == ConsumerOf(shelf[1])
  <2>1. b \in Consumers /\ Running(b) /\ pc[MainOf(b)] = "raw_prepared"
    <3>1. shelf[1] \in Range(shelf)
      BY <1>1, <1>3
    <3> QED BY <3>1, ShelfHeld
  <2>2. Together(b, c)
    <3>1. Together(b, c) \/ Ahead(b, c) \/ Ahead(c, b)
      BY <1>5, <2>1 DEF WaitInv, Lockstep
    <3> QED BY <2>1, <3>1 DEF Ahead
  <2>3. Heading(pc[MainOf(c)]) = "raw_prepared"
    BY <2>1, <2>2 DEF Together, Heading
  <2>4. pc[MainOf(c)] \in {"rotate", "raw_prepared"}
    BY <2>3 DEF Heading
  <2>5. ConsumerStands(c)
    BY <1>5 DEF SupplyInv, ConsumersStand
  <2>6. d[2] \notin InitialRoles
    BY <1>4, <1>5, <2>4, <2>5 DEF ConsumerStands
  <2>7. pc[MainOf(c)] # "raw_prepared"
    BY <1>4, <1>5, <2>5, <2>6 DEF ConsumerStands
  <2> QED BY <1>5, <2>4, <2>6, <2>7
\* Each slot is another consumer's.
<1>7. capacity < Cardinality(Consumers)
  <2> DEFINE others == Consumers \ {c}
             holder == [i \in 1..capacity |-> ConsumerOf(shelf[i])]
  <2>1. holder \in [1..capacity -> others]
    <3>1. \A i \in 1..capacity : ConsumerOf(shelf[i]) \in Consumers
      BY <1>3, ShelfHeld
    <3>2. \A i \in 1..capacity : ConsumerOf(shelf[i]) # c
      BY <1>3, <1>6, ShelfHeld
    <3> QED BY <3>1, <3>2
  <2>2. ASSUME NEW i \in 1..capacity, NEW j \in 1..capacity, holder[i] = holder[j] PROVE i = j
    <3>1. /\ shelf[i] \in Tokens /\ shelf[j] \in Tokens
          /\ token[shelf[i]].status = "reserved" /\ token[shelf[j]].status = "reserved"
          /\ InputOf(shelf[i]) = <<ConsumerOf(shelf[i]), "R">> /\ On(shelf[i]) = binding[InputOf(shelf[i])]
          /\ InputOf(shelf[j]) = <<ConsumerOf(shelf[j]), "R">> /\ On(shelf[j]) = binding[InputOf(shelf[j])]
      BY <1>3, ShelfHeld
    <3>2. On(shelf[i]) = On(shelf[j])
      BY <2>2, <3>1
    <3>3. shelf[i] = shelf[j]
      BY <3>1, <3>2 DEF SupplyInv, OneLive, Live
    <3> QED BY <1>1, <3>3 DEF WaitInv, Shelved, Single
  <2>3. holder \in Injection(1..capacity, others)
    BY <2>1, <2>2 DEF Injection, IsInjective
  <2> HIDE DEF holder
  <2>4. /\ IsFiniteSet(others) /\ Cardinality(others) = Cardinality(Consumers) - 1
        /\ Cardinality(Consumers) \in Nat
    BY <1>5, SupplyAssumption, FS_RemoveElement, FS_CardinalityType
  <2>5. Cardinality(1..capacity) =< Cardinality(others)
    BY <2>3, <2>4, FS_Injection
  <2>6. Cardinality(1..capacity) = capacity
    BY <1>1, FS_Interval
  <2> QED BY <1>1, <2>4, <2>5, <2>6
<1> QED BY <1>1, <1>2, <1>4, <1>5, <1>6, <1>7

\* With room for one token per consumer the runtime never runs out of things to
\* do, and with less it gives up for one reason only: the slots are taken by
\* consumers that wait, at the barrier of their rotation, for one that has no slot
\* left to be supplied from.
THEOREM HeldUpForOneReason == Spec => []StuckForRoom
<1>1. SupplyInv /\ WaitInv /\ SupplyInv' /\ [Next]_vars => WaitInv'
  BY WaitsStep
<1>2. SupplyInv /\ WaitInv => StuckForRoom
  BY StuckForOneReason
<1> QED BY <1>1, <1>2, SupplyInvariant, WaitsInit, PTL DEF Spec
=============================================================================
