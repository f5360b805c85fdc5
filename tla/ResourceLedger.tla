--------------------------- MODULE ResourceLedger ---------------------------
(***************************************************************************)
(* The carrier and token ledger of the logical compiler                    *)
(* (modules/logical_compiler/src/protocols/resources.py).                  *)
(*                                                                         *)
(* A carrier is a patch of atoms (or a logical estimate of one) that one   *)
(* owner at a time prepares, moves and uses.  A token is one magic-state   *)
(* resource living on a carrier in one preparation epoch of it.  Every     *)
(* mutating method is one action; a call the code rejects raises           *)
(* ResourceError and leaves the ledger as it was, hence is no step here.   *)
(*                                                                         *)
(* Callers pass times (microseconds in the code, naturals here).  Evidence *)
(* JSON, the audit text, the usage label and the discard time are left     *)
(* out: nothing in the code branches on them.                              *)
(***************************************************************************)
EXTENDS Naturals

CONSTANTS
  Carriers,   \* carrier identities
  Tokens,     \* token identities
  Owners,     \* scopes that own carriers: producers and consumers
  NoOwner,    \* the code's None
  Atoms,      \* atom identities
  MaxTime,    \* bound on every time a caller passes
  MaxEpoch    \* bound on preparations of one carrier

ASSUME LedgerAssumption ==
  /\ MaxTime \in Nat
  /\ MaxEpoch \in Nat
  /\ NoOwner \notin Owners
  /\ Carriers # {}

VARIABLES
  carrier,         \* _carriers
  token,           \* _tokens
  claimedAtoms,    \* _atoms
  transportUntil   \* _transport_until, 0 where the dictionary has no entry

vars == <<carrier, token, claimedAtoms, transportUntil>>

Time == 0..MaxTime
Representations == {"unregistered", "physical", "logical_estimate"}
Phases == {"free", "preparing", "resource", "work", "transport"}
Statuses == {"absent", "offered", "reserved", "consumed", "discarded"}
Labels == {"canonical", "unresolved"}

CarrierRecord ==
  [representation : Representations, atoms : SUBSET Atoms, epoch : 0..MaxEpoch,
   owner : Owners \cup {NoOwner}, phase : Phases, safeExit : Time, last : Time]

\* on is the carrier, label stands for code, kind, distance and
\* canonicalization together: the code only ever compares them for equality.
TokenRecord ==
  [status : Statuses, on : Carriers, epoch : 0..MaxEpoch, label : Labels,
   ready : Time, exit : Time, consumer : Owners \cup {NoOwner}, consumedAt : Time]

TypeOK ==
  /\ carrier \in [Carriers -> CarrierRecord]
  /\ token \in [Tokens -> TokenRecord]
  /\ claimedAtoms \in SUBSET Atoms
  /\ transportUntil \in [Carriers -> Time]

FreshCarrier(representation, atoms) ==
  [representation |-> representation, atoms |-> atoms, epoch |-> 0,
   owner |-> NoOwner, phase |-> "free", safeExit |-> 0, last |-> 0]

AbsentToken ==
  [status |-> "absent", on |-> CHOOSE c \in Carriers : TRUE, epoch |-> 0,
   label |-> "canonical", ready |-> 0, exit |-> 0, consumer |-> NoOwner,
   consumedAt |-> 0]

Init ==
  /\ carrier = [c \in Carriers |-> FreshCarrier("unregistered", {})]
  /\ token = [t \in Tokens |-> AbsentToken]
  /\ claimedAtoms = {}
  /\ transportUntil = [c \in Carriers |-> 0]

-----------------------------------------------------------------------------
(* Guards shared by the operations.                                        *)

Live(t) == token[t].status \in {"offered", "reserved"}

\* Variant: a reserved token no longer protects its carrier.
ActiveOfferedOnly(c) ==
  \E t \in Tokens : /\ token[t].on = c /\ token[t].epoch = carrier[c].epoch
                    /\ token[t].status = "offered"

\* Variant: a token protects its carrier only once it is reserved.
ActiveReservedOnly(c) ==
  \E t \in Tokens : /\ token[t].on = c /\ token[t].epoch = carrier[c].epoch
                    /\ token[t].status = "reserved"

\* Some token of the carrier's current epoch is still to be used.
Active(c) ==
  \E t \in Tokens : token[t].on = c /\ token[t].epoch = carrier[c].epoch /\ Live(t)

Current(t) ==
  token[t].status # "absent" /\ token[t].epoch = carrier[token[t].on].epoch

NotBefore(c, at) == at >= carrier[c].last

OwnedBy(c, owner) == carrier[c].owner = owner /\ owner \in Owners

\* Variant: only the carrier's clock is looked at.
TransportStarted(c, at) == at >= carrier[c].last

TransportComplete(c, at) == at >= transportUntil[c]

Safe(c, at) == at >= carrier[c].safeExit

Registered(c) == carrier[c].representation # "unregistered"

-----------------------------------------------------------------------------
(* Registration.                                                           *)

\* Variant: no overlap test.
RegisterCarrierOverlapping(c, atoms) ==
  /\ ~Registered(c)
  /\ \A d \in Carriers : carrier[d].representation # "logical_estimate"
  /\ atoms # {}
  /\ carrier' = [carrier EXCEPT ![c] = FreshCarrier("physical", atoms)]
  /\ claimedAtoms' = claimedAtoms \cup atoms
  /\ UNCHANGED <<token, transportUntil>>

RegisterCarrier(c, atoms) ==
  /\ ~Registered(c)
  /\ \A d \in Carriers : carrier[d].representation # "logical_estimate"
  /\ atoms # {}
  /\ atoms \cap claimedAtoms = {}
  /\ carrier' = [carrier EXCEPT ![c] = FreshCarrier("physical", atoms)]
  /\ claimedAtoms' = claimedAtoms \cup atoms
  /\ UNCHANGED <<token, transportUntil>>

RegisterLogicalCarrier(c) ==
  /\ ~Registered(c)
  /\ \A d \in Carriers : carrier[d].representation # "physical"
  /\ carrier' = [carrier EXCEPT ![c] = FreshCarrier("logical_estimate", {})]
  /\ UNCHANGED <<token, claimedAtoms, transportUntil>>

-----------------------------------------------------------------------------
(* Carrier ownership.                                                      *)

AcquireTransport(c, owner, at) ==
  /\ Registered(c)
  /\ NotBefore(c, at)
  /\ carrier[c].owner = NoOwner /\ carrier[c].phase = "free"
  /\ ~Active(c)
  /\ Safe(c, at)
  /\ carrier' = [carrier EXCEPT ![c] =
       [@ EXCEPT !.owner = owner, !.phase = "transport", !.last = at]]
  /\ UNCHANGED <<token, claimedAtoms, transportUntil>>

BeginPreparation(c, owner, at) ==
  /\ Registered(c)
  /\ NotBefore(c, at)
  /\ carrier[c].owner = NoOwner
  /\ ~Active(c)
  /\ Safe(c, at)
  /\ carrier[c].epoch < MaxEpoch          \* bound
  /\ carrier' = [carrier EXCEPT ![c] =
       [@ EXCEPT !.epoch = carrier[c].epoch + 1, !.owner = owner, !.phase = "preparing",
                 !.last = at, !.safeExit = at]]
  /\ UNCHANGED <<token, claimedAtoms, transportUntil>>

FinishPreparation(c, owner, at) ==
  /\ OwnedBy(c, owner)
  /\ NotBefore(c, at)
  /\ ~Active(c)
  /\ carrier[c].phase = "preparing"
  /\ Safe(c, at)
  /\ carrier' = [carrier EXCEPT ![c] =
       [@ EXCEPT !.phase = "work", !.last = at]]
  /\ UNCHANGED <<token, claimedAtoms, transportUntil>>

\* A transport covers [at, exit) on a carrier at rest; a live token on it must
\* be ready and past its own exit.
RecordTransport(c, owner, at, exit) ==
  /\ OwnedBy(c, owner)
  /\ NotBefore(c, at)
  /\ exit > at
  /\ Safe(c, at)
  /\ \A t \in Tokens :
       (token[t].on = c /\ token[t].epoch = carrier[c].epoch /\ Live(t))
         => at >= token[t].ready /\ at >= token[t].exit
  /\ carrier' = [carrier EXCEPT ![c] =
       [@ EXCEPT !.last = at, !.safeExit = exit]]
  /\ transportUntil' = [transportUntil EXCEPT ![c] = exit]
  /\ UNCHANGED <<token, claimedAtoms>>

ExtendUse(c, owner, at, exit) ==
  /\ OwnedBy(c, owner)
  /\ NotBefore(c, at)
  /\ TransportComplete(c, at)
  /\ ~Active(c)
  /\ exit >= at /\ exit >= carrier[c].safeExit
  /\ carrier' = [carrier EXCEPT ![c] =
       [@ EXCEPT !.last = at, !.safeExit = exit]]
  /\ UNCHANGED <<token, claimedAtoms, transportUntil>>

CompleteUse(c, owner, at) ==
  /\ OwnedBy(c, owner)
  /\ NotBefore(c, at)
  /\ ~Active(c)
  /\ Safe(c, at)
  /\ carrier' = [carrier EXCEPT ![c] =
       [@ EXCEPT !.owner = NoOwner, !.phase = "free", !.last = at]]
  /\ UNCHANGED <<token, claimedAtoms, transportUntil>>

-----------------------------------------------------------------------------
(* Token lifecycle.                                                        *)

Offer(t, c, owner, label, ready, exit) ==
  /\ OwnedBy(c, owner)
  /\ token[t].status = "absent"
  /\ ~Active(c)
  /\ ready >= carrier[c].last
  /\ exit >= carrier[c].last /\ exit >= carrier[c].safeExit
  /\ token' = [token EXCEPT ![t] =
       [status |-> "offered", on |-> c, epoch |-> carrier[c].epoch,
        label |-> label, ready |-> ready, exit |-> exit,
        consumer |-> NoOwner, consumedAt |-> 0]]
  /\ carrier' = [carrier EXCEPT ![c] =
       [@ EXCEPT !.phase = "resource", !.safeExit = exit]]
  /\ UNCHANGED <<claimedAtoms, transportUntil>>

\* Readiness is enough to reserve: the carrier's exit may still be ahead.
MayReserve(t, at, expected) ==
  LET c == token[t].on IN
  /\ Current(t)
  /\ NotBefore(c, at)
  /\ token[t].status = "offered"
  /\ TransportComplete(c, at)
  /\ at >= token[t].ready
  /\ token[t].label = expected

Reserve(t, consumer, at, expected) ==
  LET c == token[t].on IN
  /\ MayReserve(t, at, expected)
  /\ token' = [token EXCEPT ![t] =
       [@ EXCEPT !.status = "reserved", !.consumer = consumer]]
  /\ carrier' = [carrier EXCEPT ![c] =
       [@ EXCEPT !.owner = consumer, !.last = at]]
  /\ UNCHANGED <<claimedAtoms, transportUntil>>

Consume(t, consumer, at, exit) ==
  LET c == token[t].on IN
  /\ Current(t)
  /\ OwnedBy(c, consumer)
  /\ NotBefore(c, at)
  /\ token[t].status = "reserved" /\ token[t].consumer = consumer
  /\ at >= token[t].ready /\ at >= token[t].exit /\ Safe(c, at)
  /\ exit >= at
  /\ token' = [token EXCEPT ![t] =
       [@ EXCEPT !.status = "consumed", !.consumedAt = at]]
  /\ carrier' = [carrier EXCEPT ![c] =
       [@ EXCEPT !.phase = "work", !.last = at, !.safeExit = exit]]
  /\ UNCHANGED <<claimedAtoms, transportUntil>>

\* Variant: the declared exit is only compared with the discard's own time.
DiscardExitsFromNow(c, at) ==
  {carrier[c].safeExit} \cup {x \in Time : x >= at}

\* The exit a discard may declare: none (the carrier's own stays) or a later one.
DiscardExits(c, at) ==
  {carrier[c].safeExit} \cup {x \in Time : x >= at /\ x >= carrier[c].safeExit}

Discard(t, owner, at, exit) ==
  LET c == token[t].on IN
  /\ Current(t)
  /\ OwnedBy(c, owner)
  /\ NotBefore(c, at)
  /\ Live(t)
  /\ exit \in DiscardExits(c, at)
  /\ token' = [token EXCEPT ![t].status = "discarded"]
  /\ carrier' = [carrier EXCEPT ![c] =
       [@ EXCEPT !.phase = "work", !.last = at, !.safeExit = exit]]
  /\ UNCHANGED <<claimedAtoms, transportUntil>>

-----------------------------------------------------------------------------
RegistrationStep ==
  \E c \in Carriers :
    \/ \E atoms \in SUBSET Atoms : RegisterCarrier(c, atoms)
    \/ RegisterLogicalCarrier(c)

CarrierStep ==
  \E c \in Carriers, owner \in Owners, at \in Time :
    \/ AcquireTransport(c, owner, at)
    \/ BeginPreparation(c, owner, at)
    \/ FinishPreparation(c, owner, at)
    \/ \E exit \in Time : RecordTransport(c, owner, at, exit)
    \/ \E exit \in Time : ExtendUse(c, owner, at, exit)
    \/ CompleteUse(c, owner, at)

\* Every caller in the code expects a canonical resource.
TokenStep ==
  \E t \in Tokens, owner \in Owners, at \in Time :
    \/ \E c \in Carriers, label \in Labels, exit \in Time :
         Offer(t, c, owner, label, at, exit)
    \/ Reserve(t, owner, at, "canonical")
    \/ \E exit \in Time : Consume(t, owner, at, exit)
    \/ \E exit \in Time : Discard(t, owner, at, exit)

Next == RegistrationStep \/ CarrierStep \/ TokenStep

Spec == Init /\ [][Next]_vars
-----------------------------------------------------------------------------
(* What the ledger promises.                                               *)

\* The tokens on a carrier that can still be used, of whatever epoch.
Residents(c) == {t \in Tokens : Live(t) /\ token[t].on = c}

\* A carrier holds at most one usable token, and a usable token is always of
\* its carrier's present preparation: starting a new epoch never strands one,
\* although offer and begin_preparation only look at tokens of one epoch.
OneResourcePerCarrier ==
  \A t \in Tokens : Live(t) =>
    /\ token[t].epoch = carrier[token[t].on].epoch
    /\ Residents(token[t].on) = {t}

\* The phase field, which no token operation consults, tells the truth about
\* the tokens and the owner: "resource" exactly while a usable token is there,
\* "free" exactly while nobody owns the carrier, and a reserved token's
\* consumer is the carrier's owner.
PhaseTellsCustody ==
  /\ \A c \in Carriers :
       /\ carrier[c].phase = "resource" <=> Residents(c) # {}
       /\ carrier[c].phase = "free" <=> carrier[c].owner = NoOwner
  /\ \A t \in Tokens :
       token[t].status = "reserved" => carrier[token[t].on].owner = token[t].consumer

\* The claims of ownership, phase and epoch that the carrier and the token repeat
\* about each other never contradict, whichever operation updated one of them.
RecordsAgree == TypeOK /\ OneResourcePerCarrier /\ PhaseTellsCustody

\* The safe exit of a carrier lies at or after the end of its last recorded
\* transport and the exit declared for the token on it: discarding or extending
\* can only push it back.  complete_use, begin_preparation and consume wait for
\* the safe exit alone and rely on this.
ExitCoversMotion ==
  /\ \A c \in Carriers : transportUntil[c] =< carrier[c].safeExit
  /\ \A t \in Tokens : Live(t) => token[t].exit =< carrier[token[t].on].safeExit

\* Atoms belong to one carrier at most, estimates have none, the two kinds of
\* carrier never mix, and the set the overlap test reads is exact.
AtomsExclusive ==
  /\ claimedAtoms = UNION {carrier[c].atoms : c \in Carriers}
  /\ \A c, d \in Carriers : c # d => carrier[c].atoms \cap carrier[d].atoms = {}
  /\ \A c \in Carriers : carrier[c].representation = "physical" <=> carrier[c].atoms # {}
  /\ \A c, d \in Carriers :
       {carrier[c].representation, carrier[d].representation}
         # {"physical", "logical_estimate"}

\* A carrier changes hands, starts a new epoch or has its token used only at a
\* time when its recorded transport is over, in every operation, including the
\* ones that never look at the transport record.
NothingStartsInFlight ==
  [][/\ \A c \in Carriers :
          (carrier'[c].owner # carrier[c].owner \/ carrier'[c].epoch # carrier[c].epoch)
            => carrier'[c].last >= transportUntil[c]
     /\ \A t \in Tokens :
          token'[t].status = "consumed" /\ token[t].status # "consumed"
            => token'[t].consumedAt >= transportUntil[token[t].on]]_vars

\* What the ledger is for, without times, epochs and phases (module Custody):
\* a carrier goes from one owner to another only with the resource on it.
holder == [c \in Carriers |-> carrier[c].owner]
resident == [c \in Carriers |-> Residents(c)]
fate == [t \in Tokens |-> token[t].status]

Abstract == INSTANCE Custody

ImplementsCustody == Abstract!Spec
=============================================================================
