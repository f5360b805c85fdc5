---------------------------- MODULE TokenBuffer ----------------------------
(***************************************************************************)
(* The bounded inventory of accepted resources                             *)
(* (modules/logical_compiler/src/protocols/supply.py, TokenBuffer) beside  *)
(* the ledger it never writes to except through the ledger's own methods.  *)
(*                                                                         *)
(* A slot is reserved, filled by publishing a token the slot's owner holds,*)
(* claimed by a consumer, and freed once the token is used or discarded    *)
(* and its carrier safe.  Everyone else goes on calling the ledger between *)
(* two calls of the buffer; the one call no other code makes is to reserve *)
(* a published token past the buffer.  Publication order only says in      *)
(* which order available() lists the tokens, and is left out.              *)
(***************************************************************************)
EXTENDS ResourceLedger, FiniteSets

CONSTANTS
  Slots,      \* reservation identities, each used once
  Capacity    \* slots the buffer has at any time

ASSUME BufferAssumption == Capacity \in Nat \ {0}

VARIABLES
  pending,      \* _pending: owner of each unpublished slot, NoOwner for no entry
  usedSlots,    \* _reservation_ids
  shelf,        \* _entries: the tokens published and not removed
  slip,         \* producer and queued_at_us of each entry
  claims,       \* _claims: NoOwner where the dictionary has no entry
  usedTokens,   \* _token_ids
  closed        \* _closed

buffer == <<pending, usedSlots, shelf, slip, claims, usedTokens, closed>>

BufferTypeOK ==
  /\ TypeOK
  /\ pending \in [Slots -> Owners \cup {NoOwner}]
  /\ usedSlots \in SUBSET Slots
  /\ shelf \in SUBSET Tokens
  /\ slip \in [Tokens -> [producer : Owners \cup {NoOwner}, queuedAt : Time]]
  /\ claims \in [Tokens -> Owners \cup {NoOwner}]
  /\ usedTokens \in SUBSET Tokens
  /\ closed \in BOOLEAN

BlankSlip == [producer |-> NoOwner, queuedAt |-> 0]

\* The runtime registers every carrier before the first call of a buffer.
BufferInit ==
  /\ carrier = [c \in Carriers |-> FreshCarrier("logical_estimate", {})]
  /\ token = [t \in Tokens |-> AbsentToken]
  /\ claimedAtoms = {}
  /\ transportUntil = [c \in Carriers |-> 0]
  /\ pending = [s \in Slots |-> NoOwner]
  /\ usedSlots = {}
  /\ shelf = {}
  /\ slip = [t \in Tokens |-> BlankSlip]
  /\ claims = [t \in Tokens |-> NoOwner]
  /\ usedTokens = {}
  /\ closed = FALSE

-----------------------------------------------------------------------------
Pending == {s \in Slots : pending[s] # NoOwner}

Occupied == Cardinality(Pending) + Cardinality(shelf)

Full == Occupied >= Capacity

\* The entry still is what was published: nobody prepared its carrier again,
\* and the ledger agrees with the slip or with the claim.
CurrentEntry(t) ==
  LET c == token[t].on IN
  /\ t \in shelf
  /\ token[t].epoch = carrier[c].epoch
  /\ \/ token[t].status = "offered" /\ carrier[c].owner = slip[t].producer
     \/ token[t].status = "reserved"
          /\ token[t].consumer = claims[t] /\ carrier[c].owner = claims[t]
     \/ token[t].status = "consumed" /\ token[t].consumer = claims[t]
     \/ token[t].status = "discarded"

\* Variant: the carrier may still be on its way.
SaleableMoving(t, at) ==
  /\ token[t].status = "offered"
  /\ at >= slip[t].queuedAt /\ at >= token[t].ready /\ at >= token[t].exit

Saleable(t, at) ==
  /\ token[t].status = "offered"
  /\ at >= slip[t].queuedAt
  /\ at >= token[t].ready /\ at >= token[t].exit /\ Safe(token[t].on, at)

\* What available() lists, unless a single stale entry makes it raise.
Available(at) == {t \in shelf : Saleable(t, at)}

-----------------------------------------------------------------------------
\* Variant: a closed buffer still takes reservations.
ReserveCapacityClosed(s, owner) ==
  /\ s \notin usedSlots
  /\ ~Full
  /\ pending' = [pending EXCEPT ![s] = owner]
  /\ usedSlots' = usedSlots \cup {s}
  /\ UNCHANGED <<vars, shelf, slip, claims, usedTokens, closed>>

\* Backpressure and closure return False and change nothing.
ReserveCapacity(s, owner) ==
  /\ s \notin usedSlots
  /\ ~closed /\ ~Full
  /\ pending' = [pending EXCEPT ![s] = owner]
  /\ usedSlots' = usedSlots \cup {s}
  /\ UNCHANGED <<vars, shelf, slip, claims, usedTokens, closed>>

Publish(s, t, at) ==
  LET c == token[t].on IN
  /\ s \in Pending /\ t \notin usedTokens
  /\ Current(t) /\ token[t].status = "offered"
  /\ carrier[c].owner = pending[s] /\ carrier[c].phase = "resource"
  /\ at >= token[t].ready /\ at >= token[t].exit
  /\ Safe(c, at) /\ NotBefore(c, at)
  /\ pending' = [pending EXCEPT ![s] = NoOwner]
  /\ shelf' = shelf \cup {t}
  /\ slip' = [slip EXCEPT ![t] = [producer |-> pending[s], queuedAt |-> at]]
  /\ usedTokens' = usedTokens \cup {t}
  /\ UNCHANGED <<vars, usedSlots, claims, closed>>

MayClaim(t, at) ==
  /\ CurrentEntry(t)
  /\ at >= slip[t].queuedAt
  /\ MayReserve(t, at, "canonical")

\* Variant: the buffer does not note who claimed.
ClaimUnnoted(t, consumer, at) ==
  /\ MayClaim(t, at)
  /\ Reserve(t, consumer, at, "canonical")
  /\ UNCHANGED buffer

Claim(t, consumer, at) ==
  /\ MayClaim(t, at)
  /\ Reserve(t, consumer, at, "canonical")
  /\ claims' = [claims EXCEPT ![t] = consumer]
  /\ UNCHANGED <<pending, usedSlots, shelf, slip, usedTokens, closed>>

ConsumeEntry(t, consumer, at, exit) ==
  /\ CurrentEntry(t)
  /\ Consume(t, consumer, at, exit)
  /\ UNCHANGED buffer

TakeOff(t) ==
  /\ shelf' = shelf \ {t}
  /\ claims' = [claims EXCEPT ![t] = NoOwner]

\* Variant: a claimed token no longer needs its slot.
RemoveClaimed(t, at) ==
  LET c == token[t].on IN
  /\ CurrentEntry(t)
  /\ token[t].status # "offered"
  /\ at >= slip[t].queuedAt /\ Safe(c, at) /\ NotBefore(c, at)
  /\ TakeOff(t)
  /\ UNCHANGED <<vars, pending, usedSlots, slip, usedTokens, closed>>

Remove(t, at) ==
  LET c == token[t].on IN
  /\ CurrentEntry(t)
  /\ token[t].status \in {"consumed", "discarded"}
  /\ at >= slip[t].queuedAt /\ Safe(c, at) /\ NotBefore(c, at)
  /\ TakeOff(t)
  /\ UNCHANGED <<vars, pending, usedSlots, slip, usedTokens, closed>>

AbortReservation(s) ==
  /\ s \in Pending
  /\ pending' = [pending EXCEPT ![s] = NoOwner]
  /\ UNCHANGED <<vars, usedSlots, shelf, slip, claims, usedTokens, closed>>

\* The slot stays taken: removal is a call of its own.
AbortToken(t, owner, at, exit) ==
  /\ CurrentEntry(t)
  /\ at >= slip[t].queuedAt
  /\ Discard(t, owner, at, exit)
  /\ UNCHANGED buffer

Close ==
  /\ closed' = TRUE
  /\ UNCHANGED <<vars, pending, usedSlots, shelf, slip, claims, usedTokens>>

-----------------------------------------------------------------------------
BufferStep ==
  \/ \E s \in Slots :
       \/ \E owner \in Owners : ReserveCapacity(s, owner)
       \/ \E t \in Tokens, at \in Time : Publish(s, t, at)
       \/ AbortReservation(s)
  \/ \E t \in Tokens, at \in Time :
       \/ Remove(t, at)
       \/ \E owner \in Owners :
            \/ Claim(t, owner, at)
            \/ \E exit \in Time : ConsumeEntry(t, owner, at, exit)
            \/ \E exit \in Time : AbortToken(t, owner, at, exit)
  \/ Close

\* Producers, consumers and the runtime's failure handling call the ledger.
\* Every offer they make is canonical, ready and safe to leave at once.
LedgerStep ==
  /\ \/ CarrierStep
     \/ \E t \in Tokens, owner \in Owners, at \in Time :
          \/ \E c \in Carriers : Offer(t, c, owner, "canonical", at, at)
          \/ t \notin shelf /\ Reserve(t, owner, at, "canonical")
          \/ \E exit \in Time : Consume(t, owner, at, exit)
          \/ \E exit \in Time : Discard(t, owner, at, exit)
  /\ UNCHANGED buffer

BufferNext == BufferStep \/ LedgerStep

BufferSpec == BufferInit /\ [][BufferNext]_<<vars, buffer>>
-----------------------------------------------------------------------------
(* What the buffer promises, whatever the others do with the ledger.         *)

\* What available() lists at some time can be claimed at that time: its test
\* of slip, token and safe exit covers the reservation's other one, of the
\* carrier's clock and transport record.
AvailableClaimable ==
  \A at \in Time : \A t \in Available(at) : MayClaim(t, at)

\* An entry goes stale, and with it every listing, in one way only: its token
\* was used or discarded, and the carrier prepared again before the removal.
StaleOnlyByReuse ==
  \A t \in shelf :
    CurrentEntry(t) \/ (/\ token[t].status \in {"consumed", "discarded"}
                       /\ token[t].epoch < carrier[token[t].on].epoch)

\* What the shelf says of a token is what the ledger will do with it.
ShelfTrue == AvailableClaimable /\ StaleOnlyByReuse

\* A token that was published and can still be used is on the shelf, so its slot
\* is not given to another one, and while it is reserved the consumer it was
\* sold to owns its carrier: a claim is never forgotten or passed on.
ClaimsAreCustody ==
  \A t \in Tokens :
    /\ claims[t] # NoOwner => t \in shelf /\ token[t].status # "offered"
    /\ t \in usedTokens /\ Live(t) =>
         /\ t \in shelf
         /\ token[t].status = "reserved" => carrier[token[t].on].owner = claims[t]

\* The buffer's own books agree with the ledger's.
BooksAgree == BufferTypeOK /\ ClaimsAreCustody

\* After closing, the buffer only drains: what is reserved may still be
\* published, and an exhausted buffer stays exhausted.
ClosedDrains ==
  [][closed => closed' /\ Occupied' =< Occupied]_<<vars, buffer>>
=============================================================================
