------------------------ MODULE TokenBuffer_proofs ------------------------
(***************************************************************************)
(* The resource ledger and the token buffer beside it, for any slots,      *)
(* capacity, tokens, carriers, owners, atoms and times.                    *)
(*                                                                         *)
(* LedgerInv is the ledger's inductive invariant.  It adds to the          *)
(* properties of ResourceLedger that an unregistered carrier is untouched, *)
(* so that registering one disturbs nothing.                               *)
(*                                                                         *)
(* BufferInv is the buffer's, whatever everyone else calls on the ledger   *)
(* between two calls of the buffer: LedgerInv, and of each token what the  *)
(* shelf, the slip, the claim and the ledger say about it.  A step of      *)
(* anyone changes one token at most and leaves what the others rest on as  *)
(* it was (Undisturbed).                                                   *)
(***************************************************************************)
EXTENDS TokenBuffer, FiniteSetTheorems, TLAPS

-----------------------------------------------------------------------------
(* The ledger.                                                               *)

\* Before its registration a carrier is free, empty and has never moved.
UnregisteredUntouched ==
  \A c \in Carriers : ~Registered(c) =>
    /\ carrier[c] = FreshCarrier("unregistered", {})
    /\ transportUntil[c] = 0

LedgerInv ==
  /\ TypeOK
  /\ OneResourcePerCarrier
  /\ PhaseTellsCustody
  /\ ExitCoversMotion
  /\ UnregisteredUntouched

\* The test of the code, which scans one epoch, agrees with what is usable.
LEMMA ActiveIsResident ==
  ASSUME OneResourcePerCarrier, NEW c \in Carriers
  PROVE  Active(c) <=> Residents(c) # {}
BY DEF OneResourcePerCarrier, Active, Residents

\* The initial carriers are well formed.
LEMMA InitInv == ASSUME Init PROVE LedgerInv
<1> USE LedgerAssumption DEF Init
<1>1. TypeOK
  <2>1. AbsentToken \in TokenRecord
    BY DEF AbsentToken, TokenRecord, Statuses, Labels, Time
  <2>2. FreshCarrier("unregistered", {}) \in CarrierRecord
    BY LedgerAssumption DEF FreshCarrier, CarrierRecord, Representations, Phases, Time, Time
  <2> QED BY <2>1, <2>2 DEF TypeOK, Time
<1>2. \A t \in Tokens : ~Live(t)
  BY DEF Live, AbsentToken
<1>3. OneResourcePerCarrier
  BY <1>2 DEF OneResourcePerCarrier
<1>4. PhaseTellsCustody
  BY <1>2 DEF PhaseTellsCustody, Residents, FreshCarrier, AbsentToken
<1>5. ExitCoversMotion
  BY <1>2 DEF ExitCoversMotion, FreshCarrier
<1>6. UnregisteredUntouched
  BY DEF UnregisteredUntouched
<1> QED BY <1>1, <1>3, <1>4, <1>5, <1>6 DEF LedgerInv

-----------------------------------------------------------------------------
\* The time tables start from is among the times callers pass.
LEMMA ZeroIsATime == 0 \in Time
BY LedgerAssumption DEF Time

\* Replacing one record by a well-typed one keeps the tables well typed.
LEMMA TypeUpdate ==
  ASSUME TypeOK, NEW c \in Carriers, NEW r \in CarrierRecord,
         carrier' = [carrier EXCEPT ![c] = r],
         token' \in [Tokens -> TokenRecord],
         claimedAtoms' \in SUBSET Atoms,
         transportUntil' \in [Carriers -> Time]
  PROVE  TypeOK'
BY DEF TypeOK

\* Every operation leaves well-typed records.
LEMMA TypeStep == ASSUME TypeOK, Next PROVE TypeOK'
<1>0. /\ carrier \in [Carriers -> CarrierRecord]
      /\ token \in [Tokens -> TokenRecord]
      /\ claimedAtoms \in SUBSET Atoms
      /\ transportUntil \in [Carriers -> Time]
  BY DEF TypeOK
<1>1. ASSUME NEW c \in Carriers, NEW atoms \in SUBSET Atoms, RegisterCarrier(c, atoms)
      PROVE  TypeOK'
  <2>1. FreshCarrier("physical", atoms) \in CarrierRecord
    BY LedgerAssumption DEF FreshCarrier, CarrierRecord, Representations, Phases, Time
  <2> QED BY <1>0, <1>1, <2>1, TypeUpdate DEF RegisterCarrier
<1>2. ASSUME NEW c \in Carriers, RegisterLogicalCarrier(c)
      PROVE  TypeOK'
  <2>1. FreshCarrier("logical_estimate", {}) \in CarrierRecord
    BY LedgerAssumption DEF FreshCarrier, CarrierRecord, Representations, Phases, Time
  <2> QED BY <1>0, <1>2, <2>1, TypeUpdate DEF RegisterLogicalCarrier
<1>3. ASSUME NEW c \in Carriers, NEW owner \in Owners, NEW at \in Time,
             AcquireTransport(c, owner, at)
      PROVE  TypeOK'
  <2>1. [carrier[c] EXCEPT !.owner = owner, !.phase = "transport", !.last = at]
          \in CarrierRecord
    <3>1. carrier[c] \in CarrierRecord
      BY <1>0
    <3> QED BY <3>1, ZeroIsATime DEF CarrierRecord, Phases
  <2> QED BY <1>0, <1>3, <2>1, TypeUpdate DEF AcquireTransport
<1>4. ASSUME NEW c \in Carriers, NEW owner \in Owners, NEW at \in Time,
             BeginPreparation(c, owner, at)
      PROVE  TypeOK'
  <2>1. carrier[c].epoch + 1 \in 0..MaxEpoch
    <3>1. carrier[c].epoch \in 0..MaxEpoch
      BY <1>0 DEF CarrierRecord
    <3>2. carrier[c].epoch < MaxEpoch
      BY <1>4 DEF BeginPreparation
    <3> QED BY <3>1, <3>2, LedgerAssumption
  <2>2. [carrier[c] EXCEPT !.epoch = carrier[c].epoch + 1, !.owner = owner, !.phase = "preparing",
                           !.last = at, !.safeExit = at]
          \in CarrierRecord
    BY <1>0, <2>1 DEF CarrierRecord, Phases
  <2>3. UNCHANGED <<token, claimedAtoms, transportUntil>>
    BY <1>4 DEF BeginPreparation
  <2> DEFINE r == [carrier[c] EXCEPT !.epoch = carrier[c].epoch + 1, !.owner = owner,
                     !.phase = "preparing", !.last = at, !.safeExit = at]
  <2>4. carrier' = [carrier EXCEPT ![c] = r]
    BY <1>4 DEF BeginPreparation
  <2>5. r \in CarrierRecord
    BY <2>2
  <2> HIDE DEF r
  <2> QED BY <1>0, <2>3, <2>4, <2>5, TypeUpdate
<1>5. ASSUME NEW c \in Carriers, NEW owner \in Owners, NEW at \in Time,
             FinishPreparation(c, owner, at)
      PROVE  TypeOK'
  <2>1. [carrier[c] EXCEPT !.phase = "work", !.last = at] \in CarrierRecord
    <3>1. carrier[c] \in CarrierRecord
      BY <1>0
    <3> QED BY <3>1, ZeroIsATime DEF CarrierRecord, Phases
  <2> QED BY <1>0, <1>5, <2>1, TypeUpdate DEF FinishPreparation
<1>6. ASSUME NEW c \in Carriers, NEW owner \in Owners, NEW at \in Time, NEW exit \in Time,
             RecordTransport(c, owner, at, exit)
      PROVE  TypeOK'
  <2>1. [carrier[c] EXCEPT !.last = at, !.safeExit = exit] \in CarrierRecord
    BY <1>0 DEF CarrierRecord
  <2>2. transportUntil' \in [Carriers -> Time]
    BY <1>0, <1>6 DEF RecordTransport
  <2> QED BY <1>0, <1>6, <2>1, <2>2, TypeUpdate DEF RecordTransport
<1>7. ASSUME NEW c \in Carriers, NEW owner \in Owners, NEW at \in Time, NEW exit \in Time,
             ExtendUse(c, owner, at, exit)
      PROVE  TypeOK'
  <2>1. [carrier[c] EXCEPT !.last = at, !.safeExit = exit] \in CarrierRecord
    BY <1>0 DEF CarrierRecord
  <2> QED BY <1>0, <1>7, <2>1, TypeUpdate DEF ExtendUse
<1>8. ASSUME NEW c \in Carriers, NEW owner \in Owners, NEW at \in Time,
             CompleteUse(c, owner, at)
      PROVE  TypeOK'
  <2>1. [carrier[c] EXCEPT !.owner = NoOwner, !.phase = "free", !.last = at]
          \in CarrierRecord
    <3>1. carrier[c] \in CarrierRecord
      BY <1>0
    <3> QED BY <3>1, ZeroIsATime DEF CarrierRecord, Phases
  <2> QED BY <1>0, <1>8, <2>1, TypeUpdate DEF CompleteUse
<1>9. ASSUME NEW t \in Tokens, NEW c \in Carriers, NEW owner \in Owners,
             NEW label \in Labels, NEW at \in Time, NEW exit \in Time,
             Offer(t, c, owner, label, at, exit)
      PROVE  TypeOK'
  <2>1. [carrier[c] EXCEPT !.phase = "resource", !.safeExit = exit] \in CarrierRecord
    <3>1. carrier[c] \in CarrierRecord
      BY <1>0
    <3> QED BY <3>1, ZeroIsATime DEF CarrierRecord, Phases
  <2>2. [status |-> "offered", on |-> c, epoch |-> carrier[c].epoch,
         label |-> label, ready |-> at, exit |-> exit,
         consumer |-> NoOwner, consumedAt |-> 0]
          \in TokenRecord
    <3>1. carrier[c].epoch \in 0..MaxEpoch
      BY <1>0 DEF CarrierRecord
    <3> QED BY <3>1, ZeroIsATime DEF TokenRecord, Statuses
  <2>3. token' \in [Tokens -> TokenRecord]
    BY <1>0, <1>9, <2>2 DEF Offer
  <2> QED BY <1>0, <1>9, <2>1, <2>3, TypeUpdate DEF Offer
<1>10. ASSUME NEW t \in Tokens, NEW consumer \in Owners, NEW at \in Time,
              Reserve(t, consumer, at, "canonical")
       PROVE  TypeOK'
  <2> DEFINE c == token[t].on
  <2>0. c \in Carriers
    BY <1>0 DEF TokenRecord
  <2>1. [carrier[c] EXCEPT !.owner = consumer, !.last = at] \in CarrierRecord
    BY <1>0, <2>0 DEF CarrierRecord
  <2>2. [token[t] EXCEPT !.status = "reserved", !.consumer = consumer] \in TokenRecord
    <3>1. token[t] \in TokenRecord
      BY <1>0
    <3> QED BY <3>1 DEF TokenRecord, Statuses
  <2>3. token' \in [Tokens -> TokenRecord]
    BY <1>0, <1>10, <2>2 DEF Reserve, MayReserve
  <2> QED BY <1>0, <1>10, <2>0, <2>1, <2>3, TypeUpdate DEF Reserve, MayReserve
<1>11. ASSUME NEW t \in Tokens, NEW consumer \in Owners, NEW at \in Time,
              NEW exit \in Time, Consume(t, consumer, at, exit)
       PROVE  TypeOK'
  <2> DEFINE c == token[t].on
  <2>0. c \in Carriers
    BY <1>0 DEF TokenRecord
  <2>1. [carrier[c] EXCEPT !.phase = "work", !.last = at, !.safeExit = exit]
          \in CarrierRecord
    <3>1. carrier[c] \in CarrierRecord
      BY <1>0, <2>0
    <3> HIDE DEF c
    <3> QED BY <3>1 DEF CarrierRecord, Phases
  <2>2. [token[t] EXCEPT !.status = "consumed", !.consumedAt = at] \in TokenRecord
    <3>1. token[t] \in TokenRecord
      BY <1>0
    <3> QED BY <3>1 DEF TokenRecord, Statuses
  <2>3. token' \in [Tokens -> TokenRecord]
    BY <1>0, <1>11, <2>2 DEF Consume
  <2> QED BY <1>0, <1>11, <2>0, <2>1, <2>3, TypeUpdate DEF Consume
<1>12. ASSUME NEW t \in Tokens, NEW owner \in Owners, NEW at \in Time,
              NEW exit \in Time, Discard(t, owner, at, exit)
       PROVE  TypeOK'
  <2> DEFINE c == token[t].on
  <2>0. c \in Carriers
    BY <1>0 DEF TokenRecord
  <2>1. [carrier[c] EXCEPT !.phase = "work", !.last = at, !.safeExit = exit]
          \in CarrierRecord
    <3>1. carrier[c] \in CarrierRecord
      BY <1>0, <2>0
    <3> HIDE DEF c
    <3> QED BY <3>1 DEF CarrierRecord, Phases
  <2>2. [token[t] EXCEPT !.status = "discarded"] \in TokenRecord
    <3>1. token[t] \in TokenRecord
      BY <1>0
    <3> QED BY <3>1 DEF TokenRecord, Statuses
  <2>3. token' \in [Tokens -> TokenRecord]
    BY <1>0, <1>12, <2>2 DEF Discard
  <2> QED BY <1>0, <1>12, <2>0, <2>1, <2>3, TypeUpdate DEF Discard
<1> QED
  BY <1>1, <1>2, <1>3, <1>4, <1>5, <1>6, <1>7, <1>8, <1>9, <1>10, <1>11, <1>12
     DEF Next, RegistrationStep, CarrierStep, TokenStep
-----------------------------------------------------------------------------
\* An operation on one carrier that touches no token keeps the invariant if the
\* carrier's phase and owner still fit its tokens and its exit is not pulled in.
LEMMA CarrierOnly ==
  ASSUME LedgerInv, TypeOK', token' = token,
         NEW c \in Carriers,
         \A d \in Carriers \ {c} :
           carrier'[d] = carrier[d] /\ transportUntil'[d] = transportUntil[d],
         Registered(c)',
         carrier'[c].phase = "resource" <=> Residents(c) # {},
         carrier'[c].phase = "free" <=> carrier'[c].owner = NoOwner,
         Residents(c) # {} =>
           /\ carrier'[c].epoch = carrier[c].epoch
           /\ carrier'[c].owner = carrier[c].owner
           /\ carrier[c].safeExit =< carrier'[c].safeExit,
         transportUntil'[c] =< carrier'[c].safeExit
  PROVE  LedgerInv'
<1> USE DEF LedgerInv
<1>0. \A t \in Tokens : token[t].on \in Carriers /\ token[t].exit \in Nat
  BY LedgerAssumption DEF TypeOK, TokenRecord, Time
<1>1. \A d \in Carriers : carrier[d].safeExit \in Nat /\ carrier'[d].safeExit \in Nat
  BY LedgerAssumption DEF TypeOK, CarrierRecord, Time
<1>2. \A d \in Carriers : Residents(d)' = Residents(d)
  BY DEF Residents, Live
<1>3. \A t \in Tokens : Live(t)' <=> Live(t)
  BY DEF Live
<1>4. \A t \in Tokens : Live(t) /\ token[t].on = c => Residents(c) # {}
  BY DEF Residents
<1>5. OneResourcePerCarrier'
  BY <1>0, <1>2, <1>3, <1>4 DEF OneResourcePerCarrier
<1>6. PhaseTellsCustody'
  <2>1. \A t \in Tokens : token[t].status = "reserved" => Live(t)
    BY DEF Live
  <2> QED BY <1>0, <1>2, <1>4, <2>1 DEF PhaseTellsCustody
<1>7. ExitCoversMotion'
  BY <1>0, <1>1, <1>3, <1>4 DEF ExitCoversMotion
<1>8. UnregisteredUntouched'
  BY DEF UnregisteredUntouched, Registered, FreshCarrier
<1> QED BY <1>5, <1>6, <1>7, <1>8

\* An operation on the only token of an owned carrier keeps the invariant if
\* the phase follows the token and the exit is not pulled in.
LEMMA TokenChange ==
  ASSUME LedgerInv, TypeOK', transportUntil' = transportUntil,
         NEW t \in Tokens, NEW c \in Carriers,
         \A u \in Tokens \ {t} : token'[u] = token[u],
         \A d \in Carriers \ {c} : carrier'[d] = carrier[d],
         Registered(c)',
         token'[t].on = c,
         token'[t].epoch = carrier'[c].epoch,
         carrier'[c].epoch = carrier[c].epoch,
         Residents(c) \subseteq {t},
         Live(t) => token[t].on = c,
         carrier'[c].phase = "resource" <=> Live(t)',
         carrier'[c].phase # "free",
         carrier'[c].owner # NoOwner,
         token'[t].status = "reserved" => carrier'[c].owner = token'[t].consumer,
         Live(t)' => token'[t].exit =< carrier'[c].safeExit,
         carrier[c].safeExit =< carrier'[c].safeExit
  PROVE  LedgerInv'
<1> USE DEF LedgerInv
<1>0. \A u \in Tokens : token[u].on \in Carriers
  BY DEF TypeOK, TokenRecord
<1>1. /\ \A d \in Carriers : carrier[d].safeExit \in Nat /\ carrier'[d].safeExit \in Nat
      /\ \A d \in Carriers : transportUntil[d] \in Nat
  BY LedgerAssumption DEF TypeOK, CarrierRecord, Time
<1>2. \A u \in Tokens \ {t} : /\ Live(u)' <=> Live(u)
                              /\ Live(u) => token[u].on # c
  BY DEF Live, Residents
<1>3. Residents(c)' = IF Live(t)' THEN {t} ELSE {}
  BY <1>2 DEF Residents
<1>4. \A d \in Carriers \ {c} : Residents(d)' = Residents(d)
  BY <1>2 DEF Residents
<1>5. OneResourcePerCarrier'
  BY <1>0, <1>2, <1>3, <1>4 DEF OneResourcePerCarrier
<1>6. PhaseTellsCustody'
  <2>1. \A u \in Tokens : token[u].status = "reserved" => Live(u)
    BY DEF Live
  <2> QED BY <1>0, <1>2, <1>3, <1>4, <2>1 DEF PhaseTellsCustody
<1>7. ExitCoversMotion'
  BY <1>0, <1>1, <1>2 DEF ExitCoversMotion
<1>8. UnregisteredUntouched'
  BY DEF UnregisteredUntouched, Registered, FreshCarrier
<1> QED BY <1>5, <1>6, <1>7, <1>8
-----------------------------------------------------------------------------
\* An owned carrier is registered.
LEMMA OwnedIsRegistered ==
  ASSUME LedgerInv, NEW c \in Carriers, NEW owner, OwnedBy(c, owner)
  PROVE  Registered(c) /\ carrier[c].owner # NoOwner
BY LedgerAssumption DEF LedgerInv, UnregisteredUntouched, OwnedBy, FreshCarrier

\* The fields the invariant compares hold natural numbers.
LEMMA FieldTypes ==
  ASSUME TypeOK
  PROVE  /\ \A c \in Carriers :
              /\ carrier[c] \in CarrierRecord
              /\ carrier[c].safeExit \in Nat
              /\ carrier[c].last \in Nat
              /\ transportUntil[c] \in Nat
         /\ \A t \in Tokens :
              /\ token[t] \in TokenRecord
              /\ token[t].on \in Carriers
              /\ token[t].ready \in Nat
              /\ token[t].exit \in Nat
         /\ Time \subseteq Nat
BY LedgerAssumption DEF TypeOK, CarrierRecord, TokenRecord, Time

\* Every operation keeps the invariant.
LEMMA InvStep == ASSUME LedgerInv, Next PROVE LedgerInv'
<1>0. TypeOK'
  BY TypeStep DEF LedgerInv
<1>00. TypeOK /\ OneResourcePerCarrier /\ PhaseTellsCustody /\ ExitCoversMotion
  BY DEF LedgerInv
<1> USE <1>0
<1>1. ASSUME NEW c \in Carriers, NEW atoms \in SUBSET Atoms, RegisterCarrier(c, atoms)
      PROVE  LedgerInv'
  <2>1. carrier[c] = FreshCarrier("unregistered", {}) /\ transportUntil[c] = 0
    BY <1>1 DEF RegisterCarrier, LedgerInv, UnregisteredUntouched
  <2>2. carrier' = [carrier EXCEPT ![c] = FreshCarrier("physical", atoms)]
    BY <1>1 DEF RegisterCarrier
  <2>3. token' = token /\ transportUntil' = transportUntil
    BY <1>1 DEF RegisterCarrier
  <2>4. /\ carrier'[c] = FreshCarrier("physical", atoms)
        /\ \A d \in Carriers \ {c} : carrier'[d] = carrier[d]
    BY <1>00, <2>2 DEF TypeOK
  <2>5. Residents(c) = {}
    BY <1>00, <2>1 DEF PhaseTellsCustody, FreshCarrier
  <2> QED BY <2>1, <2>3, <2>4, <2>5, CarrierOnly DEF FreshCarrier, Registered
<1>2. ASSUME NEW c \in Carriers, RegisterLogicalCarrier(c)
      PROVE  LedgerInv'
  <2>1. carrier[c] = FreshCarrier("unregistered", {}) /\ transportUntil[c] = 0
    BY <1>2 DEF RegisterLogicalCarrier, LedgerInv, UnregisteredUntouched
  <2>2. carrier' = [carrier EXCEPT ![c] = FreshCarrier("logical_estimate", {})]
    BY <1>2 DEF RegisterLogicalCarrier
  <2>3. token' = token /\ transportUntil' = transportUntil
    BY <1>2 DEF RegisterLogicalCarrier
  <2>4. /\ carrier'[c] = FreshCarrier("logical_estimate", {})
        /\ \A d \in Carriers \ {c} : carrier'[d] = carrier[d]
    BY <1>00, <2>2 DEF TypeOK
  <2>5. Residents(c) = {}
    BY <1>00, <2>1 DEF PhaseTellsCustody, FreshCarrier
  <2> QED BY <2>1, <2>3, <2>4, <2>5, CarrierOnly DEF FreshCarrier, Registered
<1>3. ASSUME NEW c \in Carriers, NEW owner \in Owners, NEW at \in Time,
             AcquireTransport(c, owner, at)
      PROVE  LedgerInv'
  <2>1. carrier' = [carrier EXCEPT ![c] =
          [@ EXCEPT !.owner = owner, !.phase = "transport", !.last = at]]
    BY <1>3 DEF AcquireTransport
  <2>2. /\ \A d \in Carriers \ {c} : carrier'[d] = carrier[d]
        /\ carrier'[c].representation = carrier[c].representation
        /\ carrier'[c].owner = owner /\ carrier'[c].phase = "transport"
        /\ carrier'[c].safeExit = carrier[c].safeExit
    BY <1>00, <2>1, FieldTypes DEF TypeOK, CarrierRecord
  <2>3. Residents(c) = {}
    BY <1>3, <1>00, ActiveIsResident DEF AcquireTransport
  <2>4. Registered(c)'
    BY <2>2, <1>3 DEF AcquireTransport, Registered
  <2>5. token' = token /\ transportUntil' = transportUntil
    BY <1>3 DEF AcquireTransport
  <2>6. transportUntil'[c] =< carrier'[c].safeExit
    BY <1>00, <2>2, <2>5, FieldTypes DEF ExitCoversMotion
  <2>7. carrier'[c].phase # "resource" /\ (carrier'[c].phase = "free" <=> carrier'[c].owner = NoOwner)
    BY <2>2, LedgerAssumption
  <2> QED BY <2>2, <2>3, <2>4, <2>5, <2>6, <2>7, CarrierOnly
<1>4. ASSUME NEW c \in Carriers, NEW owner \in Owners, NEW at \in Time,
             BeginPreparation(c, owner, at)
      PROVE  LedgerInv'
  <2>1. carrier' = [carrier EXCEPT ![c] =
          [@ EXCEPT !.epoch = carrier[c].epoch + 1, !.owner = owner,
                      !.phase = "preparing", !.last = at, !.safeExit = at]]
    BY <1>4 DEF BeginPreparation
  <2>2. /\ \A d \in Carriers \ {c} : carrier'[d] = carrier[d]
        /\ carrier'[c].representation = carrier[c].representation
        /\ carrier'[c].owner = owner /\ carrier'[c].phase = "preparing"
        /\ carrier'[c].safeExit = at
    BY <1>00, <2>1, FieldTypes DEF TypeOK, CarrierRecord
  <2>3. Residents(c) = {}
    BY <1>4, <1>00, ActiveIsResident DEF BeginPreparation
  <2>4. Registered(c)'
    BY <2>2, <1>4 DEF BeginPreparation, Registered
  <2>5. token' = token /\ transportUntil' = transportUntil
    BY <1>4 DEF BeginPreparation
  <2>6. transportUntil'[c] =< carrier'[c].safeExit
    BY <1>00, <2>2, <2>5, FieldTypes, <1>4 DEF BeginPreparation, Safe, ExitCoversMotion
  <2>7. carrier'[c].phase # "resource" /\ (carrier'[c].phase = "free" <=> carrier'[c].owner = NoOwner)
    BY <2>2, LedgerAssumption
  <2> QED BY <2>2, <2>3, <2>4, <2>5, <2>6, <2>7, CarrierOnly
<1>5. ASSUME NEW c \in Carriers, NEW owner \in Owners, NEW at \in Time,
             FinishPreparation(c, owner, at)
      PROVE  LedgerInv'
  <2>1. carrier' = [carrier EXCEPT ![c] =
          [@ EXCEPT !.phase = "work", !.last = at]]
    BY <1>5 DEF FinishPreparation
  <2>2. /\ \A d \in Carriers \ {c} : carrier'[d] = carrier[d]
        /\ carrier'[c].representation = carrier[c].representation
        /\ carrier'[c].owner = carrier[c].owner /\ carrier'[c].phase = "work"
        /\ carrier'[c].safeExit = carrier[c].safeExit
    BY <1>00, <2>1, FieldTypes DEF TypeOK, CarrierRecord
  <2>3. Residents(c) = {}
    BY <1>5, <1>00, ActiveIsResident DEF FinishPreparation
  <2>4. Registered(c)'
    BY <2>2, <1>5, OwnedIsRegistered DEF FinishPreparation, Registered
  <2>5. token' = token /\ transportUntil' = transportUntil
    BY <1>5 DEF FinishPreparation
  <2>6. transportUntil'[c] =< carrier'[c].safeExit
    BY <1>00, <2>2, <2>5, FieldTypes DEF ExitCoversMotion
  <2>7. carrier'[c].phase # "resource" /\ (carrier'[c].phase = "free" <=> carrier'[c].owner = NoOwner)
    BY <1>5, <2>2, OwnedIsRegistered DEF FinishPreparation
  <2> QED BY <2>2, <2>3, <2>4, <2>5, <2>6, <2>7, CarrierOnly
<1>6. ASSUME NEW c \in Carriers, NEW owner \in Owners, NEW at \in Time, NEW exit \in Time,
             RecordTransport(c, owner, at, exit)
      PROVE  LedgerInv'
  <2>1. carrier' = [carrier EXCEPT ![c] =
          [@ EXCEPT !.last = at, !.safeExit = exit]]
    BY <1>6 DEF RecordTransport
  <2>2. /\ \A d \in Carriers \ {c} : carrier'[d] = carrier[d]
        /\ carrier'[c].representation = carrier[c].representation
        /\ carrier'[c].owner = carrier[c].owner /\ carrier'[c].phase = carrier[c].phase
        /\ carrier'[c].epoch = carrier[c].epoch /\ carrier'[c].safeExit = exit
    BY <1>00, <2>1, FieldTypes DEF TypeOK, CarrierRecord
  <2>4. Registered(c)'
    BY <2>2, <1>6, OwnedIsRegistered DEF RecordTransport, Registered
  <2>5. /\ token' = token
        /\ \A d \in Carriers \ {c} : transportUntil'[d] = transportUntil[d]
        /\ transportUntil'[c] = exit
    BY <1>6, <1>00 DEF RecordTransport, TypeOK
  <2>6. carrier[c].safeExit =< exit
    BY <1>6, <1>00, FieldTypes DEF RecordTransport, Safe
  <2>7. /\ carrier[c].phase = "resource" <=> Residents(c) # {}
        /\ carrier[c].phase = "free" <=> carrier[c].owner = NoOwner
    BY <1>00 DEF PhaseTellsCustody
  <2>8. transportUntil'[c] =< carrier'[c].safeExit
    BY <1>00, <2>2, <2>5, FieldTypes
  <2> QED BY <2>2, <2>4, <2>5, <2>6, <2>7, <2>8, CarrierOnly
<1>7. ASSUME NEW c \in Carriers, NEW owner \in Owners, NEW at \in Time, NEW exit \in Time,
             ExtendUse(c, owner, at, exit)
      PROVE  LedgerInv'
  <2>1. carrier' = [carrier EXCEPT ![c] =
          [@ EXCEPT !.last = at, !.safeExit = exit]]
    BY <1>7 DEF ExtendUse
  <2>2. /\ \A d \in Carriers \ {c} : carrier'[d] = carrier[d]
        /\ carrier'[c].representation = carrier[c].representation
        /\ carrier'[c].owner = carrier[c].owner /\ carrier'[c].phase = carrier[c].phase
        /\ carrier'[c].epoch = carrier[c].epoch /\ carrier'[c].safeExit = exit
    BY <1>00, <2>1, FieldTypes DEF TypeOK, CarrierRecord
  <2>3. Residents(c) = {}
    BY <1>7, <1>00, ActiveIsResident DEF ExtendUse
  <2>4. Registered(c)'
    BY <2>2, <1>7, OwnedIsRegistered DEF ExtendUse, Registered
  <2>5. token' = token /\ transportUntil' = transportUntil
    BY <1>7 DEF ExtendUse
  <2>6. transportUntil'[c] =< carrier'[c].safeExit
    BY <1>00, <2>2, <2>5, FieldTypes, <1>7 DEF ExtendUse, ExitCoversMotion
  <2>7. carrier'[c].phase # "resource" /\ (carrier'[c].phase = "free" <=> carrier'[c].owner = NoOwner)
    BY <1>00, <2>2, <2>3 DEF PhaseTellsCustody
  <2> QED BY <2>2, <2>3, <2>4, <2>5, <2>6, <2>7, CarrierOnly
<1>8. ASSUME NEW c \in Carriers, NEW owner \in Owners, NEW at \in Time,
             CompleteUse(c, owner, at)
      PROVE  LedgerInv'
  <2>1. carrier' = [carrier EXCEPT ![c] =
          [@ EXCEPT !.owner = NoOwner, !.phase = "free", !.last = at]]
    BY <1>8 DEF CompleteUse
  <2>2. /\ \A d \in Carriers \ {c} : carrier'[d] = carrier[d]
        /\ carrier'[c].representation = carrier[c].representation
        /\ carrier'[c].owner = NoOwner /\ carrier'[c].phase = "free"
        /\ carrier'[c].safeExit = carrier[c].safeExit
    BY <1>00, <2>1, FieldTypes DEF TypeOK, CarrierRecord
  <2>3. Residents(c) = {}
    BY <1>8, <1>00, ActiveIsResident DEF CompleteUse
  <2>4. Registered(c)'
    BY <2>2, <1>8, OwnedIsRegistered DEF CompleteUse, Registered
  <2>5. token' = token /\ transportUntil' = transportUntil
    BY <1>8 DEF CompleteUse
  <2>6. transportUntil'[c] =< carrier'[c].safeExit
    BY <1>00, <2>2, <2>5, FieldTypes DEF ExitCoversMotion
  <2>7. carrier'[c].phase # "resource" /\ (carrier'[c].phase = "free" <=> carrier'[c].owner = NoOwner)
    BY <2>2
  <2> QED BY <2>2, <2>3, <2>4, <2>5, <2>6, <2>7, CarrierOnly
<1>9. ASSUME NEW t \in Tokens, NEW c \in Carriers, NEW owner \in Owners,
             NEW label \in Labels, NEW at \in Time, NEW exit \in Time,
             Offer(t, c, owner, label, at, exit)
      PROVE  LedgerInv'
  <2>1. /\ token' = [token EXCEPT ![t] =
              [status |-> "offered", on |-> c, epoch |-> carrier[c].epoch,
               label |-> label, ready |-> at, exit |-> exit,
               consumer |-> NoOwner, consumedAt |-> 0]]
        /\ carrier' = [carrier EXCEPT ![c] =
              [@ EXCEPT !.phase = "resource", !.safeExit = exit]]
        /\ transportUntil' = transportUntil
    BY <1>9 DEF Offer
  <2>2. /\ \A u \in Tokens \ {t} : token'[u] = token[u]
        /\ token'[t].status = "offered" /\ token'[t].on = c
        /\ token'[t].epoch = carrier[c].epoch /\ token'[t].exit = exit
    BY <1>00, <2>1 DEF TypeOK
  <2>3. /\ \A d \in Carriers \ {c} : carrier'[d] = carrier[d]
        /\ carrier'[c].representation = carrier[c].representation
        /\ carrier'[c].owner = carrier[c].owner /\ carrier'[c].phase = "resource"
        /\ carrier'[c].epoch = carrier[c].epoch /\ carrier'[c].safeExit = exit
    BY <1>00, <2>1, FieldTypes DEF TypeOK, CarrierRecord
  <2>4. Residents(c) = {}
    BY <1>9, <1>00, ActiveIsResident DEF Offer
  <2>5. Registered(c)' /\ carrier'[c].owner # NoOwner
    BY <1>9, <2>3, OwnedIsRegistered DEF Offer, Registered
  <2>6. ~Live(t)
    BY <1>9 DEF Offer, Live
  <2>7. carrier[c].safeExit =< carrier'[c].safeExit /\ token'[t].exit =< carrier'[c].safeExit
    BY <1>9, <1>00, <2>2, <2>3, FieldTypes DEF Offer
  <2>8. Live(t)'
    BY <2>2 DEF Live
  <2> QED BY <2>1, <2>2, <2>3, <2>4, <2>5, <2>6, <2>7, <2>8, TokenChange
<1>10. ASSUME NEW t \in Tokens, NEW consumer \in Owners, NEW at \in Time,
              Reserve(t, consumer, at, "canonical")
       PROVE  LedgerInv'
  <2>00. PICK c \in Carriers : c = token[t].on
    BY <1>00, FieldTypes
  <2>0. c = token[t].on /\ token[t].status = "offered" /\ Live(t)
    BY <1>10, <1>00, <2>00 DEF Reserve, MayReserve, Live
  <2>1. /\ token' = [token EXCEPT ![t] =
              [@ EXCEPT !.status = "reserved", !.consumer = consumer]]
        /\ carrier' = [carrier EXCEPT ![c] =
              [@ EXCEPT !.owner = consumer, !.last = at]]
        /\ transportUntil' = transportUntil
    BY <1>10, <2>0 DEF Reserve, MayReserve
  <2>2. /\ \A u \in Tokens \ {t} : token'[u] = token[u]
        /\ token'[t].status = "reserved" /\ token'[t].on = c
        /\ token'[t].consumer = consumer
        /\ token'[t].epoch = token[t].epoch /\ token'[t].exit = token[t].exit
    BY <1>00, <2>0, <2>1, FieldTypes DEF TypeOK, TokenRecord
  <2>3. /\ \A d \in Carriers \ {c} : carrier'[d] = carrier[d]
        /\ carrier'[c].representation = carrier[c].representation
        /\ carrier'[c].owner = consumer /\ carrier'[c].phase = carrier[c].phase
        /\ carrier'[c].epoch = carrier[c].epoch
        /\ carrier'[c].safeExit = carrier[c].safeExit
    BY <1>00, <2>0, <2>1, FieldTypes DEF TypeOK, CarrierRecord
  <2>4. Residents(c) = {t} /\ token[t].epoch = carrier[c].epoch
    BY <1>00, <2>0 DEF OneResourcePerCarrier
  <2>5. carrier[c].phase = "resource" /\ carrier[c].owner # NoOwner
    BY <1>00, <2>0, <2>4 DEF PhaseTellsCustody
  <2>6. Registered(c)' /\ carrier'[c].owner # NoOwner
    <3>1. ~Registered(c) => carrier[c].phase = "free"
      BY <2>0 DEF LedgerInv, UnregisteredUntouched, FreshCarrier
    <3>2. Registered(c)
      BY <2>5, <3>1
    <3> QED BY <2>3, <3>2, LedgerAssumption DEF Registered
  <2>7. carrier[c].safeExit =< carrier'[c].safeExit /\ token'[t].exit =< carrier'[c].safeExit
    BY <1>00, <2>0, <2>2, <2>3, FieldTypes DEF ExitCoversMotion
  <2>8. Live(t)'
    BY <2>2 DEF Live
  <2> QED BY <2>0, <2>1, <2>2, <2>3, <2>4, <2>5, <2>6, <2>7, <2>8, TokenChange
<1>11. ASSUME NEW t \in Tokens, NEW consumer \in Owners, NEW at \in Time,
              NEW exit \in Time, Consume(t, consumer, at, exit)
       PROVE  LedgerInv'
  <2>00. PICK c \in Carriers : c = token[t].on
    BY <1>00, FieldTypes
  <2>0. c = token[t].on /\ Live(t)
    BY <1>11, <1>00, <2>00 DEF Consume, Live
  <2>1. /\ token' = [token EXCEPT ![t] =
              [@ EXCEPT !.status = "consumed", !.consumedAt = at]]
        /\ carrier' = [carrier EXCEPT ![c] =
              [@ EXCEPT !.phase = "work", !.last = at, !.safeExit = exit]]
        /\ transportUntil' = transportUntil
    BY <1>11, <2>0 DEF Consume
  <2>2. /\ \A u \in Tokens \ {t} : token'[u] = token[u]
        /\ token'[t].status = "consumed" /\ token'[t].on = c
        /\ token'[t].epoch = token[t].epoch
    BY <1>00, <2>0, <2>1, FieldTypes DEF TypeOK, TokenRecord
  <2>3. /\ \A d \in Carriers \ {c} : carrier'[d] = carrier[d]
        /\ carrier'[c].representation = carrier[c].representation
        /\ carrier'[c].owner = carrier[c].owner /\ carrier'[c].phase = "work"
        /\ carrier'[c].epoch = carrier[c].epoch
        /\ carrier'[c].safeExit = exit
    BY <1>00, <2>0, <2>1, FieldTypes DEF TypeOK, CarrierRecord
  <2>4. Residents(c) = {t} /\ token[t].epoch = carrier[c].epoch
    BY <1>00, <2>0 DEF OneResourcePerCarrier
  <2>5. Registered(c)' /\ carrier'[c].owner # NoOwner
    BY <1>11, <2>0, <2>3, OwnedIsRegistered DEF Consume, Registered
  <2>6. carrier[c].safeExit =< carrier'[c].safeExit
    BY <1>11, <1>00, <2>0, <2>3, FieldTypes DEF Consume, Safe
  <2>7. ~Live(t)'
    BY <2>2 DEF Live
  <2> QED BY <2>0, <2>1, <2>2, <2>3, <2>4, <2>5, <2>6, <2>7, TokenChange
<1>12. ASSUME NEW t \in Tokens, NEW owner \in Owners, NEW at \in Time,
              NEW exit \in Time, Discard(t, owner, at, exit)
       PROVE  LedgerInv'
  <2>00. PICK c \in Carriers : c = token[t].on
    BY <1>00, FieldTypes
  <2>0. c = token[t].on /\ Live(t)
    BY <1>12, <1>00, <2>00 DEF Discard
  <2>1. /\ token' = [token EXCEPT ![t].status = "discarded"]
        /\ carrier' = [carrier EXCEPT ![c] =
              [@ EXCEPT !.phase = "work", !.last = at, !.safeExit = exit]]
        /\ transportUntil' = transportUntil
    BY <1>12, <2>0 DEF Discard
  <2>2. /\ \A u \in Tokens \ {t} : token'[u] = token[u]
        /\ token'[t].status = "discarded" /\ token'[t].on = c
        /\ token'[t].epoch = token[t].epoch
    BY <1>00, <2>0, <2>1, FieldTypes DEF TypeOK, TokenRecord
  <2>3. /\ \A d \in Carriers \ {c} : carrier'[d] = carrier[d]
        /\ carrier'[c].representation = carrier[c].representation
        /\ carrier'[c].owner = carrier[c].owner /\ carrier'[c].phase = "work"
        /\ carrier'[c].epoch = carrier[c].epoch
        /\ carrier'[c].safeExit = exit
    BY <1>00, <2>0, <2>1, FieldTypes DEF TypeOK, CarrierRecord
  <2>4. Residents(c) = {t} /\ token[t].epoch = carrier[c].epoch
    BY <1>00, <2>0 DEF OneResourcePerCarrier
  <2>5. Registered(c)' /\ carrier'[c].owner # NoOwner
    BY <1>12, <2>0, <2>3, OwnedIsRegistered DEF Discard, Registered
  <2>6. carrier[c].safeExit =< carrier'[c].safeExit
    BY <1>12, <1>00, <2>0, <2>3, FieldTypes DEF Discard, DiscardExits
  <2>7. ~Live(t)'
    BY <2>2 DEF Live
  <2> QED BY <2>0, <2>1, <2>2, <2>3, <2>4, <2>5, <2>6, <2>7, TokenChange
<1> QED
  BY <1>1, <1>2, <1>3, <1>4, <1>5, <1>6, <1>7, <1>8, <1>9, <1>10, <1>11, <1>12
     DEF Next, RegistrationStep, CarrierStep, TokenStep

\* Stuttering keeps the invariant too.
LEMMA InvStutter == ASSUME LedgerInv, UNCHANGED vars PROVE LedgerInv'
BY DEF vars, LedgerInv, TypeOK, OneResourcePerCarrier, PhaseTellsCustody,
       ExitCoversMotion, UnregisteredUntouched, Registered, Residents, Live

-----------------------------------------------------------------------------
\* The invariant holds in every reachable state.
THEOREM LedgerInvariant == Spec => []LedgerInv
<1>1. LedgerInv /\ [Next]_vars => LedgerInv'
  BY InvStep, InvStutter
<1> QED BY <1>1, InitInv, PTL DEF Spec

\* The records of the ledger stay well typed whatever its callers do.
THEOREM TypeCorrect == Spec => []TypeOK
BY LedgerInvariant, PTL DEF LedgerInv

\* A carrier never holds two usable tokens, nor one of an earlier preparation.
THEOREM OneResource == Spec => []OneResourcePerCarrier
BY LedgerInvariant, PTL DEF LedgerInv

\* Phase, owner and tokens of a carrier always agree.
THEOREM CustodyTold == Spec => []PhaseTellsCustody
BY LedgerInvariant, PTL DEF LedgerInv

\* What the records of carriers and tokens say of each other always agrees.
THEOREM Agreement == Spec => []RecordsAgree
<1>1. LedgerInv => RecordsAgree
  BY DEF LedgerInv, RecordsAgree
<1> QED BY <1>1, LedgerInvariant, PTL

\* The safe exit covers the last transport and the token's own exit.
THEOREM ExitCovers == Spec => []ExitCoversMotion
BY LedgerInvariant, PTL DEF LedgerInv

-----------------------------------------------------------------------------
(* Every step of the ledger is a step of Custody, or changes nothing there. *)

\* Only the operations named in Custody change it; the rest keep every carrier's
\* owner and every token as they are.
LEMMA SameCustody ==
  ASSUME TypeOK, TypeOK', token' = token, NEW c \in Carriers,
         \A d \in Carriers \ {c} : carrier'[d] = carrier[d],
         carrier'[c].owner = carrier[c].owner
  PROVE  UNCHANGED Abstract!custody
<1>1. resident' = resident
  BY DEF resident, Residents, Live
<1>2. fate' = fate
  BY DEF fate
<1>3. holder' = holder
  BY DEF holder
<1> QED BY <1>1, <1>2, <1>3 DEF Abstract!custody

\* An operation without a token that gives a carrier another owner.
LEMMA OwnerChange ==
  ASSUME TypeOK, TypeOK', token' = token, NEW c \in Carriers, NEW o,
         \A d \in Carriers \ {c} : carrier'[d] = carrier[d],
         carrier'[c].owner = o
  PROVE  /\ holder' = [holder EXCEPT ![c] = o]
         /\ resident' = resident
         /\ fate' = fate
<1>1. resident' = resident
  BY DEF resident, Residents, Live
<1>2. fate' = fate
  BY DEF fate
<1>3. holder' = [holder EXCEPT ![c] = o]
  BY DEF holder
<1> QED BY <1>1, <1>2, <1>3

\* An operation on the only token of a carrier.
LEMMA FateChange ==
  ASSUME TypeOK, TypeOK', NEW t \in Tokens, NEW c \in Carriers,
         \A u \in Tokens \ {t} : token'[u] = token[u],
         \A d \in Carriers \ {c} : carrier'[d] = carrier[d],
         token'[t].on = c,
         Residents(c) \subseteq {t},
         Live(t) => token[t].on = c
  PROVE  /\ holder' = [holder EXCEPT ![c] = carrier'[c].owner]
         /\ fate' = [fate EXCEPT ![t] = token'[t].status]
         /\ Live(t)' => resident' = [resident EXCEPT ![c] = {t}]
         /\ ~Live(t)' => resident' = [resident EXCEPT ![c] = {}]
<1>1. \A u \in Tokens \ {t} : /\ Live(u)' <=> Live(u)
                              /\ Live(u) => token[u].on # c
  BY DEF Live, Residents
<1>2. Residents(c)' = IF Live(t)' THEN {t} ELSE {}
  BY <1>1 DEF Residents
<1>3. \A d \in Carriers \ {c} : Residents(d)' = Residents(d)
  BY <1>1 DEF Residents
<1>4. Live(t)' => resident' = [resident EXCEPT ![c] = {t}]
  BY <1>2, <1>3 DEF resident
<1>5. ~Live(t)' => resident' = [resident EXCEPT ![c] = {}]
  BY <1>2, <1>3 DEF resident
<1>6. fate' = [fate EXCEPT ![t] = token'[t].status]
  BY DEF fate
<1>7. holder' = [holder EXCEPT ![c] = carrier'[c].owner]
  BY DEF holder
<1> QED BY <1>4, <1>5, <1>6, <1>7

\* Every operation maps to a step of Custody or to a stutter.
LEMMA CustodyStep ==
  ASSUME LedgerInv, Next PROVE Abstract!Next \/ UNCHANGED Abstract!custody
<1>0. TypeOK /\ TypeOK' /\ OneResourcePerCarrier /\ PhaseTellsCustody
  BY TypeStep DEF LedgerInv
<1> DEFINE Mapped == Abstract!Next \/ UNCHANGED Abstract!custody
<1>00. carrier \in [Carriers -> CarrierRecord] /\ token \in [Tokens -> TokenRecord]
  BY <1>0 DEF TypeOK
<1>01. /\ \A c \in Carriers : holder[c] = carrier[c].owner /\ resident[c] = Residents(c)
       /\ \A t \in Tokens : fate[t] = token[t].status
  BY DEF holder, resident, fate
<1>1. ASSUME NEW c \in Carriers, NEW atoms \in SUBSET Atoms, RegisterCarrier(c, atoms)
      PROVE  Mapped
  <2>1. carrier[c] = FreshCarrier("unregistered", {})
    BY <1>1 DEF RegisterCarrier, LedgerInv, UnregisteredUntouched
  <2>2. /\ carrier'[c] = FreshCarrier("physical", atoms)
        /\ \A d \in Carriers \ {c} : carrier'[d] = carrier[d]
        /\ token' = token
    BY <1>1, <1>00 DEF RegisterCarrier
  <2> QED BY <1>0, <2>1, <2>2, SameCustody DEF FreshCarrier
<1>2. ASSUME NEW c \in Carriers, RegisterLogicalCarrier(c)
      PROVE  Mapped
  <2>1. carrier[c] = FreshCarrier("unregistered", {})
    BY <1>2 DEF RegisterLogicalCarrier, LedgerInv, UnregisteredUntouched
  <2>2. /\ carrier'[c] = FreshCarrier("logical_estimate", {})
        /\ \A d \in Carriers \ {c} : carrier'[d] = carrier[d]
        /\ token' = token
    BY <1>2, <1>00 DEF RegisterLogicalCarrier
  <2> QED BY <1>0, <2>1, <2>2, SameCustody DEF FreshCarrier
<1>3. ASSUME NEW c \in Carriers, NEW owner \in Owners, NEW at \in Time,
             AcquireTransport(c, owner, at)
      PROVE  Mapped
  <2>1. carrier' = [carrier EXCEPT ![c] =
          [@ EXCEPT !.owner = owner, !.phase = "transport", !.last = at]]
        /\ token' = token
    BY <1>3 DEF AcquireTransport
  <2>2. /\ \A d \in Carriers \ {c} : carrier'[d] = carrier[d]
        /\ carrier'[c].owner = owner
    BY <1>0, <2>1, FieldTypes DEF TypeOK, CarrierRecord
  <2>3. resident[c] = {}
    BY <1>3, <1>0, <1>01, ActiveIsResident DEF AcquireTransport
  <2>4. holder[c] = NoOwner
    BY <1>3, <1>01 DEF AcquireTransport
  <2>5. holder' = [holder EXCEPT ![c] = owner] /\ resident' = resident /\ fate' = fate
    BY <1>0, <2>1, <2>2, OwnerChange
  <2>6. Abstract!Take(c, owner)
    BY <2>3, <2>4, <2>5 DEF Abstract!Take
  <2> QED BY <2>6 DEF Abstract!Next
<1>4. ASSUME NEW c \in Carriers, NEW owner \in Owners, NEW at \in Time,
             BeginPreparation(c, owner, at)
      PROVE  Mapped
  <2>1. carrier' = [carrier EXCEPT ![c] =
          [@ EXCEPT !.epoch = carrier[c].epoch + 1, !.owner = owner,
                      !.phase = "preparing", !.last = at, !.safeExit = at]]
        /\ token' = token
    BY <1>4 DEF BeginPreparation
  <2>2. /\ \A d \in Carriers \ {c} : carrier'[d] = carrier[d]
        /\ carrier'[c].owner = owner
    BY <1>0, <2>1, FieldTypes DEF TypeOK, CarrierRecord
  <2>3. resident[c] = {}
    BY <1>4, <1>0, <1>01, ActiveIsResident DEF BeginPreparation
  <2>4. holder[c] = NoOwner
    BY <1>4, <1>01 DEF BeginPreparation
  <2>5. holder' = [holder EXCEPT ![c] = owner] /\ resident' = resident /\ fate' = fate
    BY <1>0, <2>1, <2>2, OwnerChange
  <2>6. Abstract!Take(c, owner)
    BY <2>3, <2>4, <2>5 DEF Abstract!Take
  <2> QED BY <2>6 DEF Abstract!Next
<1>5. ASSUME NEW c \in Carriers, NEW owner \in Owners, NEW at \in Time,
             FinishPreparation(c, owner, at)
      PROVE  Mapped
  <2>1. carrier' = [carrier EXCEPT ![c] =
          [@ EXCEPT !.phase = "work", !.last = at]]
        /\ token' = token
    BY <1>5 DEF FinishPreparation
  <2>2. /\ \A d \in Carriers \ {c} : carrier'[d] = carrier[d]
        /\ carrier'[c].owner = carrier[c].owner
    BY <1>0, <2>1, FieldTypes DEF TypeOK, CarrierRecord
  <2> QED BY <1>0, <2>1, <2>2, SameCustody
<1>6. ASSUME NEW c \in Carriers, NEW owner \in Owners, NEW at \in Time, NEW exit \in Time,
             RecordTransport(c, owner, at, exit)
      PROVE  Mapped
  <2>1. carrier' = [carrier EXCEPT ![c] =
          [@ EXCEPT !.last = at, !.safeExit = exit]]
        /\ token' = token
    BY <1>6 DEF RecordTransport
  <2>2. /\ \A d \in Carriers \ {c} : carrier'[d] = carrier[d]
        /\ carrier'[c].owner = carrier[c].owner
    BY <1>0, <2>1, FieldTypes DEF TypeOK, CarrierRecord
  <2> QED BY <1>0, <2>1, <2>2, SameCustody
<1>7. ASSUME NEW c \in Carriers, NEW owner \in Owners, NEW at \in Time, NEW exit \in Time,
             ExtendUse(c, owner, at, exit)
      PROVE  Mapped
  <2>1. carrier' = [carrier EXCEPT ![c] =
          [@ EXCEPT !.last = at, !.safeExit = exit]]
        /\ token' = token
    BY <1>7 DEF ExtendUse
  <2>2. /\ \A d \in Carriers \ {c} : carrier'[d] = carrier[d]
        /\ carrier'[c].owner = carrier[c].owner
    BY <1>0, <2>1, FieldTypes DEF TypeOK, CarrierRecord
  <2> QED BY <1>0, <2>1, <2>2, SameCustody
<1>8. ASSUME NEW c \in Carriers, NEW owner \in Owners, NEW at \in Time,
             CompleteUse(c, owner, at)
      PROVE  Mapped
  <2>1. carrier' = [carrier EXCEPT ![c] =
          [@ EXCEPT !.owner = NoOwner, !.phase = "free", !.last = at]]
        /\ token' = token
    BY <1>8 DEF CompleteUse
  <2>2. /\ \A d \in Carriers \ {c} : carrier'[d] = carrier[d]
        /\ carrier'[c].owner = NoOwner
    BY <1>0, <2>1, FieldTypes DEF TypeOK, CarrierRecord
  <2>3. resident[c] = {}
    BY <1>8, <1>0, <1>01, ActiveIsResident DEF CompleteUse
  <2>4. holder[c] # NoOwner
    BY <1>8, <1>01, OwnedIsRegistered DEF CompleteUse
  <2>5. holder' = [holder EXCEPT ![c] = NoOwner] /\ resident' = resident /\ fate' = fate
    BY <1>0, <2>1, <2>2, OwnerChange
  <2>6. Abstract!Drop(c)
    BY <2>3, <2>4, <2>5 DEF Abstract!Drop
  <2> QED BY <2>6 DEF Abstract!Next
<1>9. ASSUME NEW t \in Tokens, NEW c \in Carriers, NEW owner \in Owners,
             NEW label \in Labels, NEW at \in Time, NEW exit \in Time,
             Offer(t, c, owner, label, at, exit)
      PROVE  Mapped
  <2>1. /\ token' = [token EXCEPT ![t] =
              [status |-> "offered", on |-> c, epoch |-> carrier[c].epoch,
               label |-> label, ready |-> at, exit |-> exit,
               consumer |-> NoOwner, consumedAt |-> 0]]
        /\ carrier' = [carrier EXCEPT ![c] =
              [@ EXCEPT !.phase = "resource", !.safeExit = exit]]
    BY <1>9 DEF Offer
  <2>2. /\ \A u \in Tokens \ {t} : token'[u] = token[u]
        /\ token'[t].status = "offered" /\ token'[t].on = c
    BY <1>00, <2>1
  <2>3. /\ \A d \in Carriers \ {c} : carrier'[d] = carrier[d]
        /\ carrier'[c].owner = carrier[c].owner
    BY <1>0, <2>1, FieldTypes DEF TypeOK, CarrierRecord
  <2>4. Residents(c) = {}
    BY <1>9, <1>0, ActiveIsResident DEF Offer
  <2>5. token[t].status = "absent" /\ ~Live(t) /\ Live(t)'
    BY <1>9, <2>2 DEF Offer, Live
  <2>6. /\ holder' = [holder EXCEPT ![c] = carrier'[c].owner]
        /\ resident' = [resident EXCEPT ![c] = {t}]
        /\ fate' = [fate EXCEPT ![t] = "offered"]
    BY <1>0, <2>2, <2>3, <2>4, <2>5, FateChange
  <2>7. holder[c] # NoOwner /\ holder' = holder
    BY <1>9, <1>01, <2>3, <2>6, OwnedIsRegistered DEF Offer, holder
  <2>8. Abstract!Place(c, t)
    BY <1>01, <2>4, <2>5, <2>6, <2>7 DEF Abstract!Place
  <2> QED BY <2>8 DEF Abstract!Next
<1>10. ASSUME NEW t \in Tokens, NEW consumer \in Owners, NEW at \in Time,
              Reserve(t, consumer, at, "canonical")
       PROVE  Mapped
  <2>0. PICK c \in Carriers : c = token[t].on
    BY <1>0, FieldTypes
  <2>1. /\ token' = [token EXCEPT ![t] =
              [@ EXCEPT !.status = "reserved", !.consumer = consumer]]
        /\ carrier' = [carrier EXCEPT ![c] =
              [@ EXCEPT !.owner = consumer, !.last = at]]
        /\ token[t].status = "offered"
    BY <1>10, <2>0 DEF Reserve, MayReserve
  <2>2. /\ \A u \in Tokens \ {t} : token'[u] = token[u]
        /\ token'[t].status = "reserved" /\ token'[t].on = c
    BY <1>0, <2>0, <2>1, FieldTypes DEF TypeOK, TokenRecord
  <2>3. /\ \A d \in Carriers \ {c} : carrier'[d] = carrier[d]
        /\ carrier'[c].owner = consumer
    BY <1>0, <2>1, FieldTypes DEF TypeOK, CarrierRecord
  <2>4. Live(t) /\ Live(t)'
    BY <2>1, <2>2 DEF Live
  <2>5. Residents(c) = {t}
    BY <1>0, <2>0, <2>4 DEF OneResourcePerCarrier
  <2>6. /\ holder' = [holder EXCEPT ![c] = carrier'[c].owner]
        /\ resident' = [resident EXCEPT ![c] = {t}]
        /\ fate' = [fate EXCEPT ![t] = "reserved"]
    BY <1>0, <2>0, <2>2, <2>3, <2>4, <2>5, FateChange
  <2>7. resident' = resident
    BY <1>01, <2>5, <2>6 DEF resident
  <2>8. holder[c] # NoOwner
    BY <1>0, <1>01, <2>5 DEF PhaseTellsCustody
  <2>9. Abstract!Assign(c, t, consumer)
    BY <1>01, <2>1, <2>3, <2>5, <2>6, <2>7, <2>8 DEF Abstract!Assign
  <2> QED BY <2>9 DEF Abstract!Next
<1>11. ASSUME NEW t \in Tokens, NEW consumer \in Owners, NEW at \in Time,
              NEW exit \in Time, Consume(t, consumer, at, exit)
       PROVE  Mapped
  <2>0. PICK c \in Carriers : c = token[t].on
    BY <1>0, FieldTypes
  <2>1. /\ token' = [token EXCEPT ![t] =
              [@ EXCEPT !.status = "consumed", !.consumedAt = at]]
        /\ carrier' = [carrier EXCEPT ![c] =
              [@ EXCEPT !.phase = "work", !.last = at, !.safeExit = exit]]
    BY <1>11, <2>0 DEF Consume
  <2>2. /\ \A u \in Tokens \ {t} : token'[u] = token[u]
        /\ token'[t].status = "consumed" /\ token'[t].on = c
    BY <1>0, <2>0, <2>1, FieldTypes DEF TypeOK, TokenRecord
  <2>3. /\ \A d \in Carriers \ {c} : carrier'[d] = carrier[d]
        /\ carrier'[c].owner = carrier[c].owner
    BY <1>0, <2>1, FieldTypes DEF TypeOK, CarrierRecord
  <2>4. Live(t) /\ ~Live(t)'
    BY <1>11, <2>2 DEF Consume, Live
  <2>5. Residents(c) = {t}
    BY <1>0, <2>0, <2>4 DEF OneResourcePerCarrier
  <2>6. /\ holder' = [holder EXCEPT ![c] = carrier'[c].owner]
        /\ resident' = [resident EXCEPT ![c] = {}]
        /\ fate' = [fate EXCEPT ![t] = "consumed"]
    BY <1>0, <2>0, <2>2, <2>3, <2>4, <2>5, FateChange
  <2>7. holder[c] # NoOwner /\ holder' = holder
    BY <1>11, <1>01, <2>0, <2>3, <2>6, OwnedIsRegistered DEF Consume, holder
  <2>8. token[t].status = "reserved"
    BY <1>11 DEF Consume
  <2>9. Abstract!Finish(c, t, "consumed")
    BY <1>01, <2>5, <2>6, <2>7, <2>8 DEF Abstract!Finish
  <2> QED BY <2>9 DEF Abstract!Next
<1>12. ASSUME NEW t \in Tokens, NEW owner \in Owners, NEW at \in Time,
              NEW exit \in Time, Discard(t, owner, at, exit)
       PROVE  Mapped
  <2>0. PICK c \in Carriers : c = token[t].on
    BY <1>0, FieldTypes
  <2>1. /\ token' = [token EXCEPT ![t].status = "discarded"]
        /\ carrier' = [carrier EXCEPT ![c] =
              [@ EXCEPT !.phase = "work", !.last = at, !.safeExit = exit]]
    BY <1>12, <2>0 DEF Discard
  <2>2. /\ \A u \in Tokens \ {t} : token'[u] = token[u]
        /\ token'[t].status = "discarded" /\ token'[t].on = c
    BY <1>0, <2>0, <2>1, FieldTypes DEF TypeOK, TokenRecord
  <2>3. /\ \A d \in Carriers \ {c} : carrier'[d] = carrier[d]
        /\ carrier'[c].owner = carrier[c].owner
    BY <1>0, <2>1, FieldTypes DEF TypeOK, CarrierRecord
  <2>4. Live(t) /\ ~Live(t)'
    BY <1>12, <2>2 DEF Discard, Live
  <2>5. Residents(c) = {t}
    BY <1>0, <2>0, <2>4 DEF OneResourcePerCarrier
  <2>6. /\ holder' = [holder EXCEPT ![c] = carrier'[c].owner]
        /\ resident' = [resident EXCEPT ![c] = {}]
        /\ fate' = [fate EXCEPT ![t] = "discarded"]
    BY <1>0, <2>0, <2>2, <2>3, <2>4, <2>5, FateChange
  <2>7. holder[c] # NoOwner /\ holder' = holder
    BY <1>12, <1>01, <2>0, <2>3, <2>6, OwnedIsRegistered DEF Discard, holder
  <2>8. Abstract!Finish(c, t, "discarded")
    BY <1>01, <2>5, <2>6, <2>7 DEF Abstract!Finish
  <2> QED BY <2>8 DEF Abstract!Next
<1> QED
  BY <1>1, <1>2, <1>3, <1>4, <1>5, <1>6, <1>7, <1>8, <1>9, <1>10, <1>11, <1>12
     DEF Next, RegistrationStep, CarrierStep, TokenStep

\* The ledger implements Custody: a carrier goes from owner to owner only with
\* the resource on it, and a token is offered, assigned and finished once.
THEOREM Custodian == Spec => ImplementsCustody
<1>1. Init => Abstract!Init
  <2> SUFFICES ASSUME Init PROVE Abstract!Init
    OBVIOUS
  <2>1. /\ \A c \in Carriers : carrier[c].owner = NoOwner
        /\ \A t \in Tokens : token[t].status = "absent"
    BY DEF Init, FreshCarrier, AbsentToken
  <2>2. \A c \in Carriers : Residents(c) = {}
    BY <2>1 DEF Residents, Live
  <2>3. holder = [c \in Carriers |-> NoOwner]
    BY <2>1 DEF holder
  <2>4. resident = [c \in Carriers |-> {}]
    BY <2>2 DEF resident
  <2>5. fate = [t \in Tokens |-> "absent"]
    BY <2>1 DEF fate
  <2> QED BY <2>3, <2>4, <2>5 DEF Abstract!Init
<1>2. LedgerInv /\ [Next]_vars => [Abstract!Next]_(Abstract!custody)
  <2>1. ASSUME UNCHANGED vars PROVE UNCHANGED Abstract!custody
    BY <2>1 DEF vars, Abstract!custody, holder, resident, fate, Residents, Live
  <2> QED BY <2>1, CustodyStep
<1> QED BY <1>1, <1>2, LedgerInvariant, PTL DEF Spec, ImplementsCustody, Abstract!Spec

-----------------------------------------------------------------------------
(* No carrier changes hands and no token is used while a transport is under *)
(* way, although only reserve and extend_use look at the transport record.  *)

Waits == \A c \in Carriers :
  (carrier'[c].owner # carrier[c].owner \/ carrier'[c].epoch # carrier[c].epoch)
    => carrier'[c].last >= transportUntil[c]

UsesAtRest == \A t \in Tokens :
  token'[t].status = "consumed" /\ token[t].status # "consumed"
    => token'[t].consumedAt >= transportUntil[token[t].on]

\* Past the safe exit the carrier's transport is over.
LEMMA SafeIsStill ==
  ASSUME LedgerInv, NEW c \in Carriers, NEW at \in Time, Safe(c, at)
  PROVE  at >= transportUntil[c]
BY FieldTypes DEF LedgerInv, ExitCoversMotion, Safe

\* Operations that hand over no carrier have nothing to wait for.
LEMMA KeepsHands ==
  ASSUME NEW c \in Carriers,
         \A d \in Carriers \ {c} : carrier'[d] = carrier[d],
         carrier'[c].owner = carrier[c].owner, carrier'[c].epoch = carrier[c].epoch
  PROVE  Waits
BY DEF Waits

\* Operations that hand a carrier over after its transport.
LEMMA HandsOver ==
  ASSUME NEW c \in Carriers,
         \A d \in Carriers \ {c} : carrier'[d] = carrier[d],
         carrier'[c].last >= transportUntil[c]
  PROVE  Waits
BY DEF Waits

\* No step of the ledger starts in flight.
LEMMA FlightStep == ASSUME LedgerInv, Next PROVE Waits /\ UsesAtRest
<1>0. TypeOK /\ OneResourcePerCarrier
  BY DEF LedgerInv
<1>00. carrier \in [Carriers -> CarrierRecord] /\ token \in [Tokens -> TokenRecord]
  BY <1>0 DEF TypeOK
<1>000. ASSUME token' = token PROVE UsesAtRest
  BY <1>000 DEF UsesAtRest
<1>1. ASSUME NEW c \in Carriers, NEW atoms \in SUBSET Atoms, RegisterCarrier(c, atoms)
      PROVE  Waits /\ UsesAtRest
  <2>1. carrier[c] = FreshCarrier("unregistered", {})
    BY <1>1 DEF RegisterCarrier, LedgerInv, UnregisteredUntouched
  <2>2. /\ carrier'[c] = FreshCarrier("physical", atoms)
        /\ \A d \in Carriers \ {c} : carrier'[d] = carrier[d]
        /\ token' = token
    BY <1>1, <1>00 DEF RegisterCarrier
  <2>3. carrier'[c].owner = carrier[c].owner /\ carrier'[c].epoch = carrier[c].epoch
    BY <2>1, <2>2 DEF FreshCarrier
  <2> QED BY <1>000, <2>2, <2>3, KeepsHands
<1>2. ASSUME NEW c \in Carriers, RegisterLogicalCarrier(c)
      PROVE  Waits /\ UsesAtRest
  <2>1. carrier[c] = FreshCarrier("unregistered", {})
    BY <1>2 DEF RegisterLogicalCarrier, LedgerInv, UnregisteredUntouched
  <2>2. /\ carrier'[c] = FreshCarrier("logical_estimate", {})
        /\ \A d \in Carriers \ {c} : carrier'[d] = carrier[d]
        /\ token' = token
    BY <1>2, <1>00 DEF RegisterLogicalCarrier
  <2>3. carrier'[c].owner = carrier[c].owner /\ carrier'[c].epoch = carrier[c].epoch
    BY <2>1, <2>2 DEF FreshCarrier
  <2> QED BY <1>000, <2>2, <2>3, KeepsHands
<1>3. ASSUME NEW c \in Carriers, NEW owner \in Owners, NEW at \in Time,
             AcquireTransport(c, owner, at)
      PROVE  Waits /\ UsesAtRest
  <2>1. carrier' = [carrier EXCEPT ![c] =
          [@ EXCEPT !.owner = owner, !.phase = "transport", !.last = at]]
        /\ token' = token
    BY <1>3 DEF AcquireTransport
  <2>2. /\ \A d \in Carriers \ {c} : carrier'[d] = carrier[d]
        /\ carrier'[c].last = at
    BY <1>0, <2>1, FieldTypes DEF TypeOK, CarrierRecord
  <2>3. at >= transportUntil[c]
    BY <1>3, SafeIsStill DEF AcquireTransport
  <2> QED BY <1>000, <2>1, <2>2, <2>3, HandsOver
<1>4. ASSUME NEW c \in Carriers, NEW owner \in Owners, NEW at \in Time,
             BeginPreparation(c, owner, at)
      PROVE  Waits /\ UsesAtRest
  <2>1. carrier' = [carrier EXCEPT ![c] =
          [@ EXCEPT !.epoch = carrier[c].epoch + 1, !.owner = owner,
                      !.phase = "preparing", !.last = at, !.safeExit = at]]
        /\ token' = token
    BY <1>4 DEF BeginPreparation
  <2>2. /\ \A d \in Carriers \ {c} : carrier'[d] = carrier[d]
        /\ carrier'[c].last = at
    BY <1>0, <2>1, FieldTypes DEF TypeOK, CarrierRecord
  <2>3. at >= transportUntil[c]
    BY <1>4, SafeIsStill DEF BeginPreparation
  <2> QED BY <1>000, <2>1, <2>2, <2>3, HandsOver
<1>5. ASSUME NEW c \in Carriers, NEW owner \in Owners, NEW at \in Time,
             FinishPreparation(c, owner, at)
      PROVE  Waits /\ UsesAtRest
  <2>1. carrier' = [carrier EXCEPT ![c] =
          [@ EXCEPT !.phase = "work", !.last = at]]
        /\ token' = token
    BY <1>5 DEF FinishPreparation
  <2>2. /\ \A d \in Carriers \ {c} : carrier'[d] = carrier[d]
        /\ carrier'[c].owner = carrier[c].owner /\ carrier'[c].epoch = carrier[c].epoch
    BY <1>0, <2>1, FieldTypes DEF TypeOK, CarrierRecord
  <2> QED BY <1>000, <2>1, <2>2, KeepsHands
<1>6. ASSUME NEW c \in Carriers, NEW owner \in Owners, NEW at \in Time, NEW exit \in Time,
             RecordTransport(c, owner, at, exit)
      PROVE  Waits /\ UsesAtRest
  <2>1. carrier' = [carrier EXCEPT ![c] =
          [@ EXCEPT !.last = at, !.safeExit = exit]]
        /\ token' = token
    BY <1>6 DEF RecordTransport
  <2>2. /\ \A d \in Carriers \ {c} : carrier'[d] = carrier[d]
        /\ carrier'[c].owner = carrier[c].owner /\ carrier'[c].epoch = carrier[c].epoch
    BY <1>0, <2>1, FieldTypes DEF TypeOK, CarrierRecord
  <2> QED BY <1>000, <2>1, <2>2, KeepsHands
<1>7. ASSUME NEW c \in Carriers, NEW owner \in Owners, NEW at \in Time, NEW exit \in Time,
             ExtendUse(c, owner, at, exit)
      PROVE  Waits /\ UsesAtRest
  <2>1. carrier' = [carrier EXCEPT ![c] =
          [@ EXCEPT !.last = at, !.safeExit = exit]]
        /\ token' = token
    BY <1>7 DEF ExtendUse
  <2>2. /\ \A d \in Carriers \ {c} : carrier'[d] = carrier[d]
        /\ carrier'[c].owner = carrier[c].owner /\ carrier'[c].epoch = carrier[c].epoch
    BY <1>0, <2>1, FieldTypes DEF TypeOK, CarrierRecord
  <2> QED BY <1>000, <2>1, <2>2, KeepsHands
<1>8. ASSUME NEW c \in Carriers, NEW owner \in Owners, NEW at \in Time,
             CompleteUse(c, owner, at)
      PROVE  Waits /\ UsesAtRest
  <2>1. carrier' = [carrier EXCEPT ![c] =
          [@ EXCEPT !.owner = NoOwner, !.phase = "free", !.last = at]]
        /\ token' = token
    BY <1>8 DEF CompleteUse
  <2>2. /\ \A d \in Carriers \ {c} : carrier'[d] = carrier[d]
        /\ carrier'[c].last = at
    BY <1>0, <2>1, FieldTypes DEF TypeOK, CarrierRecord
  <2>3. at >= transportUntil[c]
    BY <1>8, SafeIsStill DEF CompleteUse
  <2> QED BY <1>000, <2>1, <2>2, <2>3, HandsOver
<1>9. ASSUME NEW t \in Tokens, NEW c \in Carriers, NEW owner \in Owners,
             NEW label \in Labels, NEW at \in Time, NEW exit \in Time,
             Offer(t, c, owner, label, at, exit)
      PROVE  Waits /\ UsesAtRest
  <2>1. /\ token' = [token EXCEPT ![t] =
              [status |-> "offered", on |-> c, epoch |-> carrier[c].epoch,
               label |-> label, ready |-> at, exit |-> exit,
               consumer |-> NoOwner, consumedAt |-> 0]]
        /\ carrier' = [carrier EXCEPT ![c] =
              [@ EXCEPT !.phase = "resource", !.safeExit = exit]]
    BY <1>9 DEF Offer
  <2>2. UsesAtRest
    BY <1>00, <2>1 DEF UsesAtRest
  <2>3. /\ \A d \in Carriers \ {c} : carrier'[d] = carrier[d]
        /\ carrier'[c].owner = carrier[c].owner /\ carrier'[c].epoch = carrier[c].epoch
    BY <1>0, <2>1, FieldTypes DEF TypeOK, CarrierRecord
  <2> QED BY <2>2, <2>3, KeepsHands
<1>10. ASSUME NEW t \in Tokens, NEW consumer \in Owners, NEW at \in Time,
              Reserve(t, consumer, at, "canonical")
       PROVE  Waits /\ UsesAtRest
  <2>0. PICK c \in Carriers : c = token[t].on
    BY <1>0, FieldTypes
  <2>1. /\ token' = [token EXCEPT ![t] =
              [@ EXCEPT !.status = "reserved", !.consumer = consumer]]
        /\ carrier' = [carrier EXCEPT ![c] =
              [@ EXCEPT !.owner = consumer, !.last = at]]
        /\ at >= transportUntil[c]
    BY <1>10, <2>0 DEF Reserve, MayReserve, TransportComplete
  <2>2. /\ \A u \in Tokens \ {t} : token'[u] = token[u]
        /\ token'[t].status = "reserved"
    BY <1>0, <2>1, FieldTypes DEF TypeOK, TokenRecord
  <2>3. UsesAtRest
    BY <2>2 DEF UsesAtRest
  <2>4. /\ \A d \in Carriers \ {c} : carrier'[d] = carrier[d]
        /\ carrier'[c].last = at
    BY <1>0, <2>1, FieldTypes DEF TypeOK, CarrierRecord
  <2> QED BY <2>1, <2>3, <2>4, HandsOver
<1>11. ASSUME NEW t \in Tokens, NEW consumer \in Owners, NEW at \in Time,
              NEW exit \in Time, Consume(t, consumer, at, exit)
       PROVE  Waits /\ UsesAtRest
  <2>0. PICK c \in Carriers : c = token[t].on
    BY <1>0, FieldTypes
  <2>1. /\ token' = [token EXCEPT ![t] =
              [@ EXCEPT !.status = "consumed", !.consumedAt = at]]
        /\ carrier' = [carrier EXCEPT ![c] =
              [@ EXCEPT !.phase = "work", !.last = at, !.safeExit = exit]]
        /\ Safe(c, at)
    BY <1>11, <2>0 DEF Consume
  <2>2. /\ \A u \in Tokens \ {t} : token'[u] = token[u]
        /\ token'[t].consumedAt = at
    BY <1>0, <2>1, FieldTypes DEF TypeOK, TokenRecord
  <2>3. UsesAtRest
    BY <2>0, <2>1, <2>2, SafeIsStill DEF UsesAtRest
  <2>4. /\ \A d \in Carriers \ {c} : carrier'[d] = carrier[d]
        /\ carrier'[c].owner = carrier[c].owner /\ carrier'[c].epoch = carrier[c].epoch
    BY <1>0, <2>1, FieldTypes DEF TypeOK, CarrierRecord
  <2> QED BY <2>3, <2>4, KeepsHands
<1>12. ASSUME NEW t \in Tokens, NEW owner \in Owners, NEW at \in Time,
              NEW exit \in Time, Discard(t, owner, at, exit)
       PROVE  Waits /\ UsesAtRest
  <2>0. PICK c \in Carriers : c = token[t].on
    BY <1>0, FieldTypes
  <2>1. /\ token' = [token EXCEPT ![t].status = "discarded"]
        /\ carrier' = [carrier EXCEPT ![c] =
              [@ EXCEPT !.phase = "work", !.last = at, !.safeExit = exit]]
    BY <1>12, <2>0 DEF Discard
  <2>2. /\ \A u \in Tokens \ {t} : token'[u] = token[u]
        /\ token'[t].status = "discarded"
    BY <1>0, <2>1, FieldTypes DEF TypeOK, TokenRecord
  <2>3. UsesAtRest
    BY <2>2 DEF UsesAtRest
  <2>4. /\ \A d \in Carriers \ {c} : carrier'[d] = carrier[d]
        /\ carrier'[c].owner = carrier[c].owner /\ carrier'[c].epoch = carrier[c].epoch
    BY <1>0, <2>1, FieldTypes DEF TypeOK, CarrierRecord
  <2> QED BY <2>3, <2>4, KeepsHands
<1> QED
  BY <1>1, <1>2, <1>3, <1>4, <1>5, <1>6, <1>7, <1>8, <1>9, <1>10, <1>11, <1>12
     DEF Next, RegistrationStep, CarrierStep, TokenStep

\* Nothing changes hands, is prepared afresh or used while it is being moved.
THEOREM AtRest == Spec => NothingStartsInFlight
<1>1. LedgerInv /\ [Next]_vars => [Waits /\ UsesAtRest]_vars
  BY FlightStep
<1> QED
  BY <1>1, LedgerInvariant, PTL DEF Spec, NothingStartsInFlight, Waits, UsesAtRest
-----------------------------------------------------------------------------
\* What a carrier is made of is settled when it is registered.
SameAtoms ==
  /\ claimedAtoms' = claimedAtoms
  /\ \A c \in Carriers : /\ carrier'[c].atoms = carrier[c].atoms
                         /\ carrier'[c].representation = carrier[c].representation

\* No operation on a carrier touches its atoms or its kind.
LEMMA CarrierKeepsAtoms == ASSUME TypeOK, CarrierStep PROVE SameAtoms
<1>0. carrier \in [Carriers -> CarrierRecord]
  BY DEF TypeOK
<1>1. PICK c \in Carriers, owner \in Owners, at \in Time :
        \/ AcquireTransport(c, owner, at)
        \/ BeginPreparation(c, owner, at)
        \/ FinishPreparation(c, owner, at)
        \/ \E exit \in Time : RecordTransport(c, owner, at, exit)
        \/ \E exit \in Time : ExtendUse(c, owner, at, exit)
        \/ CompleteUse(c, owner, at)
  BY DEF CarrierStep
<1>2. CASE AcquireTransport(c, owner, at)
  BY <1>0, <1>2 DEF AcquireTransport, SameAtoms, CarrierRecord
<1>3. CASE BeginPreparation(c, owner, at)
  BY <1>0, <1>3 DEF BeginPreparation, SameAtoms, CarrierRecord
<1>4. CASE FinishPreparation(c, owner, at)
  BY <1>0, <1>4 DEF FinishPreparation, SameAtoms, CarrierRecord
<1>5. CASE \E exit \in Time : RecordTransport(c, owner, at, exit)
  BY <1>0, <1>5 DEF RecordTransport, SameAtoms, CarrierRecord
<1>6. CASE \E exit \in Time : ExtendUse(c, owner, at, exit)
  BY <1>0, <1>6 DEF ExtendUse, SameAtoms, CarrierRecord
<1>7. CASE CompleteUse(c, owner, at)
  BY <1>0, <1>7 DEF CompleteUse, SameAtoms, CarrierRecord
<1> QED BY <1>1, <1>2, <1>3, <1>4, <1>5, <1>6, <1>7

\* Nor does any operation on a token.
LEMMA TokenKeepsAtoms == ASSUME TypeOK, TokenStep PROVE SameAtoms
<1>0. carrier \in [Carriers -> CarrierRecord] /\ token \in [Tokens -> TokenRecord]
  BY DEF TypeOK
<1>1. PICK t \in Tokens, owner \in Owners, at \in Time :
        \/ \E c \in Carriers, label \in Labels, exit \in Time :
             Offer(t, c, owner, label, at, exit)
        \/ Reserve(t, owner, at, "canonical")
        \/ \E exit \in Time : Consume(t, owner, at, exit)
        \/ \E exit \in Time : Discard(t, owner, at, exit)
  BY DEF TokenStep
<1>2. CASE \E c \in Carriers, label \in Labels, exit \in Time :
             Offer(t, c, owner, label, at, exit)
  BY <1>0, <1>2 DEF Offer, SameAtoms, CarrierRecord
<1>3. CASE Reserve(t, owner, at, "canonical")
  BY <1>0, <1>3 DEF Reserve, SameAtoms, CarrierRecord, TokenRecord
<1>4. CASE \E exit \in Time : Consume(t, owner, at, exit)
  BY <1>0, <1>4 DEF Consume, SameAtoms, CarrierRecord, TokenRecord
<1>5. CASE \E exit \in Time : Discard(t, owner, at, exit)
  BY <1>0, <1>5 DEF Discard, SameAtoms, CarrierRecord, TokenRecord
<1> QED BY <1>1, <1>2, <1>3, <1>4, <1>5

\* Registering a carrier gives it atoms no other carrier has.
LEMMA RegistrationKeepsExclusive ==
  ASSUME TypeOK, UnregisteredUntouched, AtomsExclusive, RegistrationStep
  PROVE  AtomsExclusive'
<1>0. carrier \in [Carriers -> CarrierRecord]
  BY DEF TypeOK
<1>1. ASSUME NEW c \in Carriers, NEW atoms \in SUBSET Atoms, RegisterCarrier(c, atoms)
      PROVE  AtomsExclusive'
  <2>1. carrier'[c] = FreshCarrier("physical", atoms)
    BY <1>0, <1>1 DEF RegisterCarrier
  <2>2. \A d \in Carriers : d # c => carrier'[d] = carrier[d]
    BY <1>0, <1>1 DEF RegisterCarrier
  <2>3. carrier[c].atoms = {}
    BY <1>1 DEF RegisterCarrier, UnregisteredUntouched, FreshCarrier
  <2>4. carrier'[c].atoms = atoms /\ carrier'[c].representation = "physical"
    BY <2>1 DEF FreshCarrier
  <2>5. claimedAtoms' = UNION {carrier'[d].atoms : d \in Carriers}
    BY <1>1, <2>2, <2>3, <2>4 DEF RegisterCarrier, AtomsExclusive
  <2>6. \A d, e \in Carriers : d # e => carrier'[d].atoms \cap carrier'[e].atoms = {}
    <3>1. \A d \in Carriers : carrier[d].atoms \subseteq claimedAtoms
      BY DEF AtomsExclusive
    <3>2. atoms \cap claimedAtoms = {}
      BY <1>1 DEF RegisterCarrier
    <3> QED BY <3>1, <3>2, <2>2, <2>4 DEF AtomsExclusive
  <2>7. \A d \in Carriers :
          carrier'[d].representation = "physical" <=> carrier'[d].atoms # {}
    BY <1>1, <2>2, <2>4 DEF RegisterCarrier, AtomsExclusive
  <2>8. \A d \in Carriers : carrier'[d].representation # "logical_estimate"
    BY <1>1, <2>2, <2>4 DEF RegisterCarrier
  <2> QED BY <2>5, <2>6, <2>7, <2>8 DEF AtomsExclusive
<1>2. ASSUME NEW c \in Carriers, RegisterLogicalCarrier(c)
      PROVE  AtomsExclusive'
  <2>1. carrier'[c] = FreshCarrier("logical_estimate", {})
    BY <1>0, <1>2 DEF RegisterLogicalCarrier
  <2>2. \A d \in Carriers : d # c => carrier'[d] = carrier[d]
    BY <1>0, <1>2 DEF RegisterLogicalCarrier
  <2>3. carrier[c].atoms = {}
    BY <1>2 DEF RegisterLogicalCarrier, UnregisteredUntouched, FreshCarrier
  <2>4. carrier'[c].atoms = {} /\ carrier'[c].representation = "logical_estimate"
    BY <2>1 DEF FreshCarrier
  <2>5. \A d \in Carriers : carrier'[d].atoms = carrier[d].atoms
    BY <2>2, <2>3, <2>4
  <2>6. \A d \in Carriers : carrier'[d].representation # "physical"
    BY <1>2, <2>2, <2>4 DEF RegisterLogicalCarrier
  <2>7. \A d \in Carriers : carrier'[d].atoms = {}
    BY <1>2, <2>5 DEF RegisterLogicalCarrier, AtomsExclusive
  <2>8. claimedAtoms' = UNION {carrier'[d].atoms : d \in Carriers}
    BY <1>2, <2>5 DEF RegisterLogicalCarrier, AtomsExclusive
  <2> QED BY <2>6, <2>7, <2>8 DEF AtomsExclusive
<1> QED BY <1>1, <1>2 DEF RegistrationStep

\* Exclusive atoms stay exclusive in every step.
LEMMA ExclusiveStep ==
  ASSUME LedgerInv, AtomsExclusive, [Next]_vars PROVE AtomsExclusive'
<1>1. CASE RegistrationStep
  BY <1>1, RegistrationKeepsExclusive DEF LedgerInv
<1>2. ASSUME SameAtoms PROVE AtomsExclusive'
  BY <1>2 DEF SameAtoms, AtomsExclusive
<1>3. CASE CarrierStep \/ TokenStep
  BY <1>3, <1>2, CarrierKeepsAtoms, TokenKeepsAtoms DEF LedgerInv
<1>4. CASE UNCHANGED vars
  BY <1>4 DEF vars, AtomsExclusive
<1> QED BY <1>1, <1>3, <1>4 DEF Next

\* Atoms belong to one carrier at most, and the set the overlap test of
\* register_carrier reads is exact, for any number of carriers and atoms.
THEOREM ExclusiveAtoms == Spec => []AtomsExclusive
<1>1. ASSUME Init PROVE AtomsExclusive
  <2>1. \A c \in Carriers :
          carrier[c].atoms = {} /\ carrier[c].representation = "unregistered"
    <3>1. \A c \in Carriers : carrier[c] = FreshCarrier("unregistered", {})
      BY <1>1, Zenon DEF Init
    <3>2. /\ FreshCarrier("unregistered", {}).atoms = {}
          /\ FreshCarrier("unregistered", {}).representation = "unregistered"
      BY DEF FreshCarrier
    <3> QED BY <3>1, <3>2, Zenon
  <2>2. claimedAtoms = {}
    BY <1>1 DEF Init
  <2>4. claimedAtoms = UNION {carrier[c].atoms : c \in Carriers}
    <3>1. UNION {carrier[c].atoms : c \in Carriers} \subseteq {}
      BY <2>1
    <3> QED BY <3>1, <2>2
  <2>5. \A c, d \in Carriers : c # d => carrier[c].atoms \cap carrier[d].atoms = {}
    BY <2>1
  <2> QED BY <2>1, <2>4, <2>5 DEF AtomsExclusive
<1>2. LedgerInv /\ AtomsExclusive /\ [Next]_vars => AtomsExclusive'
  BY ExclusiveStep
<1>3. Spec => []LedgerInv
  BY LedgerInvariant
<1> QED BY <1>1, <1>2, <1>3, PTL DEF Spec

-----------------------------------------------------------------------------
(* The buffer.                                                               *)

\* The carrier's clock is not ahead of both the token's readiness and the
\* carrier's safe exit.
ClockCovered(t) ==
  LET c == token[t].on IN
  carrier[c].last =< token[t].ready \/ carrier[c].last =< carrier[c].safeExit

\* What the ledger and the buffer's books say about a token.
TokenInv(t) ==
  LET c == token[t].on IN
  /\ token[t].status # "absent" =>
       token[t].label = "canonical" /\ token[t].epoch =< carrier[c].epoch
  /\ token[t].status = "offered" => ClockCovered(t)
  /\ t \in shelf \/ claims[t] # NoOwner => t \in shelf /\ t \in usedTokens
  /\ t \in usedTokens => token[t].status # "absent"
  /\ t \in usedTokens /\ Live(t) => t \in shelf
  /\ t \in shelf =>
       /\ token[t].status = "offered" => claims[t] = NoOwner /\ carrier[c].owner = slip[t].producer
       /\ token[t].status \in {"reserved", "consumed"} => token[t].consumer = claims[t]

BufferInv ==
  /\ LedgerInv
  /\ BufferTypeOK
  /\ IsFiniteSet(Pending) /\ IsFiniteSet(shelf)
  /\ \A t \in Tokens : TokenInv(t)

\* A new buffer's books agree with a ledger that knows no token.
LEMMA BufferInitInv == ASSUME BufferInit PROVE BufferInv
<1> USE LedgerAssumption DEF BufferInit
<1>1. TypeOK
  <2>1. AbsentToken \in TokenRecord
    BY DEF AbsentToken, TokenRecord, Statuses, Labels, Time
  <2>2. FreshCarrier("logical_estimate", {}) \in CarrierRecord
    BY DEF FreshCarrier, CarrierRecord, Representations, Phases, Time
  <2> QED BY <2>1, <2>2 DEF TypeOK, Time
<1>2. \A t \in Tokens : ~Live(t) /\ token[t].status = "absent"
  BY DEF Live, AbsentToken
<1>3. OneResourcePerCarrier
  BY <1>2 DEF OneResourcePerCarrier
<1>4. PhaseTellsCustody
  BY <1>2 DEF PhaseTellsCustody, Residents, FreshCarrier
<1>5. ExitCoversMotion
  BY <1>2 DEF ExitCoversMotion, FreshCarrier
<1>6. UnregisteredUntouched
  BY DEF UnregisteredUntouched, Registered, FreshCarrier
<1>7. BufferTypeOK
  BY <1>1, ZeroIsATime DEF BufferTypeOK, BlankSlip
<1>8. Pending = {} /\ shelf = {}
  BY DEF Pending
<1>9. \A t \in Tokens : TokenInv(t)
  BY <1>2 DEF TokenInv
<1> QED BY <1>1, <1>3, <1>4, <1>5, <1>6, <1>7, <1>8, <1>9, FS_EmptySet DEF BufferInv, LedgerInv

-----------------------------------------------------------------------------
(* Steps of the ledger.                                                      *)

\* Nothing that matters to the token changes: only the epoch of a carrier on
\* which it can no longer be used may grow.
Undisturbed(t) ==
  LET c == token[t].on IN
  /\ token'[t] = token[t]
  /\ carrier[c].epoch =< carrier'[c].epoch
  /\ Live(t) => /\ carrier'[c].owner = carrier[c].owner
                /\ ClockCovered(t) => ClockCovered(t)'

\* Epochs are numbers.
LEMMA EpochTypes ==
  ASSUME TypeOK
  PROVE  \A c \in Carriers : carrier[c].epoch \in Nat
BY LedgerAssumption DEF TypeOK, CarrierRecord

\* A step that leaves the ledger alone leaves every token undisturbed.
LEMMA VarsUndisturbed ==
  ASSUME LedgerInv, UNCHANGED vars
  PROVE  \A t \in Tokens : Undisturbed(t)
BY FieldTypes, EpochTypes DEF LedgerInv, vars, Undisturbed, ClockCovered

\* An operation of one carrier and its only usable token leaves the other
\* tokens alone.
LEMMA OthersUndisturbed ==
  ASSUME LedgerInv, NEW u \in Tokens, NEW c \in Carriers,
         \A t \in Tokens \ {u} : token'[t] = token[t],
         \A d \in Carriers \ {c} : carrier'[d] = carrier[d],
         carrier'[c].epoch = carrier[c].epoch,
         Residents(c) \subseteq {u}
  PROVE  \A t \in Tokens \ {u} : Undisturbed(t)
<1> SUFFICES ASSUME NEW t \in Tokens \ {u} PROVE Undisturbed(t)
  OBVIOUS
<1>1. token[t].on \in Carriers /\ carrier[token[t].on].epoch \in Nat /\ token'[t] = token[t]
  BY FieldTypes, EpochTypes DEF LedgerInv
<1>2. Live(t) => token[t].on # c
  BY DEF Residents
<1> QED BY <1>1, <1>2 DEF Undisturbed, ClockCovered

\* The operations of a carrier.
LEMMA CarrierUndisturbed ==
  ASSUME LedgerInv, CarrierStep
  PROVE  \A t \in Tokens : Undisturbed(t)
<1> SUFFICES ASSUME NEW t \in Tokens PROVE Undisturbed(t)
  OBVIOUS
<1> DEFINE on == token[t].on
<1>0. /\ TypeOK /\ OneResourcePerCarrier /\ PhaseTellsCustody
      /\ carrier \in [Carriers -> CarrierRecord]
      /\ on \in Carriers /\ carrier[on].epoch \in Nat
      /\ Time \subseteq Nat
  BY FieldTypes, EpochTypes DEF LedgerInv, TypeOK
<1>1. Live(t) => Active(on)
  BY <1>0, ActiveIsResident DEF Residents
<1>2. Live(t) => carrier[on].owner # NoOwner
  BY <1>0 DEF PhaseTellsCustody, Residents
<1>3. PICK c \in Carriers, owner \in Owners, at \in Time :
        \/ AcquireTransport(c, owner, at)
        \/ BeginPreparation(c, owner, at)
        \/ FinishPreparation(c, owner, at)
        \/ \E exit \in Time : RecordTransport(c, owner, at, exit)
        \/ \E exit \in Time : ExtendUse(c, owner, at, exit)
        \/ CompleteUse(c, owner, at)
  BY DEF CarrierStep
<1>4. token' = token /\ \A d \in Carriers \ {c} : carrier'[d] = carrier[d]
  BY <1>0, <1>3 DEF AcquireTransport, BeginPreparation, FinishPreparation, RecordTransport, ExtendUse,
                    CompleteUse
<1>5. CASE on # c
  BY <1>0, <1>4, <1>5 DEF Undisturbed, ClockCovered
<1>6. CASE on = c /\ ~Active(c)
  <2>1. carrier[c] \in CarrierRecord
    BY <1>0
  <2>2. carrier'[c].epoch \in {carrier[c].epoch, carrier[c].epoch + 1}
    <3>1. CASE BeginPreparation(c, owner, at)
      BY <1>0, <2>1, <3>1 DEF BeginPreparation, CarrierRecord
    <3>2. CASE AcquireTransport(c, owner, at)
      BY <1>0, <2>1, <3>2 DEF AcquireTransport, CarrierRecord
    <3>3. CASE FinishPreparation(c, owner, at)
      BY <1>0, <2>1, <3>3 DEF FinishPreparation, CarrierRecord
    <3>4. ASSUME NEW exit \in Time, RecordTransport(c, owner, at, exit)
          PROVE  carrier'[c].epoch = carrier[c].epoch
      BY <1>0, <2>1, <3>4 DEF RecordTransport, CarrierRecord
    <3>5. ASSUME NEW exit \in Time, ExtendUse(c, owner, at, exit)
          PROVE  carrier'[c].epoch = carrier[c].epoch
      BY <1>0, <2>1, <3>5 DEF ExtendUse, CarrierRecord
    <3>6. CASE CompleteUse(c, owner, at)
      BY <1>0, <2>1, <3>6 DEF CompleteUse, CarrierRecord
    <3> QED BY <1>3, <3>1, <3>2, <3>3, <3>4, <3>5, <3>6
  <2>3. carrier[c].epoch =< carrier'[c].epoch
    BY <1>0, <1>6, <2>2
  <2>4. ~Live(t)
    BY <1>1, <1>6
  <2> QED BY <1>4, <1>6, <2>3, <2>4 DEF Undisturbed
<1>7. CASE on = c /\ Active(c)
  <2>1. PICK exit \in Time : RecordTransport(c, owner, at, exit)
    BY <1>3, <1>7 DEF AcquireTransport, BeginPreparation, FinishPreparation, ExtendUse, CompleteUse
  <2>2. carrier'[c] = [carrier[c] EXCEPT !.last = at, !.safeExit = exit] /\ at < exit
        /\ at \in Nat /\ exit \in Nat
    BY <1>0, <2>1 DEF RecordTransport
  <2>3. carrier[c] \in CarrierRecord
    BY <1>0
  <2>4. /\ carrier'[c].epoch = carrier[c].epoch /\ carrier'[c].owner = carrier[c].owner
        /\ carrier'[c].last = at /\ carrier'[c].safeExit = exit
    BY <2>2, <2>3 DEF CarrierRecord
  <2>5. at =< exit
    BY <2>2
  <2> QED BY <1>0, <1>4, <1>7, <2>4, <2>5 DEF Undisturbed, ClockCovered
<1> QED BY <1>5, <1>6, <1>7

\* What offering a token does to it; the others are left alone.
LEMMA OfferEffect ==
  ASSUME LedgerInv, NEW u \in Tokens, NEW c \in Carriers, NEW owner \in Owners, NEW at \in Time,
         Offer(u, c, owner, "canonical", at, at)
  PROVE  /\ \A t \in Tokens \ {u} : Undisturbed(t)
         /\ token[u].status = "absent"
         /\ token'[u].status = "offered" /\ token'[u].label = "canonical"
         /\ token'[u].epoch = carrier'[token'[u].on].epoch /\ token'[u].on \in Carriers
         /\ ClockCovered(u)'
<1>1. /\ carrier[c] \in CarrierRecord /\ carrier \in [Carriers -> CarrierRecord]
      /\ token \in [Tokens -> TokenRecord]
      /\ OneResourcePerCarrier
  BY DEF LedgerInv, TypeOK
<1>2. /\ token' = [token EXCEPT ![u] =
           [status |-> "offered", on |-> c, epoch |-> carrier[c].epoch,
            label |-> "canonical", ready |-> at, exit |-> at,
            consumer |-> NoOwner, consumedAt |-> 0]]
      /\ carrier' = [carrier EXCEPT ![c] = [@ EXCEPT !.phase = "resource", !.safeExit = at]]
      /\ token[u].status = "absent" /\ ~Active(c) /\ at >= carrier[c].last
  BY DEF Offer
<1>3. /\ carrier'[c].epoch = carrier[c].epoch /\ carrier'[c].last = carrier[c].last
      /\ \A d \in Carriers \ {c} : carrier'[d] = carrier[d]
      /\ \A t \in Tokens \ {u} : token'[t] = token[t]
  BY <1>1, <1>2 DEF CarrierRecord
<1>4. token'[u] = [status |-> "offered", on |-> c, epoch |-> carrier[c].epoch,
                   label |-> "canonical", ready |-> at, exit |-> at,
                   consumer |-> NoOwner, consumedAt |-> 0]
  BY <1>1, <1>2
<1>5. Residents(c) \subseteq {u}
  BY <1>1, <1>2, ActiveIsResident
<1>6. \A t \in Tokens \ {u} : Undisturbed(t)
  BY <1>3, <1>5, OthersUndisturbed
<1>7. carrier[c].last =< at
  BY <1>1, <1>2, FieldTypes DEF LedgerInv
<1>8. ClockCovered(u)'
  BY <1>3, <1>4, <1>7 DEF ClockCovered
<1> QED BY <1>2, <1>3, <1>4, <1>6, <1>8

\* What becomes of a token that is reserved, consumed or discarded.
Handled(u, outcome) ==
  /\ Live(u) /\ token'[u].status = outcome
  /\ token'[u].on = token[u].on /\ token'[u].label = token[u].label
  /\ token'[u].epoch = token[u].epoch
  /\ carrier'[token[u].on].epoch = carrier[token[u].on].epoch

\* A reservation moves its token to its consumer and leaves the others alone.
LEMMA ReserveEffect ==
  ASSUME LedgerInv, NEW u \in Tokens, NEW consumer \in Owners, NEW at \in Time,
         Reserve(u, consumer, at, "canonical")
  PROVE  /\ \A t \in Tokens \ {u} : Undisturbed(t)
         /\ Handled(u, "reserved") /\ token'[u].consumer = consumer
<1> DEFINE c == token[u].on
<1>1. /\ carrier[c] \in CarrierRecord /\ carrier \in [Carriers -> CarrierRecord]
      /\ token \in [Tokens -> TokenRecord] /\ token[u] \in TokenRecord /\ c \in Carriers
      /\ OneResourcePerCarrier
  BY FieldTypes DEF LedgerInv, TypeOK
<1>2. /\ token' = [token EXCEPT ![u] = [@ EXCEPT !.status = "reserved", !.consumer = consumer]]
      /\ carrier' = [carrier EXCEPT ![c] = [@ EXCEPT !.owner = consumer, !.last = at]]
      /\ Live(u)
  BY DEF Reserve, MayReserve, Live
<1>3. /\ carrier'[c].epoch = carrier[c].epoch
      /\ \A d \in Carriers \ {c} : carrier'[d] = carrier[d]
      /\ \A t \in Tokens \ {u} : token'[t] = token[t]
  BY <1>1, <1>2 DEF CarrierRecord
<1>4. /\ token'[u].status = "reserved" /\ token'[u].consumer = consumer
      /\ token'[u].on = c /\ token'[u].label = token[u].label /\ token'[u].epoch = token[u].epoch
  BY <1>1, <1>2 DEF TokenRecord
<1>5. Residents(c) \subseteq {u}
  BY <1>1, <1>2 DEF OneResourcePerCarrier
<1>6. \A t \in Tokens \ {u} : Undisturbed(t)
  BY <1>1, <1>3, <1>5, OthersUndisturbed
<1> QED BY <1>2, <1>3, <1>4, <1>6 DEF Handled

\* A consumption ends its token and leaves the others alone.
LEMMA ConsumeEffect ==
  ASSUME LedgerInv, NEW u \in Tokens, NEW consumer \in Owners, NEW at \in Time, NEW exit \in Time,
         Consume(u, consumer, at, exit)
  PROVE  /\ \A t \in Tokens \ {u} : Undisturbed(t)
         /\ Handled(u, "consumed") /\ token[u].status = "reserved"
         /\ token'[u].consumer = token[u].consumer
<1> DEFINE c == token[u].on
<1>1. /\ carrier[c] \in CarrierRecord /\ carrier \in [Carriers -> CarrierRecord]
      /\ token \in [Tokens -> TokenRecord] /\ token[u] \in TokenRecord /\ c \in Carriers
      /\ OneResourcePerCarrier
  BY FieldTypes DEF LedgerInv, TypeOK
<1>2. /\ token' = [token EXCEPT ![u] = [@ EXCEPT !.status = "consumed", !.consumedAt = at]]
      /\ carrier' = [carrier EXCEPT ![c] =
           [@ EXCEPT !.phase = "work", !.last = at, !.safeExit = exit]]
      /\ Live(u) /\ token[u].status = "reserved"
  BY DEF Consume, Live
<1>3. /\ carrier'[c].epoch = carrier[c].epoch
      /\ \A d \in Carriers \ {c} : carrier'[d] = carrier[d]
      /\ \A t \in Tokens \ {u} : token'[t] = token[t]
  BY <1>1, <1>2 DEF CarrierRecord
<1>4. /\ token'[u].status = "consumed" /\ token'[u].consumer = token[u].consumer
      /\ token'[u].on = c /\ token'[u].label = token[u].label /\ token'[u].epoch = token[u].epoch
  BY <1>1, <1>2 DEF TokenRecord
<1>5. Residents(c) \subseteq {u}
  BY <1>1, <1>2 DEF OneResourcePerCarrier
<1>6. \A t \in Tokens \ {u} : Undisturbed(t)
  BY <1>1, <1>3, <1>5, OthersUndisturbed
<1> QED BY <1>2, <1>3, <1>4, <1>6 DEF Handled

\* A discard ends its token and leaves the others alone.
LEMMA DiscardEffect ==
  ASSUME LedgerInv, NEW u \in Tokens, NEW owner \in Owners, NEW at \in Time, NEW exit \in Time,
         Discard(u, owner, at, exit)
  PROVE  /\ \A t \in Tokens \ {u} : Undisturbed(t)
         /\ Handled(u, "discarded")
<1> DEFINE c == token[u].on
<1>1. /\ carrier[c] \in CarrierRecord /\ carrier \in [Carriers -> CarrierRecord]
      /\ token \in [Tokens -> TokenRecord] /\ token[u] \in TokenRecord /\ c \in Carriers
      /\ OneResourcePerCarrier
  BY FieldTypes DEF LedgerInv, TypeOK
<1>2. /\ token' = [token EXCEPT ![u].status = "discarded"]
      /\ carrier' = [carrier EXCEPT ![c] =
           [@ EXCEPT !.phase = "work", !.last = at, !.safeExit = exit]]
      /\ Live(u)
  BY DEF Discard
<1>3. /\ carrier'[c].epoch = carrier[c].epoch
      /\ \A d \in Carriers \ {c} : carrier'[d] = carrier[d]
      /\ \A t \in Tokens \ {u} : token'[t] = token[t]
  BY <1>1, <1>2 DEF CarrierRecord
<1>4. /\ token'[u].status = "discarded"
      /\ token'[u].on = c /\ token'[u].label = token[u].label /\ token'[u].epoch = token[u].epoch
  BY <1>1, <1>2 DEF TokenRecord
<1>5. Residents(c) \subseteq {u}
  BY <1>1, <1>2 DEF OneResourcePerCarrier
<1>6. \A t \in Tokens \ {u} : Undisturbed(t)
  BY <1>1, <1>3, <1>5, OthersUndisturbed
<1> QED BY <1>2, <1>3, <1>4, <1>6 DEF Handled

-----------------------------------------------------------------------------
(* Steps of the buffer.                                                      *)

\* The buffer's books on the token stand.
Unbooked(t) ==
  /\ t \in shelf' <=> t \in shelf
  /\ t \in usedTokens' <=> t \in usedTokens
  /\ claims'[t] = claims[t] /\ slip'[t] = slip[t]

\* What is true of a token stays true when neither the ledger nor the buffer
\* touches it.
LEMMA UndisturbedKeeps ==
  ASSUME LedgerInv, LedgerInv', NEW t \in Tokens, TokenInv(t), Undisturbed(t), Unbooked(t)
  PROVE  TokenInv(t)'
<1>1. /\ token'[t] = token[t] /\ (Live(t)' <=> Live(t))
      /\ token[t].status = "offered" => Live(t)
  BY DEF Undisturbed, Live
<1>2. token[t].status # "absent" => token[t].epoch =< carrier'[token[t].on].epoch
  <2>1. /\ token[t].epoch =< carrier[token[t].on].epoch \/ token[t].status = "absent"
        /\ carrier[token[t].on].epoch =< carrier'[token[t].on].epoch
    BY DEF TokenInv, Undisturbed
  <2>2. token[t] \in TokenRecord /\ token[t].on \in Carriers
    BY FieldTypes DEF LedgerInv
  <2>3. /\ token[t].epoch \in Nat
        /\ carrier[token[t].on].epoch \in Nat /\ carrier'[token[t].on].epoch \in Nat
    BY <2>2, LedgerAssumption DEF LedgerInv, TypeOK, TokenRecord, CarrierRecord
  <2> QED BY <2>1, <2>3
<1>3. token[t].status = "offered" => ClockCovered(t)' /\ carrier'[token[t].on].owner = carrier[token[t].on].owner
  BY <1>1 DEF TokenInv, Undisturbed
<1> QED BY <1>1, <1>2, <1>3 DEF TokenInv, Unbooked

\* A token whose fate changes once it was offered.
LEMMA HandledKeeps ==
  ASSUME LedgerInv, NEW u \in Tokens, TokenInv(u),
         NEW outcome \in {"reserved", "consumed", "discarded"}, Handled(u, outcome),
         shelf' = shelf, usedTokens' = usedTokens, slip' = slip,
         claims'[u] # NoOwner => u \in shelf,
         u \in shelf /\ outcome # "discarded" => token'[u].consumer = claims'[u]
  PROVE  TokenInv(u)'
<1>1. /\ token'[u].status = outcome
      /\ token'[u].label = token[u].label /\ token[u].label = "canonical"
      /\ token'[u].epoch =< carrier'[token'[u].on].epoch
  BY DEF Handled, TokenInv, Live
<1>2. u \in usedTokens => u \in shelf
  BY DEF Handled, TokenInv
<1>3. u \in shelf => u \in usedTokens
  BY DEF TokenInv
<1> QED BY <1>1, <1>2, <1>3 DEF TokenInv

\* The calls of the ledger, and the buffer's own books.
LEMMA LedgerStepKeeps ==
  ASSUME BufferInv, LedgerInv', LedgerStep
  PROVE  \A t \in Tokens : TokenInv(t)'
<1>1. LedgerInv /\ (\A t \in Tokens : TokenInv(t)) /\ (\A t \in Tokens : Unbooked(t))
  BY DEF BufferInv, LedgerStep, buffer, Unbooked
<1>2. /\ shelf' = shelf /\ usedTokens' = usedTokens /\ slip' = slip /\ claims' = claims
  BY DEF LedgerStep, buffer
<1>3. ASSUME NEW u \in Tokens, \A t \in Tokens \ {u} : Undisturbed(t), TokenInv(u)'
      PROVE  \A t \in Tokens : TokenInv(t)'
  BY <1>1, <1>3, UndisturbedKeeps
<1>4. CASE CarrierStep
  BY <1>1, <1>4, CarrierUndisturbed, UndisturbedKeeps
<1>5. ASSUME NEW u \in Tokens, NEW owner \in Owners, NEW at \in Time, NEW c \in Carriers,
             Offer(u, c, owner, "canonical", at, at)
      PROVE  \A t \in Tokens : TokenInv(t)'
  <2>1. /\ \A t \in Tokens \ {u} : Undisturbed(t)
        /\ token[u].status = "absent"
        /\ token'[u].status = "offered" /\ token'[u].label = "canonical"
        /\ token'[u].epoch = carrier'[token'[u].on].epoch /\ token'[u].on \in Carriers
        /\ ClockCovered(u)'
    BY <1>1, <1>5, OfferEffect
  <2>2. u \notin usedTokens /\ u \notin shelf /\ claims[u] = NoOwner
    BY <1>1, <2>1 DEF TokenInv
  <2>3. token'[u].epoch =< carrier'[token'[u].on].epoch
    <3>1. carrier'[token'[u].on].epoch \in Nat
      BY <2>1, LedgerAssumption DEF LedgerInv, TypeOK, CarrierRecord
    <3> QED BY <2>1, <3>1
  <2>4. TokenInv(u)'
    BY <1>2, <2>1, <2>2, <2>3 DEF TokenInv
  <2> QED BY <1>3, <2>1, <2>4
<1>6. ASSUME NEW u \in Tokens, NEW owner \in Owners, NEW at \in Time,
             u \notin shelf, Reserve(u, owner, at, "canonical")
      PROVE  \A t \in Tokens : TokenInv(t)'
  <2>1. /\ \A t \in Tokens \ {u} : Undisturbed(t)
        /\ Handled(u, "reserved")
    BY <1>1, <1>6, ReserveEffect
  <2>2. claims'[u] = NoOwner
    BY <1>1, <1>2, <1>6 DEF TokenInv
  <2>3. TokenInv(u)'
    BY <1>1, <1>2, <1>6, <2>1, <2>2, HandledKeeps
  <2> QED BY <1>3, <2>1, <2>3
<1>7. ASSUME NEW u \in Tokens, NEW owner \in Owners, NEW at \in Time, NEW exit \in Time,
             Consume(u, owner, at, exit)
      PROVE  \A t \in Tokens : TokenInv(t)'
  <2>1. /\ \A t \in Tokens \ {u} : Undisturbed(t)
        /\ Handled(u, "consumed") /\ token[u].status = "reserved"
        /\ token'[u].consumer = token[u].consumer
    BY <1>1, <1>7, ConsumeEffect
  <2>2. /\ claims'[u] # NoOwner => u \in shelf
        /\ u \in shelf => token'[u].consumer = claims'[u]
    BY <1>1, <1>2, <2>1 DEF TokenInv
  <2>3. TokenInv(u)'
    BY <1>1, <1>2, <2>1, <2>2, HandledKeeps
  <2> QED BY <1>3, <2>1, <2>3
<1>8. ASSUME NEW u \in Tokens, NEW owner \in Owners, NEW at \in Time, NEW exit \in Time,
             Discard(u, owner, at, exit)
      PROVE  \A t \in Tokens : TokenInv(t)'
  <2>1. /\ \A t \in Tokens \ {u} : Undisturbed(t)
        /\ Handled(u, "discarded")
    BY <1>1, <1>8, DiscardEffect
  <2>2. claims'[u] # NoOwner => u \in shelf
    BY <1>1, <1>2 DEF TokenInv
  <2>3. TokenInv(u)'
    BY <1>1, <1>2, <2>1, <2>2, HandledKeeps
  <2> QED BY <1>3, <2>1, <2>3
<1> QED BY <1>4, <1>5, <1>6, <1>7, <1>8 DEF LedgerStep

\* The buffer writes to the ledger only through the ledger's own operations.
LEMMA CallsLedger ==
  ASSUME BufferNext
  PROVE  Next \/ UNCHANGED vars
<1>1. CASE LedgerStep
  <2>1. CASE CarrierStep
    BY <2>1 DEF Next
  <2>2. ASSUME NEW t \in Tokens, NEW owner \in Owners, NEW at \in Time,
               \/ \E c \in Carriers : Offer(t, c, owner, "canonical", at, at)
               \/ Reserve(t, owner, at, "canonical")
               \/ \E exit \in Time : Consume(t, owner, at, exit)
               \/ \E exit \in Time : Discard(t, owner, at, exit)
        PROVE  TokenStep
    <3>1. "canonical" \in Labels
      BY DEF Labels
    <3> QED BY <2>2, <3>1 DEF TokenStep
  <2> QED BY <1>1, <2>1, <2>2 DEF LedgerStep, Next
<1>2. ASSUME NEW t \in Tokens, NEW owner \in Owners, NEW at \in Time,
             \/ Claim(t, owner, at)
             \/ \E exit \in Time : ConsumeEntry(t, owner, at, exit)
             \/ \E exit \in Time : AbortToken(t, owner, at, exit)
      PROVE  TokenStep
  BY <1>2 DEF Claim, ConsumeEntry, AbortToken, TokenStep
<1>3. ASSUME NEW s \in Slots,
             \/ \E owner \in Owners : ReserveCapacity(s, owner)
             \/ \E t \in Tokens, at \in Time : Publish(s, t, at)
             \/ AbortReservation(s)
      PROVE  UNCHANGED vars
  BY <1>3 DEF ReserveCapacity, Publish, AbortReservation
<1>4. ASSUME NEW t \in Tokens, NEW at \in Time, Remove(t, at)
      PROVE  UNCHANGED vars
  BY <1>4 DEF Remove
<1>5. CASE Close
  BY <1>5 DEF Close
<1> QED BY <1>1, <1>2, <1>3, <1>4, <1>5 DEF BufferNext, BufferStep, Next

\* The slots and the shelf stay finite, and the books well typed.
BooksOK ==
  /\ pending \in [Slots -> Owners \cup {NoOwner}]
  /\ usedSlots \in SUBSET Slots
  /\ shelf \in SUBSET Tokens
  /\ slip \in [Tokens -> [producer : Owners \cup {NoOwner}, queuedAt : Time]]
  /\ claims \in [Tokens -> Owners \cup {NoOwner}]
  /\ usedTokens \in SUBSET Tokens
  /\ closed \in BOOLEAN
  /\ IsFiniteSet(Pending) /\ IsFiniteSet(shelf)

\* A step that leaves the buffer alone leaves its books in order.
LEMMA BooksSame ==
  ASSUME BooksOK, UNCHANGED buffer
  PROVE  BooksOK'
BY DEF BooksOK, buffer, Pending

\* The buffer's calls keep its books and what they say of every token.
LEMMA BufferStepKeeps ==
  ASSUME BufferInv, LedgerInv', BooksOK, BufferStep
  PROVE  BooksOK' /\ \A t \in Tokens : TokenInv(t)'
<1>1. LedgerInv /\ (\A t \in Tokens : TokenInv(t)) /\ NoOwner \notin Owners
  BY LedgerAssumption DEF BufferInv
<1>2. ASSUME NEW u \in Tokens, \A t \in Tokens \ {u} : Undisturbed(t) /\ Unbooked(t), TokenInv(u)'
      PROVE  \A t \in Tokens : TokenInv(t)'
  BY <1>1, <1>2, UndisturbedKeeps
<1>3. ASSUME UNCHANGED vars, \A t \in Tokens : Unbooked(t)
      PROVE  \A t \in Tokens : TokenInv(t)'
  BY <1>1, <1>3, VarsUndisturbed, UndisturbedKeeps
<1>4. ASSUME NEW s \in Slots, NEW owner \in Owners, ReserveCapacity(s, owner)
      PROVE  BooksOK' /\ \A t \in Tokens : TokenInv(t)'
  <2>1. /\ pending' = [pending EXCEPT ![s] = owner] /\ usedSlots' = usedSlots \cup {s}
        /\ UNCHANGED <<vars, shelf, slip, claims, usedTokens, closed>>
    BY <1>4 DEF ReserveCapacity
  <2>2. Pending' = Pending \cup {s}
    BY <1>1, <2>1 DEF Pending, BooksOK
  <2>3. IsFiniteSet(Pending')
    BY <2>2, FS_AddElement DEF BooksOK
  <2>4. \A t \in Tokens : Unbooked(t)
    BY <2>1 DEF Unbooked
  <2> QED BY <1>3, <2>1, <2>3, <2>4 DEF BooksOK
<1>5. ASSUME NEW s \in Slots, AbortReservation(s)
      PROVE  BooksOK' /\ \A t \in Tokens : TokenInv(t)'
  <2>1. /\ pending' = [pending EXCEPT ![s] = NoOwner]
        /\ UNCHANGED <<vars, usedSlots, shelf, slip, claims, usedTokens, closed>>
    BY <1>5 DEF AbortReservation
  <2>2. Pending' \subseteq Pending
    BY <2>1 DEF Pending, BooksOK
  <2>3. IsFiniteSet(Pending')
    BY <2>2, FS_Subset DEF BooksOK
  <2>4. \A t \in Tokens : Unbooked(t)
    BY <2>1 DEF Unbooked
  <2> QED BY <1>3, <2>1, <2>3, <2>4 DEF BooksOK
<1>6. CASE Close
  <2>1. closed' = TRUE /\ UNCHANGED <<vars, pending, usedSlots, shelf, slip, claims, usedTokens>>
    BY <1>6 DEF Close
  <2>2. \A t \in Tokens : Unbooked(t)
    BY <2>1 DEF Unbooked
  <2>3. Pending' = Pending
    BY <2>1 DEF Pending
  <2> QED BY <1>3, <2>1, <2>2, <2>3 DEF BooksOK
<1>7. ASSUME NEW s \in Slots, NEW u \in Tokens, NEW at \in Time, Publish(s, u, at)
      PROVE  BooksOK' /\ \A t \in Tokens : TokenInv(t)'
  <2>1. /\ pending' = [pending EXCEPT ![s] = NoOwner] /\ shelf' = shelf \cup {u}
        /\ slip' = [slip EXCEPT ![u] = [producer |-> pending[s], queuedAt |-> at]]
        /\ usedTokens' = usedTokens \cup {u}
        /\ UNCHANGED <<vars, usedSlots, claims, closed>>
        /\ u \notin usedTokens /\ token[u].status = "offered"
        /\ carrier[token[u].on].owner = pending[s]
    BY <1>7 DEF Publish
  <2>2. \A t \in Tokens \ {u} : Unbooked(t)
    BY <2>1 DEF Unbooked, BooksOK
  <2>3. \A t \in Tokens : Undisturbed(t)
    BY <1>1, <2>1, VarsUndisturbed
  <2>4. claims[u] = NoOwner
    BY <1>1, <2>1 DEF TokenInv
  <2>5. token' = token /\ carrier' = carrier
    BY <2>1 DEF vars
  <2>6. slip'[u].producer = pending[s]
    BY <2>1 DEF BooksOK
  <2>7. TokenInv(u)'
    BY <1>1, <2>1, <2>4, <2>5, <2>6 DEF TokenInv, ClockCovered, Live
  <2>8. Pending' \subseteq Pending /\ IsFiniteSet(Pending')
    <3>1. Pending' \subseteq Pending
      BY <2>1 DEF Pending, BooksOK
    <3> QED BY <3>1, FS_Subset DEF BooksOK
  <2>9. IsFiniteSet(shelf')
    BY <2>1, FS_AddElement DEF BooksOK
  <2>10. BooksOK'
    BY <2>1, <2>8, <2>9 DEF BooksOK
  <2> QED BY <1>2, <2>2, <2>3, <2>7, <2>10
<1>8. ASSUME NEW u \in Tokens, NEW at \in Time, Remove(u, at)
      PROVE  BooksOK' /\ \A t \in Tokens : TokenInv(t)'
  <2>1. /\ shelf' = shelf \ {u} /\ claims' = [claims EXCEPT ![u] = NoOwner]
        /\ UNCHANGED <<vars, pending, usedSlots, slip, usedTokens, closed>>
        /\ token[u].status \in {"consumed", "discarded"}
    BY <1>8 DEF Remove, TakeOff
  <2>2. \A t \in Tokens \ {u} : Unbooked(t)
    BY <2>1 DEF Unbooked, BooksOK
  <2>3. \A t \in Tokens : Undisturbed(t)
    BY <1>1, <2>1, VarsUndisturbed
  <2>4. token' = token /\ carrier' = carrier /\ claims'[u] = NoOwner
    BY <2>1 DEF vars, BooksOK
  <2>5. TokenInv(u)'
    BY <1>1, <2>1, <2>4 DEF TokenInv, ClockCovered, Live
  <2>6. IsFiniteSet(shelf') /\ Pending' = Pending
    BY <2>1, FS_RemoveElement DEF BooksOK, Pending
  <2>7. BooksOK'
    BY <2>1, <2>6 DEF BooksOK
  <2> QED BY <1>2, <2>2, <2>3, <2>5, <2>7
<1>9. ASSUME NEW u \in Tokens, NEW consumer \in Owners, NEW at \in Time, Claim(u, consumer, at)
      PROVE  BooksOK' /\ \A t \in Tokens : TokenInv(t)'
  <2>1. /\ claims' = [claims EXCEPT ![u] = consumer]
        /\ UNCHANGED <<pending, usedSlots, shelf, slip, usedTokens, closed>>
        /\ u \in shelf /\ Reserve(u, consumer, at, "canonical")
    BY <1>9 DEF Claim, MayClaim, CurrentEntry
  <2>2. /\ \A t \in Tokens \ {u} : Undisturbed(t)
        /\ Handled(u, "reserved") /\ token'[u].consumer = consumer
    BY <1>1, <2>1, ReserveEffect
  <2>3. \A t \in Tokens \ {u} : Unbooked(t)
    BY <2>1 DEF Unbooked, BooksOK
  <2>4. TokenInv(u)'
    <3>1. claims'[u] = consumer
      BY <2>1 DEF BooksOK
    <3> QED BY <1>1, <2>1, <2>2, <3>1, HandledKeeps
  <2>5. BooksOK'
    BY <2>1 DEF BooksOK, Pending
  <2> QED BY <1>2, <2>2, <2>3, <2>4, <2>5
<1>10. ASSUME NEW u \in Tokens, NEW consumer \in Owners, NEW at \in Time, NEW exit \in Time,
              ConsumeEntry(u, consumer, at, exit)
       PROVE  LedgerStep
  BY <1>10 DEF ConsumeEntry, LedgerStep
<1>11. ASSUME NEW u \in Tokens, NEW owner \in Owners, NEW at \in Time, NEW exit \in Time,
              AbortToken(u, owner, at, exit)
       PROVE  LedgerStep
  BY <1>11 DEF AbortToken, LedgerStep
<1>12. ASSUME LedgerStep PROVE BooksOK' /\ \A t \in Tokens : TokenInv(t)'
  BY <1>12, LedgerStepKeeps, BooksSame DEF LedgerStep
<1> QED BY <1>4, <1>5, <1>6, <1>7, <1>8, <1>9, <1>10, <1>11, <1>12 DEF BufferStep

-----------------------------------------------------------------------------
(* The theorems.                                                             *)

LEMMA BufferStepInv ==
  ASSUME BufferInv, [BufferNext]_<<vars, buffer>>
  PROVE  BufferInv'
<1>1. LedgerInv'
  <2>1. Next \/ UNCHANGED vars
    BY CallsLedger
  <2> QED BY <2>1, InvStep, InvStutter DEF BufferInv
<1>2. BooksOK
  BY DEF BufferInv, BufferTypeOK, BooksOK
<1>3. BooksOK' /\ \A t \in Tokens : TokenInv(t)'
  <2>1. CASE BufferStep
    BY <1>1, <1>2, <2>1, BufferStepKeeps
  <2>2. CASE LedgerStep
    BY <1>1, <1>2, <2>2, LedgerStepKeeps, BooksSame DEF LedgerStep
  <2>3. CASE UNCHANGED <<vars, buffer>>
    <3>1. \A t \in Tokens : Undisturbed(t) /\ Unbooked(t)
      BY <2>3, VarsUndisturbed DEF BufferInv, buffer, Unbooked
    <3> QED BY <1>1, <1>2, <2>3, <3>1, UndisturbedKeeps, BooksSame DEF BufferInv
  <2> QED BY <2>1, <2>2, <2>3 DEF BufferNext
<1> QED BY <1>1, <1>3 DEF BufferInv, BooksOK, BufferTypeOK, LedgerInv

\* The books of the buffer and of the ledger agree on every token, always.
THEOREM BufferInvariant == BufferSpec => []BufferInv
BY BufferInitInv, BufferStepInv, PTL DEF BufferSpec

\* Beside the buffer too, the ledger's records never contradict each other.
THEOREM LedgerAgreesBeside == BufferSpec => []RecordsAgree
<1>1. BufferInv => RecordsAgree
  BY DEF BufferInv, LedgerInv, RecordsAgree
<1> QED BY <1>1, BufferInvariant, PTL

\* What is listed can be claimed: the ledger's test of the carrier's clock and
\* transport holds whenever the buffer's of the slip and the safe exit does.
LEMMA ListedIsClaimable ==
  ASSUME BufferInv, NEW at \in Time, NEW t \in Available(at)
  PROVE  MayClaim(t, at)
<1> DEFINE c == token[t].on
<1>1. /\ t \in Tokens /\ t \in shelf /\ Saleable(t, at) /\ token[t].status = "offered" /\ Live(t)
  BY DEF Available, Saleable, BufferInv, BufferTypeOK, Live
<1>2. /\ c \in Carriers /\ at \in Nat
      /\ carrier[c].last \in Nat /\ carrier[c].safeExit \in Nat
      /\ transportUntil[c] \in Nat /\ token[t].ready \in Nat
  BY <1>1, FieldTypes DEF BufferInv, LedgerInv
<1>3. token[t].epoch = carrier[c].epoch /\ TokenInv(t)
  BY <1>1 DEF BufferInv, LedgerInv, OneResourcePerCarrier
<1>4. at >= token[t].ready /\ at >= carrier[c].safeExit /\ at >= slip[t].queuedAt
  BY <1>1 DEF Saleable, Safe
<1>5. at >= carrier[c].last
  BY <1>1, <1>2, <1>3, <1>4 DEF TokenInv, ClockCovered
<1>6. at >= transportUntil[c]
  BY <1>2, <1>4 DEF BufferInv, LedgerInv, ExitCoversMotion
<1>7. token[t].label = "canonical" /\ carrier[c].owner = slip[t].producer
  BY <1>1, <1>3 DEF TokenInv
<1> QED BY <1>1, <1>3, <1>4, <1>5, <1>6, <1>7
        DEF MayClaim, MayReserve, CurrentEntry, Current, NotBefore, TransportComplete

\* An entry is current, or its used token's carrier was prepared again.
LEMMA StaleIsReused ==
  ASSUME BufferInv, NEW t \in shelf
  PROVE  \/ CurrentEntry(t)
         \/ /\ token[t].status \in {"consumed", "discarded"}
            /\ token[t].epoch < carrier[token[t].on].epoch
<1> DEFINE c == token[t].on
<1>1. /\ t \in Tokens /\ token[t] \in TokenRecord /\ c \in Carriers /\ TokenInv(t)
      /\ OneResourcePerCarrier /\ PhaseTellsCustody /\ TypeOK
  BY FieldTypes DEF BufferInv, BufferTypeOK, LedgerInv
<1>2. token[t].epoch \in Nat /\ carrier[c].epoch \in Nat
  BY <1>1, EpochTypes, LedgerAssumption DEF TokenRecord
<1>3. token[t].status \in {"offered", "reserved", "consumed", "discarded"}
      /\ token[t].epoch =< carrier[c].epoch
  BY <1>1 DEF TokenInv, TokenRecord, Statuses
<1>4. CASE token[t].status = "offered"
  <2>1. token[t].epoch = carrier[c].epoch
    BY <1>1, <1>4 DEF OneResourcePerCarrier, Live
  <2>2. carrier[c].owner = slip[t].producer
    BY <1>1, <1>4 DEF TokenInv
  <2> QED BY <1>4, <2>1, <2>2 DEF CurrentEntry
<1>5. CASE token[t].status = "reserved"
  <2>1. token[t].epoch = carrier[c].epoch
    BY <1>1, <1>5 DEF OneResourcePerCarrier, Live
  <2>2. token[t].consumer = claims[t] /\ carrier[c].owner = claims[t]
    BY <1>1, <1>5 DEF TokenInv, PhaseTellsCustody
  <2> QED BY <1>5, <2>1, <2>2 DEF CurrentEntry
<1>6. CASE token[t].status \in {"consumed", "discarded"}
  <2>1. token[t].status = "consumed" => token[t].consumer = claims[t]
    BY <1>1 DEF TokenInv
  <2>2. token[t].epoch = carrier[c].epoch \/ token[t].epoch < carrier[c].epoch
    BY <1>2, <1>3
  <2> QED BY <1>6, <2>1, <2>2 DEF CurrentEntry
<1> QED BY <1>3, <1>4, <1>5, <1>6

\* What the shelf says of a token is what the ledger will do with it: available()
\* lists what claim() grants, and only a used, unremoved token goes stale.
THEOREM ShelfTellsTrue == BufferSpec => []ShelfTrue
<1>1. BufferInv => ShelfTrue
  BY ListedIsClaimable, StaleIsReused DEF ShelfTrue, AvailableClaimable, StaleOnlyByReuse
<1> QED BY <1>1, BufferInvariant, PTL

\* A claim is never forgotten or passed on, and a usable token never loses its
\* slot: the buffer's books agree with the ledger's custody.
THEOREM BooksAlwaysAgree == BufferSpec => []BooksAgree
<1>1. ASSUME BufferInv PROVE BooksAgree
  <2>1. ASSUME NEW t \in Tokens
        PROVE  /\ claims[t] # NoOwner => t \in shelf /\ token[t].status # "offered"
               /\ t \in usedTokens /\ Live(t) =>
                    /\ t \in shelf
                    /\ token[t].status = "reserved" => carrier[token[t].on].owner = claims[t]
    BY <1>1 DEF BufferInv, TokenInv, LedgerInv, PhaseTellsCustody
  <2> QED BY <1>1, <2>1 DEF BufferInv, BooksAgree, ClaimsAreCustody
<1> QED BY <1>1, BufferInvariant, PTL

\* How each call changes the number of slots taken.
LEMMA OccupiedStep ==
  ASSUME BufferInv, [BufferNext]_<<vars, buffer>>
  PROVE  /\ Occupied \in Nat /\ Occupied' \in Nat
         /\ \/ Occupied' =< Occupied
            \/ ~closed /\ ~Full /\ Occupied' = Occupied + 1
         /\ closed => closed'
<1>1. /\ IsFiniteSet(Pending) /\ IsFiniteSet(shelf) /\ NoOwner \notin Owners
      /\ IsFiniteSet(Pending') /\ IsFiniteSet(shelf')
      /\ pending \in [Slots -> Owners \cup {NoOwner}]
      /\ \A t \in shelf : t \in usedTokens
  BY LedgerAssumption, BufferStepInv DEF BufferInv, BufferTypeOK, TokenInv
<1>2. /\ Cardinality(Pending) \in Nat /\ Cardinality(shelf) \in Nat
      /\ Cardinality(Pending') \in Nat /\ Cardinality(shelf') \in Nat
  BY <1>1, FS_CardinalityType
<1>3. Occupied = Cardinality(Pending) + Cardinality(shelf)
      /\ Occupied' = Cardinality(Pending') + Cardinality(shelf')
  BY DEF Occupied
<1>4. ASSUME pending' = pending, shelf' = shelf PROVE Occupied' = Occupied
  BY <1>4 DEF Occupied, Pending
<1>5. ASSUME NEW s \in Slots, NEW owner \in Owners, ReserveCapacity(s, owner)
      PROVE  ~closed /\ ~Full /\ closed' = closed /\ Occupied' =< Occupied + 1
  <2>1. Pending' = Pending \cup {s} /\ shelf' = shelf
    BY <1>1, <1>5 DEF ReserveCapacity, Pending
  <2>2. Cardinality(Pending') =< Cardinality(Pending) + 1
    BY <1>1, <1>2, <2>1, FS_AddElement
  <2> QED BY <1>2, <1>3, <1>5, <2>1, <2>2 DEF ReserveCapacity
<1>6. ASSUME NEW s \in Slots, NEW t \in Tokens, NEW at \in Time, Publish(s, t, at)
      PROVE  closed' = closed /\ Occupied' = Occupied
  <2>1. Pending' = Pending \ {s} /\ s \in Pending /\ shelf' = shelf \cup {t} /\ t \notin shelf
    BY <1>1, <1>6 DEF Publish, Pending
  <2>2. Cardinality(Pending') = Cardinality(Pending) - 1
    BY <1>1, <2>1, FS_RemoveElement
  <2>3. Cardinality(shelf') = Cardinality(shelf) + 1
    BY <1>1, <2>1, FS_AddElement
  <2> QED BY <1>2, <1>3, <1>6, <2>2, <2>3 DEF Publish
<1>7. ASSUME NEW s \in Slots, AbortReservation(s)
      PROVE  closed' = closed /\ Occupied' =< Occupied
  <2>1. Pending' \subseteq Pending /\ shelf' = shelf
    BY <1>1, <1>7 DEF AbortReservation, Pending
  <2>2. Cardinality(Pending') =< Cardinality(Pending)
    BY <1>1, <2>1, FS_Subset
  <2> QED BY <1>2, <1>3, <1>7, <2>1, <2>2 DEF AbortReservation
<1>8. ASSUME NEW t \in Tokens, NEW at \in Time, Remove(t, at)
      PROVE  closed' = closed /\ Occupied' =< Occupied
  <2>1. Pending' = Pending /\ shelf' \subseteq shelf
    BY <1>8 DEF Remove, TakeOff, Pending
  <2>2. Cardinality(shelf') =< Cardinality(shelf)
    BY <1>1, <2>1, FS_Subset
  <2> QED BY <1>2, <1>3, <1>8, <2>1, <2>2 DEF Remove
<1>9. ASSUME NEW t \in Tokens, NEW owner \in Owners, NEW at \in Time,
             \/ Claim(t, owner, at)
             \/ \E exit \in Time : ConsumeEntry(t, owner, at, exit)
             \/ \E exit \in Time : AbortToken(t, owner, at, exit)
      PROVE  closed' = closed /\ Occupied' = Occupied
  BY <1>4, <1>9 DEF Claim, ConsumeEntry, AbortToken, buffer
<1>10. ASSUME Close PROVE closed' /\ Occupied' = Occupied
  BY <1>4, <1>10 DEF Close
<1>11. ASSUME LedgerStep \/ UNCHANGED <<vars, buffer>>
       PROVE  closed' = closed /\ Occupied' = Occupied
  BY <1>4, <1>11 DEF LedgerStep, buffer
<1>12. Occupied \in Nat /\ Occupied' \in Nat
  BY <1>2, <1>3
<1> QED BY <1>5, <1>6, <1>7, <1>8, <1>9, <1>10, <1>11, <1>12 DEF BufferNext, BufferStep

\* A closed buffer only drains: no call, not even publishing what was reserved
\* before, takes another slot.
THEOREM ClosedOnlyDrains == BufferSpec => ClosedDrains
<1>1. BufferInv /\ [BufferNext]_<<vars, buffer>>
        => [closed => closed' /\ Occupied' =< Occupied]_<<vars, buffer>>
  BY OccupiedStep
<1> QED BY <1>1, BufferInvariant, PTL DEF BufferSpec, ClosedDrains

\* Reservations, tokens on offer, claimed, used and not yet removed together
\* never exceed the capacity, in whatever order the calls come.
THEOREM CapacityKept == BufferSpec => [](Occupied =< Capacity)
<1>1. BufferInit => Occupied =< Capacity
  <2> SUFFICES ASSUME BufferInit PROVE Occupied =< Capacity
    OBVIOUS
  <2>1. Pending = {} /\ shelf = {}
    BY DEF BufferInit, Pending
  <2> QED BY <2>1, FS_EmptySet, BufferAssumption DEF Occupied
<1>2. BufferInv /\ Occupied =< Capacity /\ [BufferNext]_<<vars, buffer>> => (Occupied =< Capacity)'
  BY OccupiedStep, BufferAssumption DEF Full
<1> QED BY <1>1, <1>2, BufferInvariant, PTL DEF BufferSpec

\* Buffer and ledger together still implement Custody.
THEOREM CustodyBeside == BufferSpec => ImplementsCustody
<1>1. BufferInit => Abstract!Init
  <2> SUFFICES ASSUME BufferInit PROVE Abstract!Init
    OBVIOUS
  <2>1. /\ \A c \in Carriers : carrier[c].owner = NoOwner
        /\ \A t \in Tokens : token[t].status = "absent"
    BY DEF BufferInit, FreshCarrier, AbsentToken
  <2>2. \A c \in Carriers : Residents(c) = {}
    BY <2>1 DEF Residents, Live
  <2>3. holder = [c \in Carriers |-> NoOwner]
    BY <2>1 DEF holder
  <2>4. resident = [c \in Carriers |-> {}]
    BY <2>2 DEF resident
  <2>5. fate = [t \in Tokens |-> "absent"]
    BY <2>1 DEF fate
  <2> QED BY <2>3, <2>4, <2>5 DEF Abstract!Init
<1>2. BufferInv /\ [BufferNext]_<<vars, buffer>> => [Abstract!Next]_(Abstract!custody)
  <2>1. ASSUME UNCHANGED vars PROVE UNCHANGED Abstract!custody
    BY <2>1 DEF vars, Abstract!custody, holder, resident, fate, Residents, Live
  <2>2. ASSUME BufferNext PROVE Next \/ UNCHANGED vars
    BY <2>2, CallsLedger
  <2> QED BY <2>1, <2>2, CustodyStep DEF BufferInv
<1> QED BY <1>1, <1>2, BufferInvariant, PTL DEF BufferSpec, ImplementsCustody, Abstract!Spec
===========================================================================
