---------------------- MODULE LatestValueDeliveryProofs ----------------------
(***************************************************************************)
(* The abstract specification keeps its promise: a key that is not owed is *)
(* up to date at the reader. With ImplementsDelivery of                    *)
(* StatusPublisherProofs this carries over to the publisher.               *)
(***************************************************************************)
EXTENDS LatestValueDelivery, TLAPS

\* Only a key with a recorded value is owed.
OwedIsRecorded == \A k \in Key : owed[k] => latest[k] \in Value

\* The promise is inductive once the variables have their types; that a
\* parcel holds a value needs OwedIsRecorded.
IInv == TypeOK /\ OwedIsRecorded /\ SettledIsCurrent

\* Nothing recorded, nothing carried, nothing owed: the promise holds.
LEMMA IInvInit == Init => IInv
  BY DEF Init, IInv, TypeOK, OwedIsRecorded, SettledIsCurrent

\* A parcel changes only what the reader has of an owed key, and a key is
\* settled only with empty hands.
LEMMA IInvStep == IInv /\ [Next]_vars => IInv'
<1> SUFFICES ASSUME IInv, [Next]_vars
             PROVE  IInv'
  OBVIOUS
<1> USE DEF IInv, TypeOK, OwedIsRecorded, SettledIsCurrent
<1>1. ASSUME NEW k \in Key, NEW v \in Value, Record(k, v)
      PROVE  IInv'
  BY <1>1 DEF Record
<1>2. ASSUME NEW k \in Key, PickUp(k)
      PROVE  IInv'
  <2>1. latest[k] \in Value
    BY <1>2 DEF PickUp
  <2>2. QED
    BY <1>2, <2>1 DEF PickUp, Parcel
<1>3. ASSUME NEW k \in Key, Settle(k)
      PROVE  IInv'
  BY <1>3 DEF Settle
<1>4. CASE HandOver
  <2>1. PICK p \in carried : seen' = [seen EXCEPT ![p.key] = p.val]
    BY <1>4 DEF HandOver
  <2>2. p \in Parcel
    BY <2>1
  <2>3. QED
    BY <1>4, <2>1, <2>2 DEF HandOver, Parcel
<1>5. CASE Lose
  BY <1>5 DEF Lose
<1>6. CASE UNCHANGED vars
  BY <1>6 DEF vars
<1>7. QED
  BY <1>1, <1>2, <1>3, <1>4, <1>5, <1>6 DEF Next

\* What an implementation of this specification gives its callers: the last
\* value recorded for a key that is not owed is the last one the reader got.
THEOREM Promise == Spec => []SettledIsCurrent
<1>1. IInv => SettledIsCurrent
  BY DEF IInv
<1>2. QED
  BY <1>1, IInvInit, IInvStep, PTL DEF Spec
=============================================================================
