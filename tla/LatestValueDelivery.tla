------------------------- MODULE LatestValueDelivery -------------------------
(***************************************************************************)
(* What the status publisher promises, without its mutex, its worker or    *)
(* its backoff.  Callers record values per key; a single courier carries   *)
(* one value at a time to a reader.  Two things make it a promise:         *)
(*   - the courier only ever picks up the value that is the latest at the  *)
(*     moment it picks it up, so what the reader sees of a key follows the *)
(*     order in which the values were recorded (it may skip or repeat      *)
(*     values, it never goes back to one older than what it saw);          *)
(*   - a key is owed until the reader holds the latest value of that key.  *)
(* An abstract specification: it models no lines of code itself,           *)
(* StatusPublisher is shown to implement it.                               *)
(***************************************************************************)

CONSTANTS Key,      \* the resources, (subject, resource id) pairs
          Value,    \* the (status, message) pairs
          NoValue   \* nothing recorded or seen

VARIABLES latest,   \* latest[k]: the last value recorded for k
          carried,  \* what the courier holds: at most one parcel
          seen,     \* seen[k]: the last value the reader got for k
          owed      \* owed[k]: the reader may still miss latest[k]

vars == <<latest, carried, seen, owed>>

Parcel == [key : Key, val : Value]

TypeOK ==
    /\ latest \in [Key -> Value \cup {NoValue}]
    /\ carried \in {{}} \cup {{p} : p \in Parcel}
    /\ seen \in [Key -> Value \cup {NoValue}]
    /\ owed \in [Key -> BOOLEAN]

Init ==
    /\ latest = [k \in Key |-> NoValue]
    /\ carried = {}
    /\ seen = [k \in Key |-> NoValue]
    /\ owed = [k \in Key |-> FALSE]

Record(k, v) ==
    /\ latest' = [latest EXCEPT ![k] = v]
    /\ owed' = [owed EXCEPT ![k] = TRUE]
    /\ UNCHANGED <<carried, seen>>

PickUp(k) ==
    /\ carried = {}
    /\ owed[k]
    /\ carried' = {[key |-> k, val |-> latest[k]]}
    /\ UNCHANGED <<latest, seen, owed>>

\* The parcel arrives; whether the courier learns that it did is not told.
HandOver ==
    /\ \E p \in carried : seen' = [seen EXCEPT ![p.key] = p.val]
    /\ carried' = {}
    /\ UNCHANGED <<latest, owed>>

Lose ==
    /\ carried # {}
    /\ carried' = {}
    /\ UNCHANGED <<latest, seen, owed>>

\* Only with empty hands: an older value still under way could overwrite
\* what the reader has.
Settle(k) ==
    /\ carried = {}
    /\ seen[k] = latest[k]
    /\ owed' = [owed EXCEPT ![k] = FALSE]
    /\ UNCHANGED <<latest, carried, seen>>

Next ==
    \/ \E k \in Key, v \in Value : Record(k, v)
    \/ \E k \in Key : PickUp(k) \/ Settle(k)
    \/ HandOver
    \/ Lose

Spec == Init /\ [][Next]_vars

\* The promise as a state predicate: a key that is not owed is up to date,
\* and nothing is under way that could undo that.
SettledIsCurrent ==
    \A k \in Key : ~owed[k] =>
        /\ seen[k] = latest[k]
        /\ \A p \in carried : p.key # k
=============================================================================
