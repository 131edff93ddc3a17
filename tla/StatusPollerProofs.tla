-------------------------- MODULE StatusPollerProofs --------------------------
(***************************************************************************)
(* For any resources, statuses, page size and resync period, and whatever  *)
(* OSAC does between two List calls: the poller's cache is what it last    *)
(* reported, DELETED is reported once per disappearance, and a resource    *)
(* that OSAC held all through a listing is called gone only if during that *)
(* listing another one was deleted, two changed places, or OSAC ended it   *)
(* early.                                                                  *)
(***************************************************************************)
EXTENDS StatusPoller, SequenceTheorems, TLAPS

\* The ids of a sequence of listed items.
Ids(s) == {s[n].id : n \in DOMAIN s}

\* OSAC holds every resource once: ids are unique, not only items.
OneEntryPerId ==
    /\ osac = [k \in Kind |-> osac[k]]
    /\ \A k \in Kind :
        /\ osac[k] \in Seq(Item(k))
        /\ \A m, n \in 1 .. Len(osac[k]) : osac[k][m].id = osac[k][n].id => m = n

\* What OSAC held is still there, at the same place.
Grows ==
    \A k \in Kind :
        /\ Len(osac[k]) =< Len(osac'[k])
        /\ \A n \in 1 .. Len(osac[k]) : osac'[k][n].id = osac[k][n].id

\* Only a live report is ever cached, and only for its own kind.
CacheIsLive ==
    \A k \in Kind, i \in Id : cache[k][i] \in LiveReport(k) \cup {NoReport}

\* A call is made for an item of the listing or for one that is gone from it,
\* and the loop waits for it; DELETED is only said at the end of a listing,
\* of an id that was not in it.
CallBelongs ==
    /\ call # NoReport => pc \in {"items", "gone"}
    /\ call # NoReport /\ call.val = DeletedReport =>
        pc = "gone" /\ call.id \notin seen

\* While no resource of the kind is deleted or moved, the pages so far hold
\* every resource up to the offset: later ones are appended behind it.
PagesCover ==
    pc = "list" =>
        /\ steady \subseteq Present(kind)
        /\ gaps = {} => /\ offset =< Len(osac[kind])
                        /\ \A n \in 1 .. offset : osac[kind][n].id \in Ids(items)

\* So a listing that was not cut holds what was there from its begin to its
\* end.
ListingCovers ==
    /\ pc \in {"items", "gone"} /\ gaps = {} => steady \subseteq seen \cup Ids(items)
    /\ pc = "gone" => items = <<>>

PollInv ==
    /\ TypeOK
    /\ OneEntryPerId
    /\ CacheIsLive
    /\ CacheIsLastReport
    /\ CallBelongs
    /\ PagesCover
    /\ ListingCovers

-----------------------------------------------------------------------------
(* Sequences. *)

\* Removing one element moves the later ones forward by one place.
LEMMA RemoveAtProperties ==
    ASSUME NEW S, NEW s \in Seq(S), NEW n \in 1 .. Len(s)
    PROVE  /\ RemoveAt(s, n) \in Seq(S)
           /\ Len(RemoveAt(s, n)) = Len(s) - 1
           /\ \A j \in 1 .. Len(s) - 1 :
                RemoveAt(s, n)[j] = IF j < n THEN s[j] ELSE s[j + 1]
<1> DEFINE front == SubSeq(s, 1, n - 1)
           back == SubSeq(s, n + 1, Len(s))
<1>0. Len(s) \in Nat /\ n \in Int
  BY LenProperties
<1>1. /\ front \in Seq(S)
      /\ Len(front) = n - 1
      /\ \A j \in 1 .. n - 1 : front[j] = s[j]
  <2>1. \A j \in 1 .. n - 1 : s[j] \in S
    BY <1>0, ElementOfSeq
  <2>2. QED
    BY <1>0, <2>1, SubSeqProperties
<1>2. /\ back \in Seq(S)
      /\ Len(back) = Len(s) - n
      /\ \A j \in 1 .. Len(s) - n : back[j] = s[n + j]
  <2>1. \A j \in n + 1 .. Len(s) : s[j] \in S
    BY <1>0, ElementOfSeq
  <2>2. QED
    BY <1>0, <2>1, SubSeqProperties
<1>3. ASSUME NEW f \in Seq(S), NEW b \in Seq(S),
             Len(f) = n - 1, Len(b) = Len(s) - n,
             \A j \in 1 .. n - 1 : f[j] = s[j],
             \A j \in 1 .. Len(s) - n : b[j] = s[n + j]
      PROVE  /\ f \o b \in Seq(S)
             /\ Len(f \o b) = Len(s) - 1
             /\ \A j \in 1 .. Len(s) - 1 :
                    (f \o b)[j] = IF j < n THEN s[j] ELSE s[j + 1]
  <2>1. PICK whole \in Seq(S) : whole = f \o b
    BY ConcatProperties
  <2>2. /\ Len(whole) = Len(f) + Len(b)
        /\ \A j \in 1 .. Len(f) + Len(b) :
            whole[j] = IF j <= Len(f) THEN f[j] ELSE b[j - Len(f)]
    BY <2>1, ConcatProperties, Zenon
  <2>3. Len(whole) = Len(s) - 1
    BY <1>0, <1>3, <2>2
  <2>4. ASSUME NEW j \in 1 .. Len(s) - 1
        PROVE  whole[j] = IF j < n THEN s[j] ELSE s[j + 1]
    <3>1. whole[j] = IF j <= n - 1 THEN f[j] ELSE b[j - (n - 1)]
      BY <1>0, <1>3, <2>2
    <3>2. CASE j < n
      BY <1>0, <1>3, <3>1, <3>2
    <3>3. CASE ~(j < n)
      <4>1. j - (n - 1) \in 1 .. Len(s) - n /\ n + (j - (n - 1)) = j + 1
        BY <1>0, <3>3
      <4>2. b[j - (n - 1)] = s[j + 1]
        BY <1>3, <4>1
      <4>3. QED
        BY <1>0, <3>1, <3>3, <4>2
    <3>4. QED
      BY <3>2, <3>3
  <2>5. QED
    BY <2>1, <2>3, <2>4, Zenon
<1>4. QED
  BY <1>1, <1>2, <1>3, Zenon DEF RemoveAt

\* The ids of two listings one after the other.
LEMMA ConcatIds ==
    ASSUME NEW S, NEW s \in Seq(S), NEW t \in Seq(S)
    PROVE  Ids(s \o t) = Ids(s) \cup Ids(t)
<1> DEFINE st == s \o t
<1>1. /\ Len(s) \in Nat /\ DOMAIN s = 1 .. Len(s)
      /\ Len(t) \in Nat /\ DOMAIN t = 1 .. Len(t)
      /\ st \in Seq(S) /\ Len(st) = Len(s) + Len(t)
      /\ DOMAIN st = 1 .. Len(s) + Len(t)
      /\ \A i \in 1 .. Len(s) + Len(t) :
            st[i] = IF i <= Len(s) THEN s[i] ELSE t[i - Len(s)]
  BY LenProperties, ConcatProperties
<1> HIDE DEF st
<1>2. ASSUME NEW x \in Ids(st)
      PROVE  x \in Ids(s) \cup Ids(t)
  <2>1. PICK i \in 1 .. Len(s) + Len(t) : x = st[i].id
    BY <1>1 DEF Ids
  <2>2. CASE i <= Len(s)
    <3>1. i \in DOMAIN s /\ x = s[i].id
      BY <1>1, <2>1, <2>2
    <3>2. QED
      BY <3>1 DEF Ids
  <2>3. CASE ~(i <= Len(s))
    <3>1. i - Len(s) \in DOMAIN t /\ x = t[i - Len(s)].id
      BY <1>1, <2>1, <2>3
    <3>2. QED
      BY <3>1 DEF Ids
  <2>4. QED
    BY <2>2, <2>3
<1>3. ASSUME NEW x \in Ids(s)
      PROVE  x \in Ids(st)
  <2>1. PICK i \in 1 .. Len(s) : x = s[i].id
    BY <1>1 DEF Ids
  <2>2. i \in DOMAIN st /\ st[i] = s[i]
    BY <1>1
  <2>3. QED
    BY <2>1, <2>2 DEF Ids
<1>4. ASSUME NEW x \in Ids(t)
      PROVE  x \in Ids(st)
  <2>1. PICK i \in 1 .. Len(t) : x = t[i].id
    BY <1>1 DEF Ids
  <2>2. i + Len(s) \in DOMAIN st /\ st[i + Len(s)] = t[i]
    BY <1>1
  <2>3. QED
    BY <2>1, <2>2 DEF Ids
<1>5. QED
  BY <1>2, <1>3, <1>4 DEF st

\* The ids of a listing are that of its head and those of its tail.
LEMMA HeadTailIds ==
    ASSUME NEW S, NEW s \in Seq(S), s # <<>>
    PROVE  Ids(s) = {Head(s).id} \cup Ids(Tail(s))
<1>1. /\ Len(s) \in Nat \ {0} /\ DOMAIN s = 1 .. Len(s)
      /\ DOMAIN Tail(s) = 1 .. Len(s) - 1
      /\ \A i \in 1 .. Len(s) - 1 : Tail(s)[i] = s[i + 1]
  BY LenProperties, EmptySeq, HeadTailProperties
<1>2. Head(s) = s[1]
  OBVIOUS
<1>3. ASSUME NEW x \in Ids(s)
      PROVE  x \in {Head(s).id} \cup Ids(Tail(s))
  <2>1. PICK i \in 1 .. Len(s) : x = s[i].id
    BY <1>1 DEF Ids
  <2>2. CASE i = 1
    BY <1>2, <2>1, <2>2
  <2>3. CASE i # 1
    <3>1. i - 1 \in DOMAIN Tail(s) /\ Tail(s)[i - 1] = s[i]
      BY <1>1, <2>3
    <3>2. QED
      BY <2>1, <3>1 DEF Ids
  <2>4. QED
    BY <2>2, <2>3
<1>4. ASSUME NEW x \in Ids(Tail(s))
      PROVE  x \in Ids(s)
  <2>1. PICK i \in 1 .. Len(s) - 1 : x = Tail(s)[i].id
    BY <1>1 DEF Ids
  <2>2. i + 1 \in DOMAIN s /\ s[i + 1] = Tail(s)[i]
    BY <1>1
  <2>3. QED
    BY <2>1, <2>2 DEF Ids
<1>5. Head(s).id \in Ids(s)
  <2>1. 1 \in DOMAIN s
    BY <1>1
  <2>2. QED
    BY <1>2, <2>1 DEF Ids
<1>6. QED
  BY <1>3, <1>4, <1>5

-----------------------------------------------------------------------------
(* What OSAC does on its own. *)

\* A resource has an id of its kind.
LEMMA IdOfKind ==
    ASSUME NEW k \in Kind, NEW i \in IdOf[k]
    PROVE  i \in Id
  BY DEF Id

\* A creation appends, so nothing moves.
LEMMA CreateKeeps ==
    ASSUME OneEntryPerId, NEW k \in Kind, NEW i \in IdOf[k],
           NEW raw \in RawStatus[k], OsacCreate(k, i, raw)
    PROVE  OneEntryPerId' /\ Grows
<1> DEFINE item == [id |-> i, raw |-> raw]
<1>1. item \in Item(k) /\ item.id = i
  BY IdOfKind DEF Item
<1> HIDE DEF item
<1>2. PICK new : new = Append(osac[k], item)
  OBVIOUS
<1>3. /\ new \in Seq(Item(k))
      /\ Len(osac[k]) \in Nat
      /\ Len(new) = Len(osac[k]) + 1
      /\ \A n \in 1 .. Len(osac[k]) : new[n] = osac[k][n]
      /\ new[Len(osac[k]) + 1] = item
  BY <1>1, <1>2, AppendProperties, LenProperties DEF OneEntryPerId
<1>4. \A n \in 1 .. Len(osac[k]) : osac[k][n].id # i
  <2>1. DOMAIN osac[k] = 1 .. Len(osac[k])
    BY LenProperties DEF OneEntryPerId
  <2>2. QED
    BY <2>1 DEF OsacCreate, Present
<1>5. /\ osac' = [j \in Kind |-> IF j = k THEN new ELSE osac[j]]
  BY <1>2 DEF OsacCreate, OneEntryPerId, item
<1>6. \A m, n \in 1 .. Len(new) : new[m].id = new[n].id => m = n
  <2> SUFFICES ASSUME NEW m \in 1 .. Len(new), NEW n \in 1 .. Len(new),
                      new[m].id = new[n].id
               PROVE  m = n
    OBVIOUS
  <2>1. CASE m \in 1 .. Len(osac[k]) /\ n \in 1 .. Len(osac[k])
    BY <1>3, <2>1 DEF OneEntryPerId
  <2>2. CASE m = Len(osac[k]) + 1 /\ n \in 1 .. Len(osac[k])
    BY <1>1, <1>3, <1>4, <2>2
  <2>3. CASE n = Len(osac[k]) + 1 /\ m \in 1 .. Len(osac[k])
    BY <1>1, <1>3, <1>4, <2>3
  <2>4. CASE m = Len(osac[k]) + 1 /\ n = Len(osac[k]) + 1
    BY <2>4
  <2>5. QED
    BY <1>3, <2>1, <2>2, <2>3, <2>4
<1>7. OneEntryPerId'
  BY <1>3, <1>5, <1>6 DEF OneEntryPerId, Item
<1>8. Grows
  <2> SUFFICES ASSUME NEW j \in Kind
               PROVE  /\ Len(osac[j]) =< Len(osac'[j])
                      /\ \A n \in 1 .. Len(osac[j]) : osac'[j][n].id = osac[j][n].id
    BY DEF Grows
  <2>1. CASE j = k
    BY <1>3, <1>5, <2>1
  <2>2. CASE j # k
    <3>1. osac'[j] = osac[j] /\ Len(osac[j]) \in Nat
      BY <1>5, <2>2, LenProperties DEF OneEntryPerId
    <3>2. QED
      BY <3>1
  <2>3. QED
    BY <2>1, <2>2
<1>9. QED
  BY <1>7, <1>8

\* An update keeps every id where it is.
LEMMA UpdateKeeps ==
    ASSUME OneEntryPerId, NEW k \in Kind, NEW n \in DOMAIN osac[k],
           NEW raw \in RawStatus[k], OsacUpdate(k, n, raw)
    PROVE  OneEntryPerId' /\ Grows
<1>1. /\ Len(osac[k]) \in Nat
      /\ DOMAIN osac[k] = 1 .. Len(osac[k])
      /\ n \in 1 .. Len(osac[k])
      /\ osac[k][n] \in Item(k)
  BY LenProperties, ElementOfSeq DEF OneEntryPerId
<1>2. PICK item \in Item(k) : /\ item = [osac[k][n] EXCEPT !.raw = raw]
                              /\ item.id = osac[k][n].id
  <2>1. PICK old \in Item(k) : old = osac[k][n]
    BY <1>1
  <2>2. [old EXCEPT !.raw = raw] \in Item(k)
    BY DEF Item
  <2>3. [old EXCEPT !.raw = raw].id = old.id
    BY DEF Item
  <2>4. QED
    BY <2>1, <2>2, <2>3
<1>3. PICK new : new = [osac[k] EXCEPT ![n] = item]
  OBVIOUS
<1>4. /\ new \in Seq(Item(k))
      /\ Len(new) = Len(osac[k])
      /\ \A j \in 1 .. Len(osac[k]) : new[j].id = osac[k][j].id
  <2>1. /\ new \in Seq(Item(k))
        /\ Len(new) = Len(osac[k])
        /\ \A j \in 1 .. Len(osac[k]) : new[j] = IF j = n THEN item ELSE osac[k][j]
    BY <1>1, <1>3, ExceptSeq DEF OneEntryPerId
  <2>2. QED
    BY <1>2, <2>1
<1>5. osac' = [j \in Kind |-> IF j = k THEN new ELSE osac[j]]
  <2>1. osac' = [osac EXCEPT ![k] = [osac[k] EXCEPT ![n] =
                                        [osac[k][n] EXCEPT !.raw = raw]]]
    BY DEF OsacUpdate
  <2>2. osac' = [osac EXCEPT ![k] = new]
    BY <1>2, <1>3, <2>1
  <2>3. QED
    BY <2>2 DEF OneEntryPerId
<1>6. OneEntryPerId'
  <2>1. \A i, j \in 1 .. Len(new) : new[i].id = new[j].id => i = j
    BY <1>4 DEF OneEntryPerId
  <2>2. QED
    BY <1>4, <1>5, <2>1 DEF OneEntryPerId, Item
<1>7. Grows
  <2> SUFFICES ASSUME NEW j \in Kind
               PROVE  /\ Len(osac[j]) =< Len(osac'[j])
                      /\ \A m \in 1 .. Len(osac[j]) : osac'[j][m].id = osac[j][m].id
    BY DEF Grows
  <2>1. CASE j = k
    BY <1>1, <1>4, <1>5, <2>1
  <2>2. CASE j # k
    <3>1. osac'[j] = osac[j] /\ Len(osac[j]) \in Nat
      BY <1>5, <2>2, LenProperties DEF OneEntryPerId
    <3>2. QED
      BY <3>1
  <2>3. QED
    BY <2>1, <2>2
<1>8. QED
  BY <1>6, <1>7

\* A deletion takes away one resource and keeps the others, in their order.
LEMMA DeleteKeeps ==
    ASSUME OneEntryPerId, NEW k \in Kind, NEW n \in DOMAIN osac[k],
           OsacDelete(k, n)
    PROVE  /\ OneEntryPerId'
           /\ \A j \in Kind : j # k => osac'[j] = osac[j]
           /\ Present(k) \ {osac[k][n].id} \subseteq Present(k)'
<1>1. /\ Len(osac[k]) \in Nat
      /\ DOMAIN osac[k] = 1 .. Len(osac[k])
      /\ n \in 1 .. Len(osac[k])
  BY LenProperties DEF OneEntryPerId
<1>2. PICK new : new = RemoveAt(osac[k], n)
  OBVIOUS
<1>3. /\ new \in Seq(Item(k))
      /\ Len(new) = Len(osac[k]) - 1
      /\ \A j \in 1 .. Len(osac[k]) - 1 :
            new[j] = IF j < n THEN osac[k][j] ELSE osac[k][j + 1]
  BY <1>1, <1>2, RemoveAtProperties DEF OneEntryPerId
<1>4. osac' = [j \in Kind |-> IF j = k THEN new ELSE osac[j]]
  BY <1>2 DEF OsacDelete, OneEntryPerId
<1>5. \A i, j \in 1 .. Len(new) : new[i].id = new[j].id => i = j
  <2> SUFFICES ASSUME NEW i \in 1 .. Len(new), NEW j \in 1 .. Len(new),
                      new[i].id = new[j].id
               PROVE  i = j
    OBVIOUS
  <2>1. PICK di \in 1 .. Len(osac[k]) :
            new[i] = osac[k][di] /\ di = IF i < n THEN i ELSE i + 1
    BY <1>1, <1>3
  <2>2. PICK dj \in 1 .. Len(osac[k]) :
            new[j] = osac[k][dj] /\ dj = IF j < n THEN j ELSE j + 1
    BY <1>1, <1>3
  <2>3. di = dj
    BY <2>1, <2>2 DEF OneEntryPerId
  <2>4. QED
    BY <1>1, <1>3, <2>1, <2>2, <2>3
<1>6. OneEntryPerId'
  BY <1>3, <1>4, <1>5 DEF OneEntryPerId, Item
<1>7. ASSUME NEW x \in Present(k) \ {osac[k][n].id}
      PROVE  x \in Present(k)'
  <2>1. PICK m \in 1 .. Len(osac[k]) : x = osac[k][m].id /\ m # n
    BY <1>1 DEF Present
  <2>2. PICK j \in 1 .. Len(osac[k]) - 1 : j = IF m < n THEN m ELSE m - 1
    BY <1>1, <2>1
  <2>3. new[j] = osac[k][m]
    BY <1>1, <1>3, <2>1, <2>2
  <2>4. osac'[k] = new /\ DOMAIN new = 1 .. Len(osac[k]) - 1
    BY <1>3, <1>4, LenProperties
  <2>5. QED
    BY <2>1, <2>3, <2>4 DEF Present
<1>8. QED
  BY <1>4, <1>6, <1>7

\* Two resources that change places are both still there.
LEMMA ReorderKeeps ==
    ASSUME OneEntryPerId, NEW k \in Kind, NEW m, NEW n, OsacReorder(k, m, n)
    PROVE  /\ OneEntryPerId'
           /\ \A j \in Kind : j # k => osac'[j] = osac[j]
           /\ Present(k) \subseteq Present(k)'
<1>1. /\ Len(osac[k]) \in Nat
      /\ DOMAIN osac[k] = 1 .. Len(osac[k])
      /\ m \in 1 .. Len(osac[k]) /\ n \in 1 .. Len(osac[k])
      /\ osac[k][m] \in Item(k) /\ osac[k][n] \in Item(k)
  <2>1. Len(osac[k]) \in Nat /\ DOMAIN osac[k] = 1 .. Len(osac[k])
    BY LenProperties DEF OneEntryPerId
  <2>2. m \in 1 .. Len(osac[k]) /\ n \in 1 .. Len(osac[k])
    BY <2>1 DEF OsacReorder
  <2>3. QED
    BY <2>1, <2>2, ElementOfSeq DEF OneEntryPerId
<1> DEFINE once == [osac[k] EXCEPT ![m] = osac[k][n]]
           new == [once EXCEPT ![n] = osac[k][m]]
           from(i) == IF i = n THEN m ELSE IF i = m THEN n ELSE i
<1>2. /\ once \in Seq(Item(k)) /\ Len(once) = Len(osac[k])
      /\ \A i \in 1 .. Len(osac[k]) :
            once[i] = IF i = m THEN osac[k][n] ELSE osac[k][i]
  BY <1>1, ExceptSeq DEF OneEntryPerId
<1>3. /\ new \in Seq(Item(k)) /\ Len(new) = Len(osac[k])
      /\ \A i \in 1 .. Len(osac[k]) :
            new[i] = IF i = n THEN osac[k][m] ELSE once[i]
  <2> HIDE DEF once
  <2>1. QED
    BY <1>1, <1>2, ExceptSeq
<1>4. osac' = [j \in Kind |-> IF j = k THEN new ELSE osac[j]]
  BY DEF OsacReorder, OneEntryPerId
<1> HIDE DEF once, new
<1>5. \A i \in 1 .. Len(osac[k]) :
        from(i) \in 1 .. Len(osac[k]) /\ from(from(i)) = i /\ new[i] = osac[k][from(i)]
  BY <1>1, <1>2, <1>3
<1>6. \A i, j \in 1 .. Len(new) : new[i].id = new[j].id => i = j
  <2> SUFFICES ASSUME NEW i \in 1 .. Len(osac[k]), NEW j \in 1 .. Len(osac[k]),
                      new[i].id = new[j].id
               PROVE  i = j
    BY <1>3
  <2>1. from(i) = from(j)
    <3> HIDE DEF from
    <3>1. QED
      BY <1>5 DEF OneEntryPerId
  <2>2. QED
    BY <1>5, <2>1
<1>7. OneEntryPerId'
  BY <1>3, <1>4, <1>6 DEF OneEntryPerId, Item
<1>8. ASSUME NEW x \in Present(k)
      PROVE  x \in Present(k)'
  <2> HIDE DEF from
  <2>1. PICK i \in 1 .. Len(osac[k]) : x = osac[k][i].id
    BY <1>1 DEF Present
  <2>2. from(i) \in 1 .. Len(osac[k]) /\ new[from(i)] = osac[k][i]
    BY <1>5
  <2>3. osac'[k] = new /\ DOMAIN new = 1 .. Len(osac[k])
    BY <1>3, <1>4, LenProperties
  <2>4. QED
    BY <2>1, <2>2, <2>3 DEF Present
<1>9. QED
  BY <1>4, <1>7, <1>8

\* What grows loses nothing.
LEMMA GrowingKeepsPresent ==
    ASSUME OneEntryPerId, OneEntryPerId', Grows, NEW k \in Kind
    PROVE  Present(k) \subseteq Present(k)'
<1>1. /\ DOMAIN osac[k] = 1 .. Len(osac[k]) /\ Len(osac[k]) \in Nat
      /\ DOMAIN osac'[k] = 1 .. Len(osac'[k]) /\ Len(osac'[k]) \in Nat
  BY LenProperties DEF OneEntryPerId
<1>2. ASSUME NEW x \in Present(k)
      PROVE  x \in Present(k)'
  <2>1. PICK n \in 1 .. Len(osac[k]) : x = osac[k][n].id
    BY <1>1 DEF Present
  <2>2. n \in DOMAIN osac'[k] /\ osac'[k][n].id = x
    BY <1>1, <2>1 DEF Grows
  <2>3. QED
    BY <2>2 DEF Present
<1>3. QED
  BY <1>2

-----------------------------------------------------------------------------
(* What the poller computes. *)

\* A listed item's report is one, and it is never DELETED.
LEMMA ReportIsLive ==
    ASSUME NEW k \in Kind, NEW raw \in RawStatus[k]
    PROVE  /\ Reported(k, raw) \in LiveReport(k)
           /\ Reported(k, raw) \in Report
           /\ Reported(k, raw) # NoReport
           /\ Reported(k, raw) # DeletedReport
<1>1. Reported(k, raw) \in LiveReport(k)
  BY DEF LiveReport
<1>2. QED
  BY <1>1, ReportAssumption DEF Report

\* DELETED is a report, and no resource looks like it.
LEMMA DeletedIsReport ==
    /\ DeletedReport \in Report
    /\ DeletedReport # NoReport
    /\ \A k \in Kind : DeletedReport \notin LiveReport(k) /\ NoReport \notin LiveReport(k)
  BY ReportAssumption DEF Report

\* The record of a call is never the absence of one.
LEMMA CallFields ==
    ASSUME NEW k \in Kind, NEW i \in Id, NEW v \in Report
    PROVE  /\ [kind |-> k, id |-> i, val |-> v] \in Call
           /\ [kind |-> k, id |-> i, val |-> v] # NoReport
           /\ [kind |-> k, id |-> i, val |-> v].kind = k
           /\ [kind |-> k, id |-> i, val |-> v].id = i
           /\ [kind |-> k, id |-> i, val |-> v].val = v
  BY ReportAssumption DEF Call

\* A page of n items holds the next n resources behind the offset, and never
\* more than there are.
LEMMA PageProperties ==
    ASSUME OneEntryPerId, kind \in Kind, offset \in Nat, NEW n \in PageLength
    PROVE  /\ n \in Nat
           /\ Len(osac[kind]) \in Nat
           /\ Page(n) \in Seq(Item(kind))
           /\ Len(Page(n)) = n
           /\ offset =< Len(osac[kind]) => offset + n =< Len(osac[kind])
           /\ \A i \in 1 .. n : Page(n)[i] = osac[kind][offset + i]
<1>1. /\ Len(osac[kind]) \in Nat /\ osac[kind] \in Seq(Item(kind))
      /\ n \in Nat
      /\ n = 0 \/ offset + n <= Len(osac[kind])
  BY LenProperties, PagingAssumption DEF OneEntryPerId, PageLength
<1>2. \A i \in offset + 1 .. offset + n : osac[kind][i] \in Item(kind)
  BY <1>1, ElementOfSeq
<1>3. /\ Page(n) \in Seq(Item(kind))
      /\ Len(Page(n)) = IF offset + 1 <= offset + n
                        THEN offset + n - (offset + 1) + 1 ELSE 0
      /\ \A i \in 1 .. offset + n - (offset + 1) + 1 :
            Page(n)[i] = osac[kind][(offset + 1) + i - 1]
  BY <1>1, <1>2, SubSeqProperties DEF Page
<1>4. offset + n - (offset + 1) + 1 = n
  BY <1>1
<1>5. \A i \in 1 .. n : Page(n)[i] = osac[kind][offset + i]
  <2> SUFFICES ASSUME NEW i \in 1 .. n
               PROVE  Page(n)[i] = osac[kind][offset + i]
    OBVIOUS
  <2>1. (offset + 1) + i - 1 = offset + i
    BY <1>1
  <2>2. QED
    BY <1>3, <1>4, <2>1
<1>6. Len(Page(n)) = n
  BY <1>1, <1>3
<1>7. QED
  BY <1>1, <1>3, <1>5, <1>6

\* The cycle counter stays below the resync period.
LEMMA CycleBounds ==
    ASSUME cycle \in 0 .. (ResyncEvery - 1)
    PROVE  (cycle + 1) % ResyncEvery \in 0 .. (ResyncEvery - 1)
  BY ResyncAssumption

-----------------------------------------------------------------------------
(* The inductive invariant. *)

\* The poller starts in the invariant.
LEMMA PollInit == Init => PollInv
<1> SUFFICES ASSUME Init
             PROVE  PollInv
  OBVIOUS
<1> USE DEF Init
<1>1. \A k \in Kind : osac[k] = <<>>
  OBVIOUS
<1>2. /\ kind \in Kind /\ <<>> \in Seq(Item(kind))
      /\ \A k \in Kind : <<>> \in Seq(Item(k))
      /\ Len(<<>>) = 0
  BY EmptySeq DEF Kind
<1>3. OneEntryPerId
  BY <1>1, <1>2 DEF OneEntryPerId
<1>4. TypeOK
  <2>1. \A k \in Kind : osac[k] \in Seq(Item(k)) /\ IsInjective(osac[k])
    BY <1>1, <1>2 DEF IsInjective
  <2>2. cycle \in 0 .. (ResyncEvery - 1)
    BY ResyncAssumption
  <2>3. /\ cache \in [Kind -> [Id -> Report \cup {NoReport}]]
        /\ reported \in [Kind -> [Id -> Report \cup {NoReport}]]
    OBVIOUS
  <2>4. cancelled \in BOOLEAN /\ gaps \subseteq {}
    BY Zenon
  <2>5. QED
    BY <1>2, <2>1, <2>2, <2>3, <2>4 DEF TypeOK
<1>5. CacheIsLive /\ CacheIsLastReport /\ CallBelongs
  BY DEF CacheIsLive, CacheIsLastReport, LastReport, CallBelongs
<1>6. PagesCover /\ ListingCovers
  BY <1>1, <1>2 DEF PagesCover, ListingCovers
<1>7. QED
  BY <1>3, <1>4, <1>5, <1>6 DEF PollInv

\* Unique ids make items unique.
LEMMA InjectiveIds ==
    ASSUME NEW S, NEW s \in Seq(S),
           \A m, n \in 1 .. Len(s) : s[m].id = s[n].id => m = n
    PROVE  IsInjective(s)
<1>1. DOMAIN s = 1 .. Len(s)
  BY LenProperties
<1>2. QED
  BY <1>1 DEF IsInjective

\* A step of OSAC leaves the poller alone; a creation or an update moves
\* nothing, a deletion or a move during the listing is what "gaps" records.
LEMMA OsacKeeps ==
    ASSUME PollInv, OsacStep
    PROVE  PollInv'
<1> USE DEF pollVars
<1>1. PICK k \in Kind :
        \/ \E i \in IdOf[k], raw \in RawStatus[k] : OsacCreate(k, i, raw)
        \/ \E n \in DOMAIN osac[k], raw \in RawStatus[k] : OsacUpdate(k, n, raw)
        \/ \E n \in DOMAIN osac[k] : OsacDelete(k, n)
        \/ \E m, n : OsacReorder(k, m, n)
  BY DEF OsacStep
<1>2. /\ UNCHANGED <<pollVars, cancelled, reported>>
      /\ steady' \subseteq steady
      /\ pc \in {"items", "gone"} => UNCHANGED <<steady, gaps>>
      /\ gaps' \subseteq gaps \cup {"deleted", "moved"}
  <2>1. ASSUME NEW n \in DOMAIN osac[k], OsacDelete(k, n)
        PROVE  /\ UNCHANGED <<pollVars, cancelled, reported>>
               /\ steady' \subseteq steady
               /\ pc \in {"items", "gone"} => UNCHANGED <<steady, gaps>>
               /\ gaps' \subseteq gaps \cup {"deleted", "moved"}
    BY <2>1 DEF OsacDelete
  <2>2. ASSUME NEW m, NEW n, OsacReorder(k, m, n)
        PROVE  /\ UNCHANGED <<pollVars, cancelled, reported>>
               /\ steady' \subseteq steady
               /\ pc \in {"items", "gone"} => UNCHANGED <<steady, gaps>>
               /\ gaps' \subseteq gaps \cup {"deleted", "moved"}
    BY <2>2 DEF OsacReorder
  <2>3. QED
    BY <1>1, <2>1, <2>2, Zenon DEF OsacCreate, OsacUpdate
<1>3. OneEntryPerId'
  BY <1>1, CreateKeeps, UpdateKeeps, DeleteKeeps, ReorderKeeps DEF PollInv
<1>4. TypeOK'
  <2>1. \A j \in Kind : osac'[j] \in Seq(Item(j)) /\ IsInjective(osac'[j])
    BY <1>3, InjectiveIds DEF OneEntryPerId, Item
  <2>2. QED
    BY <1>2, <2>1 DEF PollInv, TypeOK, Item
<1>5. CacheIsLive' /\ CacheIsLastReport' /\ CallBelongs'
  BY <1>2 DEF PollInv, CacheIsLive, CacheIsLastReport, LastReport, CallBelongs
<1>6. PagesCover'
  <2> SUFFICES ASSUME pc = "list"
               PROVE  /\ steady' \subseteq Present(kind)'
                      /\ gaps' = {} => /\ offset =< Len(osac'[kind])
                                       /\ \A n \in 1 .. offset :
                                            osac'[kind][n].id \in Ids(items)
    BY <1>2 DEF PagesCover, Ids
  <2>0. /\ kind \in Kind /\ offset \in Nat
        /\ Len(osac[kind]) \in Nat /\ Len(osac'[kind]) \in Nat
        /\ steady \subseteq Present(kind)
        /\ gaps = {} => /\ offset =< Len(osac[kind])
                        /\ \A n \in 1 .. offset : osac[kind][n].id \in Ids(items)
    BY <1>3, LenProperties DEF PollInv, TypeOK, PagesCover, OneEntryPerId
  <2>1. CASE Grows /\ UNCHANGED gaps
    <3>1. Present(kind) \subseteq Present(kind)'
      <4>1. PICK j \in Kind : j = kind
        BY <2>0
      <4>2. Present(j) \subseteq Present(j)'
        BY <1>3, <2>1, GrowingKeepsPresent DEF PollInv
      <4>3. QED
        BY <1>2, <4>1, <4>2 DEF Present
    <3>2. QED
      BY <1>2, <2>0, <2>1, <3>1 DEF Grows
  <2>2. CASE \E n \in DOMAIN osac[k] : OsacDelete(k, n)
    <3>1. PICK n \in DOMAIN osac[k] : OsacDelete(k, n)
      BY <2>2
    <3>2. /\ \A j \in Kind : j # k => osac'[j] = osac[j]
          /\ Present(k) \ {osac[k][n].id} \subseteq Present(k)'
      BY <3>1, DeleteKeeps DEF PollInv
    <3>3. CASE k = kind
      <4>1. steady' = steady \ {osac[k][n].id} /\ gaps' # {}
        BY <3>1, <3>3 DEF OsacDelete
      <4>2. Present(kind)' = {osac'[k][i].id : i \in DOMAIN osac'[k]}
        BY <1>2, <3>3 DEF Present
      <4>3. Present(k)' = {osac'[k][i].id : i \in DOMAIN osac'[k]}
        BY DEF Present
      <4>4. QED
        BY <2>0, <3>2, <3>3, <4>1, <4>2, <4>3
    <3>4. CASE k # kind
      <4>1. UNCHANGED <<steady, gaps>> /\ osac'[kind] = osac[kind]
        BY <2>0, <3>1, <3>2, <3>4 DEF OsacDelete
      <4>2. Present(kind)' = Present(kind)
        BY <1>2, <4>1 DEF Present
      <4>3. QED
        BY <2>0, <4>1, <4>2
    <3>5. QED
      BY <3>3, <3>4
  <2>3. CASE \E m, n : OsacReorder(k, m, n)
    <3>1. PICK m, n : OsacReorder(k, m, n)
      BY <2>3
    <3>2. /\ \A j \in Kind : j # k => osac'[j] = osac[j]
          /\ Present(k) \subseteq Present(k)'
          /\ UNCHANGED steady
      BY <3>1, ReorderKeeps DEF PollInv, OsacReorder
    <3>3. CASE k = kind
      <4>1. gaps' # {}
        BY <3>1, <3>3 DEF OsacReorder
      <4>2. Present(kind)' = Present(k)'
        BY <1>2, <3>3 DEF Present
      <4>3. QED
        BY <2>0, <3>2, <3>3, <4>1, <4>2
    <3>4. CASE k # kind
      <4>1. UNCHANGED gaps /\ osac'[kind] = osac[kind]
        BY <2>0, <3>1, <3>2, <3>4 DEF OsacReorder
      <4>2. Present(kind)' = Present(kind)
        BY <1>2, <4>1 DEF Present
      <4>3. QED
        BY <2>0, <3>2, <4>1, <4>2
    <3>5. QED
      BY <3>3, <3>4
  <2>4. \/ Grows /\ UNCHANGED gaps
        \/ \E n \in DOMAIN osac[k] : OsacDelete(k, n)
        \/ \E m, n : OsacReorder(k, m, n)
    BY <1>1, CreateKeeps, UpdateKeeps DEF PollInv, OsacCreate, OsacUpdate
  <2>5. QED
    BY <2>1, <2>2, <2>3, <2>4
<1>7. ListingCovers'
  BY <1>2 DEF PollInv, ListingCovers, Ids
<1>8. QED
  BY <1>3, <1>4, <1>5, <1>6, <1>7 DEF PollInv

\* A listing begins with nothing listed, and everything there is steady.
LEMMA BeginKeeps ==
    ASSUME PollInv, call = NoReport, NEW k \in Kind, BeginListing(k),
           UNCHANGED <<osac, cycle, cache, call, cancelled, reported>>
    PROVE  PollInv'
<1> USE DEF BeginListing
<1>1. Present(k) \subseteq Id /\ Present(kind)' = Present(k)
  <2>1. \A n \in DOMAIN osac[k] : osac[k][n].id \in Id
    <3>1. osac[k] \in Seq(Item(k)) /\ DOMAIN osac[k] = 1 .. Len(osac[k])
      BY LenProperties DEF PollInv, OneEntryPerId
    <3>2. \A n \in DOMAIN osac[k] : osac[k][n] \in Item(k)
      BY <3>1, ElementOfSeq
    <3>3. QED
      BY <3>2 DEF Item
  <2>2. QED
    BY <2>1 DEF Present
<1>2. OneEntryPerId'
  BY DEF PollInv, OneEntryPerId, Item
<1>3. TypeOK'
  <2>1. <<>> \in Seq(Item(k))
    BY EmptySeq
  <2>2. gaps' \subseteq {"deleted", "moved", "cut"}
    OBVIOUS
  <2>3. QED
    BY <1>1, <2>1, <2>2 DEF PollInv, TypeOK, Item
<1>4. CacheIsLive' /\ CacheIsLastReport' /\ CallBelongs'
  BY DEF PollInv, CacheIsLive, CacheIsLastReport, LastReport, CallBelongs
<1>5. PagesCover'
  <2>1. Len(osac[k]) \in Nat
    BY LenProperties DEF PollInv, OneEntryPerId
  <2>2. QED
    BY <1>1, <2>1 DEF PagesCover
<1>6. ListingCovers'
  BY DEF ListingCovers
<1>7. QED
  BY <1>2, <1>3, <1>4, <1>5, <1>6 DEF PollInv

\* The end of a kind is the begin of the next one, or of the wait.
LEMMA FinishKeeps ==
    ASSUME PollInv, call = NoReport, FinishKind,
           UNCHANGED <<osac, cache, call, cancelled, reported>>
    PROVE  PollInv'
<1>1. CASE kind = "cluster"
  BY <1>1, BeginKeeps DEF FinishKind, Kind
<1>2. CASE kind # "cluster"
  <2> USE <1>2 DEF FinishKind
  <2>1. OneEntryPerId'
    BY DEF PollInv, OneEntryPerId, Item
  <2>2. TypeOK'
    <3>1. <<>> \in Seq(Item(kind))
      BY EmptySeq
    <3>2. gaps' \subseteq {"deleted", "moved", "cut"}
      OBVIOUS
    <3>3. cycle' \in 0 .. (ResyncEvery - 1)
      BY CycleBounds DEF PollInv, TypeOK
    <3>4. /\ \A k \in Kind : osac'[k] \in Seq(Item(k)) /\ IsInjective(osac'[k])
          /\ kind' = kind /\ kind \in Kind /\ pc' = "idle"
          /\ items' = <<>> /\ offset' = 0 /\ seen' = {} /\ steady' = {}
          /\ call' \in Call \cup {NoReport} /\ cancelled' \in BOOLEAN
          /\ cache' \in [Kind -> [Id -> Report \cup {NoReport}]]
          /\ reported' \in [Kind -> [Id -> Report \cup {NoReport}]]
      BY DEF PollInv, TypeOK
    <3>5. QED
      BY <3>1, <3>2, <3>3, <3>4 DEF TypeOK, Item
  <2>3. CacheIsLive' /\ CacheIsLastReport' /\ CallBelongs'
    BY DEF PollInv, CacheIsLive, CacheIsLastReport, LastReport, CallBelongs
  <2>4. PagesCover' /\ ListingCovers'
    BY DEF PagesCover, ListingCovers
  <2>5. QED
    BY <2>1, <2>2, <2>3, <2>4 DEF PollInv
<1>3. QED
  BY <1>1, <1>2

\* A page that is listed extends what the pages cover; the last one completes
\* it, unless what was still to be listed moved or OSAC cut it off.
LEMMA ListPageKeeps ==
    ASSUME PollInv, ListPage
    PROVE  PollInv'
<1>0. /\ kind \in Kind /\ offset \in Nat /\ items \in Seq(Item(kind))
      /\ OneEntryPerId /\ call = NoReport
      /\ steady \subseteq Present(kind)
      /\ gaps = {} => /\ offset =< Len(osac[kind])
                      /\ \A n \in 1 .. offset : osac[kind][n].id \in Ids(items)
  BY DEF PollInv, TypeOK, CallBelongs, PagesCover, ListPage
<1>1. PICK n \in PageLength :
        /\ items' = items \o Page(n)
        /\ \/ /\ pc' = "items" /\ offset' = 0
              /\ gaps' = IF offset + n < Len(osac[kind]) THEN gaps \cup {"cut"}
                                                        ELSE gaps
           \/ pc' = "list" /\ offset' = offset + n /\ gaps' = gaps
  BY DEF ListPage
<1>2. /\ n \in Nat
      /\ Len(osac[kind]) \in Nat
      /\ Page(n) \in Seq(Item(kind))
      /\ Len(Page(n)) = n
      /\ offset =< Len(osac[kind]) => offset + n =< Len(osac[kind])
      /\ \A i \in 1 .. n : Page(n)[i] = osac[kind][offset + i]
  BY <1>0, PageProperties
<1>3. /\ items' \in Seq(Item(kind))
      /\ Ids(items') = Ids(items) \cup Ids(Page(n))
  BY <1>0, <1>1, <1>2, ConcatIds, ConcatProperties
<1>4. ASSUME gaps = {}
      PROVE  \A i \in 1 .. offset + n : osac[kind][i].id \in Ids(items')
  <2> SUFFICES ASSUME NEW i \in 1 .. offset + n
               PROVE  osac[kind][i].id \in Ids(items')
    OBVIOUS
  <2>1. CASE i \in 1 .. offset
    BY <1>0, <1>3, <1>4, <2>1
  <2>2. CASE i \notin 1 .. offset
    <3>1. /\ i - offset \in 1 .. n
          /\ offset + (i - offset) = i
          /\ DOMAIN Page(n) = 1 .. n
      BY <1>0, <1>2, <2>2, LenProperties
    <3>2. osac[kind][i].id \in Ids(Page(n))
      BY <1>2, <3>1 DEF Ids
    <3>3. QED
      BY <1>3, <3>2
  <2>3. QED
    BY <2>1, <2>2
<1>5. /\ UNCHANGED <<osac, kind, cycle, seen, cache, call, cancelled,
                     reported, steady>>
      /\ pc' \in {"list", "items"} /\ offset' \in Nat
      /\ gaps' \subseteq gaps \cup {"cut"} /\ (gaps' = {} => gaps = {})
  BY <1>0, <1>1, <1>2 DEF ListPage
<1>6. OneEntryPerId'
  BY <1>0, <1>5 DEF OneEntryPerId, Item
<1>7. TypeOK'
  BY <1>3, <1>5 DEF PollInv, TypeOK, Item
<1>8. CacheIsLive' /\ CacheIsLastReport' /\ CallBelongs'
  BY <1>0, <1>5
  DEF PollInv, CacheIsLive, CacheIsLastReport, LastReport, CallBelongs
<1>9. PagesCover'
  <2> SUFFICES ASSUME pc' = "list"
               PROVE  /\ steady \subseteq Present(kind)
                      /\ gaps' = {} => /\ offset' =< Len(osac[kind])
                                       /\ \A i \in 1 .. offset' :
                                            osac[kind][i].id \in Ids(items')
    BY <1>5 DEF PagesCover, Present, Ids
  <2>1. offset' = offset + n
    BY <1>1
  <2>2. QED
    BY <1>0, <1>2, <1>4, <1>5, <2>1
<1>10. ListingCovers'
  <2> SUFFICES ASSUME pc' = "items", gaps' = {}
               PROVE  steady \subseteq Ids(items')
    BY <1>5 DEF ListingCovers, Ids
  <2>1. gaps = {} /\ ~(offset + n < Len(osac[kind]))
    BY <1>1, <1>5
  <2>2. offset + n = Len(osac[kind])
    BY <1>0, <1>2, <2>1
  <2>3. \A i \in 1 .. Len(osac[kind]) : osac[kind][i].id \in Ids(items')
    BY <1>4, <2>1, <2>2
  <2>4. DOMAIN osac[kind] = 1 .. Len(osac[kind])
    BY <1>0, LenProperties DEF OneEntryPerId
  <2>5. QED
    BY <1>0, <2>3, <2>4 DEF Present
<1>11. QED
  BY <1>6, <1>7, <1>8, <1>9, <1>10 DEF PollInv

\* Handling an item caches what it publishes, and publishes unless that is
\* cached already; its id moves from the items to the ids seen.
LEMMA HandleItemKeeps ==
    ASSUME PollInv, HandleItem
    PROVE  PollInv'
<1> DEFINE id == Head(items).id
           now == ItemReport(Head(items).raw)
<1>0. kind \in Kind /\ items \in Seq(Item(kind)) /\ items # <<>>
  BY DEF PollInv, TypeOK, HandleItem
<1>1. /\ Head(items) \in Item(kind)
      /\ Tail(items) \in Seq(Item(kind))
      /\ Ids(items) = {id} \cup Ids(Tail(items))
  BY <1>0, HeadTailProperties, HeadTailIds
<1>2. /\ id \in Id
      /\ now \in LiveReport(kind) /\ now \in Report
      /\ now # NoReport /\ now # DeletedReport
  <2>1. id \in Id /\ Head(items).raw \in RawStatus[kind]
    BY <1>1 DEF Item
  <2>2. QED
    BY <1>0, <2>1, ReportIsLive DEF ItemReport
<1>3. /\ pc = "items" /\ call = NoReport
      /\ call' = IF NeedsPublish(id, now)
                 THEN [kind |-> kind, id |-> id, val |-> now] ELSE NoReport
      /\ cache' = [cache EXCEPT ![kind][id] = now]
      /\ seen' = seen \cup {id}
      /\ items' = Tail(items)
      /\ UNCHANGED <<osac, pc, kind, cycle, offset, cancelled, reported,
                     steady, gaps>>
  BY DEF HandleItem
<1>4. /\ [kind |-> kind, id |-> id, val |-> now] \in Call
      /\ [kind |-> kind, id |-> id, val |-> now] # NoReport
      /\ [kind |-> kind, id |-> id, val |-> now].kind = kind
      /\ [kind |-> kind, id |-> id, val |-> now].id = id
      /\ [kind |-> kind, id |-> id, val |-> now].val = now
  BY <1>0, <1>2, CallFields
<1> HIDE DEF id, now
<1>5. /\ cache \in [Kind -> [Id -> Report \cup {NoReport}]]
      /\ \A k \in Kind, i \in Id :
            cache'[k][i] = IF k = kind /\ i = id THEN now ELSE cache[k][i]
      /\ cache' \in [Kind -> [Id -> Report \cup {NoReport}]]
  BY <1>0, <1>2, <1>3 DEF PollInv, TypeOK
<1>6. OneEntryPerId'
  BY <1>3 DEF PollInv, OneEntryPerId, Item
<1>7. TypeOK'
  BY <1>1, <1>2, <1>3, <1>4, <1>5 DEF PollInv, TypeOK, Item
<1>8. CacheIsLive'
  BY <1>2, <1>5 DEF PollInv, CacheIsLive, LiveReport
<1>9. CacheIsLastReport'
  <2> SUFFICES ASSUME NEW k \in Kind, NEW i \in Id
               PROVE  IF cache'[k][i] = NoReport
                      THEN LastReport(k, i)' \in {NoReport, DeletedReport}
                      ELSE LastReport(k, i)' = cache'[k][i]
    BY DEF CacheIsLastReport
  <2>1. LastReport(k, i) = reported[k][i]
    BY <1>3 DEF LastReport
  <2>2. CASE k = kind /\ i = id
    <3>1. cache'[k][i] = now /\ now # NoReport
      BY <1>2, <1>5, <2>2
    <3>2. CASE NeedsPublish(id, now)
      <4>1. call' = [kind |-> kind, id |-> id, val |-> now] /\ call' # NoReport
        BY <1>3, <1>4, <3>2 DEF PollInv, TypeOK
      <4>2. QED
        BY <1>4, <2>2, <3>1, <4>1 DEF LastReport
    <3>3. CASE ~NeedsPublish(id, now)
      <4>1. call' = NoReport /\ cache[k][i] = now
        BY <1>3, <2>2, <3>3 DEF NeedsPublish
      <4>2. reported[k][i] = now
        BY <2>1, <3>1, <4>1 DEF PollInv, CacheIsLastReport
      <4>3. QED
        BY <1>3, <3>1, <4>1, <4>2 DEF LastReport
    <3>4. QED
      BY <3>2, <3>3
  <2>3. CASE ~(k = kind /\ i = id)
    <3>1. cache'[k][i] = cache[k][i]
      BY <1>5, <2>3
    <3>2. LastReport(k, i)' = reported[k][i]
      BY <1>3, <1>4, <2>3 DEF LastReport
    <3>3. QED
      BY <2>1, <3>1, <3>2 DEF PollInv, CacheIsLastReport
  <2>4. QED
    BY <2>2, <2>3
<1>10. CallBelongs'
  BY <1>2, <1>3, <1>4 DEF CallBelongs
<1>11. PagesCover'
  BY <1>3 DEF PagesCover
<1>12. ListingCovers'
  <2>1. Ids(items)' = Ids(Tail(items))
    BY <1>3 DEF Ids
  <2>2. QED
    BY <1>1, <1>3, <2>1 DEF PollInv, ListingCovers
<1>13. QED
  BY <1>6, <1>7, <1>8, <1>9, <1>10, <1>11, <1>12 DEF PollInv

\* A cached id that was not listed is reported DELETED and forgotten; it is
\* none of the ids the listing covers.
LEMMA ReportGoneKeeps ==
    ASSUME PollInv, NEW i \in Id, ReportGone(i)
    PROVE  PollInv'
<1> DEFINE event == [kind |-> kind, id |-> i, val |-> DeletedReport]
<1>0. kind \in Kind /\ cache \in [Kind -> [Id -> Report \cup {NoReport}]]
  BY DEF PollInv, TypeOK
<1>1. /\ event \in Call /\ event # NoReport
      /\ event.kind = kind /\ event.id = i /\ event.val = DeletedReport
  BY <1>0, CallFields, DeletedIsReport
<1>2. /\ pc = "gone" /\ call = NoReport /\ i \notin seen
      /\ call' = event
      /\ cache' = [cache EXCEPT ![kind][i] = NoReport]
      /\ UNCHANGED <<osac, pc, kind, cycle, items, offset, seen, cancelled,
                     reported, steady, gaps>>
  BY DEF ReportGone, Gone
<1> HIDE DEF event
<1>3. /\ \A k \in Kind, j \in Id :
            cache'[k][j] = IF k = kind /\ j = i THEN NoReport ELSE cache[k][j]
      /\ cache' \in [Kind -> [Id -> Report \cup {NoReport}]]
  BY <1>0, <1>2
<1>4. OneEntryPerId'
  BY <1>2 DEF PollInv, OneEntryPerId, Item
<1>5. TypeOK'
  BY <1>1, <1>2, <1>3 DEF PollInv, TypeOK, Item
<1>6. CacheIsLive'
  BY <1>3 DEF PollInv, CacheIsLive, LiveReport
<1>7. CacheIsLastReport'
  <2> SUFFICES ASSUME NEW k \in Kind, NEW j \in Id
               PROVE  IF cache'[k][j] = NoReport
                      THEN LastReport(k, j)' \in {NoReport, DeletedReport}
                      ELSE LastReport(k, j)' = cache'[k][j]
    BY DEF CacheIsLastReport
  <2>1. CASE k = kind /\ j = i
    <3>1. cache'[k][j] = NoReport
      BY <1>3, <2>1
    <3>2. LastReport(k, j)' = DeletedReport
      BY <1>1, <1>2, <2>1 DEF LastReport
    <3>3. QED
      BY <3>1, <3>2
  <2>2. CASE ~(k = kind /\ j = i)
    <3>1. cache'[k][j] = cache[k][j]
      BY <1>3, <2>2
    <3>2. LastReport(k, j)' = reported[k][j] /\ LastReport(k, j) = reported[k][j]
      BY <1>1, <1>2, <2>2 DEF LastReport
    <3>3. QED
      BY <3>1, <3>2 DEF PollInv, CacheIsLastReport
  <2>3. QED
    BY <2>1, <2>2
<1>8. CallBelongs'
  BY <1>1, <1>2 DEF CallBelongs
<1>9. PagesCover'
  BY <1>2 DEF PagesCover
<1>10. ListingCovers'
  BY <1>2 DEF PollInv, ListingCovers, Ids
<1>11. QED
  BY <1>4, <1>5, <1>6, <1>7, <1>8, <1>9, <1>10 DEF PollInv

\* Publish takes the value of the call: the last report stays what it was.
LEMMA PublishReturnsKeeps ==
    ASSUME PollInv, PublishReturns
    PROVE  PollInv'
<1>1. /\ call # NoReport /\ call' = NoReport
      /\ reported' = [reported EXCEPT ![call.kind][call.id] = call.val]
      /\ UNCHANGED <<osac, pc, kind, cycle, items, offset, seen, cache,
                     cancelled, steady, gaps>>
  BY DEF PublishReturns
<1>2. call.kind \in Kind /\ call.id \in Id /\ call.val \in Report
  BY <1>1 DEF PollInv, TypeOK, Call
<1>3. /\ reported \in [Kind -> [Id -> Report \cup {NoReport}]]
      /\ reported' \in [Kind -> [Id -> Report \cup {NoReport}]]
      /\ \A k \in Kind, i \in Id :
            reported'[k][i] = IF k = call.kind /\ i = call.id
                              THEN call.val ELSE reported[k][i]
  BY <1>1, <1>2 DEF PollInv, TypeOK
<1>4. OneEntryPerId'
  BY <1>1 DEF PollInv, OneEntryPerId, Item
<1>5. TypeOK'
  BY <1>1, <1>3 DEF PollInv, TypeOK, Item
<1>6. CacheIsLive'
  BY <1>1 DEF PollInv, CacheIsLive, LiveReport
<1>7. CacheIsLastReport'
  <2>1. \A k \in Kind, i \in Id : LastReport(k, i)' = LastReport(k, i)
    BY <1>1, <1>3 DEF LastReport
  <2>2. QED
    BY <1>1, <2>1 DEF PollInv, CacheIsLastReport
<1>8. CallBelongs' /\ PagesCover' /\ ListingCovers'
  BY <1>1 DEF PollInv, CallBelongs, PagesCover, ListingCovers, Present, Ids
<1>9. QED
  BY <1>4, <1>5, <1>6, <1>7, <1>8 DEF PollInv

\* A step that touches nothing the invariant relates keeps it.
LEMMA IdleStepsKeep ==
    ASSUME PollInv, ItemsHandled \/ Stop \/ Cancel \/ UNCHANGED vars
    PROVE  PollInv'
<1> USE DEF PollInv
<1>1. /\ UNCHANGED <<osac, kind, cycle, items, offset, seen, cache, call,
                     reported, steady, gaps>>
      /\ \/ pc' = pc
         \/ pc = "items" /\ call = NoReport /\ items = <<>> /\ pc' = "gone"
         \/ pc = "idle" /\ pc' = "done"
      /\ cancelled' \in BOOLEAN
  <2>1. cancelled \in BOOLEAN
    BY DEF TypeOK
  <2>2. QED
    BY <2>1, Zenon DEF ItemsHandled, Stop, Cancel, vars, pollVars
<1>2. OneEntryPerId'
  BY <1>1 DEF OneEntryPerId, Item
<1>3. TypeOK'
  BY <1>1 DEF TypeOK, Item
<1>4. CacheIsLive' /\ CacheIsLastReport'
  BY <1>1 DEF CacheIsLive, LiveReport, CacheIsLastReport, LastReport
<1>5. CallBelongs'
  BY <1>1 DEF CallBelongs
<1>6. PagesCover' /\ ListingCovers'
  BY <1>1 DEF PagesCover, ListingCovers, Present, Ids
<1>7. QED
  BY <1>2, <1>3, <1>4, <1>5, <1>6

\* Every step keeps the invariant.
LEMMA PollStepKeeps == PollInv /\ [Next]_vars => PollInv'
<1> SUFFICES ASSUME PollInv, [Next]_vars
             PROVE  PollInv'
  OBVIOUS
<1>1. CASE OsacStep
  BY <1>1, OsacKeeps
<1>2. CASE ListPage
  BY <1>2, ListPageKeeps
<1>3. CASE ListFails
  <2>1. call = NoReport
    BY <1>3 DEF ListFails, PollInv, CallBelongs
  <2>2. QED
    BY <1>3, <2>1, FinishKeeps DEF ListFails
<1>4. CASE HandleItem
  BY <1>4, HandleItemKeeps
<1>5. CASE \E i \in Id : ReportGone(i)
  BY <1>5, ReportGoneKeeps
<1>6. CASE GoneHandled
  BY <1>6, FinishKeeps DEF GoneHandled
<1>7. CASE NextCycle
  <2>1. call = NoReport /\ "cluster" \in Kind
    BY <1>7 DEF NextCycle, PollInv, CallBelongs, Kind
  <2>2. QED
    BY <1>7, <2>1, BeginKeeps DEF NextCycle
<1>8. CASE PublishReturns
  BY <1>8, PublishReturnsKeeps
<1>9. CASE ItemsHandled \/ Stop \/ Cancel \/ UNCHANGED vars
  BY <1>9, IdleStepsKeep
<1>10. QED
  BY <1>1, <1>2, <1>3, <1>4, <1>5, <1>6, <1>7, <1>8, <1>9 DEF Next, PollStep

\* The invariant holds throughout.
LEMMA PollInvariant == Spec => []PollInv
<1>1. QED
  BY PollInit, PollStepKeeps, PTL DEF Spec

-----------------------------------------------------------------------------
(* The theorems. *)

\* Type correctness: in particular the offset, the cycle counter and the items
\* of a listing stay what pollClusters and pollVMs take them for.
THEOREM TypeCorrect == Spec => []TypeOK
<1>1. PollInv => TypeOK
  BY DEF PollInv
<1>2. QED
  BY <1>1, PollInvariant, PTL

\* REQ-POLL-040: the caches of the poller are what it last gave to Publish,
\* whatever listings failed and whatever OSAC did in between.
THEOREM CacheTellsLastReport == Spec => []CacheIsLastReport
<1>1. PollInv => CacheIsLastReport
  BY DEF PollInv
<1>2. QED
  BY <1>1, PollInvariant, PTL

\* REQ-POLL-020, 050, 090: whatever lengths and totals OSAC gives its pages, a
\* resource that it held all through a listing is reported gone only if during
\* that listing another one was deleted, two changed places, or OSAC ended it
\* before its last resource; so never for a List call that failed.
THEOREM GapsAloneMislead == Spec => []OnlyGapsMislead
<1>1. PollInv => OnlyGapsMislead
  <2> SUFFICES ASSUME PollInv, call # NoReport, call.val = DeletedReport, gaps = {}
               PROVE  call.id \notin steady
    BY DEF OnlyGapsMislead
  <2>1. pc = "gone" /\ call.id \notin seen /\ items = <<>>
    BY DEF PollInv, CallBelongs, ListingCovers
  <2>2. steady \subseteq seen
    BY <2>1 DEF PollInv, ListingCovers, Ids
  <2>3. QED
    BY <2>1, <2>2
<1>2. QED
  BY <1>1, PollInvariant, PTL

\* REQ-POLL-050, AC-POLL-030: DELETED is only reported of a resource whose
\* last report was a live one, so once per disappearance.
THEOREM DeletedIsOnce == Spec => DeletedOnce
<1> DEFINE Once == call' # call /\ call' # NoReport =>
                     (call'.val = DeletedReport =>
                        reported[call'.kind][call'.id] \in LiveReport(call'.kind))
<1>1. PollInv /\ [Next]_vars => [Once]_vars
  <2> SUFFICES ASSUME PollInv, Next, call' # call, call' # NoReport,
                      call'.val = DeletedReport
               PROVE  reported[call'.kind][call'.id] \in LiveReport(call'.kind)
    BY DEF vars
  <2>1. HandleItem \/ \E i \in Id : ReportGone(i)
    <3>1. ListFails \/ GoneHandled \/ NextCycle => call' = call
      BY DEF ListFails, GoneHandled, NextCycle
    <3>2. OsacStep => call' = call
      BY DEF OsacStep, OsacCreate, OsacUpdate, OsacDelete, OsacReorder, pollVars
    <3>3. ListPage \/ ItemsHandled \/ Stop \/ Cancel => call' = call
      BY DEF ListPage, ItemsHandled, Stop, Cancel, pollVars
    <3>4. PublishReturns => call' = NoReport
      BY DEF PublishReturns
    <3>5. QED
      BY <3>1, <3>2, <3>3, <3>4 DEF Next, PollStep
  <2>2. ~HandleItem
    <3> SUFFICES ASSUME HandleItem
                 PROVE  call'.val # DeletedReport
      OBVIOUS
    <3>0. kind \in Kind /\ items \in Seq(Item(kind)) /\ items # <<>>
      BY DEF PollInv, TypeOK, HandleItem
    <3>1. kind \in Kind /\ Head(items).raw \in RawStatus[kind]
      BY <3>0, HeadTailProperties DEF Item
    <3>2. ItemReport(Head(items).raw) # DeletedReport
      BY <3>1, ReportIsLive DEF ItemReport
    <3>3. QED
      BY <3>2 DEF HandleItem
  <2>3. PICK i \in Id : ReportGone(i)
    BY <2>1, <2>2
  <2>4. /\ call = NoReport /\ cache[kind][i] # NoReport /\ kind \in Kind
        /\ call'.kind = kind /\ call'.id = i
    BY <2>3 DEF ReportGone, Gone, PollInv, TypeOK
  <2>5. reported[kind][i] = cache[kind][i]
    BY <2>4 DEF PollInv, CacheIsLastReport, LastReport
  <2>6. QED
    BY <2>4, <2>5 DEF PollInv, CacheIsLive
<1>2. QED
  BY <1>1, PollInvariant, PTL DEF Spec, DeletedOnce
=============================================================================
