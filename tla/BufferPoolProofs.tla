-------------------------- MODULE BufferPoolProofs --------------------------
(***************************************************************************)
(* What TLAPS proves of the buffer pool, for every capacity, number of     *)
(* pages and set of page contents.                                         *)
(***************************************************************************)
EXTENDS BufferPool, SequenceTheorems, FiniteSetTheorems, TLAPS

-----------------------------------------------------------------------------
(* The order of the cache.                                                 *)

NoDup(s) == \A i, j \in 1 .. Len(s) : s[i] = s[j] => i = j
Elems(s) == {s[i] : i \in 1 .. Len(s)}

LEMMA MoveToEndProperties ==
  ASSUME NEW S, NEW s \in Seq(S), NEW i \in 1 .. Len(s), NoDup(s)
  PROVE  /\ MoveToEnd(s, i) \in Seq(S) /\ Len(MoveToEnd(s, i)) = Len(s)
         /\ NoDup(MoveToEnd(s, i))
         /\ Elems(MoveToEnd(s, i)) = Elems(s)
<1> DEFINE t == MoveToEnd(s, i)
<1>1. /\ Len(s) \in Nat /\ i \in Nat
      /\ t \in [1 .. Len(s) -> S]
      /\ \A j \in 1 .. Len(s) :
           t[j] = IF j < i THEN s[j] ELSE IF j < Len(s) THEN s[j + 1] ELSE s[i]
  BY DEF MoveToEnd
<1>2. t \in Seq(S) /\ Len(t) = Len(s)
  BY <1>1
<1>3. NoDup(t)
  BY <1>1, <1>2 DEF NoDup
<1>4. ASSUME NEW x \in Elems(s) PROVE x \in Elems(t)
  <2>1. PICK k \in 1 .. Len(s) : s[k] = x
    BY <1>4 DEF Elems
  <2>2. CASE k < i
    BY <1>1, <1>2, <2>1, <2>2 DEF Elems
  <2>3. CASE k = i
    <3>1. Len(s) \in 1 .. Len(s) /\ t[Len(s)] = s[i]
      BY <1>1, <2>1, <2>3
    <3> QED BY <1>2, <2>1, <2>3, <3>1 DEF Elems
  <2>4. CASE k > i
    <3>1. /\ k - 1 \in 1 .. Len(s) /\ ~(k - 1 < i) /\ k - 1 < Len(s)
          /\ (k - 1) + 1 = k
      BY <1>1, <2>1, <2>4
    <3>2. t[k - 1] = s[(k - 1) + 1]
      BY <1>1, <3>1
    <3> QED BY <1>2, <2>1, <3>1, <3>2 DEF Elems
  <2> QED BY <1>1, <2>1, <2>2, <2>3, <2>4
<1>5. ASSUME NEW x \in Elems(t) PROVE x \in Elems(s)
  <2>1. PICK k \in 1 .. Len(s) : t[k] = x
    BY <1>2, <1>5 DEF Elems
  <2> QED BY <1>1, <2>1 DEF Elems
<1> QED BY <1>2, <1>3, <1>4, <1>5

(* Evicting the front of the cache, and admitting a page at its end.       *)
LEMMA TailProperties ==
  ASSUME NEW S, NEW s \in Seq(S), s # << >>, NoDup(s)
  PROVE  /\ Tail(s) \in Seq(S) /\ Len(Tail(s)) = Len(s) - 1
         /\ NoDup(Tail(s)) /\ Elems(Tail(s)) = Elems(s) \ {s[1]}
         /\ s[1] \in Elems(s)
<1>1. /\ Len(s) \in Nat \ {0}
      /\ Tail(s) \in Seq(S) /\ Len(Tail(s)) = Len(s) - 1
      /\ \A j \in 1 .. Len(s) - 1 : Tail(s)[j] = s[j + 1]
  BY HeadTailProperties, EmptySeq
<1>2. NoDup(Tail(s))
  BY <1>1 DEF NoDup
<1>3. ASSUME NEW x \in Elems(s), x # s[1] PROVE x \in Elems(Tail(s))
  <2>1. PICK k \in 1 .. Len(s) : s[k] = x
    BY <1>3 DEF Elems
  <2>2. k - 1 \in 1 .. Len(s) - 1 /\ Tail(s)[k - 1] = x
    BY <1>1, <1>3, <2>1
  <2> QED BY <1>1, <2>2 DEF Elems
<1>4. ASSUME NEW x \in Elems(Tail(s)) PROVE x \in Elems(s) /\ x # s[1]
  <2>1. PICK k \in 1 .. Len(s) - 1 : Tail(s)[k] = x
    BY <1>1, <1>4 DEF Elems
  <2>2. k + 1 \in 1 .. Len(s) /\ s[k + 1] = x /\ 1 \in 1 .. Len(s)
    BY <1>1, <2>1
  <2>3. s[k + 1] # s[1]
    BY <2>1, <2>2 DEF NoDup
  <2> QED BY <2>2, <2>3 DEF Elems
<1>5. s[1] \in Elems(s)
  BY <1>1 DEF Elems
<1> QED BY <1>1, <1>2, <1>3, <1>4, <1>5

LEMMA AppendNew ==
  ASSUME NEW S, NEW s \in Seq(S), NoDup(s), NEW x \in S, x \notin Elems(s)
  PROVE  /\ Append(s, x) \in Seq(S) /\ Len(Append(s, x)) = Len(s) + 1
         /\ NoDup(Append(s, x)) /\ Elems(Append(s, x)) = Elems(s) \cup {x}
<1>1. /\ Append(s, x) \in Seq(S) /\ Len(Append(s, x)) = Len(s) + 1
      /\ Len(s) \in Nat
      /\ \A i \in 1 .. Len(s) : Append(s, x)[i] = s[i]
      /\ Append(s, x)[Len(s) + 1] = x
  BY AppendProperties
<1>2. NoDup(Append(s, x))
  BY <1>1 DEF NoDup, Elems
<1>3. Elems(Append(s, x)) = Elems(s) \cup {x}
  BY <1>1 DEF Elems
<1> QED BY <1>1, <1>2, <1>3

-----------------------------------------------------------------------------
(* The invariant.                                                          *)

LEMMA CachedIsElems == Cached = Elems(lru)
BY DEF Cached, Elems

LEMMA TypeNoDup == TypeOK => NoDup(lru) /\ lru \in Seq(Page)
BY DEF TypeOK, NoDup

LEMMA CachedPages == TypeOK => Cached \subseteq Page
BY DEF TypeOK, Cached

(* What _admit does: page p is cached with contents v, at most one other   *)
(* page leaves the cache, and no page reads differently for it.            *)
LEMMA AdmitProperties ==
  ASSUME TypeOK, CleanMatchesDisk,
         NEW p \in Page, p \notin Cached, NEW v \in Value,
         NEW f \in [Page -> Value \cup {Absent}],
         f[p] = v, \A q \in Page \ {p} : f[q] = disk[q],
         Admit(p, v, f), ~busy,
         cand' \in [Page -> SUBSET (Value \cup {Absent})]
  PROVE  /\ TypeOK' /\ CleanMatchesDisk'
         /\ View' = [View EXCEPT ![p] = v]
         /\ disk'[p] = v /\ \A q \in Page \ {p} : disk'[q] \in {disk[q], View[q]}
         /\ dirty \subseteq Cached => dirty' \subseteq Cached'
         /\ ~busy'
<1>1. lru \in Seq(Page) /\ NoDup(lru) /\ Len(lru) \in Nat /\ Len(lru) <= Capacity
  BY TypeNoDup DEF TypeOK
<1> DEFINE left == IF Full THEN Cached \ {lru[1]} ELSE Cached
<1>2. PICK rest \in Seq(Page) :
        /\ lru' = Append(rest, p) /\ NoDup(rest) /\ Len(rest) \in Nat
        /\ Len(rest) < Capacity /\ Elems(rest) = left
        /\ Full => lru[1] \in Cached
  <2>1. CASE Full
    <3>1. lru # << >>
      BY <1>1, <2>1, PoolAssumption, EmptySeq DEF Full
    <3>2. /\ Tail(lru) \in Seq(Page) /\ Len(Tail(lru)) = Len(lru) - 1
          /\ NoDup(Tail(lru)) /\ Elems(Tail(lru)) = left /\ lru[1] \in Cached
      BY <1>1, <2>1, <3>1, TailProperties, CachedIsElems
    <3>3. Len(Tail(lru)) \in Nat /\ Len(Tail(lru)) < Capacity
      BY <1>1, <3>1, <3>2, PoolAssumption, EmptySeq
    <3>4. lru' = Append(Tail(lru), p)
      BY <2>1 DEF Admit
    <3> QED BY <3>2, <3>3, <3>4
  <2>2. CASE ~Full
    <3>1. lru' = Append(lru, p)
      BY <2>2 DEF Admit
    <3> QED BY <1>1, <2>2, <3>1, CachedIsElems, PoolAssumption DEF Full
  <2> QED BY <2>1, <2>2
<1>3. /\ lru' \in Seq(Page) /\ NoDup(lru') /\ Len(lru') <= Capacity
      /\ Cached' = left \cup {p}
  <2>1. p \notin Elems(rest)
    BY <1>2
  <2>2. /\ lru' \in Seq(Page) /\ NoDup(lru') /\ Len(lru') = Len(rest) + 1
        /\ Elems(lru') = Elems(rest) \cup {p}
    BY <1>2, <2>1, AppendNew
  <2>3. Cached' = Elems(lru')
    BY DEF Cached, Elems
  <2> QED BY <1>2, <2>2, <2>3, PoolAssumption
<1>4. /\ copy' \in [Page -> Value \cup {NoCopy}]
      /\ \A q \in Page : copy'[q] = IF q = p THEN v
                        ELSE IF Full /\ q = lru[1] THEN NoCopy ELSE copy[q]
  BY DEF Admit, TypeOK
<1>5. /\ disk' \in [Page -> Value \cup {Absent}]
      /\ \A q \in Page : disk'[q] = IF Full /\ lru[1] \in dirty /\ q = lru[1]
                                  THEN copy[q] ELSE f[q]
  <2>1. CASE Full /\ lru[1] \in dirty
    <3>1. copy[lru[1]] \in Value /\ lru[1] \in Page
      BY <1>2, <2>1 DEF TypeOK
    <3>2. disk' = [f EXCEPT ![lru[1]] = copy[lru[1]]]
      BY <2>1 DEF Admit
    <3> QED BY <2>1, <3>1, <3>2
  <2>2. CASE ~(Full /\ lru[1] \in dirty)
    <3>1. disk' = f
      BY <2>2 DEF Admit
    <3> QED BY <2>2, <3>1
  <2> QED BY <2>1, <2>2
<1>6. dirty' = dirty \ (IF Full THEN {lru[1]} ELSE {})
  BY DEF Admit
<1>7. Full => lru[1] # p
  BY <1>2
<1>8. /\ held' = p /\ flushing' = flushing /\ busy' = busy
  BY DEF Admit
<1>9. \A q \in Page : IF q \in Cached' THEN copy'[q] \in Value /\ disk'[q] # Absent
                                       ELSE copy'[q] = NoCopy
  BY <1>2, <1>3, <1>4, <1>5, <1>7, PoolAssumption DEF TypeOK
<1>10. TypeOK'
  <2>1. /\ dirty' \in SUBSET Page /\ flushing' = {} /\ busy' \in BOOLEAN
    BY <1>6, <1>8 DEF TypeOK
  <2>2. held' \in Cached' \cup {Nothing}
    BY <1>3, <1>8
  <2>3. \A i, j \in 1 .. Len(lru') : lru'[i] = lru'[j] => i = j
    BY <1>3 DEF NoDup
  <2> QED BY <1>3, <1>4, <1>5, <1>8, <1>9, <2>1, <2>2, <2>3 DEF TypeOK
<1>11. CleanMatchesDisk'
  <2> SUFFICES ASSUME NEW q \in Cached', q \notin dirty'
               PROVE  copy'[q] = disk'[q]
    BY DEF CleanMatchesDisk
  <2>1. q \in Page
    BY <1>3 DEF Elems, TypeOK, Cached
  <2>2. CASE q = p
    BY <1>4, <1>5, <1>7, <2>2
  <2>3. CASE q # p
    <3>1. q \in Cached /\ ~(Full /\ q = lru[1])
      BY <1>3, <2>3
    <3>2. copy[q] = disk[q]
      BY <1>6, <3>1 DEF CleanMatchesDisk
    <3> QED BY <1>4, <1>5, <2>1, <2>3, <3>1, <3>2
  <2> QED BY <2>2, <2>3
<1>12. View' = [View EXCEPT ![p] = v]
  <2>1. \A q \in Page : View'[q] = IF q = p THEN v ELSE View[q]
    BY <1>2, <1>3, <1>4, <1>5, <1>7 DEF View, CleanMatchesDisk, TypeOK
  <2> QED BY <2>1 DEF View
<1>13. disk'[p] = v /\ \A q \in Page \ {p} : disk'[q] \in {disk[q], View[q]}
  BY <1>2, <1>5, <1>7 DEF View
<1> QED BY <1>2, <1>3, <1>6, <1>8, <1>10, <1>11, <1>12, <1>13

(* What an _admit whose write raises does: the victim is no longer cached. *)
LEMMA AdmitFailsProperties ==
  ASSUME TypeOK, CleanMatchesDisk,
         NEW f \in [Page -> Value \cup {Absent}],
         \A q \in Page : f[q] = disk[q] \/ (disk[q] = Absent /\ f[q] = Empty),
         NEW p \in Page, AdmitFails(p, f), ~busy,
         cand' \in [Page -> SUBSET (Value \cup {Absent})]
  PROVE  /\ TypeOK' /\ CleanMatchesDisk' /\ ~busy'
         /\ disk' = f
         /\ \A q \in Page : View'[q] \in {f[q], View[q]} /\ (q \notin Cached => View'[q] = f[q])
         /\ \E q \in Cached :
              /\ View'[q] = f[q]
              /\ \A r \in Page \ {q} : View'[r] = IF r \in Cached THEN View[r] ELSE f[r]
<1>1. lru \in Seq(Page) /\ NoDup(lru) /\ Len(lru) \in Nat /\ Len(lru) <= Capacity
  BY TypeNoDup DEF TypeOK
<1>2. /\ lru # << >> /\ lru' = Tail(lru) /\ lru[1] \in Page
  BY <1>1, PoolAssumption, EmptySeq DEF Full, AdmitFails
<1>3. /\ lru' \in Seq(Page) /\ Len(lru') <= Capacity /\ NoDup(lru')
      /\ Cached' = Cached \ {lru[1]} /\ lru[1] \in Cached
  <2>1. Cached' = Elems(lru')
    BY DEF Cached, Elems
  <2> QED BY <1>1, <1>2, <2>1, TailProperties, CachedIsElems, PoolAssumption
<1>4. /\ copy' = [copy EXCEPT ![lru[1]] = NoCopy] /\ disk' = f
      /\ held' = Nothing /\ dirty' = dirty /\ flushing' = flushing /\ busy' = busy
  BY DEF AdmitFails
<1>5. \A q \in Page : IF q \in Cached' THEN copy'[q] \in Value /\ disk'[q] # Absent
                                       ELSE copy'[q] = NoCopy
  BY <1>2, <1>3, <1>4, PoolAssumption DEF TypeOK, Value
<1>6. TypeOK'
  BY <1>2, <1>3, <1>4, <1>5 DEF TypeOK, NoDup
<1>7. CleanMatchesDisk'
  <2> SUFFICES ASSUME NEW q \in Cached', q \notin dirty'
               PROVE  copy'[q] = disk'[q]
    BY DEF CleanMatchesDisk
  <2>1. q \in Cached /\ q # lru[1] /\ q \in Page
    BY <1>3, CachedPages
  <2>2. copy[q] = disk[q] /\ disk[q] # Absent
    BY <1>4, <2>1 DEF CleanMatchesDisk, TypeOK
  <2> QED BY <1>2, <1>4, <2>1, <2>2 DEF TypeOK
<1>8. \A q \in Page : View'[q] \in {f[q], View[q]} /\ (q \notin Cached => View'[q] = f[q])
  BY <1>2, <1>3, <1>4 DEF View, TypeOK
<1>9. /\ View'[lru[1]] = f[lru[1]]
      /\ \A r \in Page \ {lru[1]} : View'[r] = IF r \in Cached THEN View[r] ELSE f[r]
  BY <1>2, <1>3, <1>4 DEF View, TypeOK
<1> QED BY <1>3, <1>4, <1>6, <1>7, <1>8, <1>9

LEMMA CoherentInit == Init => Coherent
<1> SUFFICES ASSUME Init PROVE Coherent
  OBVIOUS
<1>1. Cached = {} /\ lru \in Seq(Page) /\ Len(lru) = 0
  BY DEF Init, Cached
<1>2. busy \in BOOLEAN
  BY Zenon DEF Init
<1> QED BY <1>1, <1>2, PoolAssumption
        DEF Init, Coherent, TypeOK, CleanMatchesDisk, FlushProgress, CandidatesKept, View

LEMMA ViewType == TypeOK => View \in [Page -> Value \cup {Absent}]
BY DEF TypeOK, View

-----------------------------------------------------------------------------
(* The invariant.                                                          *)

LEMMA CoherentNext ==
  ASSUME Coherent, [Next]_vars
  PROVE  Coherent'
<1> USE DEF Coherent
<1>1. ASSUME NEW p \in Page, GetHit(p) PROVE Coherent'
  <2>1. PICK i \in 1 .. Len(lru) : lru[i] = p /\ lru' = MoveToEnd(lru, i)
    BY <1>1 DEF GetHit
  <2>2. /\ lru' \in Seq(Page) /\ Len(lru') = Len(lru) /\ NoDup(lru')
        /\ Cached' = Cached /\ p \in Cached
    <3>1. Cached' = Elems(lru')
      BY DEF Cached, Elems
    <3> QED BY <2>1, <3>1, MoveToEndProperties, TypeNoDup, CachedIsElems DEF Cached
  <2> QED BY <1>1, <2>2
          DEF GetHit, TypeOK, NoDup, CleanMatchesDisk, FlushProgress, CandidatesKept, View
<1>2. ASSUME NEW p \in Page, GetMiss(p) PROVE Coherent'
  <2>1. disk[p] \in Value /\ disk \in [Page -> Value \cup {Absent}] /\ ~busy
    BY <1>2 DEF GetMiss, TypeOK
  <2>2. cand' = cand /\ cand' \in [Page -> SUBSET (Value \cup {Absent})]
    BY <1>2 DEF GetMiss, TypeOK
  <2>3. CASE Admit(p, disk[p], disk)
    <3>1. /\ TypeOK' /\ CleanMatchesDisk' /\ ~busy' /\ View' = [View EXCEPT ![p] = disk[p]]
          /\ disk'[p] = disk[p] /\ \A q \in Page \ {p} : disk'[q] \in {disk[q], View[q]}
      BY <1>2, <2>1, <2>2, <2>3, AdmitProperties DEF GetMiss
    <3>2. View'[p] = disk[p] /\ \A q \in Page \ {p} : View'[q] = View[q]
      BY <3>1, ViewType
    <3> QED BY <2>2, <3>1, <3>2 DEF FlushProgress, CandidatesKept
  <2>4. CASE AdmitFails(p, disk)
    <3>1. /\ TypeOK' /\ CleanMatchesDisk' /\ ~busy' /\ disk' = disk
          /\ \A q \in Page : View'[q] \in {disk[q], View[q]}
      BY <2>1, <2>2, <2>4, AdmitFailsProperties
    <3> QED BY <2>2, <3>1 DEF FlushProgress, CandidatesKept
  <2> QED BY <1>2, <2>3, <2>4 DEF GetMiss
<1>3. CASE NewPage
  <2>1. PICK p \in Page :
          /\ disk[p] = Absent
          /\ \/ Admit(p, Empty, [disk EXCEPT ![p] = Empty])
             \/ AdmitFails(p, [disk EXCEPT ![p] = Empty])
          /\ cand' = [cand EXCEPT ![p] = {Empty}]
    BY <1>3 DEF NewPage
  <2> DEFINE f == [disk EXCEPT ![p] = Empty]
  <2>2. /\ f \in [Page -> Value \cup {Absent}] /\ f[p] = Empty /\ Empty \in Value
        /\ \A q \in Page \ {p} : f[q] = disk[q]
        /\ p \notin Cached /\ ~busy
    BY <1>3, <2>1 DEF TypeOK, Value, NewPage
  <2>3. /\ cand' \in [Page -> SUBSET (Value \cup {Absent})]
        /\ cand'[p] = {Empty} /\ \A q \in Page \ {p} : cand'[q] = cand[q]
    BY <2>1, <2>2 DEF TypeOK
  <2>4. CASE Admit(p, Empty, f)
    <3>1. /\ TypeOK' /\ CleanMatchesDisk' /\ ~busy' /\ View' = [View EXCEPT ![p] = Empty]
          /\ disk'[p] = Empty /\ \A q \in Page \ {p} : disk'[q] \in {disk[q], View[q]}
      BY <2>2, <2>3, <2>4, AdmitProperties
    <3>2. View'[p] = Empty /\ \A q \in Page \ {p} : View'[q] = View[q]
      BY <3>1, ViewType
    <3> QED BY <2>3, <3>1, <3>2 DEF FlushProgress, CandidatesKept
  <2>5. CASE AdmitFails(p, f)
    <3>1. /\ TypeOK' /\ CleanMatchesDisk' /\ ~busy' /\ disk' = f
          /\ \A q \in Page : View'[q] \in {f[q], View[q]} /\ (q \notin Cached => View'[q] = f[q])
      BY <2>1, <2>2, <2>3, <2>5, AdmitFailsProperties
    <3>2. \A q \in Page \ {p} : View'[q] \in cand'[q] /\ disk'[q] \in cand'[q]
      BY <2>2, <2>3, <3>1 DEF CandidatesKept
    <3> QED BY <2>2, <2>3, <3>1, <3>2 DEF FlushProgress, CandidatesKept
  <2> QED BY <2>1, <2>4, <2>5
<1>4. ASSUME NEW v \in Images, Modify(v) PROVE Coherent'
  <2>1. held \in Cached /\ held \in Page /\ Cached' = Cached /\ v \in Value /\ v # NoCopy
    BY <1>4, CachedPages, PoolAssumption DEF Modify, TypeOK, Cached, Value
  <2>2. TypeOK'
    BY <1>4, <2>1 DEF Modify, TypeOK
  <2>3. CleanMatchesDisk' /\ FlushProgress'
    BY <1>4, <2>1, CachedPages DEF Modify, CleanMatchesDisk, FlushProgress, TypeOK
  <2>4. CandidatesKept'
    BY <1>4, <2>1 DEF Modify, CandidatesKept, View, TypeOK
  <2> QED BY <2>2, <2>3, <2>4
<1>5. ASSUME NEW p \in Page, FlushPage(p) PROVE Coherent'
  <2>1. Cached' = Cached
    BY <1>5 DEF FlushPage, Cached
  <2>2. copy[p] \in Value /\ Absent \notin Value
    BY <1>5, PoolAssumption DEF FlushPage, TypeOK
  <2>3. TypeOK'
    BY <1>5, <2>1, <2>2 DEF FlushPage, TypeOK
  <2>4. CleanMatchesDisk' /\ FlushProgress'
    BY <1>5, <2>1, CachedPages DEF FlushPage, CleanMatchesDisk, FlushProgress, TypeOK
  <2>5. CandidatesKept'
    BY <1>5, <2>1 DEF FlushPage, CandidatesKept, View, TypeOK
  <2> QED BY <2>3, <2>4, <2>5
<1>6. CASE FlushAll
  <2>1. busy' = TRUE
    BY <1>6 DEF FlushAll
  <2>2. TypeOK'
    BY <1>6 DEF FlushAll, TypeOK, Cached
  <2> QED BY <1>6, <2>2
          DEF FlushAll, CleanMatchesDisk, FlushProgress, CandidatesKept, View, Cached
<1>7. ASSUME NEW p \in Page, FlushOne(p) PROVE Coherent'
  <2>1. Cached' = Cached
    BY <1>7 DEF FlushOne, Cached
  <2>2. copy[p] \in Value /\ Absent \notin Value
    BY <1>7, PoolAssumption DEF FlushOne, TypeOK
  <2>3. TypeOK'
    BY <1>7, <2>1, <2>2 DEF FlushOne, TypeOK
  <2>4. CleanMatchesDisk' /\ FlushProgress'
    BY <1>7, <2>1, CachedPages DEF FlushOne, CleanMatchesDisk, FlushProgress, TypeOK
  <2>5. CandidatesKept'
    BY <1>7, <2>1 DEF FlushOne, CandidatesKept, View, TypeOK
  <2> QED BY <2>3, <2>4, <2>5
<1>8. CASE FlushRaises
  <2>1. TypeOK'
    <3>1. busy' \in BOOLEAN
      BY <1>8, Zenon DEF FlushRaises
    <3> QED BY <1>8, <3>1 DEF FlushRaises, TypeOK, Cached
  <2> QED BY <1>8, <2>1
          DEF FlushRaises, CleanMatchesDisk, FlushProgress, CandidatesKept, View, Cached
<1>9. CASE FlushDone
  <2>1. Cached' = Cached /\ View' = View
    BY <1>9 DEF FlushDone, Cached, View
  <2>2. \A p \in Page : disk[p] = View[p]
    BY <1>9, CachedPages DEF FlushDone, FlushProgress, CleanMatchesDisk, View
  <2>3. TypeOK'
    <3>1. cand' \in [Page -> SUBSET (Value \cup {Absent})]
      BY <1>9, ViewType DEF FlushDone
    <3> QED BY <1>9, <2>1, <3>1 DEF FlushDone, TypeOK
  <2>4. CleanMatchesDisk'
    BY <1>9, <2>1, <2>2, CachedPages DEF FlushDone, CleanMatchesDisk, View
  <2> QED BY <1>9, <2>1, <2>2, <2>3, <2>4 DEF FlushDone, FlushProgress, CandidatesKept
<1>10. CASE Kill
  <2>1. Cached' = {} /\ lru' \in Seq(Page) /\ Len(lru') = 0
    BY <1>10 DEF Kill, Cached
  <2>2. TypeOK'
    <3>1. busy' \in BOOLEAN
      BY <1>10, Zenon DEF Kill
    <3>2. /\ copy' \in [Page -> Value \cup {NoCopy}] /\ \A p \in Page : copy'[p] = NoCopy
          /\ cand' \in [Page -> SUBSET (Value \cup {Absent})]
      BY <1>10 DEF Kill, TypeOK
    <3> QED BY <1>10, <2>1, <3>1, <3>2, PoolAssumption DEF Kill, TypeOK
  <2> QED BY <1>10, <2>1, <2>2
          DEF Kill, CleanMatchesDisk, FlushProgress, CandidatesKept, View
<1>11. CASE UNCHANGED vars
  BY <1>11 DEF vars, TypeOK, CleanMatchesDisk, FlushProgress, CandidatesKept, View, Cached
<1> QED
  BY <1>1, <1>2, <1>3, <1>4, <1>5, <1>6, <1>7, <1>8, <1>9, <1>10, <1>11 DEF Next

(* The cache keeps its bound and its contents agree with the file wherever *)
(* a page is clean, I/O errors included (get_page, _admit, flush_all).     *)
THEOREM PoolCoherent == Spec => []Coherent
BY CoherentInit, CoherentNext, PTL DEF Spec

-----------------------------------------------------------------------------
(* The refinement.                                                         *)

LEMMA PromiseInit == Init => Promise!Initially
<1> SUFFICES ASSUME Init PROVE Promise!Initially
  OBVIOUS
<1>1. Cached = {}
  BY DEF Init, Cached
<1> QED BY <1>1 DEF Init, Promise!Initially, View

LEMMA DirtyCachedNext ==
  ASSUME ~IOErrors, Coherent, DirtyCached, [Next]_vars
  PROVE  DirtyCached'
<1> USE DEF Coherent, DirtyCached
<1>1. ASSUME NEW p \in Page, GetHit(p) PROVE DirtyCached'
  <2>1. PICK i \in 1 .. Len(lru) : lru' = MoveToEnd(lru, i)
    BY <1>1 DEF GetHit
  <2>2. Elems(lru') = Elems(lru)
    BY <2>1, MoveToEndProperties, TypeNoDup
  <2> QED BY <1>1, <2>2 DEF GetHit, Cached, Elems
<1>2. ASSUME NEW p \in Page, GetMiss(p) PROVE DirtyCached'
  <2>1. /\ disk[p] \in Value /\ disk \in [Page -> Value \cup {Absent}]
        /\ cand' \in [Page -> SUBSET (Value \cup {Absent})]
    BY <1>2 DEF GetMiss, TypeOK
  <2>2. Admit(p, disk[p], disk)
    BY <1>2 DEF GetMiss, AdmitFails
  <2> QED BY <1>2, <2>1, <2>2, AdmitProperties DEF GetMiss
<1>3. CASE NewPage
  <2>1. PICK p \in Page :
          /\ disk[p] = Absent
          /\ Admit(p, Empty, [disk EXCEPT ![p] = Empty])
          /\ cand' = [cand EXCEPT ![p] = {Empty}]
    BY <1>3 DEF NewPage, AdmitFails
  <2> DEFINE f == [disk EXCEPT ![p] = Empty]
  <2>2. /\ f \in [Page -> Value \cup {Absent}] /\ f[p] = Empty /\ Empty \in Value
        /\ \A q \in Page \ {p} : f[q] = disk[q]
        /\ p \notin Cached /\ ~busy
        /\ cand' \in [Page -> SUBSET (Value \cup {Absent})]
    BY <1>3, <2>1 DEF TypeOK, Value, NewPage
  <2> QED BY <2>1, <2>2, AdmitProperties
<1>4. ASSUME NEW v \in Images, Modify(v) PROVE DirtyCached'
  BY <1>4 DEF Modify, TypeOK, Cached
<1>5. ASSUME NEW p \in Page, FlushPage(p) PROVE DirtyCached'
  BY <1>5 DEF FlushPage, Cached
<1>6. CASE UNCHANGED <<dirty, lru>>
  BY <1>6 DEF Cached
<1>7. CASE dirty' = {}
  BY <1>7
<1> QED
  BY <1>1, <1>2, <1>3, <1>4, <1>5, <1>6, <1>7
     DEF Next, FlushAll, FlushOne, FlushRaises, FlushDone, Kill, vars

LEMMA PromiseNext ==
  ASSUME Coherent, Coherent', [Next]_vars
  PROVE  [Promise!Next]_<<View, cand, held>>
<1> USE DEF Coherent
<1>1. ASSUME NEW p \in Page, GetHit(p) PROVE Promise!Next
  <2>1. PICK i \in 1 .. Len(lru) : lru[i] = p /\ lru' = MoveToEnd(lru, i)
    BY <1>1 DEF GetHit
  <2>2. Elems(lru') = Elems(lru)
    BY <2>1, MoveToEndProperties, TypeNoDup
  <2>3. View' = View
    BY <1>1, <2>2 DEF GetHit, View, Cached, Elems
  <2>4. View[p] # Absent
    BY <2>1, PoolAssumption DEF View, TypeOK, Cached
  <2>5. Promise!Get(p)
    BY <1>1, <2>3, <2>4 DEF GetHit, Promise!Get
  <2> QED BY <2>5 DEF Promise!Next
<1>2. ASSUME NEW p \in Page, GetMiss(p) PROVE Promise!Next
  <2>1. /\ disk[p] \in Value /\ disk \in [Page -> Value \cup {Absent}]
        /\ cand' = cand /\ cand' \in [Page -> SUBSET (Value \cup {Absent})]
        /\ View[p] = disk[p] /\ View[p] # Absent /\ ~busy
    BY <1>2 DEF GetMiss, TypeOK, View
  <2>2. CASE Admit(p, disk[p], disk)
    <3>1. View' = [View EXCEPT ![p] = disk[p]]
      BY <1>2, <2>1, <2>2, AdmitProperties DEF GetMiss
    <3>2. Promise!Get(p)
      BY <2>1, <2>2, <3>1, ViewType DEF Admit, Promise!Get
    <3> QED BY <3>2 DEF Promise!Next
  <2>3. CASE AdmitFails(p, disk)
    <3>1. PICK q \in Cached :
            /\ View'[q] = disk[q]
            /\ \A r \in Page \ {q} : View'[r] = IF r \in Cached THEN View[r] ELSE disk[r]
      BY <2>1, <2>3, AdmitFailsProperties
    <3>2. q \in Page /\ disk[q] \in cand[q] /\ View[q] # Absent
      BY CachedPages, PoolAssumption DEF CandidatesKept, View, TypeOK
    <3>3. View' = [r \in Page |-> IF r = q THEN View'[q]
                                 ELSE IF r \in {} THEN Empty ELSE View[r]]
      <4>1. \A r \in Page : View'[r] = IF r = q THEN View'[q] ELSE View[r]
        BY <3>1 DEF View
      <4> QED BY <4>1 DEF View
    <3>4. cand' = [r \in Page |-> IF r \in {} THEN {Empty} ELSE cand[r]]
      BY <2>1 DEF TypeOK
    <3>5. {} \in {{}} \cup {{r} : r \in Page}
      OBVIOUS
    <3>6. View'[q] \in cand[q]
      BY <3>1, <3>2
    <3>7. IOErrors /\ held' = Nothing
      BY <2>3 DEF AdmitFails
    <3>8. Promise!Raise
      BY <3>2, <3>3, <3>4, <3>5, <3>6, <3>7 DEF Promise!Raise
    <3> QED BY <3>8 DEF Promise!Next
  <2> QED BY <1>2, <2>2, <2>3 DEF GetMiss
<1>3. CASE NewPage
  <2>1. PICK p \in Page :
          /\ disk[p] = Absent
          /\ \/ Admit(p, Empty, [disk EXCEPT ![p] = Empty])
             \/ AdmitFails(p, [disk EXCEPT ![p] = Empty])
          /\ cand' = [cand EXCEPT ![p] = {Empty}]
    BY <1>3 DEF NewPage
  <2> DEFINE f == [disk EXCEPT ![p] = Empty]
  <2>2. /\ f \in [Page -> Value \cup {Absent}] /\ f[p] = Empty /\ Empty \in Value
        /\ \A q \in Page \ {p} : f[q] = disk[q]
        /\ p \notin Cached /\ ~busy
        /\ cand' \in [Page -> SUBSET (Value \cup {Absent})]
    BY <1>3, <2>1 DEF TypeOK, Value, NewPage
  <2>3. View[p] = Absent
    BY <2>1, <2>2 DEF View
  <2>4. CASE Admit(p, Empty, f)
    <3>1. View' = [View EXCEPT ![p] = Empty]
      BY <2>2, <2>4, AdmitProperties
    <3>2. Promise!Allocate(p)
      BY <2>1, <2>3, <2>4, <3>1 DEF Admit, Promise!Allocate
    <3> QED BY <3>2 DEF Promise!Next
  <2>5. CASE AdmitFails(p, f)
    <3>1. PICK q \in Cached :
            /\ View'[q] = f[q]
            /\ \A r \in Page \ {q} : View'[r] = IF r \in Cached THEN View[r] ELSE f[r]
      BY <2>1, <2>2, <2>5, AdmitFailsProperties
    <3>2. q \in Page /\ disk[q] \in cand[q] /\ View[q] # Absent /\ f[q] = disk[q]
      BY <2>2, CachedPages, PoolAssumption DEF CandidatesKept, View, TypeOK
    <3>3. View' = [r \in Page |-> IF r = q THEN View'[q]
                                 ELSE IF r \in {p} THEN Empty ELSE View[r]]
      <4>1. \A r \in Page : View'[r] = IF r = q THEN View'[q]
                                       ELSE IF r = p THEN Empty ELSE View[r]
        BY <2>2, <3>1, <3>2 DEF View
      <4> QED BY <4>1 DEF View
    <3>4. cand' = [r \in Page |-> IF r \in {p} THEN {Empty} ELSE cand[r]]
      BY <2>1 DEF TypeOK
    <3>5. {p} \in {{}} \cup {{r} : r \in Page} /\ \A r \in {p} : View[r] = Absent
      BY <2>3
    <3>6. View'[q] \in cand[q]
      BY <3>1, <3>2
    <3>7. IOErrors /\ held' = Nothing
      BY <2>5 DEF AdmitFails
    <3>8. Promise!Raise
      BY <3>2, <3>3, <3>4, <3>5, <3>6, <3>7 DEF Promise!Raise
    <3> QED BY <3>8 DEF Promise!Next
  <2> QED BY <2>1, <2>4, <2>5
<1>4. ASSUME NEW v \in Images, Modify(v) PROVE Promise!Next
  <2>1. held \in Cached /\ held \in Page /\ Cached' = Cached
    BY <1>4, CachedPages DEF Modify, TypeOK, Cached
  <2>2. View' = [View EXCEPT ![held] = v]
    <3>1. \A q \in Page : View'[q] = IF q = held THEN v ELSE View[q]
      BY <1>4, <2>1 DEF Modify, View, TypeOK
    <3> QED BY <3>1 DEF View
  <2>3. Promise!Write(v)
    BY <1>4, <2>2 DEF Modify, Promise!Write
  <2> QED BY <2>3 DEF Promise!Next
<1>5. ASSUME NEW p \in Page, FlushPage(p) PROVE Promise!Next
  <2>1. View' = View /\ View[p] = copy[p]
    BY <1>5 DEF FlushPage, View, Cached, TypeOK
  <2>2. cand' = [q \in Page |-> IF q \in {p} THEN {View[q]} ELSE cand[q]]
    BY <1>5, <2>1 DEF FlushPage, TypeOK
  <2>3. Promise!Flush({p})
    BY <1>5, <2>1, <2>2 DEF FlushPage, Promise!Flush
  <2> QED BY <2>3 DEF Promise!Next
<1>6. CASE FlushAll
  BY <1>6 DEF FlushAll, View, Cached
<1>7. ASSUME NEW p \in Page, FlushOne(p) PROVE UNCHANGED <<View, cand, held>>
  BY <1>7 DEF FlushOne, View, Cached, TypeOK
<1>8. CASE FlushRaises
  BY <1>8 DEF FlushRaises, View, Cached
<1>9. CASE FlushDone
  <2>1. View' = View
    BY <1>9 DEF FlushDone, View, Cached
  <2>2. Promise!Flush(Page)
    BY <1>9, <2>1 DEF FlushDone, Promise!Flush
  <2> QED BY <2>2 DEF Promise!Next
<1>10. CASE Kill
  <2>1. Cached' = {}
    BY <1>10 DEF Kill, Cached
  <2>2. \A p \in Page : View'[p] = disk[p]
    BY <1>10, <2>1 DEF Kill, View
  <2>3. View' \in [Page -> Images \cup {Empty, Absent}]
    <3>1. Value \cup {Absent} = Images \cup {Empty, Absent}
      BY DEF Value
    <3>2. View' = [p \in Page |-> disk[p]]
      BY <1>10, <2>1 DEF Kill, View
    <3> QED BY <3>1, <3>2 DEF TypeOK
  <2>4. Promise!Kill
    BY <1>10, <2>2, <2>3 DEF Kill, Promise!Kill, CandidatesKept
  <2> QED BY <2>4 DEF Promise!Next
<1>11. CASE UNCHANGED vars
  BY <1>11 DEF vars, View, Cached
<1> QED
  BY <1>1, <1>2, <1>3, <1>4, <1>5, <1>6, <1>7, <1>8, <1>9, <1>10, <1>11 DEF Next

(* As long as no write raises, every dirty page is in the cache: flush_all *)
(* never fails (buffer_pool.py, line 53).                                  *)
THEOREM DirtyIsCached ==
  ASSUME ~IOErrors
  PROVE  Spec => []DirtyCached
<1>1. Init => DirtyCached
  BY DEF Init, DirtyCached
<1> QED BY <1>1, CoherentInit, CoherentNext, DirtyCachedNext, PTL DEF Spec

(* The pool gives its callers what BufferedPages promises: no update is    *)
(* lost by an eviction unless its write raised, and then of that page      *)
(* only, and a kill loses only what was written after the last flush.      *)
THEOREM PoolKeepsPromise == Spec => KeepsPromise
<1>1. Coherent /\ Coherent' /\ [Next]_vars => [Promise!Next]_<<View, cand, held>>
  BY PromiseNext
<1> QED BY <1>1, PromiseInit, PoolCoherent, PTL DEF Spec, KeepsPromise, Promise!Spec

-----------------------------------------------------------------------------
(* Least recently used eviction.                                           *)

LEMMA DistinctCount ==
  ASSUME NEW S, NEW s \in Seq(S), NoDup(s)
  PROVE  IsFiniteSet(Elems(s)) /\ Cardinality(Elems(s)) = Len(s)
<1>1. Len(s) \in Nat /\ \A i \in 1 .. Len(s) : s[i] \in S
  BY ElementOfSeq, LenProperties
<1>2. IsFiniteSet(1 .. Len(s)) /\ Cardinality(1 .. Len(s)) = Len(s)
  BY <1>1, FS_Interval
<1> DEFINE f == [i \in 1 .. Len(s) |-> s[i]]
<1>3. f \in [1 .. Len(s) -> Elems(s)]
  BY DEF Elems
<1>4. \A a, b \in DOMAIN f : f[a] = f[b] => a = b
  BY DEF NoDup
<1>5. f \in Injection(1 .. Len(s), Elems(s))
  BY <1>3, <1>4, Zenon DEF Injection, IsInjective
<1>6. f \in Surjection(1 .. Len(s), Elems(s))
  BY <1>3 DEF Surjection, Elems
<1>7. ExistsBijection(1 .. Len(s), Elems(s))
  BY <1>5, <1>6 DEF Bijection, ExistsBijection
<1> QED BY <1>2, <1>7, FS_Bijection

LEMMA PagesBounded ==
  ASSUME NEW A \in SUBSET Page, NEW B \in SUBSET Page, A \subseteq B
  PROVE  Cardinality(A) \in Nat /\ Cardinality(B) \in Nat
         /\ Cardinality(A) <= Cardinality(B)
<1>1. IsFiniteSet(Page)
  BY PoolAssumption, FS_Interval DEF Page
<1>2. IsFiniteSet(A) /\ IsFiniteSet(B)
  BY <1>1, FS_Subset
<1>3. Cardinality(A) <= Cardinality(B)
  BY <1>2, FS_Subset
<1> QED BY <1>2, <1>3, FS_CardinalityType

LEMMA MoveToEndOrder ==
  ASSUME NEW S, NEW s \in Seq(S), NEW i \in 1 .. Len(s), NoDup(s),
         NEW j \in 1 .. Len(s), NEW k \in 1 .. Len(s), j < k
  PROVE  /\ MoveToEnd(s, i)[j] # s[i]
         /\ \/ MoveToEnd(s, i)[k] = s[i]
            \/ \E a, b \in 1 .. Len(s) :
                 a < b /\ s[a] = MoveToEnd(s, i)[j] /\ s[b] = MoveToEnd(s, i)[k]
<1>1. Len(s) \in Nat /\ i \in Nat /\ j \in Nat /\ k \in Nat /\ j < Len(s)
  BY LenProperties
<1>2. \A n \in 1 .. Len(s) : MoveToEnd(s, i)[n] =
        IF n < i THEN s[n] ELSE IF n < Len(s) THEN s[n + 1] ELSE s[i]
  BY DEF MoveToEnd
<1> DEFINE a == IF j < i THEN j ELSE j + 1
           b == IF k < i THEN k ELSE k + 1
<1>3. a \in 1 .. Len(s) /\ a # i /\ MoveToEnd(s, i)[j] = s[a]
  BY <1>1, <1>2
<1>4. MoveToEnd(s, i)[j] # s[i]
  BY <1>3 DEF NoDup
<1>5. CASE k < i \/ k < Len(s)
  <2>1. b \in 1 .. Len(s) /\ a < b /\ MoveToEnd(s, i)[k] = s[b]
    BY <1>1, <1>2, <1>5
  <2> QED BY <1>3, <1>4, <2>1
<1>6. CASE ~(k < i \/ k < Len(s))
  <2>1. MoveToEnd(s, i)[k] = s[i]
    BY <1>2, <1>6
  <2> QED BY <1>4, <2>1
<1> QED BY <1>4, <1>5, <1>6

(* A page admitted behind rest, which keeps the order of the cache, leaves *)
(* RecencyKept true if every page that left was passed by a cache full.    *)
LEMMA RecencyStep ==
  ASSUME TypeOK, RecencyKept, NEW p \in Page,
         \A q \in DOMAIN since' : q # p => q \in DOMAIN since
                                          /\ since'[q] = since[q] \cup {p},
         p \in DOMAIN since' => p \in Cached' /\ since'[p] = {},
         \A j, k \in 1 .. Len(lru') : j < k =>
           /\ lru'[j] # p
           /\ \/ lru'[k] = p
              \/ \E a, b \in 1 .. Len(lru) :
                   a < b /\ lru[a] = lru'[j] /\ lru[b] = lru'[k],
         \A q \in Cached \ Cached' :
           q # p /\ Capacity <= Cardinality((Cached \ {q}) \cup {p}) /\ lru[1] = q
  PROVE  RecencyKept'
<1>1. Len(lru) \in Nat /\ Capacity \in Nat
  BY LenProperties, PoolAssumption DEF TypeOK
<1>2. \A q \in DOMAIN since' : since'[q] \subseteq Page
  BY DEF RecencyKept
<1>3. \A j, k \in 1 .. Len(lru') :
        lru'[j] \in DOMAIN since' /\ j < k => lru'[k] \in since'[lru'[j]]
  BY DEF RecencyKept
<1>4. ASSUME NEW q \in DOMAIN since', q \notin Cached'
      PROVE  Cardinality(since'[q]) >= Capacity
  <2>1. /\ q # p /\ q \in DOMAIN since /\ since'[q] = since[q] \cup {p}
        /\ since[q] \subseteq Page /\ since'[q] \subseteq Page
    BY <1>2, <1>4 DEF RecencyKept
  <2>2. CASE q \notin Cached
    <3>1. Cardinality(since[q]) >= Capacity
      BY <2>1, <2>2 DEF RecencyKept
    <3>2. /\ Cardinality(since[q]) \in Nat /\ Cardinality(since'[q]) \in Nat
          /\ Cardinality(since[q]) <= Cardinality(since'[q])
      BY <2>1, PagesBounded
    <3> QED BY <1>1, <3>1, <3>2
  <2>3. CASE q \in Cached
    <3>1. lru[1] = q /\ Capacity <= Cardinality((Cached \ {q}) \cup {p})
      BY <1>4, <2>3
    <3>2. ASSUME NEW x \in Cached \ {q} PROVE x \in since[q]
      <4>1. PICK b \in 1 .. Len(lru) : lru[b] = x
        BY DEF Cached
      <4>2. 1 \in 1 .. Len(lru) /\ 1 < b
        BY <1>1, <3>1, <3>2, <4>1
      <4> QED BY <2>1, <3>1, <4>1, <4>2 DEF RecencyKept
    <3>3. (Cached \ {q}) \cup {p} \subseteq since'[q]
      BY <2>1, <3>2
    <3>4. /\ Cardinality((Cached \ {q}) \cup {p}) \in Nat
          /\ Cardinality(since'[q]) \in Nat
          /\ Cardinality((Cached \ {q}) \cup {p}) <= Cardinality(since'[q])
      BY <2>1, <3>3, CachedPages, PagesBounded
    <3> QED BY <1>1, <3>1, <3>4
  <2> QED BY <2>2, <2>3
<1> QED BY <1>2, <1>3, <1>4 DEF RecencyKept

(* What an eviction does to the order, and how many pages passed the one   *)
(* that leaves.                                                            *)
LEMMA EvictionProperties ==
  ASSUME TypeOK, Full, NEW p \in Page, p \notin Cached
  PROVE  /\ lru[1] \in Cached /\ Elems(Tail(lru)) = Cached \ {lru[1]}
         /\ Tail(lru) \in Seq(Page) /\ NoDup(Tail(lru))
         /\ Len(Tail(lru)) = Len(lru) - 1
         /\ \A j \in 1 .. Len(Tail(lru)) : Tail(lru)[j] = lru[j + 1]
         /\ Capacity <= Cardinality((Cached \ {lru[1]}) \cup {p})
<1>1. /\ lru \in Seq(Page) /\ NoDup(lru) /\ Len(lru) \in Nat
      /\ Capacity \in Nat \ {0} /\ Len(lru) >= Capacity
  BY TypeNoDup, LenProperties, PoolAssumption DEF Full
<1>2. lru # << >>
  BY <1>1, EmptySeq
<1>3. /\ Tail(lru) \in Seq(Page) /\ Len(Tail(lru)) = Len(lru) - 1
      /\ NoDup(Tail(lru)) /\ Elems(Tail(lru)) = Cached \ {lru[1]}
      /\ lru[1] \in Cached
  BY <1>1, <1>2, TailProperties, CachedIsElems
<1>4. \A j \in 1 .. Len(Tail(lru)) : Tail(lru)[j] = lru[j + 1]
  BY <1>1, <1>2, <1>3, HeadTailProperties
<1>5. /\ IsFiniteSet(Cached \ {lru[1]})
      /\ Cardinality(Cached \ {lru[1]}) = Len(lru) - 1
  BY <1>3, DistinctCount
<1>6. Cardinality((Cached \ {lru[1]}) \cup {p}) = Len(lru) - 1 + 1
  BY <1>5, FS_AddElement
<1> QED BY <1>1, <1>3, <1>4, <1>6

LEMMA AdmitKeepsRecency ==
  ASSUME TypeOK, RecencyKept, NEW p \in Page, p \notin Cached,
         NEW v, NEW f, Admit(p, v, f)
  PROVE  RecencyKept'
<1>1. /\ lru \in Seq(Page) /\ NoDup(lru) /\ Len(lru) \in Nat
      /\ since' = Requested(p)
      /\ lru' = Append(IF Full THEN Tail(lru) ELSE lru, p)
  BY TypeNoDup, LenProperties DEF Admit
<1>2. PICK rest \in Seq(Page), d \in {0, 1} :
        /\ lru' = Append(rest, p) /\ NoDup(rest) /\ Len(rest) = Len(lru) - d
        /\ Len(rest) \in Nat
        /\ \A j \in 1 .. Len(rest) : rest[j] = lru[j + d]
        /\ Elems(rest) = IF Full THEN Cached \ {lru[1]} ELSE Cached
  <2>1. CASE Full
    <3>1. /\ lru' = Append(Tail(lru), p) /\ NoDup(Tail(lru)) /\ Len(Tail(lru)) = Len(lru) - 1
          /\ Tail(lru) \in Seq(Page) /\ Elems(Tail(lru)) = Cached \ {lru[1]}
          /\ \A j \in 1 .. Len(Tail(lru)) : Tail(lru)[j] = lru[j + 1]
      BY <1>1, <2>1, EvictionProperties
    <3>2. Len(Tail(lru)) \in Nat
      BY <3>1, LenProperties
    <3> QED BY <2>1, <3>1, <3>2
  <2>2. CASE ~Full
    <3>1. lru' = Append(lru, p) /\ Len(lru) = Len(lru) - 0
          /\ \A j \in 1 .. Len(lru) : lru[j] = lru[j + 0]
      BY <1>1, <2>2
    <3> QED BY <1>1, <2>2, <3>1, CachedIsElems
  <2> QED BY <2>1, <2>2
<1>3. /\ Len(lru') = Len(rest) + 1 /\ lru'[Len(rest) + 1] = p
      /\ \A j \in 1 .. Len(rest) : lru'[j] = rest[j]
  BY <1>2, AppendProperties
<1>4. Cached' = Elems(rest) \cup {p}
  <2>1. p \notin Elems(rest)
    BY <1>2
  <2>2. Elems(lru') = Elems(rest) \cup {p}
    BY <1>2, <2>1, AppendNew
  <2> QED BY <2>2 DEF Cached, Elems
<1>5. /\ \A q \in DOMAIN since' : q # p => q \in DOMAIN since
                                          /\ since'[q] = since[q] \cup {p}
      /\ p \in DOMAIN since' => p \in Cached' /\ since'[p] = {}
  BY <1>1, <1>4 DEF Requested
<1>6. ASSUME NEW j \in 1 .. Len(lru'), NEW k \in 1 .. Len(lru'), j < k
      PROVE  /\ lru'[j] # p
             /\ \/ lru'[k] = p
                \/ \E a, b \in 1 .. Len(lru) :
                     a < b /\ lru[a] = lru'[j] /\ lru[b] = lru'[k]
  <2>1. j \in 1 .. Len(rest) /\ lru'[j] = lru[j + d] /\ j + d \in 1 .. Len(lru)
    BY <1>1, <1>2, <1>3, <1>6
  <2>2. lru'[j] # p
    BY <2>1 DEF Cached
  <2>3. CASE k = Len(rest) + 1
    BY <1>3, <2>2, <2>3
  <2>4. CASE k # Len(rest) + 1
    <3>1. k \in 1 .. Len(rest)
      BY <1>2, <1>3, <2>4
    <3>2. lru'[k] = lru[k + d] /\ k + d \in 1 .. Len(lru)
      BY <1>1, <1>2, <1>3, <3>1
    <3>3. j + d < k + d
      BY <1>6, <2>1, <3>1
    <3> QED BY <2>1, <2>2, <3>2, <3>3
  <2> QED BY <2>3, <2>4
<1>7. ASSUME NEW q \in Cached \ Cached'
      PROVE  q # p /\ Capacity <= Cardinality((Cached \ {q}) \cup {p}) /\ lru[1] = q
  <2>1. Full /\ q = lru[1]
    BY <1>2, <1>4, <1>7
  <2>2. Capacity <= Cardinality((Cached \ {q}) \cup {p})
    BY <2>1, EvictionProperties
  <2> QED BY <2>1, <2>2
<1> QED BY <1>5, <1>6, <1>7, RecencyStep

LEMMA AdmitFailsKeepsRecency ==
  ASSUME TypeOK, RecencyKept, NEW p \in Page, p \notin Cached,
         NEW f, AdmitFails(p, f)
  PROVE  RecencyKept'
<1>1. /\ Full /\ lru' = Tail(lru)
      /\ since' = [q \in DOMAIN since |-> since[q] \cup ({p} \ {q})]
  BY DEF AdmitFails
<1>2. /\ lru[1] \in Cached /\ Elems(lru') = Cached \ {lru[1]}
      /\ Len(lru') = Len(lru) - 1 /\ Len(lru) \in Nat
      /\ \A j \in 1 .. Len(lru') : lru'[j] = lru[j + 1]
      /\ Capacity <= Cardinality((Cached \ {lru[1]}) \cup {p})
  BY <1>1, EvictionProperties, LenProperties DEF TypeOK
<1>3. Cached' = Cached \ {lru[1]}
  BY <1>2 DEF Cached, Elems
<1>4. Capacity \in Nat
  BY PoolAssumption
<1>5. \A q \in DOMAIN since' : q \in DOMAIN since /\ since[q] \subseteq since'[q]
                              /\ since'[q] \subseteq Page
  BY <1>1 DEF RecencyKept
<1>6. \A j, k \in 1 .. Len(lru') :
        lru'[j] \in DOMAIN since' /\ j < k => lru'[k] \in since'[lru'[j]]
  <2> SUFFICES ASSUME NEW j \in 1 .. Len(lru'), NEW k \in 1 .. Len(lru'), j < k,
                      lru'[j] \in DOMAIN since'
               PROVE  lru'[k] \in since'[lru'[j]]
    OBVIOUS
  <2>1. /\ j + 1 \in 1 .. Len(lru) /\ k + 1 \in 1 .. Len(lru) /\ j + 1 < k + 1
        /\ lru'[j] = lru[j + 1] /\ lru'[k] = lru[k + 1]
    BY <1>2
  <2>2. lru[k + 1] \in since[lru[j + 1]]
    BY <1>5, <2>1 DEF RecencyKept
  <2> QED BY <1>5, <2>1, <2>2
<1>7. ASSUME NEW q \in DOMAIN since', q \notin Cached'
      PROVE  Cardinality(since'[q]) >= Capacity
  <2>1. /\ Cardinality(since[q]) \in Nat /\ Cardinality(since'[q]) \in Nat
        /\ Cardinality(since[q]) <= Cardinality(since'[q])
    BY <1>5, PagesBounded
  <2>2. CASE q \notin Cached
    <3>1. Cardinality(since[q]) >= Capacity
      BY <1>5, <2>2 DEF RecencyKept
    <3> QED BY <1>4, <2>1, <3>1
  <2>3. CASE q \in Cached
    <3>1. q = lru[1] /\ q # p
      BY <1>3, <1>7, <2>3
    <3>2. ASSUME NEW x \in Cached \ {q} PROVE x \in since[q]
      <4>1. PICK b \in 1 .. Len(lru) : lru[b] = x
        BY DEF Cached
      <4>2. 1 \in 1 .. Len(lru) /\ 1 < b
        BY <1>2, <3>1, <3>2, <4>1
      <4> QED BY <1>5, <3>1, <4>1, <4>2 DEF RecencyKept
    <3>3. since'[q] = since[q] \cup {p}
      BY <1>1, <3>1
    <3>4. (Cached \ {q}) \cup {p} \in SUBSET Page /\ (Cached \ {q}) \cup {p} \subseteq since'[q]
      BY <3>2, <3>3, CachedPages
    <3>5. /\ Cardinality((Cached \ {q}) \cup {p}) \in Nat
          /\ Cardinality((Cached \ {q}) \cup {p}) <= Cardinality(since'[q])
      BY <1>5, <3>4, PagesBounded
    <3> QED BY <1>2, <1>4, <2>1, <3>1, <3>5
  <2> QED BY <2>2, <2>3
<1> QED BY <1>5, <1>6, <1>7 DEF RecencyKept

LEMMA RecencyInit == Init => RecencyKept
BY DEF Init, RecencyKept

LEMMA RecencyNext ==
  ASSUME Coherent, RecencyKept, [Next]_vars
  PROVE  RecencyKept'
<1> USE DEF Coherent
<1>1. ASSUME NEW p \in Page, GetHit(p) PROVE RecencyKept'
  <2>1. PICK i \in 1 .. Len(lru) : lru[i] = p /\ lru' = MoveToEnd(lru, i)
    BY <1>1 DEF GetHit
  <2>2. Len(lru') = Len(lru) /\ Elems(lru') = Elems(lru)
    BY <2>1, MoveToEndProperties, TypeNoDup
  <2>3. Cached' = Cached /\ p \in Cached
    BY <2>1, <2>2 DEF Cached, Elems
  <2>4. /\ \A q \in DOMAIN since' : q # p => q \in DOMAIN since
                                            /\ since'[q] = since[q] \cup {p}
        /\ p \in DOMAIN since' => p \in Cached' /\ since'[p] = {}
    BY <1>1, <2>3 DEF GetHit, Requested
  <2>5. \A j, k \in 1 .. Len(lru') : j < k =>
           /\ lru'[j] # p
           /\ \/ lru'[k] = p
              \/ \E a, b \in 1 .. Len(lru) :
                   a < b /\ lru[a] = lru'[j] /\ lru[b] = lru'[k]
    <3> TAKE j, k \in 1 .. Len(lru')
    <3> HAVE j < k
    <3>1. lru \in Seq(Page) /\ NoDup(lru) /\ j \in 1 .. Len(lru) /\ k \in 1 .. Len(lru)
      BY <2>2, TypeNoDup
    <3>2. /\ MoveToEnd(lru, i)[j] # lru[i]
          /\ \/ MoveToEnd(lru, i)[k] = lru[i]
             \/ \E a, b \in 1 .. Len(lru) :
                  a < b /\ lru[a] = MoveToEnd(lru, i)[j] /\ lru[b] = MoveToEnd(lru, i)[k]
      BY <2>1, <3>1, MoveToEndOrder
    <3> HIDE DEF Coherent
    <3> QED BY <2>1, <3>2, Zenon
  <2> QED BY <2>3, <2>4, <2>5, RecencyStep
<1>2. ASSUME NEW p \in Page, GetMiss(p) PROVE RecencyKept'
  BY <1>2, AdmitKeepsRecency, AdmitFailsKeepsRecency DEF GetMiss
<1>3. CASE NewPage
  <2>1. PICK p \in Page :
          /\ disk[p] = Absent
          /\ \/ Admit(p, Empty, [disk EXCEPT ![p] = Empty])
             \/ AdmitFails(p, [disk EXCEPT ![p] = Empty])
    BY <1>3 DEF NewPage
  <2>2. p \notin Cached
    BY <2>1 DEF TypeOK
  <2> QED BY <2>1, <2>2, AdmitKeepsRecency, AdmitFailsKeepsRecency
<1>4. CASE Kill
  BY <1>4 DEF Kill, RecencyKept
<1>5. CASE UNCHANGED <<lru, since>>
  BY <1>5 DEF RecencyKept, Cached
<1> QED
  BY <1>1, <1>2, <1>3, <1>4, <1>5
     DEF Next, Modify, FlushPage, FlushAll, FlushOne, FlushRaises, FlushDone, vars

(* get_page and allocate_page evict the least recently used page only: one *)
(* that was requested stays until a cache full of others was requested.    *)
THEOREM RecentPagesStay == Spec => []KeepsRecent
<1>1. ASSUME TypeOK, RecencyKept PROVE KeepsRecent
  <2> SUFFICES ASSUME NEW p \in DOMAIN since, Cardinality(since[p]) < Capacity,
                      p \notin Cached
               PROVE  FALSE
    BY DEF KeepsRecent
  <2>1. Cardinality(since[p]) >= Capacity /\ since[p] \subseteq Page
    BY <1>1 DEF RecencyKept
  <2>2. Cardinality(since[p]) \in Nat /\ Capacity \in Nat
    BY <2>1, PagesBounded, PoolAssumption
  <2> QED BY <2>1, <2>2
<1>2. Coherent => TypeOK
  BY DEF Coherent
<1> QED BY <1>1, <1>2, RecencyInit, RecencyNext, CoherentInit, CoherentNext, PTL DEF Spec
=============================================================================
