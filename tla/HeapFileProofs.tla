--------------------------- MODULE HeapFileProofs ---------------------------
(***************************************************************************)
(* What TLAPS proves of the heap file and of the operations on its slotted *)
(* pages, for every page size, number of pages and set of records:         *)
(* insert_record and delete_record keep the layout of a page and touch no  *)
(* record but the one they are called for; pages stay laid out, the heap   *)
(* goes on at the last page of the file, and rows are kept as RowStore     *)
(* promises.                                                               *)
(***************************************************************************)
EXTENDS HeapFile, SequenceTheorems, WellFoundedInduction, TLAPS

-----------------------------------------------------------------------------
(* Slotted pages.                                                          *)

LEMMA LeastNumber ==
  ASSUME NEW T \in SUBSET Nat, T # {}
  PROVE  \E x \in T : \A y \in T : x <= y
<1>1. PICK x \in T : \A y \in T : ~(<<y, x>> \in OpToRel(<, Nat))
  BY NatLessThanWellFounded, WFMin
<1>2. ASSUME NEW y \in T PROVE x <= y
  <2>1. y \in Nat /\ x \in Nat
    OBVIOUS
  <2>2. ~(y < x)
    BY <1>1, <2>1 DEF OpToRel
  <2> QED BY <2>1, <2>2
<1> QED BY <1>2

-----------------------------------------------------------------------------
(* The fields of a page, and of its slots.                                 *)

LEMMA PageFields ==
  ASSUME NEW page, PageType(page)
  PROVE  /\ page.slots \in Seq(Entry) /\ Len(page.slots) \in Nat
         /\ page.free_end \in 0 .. PageSize
         /\ page.data \in [Offset -> Byte \cup {Mark, Blank}]
         /\ \A i \in SlotsOf(page) :
              /\ i \in Nat /\ i + 1 \in 1 .. Len(page.slots)
              /\ Slot(page, i) \in Entry
              /\ Slot(page, i).off \in 0 .. PageSize
              /\ Slot(page, i).len \in 0 .. PageSize
<1>1. /\ page.slots \in Seq(Entry) /\ page.free_end \in 0 .. PageSize
      /\ page.data \in [Offset -> Byte \cup {Mark, Blank}]
  BY DEF PageType
<1>2. Len(page.slots) \in Nat
  BY <1>1, LenProperties
<1>3. ASSUME NEW i \in SlotsOf(page)
      PROVE  /\ i \in Nat /\ i + 1 \in 1 .. Len(page.slots)
             /\ Slot(page, i) \in Entry
  <2>1. i \in Nat /\ i + 1 \in 1 .. Len(page.slots)
    BY <1>2 DEF SlotsOf
  <2>2. page.slots[i + 1] \in Entry
    BY <1>1, <2>1, ElementOfSeq
  <2> QED BY <2>1, <2>2 DEF Slot
<1> QED BY <1>1, <1>2, <1>3 DEF Entry

(* _find_dead_slot finds a dead slot when there is one.                    *)
LEMMA TargetSlotProperties ==
  ASSUME NEW page, PageType(page)
  PROVE  /\ TargetSlot(page) \in 0 .. Len(page.slots)
         /\ Reuses(page) => TargetSlot(page) \in SlotsOf(page)
                            /\ ~Live(page, TargetSlot(page))
                            /\ TargetSlot(page) = FirstDead(page)
         /\ ~Reuses(page) => TargetSlot(page) = Len(page.slots)
<1>1. Len(page.slots) \in Nat
  BY PageFields
<1>2. CASE Reuses(page)
  <2>1. DeadSlots(page) \in SUBSET Nat /\ DeadSlots(page) # {}
    BY <1>1, <1>2 DEF DeadSlots, SlotsOf, Reuses
  <2>2. FirstDead(page) \in DeadSlots(page)
    BY <2>1, LeastNumber DEF FirstDead
  <2> QED BY <1>1, <1>2, <2>2 DEF TargetSlot, DeadSlots, SlotsOf
<1>3. CASE ~Reuses(page)
  BY <1>1, <1>3 DEF TargetSlot
<1> QED BY <1>2, <1>3

-----------------------------------------------------------------------------
(* The pages of a new file.                                                *)

LEMMA EmptyPageLayout == Layout(EmptyPage) /\ SlotsOf(EmptyPage) = {}
<1>1. /\ EmptyPage.slots = << >> /\ EmptyPage.free_end = PageSize
      /\ EmptyPage.data = [o \in Offset |-> Blank]
  BY DEF EmptyPage
<1>2. PageType(EmptyPage)
  <2>1. << >> \in Seq(Entry)
    BY EmptySeq
  <2>2. PageSize \in 0 .. PageSize
    BY PageAssumption
  <2> QED BY <2>1, <2>2 DEF EmptyPage, PageType
<1>3. SlotsOf(EmptyPage) = {}
  BY <1>1 DEF SlotsOf
<1>4. DirectoryFits(EmptyPage) /\ DirectoryKept(EmptyPage)
  BY <1>1, PageAssumption
     DEF DirectoryFits, DirectoryKept, HeaderSize, SlotSize, Offset
<1> QED BY <1>2, <1>3, <1>4 DEF Layout, RecordsInside, RecordsApart, RecordsKept

(* A record that fits no larger than an empty page's free space is stored. *)
LEMMA EmptyPageFits ==
  ASSUME NEW record \in Record, Len(record) <= PageSize - HeaderSize - SlotSize
  PROVE  Fits(EmptyPage, record)
<1>1. /\ EmptyPage.slots = << >> /\ EmptyPage.free_end = PageSize
      /\ SlotsOf(EmptyPage) = {} /\ Len(record) \in Nat
  BY EmptyPageLayout, LenProperties DEF EmptyPage, Record
<1>2. FreeSpace(EmptyPage) = PageSize - HeaderSize
  BY <1>1, PageAssumption DEF FreeSpace, HeaderSize, SlotSize
<1>3. ~Reuses(EmptyPage)
  BY <1>1 DEF Reuses, DeadSlots
<1> QED BY <1>1, <1>2, <1>3, PageAssumption DEF Fits, HeaderSize, SlotSize

-----------------------------------------------------------------------------
(* What a record reads as depends on its slot and its bytes alone.         *)

LEMMA RecordBytes ==
  ASSUME NEW page, Layout(page), NEW i \in SlotsOf(page), Live(page, i),
         NEW o \in Slot(page, i).off .. Slot(page, i).off + Slot(page, i).len - 1
  PROVE  o \in Offset /\ page.free_end <= o /\ o < PageSize
         /\ HeaderSize + Len(page.slots) * SlotSize <= o
<1>1. /\ page.free_end \in Int /\ Len(page.slots) \in Nat
      /\ Slot(page, i).off \in Int /\ Slot(page, i).len \in Int
  BY PageFields DEF Layout
<1> QED BY <1>1, PageAssumption
        DEF Layout, DirectoryFits, RecordsInside, Offset, HeaderSize, SlotSize

LEMMA GetRecordType ==
  ASSUME NEW page, Layout(page), NEW i \in SlotsOf(page), Live(page, i)
  PROVE  GetRecord(page, i) \in Record
<1> DEFINE off == Slot(page, i).off
           len == Slot(page, i).len
<1>1. off \in Nat /\ len \in Nat
  BY PageFields DEF Layout
<1>2. ASSUME NEW n \in 1 .. len PROVE page.data[off + n - 1] \in Byte
  <2>1. off + n - 1 \in off .. off + len - 1
    BY <1>1
  <2> QED BY <2>1 DEF Layout, RecordsKept
<1>3. [n \in 1 .. len |-> page.data[off + n - 1]] \in [1 .. len -> Byte]
  BY <1>2
<1>4. [n \in 1 .. len |-> page.data[off + n - 1]] \in Seq(Byte)
  BY <1>1, <1>3, SeqDef
<1> QED BY <1>4 DEF GetRecord, Record

LEMMA SameRecord ==
  ASSUME NEW page, NEW new, NEW i, Slot(new, i) = Slot(page, i),
         Slot(page, i).off \in Nat, Slot(page, i).len \in Nat,
         \A o \in Slot(page, i).off .. Slot(page, i).off + Slot(page, i).len - 1 :
           new.data[o] = page.data[o]
  PROVE  GetRecord(new, i) = GetRecord(page, i)
<1> DEFINE off == Slot(page, i).off
           len == Slot(page, i).len
<1>1. ASSUME NEW n \in 1 .. len PROVE new.data[off + n - 1] = page.data[off + n - 1]
  <2>1. off + n - 1 \in off .. off + len - 1
    OBVIOUS
  <2> QED BY <2>1
<1>2. [n \in 1 .. len |-> new.data[off + n - 1]]
        = [n \in 1 .. len |-> page.data[off + n - 1]]
  BY <1>1
<1> QED BY <1>2 DEF GetRecord

-----------------------------------------------------------------------------
(* insert_record.                                                          *)

LEMMA InsertFields ==
  ASSUME NEW page, Layout(page), NEW record \in Record, Len(record) > 0,
         Fits(page, record)
  PROVE  LET t == TargetSlot(page)
             off == page.free_end - Len(record)
             q == InsertRecord(page, record)
         IN  /\ off \in Nat /\ t \in Nat
             /\ HeaderSize + (t + 1) * SlotSize <= off
             /\ HeaderSize + Len(page.slots) * SlotSize <= off
             /\ HeaderSize + Len(q.slots) * SlotSize <= off
             /\ q.free_end = off
             /\ q.slots \in Seq(Entry)
             /\ Len(q.slots) = IF Reuses(page) THEN Len(page.slots)
                                               ELSE Len(page.slots) + 1
             /\ SlotsOf(q) = SlotsOf(page) \cup {t}
             /\ Slot(q, t) = [off |-> off, len |-> Len(record)]
             /\ \A i \in SlotsOf(page) : i # t => Slot(q, i) = Slot(page, i)
             /\ \A o \in Offset : q.data[o] =
                  IF o >= HeaderSize + t * SlotSize /\ o < HeaderSize + (t + 1) * SlotSize
                    THEN Mark
                  ELSE IF o >= off /\ o < off + Len(record) THEN record[o - off + 1]
                  ELSE page.data[o]
             /\ q.data \in [Offset -> Byte \cup {Mark, Blank}]
<1> DEFINE t == TargetSlot(page)
           off == page.free_end - Len(record)
           new == [off |-> off, len |-> Len(record)]
           q == InsertRecord(page, record)
           n == Len(page.slots)
<1>1. /\ page.slots \in Seq(Entry) /\ n \in Nat /\ page.free_end \in 0 .. PageSize
      /\ page.data \in [Offset -> Byte \cup {Mark, Blank}]
      /\ Len(record) \in Nat /\ \A k \in 1 .. Len(record) : record[k] \in Byte
  <2>1. Len(record) \in Nat /\ \A k \in 1 .. Len(record) : record[k] \in Byte
    BY LenProperties, ElementOfSeq DEF Record
  <2> QED BY <2>1, PageFields DEF Layout
<1>2. /\ t \in 0 .. n /\ (Reuses(page) => t \in 0 .. n - 1 /\ t = FirstDead(page))
      /\ (~Reuses(page) => t = n)
  BY TargetSlotProperties DEF Layout, SlotsOf
<1>3. /\ off \in Int
      /\ HeaderSize + (IF Reuses(page) THEN n ELSE n + 1) * SlotSize <= off
  BY <1>1 DEF Fits, FreeSpace, HeaderSize, SlotSize
<1>4. /\ off \in Nat /\ t \in Nat
      /\ HeaderSize + (t + 1) * SlotSize <= off
      /\ HeaderSize + n * SlotSize <= off
  <2>1. /\ off \in Nat /\ HeaderSize + n * SlotSize <= off
    BY <1>1, <1>3 DEF HeaderSize, SlotSize
  <2>2. t \in Nat /\ t + 1 <= (IF Reuses(page) THEN n ELSE n + 1)
    BY <1>1, <1>2
  <2>3. HeaderSize + (t + 1) * SlotSize <= off
    BY <1>1, <1>3, <2>2 DEF HeaderSize, SlotSize
  <2> QED BY <2>1, <2>2, <2>3
<1>5. new \in Entry
  BY <1>1, <1>4, PageAssumption DEF Entry
<1>6. /\ q.free_end = off
      /\ q.slots = IF Reuses(page) THEN [page.slots EXCEPT ![t + 1] = new]
                                   ELSE Append(page.slots, new)
      /\ q.data = MarkSlot(PutRecord(page.data, off, record), t)
  BY <1>2 DEF InsertRecord
<1>7. /\ q.slots \in Seq(Entry)
      /\ Len(q.slots) = IF Reuses(page) THEN n ELSE n + 1
      /\ q.slots[t + 1] = new
      /\ \A i \in 1 .. n : i # t + 1 => q.slots[i] = page.slots[i]
  <2>1. CASE Reuses(page)
    <3>1. t + 1 \in 1 .. n
      BY <1>1, <1>2, <2>1
    <3>2. q.slots = [page.slots EXCEPT ![t + 1] = new]
      BY <1>6, <2>1
    <3> QED BY <1>1, <1>5, <2>1, <3>1, <3>2, ExceptSeq
  <2>2. CASE ~Reuses(page)
    <3>1. q.slots = Append(page.slots, new) /\ t = n
      BY <1>2, <1>6, <2>2
    <3> QED BY <1>1, <1>5, <2>2, <3>1, AppendProperties
  <2> QED BY <2>1, <2>2
<1>8. SlotsOf(q) = SlotsOf(page) \cup {t}
  BY <1>1, <1>2, <1>7 DEF SlotsOf
<1>9. Slot(q, t) = new /\ \A i \in SlotsOf(page) : i # t => Slot(q, i) = Slot(page, i)
  <2>1. ASSUME NEW i \in SlotsOf(page), i # t PROVE q.slots[i + 1] = page.slots[i + 1]
    <3>1. i + 1 \in 1 .. n /\ i + 1 # t + 1
      BY <1>1, <1>2, <2>1 DEF SlotsOf
    <3> QED BY <1>7, <3>1
  <2> QED BY <1>7, <2>1 DEF Slot
<1>10. \A o \in Offset : q.data[o] =
         IF o >= HeaderSize + t * SlotSize /\ o < HeaderSize + (t + 1) * SlotSize
           THEN Mark
         ELSE IF o >= off /\ o < off + Len(record) THEN record[o - off + 1]
         ELSE page.data[o]
  BY <1>6 DEF MarkSlot, PutRecord
<1>11. q.data \in [Offset -> Byte \cup {Mark, Blank}]
  <2>1. \A o \in Offset : o >= off /\ o < off + Len(record) => record[o - off + 1] \in Byte
    <3> TAKE o \in Offset
    <3> HAVE o >= off /\ o < off + Len(record)
    <3>1. o \in Int /\ o - off + 1 \in 1 .. Len(record)
      <4>1. o \in Int
        BY PageAssumption DEF Offset, HeaderSize
      <4>2. off \in Nat /\ Len(record) \in Nat
        BY <1>1, <1>4
      <4> QED BY ONLY <4>1, <4>2, o >= off, o < off + Len(record)
    <3> QED BY <1>1, <3>1
  <2>2. \A o \in Offset : q.data[o] \in Byte \cup {Mark, Blank}
    BY <1>1, <1>10, <2>1
  <2>3. q.data = [o \in Offset |-> q.data[o]]
    BY <1>6 DEF MarkSlot
  <2> HIDE DEF q
  <2> QED BY <2>2, <2>3
<1>12. HeaderSize + Len(q.slots) * SlotSize <= off
  BY <1>3, <1>7
<1> QED BY <1>4, <1>6, <1>7, <1>8, <1>9, <1>10, <1>11, <1>12

(* insert_record keeps the layout, stores the record in a slot that held   *)
(* none, and leaves every other record as it was.                          *)
LEMMA InsertProperties ==
  ASSUME NEW page, Layout(page), NEW record \in Record, Len(record) > 0,
         Fits(page, record)
  PROVE  LET t == TargetSlot(page)
             q == InsertRecord(page, record)
         IN  /\ Layout(q)
             /\ SlotsOf(q) = SlotsOf(page) \cup {t}
             /\ t \in SlotsOf(page) => ~Live(page, t)
             /\ Live(q, t) /\ GetRecord(q, t) = record
             /\ \A i \in SlotsOf(page) : i # t =>
                  /\ Live(q, i) = Live(page, i)
                  /\ Live(page, i) => GetRecord(q, i) = GetRecord(page, i)
<1> DEFINE t == TargetSlot(page)
           off == page.free_end - Len(record)
           q == InsertRecord(page, record)
<1>1. /\ off \in Nat /\ t \in Nat
      /\ HeaderSize + (t + 1) * SlotSize <= off
      /\ HeaderSize + Len(page.slots) * SlotSize <= off
      /\ HeaderSize + Len(q.slots) * SlotSize <= off
      /\ q.free_end = off
      /\ q.slots \in Seq(Entry)
      /\ Len(q.slots) = IF Reuses(page) THEN Len(page.slots) ELSE Len(page.slots) + 1
      /\ SlotsOf(q) = SlotsOf(page) \cup {t}
      /\ Slot(q, t) = [off |-> off, len |-> Len(record)]
      /\ \A i \in SlotsOf(page) : i # t => Slot(q, i) = Slot(page, i)
      /\ q.data \in [Offset -> Byte \cup {Mark, Blank}]
  BY InsertFields
<1>2. \A o \in Offset : q.data[o] =
        IF o >= HeaderSize + t * SlotSize /\ o < HeaderSize + (t + 1) * SlotSize
          THEN Mark
        ELSE IF o >= off /\ o < off + Len(record) THEN record[o - off + 1]
        ELSE page.data[o]
  BY InsertFields
<1>3. /\ Len(page.slots) \in Nat /\ page.free_end \in 0 .. PageSize
      /\ \A i \in SlotsOf(page) :
           /\ i \in Nat /\ i < Len(page.slots)
           /\ Slot(page, i).off \in 0 .. PageSize /\ Slot(page, i).len \in 0 .. PageSize
  BY PageFields DEF Layout
<1>4. Len(record) \in Nat /\ \A k \in 1 .. Len(record) : record[k] \in Byte
  BY LenProperties, ElementOfSeq DEF Record
<1>5. t \in SlotsOf(page) => ~Live(page, t)
  BY <1>3, TargetSlotProperties DEF Layout, SlotsOf
<1>6. \A i \in SlotsOf(page) : i # t => Live(q, i) = Live(page, i)
  BY <1>1 DEF Live
<1>7. /\ q = [slots |-> q.slots, free_end |-> q.free_end, data |-> q.data]
      /\ q.free_end \in 0 .. PageSize
  <2>1. q = [slots |-> q.slots, free_end |-> q.free_end, data |-> q.data]
    BY DEF InsertRecord
  <2>2. off \in 0 .. PageSize
    BY <1>1, <1>3, <1>4, PageAssumption
  <2> HIDE DEF q, off
  <2> QED BY <1>1, <2>1, <2>2
<1>8. Live(q, t) /\ Slot(q, t).off = off /\ Slot(q, t).len = Len(record)
  BY <1>1, <1>4 DEF Live, Dead
<1> HIDE DEF q, t
<1>9. PageType(q)
  <2> DEFINE s == q.slots
             e == q.free_end
             d == q.data
  <2>1. s \in Seq(Entry) /\ e \in 0 .. PageSize /\ d \in [Offset -> Byte \cup {Mark, Blank}]
    BY <1>1, <1>7
  <2>2. q = [slots |-> s, free_end |-> e, data |-> d]
    BY <1>7
  <2> HIDE DEF s, e, d
  <2> QED BY <2>1, <2>2 DEF PageType
<1>10. DirectoryFits(q)
  BY <1>1, <1>7 DEF DirectoryFits
<1>11. RecordsInside(q)
  <2> SUFFICES ASSUME NEW i \in SlotsOf(q), Live(q, i)
               PROVE  /\ Slot(q, i).len > 0 /\ q.free_end <= Slot(q, i).off
                      /\ Slot(q, i).off + Slot(q, i).len <= PageSize
    BY DEF RecordsInside
  <2>1. CASE i = t
    BY <1>1, <1>3, <1>4, <1>8, <2>1
  <2>2. CASE i # t
    <3>1. i \in SlotsOf(page) /\ Slot(q, i) = Slot(page, i) /\ Live(page, i)
      BY <1>1, <1>6, <2>2
    <3>2. /\ Slot(page, i).len > 0 /\ page.free_end <= Slot(page, i).off
          /\ Slot(page, i).off + Slot(page, i).len <= PageSize
      BY <3>1 DEF Layout, RecordsInside
    <3> QED BY <1>1, <1>3, <1>4, <3>1, <3>2
  <2> QED BY <2>1, <2>2
<1>12. RecordsApart(q)
  <2>1. ASSUME NEW i \in SlotsOf(page), Live(page, i)
        PROVE  Slot(q, t).off + Slot(q, t).len <= Slot(page, i).off
    <3>1. page.free_end <= Slot(page, i).off
      BY <2>1 DEF Layout, RecordsInside
    <3> QED BY <1>1, <1>3, <1>4, <1>8, <3>1
  <2> SUFFICES ASSUME NEW i \in SlotsOf(q), NEW j \in SlotsOf(q),
                      Live(q, i), Live(q, j), i # j
               PROVE  \/ Slot(q, i).off + Slot(q, i).len <= Slot(q, j).off
                      \/ Slot(q, j).off + Slot(q, j).len <= Slot(q, i).off
    BY DEF RecordsApart
  <2>2. CASE i = t
    <3>1. j \in SlotsOf(page) /\ Slot(q, j) = Slot(page, j) /\ Live(page, j)
      BY <1>1, <1>6, <2>2
    <3> QED BY <2>1, <2>2, <3>1
  <2>3. CASE j = t
    <3>1. i \in SlotsOf(page) /\ Slot(q, i) = Slot(page, i) /\ Live(page, i)
      BY <1>1, <1>6, <2>3
    <3> QED BY <2>1, <2>3, <3>1
  <2>4. CASE i # t /\ j # t
    <3>1. /\ i \in SlotsOf(page) /\ Slot(q, i) = Slot(page, i) /\ Live(page, i)
          /\ j \in SlotsOf(page) /\ Slot(q, j) = Slot(page, j) /\ Live(page, j)
      BY <1>1, <1>6, <2>4
    <3> QED BY <3>1 DEF Layout, RecordsApart
  <2> QED BY <2>2, <2>3, <2>4
<1>13. DirectoryKept(q)
  <2> SUFFICES ASSUME NEW o \in Offset, o < HeaderSize + Len(q.slots) * SlotSize
               PROVE  q.data[o] = Mark
    BY DEF DirectoryKept
  <2>1. o \in Int /\ ~(o >= off)
    <3>1. Len(q.slots) \in Nat /\ o \in Int
      BY <1>1, <1>3, PageAssumption DEF Offset, HeaderSize
    <3> HIDE DEF off
    <3> QED BY <1>1, <3>1 DEF HeaderSize, SlotSize
  <2>2. CASE o >= HeaderSize + t * SlotSize /\ o < HeaderSize + (t + 1) * SlotSize
    BY <1>2, <2>2
  <2>3. CASE ~(o >= HeaderSize + t * SlotSize /\ o < HeaderSize + (t + 1) * SlotSize)
    <3>1. q.data[o] = page.data[o]
      BY <1>2, <2>1, <2>3
    <3>2. o < HeaderSize + Len(page.slots) * SlotSize
      <4>1. t = Len(page.slots) \/ Len(q.slots) = Len(page.slots)
        BY <1>1, TargetSlotProperties DEF Layout, t
      <4> QED BY <1>1, <1>3, <2>1, <2>3, <4>1 DEF HeaderSize, SlotSize
    <3> QED BY <3>1, <3>2 DEF Layout, DirectoryKept
  <2> QED BY <2>2, <2>3
<1>14. \A o \in Offset : off <= o /\ o < off + Len(record) =>
         q.data[o] = record[o - off + 1] /\ o - off + 1 \in 1 .. Len(record)
  <2> TAKE o \in Offset
  <2> HAVE off <= o /\ o < off + Len(record)
  <2>1. o \in Int /\ ~(o < HeaderSize + (t + 1) * SlotSize)
    BY <1>1, PageAssumption DEF Offset, HeaderSize, SlotSize
  <2> QED BY <1>1, <1>2, <1>4, <2>1
<1>15. \A i \in SlotsOf(page) : Live(page, i) =>
         \A o \in Slot(page, i).off .. Slot(page, i).off + Slot(page, i).len - 1 :
           o \in Offset /\ q.data[o] = page.data[o]
  <2> SUFFICES ASSUME NEW i \in SlotsOf(page), Live(page, i),
                      NEW o \in Slot(page, i).off .. Slot(page, i).off + Slot(page, i).len - 1
               PROVE  o \in Offset /\ q.data[o] = page.data[o]
    OBVIOUS
  <2>1. o \in Offset /\ page.free_end <= o
    BY RecordBytes
  <2>2. ~(o < HeaderSize + (t + 1) * SlotSize) /\ ~(o < off + Len(record))
    BY <1>1, <1>3, <1>4, <2>1, PageAssumption DEF Offset, HeaderSize, SlotSize
  <2> QED BY <1>2, <2>1, <2>2
<1>16. RecordsKept(q)
  <2> SUFFICES ASSUME NEW i \in SlotsOf(q), Live(q, i),
                      NEW o \in Slot(q, i).off .. Slot(q, i).off + Slot(q, i).len - 1
               PROVE  q.data[o] \in Byte
    BY DEF RecordsKept
  <2>1. CASE i = t
    <3>1. o \in Int /\ off <= o /\ o < off + Len(record)
      BY <1>1, <1>4, <1>8, <2>1
    <3>2. o \in Offset
      BY <1>1, <1>3, <1>4, <3>1, PageAssumption DEF Offset, HeaderSize, SlotSize
    <3> QED BY <1>4, <1>14, <3>1, <3>2
  <2>2. CASE i # t
    <3>1. i \in SlotsOf(page) /\ Slot(q, i) = Slot(page, i) /\ Live(page, i)
      BY <1>1, <1>6, <2>2
    <3>2. page.data[o] \in Byte
      BY <3>1 DEF Layout, RecordsKept
    <3> QED BY <1>15, <3>1, <3>2
  <2> QED BY <2>1, <2>2
<1>17. GetRecord(q, t) = record
  <2>1. ASSUME NEW k \in 1 .. Len(record) PROVE q.data[off + k - 1] = record[k]
    <3>1. /\ off + k - 1 \in Offset /\ off <= off + k - 1
          /\ off + k - 1 < off + Len(record) /\ (off + k - 1) - off + 1 = k
      <4>1. HeaderSize <= off /\ off + Len(record) <= PageSize
        BY <1>1, <1>3, <1>4, PageAssumption DEF HeaderSize, SlotSize
      <4>2. k \in Int /\ 1 <= k /\ k <= Len(record)
        BY <1>4
      <4> HIDE DEF off
      <4> QED BY <1>1, <1>4, <4>1, <4>2, PageAssumption DEF Offset, HeaderSize
    <3> QED BY <1>14, <3>1
  <2>2. [k \in 1 .. Len(record) |-> q.data[off + k - 1]]
          = [k \in 1 .. Len(record) |-> record[k]]
    BY <2>1
  <2>3. record = [k \in 1 .. Len(record) |-> record[k]]
    BY LenProperties DEF Record
  <2> QED BY <1>8, <2>2, <2>3 DEF GetRecord
<1>18. \A i \in SlotsOf(page) : i # t /\ Live(page, i) =>
         GetRecord(q, i) = GetRecord(page, i)
  <2> TAKE i \in SlotsOf(page)
  <2> HAVE i # t /\ Live(page, i)
  <2>1. /\ Slot(q, i) = Slot(page, i)
        /\ Slot(page, i).off \in Nat /\ Slot(page, i).len \in Nat
    BY <1>1, <1>3
  <2>2. \A o \in Slot(page, i).off .. Slot(page, i).off + Slot(page, i).len - 1 :
          q.data[o] = page.data[o]
    BY <1>15
  <2> QED BY <2>1, <2>2, SameRecord
<1>19. Layout(q)
  BY <1>9, <1>10, <1>11, <1>12, <1>13, <1>16 DEF Layout
<1> QED BY <1>1, <1>5, <1>6, <1>8, <1>17, <1>18, <1>19 DEF q, t

-----------------------------------------------------------------------------
(* delete_record keeps the layout and every record but one.                *)
LEMMA DeleteProperties ==
  ASSUME NEW page, Layout(page), NEW t \in SlotsOf(page)
  PROVE  LET q == DeleteRecord(page, t)
         IN  /\ Layout(q)
             /\ SlotsOf(q) = SlotsOf(page) /\ ~Live(q, t)
             /\ \A i \in SlotsOf(page) : i # t =>
                  /\ Live(q, i) = Live(page, i)
                  /\ Live(page, i) => GetRecord(q, i) = GetRecord(page, i)
<1> DEFINE q == DeleteRecord(page, t)
<1>1. /\ page.slots \in Seq(Entry) /\ Len(page.slots) \in Nat
      /\ page.free_end \in 0 .. PageSize
      /\ page.data \in [Offset -> Byte \cup {Mark, Blank}]
      /\ t \in Nat /\ t + 1 \in 1 .. Len(page.slots)
      /\ \A i \in SlotsOf(page) :
           /\ i \in Nat /\ i + 1 \in 1 .. Len(page.slots)
           /\ Slot(page, i).off \in 0 .. PageSize /\ Slot(page, i).len \in 0 .. PageSize
  BY PageFields DEF Layout
<1> DEFINE s == [page.slots EXCEPT ![t + 1] = Dead]
           d == MarkSlot(page.data, t)
<1>2. Dead \in Entry
  BY PageAssumption DEF Dead, Entry
<1>3. /\ s \in Seq(Entry) /\ Len(s) = Len(page.slots)
      /\ \A i \in 1 .. Len(page.slots) : s[i] = IF i = t + 1 THEN Dead ELSE page.slots[i]
      /\ d \in [Offset -> Byte \cup {Mark, Blank}]
  <2>1. d \in [Offset -> Byte \cup {Mark, Blank}]
    BY <1>1 DEF MarkSlot
  <2> QED BY <1>1, <1>2, <2>1, ExceptSeq
<1>4. PageType(q) /\ q.slots = s /\ q.free_end = page.free_end /\ q.data = d
  <2>1. q = [page EXCEPT !.slots = s, !.data = d]
    BY DEF DeleteRecord
  <2>2. page \in [slots : Seq(Entry), free_end : 0 .. PageSize,
                  data : [Offset -> Byte \cup {Mark, Blank}]]
    BY DEF Layout, PageType
  <2> HIDE DEF q, s, d
  <2> QED BY <1>3, <2>1, <2>2 DEF PageType
<1> HIDE DEF q
<1>5. /\ SlotsOf(q) = SlotsOf(page)
      /\ Slot(q, t) = Dead /\ \A i \in SlotsOf(page) : i # t => Slot(q, i) = Slot(page, i)
  BY <1>1, <1>3, <1>4 DEF SlotsOf, Slot
<1>6. /\ ~Live(q, t)
      /\ \A i \in SlotsOf(page) : i # t => Live(q, i) = Live(page, i)
  BY <1>5 DEF Live
<1>7. \A o \in Offset : q.data[o] =
        IF o >= HeaderSize + t * SlotSize /\ o < HeaderSize + (t + 1) * SlotSize
          THEN Mark ELSE page.data[o]
  BY <1>4 DEF MarkSlot
<1>8. q.free_end = page.free_end /\ Len(q.slots) = Len(page.slots)
  BY <1>3, <1>4
<1>9. DirectoryFits(q)
  BY <1>8 DEF DirectoryFits, Layout
<1>10. ASSUME NEW i \in SlotsOf(q), Live(q, i)
       PROVE  i \in SlotsOf(page) /\ i # t /\ Slot(q, i) = Slot(page, i) /\ Live(page, i)
  BY <1>5, <1>6, <1>10
<1>11. RecordsInside(q) /\ RecordsApart(q)
  BY <1>8, <1>10 DEF Layout, RecordsInside, RecordsApart
<1>12. DirectoryKept(q)
  BY <1>7, <1>8 DEF Layout, DirectoryKept
<1>13. \A i \in SlotsOf(page) : Live(page, i) =>
         \A o \in Slot(page, i).off .. Slot(page, i).off + Slot(page, i).len - 1 :
           q.data[o] = page.data[o]
  <2> SUFFICES ASSUME NEW i \in SlotsOf(page), Live(page, i),
                      NEW o \in Slot(page, i).off .. Slot(page, i).off + Slot(page, i).len - 1
               PROVE  q.data[o] = page.data[o]
    OBVIOUS
  <2>1. o \in Offset /\ o \in Int /\ HeaderSize + Len(page.slots) * SlotSize <= o
    BY RecordBytes, PageAssumption DEF Offset, HeaderSize
  <2>2. ~(o < HeaderSize + (t + 1) * SlotSize)
    BY <1>1, <2>1 DEF HeaderSize, SlotSize
  <2> QED BY <1>7, <2>1, <2>2
<1>14. RecordsKept(q)
  BY <1>10, <1>13 DEF Layout, RecordsKept
<1>15. \A i \in SlotsOf(page) : i # t /\ Live(page, i) =>
         GetRecord(q, i) = GetRecord(page, i)
  <2> TAKE i \in SlotsOf(page)
  <2> HAVE i # t /\ Live(page, i)
  <2>1. /\ Slot(q, i) = Slot(page, i)
        /\ Slot(page, i).off \in Nat /\ Slot(page, i).len \in Nat
    BY <1>1, <1>5
  <2>2. \A o \in Slot(page, i).off .. Slot(page, i).off + Slot(page, i).len - 1 :
          q.data[o] = page.data[o]
    BY <1>13
  <2> QED BY <2>1, <2>2, SameRecord
<1>16. Layout(q)
  BY <1>4, <1>9, <1>11, <1>12, <1>14 DEF Layout
<1> QED BY <1>5, <1>6, <1>15, <1>16 DEF q

-----------------------------------------------------------------------------
(* The heap.                                                               *)

(* What TypeOK and PagesLaidOut need each other for.                       *)
Sound == TypeOK /\ PagesLaidOut

Contiguous(file) ==
  \A p, q \in PageNo : q < p /\ file[p] # Absent => file[q] # Absent

-----------------------------------------------------------------------------
(* The last page of a file.                                                *)

LEMMA LastPageIs ==
  ASSUME NEW file, NEW n \in 0 .. MaxPage,
         \A p \in PageNo : (file[p] # Absent) <=> p <= n
  PROVE  LastPage(file) = n
<1>1. MaxPage \in Nat
  BY HeapAssumption
<1>2. CASE n = 0
  <2>1. \A p \in PageNo : file[p] = Absent
    BY <1>1, <1>2 DEF PageNo
  <2> QED BY <1>2, <2>1 DEF LastPage
<1>3. CASE n # 0
  <2>1. n \in PageNo /\ file[n] # Absent
    BY <1>1, <1>3 DEF PageNo
  <2>2. \A q \in n + 1 .. MaxPage : file[q] = Absent
    BY <1>1 DEF PageNo
  <2>3. ASSUME NEW p \in PageNo, file[p] # Absent,
               \A q \in p + 1 .. MaxPage : file[q] = Absent
        PROVE  p = n
    <3>1. p <= n /\ p \in Nat
      BY <2>3 DEF PageNo
    <3>2. ~(p < n)
      BY <1>1, <2>1, <2>3, <3>1
    <3> QED BY <3>1, <3>2
  <2> QED BY <2>1, <2>2, <2>3 DEF LastPage
<1> QED BY <1>2, <1>3

LEMMA LastPageProperties ==
  ASSUME NEW file, Contiguous(file)
  PROVE  /\ LastPage(file) \in 0 .. MaxPage
         /\ \A p \in PageNo : (file[p] # Absent) <=> p <= LastPage(file)
<1>1. MaxPage \in Nat
  BY HeapAssumption
<1> DEFINE Past == {n \in Nat : \A p \in PageNo : n < p => file[p] = Absent}
<1>2. MaxPage \in Past
  BY <1>1 DEF PageNo
<1>3. PICK n \in Past : \A m \in Past : n <= m
  <2>1. Past \in SUBSET Nat /\ Past # {}
    BY <1>2
  <2> HIDE DEF Past
  <2> QED BY <2>1, LeastNumber
<1>4. n \in 0 .. MaxPage
  BY <1>1, <1>2, <1>3
<1>5. \A p \in PageNo : (file[p] # Absent) <=> p <= n
  <2> TAKE p \in PageNo
  <2>1. p \in Nat /\ n \in Nat
    BY <1>4 DEF PageNo
  <2>2. file[p] # Absent => p <= n
    BY <1>3, <2>1
  <2>3. ASSUME p <= n PROVE file[p] # Absent
    <3>1. n - 1 \in Nat /\ n - 1 \notin Past
      BY <1>3, <2>1, <2>3 DEF PageNo
    <3>2. PICK q \in PageNo : n - 1 < q /\ file[q] # Absent
      BY <3>1
    <3>3. q \in Nat /\ q <= n
      BY <1>3, <3>2 DEF PageNo
    <3>4. q = n
      BY <2>1, <3>2, <3>3
    <3>5. p = q \/ p < q
      BY <2>1, <2>3, <3>4
    <3> QED BY <3>2, <3>5 DEF Contiguous
  <2> QED BY <2>2, <2>3
<1>6. LastPage(file) = n
  BY <1>4, <1>5, LastPageIs
<1> QED BY <1>4, <1>5, <1>6

-----------------------------------------------------------------------------
(* The rows of a file.                                                     *)

Row(page, i) ==
  IF page # Absent /\ i \in SlotsOf(page) /\ Live(page, i)
    THEN GetRecord(page, i) ELSE None

LEMMA RowsAre ==
  ASSUME NEW file
  PROVE  RowsOf(file) = [rid \in PageNo \X SlotNo |-> Row(file[rid[1]], rid[2])]
BY DEF RowsOf, Row

LEMMA PagePresent ==
  ASSUME NEW page, Layout(page)
  PROVE  page # Absent /\ PageOrAbsent(page)
BY HeapAssumption DEF Layout, PageType, PageOrAbsent

LEMMA RowsChangeAt ==
  ASSUME NEW file, NEW new, NEW p \in PageNo, NEW t \in SlotNo, NEW row,
         \A q \in PageNo : q # p => new[q] = file[q],
         Row(new[p], t) = row,
         \A i \in SlotNo : i # t => Row(new[p], i) = Row(file[p], i),
         NEW rows, rows = [RowsOf(file) EXCEPT ![<<p, t>>] = row]
  PROVE  RowsOf(new) = rows
<1>1. ASSUME NEW rid \in PageNo \X SlotNo
      PROVE  Row(new[rid[1]], rid[2])
               = IF rid = <<p, t>> THEN row ELSE Row(file[rid[1]], rid[2])
  <2>1. rid[1] \in PageNo /\ rid[2] \in SlotNo /\ rid = <<rid[1], rid[2]>>
    OBVIOUS
  <2>2. rid = <<p, t>> <=> rid[1] = p /\ rid[2] = t
    BY <2>1
  <2> QED BY <2>1, <2>2
<1>2. RowsOf(new) = [rid \in PageNo \X SlotNo |->
                       IF rid = <<p, t>> THEN row ELSE Row(file[rid[1]], rid[2])]
  BY <1>1, RowsAre
<1>3. <<p, t>> \in PageNo \X SlotNo
  OBVIOUS
<1> QED BY <1>2, <1>3, RowsAre

(* insert_record into a page of the file, or into one it has just been     *)
(* extended by.                                                            *)
LEMMA RowsAfterInsert ==
  ASSUME NEW file, NEW new, NEW p \in PageNo, NEW page, Layout(page),
         file[p] = page \/ (file[p] = Absent /\ page = EmptyPage),
         NEW record \in Record, Len(record) > 0, Fits(page, record),
         new[p] = InsertRecord(page, record),
         \A q \in PageNo : q # p => new[q] = file[q]
  PROVE  /\ TargetSlot(page) \in SlotNo
         /\ RowsOf(file)[<<p, TargetSlot(page)>>] = None
         /\ RowsOf(new) = [RowsOf(file) EXCEPT ![<<p, TargetSlot(page)>>] = record]
         /\ Layout(new[p])
<1> DEFINE t == TargetSlot(page)
           q == InsertRecord(page, record)
<1>1. /\ Layout(q) /\ SlotsOf(q) = SlotsOf(page) \cup {t}
      /\ t \in SlotsOf(page) => ~Live(page, t)
      /\ Live(q, t) /\ GetRecord(q, t) = record
      /\ \A i \in SlotsOf(page) : i # t =>
           /\ Live(q, i) = Live(page, i)
           /\ Live(page, i) => GetRecord(q, i) = GetRecord(page, i)
  BY InsertProperties
<1>2. t \in SlotNo
  <2>1. /\ t \in Nat /\ HeaderSize + (t + 1) * SlotSize <= page.free_end - Len(record)
        /\ page.free_end - Len(record) \in Nat
    BY InsertFields
  <2>2. page.free_end \in 0 .. PageSize /\ Len(record) \in Nat
    BY PageFields, LenProperties DEF Layout, Record
  <2>3. (t + 1) * 4 <= PageSize - 4 /\ PageSize \in Nat
    BY <2>1, <2>2, PageAssumption DEF HeaderSize, SlotSize
  <2>4. \A m, x \in Nat : (m + 1) * 4 <= x => m <= x \div 4
    OBVIOUS
  <2>5. PageSize - 4 \in Nat
    BY <2>1, <2>3
  <2> HIDE DEF t
  <2> QED BY <2>1, <2>3, <2>4, <2>5 DEF SlotNo, HeaderSize, SlotSize
<1>3. Row(file[p], t) = None
  BY <1>1, EmptyPageLayout DEF Row
<1>4. Row(q, t) = record
  BY <1>1, PagePresent DEF Row
<1>5. \A i \in SlotNo : i # t => Row(q, i) = Row(file[p], i)
  <2> TAKE i \in SlotNo
  <2> HAVE i # t
  <2>1. q # Absent /\ page # Absent
    BY <1>1, PagePresent
  <2>2. Row(q, i) = Row(page, i)
    BY <1>1, <2>1 DEF Row
  <2>3. Row(file[p], i) = Row(page, i)
    BY EmptyPageLayout DEF Row
  <2> QED BY <2>2, <2>3
<1>6. RowsOf(new) = [RowsOf(file) EXCEPT ![<<p, t>>] = record]
  <2> DEFINE rows == [RowsOf(file) EXCEPT ![<<p, t>>] = record]
  <2>1. rows = [RowsOf(file) EXCEPT ![<<p, t>>] = record]
    OBVIOUS
  <2>2. /\ p \in PageNo /\ t \in SlotNo
        /\ \A r \in PageNo : r # p => new[r] = file[r]
        /\ Row(new[p], t) = record
        /\ \A i \in SlotNo : i # t => Row(new[p], i) = Row(file[p], i)
    BY <1>2, <1>4, <1>5
  <2> HIDE DEF t, q, rows
  <2>3. RowsOf(new) = rows
    BY ONLY <2>1, <2>2, RowsChangeAt
  <2> QED BY <2>1, <2>3
<1>7. RowsOf(file)[<<p, t>>] = None
  BY <1>2, <1>3, RowsAre
<1> QED BY <1>1, <1>2, <1>6, <1>7

LEMMA RowsAfterDelete ==
  ASSUME NEW file, NEW new, NEW p \in PageNo, Layout(file[p]),
         NEW t \in SlotsOf(file[p]), t \in SlotNo, Live(file[p], t),
         new[p] = DeleteRecord(file[p], t),
         \A q \in PageNo : q # p => new[q] = file[q]
  PROVE  /\ RowsOf(file)[<<p, t>>] # None
         /\ RowsOf(new) = [RowsOf(file) EXCEPT ![<<p, t>>] = None]
         /\ Layout(new[p])
<1> DEFINE page == file[p]
           q == DeleteRecord(page, t)
<1>1. /\ Layout(q) /\ SlotsOf(q) = SlotsOf(page) /\ ~Live(q, t)
      /\ \A i \in SlotsOf(page) : i # t =>
           /\ Live(q, i) = Live(page, i)
           /\ Live(page, i) => GetRecord(q, i) = GetRecord(page, i)
  BY DeleteProperties
<1>2. q # Absent /\ page # Absent
  BY <1>1, PagePresent
<1>3. Row(new[p], t) = None /\ \A i \in SlotNo : i # t => Row(new[p], i) = Row(file[p], i)
  BY <1>1, <1>2 DEF Row
<1>4. RowsOf(new) = [RowsOf(file) EXCEPT ![<<p, t>>] = None]
  <2> DEFINE rows == [RowsOf(file) EXCEPT ![<<p, t>>] = None]
  <2>1. rows = [RowsOf(file) EXCEPT ![<<p, t>>] = None]
    OBVIOUS
  <2> HIDE DEF q, page, rows
  <2>2. RowsOf(new) = rows
    BY <1>3, <2>1, RowsChangeAt
  <2> QED BY <2>1, <2>2
<1>5. Row(page, t) \in Record /\ None \notin Record
  BY <1>2, GetRecordType, HeapAssumption DEF Row
<1>6. RowsOf(file)[<<p, t>>] # None
  BY <1>5, RowsAre
<1> QED BY <1>1, <1>4, <1>6

-----------------------------------------------------------------------------
(* The invariant.                                                          *)

LEMMA SoundInit == Init => Sound
<1> SUFFICES ASSUME Init PROVE Sound
  OBVIOUS
<1>1. MaxPage \in Nat
  BY HeapAssumption
<1>2. \A p \in PageNo : mem[p] = Absent /\ disk[p] = Absent
  BY DEF Init
<1>3. LastPage(disk) = 0
  BY <1>2 DEF LastPage
<1> QED BY <1>2, <1>3 DEF Init, Sound, TypeOK, PagesLaidOut, PageOrAbsent

LEMMA SoundFacts ==
  ASSUME Sound
  PROVE  /\ MaxPage \in Nat
         /\ Contiguous(disk) /\ Contiguous(mem)
         /\ LastPage(disk) \in 0 .. MaxPage
         /\ \A p \in PageNo : (disk[p] # Absent) <=> p <= LastPage(disk)
         /\ \A p \in PageNo : (mem[p] # Absent) <=> p <= LastPage(disk)
         /\ \A p \in PageNo : mem[p] # Absent => Layout(mem[p])
         /\ \A p \in PageNo : disk[p] # Absent => Layout(disk[p])
         /\ last_page = LastPage(disk)
         /\ last_page # 0 => last_page \in PageNo
<1>1. MaxPage \in Nat
  BY HeapAssumption
<1>2. Contiguous(disk) /\ Contiguous(mem) /\ last_page = LastPage(disk)
  BY DEF Sound, TypeOK, Contiguous
<1>3. /\ LastPage(disk) \in 0 .. MaxPage
      /\ \A p \in PageNo : (disk[p] # Absent) <=> p <= LastPage(disk)
  BY <1>2, LastPageProperties
<1>4. \A p \in PageNo : (mem[p] # Absent) <=> p <= LastPage(disk)
  BY <1>3 DEF Sound, TypeOK
<1> QED BY <1>1, <1>2, <1>3, <1>4 DEF Sound, PagesLaidOut, PageNo

LEMMA InsertInLastFacts ==
  ASSUME Sound, NEW record \in Records, InsertInLast(record)
  PROVE  /\ record \in Record /\ Len(record) > 0
         /\ last_page \in PageNo /\ Layout(mem[last_page])
         /\ mem'[last_page] = InsertRecord(mem[last_page], record)
         /\ \A q \in PageNo : q # last_page => mem'[q] = mem[q]
         /\ Fits(mem[last_page], record)
<1>1. last_page \in PageNo /\ mem[last_page] # Absent /\ Layout(mem[last_page])
  BY SoundFacts DEF InsertInLast, PageNo
<1> QED BY <1>1, HeapAssumption DEF InsertInLast, Accepted, Sound, TypeOK

LEMMA InsertInNewFacts ==
  ASSUME Sound, NEW record \in Records, InsertInNew(record)
  PROVE  LET p == LastPage(disk) + 1
         IN  /\ record \in Record /\ Len(record) > 0 /\ p \in PageNo
             /\ Fits(EmptyPage, record)
             /\ mem[p] = Absent /\ disk[p] = Absent
             /\ disk'[p] = EmptyPage /\ mem'[p] = InsertRecord(EmptyPage, record)
             /\ \A q \in PageNo : q # p => mem'[q] = mem[q] /\ disk'[q] = disk[q]
             /\ DOMAIN mem' = PageNo /\ DOMAIN disk' = PageNo
             /\ last_page' = p /\ answer' = Inserted(p, EmptyPage)
<1> DEFINE p == LastPage(disk) + 1
<1>1. record \in Record /\ Len(record) > 0 /\ Fits(EmptyPage, record)
  BY EmptyPageFits, HeapAssumption DEF InsertInNew, Accepted, MaxRecordSize
<1>2. p \in PageNo /\ mem[p] = Absent /\ disk[p] = Absent
  BY SoundFacts DEF InsertInNew, PageNo
<1>3. /\ disk' = [disk EXCEPT ![p] = EmptyPage]
      /\ mem' = [mem EXCEPT ![p] = InsertRecord(EmptyPage, record)]
      /\ last_page' = p /\ answer' = Inserted(p, EmptyPage)
  BY <1>1 DEF InsertInNew
<1>4. DOMAIN mem = PageNo /\ DOMAIN disk = PageNo
  BY DEF Sound, TypeOK
<1> HIDE DEF p
<1>5. /\ disk'[p] = EmptyPage /\ mem'[p] = InsertRecord(EmptyPage, record)
      /\ \A q \in PageNo : q # p => mem'[q] = mem[q] /\ disk'[q] = disk[q]
      /\ DOMAIN mem' = PageNo /\ DOMAIN disk' = PageNo
  BY <1>2, <1>3, <1>4
<1> QED BY <1>1, <1>2, <1>3, <1>5 DEF p

LEMMA DeleteFacts ==
  ASSUME Sound, NEW p \in PageNo, NEW i \in SlotNo, Delete(p, i), Live(mem[p], i)
  PROVE  /\ Layout(mem[p]) /\ i \in SlotsOf(mem[p])
         /\ mem'[p] = DeleteRecord(mem[p], i)
         /\ \A q \in PageNo : q # p => mem'[q] = mem[q]
         /\ answer' = [is |-> "deleted", rid |-> <<p, i>>]
<1>1. mem' = [mem EXCEPT ![p] = DeleteRecord(@, i)] /\ i \in SlotsOf(mem[p])
      /\ answer' = [is |-> "deleted", rid |-> <<p, i>>] /\ mem[p] # Absent
  BY DEF Delete
<1>2. DOMAIN mem = PageNo /\ Layout(mem[p])
  BY <1>1 DEF Sound, TypeOK, PagesLaidOut
<1> QED BY <1>1, <1>2

LEMMA SoundNext == Sound /\ [Next]_vars => Sound'
<1> SUFFICES ASSUME Sound, [Next]_vars PROVE Sound'
  OBVIOUS
<1>1. ASSUME NEW record \in Records, InsertInLast(record) PROVE Sound'
  <2>1. Layout(mem'[last_page]) /\ last_page \in PageNo
    BY <1>1, InsertInLastFacts, InsertProperties
  <2>2. /\ mem'[last_page] # Absent /\ PageOrAbsent(mem'[last_page])
        /\ mem[last_page] # Absent
    BY <1>1, <2>1, PagePresent, InsertInLastFacts
  <2>3. \A q \in PageNo : q # last_page => mem'[q] = mem[q]
    BY <1>1, InsertInLastFacts
  <2>4. DOMAIN mem' = PageNo /\ UNCHANGED <<disk, last_page>>
    BY <1>1 DEF InsertInLast, Sound, TypeOK
  <2>5. TypeOK'
    BY <2>2, <2>3, <2>4 DEF Sound, TypeOK
  <2>6. PagesLaidOut'
    BY <2>1, <2>3, <2>4 DEF Sound, PagesLaidOut
  <2> QED BY <2>5, <2>6 DEF Sound
<1>2. ASSUME NEW record \in Records, InsertInNew(record) PROVE Sound'
  <2>1. PICK p \in PageNo :
          /\ p = LastPage(disk) + 1 /\ record \in Record /\ Len(record) > 0
          /\ Fits(EmptyPage, record)
          /\ disk'[p] = EmptyPage /\ mem'[p] = InsertRecord(EmptyPage, record)
          /\ \A q \in PageNo : q # p => mem'[q] = mem[q] /\ disk'[q] = disk[q]
          /\ DOMAIN mem' = PageNo /\ DOMAIN disk' = PageNo /\ last_page' = p
    BY <1>2, InsertInNewFacts
  <2>2. Layout(disk'[p]) /\ Layout(mem'[p])
    BY <2>1, EmptyPageLayout, InsertProperties
  <2>3. /\ disk'[p] # Absent /\ PageOrAbsent(disk'[p])
        /\ mem'[p] # Absent /\ PageOrAbsent(mem'[p])
    BY <2>2, PagePresent
  <2>4. \A q \in PageNo : (disk'[q] # Absent) <=> q <= p
    <3> TAKE q \in PageNo
    <3>1. q = p => q <= p
      BY DEF PageNo
    <3>2. q # p => ((disk'[q] # Absent) <=> q <= LastPage(disk))
      BY <2>1, SoundFacts
    <3>3. q # p => (q <= LastPage(disk) <=> q <= p)
      BY <2>1, SoundFacts DEF PageNo
    <3> QED BY <2>3, <3>1, <3>2, <3>3
  <2>5. LastPage(disk') = p
    <3>1. p \in 0 .. MaxPage
      BY DEF PageNo
    <3> QED BY <2>4, <3>1, LastPageIs
  <2>6. \A q, r \in PageNo : r < q /\ disk'[q] # Absent => disk'[r] # Absent
    BY <2>4 DEF PageNo
  <2>7. TypeOK'
    BY <2>1, <2>3, <2>5, <2>6 DEF Sound, TypeOK
  <2>8. PagesLaidOut'
    BY <2>1, <2>2 DEF Sound, PagesLaidOut
  <2> QED BY <2>7, <2>8 DEF Sound
<1>3. ASSUME NEW p \in PageNo, NEW i \in SlotNo, Delete(p, i) PROVE Sound'
  <2>1. CASE Live(mem[p], i)
    <3>1. Layout(mem[p]) /\ Layout(mem'[p]) /\ \A q \in PageNo : q # p => mem'[q] = mem[q]
      BY <1>3, <2>1, DeleteFacts, DeleteProperties
    <3>2. mem'[p] # Absent /\ PageOrAbsent(mem'[p]) /\ mem[p] # Absent
      BY <3>1, PagePresent
    <3>3. DOMAIN mem' = PageNo /\ UNCHANGED <<disk, last_page>>
      BY <1>3, <2>1 DEF Delete, Sound, TypeOK
    <3>4. TypeOK'
      BY <3>1, <3>2, <3>3 DEF Sound, TypeOK
    <3>5. PagesLaidOut'
      BY <3>1, <3>3 DEF Sound, PagesLaidOut
    <3> QED BY <3>4, <3>5 DEF Sound
  <2>2. CASE ~Live(mem[p], i)
    BY <1>3, <2>2 DEF Delete, Sound, TypeOK, PagesLaidOut
  <2> QED BY <2>1, <2>2
<1>4. ASSUME NEW p \in PageNo, WriteBack(p) PROVE Sound'
  <2>1. /\ DOMAIN disk' = PageNo /\ disk'[p] = mem[p]
        /\ \A q \in PageNo : q # p => disk'[q] = disk[q]
        /\ UNCHANGED <<mem, last_page>>
    BY <1>4 DEF WriteBack, Sound, TypeOK
  <2>2. \A q \in PageNo : (disk'[q] = Absent) = (disk[q] = Absent)
    BY <2>1 DEF Sound, TypeOK
  <2>3. LastPage(disk') = LastPage(disk)
    <3>1. /\ LastPage(disk) \in 0 .. MaxPage
          /\ \A q \in PageNo : (disk'[q] # Absent) <=> q <= LastPage(disk)
      BY <2>2, SoundFacts
    <3> QED BY <3>1, LastPageIs
  <2>4. TypeOK'
    BY <2>1, <2>2, <2>3 DEF Sound, TypeOK
  <2>5. PagesLaidOut'
    BY <2>1 DEF Sound, PagesLaidOut
  <2> QED BY <2>4, <2>5 DEF Sound
<1>5. CASE Reopen
  BY <1>5 DEF Reopen, Sound, TypeOK, PagesLaidOut
<1>6. CASE UNCHANGED vars
  BY <1>6 DEF vars, Sound, TypeOK, PagesLaidOut
<1> QED BY <1>1, <1>2, <1>3, <1>4, <1>5, <1>6 DEF Next

(* The heap file goes on at the last page of the file, whichever pages a   *)
(* kill left (heap_file.py, __init__ and insert).                          *)
THEOREM HeapType == Spec => []TypeOK
<1>1. Sound => TypeOK
  BY DEF Sound
<1> QED BY <1>1, SoundInit, SoundNext, PTL DEF Spec

(* In every page, in memory and in the file, the slot directory, the free  *)
(* space and the records never overlap, however slots are reused           *)
(* (page.py, insert_record and delete_record).                             *)
THEOREM HeapPagesLaidOut == Spec => []PagesLaidOut
<1>1. Sound => PagesLaidOut
  BY DEF Sound
<1> QED BY <1>1, SoundInit, SoundNext, PTL DEF Spec

-----------------------------------------------------------------------------
(* The refinement.                                                         *)

LEMMA SameRows ==
  ASSUME NEW file, NEW new,
         \A p \in PageNo, i \in SlotNo : Row(new[p], i) = Row(file[p], i)
  PROVE  RowsOf(new) = RowsOf(file)
<1>1. ASSUME NEW rid \in PageNo \X SlotNo
      PROVE  Row(new[rid[1]], rid[2]) = Row(file[rid[1]], rid[2])
  <2>1. rid[1] \in PageNo /\ rid[2] \in SlotNo
    OBVIOUS
  <2> QED BY <2>1
<1> QED BY <1>1, RowsAre

LEMMA StoreInit == Init => Store!Initially
<1> SUFFICES ASSUME Init PROVE Store!Initially
  OBVIOUS
<1>1. \A p \in PageNo : mem[p] = Absent /\ disk[p] = Absent
  BY DEF Init
<1>2. /\ \A rid \in PageNo \X SlotNo : Row(mem[rid[1]], rid[2]) = None
      /\ \A rid \in PageNo \X SlotNo : Row(disk[rid[1]], rid[2]) = None
  BY <1>1 DEF Row
<1>3. /\ RowsOf(mem) = [rid \in PageNo \X SlotNo |-> None]
      /\ RowsOf(disk) = [rid \in PageNo \X SlotNo |-> None]
  BY <1>2, RowsAre
<1> QED BY <1>3 DEF Init, Store!Initially, Store!RowId

LEMMA StoreNext ==
  Sound /\ [Next]_vars => [Store!Next]_<<RowsOf(mem), RowsOf(disk), answer>>
<1> SUFFICES ASSUME Sound, [Next]_vars
             PROVE  [Store!Next]_<<RowsOf(mem), RowsOf(disk), answer>>
  OBVIOUS
<1>1. ASSUME NEW record \in Records, Len(record) > 0,
             NEW p \in PageNo, NEW t \in SlotNo,
             RowsOf(mem)[<<p, t>>] = None,
             RowsOf(mem') = [RowsOf(mem) EXCEPT ![<<p, t>>] = record],
             RowsOf(disk') = RowsOf(disk),
             answer' = [is |-> "inserted", rid |-> <<p, t>>]
      PROVE  Store!Next
  <2>1. <<p, t>> \in Store!RowId
    BY DEF Store!RowId
  <2>2. Store!Insert(record)
    BY <1>1, <2>1 DEF Store!Insert
  <2> QED BY <1>1, <2>2 DEF Store!Next
<1>2. ASSUME NEW record \in Records, InsertInLast(record) PROVE Store!Next
  <2> DEFINE t == TargetSlot(mem[last_page])
  <2>1. /\ record \in Record /\ Len(record) > 0
        /\ last_page \in PageNo /\ Layout(mem[last_page])
        /\ mem'[last_page] = InsertRecord(mem[last_page], record)
        /\ \A q \in PageNo : q # last_page => mem'[q] = mem[q]
        /\ Fits(mem[last_page], record)
    BY <1>2, InsertInLastFacts
  <2>2. /\ t \in SlotNo /\ RowsOf(mem)[<<last_page, t>>] = None
        /\ RowsOf(mem') = [RowsOf(mem) EXCEPT ![<<last_page, t>>] = record]
    BY <2>1, RowsAfterInsert
  <2>3. disk' = disk /\ answer' = [is |-> "inserted", rid |-> <<last_page, t>>]
    BY <1>2 DEF InsertInLast, Inserted
  <2> HIDE DEF t
  <2> QED BY <1>1, <2>1, <2>2, <2>3
<1>3. ASSUME NEW record \in Records, InsertInNew(record) PROVE Store!Next
  <2> DEFINE t == TargetSlot(EmptyPage)
  <2>1. PICK p \in PageNo :
          /\ p = LastPage(disk) + 1 /\ record \in Record /\ Len(record) > 0
          /\ Fits(EmptyPage, record)
          /\ mem[p] = Absent /\ disk[p] = Absent
          /\ disk'[p] = EmptyPage /\ mem'[p] = InsertRecord(EmptyPage, record)
          /\ \A q \in PageNo : q # p => mem'[q] = mem[q] /\ disk'[q] = disk[q]
          /\ answer' = Inserted(p, EmptyPage)
    BY <1>3, InsertInNewFacts
  <2>2. /\ t \in SlotNo /\ RowsOf(mem)[<<p, t>>] = None
        /\ RowsOf(mem') = [RowsOf(mem) EXCEPT ![<<p, t>>] = record]
    BY <2>1, EmptyPageLayout, RowsAfterInsert
  <2>3. \A q \in PageNo, i \in SlotNo : Row(disk'[q], i) = Row(disk[q], i)
    BY <2>1, EmptyPageLayout DEF Row
  <2>4. RowsOf(disk') = RowsOf(disk)
    BY <2>3, SameRows
  <2>5. answer' = [is |-> "inserted", rid |-> <<p, t>>]
    BY <2>1 DEF Inserted
  <2> HIDE DEF t
  <2> QED BY <1>1, <2>1, <2>2, <2>4, <2>5
<1>4. ASSUME NEW p \in PageNo, NEW i \in SlotNo, Delete(p, i) PROVE Store!Next
  <2>1. <<p, i>> \in Store!RowId /\ disk' = disk
    BY <1>4 DEF Store!RowId, Delete
  <2>2. CASE Live(mem[p], i)
    <3>1. /\ Layout(mem[p]) /\ i \in SlotsOf(mem[p])
          /\ mem'[p] = DeleteRecord(mem[p], i)
          /\ \A q \in PageNo : q # p => mem'[q] = mem[q]
          /\ answer' = [is |-> "deleted", rid |-> <<p, i>>]
      BY <1>4, <2>2, DeleteFacts
    <3>2. /\ RowsOf(mem)[<<p, i>>] # None
          /\ RowsOf(mem') = [RowsOf(mem) EXCEPT ![<<p, i>>] = None]
      BY <2>2, <3>1, RowsAfterDelete
    <3>3. Store!Delete(<<p, i>>)
      BY <2>1, <3>1, <3>2 DEF Store!Delete
    <3> QED BY <2>1, <3>3 DEF Store!Next
  <2>3. CASE ~Live(mem[p], i)
    <3>1. mem' = mem /\ answer' = [is |-> "absent", rid |-> <<p, i>>]
      BY <1>4, <2>3 DEF Delete
    <3>2. RowsOf(mem)[<<p, i>>] = None
      BY <2>3, RowsAre DEF Row
    <3>3. RowsOf(mem') = [RowsOf(mem) EXCEPT ![<<p, i>>] = None]
      BY <3>1, <3>2, RowsAre
    <3>4. Store!Delete(<<p, i>>)
      BY <2>1, <3>1, <3>2, <3>3 DEF Store!Delete
    <3> QED BY <2>1, <3>4 DEF Store!Next
  <2> QED BY <2>2, <2>3
<1>5. ASSUME NEW p \in PageNo, WriteBack(p) PROVE Store!Next
  <2>1. /\ disk'[p] = mem[p] /\ \A q \in PageNo : q # p => disk'[q] = disk[q]
        /\ UNCHANGED <<mem, answer>>
    BY <1>5 DEF WriteBack, Sound, TypeOK
  <2>2. ASSUME NEW rid \in PageNo \X SlotNo
        PROVE  Row(disk'[rid[1]], rid[2])
                 = IF rid[1] = p THEN RowsOf(mem)[rid] ELSE RowsOf(disk)[rid]
    <3>1. rid[1] \in PageNo
      OBVIOUS
    <3> QED BY <2>1, <3>1, RowsAre
  <2>3. RowsOf(disk') = [rid \in PageNo \X SlotNo |->
                           IF rid[1] = p THEN RowsOf(mem)[rid] ELSE RowsOf(disk)[rid]]
    BY <2>2, RowsAre
  <2>4. Store!SavePage(p)
    BY <2>1, <2>3 DEF Store!SavePage, Store!RowId
  <2> QED BY <2>4 DEF Store!Next
<1>6. CASE Reopen
  <2>1. Store!Kill
    BY <1>6 DEF Reopen, Store!Kill
  <2> QED BY <2>1 DEF Store!Next
<1>7. CASE UNCHANGED vars
  BY <1>7 DEF vars
<1> QED BY <1>2, <1>3, <1>4, <1>5, <1>6, <1>7 DEF Next

(* A row reads back as it was inserted, at the RowId its insert returned,  *)
(* until it is deleted, whatever else is inserted, deleted, written back   *)
(* or lost in a kill (heap_file.py, insert, get and delete).               *)
THEOREM HeapKeepsRows == Spec => KeepsRows
BY StoreInit, StoreNext, SoundInit, SoundNext, PTL DEF Spec, KeepsRows, Store!Spec
=============================================================================
