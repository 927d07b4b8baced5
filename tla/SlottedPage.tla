---------------------------- MODULE SlottedPage ----------------------------
(***************************************************************************)
(* The slotted page of queryx/storage/page.py: a header, a slot directory  *)
(* that grows upwards behind it, and records that grow downwards from the  *)
(* end of the page.                                                        *)
(*                                                                         *)
(* A page is a record of its header fields, its slot directory and its     *)
(* bytes.  The directory lives in the bytes too: writing a slot entry      *)
(* leaves Mark in the bytes it takes, so that a record and the directory   *)
(* that ran into each other would show.                                    *)
(***************************************************************************)
EXTENDS Integers, Sequences

CONSTANTS
  PageSize,   (* PAGE_SIZE, scaled down                                    *)
  Byte,       (* what records are made of                                  *)
  Mark,       (* a byte of the slot directory                              *)
  Blank       (* a byte nobody has written                                 *)

HeaderSize == 4
SlotSize == 4

ASSUME PageAssumption ==
  /\ PageSize \in Nat /\ PageSize > HeaderSize + SlotSize
  /\ Mark \notin Byte /\ Blank \notin Byte /\ Mark # Blank

Offset == HeaderSize .. PageSize - 1
Record == Seq(Byte)

(* A slot entry, and the entry of a deleted record.                        *)
Entry == [off : 0 .. PageSize, len : 0 .. PageSize]
Dead == [off |-> 0, len |-> 0]

EmptyPage ==
  [slots |-> << >>, free_end |-> PageSize, data |-> [o \in Offset |-> Blank]]

(* Slots are numbered from 0, as in the code.                              *)
SlotsOf(page) == 0 .. Len(page.slots) - 1
Slot(page, i) == page.slots[i + 1]
Live(page, i) == Slot(page, i) # Dead

FreeSpace(page) ==
  page.free_end - (HeaderSize + Len(page.slots) * SlotSize)

(* _find_dead_slot: the first one.                                         *)
DeadSlots(page) == {i \in SlotsOf(page) : ~Live(page, i)}
FirstDead(page) ==
  CHOOSE i \in DeadSlots(page) : \A j \in DeadSlots(page) : i <= j

Reuses(page) == DeadSlots(page) # {}
TargetSlot(page) == IF Reuses(page) THEN FirstDead(page) ELSE Len(page.slots)

(* Mutant: a new slot entry is taken to cost nothing.                      *)
FitsForgetsSlot(page, record) == FreeSpace(page) >= Len(record)

(* insert_record raises PageFullError unless the record fits.              *)
Fits(page, record) ==
  FreeSpace(page) >= Len(record) + (IF Reuses(page) THEN 0 ELSE SlotSize)

(* Writing a slot entry and writing a record, in the page's bytes.         *)
MarkSlot(data, i) ==
  [o \in Offset |-> IF o >= HeaderSize + i * SlotSize
                       /\ o < HeaderSize + (i + 1) * SlotSize
                    THEN Mark ELSE data[o]]
PutRecord(data, off, record) ==
  [o \in Offset |-> IF o >= off /\ o < off + Len(record)
                    THEN record[o - off + 1] ELSE data[o]]

(* Mutant: the boundary of the free space stays where it was.              *)
InsertRecordKeepsBoundary(page, record) ==
  LET off == page.free_end - Len(record)
      new == [off |-> off, len |-> Len(record)]
  IN  [slots    |-> IF Reuses(page)
                      THEN [page.slots EXCEPT ![FirstDead(page) + 1] = new]
                      ELSE Append(page.slots, new),
       free_end |-> page.free_end,
       data     |-> MarkSlot(PutRecord(page.data, off, record), TargetSlot(page))]

InsertRecord(page, record) ==
  LET off == page.free_end - Len(record)
      new == [off |-> off, len |-> Len(record)]
  IN  [slots    |-> IF Reuses(page)
                      THEN [page.slots EXCEPT ![FirstDead(page) + 1] = new]
                      ELSE Append(page.slots, new),
       free_end |-> off,
       data     |-> MarkSlot(PutRecord(page.data, off, record), TargetSlot(page))]

DeleteRecord(page, i) ==
  [page EXCEPT !.slots = [page.slots EXCEPT ![i + 1] = Dead],
               !.data = MarkSlot(page.data, i)]

(* The bytes get_record and records return for a live slot.                *)
GetRecord(page, i) ==
  [n \in 1 .. Slot(page, i).len |-> page.data[Slot(page, i).off + n - 1]]

-----------------------------------------------------------------------------
(* A page's layout: the directory ends before the records begin, the live  *)
(* records lie in the record region and share no byte, and the directory's *)
(* bytes are the directory's.                                              *)

DirectoryFits(page) ==
  /\ HeaderSize + Len(page.slots) * SlotSize <= page.free_end
  /\ page.free_end <= PageSize

RecordsInside(page) ==
  \A i \in SlotsOf(page) : Live(page, i) =>
    /\ Slot(page, i).len > 0
    /\ page.free_end <= Slot(page, i).off
    /\ Slot(page, i).off + Slot(page, i).len <= PageSize

RecordsApart(page) ==
  \A i, j \in SlotsOf(page) : Live(page, i) /\ Live(page, j) /\ i # j =>
    \/ Slot(page, i).off + Slot(page, i).len <= Slot(page, j).off
    \/ Slot(page, j).off + Slot(page, j).len <= Slot(page, i).off

DirectoryKept(page) ==
  \A o \in Offset :
    o < HeaderSize + Len(page.slots) * SlotSize => page.data[o] = Mark

RecordsKept(page) ==
  \A i \in SlotsOf(page) : Live(page, i) =>
    \A o \in Slot(page, i).off .. Slot(page, i).off + Slot(page, i).len - 1 :
      page.data[o] \in Byte

PageType(page) ==
  page \in [slots : Seq(Entry), free_end : 0 .. PageSize,
            data : [Offset -> Byte \cup {Mark, Blank}]]

Layout(page) ==
  /\ PageType(page)
  /\ DirectoryFits(page) /\ RecordsInside(page) /\ RecordsApart(page)
  /\ DirectoryKept(page) /\ RecordsKept(page)
=============================================================================
