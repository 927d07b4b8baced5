------------------------------ MODULE HeapFile ------------------------------
(***************************************************************************)
(* One table: queryx/storage/heap_file.py, over slotted pages.             *)
(*                                                                         *)
(* The buffer pool below is what BufferedPages says: a page in memory may  *)
(* be written back at any moment (an eviction, or flush_all) and a kill    *)
(* loses what was not.  A new page is in the file, empty, from the moment  *)
(* it is allocated.                                                        *)
(***************************************************************************)
EXTENDS SlottedPage

CONSTANTS
  MaxPage,    (* the last page of the instance (a bound)                   *)
  Records,    (* the records callers insert                                *)
  Absent,     (* the page is past the end of the file                      *)
  None        (* no row                                                    *)

PageNo == 1 .. MaxPage
SlotNo == 0 .. (PageSize - HeaderSize) \div SlotSize

ASSUME HeapAssumption ==
  /\ MaxPage \in Nat
  /\ Records \subseteq Record
  /\ None \notin Record
  /\ Absent \notin [slots : Seq(Entry), free_end : 0 .. PageSize,
                    data : [Offset -> Byte \cup {Mark, Blank}]]

VARIABLES
  mem,         (* the pages callers see through the pool                   *)
  disk,        (* the pages in the file                                    *)
  last_page,   (* HeapFile._last_page, 0 for None                          *)
  answer       (* what the last call returned                              *)

vars == <<mem, disk, last_page, answer>>



(* __init__: the last data page of the file.                               *)
LastPage(file) ==
  IF \A p \in PageNo : file[p] = Absent THEN 0
  ELSE CHOOSE p \in PageNo : file[p] # Absent /\ \A q \in p + 1 .. MaxPage : file[q] = Absent

Init ==
  /\ mem = [p \in PageNo |-> Absent]
  /\ disk = [p \in PageNo |-> Absent]
  /\ last_page = 0
  /\ answer = [is |-> "nothing", rid |-> None]

(* Mutant: the slot entry of the page's only record is forgotten.          *)
MaxRecordSizeForgetsSlot == PageSize - HeaderSize

MaxRecordSize == PageSize - HeaderSize - SlotSize

(* insert refuses an empty record and one too large for a page.            *)
Accepted(record) == Len(record) > 0 /\ Len(record) <= MaxRecordSize

Inserted(p, page) == [is |-> "inserted", rid |-> <<p, TargetSlot(page)>>]

InsertInLast(record) ==
  /\ Accepted(record)
  /\ last_page # 0 /\ Fits(mem[last_page], record)
  /\ mem' = [mem EXCEPT ![last_page] = InsertRecord(@, record)]
  /\ answer' = Inserted(last_page, mem[last_page])
  /\ UNCHANGED <<disk, last_page>>

(* A page is allocated after the last one of the file.  The record fits an *)
(* empty page, or insert_record raises and leaves the page empty.          *)
InsertInNew(record) ==
  /\ Accepted(record)
  /\ last_page # 0 => ~Fits(mem[last_page], record)
  /\ LastPage(disk) < MaxPage
  /\ LET p == LastPage(disk) + 1
     IN  /\ disk' = [disk EXCEPT ![p] = EmptyPage]
         /\ IF Fits(EmptyPage, record)
              THEN /\ mem' = [mem EXCEPT ![p] = InsertRecord(EmptyPage, record)]
                   /\ last_page' = p
                   /\ answer' = Inserted(p, EmptyPage)
              ELSE /\ mem' = [mem EXCEPT ![p] = EmptyPage]
                   /\ answer' = [is |-> "raised", rid |-> None]
                   /\ UNCHANGED last_page

(* delete of a slot the page has; the second delete of a row is refused.   *)
Delete(p, i) ==
  /\ mem[p] # Absent /\ i \in SlotsOf(mem[p])
  /\ IF Live(mem[p], i)
       THEN /\ mem' = [mem EXCEPT ![p] = DeleteRecord(@, i)]
            /\ answer' = [is |-> "deleted", rid |-> <<p, i>>]
       ELSE /\ answer' = [is |-> "absent", rid |-> <<p, i>>]
            /\ UNCHANGED mem
  /\ UNCHANGED <<disk, last_page>>

WriteBack(p) ==
  /\ mem[p] # disk[p]
  /\ disk' = [disk EXCEPT ![p] = mem[p]]
  /\ UNCHANGED <<mem, last_page, answer>>

(* Mutant: the heap goes on at the first page.                             *)
ReopenAtFirst ==
  /\ mem' = disk
  /\ last_page' = IF LastPage(disk) = 0 THEN 0 ELSE 1
  /\ answer' = [is |-> "nothing", rid |-> None]
  /\ UNCHANGED disk

(* The process stops and the heap is opened again.                         *)
Reopen ==
  /\ mem' = disk
  /\ last_page' = LastPage(disk)
  /\ answer' = [is |-> "nothing", rid |-> None]
  /\ UNCHANGED disk

Next ==
  \/ \E record \in Records : InsertInLast(record) \/ InsertInNew(record)
  \/ \E p \in PageNo, i \in SlotNo : Delete(p, i)
  \/ \E p \in PageNo : WriteBack(p)
  \/ Reopen

Spec == Init /\ [][Next]_vars

-----------------------------------------------------------------------------
PageOrAbsent(page) == page = Absent \/ PageType(page)

(* Types: the pages in memory are those of the file.                       *)
TypeOK ==
  /\ DOMAIN mem = PageNo /\ DOMAIN disk = PageNo
  /\ \A p \in PageNo : PageOrAbsent(mem[p]) /\ PageOrAbsent(disk[p])
  /\ \A p \in PageNo : (mem[p] = Absent) = (disk[p] = Absent)
  /\ \A p, q \in PageNo : q < p /\ disk[p] # Absent => disk[q] # Absent
  /\ last_page = LastPage(disk)

(* Slot directory and records never run into each other, nor two records,  *)
(* in any page, however slots are reused (page.py, lines 166 to 195).      *)
PagesLaidOut ==
  \A p \in PageNo : /\ mem[p] # Absent => Layout(mem[p])
                    /\ disk[p] # Absent => Layout(disk[p])

RowsOf(file) ==
  [rid \in PageNo \X SlotNo |->
     IF /\ file[rid[1]] # Absent
        /\ rid[2] \in SlotsOf(file[rid[1]])
        /\ Live(file[rid[1]], rid[2])
       THEN GetRecord(file[rid[1]], rid[2]) ELSE None]

(* A row reads back as it was inserted, at the RowId its insert returned,  *)
(* until it is deleted; an accepted record is always stored; pages written *)
(* back keep their rows across a kill.                                     *)
Store == INSTANCE RowStore WITH
  rows <- RowsOf(mem), saved <- RowsOf(disk),
  Acceptable <- {record \in Records : Len(record) > 0}
KeepsRows == Store!Spec
=============================================================================
