------------------------------- MODULE Pager -------------------------------
(***************************************************************************)
(* One pager file and its write-ahead log: queryx/storage/pager.py,        *)
(* queryx/wal/log.py and queryx/wal/recovery.py.                           *)
(*                                                                         *)
(* A call of the pager is a sequence of page writes.  Each of them appends *)
(* the image to the log, then writes the data page, then truncates the log *)
(* when it has grown past the limit.  The process may be killed between    *)
(* any two of these steps, and in the middle of either write; the next     *)
(* open replays the log.                                                   *)
(***************************************************************************)
EXTENDS Integers, Sequences, FiniteSets

CONSTANTS
  MaxPage,       (* highest page number of the instance (a bound)          *)
  Images,        (* contents a caller stores in a data page                *)
  Empty,         (* the image of Page.empty()                              *)
  Torn,          (* a page of which only a part reached the file, and      *)
                 (* which cannot be read                                   *)
  Short,         (* page 0 of a file shorter than a page whose first bytes *)
                 (* are a header with an empty free list                   *)
  Absent,        (* the page lies past the end of the file                 *)
  LogLimit,      (* records at which the log is checkpointed: the code's   *)
                 (* _CHECKPOINT_BYTES, counted in records                  *)
  MaxFree,       (* entries the free list of page 0 can hold               *)
  Environments   (* what the file may be exposed to: see Environment       *)

(* Page 0 holds the list of the free pages, the others what callers store. *)
PageNo == 0 .. MaxPage
DataPage == PageNo \ {0}
ShortLists(pages) == UNION {[1 .. n -> pages] : n \in 0 .. MaxFree}
Header == ShortLists(DataPage)

(* A header of which only a part was written may name page 0 as well.      *)
AnyList == ShortLists(PageNo)
Stored == Images \cup {Empty} \cup AnyList

(* Chosen once for a file.                                                 *)
Environment ==
  [modes : SUBSET BOOLEAN \ {{}},  (* the values of use_wal it is opened   *)
                                   (* with                                 *)
   tornBehindTorn : BOOLEAN,       (* a kill may leave half a page while   *)
                                   (* the log has a torn record            *)
   maxLog : Nat]                   (* the process is killed only while the *)
                                   (* log is shorter (a bound: kills       *)
                                   (* before a checkpoint let it grow)     *)

ASSUME PagerAssumption ==
  /\ MaxPage \in Nat \ {0}
  /\ LogLimit \in Nat \ {0}
  /\ MaxFree \in Nat
  /\ Environments \subseteq Environment
  /\ Empty \notin Images \cup AnyList
  /\ Torn # Absent /\ Short \notin {Torn, Absent}
  /\ {Torn, Short, Absent} \cap Stored = {}

VARIABLES
  file,      (* page number -> what the data file holds                    *)
  log,       (* the records of the .wal file, oldest first                 *)
  pc,        (* where the process is (see States)                          *)
  wal,       (* use_wal of the open pager                                  *)
  freeList,  (* Pager._free_list, a stack                                  *)
  todo,      (* page writes the current call has still to make             *)
  op,        (* the current call: its name and the page it is about        *)
  rpos,      (* next log record to replay                                  *)
  acked,     (* ghost: image of the last write of each page that completed *)
  limbo,     (* ghost: the write a kill interrupted                        *)
  owned,     (* ghost: pages handed out and not given back                 *)
  misread,   (* ghost: an open has loaded a page 0 that is no header: one  *)
             (* of which only a part was written                           *)
  env        (* the file's environment                                     *)

vars == <<file, log, pc, wal, freeList, todo, op, rpos, acked, limbo, owned,
          misread, env>>
ghosts == <<acked, limbo, owned, misread>>

Content(p) == {Empty} \cup IF p = 0 THEN AnyList ELSE Images
Write == {w \in [page : PageNo, img : Stored] : w.img \in Content(w.page)}
Record == {r \in [page : PageNo, img : Stored, intact : BOOLEAN] :
             r.img \in Content(r.page)}
OnFile(p) == Content(p) \cup {Torn, Absent} \cup IF p = 0 THEN {Short} ELSE {}
Calls == {"open", "allocate", "free", "write", "close"}
NoOp == [name |-> "none", page |-> 0]
Persist == {"append", "write", "checkpoint"}
States == {"down", "failed", "replay", "header", "idle"} \cup Persist

(* num_pages: the whole pages of the file, the header included.  A file is *)
(* only ever extended by the page that follows its last one.               *)
NumPages == Cardinality({p \in PageNo : file[p] \notin {Short, Absent}})

(* WriteAheadLog.records stops at the first record that is not intact.     *)
Readable(i) == i \in 1 .. Len(log) /\ \A j \in 1 .. i : log[j].intact

Init ==
  /\ file = [p \in PageNo |-> Absent]
  /\ log = << >>
  /\ pc = "down"
  /\ wal = FALSE
  /\ freeList = << >>
  /\ todo = << >>
  /\ op = NoOp
  /\ rpos = 1
  /\ acked = [p \in PageNo |-> Absent]
  /\ limbo = {}
  /\ owned = {}
  /\ misread = FALSE
  /\ env \in Environments

-----------------------------------------------------------------------------
(* Opening: replay the log, then read page 0, or create it.                *)

(* Mutant: the file is opened without replaying its log.                   *)
OpenWithoutReplay(w) ==
  /\ pc \in {"down", "failed"}
  /\ wal' = w /\ pc' = "header" /\ rpos' = 1
  /\ UNCHANGED <<file, log, freeList, todo, op, ghosts>>

Open(w) ==
  /\ pc \in {"down", "failed"}
  /\ wal' = w
  /\ pc' = IF w THEN "replay" ELSE "header"
  /\ rpos' = 1
  /\ UNCHANGED <<file, log, freeList, todo, op, ghosts>>

(* Mutant: replay does not move on to the next record.                     *)
ReplayStepAgain ==
  /\ pc = "replay" /\ Readable(rpos)
  /\ file' = [file EXCEPT ![log[rpos].page] = log[rpos].img]
  /\ UNCHANGED <<log, pc, wal, freeList, todo, op, rpos, ghosts>>

ReplayStep ==
  /\ pc = "replay"
  /\ Readable(rpos)
  /\ file' = [file EXCEPT ![log[rpos].page] = log[rpos].img]
  /\ rpos' = rpos + 1
  /\ UNCHANGED <<log, pc, wal, freeList, todo, op, ghosts>>

(* Mutants: replay leaves out the last record; or leaves the log as it is. *)
ReplayDoneEarly ==
  /\ pc = "replay" /\ ~Readable(rpos + 1)
  /\ log' = << >> /\ pc' = "header"
  /\ UNCHANGED <<file, wal, freeList, todo, op, rpos, ghosts>>

ReplayDoneKeepsLog ==
  /\ pc = "replay" /\ ~Readable(rpos)
  /\ pc' = "header"
  /\ UNCHANGED <<file, log, wal, freeList, todo, op, rpos, ghosts>>

(* The log is truncated only if some record was replayed.                  *)
ReplayDone ==
  /\ pc = "replay"
  /\ ~Readable(rpos)
  /\ log' = IF rpos > 1 THEN << >> ELSE log
  /\ pc' = "header"
  /\ UNCHANGED <<file, wal, freeList, todo, op, rpos, ghosts>>

(* Mutant: a page is written without its log record.                       *)
PersistingUnlogged == "write"

Persisting == IF wal THEN "append" ELSE "write"

Begin(name, page, writes) ==
  /\ op' = [name |-> name, page |-> page]
  /\ todo' = writes
  /\ pc' = Persisting

HeaderWrite(list) == [page |-> 0, img |-> list]

(* A page 0 that begins with the magic, the version and a count is loaded, *)
(* whatever follows, and whether it is a whole page or not.                *)
LoadHeader ==
  /\ pc = "header"
  /\ file[0] \in AnyList \cup {Short}
  /\ freeList' = IF file[0] = Short THEN << >> ELSE file[0]
  /\ pc' = "idle"
  /\ acked' = file
  /\ limbo' = {}
  /\ misread' = (misread \/ file[0] \notin Header)
  /\ UNCHANGED <<file, log, wal, todo, op, rpos, owned>>

(* A header that is too short or has a bad magic: the constructor raises.  *)
LoadFails ==
  /\ pc = "header"
  /\ file[0] \in {Torn, Empty}
  /\ pc' = "failed"
  /\ UNCHANGED <<file, log, wal, freeList, todo, op, rpos, ghosts>>

CreateHeader ==
  /\ pc = "header"
  /\ file[0] = Absent
  /\ freeList' = << >>
  /\ Begin("open", 0, <<HeaderWrite(<< >>)>>)
  /\ acked' = file
  /\ limbo' = {}
  /\ UNCHANGED <<file, log, wal, rpos, owned, misread>>

-----------------------------------------------------------------------------
(* _persist_page, in the steps a kill can separate.                        *)

(* Mutant: the log is truncated before the page is written.                *)
LogAppendTruncates ==
  /\ pc = "append" /\ pc' = "write"
  /\ log' = IF Len(log) + 1 >= LogLimit THEN << >>
             ELSE Append(log, [page |-> todo[1].page, img |-> todo[1].img,
                               intact |-> TRUE])
  /\ UNCHANGED <<file, wal, freeList, todo, op, rpos, ghosts>>

LogAppend ==
  /\ pc = "append"
  /\ log' = Append(log, [page |-> todo[1].page, img |-> todo[1].img,
                         intact |-> TRUE])
  /\ pc' = "write"
  /\ UNCHANGED <<file, wal, freeList, todo, op, rpos, ghosts>>

(* What follows a page write that is complete: the next write of the call, *)
(* or its return.                                                          *)
Continue ==
  /\ todo' = Tail(todo)
  /\ IF Len(todo) > 1
       THEN pc' = Persisting /\ UNCHANGED <<op, owned>>
       ELSE /\ pc' = IF op.name = "close" THEN "down" ELSE "idle"
            /\ op' = NoOp
            /\ owned' = IF op.name = "allocate" THEN owned \cup {op.page}
                                                ELSE owned

(* close() ends with a sync, which checkpoints whatever the log's size.    *)
MustCheckpoint ==
  wal /\ (Len(log) >= LogLimit \/ (op.name = "close" /\ Len(todo) = 1))

DataWrite ==
  /\ pc = "write"
  /\ file' = [file EXCEPT ![todo[1].page] = todo[1].img]
  /\ acked' = [acked EXCEPT ![todo[1].page] = todo[1].img]
  /\ IF MustCheckpoint
       THEN pc' = "checkpoint" /\ UNCHANGED <<todo, op, owned>>
       ELSE Continue
  /\ UNCHANGED <<log, wal, freeList, rpos, limbo, misread>>

(* The data file is synced, then the log truncated.                        *)
Checkpoint ==
  /\ pc = "checkpoint"
  /\ log' = << >>
  /\ Continue
  /\ UNCHANGED <<file, wal, freeList, rpos, acked, limbo, misread>>

-----------------------------------------------------------------------------
(* The calls.                                                              *)

(* Mutants: the shrunken free list is not written; or the page is not      *)
(* cleared.                                                                *)
AllocateReuseNoHeader ==
  /\ pc = "idle" /\ freeList # << >>
  /\ LET page == freeList[Len(freeList)]
     IN  /\ freeList' = SubSeq(freeList, 1, Len(freeList) - 1)
         /\ Begin("allocate", page, <<[page |-> page, img |-> Empty]>>)
  /\ UNCHANGED <<file, log, wal, rpos, ghosts>>

AllocateReuseUncleared ==
  /\ pc = "idle" /\ freeList # << >>
  /\ LET rest == SubSeq(freeList, 1, Len(freeList) - 1)
     IN  /\ freeList' = rest
         /\ Begin("allocate", freeList[Len(freeList)], <<HeaderWrite(rest)>>)
  /\ UNCHANGED <<file, log, wal, rpos, ghosts>>

AllocateReuse ==
  /\ pc = "idle"
  /\ freeList # << >>
  /\ LET page == freeList[Len(freeList)]
         rest == SubSeq(freeList, 1, Len(freeList) - 1)
     IN  /\ freeList' = rest
         /\ Begin("allocate", page,
                  <<[page |-> page, img |-> Empty], HeaderWrite(rest)>>)
  /\ UNCHANGED <<file, log, wal, rpos, ghosts>>

AllocateExtend ==
  /\ pc = "idle"
  /\ freeList = << >>
  /\ NumPages \in PageNo
  /\ Begin("allocate", NumPages, <<[page |-> NumPages, img |-> Empty]>>)
  /\ UNCHANGED <<file, log, wal, freeList, rpos, ghosts>>

InFreeList(p) == \E i \in 1 .. Len(freeList) : freeList[i] = p

(* Mutant: the free list is allowed one entry more than fits page 0.       *)
FreePageOverfull(p) ==
  /\ pc = "idle" /\ p \in owned /\ ~InFreeList(p)
  /\ Len(freeList) <= MaxFree
  /\ freeList' = Append(freeList, p)
  /\ Begin("free", p, <<HeaderWrite(Append(freeList, p))>>)
  /\ owned' = owned \ {p}
  /\ UNCHANGED <<file, log, wal, rpos, acked, limbo, misread>>

(* The caller gives the page up when it makes the call.  A page that is    *)
(* free already, or a full free list, leave the pager as it was.           *)
FreePage(p) ==
  /\ pc = "idle"
  /\ p \in owned
  /\ ~InFreeList(p)
  /\ Len(freeList) < MaxFree
  /\ freeList' = Append(freeList, p)
  /\ Begin("free", p, <<HeaderWrite(Append(freeList, p))>>)
  /\ owned' = owned \ {p}
  /\ UNCHANGED <<file, log, wal, rpos, acked, limbo, misread>>

(* Page 0 is refused by this call and by free_page, were it handed out.    *)
WritePage(p, img) ==
  /\ pc = "idle"
  /\ p \in owned
  /\ file[p] # Absent
  /\ Begin("write", p, <<[page |-> p, img |-> img]>>)
  /\ UNCHANGED <<file, log, wal, freeList, rpos, ghosts>>

Sync ==
  /\ pc = "idle"
  /\ log' = IF wal THEN << >> ELSE log
  /\ UNCHANGED <<file, pc, wal, freeList, todo, op, rpos, ghosts>>

Close ==
  /\ pc = "idle"
  /\ Begin("close", 0, <<HeaderWrite(freeList)>>)
  /\ UNCHANGED <<file, log, wal, freeList, rpos, ghosts>>

-----------------------------------------------------------------------------
(* The process is killed.  What it had handed to the operating system      *)
(* survives; the write in progress may be cut short.                       *)

TornAppend ==
  /\ pc = "append"
  /\ log' = Append(log, [page |-> todo[1].page, img |-> todo[1].img,
                         intact |-> FALSE])
  /\ UNCHANGED file

AllIntact == \A i \in 1 .. Len(log) : log[i].intact

Target == IF pc = "write" THEN todo[1].page ELSE log[rpos].page

TargetImage == IF pc = "write" THEN todo[1].img ELSE log[rpos].img

WholeHeader ==
  file[0] \in AnyList \cup {Empty} \/ \E p \in DataPage : file[p] # Absent

(* Page 0 after a part of the image was written over it: no header, if the *)
(* part is too short or the image is none; the header of a file that is    *)
(* shorter than a page; or the image's count and its first entries, then   *)
(* what page 0 held there: the old list and, behind it, zeros or what an   *)
(* older list left when its successor was cut.  A number is written        *)
(* entirely or not at all.                                                 *)
CutHeader(image, page0) ==
  \/ page0 = Torn /\ (image = Empty \/ file[0] \in {Absent, Torn, Empty})
  \/ page0 = Short /\ image = << >> /\ ~WholeHeader
  \/ /\ WholeHeader /\ image \in AnyList
     /\ page0 \in [1 .. Len(image) -> {p \in PageNo : file[p] # Absent}]
     /\ \E cut \in 0 .. Len(image) : \A i \in 1 .. Len(image) :
          /\ i <= cut => page0[i] = image[i]
          /\ i > cut /\ file[0] \in AnyList =>
               (i <= Len(file[0]) => page0[i] = file[0][i])

(* Part of a data page past the end of the file is no page (num_pages      *)
(* divides the size by PAGE_SIZE).                                         *)
TornWrite ==
  /\ \/ pc = "write" /\ (env.tornBehindTorn \/ AllIntact)
     \/ pc = "replay" /\ Readable(rpos)
  /\ \/ /\ Target \in DataPage /\ file[Target] # Absent
        /\ file' = [file EXCEPT ![Target] = Torn]
     \/ /\ Target = 0
        /\ \E page0 \in AnyList \cup {Torn, Short} :
             CutHeader(TargetImage, page0) /\ file' = [file EXCEPT ![0] = page0]
  /\ UNCHANGED log

Kill ==
  /\ pc \notin {"down", "failed"}
  /\ Len(log) < env.maxLog
  /\ TornAppend \/ TornWrite \/ UNCHANGED <<file, log>>
  /\ pc' = "down"
  /\ freeList' = << >>
  /\ todo' = << >>
  /\ op' = NoOp
  /\ rpos' = 1
  /\ limbo' = IF pc \in {"append", "write"} THEN {todo[1]} ELSE limbo
  /\ UNCHANGED <<wal, acked, owned, misread>>

Call ==
  \/ AllocateReuse \/ AllocateExtend \/ Sync \/ Close
  \/ \E p \in DataPage : FreePage(p) \/ \E img \in Images : WritePage(p, img)

Step ==
  /\ UNCHANGED env
  /\ \/ ReplayStep \/ ReplayDone \/ LoadHeader \/ LoadFails \/ CreateHeader
     \/ LogAppend \/ DataWrite \/ Checkpoint

Next ==
  /\ UNCHANGED env
  /\ (\E w \in env.modes : Open(w)) \/ Step \/ Call \/ Kill

Spec == Init /\ [][Next]_vars

(* A call, once made, runs to its end unless the process is killed: the    *)
(* pager is single-threaded and waits for nobody.                          *)
FairSpec == Spec /\ WF_vars(Step)

-----------------------------------------------------------------------------
(* What a client of the file may rely on, kills included: see AtomicPages. *)
(* It may when the file is always opened with its log and no page is torn  *)
(* behind a torn record; in another environment the mapping says nothing.  *)
OneTear == env.modes = {TRUE} /\ ~env.tornBehindTorn

LastRecord(p) == {i \in 1 .. Len(log) :
                    /\ Readable(i) /\ log[i].page = p
                    /\ \A j \in i + 1 .. Len(log) :
                         Readable(j) => log[j].page # p}

(* What page p holds after a recovery that started now.                    *)
View == [p \in PageNo |->
           IF LastRecord(p) = {} THEN file[p]
                                 ELSE log[CHOOSE i \in LastRecord(p) : TRUE].img]

Pages == INSTANCE AtomicPages
           WITH Page <- PageNo, Value <- Stored,
                store <- IF OneTear THEN View ELSE [p \in PageNo |-> Absent],
                pending <- IF OneTear /\ todo # << >> THEN {todo[1]} ELSE {}

(* Every page write is atomic and durable from the moment its log record   *)
(* is complete: kills, torn writes, recovery and checkpoints change no     *)
(* page, and no write returns before it is in effect.                      *)
PagesAtomic == Pages!Spec

-----------------------------------------------------------------------------
HeaderIfPage0(w) == w.page = 0 => w.img \in Header

(* As long as no open has loaded half a header: the free list, in memory,  *)
(* in the log and in flight, fits page 0 and names data pages only, and    *)
(* page 0 is handed out to nobody.                                         *)
HeadersTyped ==
  /\ freeList \in Header
  /\ \A i \in 1 .. Len(log) : HeaderIfPage0(log[i])
  /\ \A i \in 1 .. Len(todo) : HeaderIfPage0(todo[i])
  /\ \A w \in limbo : HeaderIfPage0(w)
  /\ acked[0] \in Header \cup {Absent}
  /\ owned \subseteq DataPage
  /\ op.name = "allocate" => op.page # 0

VarsTyped ==
  /\ file \in [PageNo -> Stored \cup {Torn, Short, Absent}]
  /\ \A p \in PageNo : file[p] \in OnFile(p)
  /\ log \in Seq(Record)
  /\ pc \in States
  /\ wal \in BOOLEAN
  /\ freeList \in AnyList
  /\ todo \in Seq(Write)
  /\ op \in [name : Calls \cup {"none"}, page : PageNo]
  /\ rpos \in Nat \ {0}
  /\ pc \in Persist => todo # << >>
  /\ acked \in [PageNo -> Stored \cup {Torn, Short, Absent}]
  /\ limbo \in SUBSET Write
  /\ owned \in SUBSET PageNo
  /\ misread \in BOOLEAN
  /\ env \in Environments

(* The pager's variables stay in their types: in particular no page but    *)
(* page 0 ever holds a free list, and page 0 is only ever given one that   *)
(* fits it and names data pages, until an open loads a page 0 of which     *)
(* only a part was written (_load_header).                                 *)
TypeOK == VarsTyped /\ (~misread => HeadersTyped)

Good(p, v) == v = acked[p] \/ [page |-> p, img |-> v] \in limbo
Recovered(p) == Good(p, file[p])
AllRecovered == pc = "header" => \A p \in PageNo : Recovered(p)

(* Once replay is over, every page holds the image of its last completed   *)
(* write or, for the one write a kill interrupted, that write's image: no  *)
(* page is torn, stale or lost (replay, _persist_page).                    *)
AllOrNothing == OneTear => AllRecovered

(* Replay repairs a torn data page (recovery.py, lines 7 to 9).            *)
TornPagesRepaired == pc = "header" => \A p \in DataPage : file[p] # Torn

(* An open never fails: a kill at any point leaves a file whose header can *)
(* be read after replay (_load_header raises nothing).                     *)
AlwaysOpens == OneTear => pc # "failed"

Lists(v, p) == v \in AnyList /\ \E i \in 1 .. Len(v) : v[i] = p

(* A page that a caller holds is never on a free list that a later open or *)
(* allocation could read, so no page is handed out twice, whatever the     *)
(* point of a kill (allocate_page, free_page).                             *)
NoDoubleHandout ==
  OneTear =>
    \A p \in owned : ~InFreeList(p) /\ (pc = "header" => ~Lists(file[0], p))

-----------------------------------------------------------------------------
(* Why AllOrNothing holds when the log is in use and only one kind of      *)
(* write can be torn: the invariant of the proof.                          *)

IsLast(i, p) ==
  /\ Readable(i) /\ log[i].page = p
  /\ \A j \in i + 1 .. Len(log) : Readable(j) => log[j].page # p

(* Page p takes no image from the readable records from n on.              *)
NoneFrom(n, p) == \A i \in n .. Len(log) : Readable(i) => log[i].page # p

Poisoned == log # << >> /\ ~log[1].intact
Running == {"idle"} \cup Persist

(* Only a log of which nothing can be read is appended to after a torn     *)
(* record: in any other, the torn record is the last.                      *)
LogShape ==
  /\ Poisoned \/ \A i \in 1 .. Len(log) - 1 : log[i].intact
  /\ pc \in Running => Poisoned \/ AllIntact

(* While the pager is open, the log agrees with the file on every page it  *)
(* can repair, the page being written excepted: there it is ahead.         *)
Logged(p) == IF pc = "write" /\ p = todo[1].page THEN todo[1].img ELSE acked[p]
LogAgrees ==
  pc \in Running =>
    /\ file = acked
    /\ \A p \in PageNo, i \in 1 .. Len(log) : IsLast(i, p) => log[i].img = Logged(p)
    /\ pc = "write" /\ AllIntact =>
         log # << >> /\ log[Len(log)].page = todo[1].page

(* After a kill, a page that replay will not write any more is good        *)
(* already, and what replay will write to the others is good.              *)
Replays ==
  pc \in {"down", "failed", "replay"} =>
    /\ \A p \in PageNo, i \in 1 .. Len(log) : IsLast(i, p) => Good(p, log[i].img)
    /\ \A p \in PageNo :
         NoneFrom(IF pc = "replay" THEN rpos ELSE 1, p) => Good(p, file[p])

Repairable ==
  /\ pc \notin {"down", "failed"} => wal
  /\ LogShape
  /\ LogAgrees
  /\ Replays
  /\ pc = "header" => \A i \in 1 .. Len(log) : ~Readable(i)
  /\ AllRecovered
  /\ pc # "failed" /\ \A p \in PageNo : acked[p] # Torn
  /\ ~misread

(* At every moment, a kill included, log and file together hold what was   *)
(* written (_persist_page, replay).                                        *)
Recoverable == OneTear => Repairable

-----------------------------------------------------------------------------
(* A page is handed out only as an empty data page: reuse clears what the  *)
(* page held before (allocate_page).  It is so in both modes and whatever  *)
(* a kill tears, until an open loads half a header: then page 0 may be     *)
(* handed out, and a list written over it.                                 *)
HandedOutEmpty ==
  [][~misread => \A p \in owned' \ owned : p # 0 /\ file'[p] = Empty]_vars

(* The log is truncated only when the data file holds every image the log  *)
(* could still be needed for (_checkpoint, and the end of recovery).       *)
TruncatesNothingNeeded ==
  [][OneTear /\ log # << >> /\ log' = << >> =>
       \A i \in 1 .. Len(log) :
         Readable(i) /\ (\A j \in i + 1 .. Len(log) : log[j].page # log[i].page)
           => file'[log[i].page] = log[i].img]_vars

(* The free list in memory is the one page 0 would give back.              *)
FreeListOnPage0 == pc = "idle" => file[0] = freeList

(* What makes it so: a call either leaves the free list alone or has the   *)
(* write of the changed one still to make, as its last write.              *)
(* It is so in both modes and whatever a kill tears, until an open loads a *)
(* page 0 of which only a part was written.                                *)
ListKept ==
  /\ FreeListOnPage0
  /\ pc \in Persist =>
       \/ file[0] = freeList /\ \A i \in 1 .. Len(todo) : todo[i].page # 0
       \/ todo[Len(todo)] = HeaderWrite(freeList)
HeaderKept == ~misread => ListKept

(* Between calls nothing is left to write; a checkpoint follows the write  *)
(* of its page; an allocation of a data page empties it before it ends;    *)
(* replay has put on file what it has read.                                *)
CallsTidy ==
  /\ pc \notin Persist => todo = << >> /\ op = NoOp
  /\ pc = "checkpoint" => file[todo[1].page] = todo[1].img
  /\ op.name = "allocate" /\ op.page # 0 =>
       /\ file[op.page] = Empty \/ \E i \in 1 .. Len(todo) : todo[i].page = op.page
       /\ \A i \in 1 .. Len(todo) : todo[i].page = op.page => todo[i].img = Empty
  /\ pc = "replay" =>
       \A i \in 1 .. Len(log) :
         /\ i < rpos /\ Readable(i)
         /\ \A j \in i + 1 .. Len(log) :
              j < rpos /\ Readable(j) => log[j].page # log[i].page
         => file[log[i].page] = log[i].img

(* Why NoDoubleHandout holds: every free list that is in memory, on file,  *)
(* about to be written or perhaps written before a kill names each page at *)
(* most once, and none that a caller holds.  The page being allocated is   *)
(* off the list already.                                                   *)
Sound(v) ==
  /\ \A p \in owned : ~Lists(v, p)
  /\ v \in AnyList => \A i, j \in 1 .. Len(v) : v[i] = v[j] => i = j
ListsSound ==
  /\ Sound(freeList) /\ Sound(acked[0])
  /\ \A w \in limbo : w.page = 0 => Sound(w.img)
  /\ \A i \in 1 .. Len(todo) : todo[i].page = 0 => Sound(todo[i].img)
  /\ op.name = "allocate" => ~InFreeList(op.page)
  /\ pc \in Running => limbo = {}
Unshared == OneTear => ListsSound

(* Every open and every call that starts, recovery included, ends, with    *)
(* and without the log: the pager becomes idle again unless it is closed,  *)
(* killed or cannot be opened.                                             *)
CallsEnd ==
  pc \in {"replay", "header"} \cup Persist ~> pc \in {"idle", "down", "failed"}
=============================================================================
