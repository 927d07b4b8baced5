---------------------------- MODULE PagerProofs ----------------------------
(***************************************************************************)
(* What TLAPS proves of the pager, for every number of pages, every log    *)
(* limit, every set of page images and every kind of torn write: first     *)
(* what holds of one step after another, then that the pager with its log  *)
(* implements AtomicPages, what a truncation of the log may forget and     *)
(* which pages allocate_page hands out.                                    *)
(***************************************************************************)
EXTENDS Pager, SequenceTheorems, FiniteSetTheorems, WellFoundedInduction, TLAPS

(* The lists that fit in page 0 are the short sequences of page numbers.   *)
LEMMA ShortSeqs ==
  ASSUME NEW pages, NEW list
  PROVE  list \in ShortLists(pages) <=> list \in Seq(pages) /\ Len(list) <= MaxFree
<1>1. ASSUME list \in ShortLists(pages)
      PROVE  list \in Seq(pages) /\ Len(list) <= MaxFree
  BY <1>1, PagerAssumption DEF ShortLists
<1>2. ASSUME list \in Seq(pages), Len(list) <= MaxFree
      PROVE  list \in ShortLists(pages)
  <2>1. list \in [1 .. Len(list) -> pages] /\ Len(list) \in 0 .. MaxFree
    BY <1>2, PagerAssumption
  <2> QED BY <2>1 DEF ShortLists
<1> QED BY <1>1, <1>2

LEMMA ListIsShortSeq ==
  ASSUME NEW list
  PROVE  list \in AnyList <=> list \in Seq(PageNo) /\ Len(list) <= MaxFree
BY ShortSeqs DEF AnyList

(* Pushing onto a free list with room, and popping one, gives a free list. *)
LEMMA Pushed ==
  ASSUME NEW pages, NEW list \in ShortLists(pages), NEW p \in pages,
         Len(list) < MaxFree
  PROVE  Append(list, p) \in ShortLists(pages)
<1>1. list \in Seq(pages) /\ Len(list) <= MaxFree
  BY ShortSeqs
<1>2. Append(list, p) \in Seq(pages) /\ Len(Append(list, p)) = Len(list) + 1
  BY <1>1
<1>3. Len(Append(list, p)) <= MaxFree
  BY <1>1, <1>2, PagerAssumption
<1> QED BY <1>2, <1>3, ShortSeqs

LEMMA PushHeader ==
  ASSUME NEW p \in DataPage
  PROVE  /\ \A list \in Header : Len(list) < MaxFree => Append(list, p) \in Header
         /\ \A list \in AnyList : Len(list) < MaxFree => Append(list, p) \in AnyList
<1>1. p \in PageNo
  BY DEF DataPage
<1> QED BY <1>1, Pushed DEF Header, AnyList

LEMMA Popped ==
  ASSUME NEW pages, NEW list \in ShortLists(pages), list # << >>
  PROVE  /\ list[Len(list)] \in pages
         /\ SubSeq(list, 1, Len(list) - 1) \in ShortLists(pages)
<1>1. list \in Seq(pages) /\ Len(list) <= MaxFree
  BY ShortSeqs
<1>2. Len(list) \in Nat \ {0} /\ list[Len(list)] \in pages
  BY <1>1
<1>3. /\ SubSeq(list, 1, Len(list) - 1) \in Seq(pages)
      /\ Len(SubSeq(list, 1, Len(list) - 1)) <= Len(list)
  <2>1. \A i \in 1 .. Len(list) - 1 : list[i] \in pages
    BY <1>1, <1>2
  <2>2. Len(list) - 1 \in Int /\ 1 \in Int
    BY <1>2
  <2> QED BY <1>2, <2>1, <2>2, SubSeqProperties
<1>4. Len(SubSeq(list, 1, Len(list) - 1)) <= MaxFree
  BY <1>1, <1>2, <1>3, PagerAssumption
<1> QED BY <1>2, <1>3, <1>4, ShortSeqs

LEMMA PopHeader ==
  ASSUME NEW list \in Header, list # << >>
  PROVE  /\ list[Len(list)] \in DataPage
         /\ SubSeq(list, 1, Len(list) - 1) \in Header
BY Popped DEF Header

LEMMA PopAny ==
  ASSUME NEW list \in AnyList, list # << >>
  PROVE  /\ list[Len(list)] \in PageNo
         /\ SubSeq(list, 1, Len(list) - 1) \in AnyList
BY Popped DEF AnyList

LEMMA EmptyHeader == << >> \in Header /\ << >> \in AnyList
<1>1. \A pages : << >> \in Seq(pages) /\ Len(<< >>) <= MaxFree
  BY PagerAssumption
<1> QED BY <1>1, ShortSeqs DEF Header, AnyList

LEMMA HeaderIsList == Header \subseteq AnyList /\ AnyList \subseteq Stored
<1>1. DataPage \subseteq PageNo
  BY DEF DataPage
<1>2. \A list : list \in Seq(DataPage) => list \in Seq(PageNo)
  BY <1>1
<1> QED BY <1>2, ShortSeqs DEF Header, AnyList, Stored

-----------------------------------------------------------------------------
(* The types of the variables.                                             *)

LEMMA TypeOKInit == Init => TypeOK
<1> SUFFICES ASSUME Init PROVE TypeOK
  OBVIOUS
<1>0. 0 \in PageNo
  BY PagerAssumption DEF PageNo
<1>1. /\ file \in [PageNo -> Stored \cup {Torn, Short, Absent}]
      /\ acked \in [PageNo -> Stored \cup {Torn, Short, Absent}]
      /\ \A p \in PageNo : file[p] \in OnFile(p)
  BY DEF Init, OnFile
<1>2. freeList \in Header /\ freeList \in AnyList
  BY EmptyHeader DEF Init
<1>3. op \in [name : Calls \cup {"none"}, page : PageNo] /\ op.name # "allocate"
  BY <1>0 DEF Init, NoOp, Calls
<1>4. log = << >> /\ todo = << >> /\ log \in Seq(Record) /\ todo \in Seq(Write)
  BY DEF Init
<1>5. pc \in States /\ pc \notin Persist /\ rpos \in Nat \ {0}
  BY DEF Init, States, Persist
<1>7. wal \in BOOLEAN /\ misread \in BOOLEAN
  BY Zenon DEF Init
<1>6. limbo = {} /\ owned = {} /\ acked[0] = Absent /\ env \in Environments
  BY <1>0 DEF Init
<1>8. VarsTyped
  BY <1>1, <1>2, <1>3, <1>4, <1>5, <1>6, <1>7 DEF VarsTyped
<1>9. HeadersTyped
  BY <1>2, <1>3, <1>4, <1>6 DEF HeadersTyped
<1> QED BY <1>8, <1>9 DEF TypeOK

(* The page write at the head of the call in progress.                     *)
LEMMA NextWrite ==
  ASSUME TypeOK, pc \in Persist
  PROVE  /\ todo[1] \in Write /\ todo[1].page \in PageNo
         /\ todo[1].img \in Content(todo[1].page) /\ todo[1].img \in Stored
         /\ Len(todo) \in Nat \ {0} /\ Tail(todo) \in Seq(Write)
         /\ Len(todo) > 1 => Tail(todo) # << >>
         /\ todo[1] = [page |-> todo[1].page, img |-> todo[1].img]
<1>1. todo \in Seq(Write) /\ todo # << >>
  BY DEF TypeOK, VarsTyped
<1>2. /\ todo[1] \in Write /\ Len(todo) \in Nat \ {0}
      /\ Tail(todo) \in Seq(Write) /\ Len(Tail(todo)) = Len(todo) - 1
  BY <1>1
<1>3. ASSUME Len(todo) > 1 PROVE Tail(todo) # << >>
  <2>1. Len(Tail(todo)) # 0
    BY <1>2, <1>3
  <2> QED BY <1>2, <2>1, EmptySeq
<1> QED BY <1>2, <1>3 DEF Write

(* A record that replay reads.                                             *)
LEMMA ReplayedRecord ==
  ASSUME TypeOK, NEW i, Readable(i)
  PROVE  /\ log[i].page \in PageNo /\ log[i].img \in Content(log[i].page)
         /\ log[i].img \in Stored
BY DEF TypeOK, VarsTyped, Readable, Record

(* The page writes of the calls.                                           *)
LEMMA HeaderWriteOK ==
  ASSUME NEW list \in AnyList
  PROVE  HeaderWrite(list) \in Write
BY PagerAssumption DEF HeaderWrite, Write, Content, Stored, PageNo

LEMMA EmptyWriteOK ==
  ASSUME NEW p \in PageNo
  PROVE  [page |-> p, img |-> Empty] \in Write
BY DEF Write, Content, Stored

LEMMA DataWriteOK ==
  ASSUME NEW p \in DataPage, NEW img \in Images
  PROVE  [page |-> p, img |-> img] \in Write /\ p \in PageNo
BY DEF DataPage, Write, Content, Stored

(* What a call may be, and what it has still to write.                     *)
CallOK ==
  /\ pc \in States
  /\ todo \in Seq(Write)
  /\ op \in [name : Calls \cup {"none"}, page : PageNo]
  /\ pc \in Persist => todo # << >>

LEMMA BeginOK ==
  ASSUME NEW name \in Calls, NEW page \in PageNo,
         NEW writes \in Seq(Write), writes # << >>,
         Begin(name, page, writes)
  PROVE  CallOK'
BY DEF Begin, Persisting, CallOK, States, Persist

LEMMA ContinueOK ==
  ASSUME TypeOK, pc \in {"write", "checkpoint"}, Continue
  PROVE  CallOK' /\ owned' \in SUBSET PageNo
<1>1. /\ Len(todo) \in Nat \ {0} /\ Tail(todo) \in Seq(Write)
      /\ Len(todo) > 1 => Tail(todo) # << >>
  BY NextWrite DEF Persist
<1>2. CASE Len(todo) > 1
  BY <1>1, <1>2 DEF TypeOK, VarsTyped, Continue, CallOK, Persisting, States, Persist
<1>3. CASE ~(Len(todo) > 1)
  <2>2. NoOp \in [name : Calls \cup {"none"}, page : PageNo]
    BY PagerAssumption DEF NoOp, PageNo, Calls
  <2> QED BY <1>1, <1>3, <2>2 DEF TypeOK, VarsTyped, Continue, CallOK, States, Persist
<1> QED BY <1>2, <1>3

(* Pages and ghosts after a page write or a torn one.                      *)
LEMMA WrittenOK ==
  ASSUME NEW f \in [PageNo -> Stored \cup {Torn, Short, Absent}],
         \A p \in PageNo : f[p] \in OnFile(p),
         NEW page \in PageNo, NEW img \in OnFile(page)
  PROVE  /\ [f EXCEPT ![page] = img] \in [PageNo -> Stored \cup {Torn, Short, Absent}]
         /\ \A p \in PageNo : [f EXCEPT ![page] = img][p] \in OnFile(p)
<1>1. img \in Stored \cup {Torn, Short, Absent}
  BY DEF OnFile, Content, Stored
<1> QED BY <1>1

LEMMA TornWriteOK ==
  ASSUME TypeOK, TornWrite
  PROVE  /\ file' \in [PageNo -> Stored \cup {Torn, Short, Absent}]
         /\ \A p \in PageNo : file'[p] \in OnFile(p)
<1>1. /\ file \in [PageNo -> Stored \cup {Torn, Short, Absent}]
      /\ \A p \in PageNo : file[p] \in OnFile(p)
  BY DEF TypeOK, VarsTyped
<1>2. CASE Target \in DataPage /\ file' = [file EXCEPT ![Target] = Torn]
  <2>1. Target \in PageNo /\ Torn \in OnFile(Target)
    BY <1>2 DEF DataPage, OnFile
  <2> QED BY <1>1, <1>2, <2>1, WrittenOK
<1>3. ASSUME NEW page0 \in AnyList \cup {Torn, Short}, file' = [file EXCEPT ![0] = page0]
      PROVE  /\ file' \in [PageNo -> Stored \cup {Torn, Short, Absent}]
             /\ \A p \in PageNo : file'[p] \in OnFile(p)
  <2>1. 0 \in PageNo /\ page0 \in OnFile(0)
    BY PagerAssumption DEF PageNo, OnFile, Content
  <2> QED BY <1>1, <1>3, <2>1, WrittenOK
<1> QED BY <1>2, <1>3 DEF TornWrite

LEMMA VarsTypedNext == TypeOK /\ [Next]_vars => VarsTyped'
<1> SUFFICES ASSUME TypeOK, [Next]_vars PROVE VarsTyped'
  OBVIOUS
<1>0. env' = env /\ env \in Environments
  BY DEF Next, vars, TypeOK, VarsTyped
<1>z. 0 \in PageNo
  BY PagerAssumption DEF PageNo
<1> USE <1>0
<1> USE DEF States, Persist, NoOp, ghosts, TypeOK, VarsTyped
<1>1. ASSUME NEW w \in env.modes, Open(w) PROVE VarsTyped'
  <2>1. w \in BOOLEAN
    BY PagerAssumption DEF Environment
  <2>2. wal' \in BOOLEAN
    BY <1>1, <2>1 DEF Open
  <2> QED BY <1>1, <2>2, PagerAssumption DEF Open, OnFile, Content
<1>2. CASE ReplayStep
  <2>1. /\ log[rpos].page \in PageNo /\ log[rpos].img \in OnFile(log[rpos].page)
    BY <1>2, ReplayedRecord DEF ReplayStep, OnFile
  <2>2. /\ file' \in [PageNo -> Stored \cup {Torn, Short, Absent}]
        /\ \A p \in PageNo : file'[p] \in OnFile(p)
    BY <1>2, <2>1, WrittenOK DEF ReplayStep
  <2> QED BY <1>2, <2>2 DEF ReplayStep
<1>3. CASE ReplayDone
  BY <1>3 DEF ReplayDone, OnFile, Content
<1>4. CASE LoadHeader
  <2>1. freeList' \in AnyList /\ misread' \in BOOLEAN
    BY <1>4, EmptyHeader DEF LoadHeader
  <2> QED BY <1>4, <2>1 DEF LoadHeader
<1>5. CASE LoadFails
  BY <1>5 DEF LoadFails, OnFile, Content
<1>6. CASE CreateHeader
  <2>1. CallOK'
    <3>1. <<HeaderWrite(<< >>)>> \in Seq(Write) /\ <<HeaderWrite(<< >>)>> # << >>
      BY EmptyHeader, HeaderWriteOK
    <3>2. "open" \in Calls
      BY DEF Calls
    <3> QED BY <1>6, <1>z, <3>1, <3>2, BeginOK DEF CreateHeader
  <2> QED BY <1>6, <2>1, EmptyHeader DEF CallOK, CreateHeader
<1>7. CASE LogAppend
  <2>1. [page |-> todo[1].page, img |-> todo[1].img, intact |-> TRUE] \in Record
    BY <1>7, NextWrite DEF LogAppend, Record
  <2>2. log' \in Seq(Record)
    BY <1>7, <2>1 DEF LogAppend
  <2> QED BY <1>7, <2>2 DEF LogAppend
<1>8. CASE DataWrite
  <2>1. CallOK' /\ owned' \in SUBSET PageNo
    BY <1>8, ContinueOK DEF CallOK, DataWrite
  <2>0. todo[1].page \in PageNo /\ todo[1].img \in Stored
        /\ todo[1].img \in OnFile(todo[1].page)
    BY <1>8, NextWrite DEF DataWrite, OnFile
  <2>2. /\ file' \in [PageNo -> Stored \cup {Torn, Short, Absent}]
        /\ \A p \in PageNo : file'[p] \in OnFile(p)
    BY <1>8, <2>0, WrittenOK DEF DataWrite
  <2>3. acked' \in [PageNo -> Stored \cup {Torn, Short, Absent}]
    BY <1>8, <2>0 DEF DataWrite
  <2> QED BY <1>8, <2>1, <2>2, <2>3 DEF CallOK, DataWrite
<1>9. CASE Checkpoint
  <2>1. CallOK' /\ owned' \in SUBSET PageNo
    BY <1>9, ContinueOK DEF Checkpoint
  <2>2. log' \in Seq(Record)
    BY <1>9 DEF Checkpoint
  <2> QED BY <1>9, <2>1, <2>2 DEF CallOK, Checkpoint
<1>10. CASE AllocateReuse
  <2> DEFINE page == freeList[Len(freeList)]
             rest == SubSeq(freeList, 1, Len(freeList) - 1)
  <2>1. page \in PageNo /\ rest \in AnyList
    BY <1>10, PopAny DEF AllocateReuse
  <2>2. <<[page |-> page, img |-> Empty], HeaderWrite(rest)>> \in Seq(Write)
    BY <2>1, EmptyWriteOK, HeaderWriteOK
  <2>3. CallOK'
    BY <1>10, <2>1, <2>2, BeginOK DEF AllocateReuse, Calls
  <2> QED BY <1>10, <2>1, <2>3 DEF CallOK, AllocateReuse
<1>11. CASE AllocateExtend
  <2>1. CallOK'
    <3>2. <<[page |-> NumPages, img |-> Empty]>> \in Seq(Write) /\ NumPages \in PageNo
      BY <1>11, EmptyWriteOK DEF AllocateExtend
    <3> QED BY <1>11, <3>2, BeginOK DEF AllocateExtend, Calls
  <2> QED BY <1>11, <2>1 DEF CallOK, AllocateExtend
<1>12. ASSUME NEW p \in DataPage, FreePage(p) PROVE VarsTyped'
  <2>1. Append(freeList, p) \in AnyList
    BY <1>12, PushHeader DEF FreePage
  <2>2. CallOK'
    <3>1. <<HeaderWrite(Append(freeList, p))>> \in Seq(Write) /\ p \in PageNo
      BY <2>1, HeaderWriteOK DEF DataPage
    <3> QED BY <1>12, <3>1, BeginOK DEF FreePage, Calls
  <2> QED BY <1>12, <2>1, <2>2 DEF CallOK, FreePage
<1>13. ASSUME NEW p \in DataPage, NEW img \in Images, WritePage(p, img)
       PROVE  VarsTyped'
  <2>1. CallOK'
    <3>1. <<[page |-> p, img |-> img]>> \in Seq(Write) /\ p \in PageNo
      BY DataWriteOK
    <3> QED BY <1>13, <3>1, BeginOK DEF WritePage, Calls
  <2> QED BY <1>13, <2>1 DEF CallOK, WritePage
<1>14. CASE Sync
  BY <1>14 DEF Sync, OnFile, Content
<1>15. CASE Close
  <2>1. CallOK'
    <3>1. <<HeaderWrite(freeList)>> \in Seq(Write) /\ <<HeaderWrite(freeList)>> # << >>
      BY HeaderWriteOK
    <3>2. "close" \in Calls
      BY DEF Calls
    <3> QED BY <1>15, <1>z, <3>1, <3>2, BeginOK DEF Close
  <2> QED BY <1>15, <2>1 DEF CallOK, Close
<1>16. CASE Kill
  <2>1. CallOK'
    BY <1>16, <1>z DEF Kill, CallOK, Calls
  <2>2. log' \in Seq(Record)
    <3>1. CASE TornAppend
      <4>1. [page |-> todo[1].page, img |-> todo[1].img, intact |-> FALSE]
              \in Record
        BY <3>1, NextWrite DEF TornAppend, Record
      <4> QED BY <3>1, <4>1 DEF TornAppend
    <3> QED BY <1>16, <3>1 DEF Kill, TornWrite
  <2>3. /\ file' \in [PageNo -> Stored \cup {Torn, Short, Absent}]
        /\ \A p \in PageNo : file'[p] \in OnFile(p)
    BY <1>16, TornWriteOK DEF Kill, TornAppend
  <2>4. limbo' \in SUBSET Write
    BY <1>16, NextWrite DEF Kill
  <2> QED BY <1>16, <2>1, <2>2, <2>3, <2>4, EmptyHeader DEF CallOK, Kill
<1>17. CASE UNCHANGED vars
  BY <1>17 DEF vars, OnFile, Content
<1> QED
  BY <1>1, <1>2, <1>3, <1>4, <1>5, <1>6, <1>7, <1>8, <1>9, <1>10, <1>11,
     <1>12, <1>13, <1>14, <1>15, <1>16, <1>17 DEF Next, Step, Call

-----------------------------------------------------------------------------
(* The calls and the log between two steps.                                *)

(* Readable records, whatever the log does not change.                     *)
LEMMA SameLog ==
  ASSUME log' = log
  PROVE  /\ \A i : Readable(i)' <=> Readable(i)
         /\ \A i, p : IsLast(i, p)' <=> IsLast(i, p)
         /\ \A n, p : NoneFrom(n, p)' <=> NoneFrom(n, p)
         /\ Poisoned' <=> Poisoned
         /\ AllIntact' <=> AllIntact
BY DEF Readable, IsLast, NoneFrom, Poisoned, AllIntact

LEMMA CallsTidyInit == Init => CallsTidy
BY DEF Init, CallsTidy, NoOp, Persist

(* When a call moves on from a page write, the write is on file.           *)
LEMMA ContinueTidy ==
  ASSUME TypeOK, CallsTidy, pc \in {"write", "checkpoint"}, Continue,
         file'[todo[1].page] = todo[1].img,
         \A p \in PageNo : p # todo[1].page => file'[p] = file[p]
  PROVE  CallsTidy'
<1>1. /\ Len(todo) \in Nat \ {0} /\ Len(Tail(todo)) = Len(todo) - 1
      /\ \A i \in 1 .. Len(Tail(todo)) : Tail(todo)[i] = todo[i + 1]
      /\ op.page \in PageNo
  BY NextWrite DEF TypeOK, VarsTyped, Persist
<1>2. CASE Len(todo) > 1
  <2>1. /\ pc' \in Persist /\ pc' \notin {"replay", "checkpoint"}
        /\ op' = op /\ todo' = Tail(todo)
    BY <1>2 DEF Continue, Persisting, Persist
  <2>2. ASSUME op.name = "allocate", op.page # 0
        PROVE  \/ file'[op.page] = Empty
               \/ \E i \in 1 .. Len(todo') : todo'[i].page = op.page
    <3>1. CASE todo[1].page = op.page
      <4>1. todo[1].img = Empty
        BY <1>1, <2>2, <3>1 DEF CallsTidy
      <4> QED BY <3>1, <4>1
    <3>2. CASE todo[1].page # op.page
      <4>1. CASE file[op.page] = Empty
        BY <1>1, <3>2, <4>1
      <4>2. CASE \E i \in 1 .. Len(todo) : todo[i].page = op.page
        <5>1. PICK i \in 1 .. Len(todo) : todo[i].page = op.page
          BY <4>2
        <5>2. i # 1 /\ i - 1 \in 1 .. Len(todo') /\ todo'[i - 1] = todo[(i - 1) + 1]
          BY <1>1, <2>1, <3>2, <5>1
        <5>3. (i - 1) + 1 = i
          BY <1>1
        <5> QED BY <5>1, <5>2, <5>3
      <4> QED BY <2>2, <4>1, <4>2 DEF CallsTidy
    <3> QED BY <3>1, <3>2
  <2>3. ASSUME op.name = "allocate", op.page # 0, NEW i \in 1 .. Len(todo'),
               todo'[i].page = op.page
        PROVE  todo'[i].img = Empty
    <3>1. i + 1 \in 1 .. Len(todo) /\ todo'[i] = todo[i + 1]
      BY <1>1, <2>1
    <3> QED BY <2>3, <3>1 DEF CallsTidy
  <2> QED BY <2>1, <2>2, <2>3 DEF CallsTidy
<1>3. CASE ~(Len(todo) > 1)
  <2>1. Len(Tail(todo)) = 0 /\ Tail(todo) \in Seq(Write)
    BY <1>1, <1>3, NextWrite DEF Persist
  <2>2. Tail(todo) = << >>
    BY <2>1, EmptySeq
  <2> QED BY <1>3, <2>2 DEF Continue, CallsTidy, NoOp, Persist
<1> QED BY <1>2, <1>3

LEMMA CallsTidyNext == TypeOK /\ CallsTidy /\ [Next]_vars => CallsTidy'
<1> SUFFICES ASSUME TypeOK, CallsTidy, [Next]_vars PROVE CallsTidy'
  OBVIOUS
<1> USE DEF Persist, NoOp, ghosts
<1>1. ASSUME NEW w \in env.modes, Open(w) PROVE CallsTidy'
  BY <1>1 DEF Open, CallsTidy
<1>2. CASE ReplayStep
  <2>1. /\ rpos \in 1 .. Len(log) /\ Len(log) \in Nat /\ rpos' = rpos + 1
        /\ log[rpos].page \in PageNo /\ log' = log /\ pc' = pc
        /\ file' = [file EXCEPT ![log[rpos].page] = log[rpos].img]
        /\ op' = NoOp /\ todo' = << >> /\ pc = "replay"
    BY <1>2, ReplayedRecord DEF ReplayStep, TypeOK, VarsTyped, Readable, CallsTidy
  <2>2. ASSUME NEW i \in 1 .. Len(log), i < rpos + 1, Readable(i),
               \A j \in i + 1 .. Len(log) :
                 j < rpos + 1 /\ Readable(j) => log[j].page # log[i].page
        PROVE  file'[log[i].page] = log[i].img
    <3>1. log[i].page \in PageNo
      BY <2>2, ReplayedRecord
    <3>2. CASE i = rpos
      BY <2>1, <3>1, <3>2 DEF TypeOK, VarsTyped
    <3>3. CASE i # rpos
      <4>1. i < rpos /\ log[rpos].page # log[i].page
        BY <1>2, <2>1, <2>2, <3>3 DEF ReplayStep
      <4>2. file[log[i].page] = log[i].img
        <5>1. \A j \in i + 1 .. Len(log) :
                j < rpos /\ Readable(j) => log[j].page # log[i].page
          BY <2>1, <2>2
        <5> QED BY <2>1, <2>2, <4>1, <5>1 DEF CallsTidy
      <4> QED BY <2>1, <3>1, <4>1, <4>2 DEF TypeOK, VarsTyped
    <3> QED BY <3>2, <3>3
  <2> QED BY <2>1, <2>2, SameLog DEF CallsTidy
<1>3. CASE ReplayDone
  BY <1>3 DEF ReplayDone, CallsTidy
<1>4. CASE LoadHeader
  BY <1>4 DEF LoadHeader, CallsTidy
<1>5. CASE LoadFails
  BY <1>5 DEF LoadFails, CallsTidy
<1>6. CASE CreateHeader
  BY <1>6 DEF CreateHeader, CallsTidy, Begin, Persisting
<1>7. CASE LogAppend
  BY <1>7 DEF LogAppend, CallsTidy
<1>8. CASE DataWrite
  <2>1. /\ file'[todo[1].page] = todo[1].img
        /\ \A p \in PageNo : p # todo[1].page => file'[p] = file[p]
        /\ op.page \in PageNo /\ 1 \in 1 .. Len(todo)
    BY <1>8, NextWrite DEF TypeOK, VarsTyped, DataWrite
  <2>2. CASE MustCheckpoint
    BY <1>8, <2>1, <2>2 DEF DataWrite, CallsTidy
  <2>3. CASE ~MustCheckpoint
    BY <1>8, <2>1, <2>3, ContinueTidy DEF DataWrite
  <2> QED BY <2>2, <2>3
<1>9. CASE Checkpoint
  BY <1>9, ContinueTidy DEF Checkpoint, CallsTidy
<1>10. CASE AllocateReuse
  <2>1. freeList[Len(freeList)] \in PageNo
    BY <1>10, PopAny DEF TypeOK, VarsTyped, AllocateReuse
  <2> QED BY <1>10, <2>1
          DEF AllocateReuse, CallsTidy, Begin, Persisting, HeaderWrite
<1>11. CASE AllocateExtend
  BY <1>11 DEF AllocateExtend, CallsTidy, Begin, Persisting
<1>12. ASSUME NEW p \in DataPage, FreePage(p) PROVE CallsTidy'
  BY <1>12 DEF FreePage, CallsTidy, Begin, Persisting
<1>13. ASSUME NEW p \in DataPage, NEW img \in Images, WritePage(p, img)
       PROVE  CallsTidy'
  BY <1>13 DEF WritePage, CallsTidy, Begin, Persisting
<1>14. CASE Sync
  BY <1>14 DEF Sync, CallsTidy
<1>15. CASE Close
  BY <1>15 DEF Close, CallsTidy, Begin, Persisting
<1>16. CASE Kill
  BY <1>16 DEF Kill, CallsTidy
<1>17. CASE UNCHANGED vars
  BY <1>17 DEF vars, CallsTidy, Readable
<1> QED
  BY <1>1, <1>2, <1>3, <1>4, <1>5, <1>6, <1>7, <1>8, <1>9, <1>10, <1>11,
     <1>12, <1>13, <1>14, <1>15, <1>16, <1>17 DEF Next, Step, Call

-----------------------------------------------------------------------------
(* The free list on page 0, until an open loads half a header.             *)

(* What an open has loaded is not forgotten.                               *)
LEMMA MisreadStays == TypeOK /\ [Next]_vars /\ ~misread' => ~misread
BY DEF Next, Step, Call, vars, ghosts, TypeOK, VarsTyped, Open, ReplayStep, ReplayDone,
       LoadHeader, LoadFails, CreateHeader, LogAppend, DataWrite, Checkpoint,
       AllocateReuse, AllocateExtend, FreePage, WritePage, Sync, Close, Kill

(* An open file has a page to extend it with: page 0 is there.             *)
LEMMA NumPagesPositive ==
  ASSUME TypeOK, ~misread, FreeListOnPage0, pc = "idle", NumPages \in PageNo
  PROVE  NumPages \in DataPage
<1> DEFINE present == {p \in PageNo : file[p] \notin {Short, Absent}}
<1>1. 0 \in present
  BY HeaderIsList, PagerAssumption
     DEF TypeOK, HeadersTyped, FreeListOnPage0, PageNo
<1>2. IsFiniteSet(present)
  <2>1. IsFiniteSet(PageNo)
    BY PagerAssumption, FS_Interval DEF PageNo
  <2> QED BY <2>1, FS_Subset
<1>3. Cardinality(present) # 0
  BY <1>1, <1>2, FS_EmptySet
<1> QED BY <1>3 DEF NumPages, DataPage

(* The writes of a call that begins, of one that goes on, and the log.     *)
HeaderImages(s) == \A i \in 1 .. Len(s) : HeaderIfPage0(s[i])

LEMMA AppendedImages ==
  ASSUME NEW S, NEW s \in Seq(S), NEW w \in S, HeaderImages(s), HeaderIfPage0(w)
  PROVE  HeaderImages(Append(s, w))
<1>1. /\ Len(s) \in Nat /\ Len(Append(s, w)) = Len(s) + 1
      /\ \A i \in 1 .. Len(s) : Append(s, w)[i] = s[i]
      /\ Append(s, w)[Len(s) + 1] = w
  BY AppendProperties
<1>2. \A i \in 1 .. Len(Append(s, w)) : i \in 1 .. Len(s) \/ i = Len(s) + 1
  BY <1>1
<1> QED BY <1>1, <1>2 DEF HeaderImages

LEMMA TailImages ==
  ASSUME NEW S, NEW s \in Seq(S), s # << >>, HeaderImages(s)
  PROVE  HeaderImages(Tail(s))
<1>1. /\ Len(s) \in Nat /\ Len(Tail(s)) = Len(s) - 1
      /\ \A i \in 1 .. Len(Tail(s)) : Tail(s)[i] = s[i + 1] /\ i + 1 \in 1 .. Len(s)
  BY EmptySeq
<1> QED BY <1>1 DEF HeaderImages

LEMMA WriteImages ==
  /\ \A list \in Header : HeaderImages(<<HeaderWrite(list)>>)
  /\ \A p \in DataPage, img \in Images \cup {Empty} :
       HeaderImages(<<[page |-> p, img |-> img]>>)
  /\ \A p \in DataPage, list \in Header :
       HeaderImages(<<[page |-> p, img |-> Empty], HeaderWrite(list)>>)
BY DEF HeaderImages, HeaderIfPage0, HeaderWrite, DataPage

LEMMA HeadersTypedNext ==
  TypeOK /\ HeaderKept /\ [Next]_vars /\ ~misread' => HeadersTyped'
<1> SUFFICES ASSUME TypeOK, HeaderKept, [Next]_vars, ~misread' PROVE HeadersTyped'
  OBVIOUS
<1>0. ~misread /\ HeadersTyped /\ VarsTyped /\ FreeListOnPage0
  BY MisreadStays DEF TypeOK, HeaderKept, ListKept
<1>i. HeaderImages(log) /\ HeaderImages(todo) /\ 0 \in PageNo
  BY <1>0, PagerAssumption DEF HeadersTyped, HeaderImages, PageNo
<1>s. ASSUME HeaderImages(log') /\ HeaderImages(todo'), freeList' \in Header,
             \A w \in limbo' : HeaderIfPage0(w), acked'[0] \in Header \cup {Absent},
             owned' \subseteq DataPage, op'.name = "allocate" => op'.page # 0
      PROVE  HeadersTyped'
  BY <1>s DEF HeadersTyped, HeaderImages, HeaderIfPage0
<1>1. ASSUME NEW w \in env.modes, Open(w) PROVE HeadersTyped'
  BY <1>1, <1>0 DEF Open, HeadersTyped, HeaderIfPage0, ghosts
<1>2. CASE ReplayStep
  BY <1>2, <1>0 DEF ReplayStep, HeadersTyped, HeaderIfPage0, ghosts
<1>3. CASE ReplayDone
  <2>1. HeaderImages(log')
    BY <1>3, <1>i DEF ReplayDone, HeaderImages
  <2> QED BY <1>0, <1>3, <1>i, <1>s, <2>1 DEF ReplayDone, HeadersTyped, ghosts
<1>4. CASE LoadHeader
  <2>1. file[0] \in Header /\ file[0] # Short
    BY <1>4, HeaderIsList, PagerAssumption DEF LoadHeader
  <2> QED BY <1>0, <1>4, <1>i, <1>s, <2>1 DEF LoadHeader, HeadersTyped
<1>5. CASE LoadFails
  BY <1>5, <1>0 DEF LoadFails, HeadersTyped, HeaderIfPage0, ghosts
<1>6. CASE CreateHeader
  <2>1. HeaderImages(todo')
    BY <1>6, EmptyHeader, WriteImages DEF CreateHeader, Begin
  <2> QED BY <1>0, <1>6, <1>i, <1>s, <2>1, EmptyHeader
          DEF CreateHeader, Begin, HeadersTyped
<1>7. CASE LogAppend
  <2> DEFINE r == [page |-> todo[1].page, img |-> todo[1].img, intact |-> TRUE]
  <2>1. r \in Record /\ HeaderIfPage0(todo[1])
    BY <1>7, <1>i, NextWrite DEF LogAppend, Record, Persist, HeaderImages
  <2>2. HeaderIfPage0(r)
    BY <2>1 DEF HeaderIfPage0
  <2>3. log' = Append(log, r)
    BY <1>7 DEF LogAppend
  <2> HIDE DEF r
  <2>4. HeaderImages(log')
    BY <1>0, <1>i, <2>1, <2>2, <2>3, AppendedImages DEF VarsTyped
  <2> QED BY <1>0, <1>7, <1>i, <1>s, <2>4 DEF LogAppend, HeadersTyped, ghosts
<1>8. CASE DataWrite \/ Checkpoint
  <2>1. /\ pc \in Persist /\ todo # << >> /\ HeaderIfPage0(todo[1])
        /\ todo[1].page \in PageNo
    BY <1>0, <1>8, <1>i, NextWrite DEF DataWrite, Checkpoint, Persist, VarsTyped, HeaderImages
  <2>2. HeaderImages(todo')
    BY <1>0, <1>8, <1>i, <2>1, TailImages DEF DataWrite, Checkpoint, Continue, VarsTyped
  <2>3. HeaderImages(log')
    BY <1>8, <1>i DEF DataWrite, Checkpoint, HeaderImages
  <2>4. acked'[0] \in Header \cup {Absent}
    BY <1>0, <1>8, <1>i, <2>1
       DEF DataWrite, Checkpoint, HeadersTyped, HeaderIfPage0, VarsTyped
  <2>5. owned' \subseteq DataPage
    <3>1. op.page \in PageNo /\ (op.name = "allocate" => op.page # 0)
      BY <1>0 DEF VarsTyped, HeadersTyped
    <3>2. owned' \in {owned, owned \cup {op.page}} /\ (owned' # owned => op.name = "allocate")
      BY <1>8 DEF DataWrite, Checkpoint, Continue
    <3> QED BY <1>0, <3>1, <3>2 DEF HeadersTyped, DataPage
  <2>6. op'.name = "allocate" => op'.page # 0
    BY <1>0, <1>8 DEF DataWrite, Checkpoint, Continue, NoOp, HeadersTyped
  <2> QED BY <1>0, <1>8, <1>s, <2>2, <2>3, <2>4, <2>5, <2>6
          DEF DataWrite, Checkpoint, HeadersTyped
<1>10. CASE AllocateReuse
  <2>1. /\ freeList[Len(freeList)] \in DataPage
        /\ SubSeq(freeList, 1, Len(freeList) - 1) \in Header
    BY <1>0, <1>10, PopHeader DEF AllocateReuse, HeadersTyped
  <2>2. HeaderImages(todo')
    BY <1>10, <2>1, WriteImages DEF AllocateReuse, Begin
  <2> QED BY <1>0, <1>10, <1>i, <1>s, <2>1, <2>2
          DEF AllocateReuse, Begin, HeadersTyped, DataPage, ghosts
<1>11. CASE AllocateExtend
  <2>1. NumPages \in DataPage
    BY <1>0, <1>11, NumPagesPositive DEF AllocateExtend
  <2>2. HeaderImages(todo')
    BY <1>11, <2>1, WriteImages DEF AllocateExtend, Begin
  <2> QED BY <1>0, <1>11, <1>i, <1>s, <2>1, <2>2
          DEF AllocateExtend, Begin, HeadersTyped, DataPage, ghosts
<1>12. ASSUME NEW p \in DataPage, FreePage(p) PROVE HeadersTyped'
  <2>1. Append(freeList, p) \in Header
    BY <1>0, <1>12, PushHeader DEF HeadersTyped, FreePage
  <2>2. HeaderImages(todo')
    BY <1>12, <2>1, WriteImages DEF FreePage, Begin
  <2> QED BY <1>0, <1>12, <1>i, <1>s, <2>1, <2>2 DEF FreePage, Begin, HeadersTyped
<1>13. ASSUME NEW p \in DataPage, NEW img \in Images, WritePage(p, img)
       PROVE  HeadersTyped'
  <2>1. HeaderImages(todo')
    BY <1>13, WriteImages DEF WritePage, Begin
  <2> QED BY <1>0, <1>13, <1>i, <1>s, <2>1 DEF WritePage, Begin, HeadersTyped, ghosts
<1>14. CASE Sync
  <2>1. HeaderImages(log')
    BY <1>14, <1>i DEF Sync, HeaderImages
  <2> QED BY <1>0, <1>14, <1>i, <1>s, <2>1 DEF Sync, HeadersTyped, ghosts
<1>15. CASE Close
  <2>1. HeaderImages(todo')
    BY <1>0, <1>15, WriteImages DEF Close, Begin, HeadersTyped
  <2> QED BY <1>0, <1>15, <1>i, <1>s, <2>1 DEF Close, Begin, HeadersTyped, ghosts
<1>16. CASE Kill
  <2>1. HeaderImages(log')
    <3>1. CASE TornAppend
      <4> DEFINE r == [page |-> todo[1].page, img |-> todo[1].img, intact |-> FALSE]
      <4>1. r \in Record /\ HeaderIfPage0(todo[1])
        BY <3>1, <1>i, NextWrite DEF TornAppend, Record, Persist, HeaderImages
      <4>2. HeaderIfPage0(r)
        BY <4>1 DEF HeaderIfPage0
      <4>3. log' = Append(log, r)
        BY <3>1 DEF TornAppend
      <4> HIDE DEF r
      <4> QED BY <1>0, <1>i, <4>1, <4>2, <4>3, AppendedImages DEF VarsTyped
    <3> QED BY <1>16, <1>i, <3>1 DEF Kill, TornWrite
  <2>2. \A w \in limbo' : HeaderIfPage0(w)
    BY <1>0, <1>16, <1>i, NextWrite DEF Kill, Persist, HeaderImages, HeadersTyped
  <2>3. HeaderImages(todo') /\ freeList' \in Header /\ op'.name # "allocate"
    BY <1>16, EmptyHeader DEF Kill, HeaderImages, NoOp
  <2> QED BY <1>0, <1>16, <1>s, <2>1, <2>2, <2>3 DEF Kill, HeadersTyped
<1>17. CASE UNCHANGED vars
  BY <1>17, <1>0 DEF vars, HeadersTyped, HeaderIfPage0
<1> QED
  BY <1>1, <1>2, <1>3, <1>4, <1>5, <1>6, <1>7, <1>8, <1>10, <1>11,
     <1>12, <1>13, <1>14, <1>15, <1>16, <1>17 DEF Next, Step, Call

LEMMA TypeOKNext == TypeOK /\ HeaderKept /\ [Next]_vars => TypeOK'
BY VarsTypedNext, HeadersTypedNext DEF TypeOK

(* When a call moves on from a page write, the write is on file.           *)
LEMMA ContinueKeepsHeader ==
  ASSUME TypeOK, ListKept, pc \in {"write", "checkpoint"}, Continue,
         file'[todo[1].page] = todo[1].img,
         todo[1].page # 0 => file'[0] = file[0],
         freeList' = freeList
  PROVE  ListKept'
<1> USE DEF ListKept, FreeListOnPage0, Persist
<1>1. /\ todo \in Seq(Write) /\ Len(todo) \in Nat \ {0}
      /\ Len(Tail(todo)) = Len(todo) - 1
      /\ \A i \in 1 .. Len(Tail(todo)) : Tail(todo)[i] = todo[i + 1]
  BY NextWrite DEF TypeOK, VarsTyped
<1>2. CASE Len(todo) > 1
  <2>1. todo' = Tail(todo) /\ Len(todo') \in Nat \ {0} /\ pc' # "idle" /\ pc' # "checkpoint"
    BY <1>1, <1>2 DEF Continue, Persisting
  <2>2. CASE file[0] = freeList /\ \A i \in 1 .. Len(todo) : todo[i].page # 0
    BY <1>1, <1>2, <2>1, <2>2
  <2>3. CASE todo[Len(todo)] = HeaderWrite(freeList)
    BY <1>1, <1>2, <2>1, <2>3 DEF HeaderWrite
  <2> QED BY <2>2, <2>3
<1>3. CASE ~(Len(todo) > 1)
  <2>1. Len(todo) = 1 /\ pc' \in {"idle", "down"}
    BY <1>1, <1>3 DEF Continue
  <2>2. file'[0] = freeList
    BY <1>1, <2>1 DEF HeaderWrite
  <2> QED BY <2>1, <2>2
<1> QED BY <1>2, <1>3

LEMMA HeaderKeptNext ==
  TypeOK /\ HeaderKept /\ CallsTidy /\ [Next]_vars => HeaderKept'
<1> SUFFICES ASSUME TypeOK, HeaderKept, CallsTidy, [Next]_vars, ~misread'
             PROVE  ListKept'
  BY DEF HeaderKept
<1>0. ~misread /\ ListKept
  BY MisreadStays DEF HeaderKept
<1> USE DEF ListKept, FreeListOnPage0, Persist
<1>1. ASSUME NEW w \in env.modes, Open(w) PROVE ListKept'
  BY <1>0, <1>1 DEF Open
<1>2. CASE ReplayStep
  BY <1>0, <1>2 DEF ReplayStep
<1>3. CASE ReplayDone
  BY <1>0, <1>3 DEF ReplayDone
<1>4. CASE LoadHeader
  <2>1. file[0] # Short
    BY <1>4, HeaderIsList, PagerAssumption DEF LoadHeader
  <2> QED BY <1>4, <2>1 DEF LoadHeader
<1>5. CASE LoadFails
  BY <1>0, <1>5 DEF LoadFails
<1>6. CASE CreateHeader
  BY <1>0, <1>6 DEF CreateHeader, Begin, Persisting
<1>7. CASE LogAppend
  BY <1>0, <1>7 DEF LogAppend
<1>8. CASE DataWrite
  <2>1. file'[todo[1].page] = todo[1].img /\ (todo[1].page # 0 => file'[0] = file[0])
    BY <1>0, <1>8, NextWrite DEF TypeOK, VarsTyped, DataWrite
  <2>2. CASE MustCheckpoint
    <3>1. pc' = "checkpoint" /\ todo' = todo /\ freeList' = freeList /\ pc = "write"
      BY <1>8, <2>2 DEF DataWrite
    <3>2. CASE todo[Len(todo)] = HeaderWrite(freeList)
      BY <3>1, <3>2
    <3>3. CASE file[0] = freeList /\ \A i \in 1 .. Len(todo) : todo[i].page # 0
      <4>1. todo[1].page # 0
        BY <1>8, <3>1, <3>3, NextWrite DEF TypeOK, VarsTyped
      <4> QED BY <2>1, <3>1, <3>3, <4>1
    <3> QED BY <1>0, <3>1, <3>2, <3>3
  <2>3. CASE ~MustCheckpoint
    BY <1>0, <1>8, <2>1, <2>3, ContinueKeepsHeader DEF DataWrite
  <2> QED BY <2>2, <2>3
<1>9. CASE Checkpoint
  BY <1>0, <1>9, ContinueKeepsHeader DEF Checkpoint, CallsTidy
<1>10. CASE AllocateReuse
  BY <1>0, <1>10 DEF AllocateReuse, Begin, Persisting
<1>11. CASE AllocateExtend
  <2>1. NumPages \in DataPage
    BY <1>0, <1>11, NumPagesPositive DEF AllocateExtend
  <2> QED BY <1>0, <1>11, <2>1 DEF AllocateExtend, Begin, Persisting, DataPage
<1>12. ASSUME NEW p \in DataPage, FreePage(p) PROVE ListKept'
  BY <1>0, <1>12 DEF FreePage, Begin, Persisting
<1>13. ASSUME NEW p \in DataPage, NEW img \in Images, WritePage(p, img)
       PROVE  ListKept'
  BY <1>0, <1>13 DEF WritePage, Begin, Persisting, DataPage
<1>14. CASE Sync
  BY <1>0, <1>14 DEF Sync
<1>15. CASE Close
  BY <1>0, <1>15 DEF Close, Begin, Persisting
<1>16. CASE Kill
  BY <1>0, <1>16 DEF Kill
<1>17. CASE UNCHANGED vars
  BY <1>0, <1>17 DEF vars
<1> QED
  BY <1>1, <1>2, <1>3, <1>4, <1>5, <1>6, <1>7, <1>8, <1>9, <1>10, <1>11,
     <1>12, <1>13, <1>14, <1>15, <1>16, <1>17 DEF Next, Step, Call

LEMMA HeaderKeptInit == Init => HeaderKept
BY DEF Init, HeaderKept, ListKept, FreeListOnPage0, Persist

(* All that holds whatever a kill tears.                                   *)
Kept == TypeOK /\ HeaderKept /\ CallsTidy

LEMMA KeptInvariant ==
  /\ Init => Kept
  /\ Kept /\ [Next]_vars => Kept'
BY TypeOKInit, TypeOKNext, HeaderKeptInit, HeaderKeptNext, CallsTidyInit, CallsTidyNext
   DEF Kept

(* The pager's state keeps its type, whatever is torn, lost or replayed:   *)
(* until an open loads a page 0 of which only a part was written, every    *)
(* list that is written to page 0 fits it and names data pages, and page 0 *)
(* is handed out to nobody (pager.py).                                     *)
THEOREM TypeCorrect == Spec => []TypeOK
BY KeptInvariant, PTL DEF Spec, Kept

(* Between two calls page 0 holds the free list the pager works with, in   *)
(* both WAL modes and after any kill, until an open loads a page 0 of      *)
(* which only a part was written (allocate_page, free_page).               *)
THEOREM HeaderMatchesFreeList == Spec => []HeaderKept
BY KeptInvariant, PTL DEF Spec, Kept

-----------------------------------------------------------------------------
(* Recovery, for a file that is always opened with its log, when no page   *)
(* is torn while a torn record is in the log.                              *)

LEMMA RepairableInit == Init => Repairable
BY PagerAssumption
   DEF Init, Repairable, LogShape, LogAgrees, Replays, AllRecovered, Recovered, Good, AllIntact, Running, Persist, NoneFrom

(* An empty log offers nothing to replay.                                  *)
LEMMA EmptyLog ==
  ASSUME log' = << >>
  PROVE  /\ \A i : ~Readable(i)'
         /\ AllIntact' /\ (LogShape)'
BY DEF Readable, LogShape, AllIntact

(* A poisoned log offers nothing either.                                   *)
LEMMA PoisonedLog ==
  ASSUME TypeOK, Poisoned
  PROVE  \A i : ~Readable(i)
BY DEF TypeOK, VarsTyped, Poisoned, Readable

(* The effect of an append: an intact log gains a last record, a poisoned  *)
(* one stays unreadable.                                                   *)
LEMMA AppendIntact ==
  ASSUME TypeOK, AllIntact, NEW r \in Record, r.intact, log' = Append(log, r)
  PROVE  /\ AllIntact'
         /\ \A p \in PageNo, i \in 1 .. Len(log') : IsLast(i, p)' =>
              IF p = r.page THEN i = Len(log') /\ log'[i] = r
                            ELSE i \in 1 .. Len(log) /\ IsLast(i, p) /\ log'[i] = log[i]
         /\ log' # << >> /\ log'[Len(log')] = r
<1>1. /\ Len(log) \in Nat /\ Len(log') = Len(log) + 1 /\ log' # << >>
      /\ \A i \in 1 .. Len(log) : log'[i] = log[i]
      /\ log'[Len(log) + 1] = r
  BY AppendProperties DEF TypeOK, VarsTyped
<1>2. AllIntact'
  BY <1>1 DEF AllIntact
<1>3. /\ \A i : Readable(i)' <=> i \in 1 .. Len(log')
      /\ \A i : Readable(i) <=> i \in 1 .. Len(log)
  BY <1>1, <1>2 DEF Readable, AllIntact
<1>4. ASSUME NEW p \in PageNo, NEW i \in 1 .. Len(log'), IsLast(i, p)'
      PROVE  IF p = r.page THEN i = Len(log') /\ log'[i] = r
             ELSE i \in 1 .. Len(log) /\ IsLast(i, p) /\ log'[i] = log[i]
  <2>1. /\ log'[i].page = p
        /\ \A j \in i + 1 .. Len(log') : log'[j].page # p
    BY <1>3, <1>4 DEF IsLast
  <2>2. CASE p = r.page
    BY <1>1, <2>1, <2>2
  <2>3. CASE p # r.page
    <3>1. i \in 1 .. Len(log)
      BY <1>1, <2>1, <2>3
    <3> QED BY <1>1, <1>3, <2>1, <2>3, <3>1 DEF IsLast
  <2> QED BY <2>2, <2>3
<1> QED BY <1>1, <1>2, <1>4

LEMMA AppendPoisoned ==
  ASSUME TypeOK, Poisoned, NEW r \in Record, log' = Append(log, r)
  PROVE  Poisoned' /\ \A i : ~Readable(i)'
<1>1. /\ log # << >> /\ Len(log) \in Nat \ {0} /\ log' # << >>
      /\ Len(log') = Len(log) + 1 /\ log'[1] = log[1]
  <2>1. Len(log) \in Nat \ {0}
    BY EmptySeq DEF TypeOK, VarsTyped, Poisoned
  <2> QED BY <2>1, AppendProperties DEF TypeOK, VarsTyped, Poisoned
<1> QED BY <1>1 DEF Poisoned, Readable

LEMMA AppendTorn ==
  ASSUME TypeOK, NEW r \in Record, ~r.intact, log' = Append(log, r)
  PROVE  /\ \A i : Readable(i)' <=> Readable(i)
         /\ \A i, p : IsLast(i, p)' => IsLast(i, p) /\ log'[i] = log[i]
         /\ \A p : \A n \in Nat \ {0} : NoneFrom(n, p)' => NoneFrom(n, p)
<1>1. /\ Len(log) \in Nat /\ Len(log') = Len(log) + 1
      /\ \A i \in 1 .. Len(log) : log'[i] = log[i]
      /\ log'[Len(log) + 1] = r
  BY AppendProperties DEF TypeOK, VarsTyped
<1>2. ASSUME NEW i PROVE Readable(i)' <=> Readable(i)
  BY <1>1 DEF Readable
<1>3. ASSUME NEW i, NEW p, IsLast(i, p)' PROVE IsLast(i, p) /\ log'[i] = log[i]
  BY <1>1, <1>2, <1>3 DEF IsLast, Readable
<1>4. ASSUME NEW n \in Nat \ {0}, NEW p, NoneFrom(n, p)' PROVE NoneFrom(n, p)
  BY <1>1, <1>2, <1>4 DEF NoneFrom
<1> QED BY <1>2, <1>3, <1>4

(* A call that begins changes no page and no record.                       *)
LEMMA BeginRecoverable ==
  ASSUME Repairable, pc = "idle", NEW name, NEW page, NEW writes,
         Begin(name, page, writes), UNCHANGED <<file, log, wal, acked, limbo, misread>>
  PROVE  Repairable'
<1>1. pc' = "append"
  BY DEF Repairable, Begin, Persisting
<1> QED BY <1>1, SameLog
        DEF Repairable, LogShape, LogAgrees, Logged, Replays, AllRecovered, Running, Persist

(* What replay leaves: no page is torn, and nothing in the log is readable *)
(* any more.                                                               *)
LEMMA RecoveredNotTorn ==
  ASSUME TypeOK, Repairable, pc = "header"
  PROVE  /\ \A p \in PageNo : file[p] # Torn
         /\ file[0] \in Header \cup {Absent}
<1>1. ASSUME NEW p \in PageNo PROVE file[p] # Torn
  <2>1. CASE file[p] = acked[p]
    BY <2>1 DEF Repairable
  <2>2. CASE [page |-> p, img |-> file[p]] \in limbo
    BY <2>2, PagerAssumption DEF TypeOK, VarsTyped, Write
  <2> QED BY <2>1, <2>2 DEF Repairable, AllRecovered, Recovered, Good
<1>2. 0 \in PageNo /\ HeadersTyped
  BY PagerAssumption DEF PageNo, TypeOK, Repairable
<1>3. file[0] = acked[0] \/ [page |-> 0, img |-> file[0]] \in limbo
  BY <1>2 DEF Repairable, AllRecovered, Recovered, Good
<1>4. file[0] \in Header \cup {Absent}
  BY <1>2, <1>3 DEF HeadersTyped, HeaderIfPage0
<1> QED BY <1>1, <1>4

LEMMA UnreadableLog ==
  ASSUME TypeOK, Repairable, pc = "header"
  PROVE  Poisoned \/ AllIntact
<1>1. \A i \in 1 .. Len(log) : ~Readable(i)
  BY DEF Repairable
<1>2. CASE log = << >>
  BY <1>2 DEF AllIntact
<1>3. CASE log # << >>
  <2>1. 1 \in 1 .. Len(log)
    BY <1>3, EmptySeq DEF TypeOK, VarsTyped
  <2> QED BY <1>1, <1>3, <2>1 DEF Readable, Poisoned
<1> QED BY <1>2, <1>3

(* A kill adds at most one unreadable record to the log.                   *)
LEMMA KillLog ==
  ASSUME TypeOK, Repairable, pc' = "down",
         TornAppend \/ TornWrite \/ UNCHANGED <<file, log>>
  PROVE  /\ LogShape'
         /\ \A i, p : IsLast(i, p)' => IsLast(i, p) /\ log'[i] = log[i]
         /\ \A p : NoneFrom(1, p)' => NoneFrom(1, p)
<1>1. CASE TornAppend
  <2> DEFINE r == [page |-> todo[1].page, img |-> todo[1].img, intact |-> FALSE]
  <2>1. r \in Record /\ ~r.intact /\ log' = Append(log, r)
    BY <1>1, NextWrite DEF TornAppend, Record, Persist
  <2>2. LogShape'
    <3>1. /\ Len(log) \in Nat /\ Len(log') = Len(log) + 1
          /\ \A i \in 1 .. Len(log) : log'[i] = log[i]
      BY <2>1, AppendProperties DEF TypeOK, VarsTyped
    <3>2. Poisoned => Poisoned'
      BY <2>1, AppendPoisoned
    <3>3. Poisoned \/ AllIntact
      BY <1>1 DEF TornAppend, Repairable, LogShape, Running, Persist
    <3> QED BY <3>1, <3>2, <3>3 DEF LogShape, AllIntact, Running, Persist
  <2>3. \A p : NoneFrom(1, p)' => NoneFrom(1, p)
    <3>1. 1 \in Nat \ {0}
      OBVIOUS
    <3> HIDE DEF NoneFrom
    <3> QED BY <2>1, <3>1, AppendTorn
  <2> QED BY <2>1, <2>2, <2>3, AppendTorn
<1>2. CASE log' = log
  BY <1>2, SameLog DEF Repairable, LogShape, Running, Persist
<1> QED BY <1>1, <1>2 DEF TornWrite

(* What replay would take from the log is good after a kill.               *)
LEMMA KillRecord ==
  ASSUME TypeOK, Repairable, acked' = acked, pc \notin {"down", "failed"},
         limbo' = IF pc \in {"append", "write"} THEN {todo[1]} ELSE limbo,
         NEW p \in PageNo, NEW i \in 1 .. Len(log), IsLast(i, p)
  PROVE  log[i].img = acked'[p] \/ [page |-> p, img |-> log[i].img] \in limbo'
<1>1. CASE pc \in Running
  <2>1. log[i].img = Logged(p)
    BY <1>1 DEF Repairable, LogAgrees
  <2>2. CASE pc = "write" /\ p = todo[1].page
    <3>1. [page |-> p, img |-> log[i].img] = todo[1]
      BY <2>1, <2>2, NextWrite DEF Logged, Write, Persist
    <3> QED BY <2>2, <3>1
  <2> QED BY <2>1, <2>2 DEF Logged
<1>2. CASE pc = "replay"
  BY <1>2 DEF Repairable, Replays, Good
<1>3. CASE pc = "header"
  BY <1>3 DEF Repairable, IsLast
<1> QED BY <1>1, <1>2, <1>3 DEF TypeOK, VarsTyped, States, Running

(* A page that a kill tears has a record in the log to repair it from.     *)
LEMMA TornPageLogged ==
  ASSUME OneTear, TypeOK, Repairable, TornWrite
  PROVE  /\ \E i \in 1 .. Len(log) : Readable(i) /\ log[i].page = Target
         /\ \A p \in PageNo : p # Target => file'[p] = file[p]
<1>1. CASE pc = "write"
  <2>1. AllIntact
    BY <1>1 DEF TornWrite, OneTear
  <2>2. log # << >> /\ log[Len(log)].page = todo[1].page
    BY <1>1, <2>1 DEF Repairable, LogAgrees, Running, Persist
  <2>3. Len(log) \in 1 .. Len(log) /\ Readable(Len(log))
    BY <2>1, <2>2, EmptySeq DEF TypeOK, VarsTyped, Readable, AllIntact
  <2> QED BY <1>1, <2>2, <2>3 DEF Target, TornWrite, TypeOK, VarsTyped
<1>2. CASE pc = "replay" /\ Readable(rpos)
  BY <1>2 DEF Target, Readable, TornWrite, TypeOK, VarsTyped
<1> QED BY <1>1, <1>2 DEF TornWrite

(* A page for which the log has no record is good after a kill.            *)
LEMMA KillPage ==
  ASSUME OneTear, TypeOK, Repairable, acked' = acked,
         pc \notin {"down", "failed"},
         limbo' = IF pc \in {"append", "write"} THEN {todo[1]} ELSE limbo,
         TornAppend \/ TornWrite \/ UNCHANGED <<file, log>>,
         NEW p \in PageNo, NoneFrom(1, p)
  PROVE  file'[p] = acked'[p] \/ [page |-> p, img |-> file'[p]] \in limbo'
<1>1. file'[p] = file[p]
  <2>1. CASE TornWrite
    BY <2>1, TornPageLogged DEF NoneFrom
  <2> QED BY <2>1 DEF TornAppend
<1>2. CASE pc \in Running
  BY <1>1, <1>2 DEF Repairable, LogAgrees
<1>3. CASE pc = "replay"
  <2>1. NoneFrom(rpos, p)
    BY DEF NoneFrom, TypeOK, VarsTyped
  <2> QED BY <1>1, <1>3, <2>1 DEF Repairable, Replays, Good
<1>4. CASE pc = "header"
  BY <1>1, <1>4 DEF Repairable, AllRecovered, Recovered, Good
<1> QED BY <1>2, <1>3, <1>4 DEF TypeOK, VarsTyped, States, Running

LEMMA RepairableNext ==
  ASSUME OneTear, TypeOK, TypeOK', HeaderKept, Repairable, [Next]_vars
  PROVE  Repairable'
<1> USE DEF Running, Persist
<1>1. ASSUME NEW w \in env.modes, Open(w) PROVE Repairable'
  BY <1>1, SameLog
     DEF OneTear, Repairable, Open, LogShape, LogAgrees, Replays,
         AllRecovered, ghosts, Good
<1>2. CASE ReplayStep
  <2> DEFINE r == log[rpos]
  <2>1. /\ rpos \in 1 .. Len(log) /\ r.page \in PageNo /\ Len(log) \in Nat
        /\ file' = [file EXCEPT ![r.page] = r.img] /\ file'[r.page] = r.img
    BY <1>2, ReplayedRecord DEF ReplayStep, TypeOK, VarsTyped, Readable
  <2>2. ASSUME NEW p \in PageNo, NoneFrom(rpos + 1, p) PROVE Good(p, file'[p])
    <3>1. CASE p = r.page
      <4>1. IsLast(rpos, p)
        BY <1>2, <2>2, <3>1 DEF IsLast, NoneFrom, ReplayStep
      <4> QED BY <1>2, <2>1, <3>1, <4>1 DEF Repairable, Replays, ReplayStep
    <3>2. CASE p # r.page
      <4>1. NoneFrom(rpos, p)
        BY <2>1, <2>2, <3>2 DEF NoneFrom
      <4>2. file'[p] = file[p]
        BY <2>1, <3>2 DEF TypeOK, VarsTyped
      <4> QED BY <1>2, <4>1, <4>2 DEF Repairable, Replays, ReplayStep
    <3> QED BY <3>1, <3>2
  <2> QED BY <1>2, <2>2, SameLog
          DEF Repairable, LogShape, LogAgrees, Replays, AllRecovered, ReplayStep, ghosts, Good
<1>3. CASE ReplayDone
  <2>1. \A i \in 1 .. Len(log) : i >= rpos => ~Readable(i)
    BY <1>3 DEF ReplayDone, Readable, TypeOK, VarsTyped
  <2>2. \A p \in PageNo : Recovered(p)
    <3>1. \A p \in PageNo : NoneFrom(rpos, p)
      BY <2>1 DEF NoneFrom, TypeOK, VarsTyped
    <3> QED BY <1>3, <3>1 DEF Repairable, Replays, ReplayDone, Recovered
  <2>3. CASE rpos > 1
    BY <1>3, <2>2, <2>3, EmptyLog
       DEF ReplayDone, ghosts, Repairable, LogAgrees, Replays, AllRecovered, Recovered, Good
  <2>4. CASE ~(rpos > 1)
    <3>1. \A i \in 1 .. Len(log) : ~Readable(i)
      BY <2>1, <2>4 DEF TypeOK, VarsTyped
    <3> QED BY <1>3, <2>2, <2>4, <3>1, SameLog
            DEF ReplayDone, ghosts, Repairable, LogShape, LogAgrees, Replays,
                AllRecovered, Recovered, Good
  <2> QED BY <2>3, <2>4
<1>4. CASE LoadHeader
  <2>1. (\A p \in PageNo : file[p] # Torn) /\ ~misread'
    BY <1>4, RecoveredNotTorn, HeaderIsList, PagerAssumption DEF LoadHeader, Repairable
  <2>2. Poisoned \/ AllIntact
    BY <1>4, UnreadableLog DEF LoadHeader
  <2> QED BY <1>4, <2>1, <2>2, SameLog
          DEF LoadHeader, Repairable, LogShape, LogAgrees, Replays,
              AllRecovered, IsLast
<1>5. CASE LoadFails
  <2>1. file[0] \in AnyList \cup {Absent}
    BY <1>5, RecoveredNotTorn, HeaderIsList DEF LoadFails
  <2>2. file[0] \notin {Torn, Empty}
    BY <2>1, PagerAssumption DEF Stored
  <2> QED BY <1>5, <2>2 DEF LoadFails
<1>6. CASE CreateHeader
  <2>1. \A p \in PageNo : file[p] # Torn
    BY <1>6, RecoveredNotTorn DEF CreateHeader
  <2>2. Poisoned \/ AllIntact
    BY <1>6, UnreadableLog DEF CreateHeader
  <2>3. pc' = "append"
    BY <1>6 DEF CreateHeader, Begin, Persisting, Repairable
  <2> QED BY <1>6, <2>1, <2>2, <2>3, SameLog
          DEF CreateHeader, Repairable, LogShape, LogAgrees, Replays,
              AllRecovered, IsLast
<1>7. CASE LogAppend
  <2> DEFINE r == [page |-> todo[1].page, img |-> todo[1].img, intact |-> TRUE]
  <2>1. r \in Record /\ r.intact /\ r.page = todo[1].page /\ r.img = todo[1].img
    BY <1>7, NextWrite DEF LogAppend, Record
  <2>2. Poisoned \/ AllIntact
    BY <1>7 DEF LogAppend, Repairable, LogShape
  <2>3. CASE Poisoned
    <3>1. Poisoned' /\ \A i : ~Readable(i)'
      BY <1>7, <2>1, <2>3, AppendPoisoned DEF LogAppend
    <3>2. ~AllIntact'
      BY <3>1, EmptySeq DEF Poisoned, AllIntact, TypeOK, VarsTyped
    <3> QED BY <1>7, <3>1, <3>2
            DEF LogAppend, ghosts, Repairable, LogShape, LogAgrees, Replays,
                AllRecovered, IsLast
  <2>4. CASE AllIntact
    <3>1. /\ AllIntact' /\ log' # << >> /\ log'[Len(log')] = r
          /\ \A p \in PageNo, i \in 1 .. Len(log') : IsLast(i, p)' =>
               IF p = r.page THEN i = Len(log') /\ log'[i] = r
               ELSE i \in 1 .. Len(log) /\ IsLast(i, p) /\ log'[i] = log[i]
      BY <1>7, <2>1, <2>4, AppendIntact DEF LogAppend
    <3>2. LogAgrees'
      BY <1>7, <2>1, <3>1 DEF LogAppend, ghosts, Repairable, LogAgrees, Logged
    <3>3. LogShape'
      BY <3>1 DEF LogShape, AllIntact, TypeOK, VarsTyped
    <3> QED BY <1>7, <3>2, <3>3
            DEF LogAppend, ghosts, Repairable, Replays, AllRecovered
  <2> QED BY <2>2, <2>3, <2>4
<1>8. CASE DataWrite
  <2>1. /\ todo[1].page \in PageNo /\ todo[1].img \in Stored
        /\ pc' \in {"checkpoint", "append", "idle", "down"}
    BY <1>8, NextWrite DEF DataWrite, Continue, Persisting, Repairable
  <2>2. file' = acked' /\ \A p \in PageNo : acked'[p] = Logged(p) /\ acked'[p] # Torn
    BY <1>8, <2>1, PagerAssumption
       DEF DataWrite, Repairable, LogAgrees, Logged, TypeOK, VarsTyped
  <2>3. \A p \in PageNo, i \in 1 .. Len(log) : IsLast(i, p) => log[i].img = acked'[p]
    BY <1>8, <2>2 DEF DataWrite, Repairable, LogAgrees
  <2>4. LogAgrees' /\ Replays'
    BY <1>8, <2>1, <2>2, <2>3, SameLog DEF DataWrite, LogAgrees, Replays, Logged, Good
  <2>5. LogShape'
    BY <1>8, SameLog DEF DataWrite, Repairable, LogShape
  <2> QED BY <1>8, <2>1, <2>2, <2>4, <2>5
          DEF DataWrite, Repairable, AllRecovered
<1>9. CASE Checkpoint
  <2>1. pc' \in {"append", "idle", "down"}
    BY <1>9 DEF Checkpoint, Continue, Persisting, Repairable
  <2> QED BY <1>9, <2>1, EmptyLog
          DEF Checkpoint, Repairable, LogAgrees, Replays, AllRecovered, IsLast, Good
<1>10. CASE AllocateReuse
  BY <1>10, BeginRecoverable DEF AllocateReuse, ghosts
<1>11. CASE AllocateExtend
  BY <1>11, BeginRecoverable DEF AllocateExtend, ghosts
<1>12. ASSUME NEW p \in DataPage, FreePage(p) PROVE Repairable'
  BY <1>12, BeginRecoverable DEF FreePage, ghosts
<1>13. ASSUME NEW p \in DataPage, NEW img \in Images, WritePage(p, img)
       PROVE  Repairable'
  BY <1>13, BeginRecoverable DEF WritePage, ghosts
<1>14. CASE Sync
  <2>1. log' = << >>
    BY <1>14 DEF Sync, Repairable
  <2> QED BY <1>14, <2>1, EmptyLog
          DEF Sync, ghosts, Repairable, LogAgrees, Replays, AllRecovered, IsLast
<1>15. CASE Close
  BY <1>15, BeginRecoverable DEF Close, ghosts
<1>16. CASE Kill
  <2>1. pc' = "down" /\ rpos' = 1 /\ acked' = acked /\ misread' = misread
    BY <1>16 DEF Kill
  <2>2. /\ LogShape'
        /\ \A i, p : IsLast(i, p)' => IsLast(i, p) /\ log'[i] = log[i]
        /\ \A p : NoneFrom(1, p)' => NoneFrom(1, p)
    BY <1>16, <2>1, KillLog DEF Kill
  <2>3. \A p \in PageNo, i \in 1 .. Len(log) : IsLast(i, p) =>
          log[i].img = acked'[p] \/ [page |-> p, img |-> log[i].img] \in limbo'
    BY <1>16, KillRecord DEF Kill
  <2>4. \A p \in PageNo : NoneFrom(1, p) => Good(p, file[p])'
    BY <1>16, KillPage DEF Kill, Good
  <2>5. Replays'
    <3>1. \A i, p : IsLast(i, p)' => i \in 1 .. Len(log)
      <4>1. \A i, p : IsLast(i, p) => i \in 1 .. Len(log)
        BY DEF IsLast, Readable
      <4> QED BY <2>2, <4>1
    <3> QED BY <2>1, <2>2, <2>3, <2>4, <3>1 DEF Replays, Good
  <2> QED BY <2>1, <2>2, <2>5
          DEF Repairable, LogAgrees, AllRecovered
<1>17. CASE UNCHANGED vars
  BY <1>17 DEF vars, Repairable, LogShape, LogAgrees, Replays, AllRecovered, Good,
     Recovered, IsLast, NoneFrom, Readable, Poisoned, AllIntact, Logged
<1> QED
  BY <1>1, <1>2, <1>3, <1>4, <1>5, <1>6, <1>7, <1>8, <1>9, <1>10, <1>11,
     <1>12, <1>13, <1>14, <1>15, <1>16, <1>17 DEF Next, Step, Call

(* What recovery needs is kept by every step, in every environment.        *)
LEMMA RecoverableNext ==
  TypeOK /\ HeaderKept /\ Recoverable /\ [Next]_vars => Recoverable'
<1> SUFFICES ASSUME TypeOK, HeaderKept, Recoverable, [Next]_vars, OneTear'
             PROVE  Repairable'
  BY DEF Recoverable
<1>1. OneTear
  <2>1. env' = env
    BY DEF Next, vars
  <2> QED BY <2>1 DEF OneTear
<1>2. TypeOK'
  BY TypeOKNext
<1> QED BY <1>1, <1>2, RepairableNext DEF Recoverable

(* What is written to a file that is always opened with its log stays      *)
(* repairable, unless a page is torn behind a torn record: a kill at any   *)
(* point, and further kills during replay, leave for every page a good     *)
(* image in the file or in the log (_persist_page, replay).                *)
THEOREM StaysRecoverable == Spec => []Recoverable
<1>1. Kept /\ Recoverable /\ [Next]_vars => Kept' /\ Recoverable'
  BY KeptInvariant, RecoverableNext DEF Kept
<1>2. Init => Kept /\ Recoverable
  BY KeptInvariant, RepairableInit DEF Recoverable
<1> QED BY <1>1, <1>2, PTL DEF Spec

(* So replay leaves every page with the image of its last completed write, *)
(* or of the one write a kill cut short.                                   *)
THEOREM RecoveryAllOrNothing == Spec => []AllOrNothing
<1>1. Recoverable => AllOrNothing
  BY DEF Recoverable, Repairable, AllOrNothing
<1> QED BY <1>1, StaysRecoverable, PTL

(* And no open of the file fails (_load_header).                           *)
THEOREM OpenSucceeds == Spec => []AlwaysOpens
<1>1. Recoverable => AlwaysOpens
  BY DEF Recoverable, Repairable, AlwaysOpens
<1> QED BY <1>1, StaysRecoverable, PTL

-----------------------------------------------------------------------------
(* A bounded set of numbers has a largest element.                         *)
LEMMA LargestNumber ==
  ASSUME NEW n \in Nat, NEW T \in SUBSET (1 .. n), T # {}
  PROVE  \E x \in T : \A y \in T : y <= x
<1> DEFINE D == {d \in Nat : n - d \in T}
<1>1. \A x \in T : x \in 1 .. n /\ n - x \in D
  OBVIOUS
<1>2. PICK d \in D : \A y \in D : ~(<<y, d>> \in OpToRel(<, Nat))
  <2>1. D \subseteq Nat /\ D # {}
    BY <1>1
  <2> HIDE DEF D
  <2> QED BY <2>1, NatLessThanWellFounded, WFMin
<1>3. \A y \in D : d <= y
  <2> SUFFICES ASSUME NEW y \in D PROVE d <= y
    OBVIOUS
  <2>1. y \in Nat /\ d \in Nat
    OBVIOUS
  <2>2. ~(y < d)
    BY <1>2, <2>1 DEF OpToRel
  <2> QED BY <2>1, <2>2
<1>4. n - d \in T /\ d \in Nat
  OBVIOUS
<1>5. ASSUME NEW y \in T PROVE y <= n - d
  <2>1. y \in 1 .. n /\ d <= n - y
    BY <1>1, <1>3
  <2> QED BY <1>4, <2>1
<1> QED BY <1>4, <1>5

-----------------------------------------------------------------------------
(* The pages that are handed out.                                          *)

(* A page leaves owned only with free_page, and enters it only when an     *)
(* allocation ends, with its last page write on file.                      *)
LEMMA OwnedGrows ==
  ASSUME TypeOK, HeaderKept, CallsTidy, [Next]_vars, owned' # owned,
         ~\E p \in DataPage : FreePage(p)
  PROVE  /\ pc \in {"write", "checkpoint"} /\ Continue /\ Len(todo) = 1
         /\ op.name = "allocate" /\ owned' = owned \cup {op.page}
         /\ file'[todo[1].page] = todo[1].img
         /\ \A p \in PageNo : p # todo[1].page => file'[p] = file[p]
         /\ freeList' = freeList /\ limbo' = limbo /\ pc' # "down"
<1> USE DEF ghosts, Persist
<1>1. DataWrite \/ Checkpoint
  BY DEF Next, Step, Call, vars, Open, ReplayStep, ReplayDone, LoadHeader, LoadFails,
         CreateHeader, LogAppend, AllocateReuse, AllocateExtend, Sync, Close,
         WritePage, Kill
<1>2. Len(todo) \in Nat \ {0} /\ todo[1].page \in PageNo
  BY <1>1, NextWrite DEF DataWrite, Checkpoint
<1>3. Continue
  BY <1>1 DEF DataWrite, Checkpoint
<1>4. ~(Len(todo) > 1) /\ op.name = "allocate" /\ owned' = owned \cup {op.page}
  BY <1>3 DEF Continue
<1>5. /\ file'[todo[1].page] = todo[1].img
      /\ \A p \in PageNo : p # todo[1].page => file'[p] = file[p]
  BY <1>1, <1>2 DEF TypeOK, VarsTyped, DataWrite, Checkpoint, CallsTidy
<1>6. Len(todo) = 1
  <2>1. \A n \in Nat \ {0} : ~(n > 1) => n = 1
    OBVIOUS
  <2> QED BY <1>2, <1>4, <2>1
<1>8. pc' = "idle"
  <2>1. op.name # "close"
    BY <1>4
  <2> QED BY <1>3, <1>4, <2>1 DEF Continue
<1>7. freeList' = freeList /\ limbo' = limbo /\ pc \in {"write", "checkpoint"}
  BY <1>1 DEF DataWrite, Checkpoint
<1> QED BY <1>3, <1>4, <1>5, <1>6, <1>7, <1>8

LEMMA HandedOutEmptyNext ==
  ASSUME TypeOK, HeaderKept, CallsTidy, [Next]_vars, ~misread
  PROVE  \A p \in owned' \ owned : p # 0 /\ file'[p] = Empty
<1> SUFFICES ASSUME NEW p \in owned', p \notin owned PROVE p # 0 /\ file'[p] = Empty
  OBVIOUS
<1>1. ~\E q \in DataPage : FreePage(q)
  BY DEF FreePage
<1>2. /\ Len(todo) = 1 /\ op.name = "allocate" /\ p = op.page
      /\ file'[todo[1].page] = todo[1].img
      /\ \A q \in PageNo : q # todo[1].page => file'[q] = file[q]
  BY <1>1, OwnedGrows
<1>3. op.page \in PageNo /\ op.page # 0 /\ 1 \in 1 .. Len(todo)
  BY <1>2 DEF TypeOK, VarsTyped, HeadersTyped
<1>4. CASE todo[1].page = op.page
  BY <1>2, <1>3, <1>4 DEF CallsTidy
<1>5. CASE todo[1].page # op.page
  <2>1. file[op.page] = Empty
    BY <1>2, <1>3, <1>5 DEF CallsTidy
  <2> QED BY <1>2, <1>3, <1>5, <2>1
<1> QED BY <1>4, <1>5

(* allocate_page hands out empty data pages only, reused ones included:    *)
(* the page is cleared on file before the call returns, in both modes and  *)
(* after any kill, until an open loads a page 0 of which only a part was   *)
(* written.                                                                *)
THEOREM HandsOutEmptyPages == Spec => HandedOutEmpty
<1>1. Kept /\ [Next]_vars
        => [~misread => \A p \in owned' \ owned : p # 0 /\ file'[p] = Empty]_vars
  BY HandedOutEmptyNext DEF Kept
<1> QED BY <1>1, KeptInvariant, PTL DEF Spec, HandedOutEmpty

LEMMA Front ==
  ASSUME NEW S, NEW s \in Seq(S), NEW n \in Nat, n <= Len(s)
  PROVE  Len(SubSeq(s, 1, n)) = n /\ \A i \in 1 .. n : SubSeq(s, 1, n)[i] = s[i]
<1>1. 1 \in Int /\ n \in Int /\ \A i \in 1 .. n : s[i] \in S
  OBVIOUS
<1>2. Len(SubSeq(s, 1, n)) = IF 1 <= n THEN n - 1 + 1 ELSE 0
  BY <1>1, SubSeqProperties
<1>3. \A i \in 1 .. n - 1 + 1 : SubSeq(s, 1, n)[i] = s[1 + i - 1]
  BY <1>1, SubSeqProperties
<1>4. Len(SubSeq(s, 1, n)) = n
  BY <1>2
<1>5. ASSUME NEW i \in 1 .. n PROVE SubSeq(s, 1, n)[i] = s[i]
  <2>1. i \in 1 .. n - 1 + 1 /\ 1 + i - 1 = i
    OBVIOUS
  <2> QED BY <2>1, <1>3
<1> QED BY <1>4, <1>5

(* A free list with one page taken off, or put on.                         *)
LEMMA PoppedSound ==
  ASSUME NEW list \in AnyList, list # << >>, Sound(list)
  PROVE  /\ Sound(SubSeq(list, 1, Len(list) - 1))
         /\ ~Lists(SubSeq(list, 1, Len(list) - 1), list[Len(list)])
<1> DEFINE rest == SubSeq(list, 1, Len(list) - 1)
<1>0. list \in Seq(PageNo) /\ Len(list) \in Nat \ {0}
  BY ListIsShortSeq, EmptySeq
<1>1. list \in Seq(PageNo) /\ Len(list) \in Nat \ {0} /\ rest \in AnyList
  BY <1>0, PopAny
<1>2. Len(rest) = Len(list) - 1 /\ \A i \in 1 .. Len(rest) : rest[i] = list[i]
  <2>1. Len(list) - 1 \in Nat /\ Len(list) - 1 <= Len(list)
    BY <1>0
  <2> QED BY <1>0, <2>1, Front
<1>3. \A i \in 1 .. Len(rest) : i \in 1 .. Len(list) /\ i # Len(list)
  BY <1>1, <1>2
<1>4. \A i, j \in 1 .. Len(list) : list[i] = list[j] => i = j
  BY DEF Sound
<1> HIDE DEF rest
<1>5. ~Lists(rest, list[Len(list)])
  BY <1>1, <1>2, <1>3, <1>4 DEF Lists
<1>6. Sound(rest)
  BY <1>1, <1>2, <1>3, <1>4 DEF Sound, Lists
<1> QED BY <1>5, <1>6 DEF rest

LEMMA PushedSound ==
  ASSUME NEW list \in AnyList, Sound(list), NEW p \in PageNo,
         \A i \in 1 .. Len(list) : list[i] # p
  PROVE  /\ \A q \in owned \ {p} : ~Lists(Append(list, p), q)
         /\ \A i, j \in 1 .. Len(Append(list, p)) :
              Append(list, p)[i] = Append(list, p)[j] => i = j
<1>1. /\ list \in Seq(PageNo) /\ Len(list) \in Nat
      /\ Len(Append(list, p)) = Len(list) + 1
      /\ \A i \in 1 .. Len(list) : Append(list, p)[i] = list[i]
      /\ Append(list, p)[Len(list) + 1] = p
  BY ListIsShortSeq
<1> DEFINE pushed == Append(list, p)
<1>2. \A i \in 1 .. Len(pushed) :
        IF i = Len(list) + 1 THEN pushed[i] = p
        ELSE i \in 1 .. Len(list) /\ pushed[i] = list[i]
  BY <1>1
<1>3. \A i, j \in 1 .. Len(list) : list[i] = list[j] => i = j
  BY DEF Sound
<1>4. \A q \in owned, i \in 1 .. Len(list) : list[i] # q
  BY DEF Sound, Lists
<1> HIDE DEF pushed
<1>5. \A i, j \in 1 .. Len(pushed) : pushed[i] = pushed[j] => i = j
  BY <1>2, <1>3
<1>6. \A q \in owned \ {p}, i \in 1 .. Len(pushed) : pushed[i] # q
  BY <1>2, <1>4
<1> QED BY <1>5, <1>6 DEF Lists, pushed

LEMMA UnsharedInit == Init => Unshared
<1> SUFFICES ASSUME Init PROVE ListsSound
  BY DEF Unshared
<1>1. acked[0] = Absent /\ acked[0] \notin AnyList
  BY PagerAssumption DEF Init, PageNo, Stored
<1> QED BY <1>1 DEF Init, ListsSound, Sound, Lists, NoOp

(* What a recovered page 0 holds is one of the lists the invariant is      *)
(* about.                                                                  *)
LEMMA RecoveredListSound ==
  ASSUME OneTear, TypeOK, Repairable, ListsSound, pc = "header"
  PROVE  Sound(file[0])
<1>1. Good(0, file[0])
  BY PagerAssumption DEF Repairable, AllRecovered, Recovered, PageNo
<1>2. CASE file[0] = acked[0]
  BY <1>2 DEF ListsSound
<1>3. CASE [page |-> 0, img |-> file[0]] \in limbo
  BY <1>3 DEF ListsSound
<1> QED BY <1>1, <1>2, <1>3 DEF Good

(* The end of an allocation.                                               *)
LEMMA AllocatedSound ==
  ASSUME TypeOK, HeaderKept, CallsTidy, Repairable, ListsSound, [Next]_vars,
         HeaderKept', CallsTidy', Repairable', owned' # owned,
         ~\E p \in DataPage : FreePage(p)
  PROVE  ListsSound'
<1> USE DEF Persist, Running
<1>1. /\ pc \in {"write", "checkpoint"} /\ Continue /\ Len(todo) = 1
      /\ op.name = "allocate" /\ owned' = owned \cup {op.page}
      /\ freeList' = freeList /\ limbo' = limbo
  BY OwnedGrows
<1>2. pc' = "idle" /\ op' = NoOp /\ todo' = << >> /\ limbo' = {}
  BY <1>1 DEF Continue, CallsTidy, ListsSound
<1>3. acked'[0] = freeList
  BY <1>1, <1>2 DEF HeaderKept, ListKept, FreeListOnPage0, Repairable, LogAgrees
<1>4. Sound(freeList)'
  BY <1>1 DEF ListsSound, Sound, Lists, InFreeList
<1> QED BY <1>1, <1>2, <1>3, <1>4 DEF ListsSound, Sound, NoOp

LEMMA ListsSoundNext ==
  ASSUME OneTear, TypeOK, HeaderKept, CallsTidy, Repairable, ListsSound, [Next]_vars,
         TypeOK', HeaderKept', CallsTidy', Repairable'
  PROVE  ListsSound'
<1> USE DEF Persist, NoOp, ghosts, Running
<1>1. ASSUME NEW w \in env.modes, Open(w) PROVE ListsSound'
  BY <1>1 DEF Open, ListsSound, Sound, InFreeList
<1>2. CASE ReplayStep
  BY <1>2 DEF ReplayStep, ListsSound, Sound, InFreeList
<1>3. CASE ReplayDone
  BY <1>3 DEF ReplayDone, ListsSound, Sound, InFreeList
<1>4. CASE LoadHeader
  <2>1. Sound(file[0])
    BY <1>4, RecoveredListSound DEF LoadHeader
  <2>2. file[0] # Short
    BY <1>4, RecoveredNotTorn, HeaderIsList, PagerAssumption DEF LoadHeader
  <2> QED BY <1>4, <2>1, <2>2 DEF LoadHeader, ListsSound, Sound, CallsTidy
<1>5. CASE LoadFails
  BY <1>5 DEF LoadFails, ListsSound, Sound, InFreeList
<1>6. CASE CreateHeader
  <2>1. Sound(file[0])
    BY <1>6, RecoveredListSound DEF CreateHeader
  <2> QED BY <1>6, <2>1
          DEF CreateHeader, Begin, HeaderWrite, ListsSound, Sound, Lists
<1>7. CASE LogAppend
  BY <1>7 DEF LogAppend, ListsSound, Sound, InFreeList
<1>8. CASE DataWrite \/ Checkpoint
  <2>1. CASE owned' # owned
    <3>1. ~\E p \in DataPage : FreePage(p)
      BY <1>8 DEF FreePage, DataWrite, Checkpoint
    <3> QED BY <2>1, <3>1, AllocatedSound
  <2>2. CASE owned' = owned
    <3>1. /\ todo \in Seq(Write) /\ Len(todo) \in Nat \ {0} /\ todo[1].page \in PageNo
          /\ Len(Tail(todo)) = Len(todo) - 1
          /\ \A i \in 1 .. Len(Tail(todo)) : Tail(todo)[i] = todo[i + 1]
      BY <1>8, NextWrite DEF DataWrite, Checkpoint, TypeOK, VarsTyped
    <3>2. /\ freeList' = freeList /\ limbo' = limbo /\ limbo = {}
          /\ todo' \in {todo, Tail(todo)} /\ op' \in {op, NoOp}
      BY <1>8 DEF DataWrite, Checkpoint, Continue, ListsSound
    <3>3. acked'[0] = IF DataWrite /\ todo[1].page = 0 THEN todo[1].img ELSE acked[0]
      BY <1>8, <3>1, PagerAssumption DEF DataWrite, Checkpoint, TypeOK, VarsTyped, PageNo
    <3>4. Sound(acked[0])'
      <4>1. Sound(acked'[0])
        BY <3>1, <3>3 DEF ListsSound
      <4> QED BY <2>2, <4>1 DEF Sound
    <3>5. ASSUME NEW i \in 1 .. Len(todo'), todo'[i].page = 0 PROVE Sound(todo[i].img)'
      <4>1. \E j \in 1 .. Len(todo) : todo'[i] = todo[j]
        <5>1. CASE todo' = todo
          BY <5>1
        <5>2. CASE todo' = Tail(todo)
          <6>1. i + 1 \in 1 .. Len(todo) /\ todo'[i] = todo[i + 1]
            BY <3>1, <5>2
          <6> QED BY <6>1
        <5> QED BY <3>2, <5>1, <5>2
      <4>2. Sound(todo'[i].img)
        BY <3>5, <4>1 DEF ListsSound
      <4> QED BY <2>2, <4>2 DEF Sound
    <3>6. Sound(freeList)' /\ (op'.name = "allocate" => ~InFreeList(op.page)')
      BY <2>2, <3>2 DEF ListsSound, Sound, InFreeList
    <3> QED BY <3>2, <3>4, <3>5, <3>6 DEF ListsSound
  <2> QED BY <2>1, <2>2
<1>10. CASE AllocateReuse
  <2> DEFINE page == freeList[Len(freeList)]
             rest == SubSeq(freeList, 1, Len(freeList) - 1)
  <2>1. page \in DataPage /\ rest \in AnyList
    <3>1. freeList \in Header
      BY DEF TypeOK, HeadersTyped, Repairable
    <3> QED BY <1>10, <3>1, PopHeader, HeaderIsList DEF AllocateReuse
  <2>2. Sound(rest) /\ ~Lists(rest, page)
    BY <1>10, PoppedSound DEF TypeOK, VarsTyped, AllocateReuse, ListsSound
  <2>3. /\ todo' = <<[page |-> page, img |-> Empty], HeaderWrite(rest)>>
        /\ freeList' = rest /\ op'.page = page /\ owned' = owned
        /\ acked' = acked /\ limbo' = limbo
    BY <1>10 DEF AllocateReuse, Begin
  <2> HIDE DEF page, rest
  <2>4. ~InFreeList(op.page)'
    BY <2>1, <2>2, <2>3 DEF InFreeList, Lists
  <2>5. \A i \in 1 .. Len(todo') : todo'[i].page = 0 => todo'[i].img = rest
    BY <2>1, <2>3 DEF HeaderWrite, DataPage
  <2>6. limbo = {}
    BY <1>10 DEF AllocateReuse, ListsSound
  <2> QED BY SMTT(30), <2>2, <2>3, <2>4, <2>5, <2>6 DEF ListsSound, Sound
<1>11. CASE AllocateExtend
  <2>1. NumPages \in DataPage
    BY <1>11, NumPagesPositive DEF AllocateExtend, HeaderKept, ListKept, Repairable
  <2> QED BY <1>11, <2>1
          DEF AllocateExtend, Begin, DataPage, ListsSound, Sound, InFreeList
<1>12. ASSUME NEW p \in DataPage, FreePage(p) PROVE ListsSound'
  <2> DEFINE pushed == Append(freeList, p)
  <2>1. /\ \A q \in owned \ {p} : ~Lists(pushed, q)
        /\ \A i, j \in 1 .. Len(pushed) : pushed[i] = pushed[j] => i = j
    BY <1>12, PushedSound DEF FreePage, TypeOK, VarsTyped, ListsSound, InFreeList
  <2>2. /\ freeList' = pushed /\ todo' = <<HeaderWrite(pushed)>>
        /\ op'.name = "free" /\ acked' = acked /\ limbo' = limbo /\ limbo = {}
        /\ owned' = owned \ {p}
    BY <1>12 DEF FreePage, Begin, ListsSound
  <2> HIDE DEF pushed
  <2>3. Sound(freeList)'
    BY <2>1, <2>2 DEF Sound
  <2>4. Sound(acked[0])'
    BY <2>2 DEF ListsSound, Sound
  <2>5. \A i \in 1 .. Len(todo') : todo'[i].img = pushed
    BY <2>2 DEF HeaderWrite
  <2>6. \A i \in 1 .. Len(todo') : Sound(todo[i].img)'
    BY <2>1, <2>2, <2>5 DEF Sound
  <2> QED BY <2>2, <2>3, <2>4, <2>6 DEF ListsSound
<1>13. ASSUME NEW p \in DataPage, NEW img \in Images, WritePage(p, img)
       PROVE  ListsSound'
  BY <1>13 DEF WritePage, Begin, DataPage, ListsSound, Sound
<1>14. CASE Sync
  BY <1>14 DEF Sync, ListsSound, Sound, InFreeList
<1>15. CASE Close
  BY <1>15 DEF Close, Begin, HeaderWrite, ListsSound, Sound
<1>16. CASE Kill
  <2>1. \A w \in limbo' : w.page = 0 => Sound(w.img)
    BY <1>16, NextWrite DEF Kill, ListsSound
  <2>2. Sound(<< >>)
    BY DEF Sound, Lists
  <2> QED BY <1>16, <2>1, <2>2 DEF Kill, ListsSound, Sound
<1>17. CASE UNCHANGED vars
  BY <1>17 DEF vars, ListsSound, Sound, InFreeList
<1> QED
  BY <1>1, <1>2, <1>3, <1>4, <1>5, <1>6, <1>7, <1>8, <1>10, <1>11,
     <1>12, <1>13, <1>14, <1>15, <1>16, <1>17 DEF Next, Step, Call

(* All that the following theorems rest on.                                *)
PagerInv == TypeOK /\ HeaderKept /\ CallsTidy /\ Recoverable /\ Unshared

LEMMA SameEnv == [Next]_vars => env' = env
BY DEF Next, vars

LEMMA UnsharedNext == PagerInv /\ [Next]_vars /\ TypeOK' /\ HeaderKept' /\ CallsTidy'
                        /\ Recoverable' => Unshared'
<1> SUFFICES ASSUME PagerInv, [Next]_vars, TypeOK', HeaderKept', CallsTidy',
                    Recoverable', OneTear'
             PROVE  ListsSound'
  BY DEF Unshared
<1>1. OneTear
  BY SameEnv DEF OneTear
<1> QED BY <1>1, ListsSoundNext DEF PagerInv, Recoverable, Unshared

LEMMA PagerInvariant == Spec => []PagerInv
<1>1. PagerInv /\ [Next]_vars => PagerInv'
  BY TypeOKNext, HeaderKeptNext, CallsTidyNext, RecoverableNext, UnsharedNext
     DEF PagerInv
<1>2. Init => PagerInv
  BY TypeOKInit, HeaderKeptInit, CallsTidyInit, RepairableInit, UnsharedInit
     DEF PagerInv, Recoverable
<1> QED BY <1>1, <1>2, PTL DEF Spec

LEMMA SoundHandout == PagerInv => NoDoubleHandout
<1> SUFFICES ASSUME PagerInv, OneTear PROVE NoDoubleHandout
  BY DEF NoDoubleHandout
<1>1. TypeOK /\ Repairable /\ ListsSound
  BY DEF PagerInv, Recoverable, Unshared
<1>2. \A p \in owned : ~InFreeList(p)
  BY <1>1 DEF ListsSound, Sound, Lists, InFreeList, TypeOK, VarsTyped
<1>3. ASSUME pc = "header" PROVE \A p \in owned : ~Lists(file[0], p)
  BY <1>1, <1>3, RecoveredListSound DEF Sound
<1> QED BY <1>2, <1>3 DEF NoDoubleHandout

(* No page that a caller holds is on a free list that an allocation, an    *)
(* open or a recovery could read, wherever a kill comes (allocate_page,    *)
(* free_page, _load_header).                                               *)
THEOREM NoPageSharedTwice == Spec => []NoDoubleHandout
BY PagerInvariant, SoundHandout, PTL

-----------------------------------------------------------------------------
(* What a recovery would find.                                             *)

(* Every page with a readable record has a last one, and only one.         *)
LEMMA LastRecordIsLast ==
  ASSUME TypeOK, NEW p
  PROVE  /\ LastRecord(p) = {i \in 1 .. Len(log) : IsLast(i, p)}
         /\ \A i, j \in LastRecord(p) : i = j
         /\ \A i \in 1 .. Len(log) :
              Readable(i) /\ log[i].page = p => LastRecord(p) # {}
<1>1. Len(log) \in Nat
  BY DEF TypeOK, VarsTyped
<1>2. LastRecord(p) = {i \in 1 .. Len(log) : IsLast(i, p)}
  BY DEF LastRecord, IsLast
<1>3. ASSUME NEW i \in LastRecord(p), NEW j \in LastRecord(p) PROVE i = j
  <2>1. /\ i \in 1 .. Len(log) /\ IsLast(i, p)
        /\ j \in 1 .. Len(log) /\ IsLast(j, p)
    BY <1>2, <1>3
  <2>2. ~(i < j) /\ ~(j < i)
    BY <1>1, <2>1 DEF IsLast
  <2> QED BY <1>1, <2>1, <2>2
<1>4. ASSUME NEW i \in 1 .. Len(log), Readable(i), log[i].page = p
      PROVE  LastRecord(p) # {}
  <2> DEFINE T == {n \in 1 .. Len(log) : Readable(n) /\ log[n].page = p}
  <2>1. T \in SUBSET (1 .. Len(log)) /\ T # {}
    BY <1>4
  <2>2. PICK x \in T : \A y \in T : y <= x
    <3> HIDE DEF T
    <3> QED BY <1>1, <2>1, LargestNumber
  <2>3. \A j \in x + 1 .. Len(log) : Readable(j) => log[j].page # p
    BY <1>1, <2>2
  <2> QED BY <1>2, <2>2, <2>3 DEF IsLast
<1> QED BY <1>2, <1>3, <1>4

(* So View can be read off any last record.                                *)
ViewReads ==
  \A p \in PageNo :
    /\ \A i \in 1 .. Len(log) : IsLast(i, p) => View[p] = log[i].img
    /\ (\A i \in 1 .. Len(log) : ~IsLast(i, p)) => View[p] = file[p]
    /\ \A i \in 1 .. Len(log) :
         Readable(i) /\ log[i].page = p => \E j \in 1 .. Len(log) : IsLast(j, p)

LEMMA ViewOf == TypeOK => ViewReads
<1> SUFFICES ASSUME TypeOK, NEW p \in PageNo
             PROVE  /\ \A i \in 1 .. Len(log) : IsLast(i, p) => View[p] = log[i].img
                    /\ (\A i \in 1 .. Len(log) : ~IsLast(i, p)) => View[p] = file[p]
                    /\ \A i \in 1 .. Len(log) :
                         Readable(i) /\ log[i].page = p =>
                           \E j \in 1 .. Len(log) : IsLast(j, p)
  BY DEF ViewReads
<1>1. View[p] = IF LastRecord(p) = {} THEN file[p]
                ELSE log[CHOOSE i \in LastRecord(p) : TRUE].img
  BY DEF View
<1>2. ASSUME NEW i \in 1 .. Len(log), IsLast(i, p) PROVE View[p] = log[i].img
  <2>1. i \in LastRecord(p)
    BY <1>2, LastRecordIsLast
  <2>2. (CHOOSE n \in LastRecord(p) : TRUE) \in LastRecord(p)
    BY <2>1
  <2>3. (CHOOSE n \in LastRecord(p) : TRUE) = i
    BY <2>1, <2>2, LastRecordIsLast
  <2> QED BY <1>1, <2>1, <2>3
<1>3. ASSUME \A i \in 1 .. Len(log) : ~IsLast(i, p) PROVE View[p] = file[p]
  <2>1. LastRecord(p) = {}
    BY <1>3, LastRecordIsLast
  <2> QED BY <1>1, <2>1
<1> QED BY <1>2, <1>3, LastRecordIsLast

LEMMA ViewOfNext == TypeOK' => ViewReads'
BY ViewOf, PTL

LEMMA ViewIsFunction ==
  ASSUME NEW f, f = [p \in PageNo |-> f[p]], \A p \in PageNo : View'[p] = f[p]
  PROVE  View' = f
<1>1. View' = [p \in PageNo |-> View'[p]]
  BY DEF View
<1> QED BY <1>1

(* When the log may be truncated, every page is on file as a recovery      *)
(* would leave it.                                                         *)
Settled == pc \in {"idle", "checkpoint"} \/ (pc = "replay" /\ ~Readable(rpos))

LEMMA SettledFile ==
  ASSUME PagerInv, OneTear, Settled, NEW p \in PageNo,
         NEW i \in 1 .. Len(log), IsLast(i, p)
  PROVE  file[p] = log[i].img
<1>1. TypeOK /\ Repairable /\ CallsTidy
  BY DEF PagerInv, Recoverable
<1>2. CASE pc \in {"idle", "checkpoint"}
  BY <1>1, <1>2 DEF Repairable, LogAgrees, Logged, Running, Persist
<1>3. CASE pc = "replay" /\ ~Readable(rpos)
  <2>1. Readable(i) /\ log[i].page = p /\ Len(log) \in Nat /\ rpos \in Nat \ {0}
    BY <1>1 DEF IsLast, TypeOK, VarsTyped
  <2>2. i < rpos
    BY <1>3, <2>1 DEF Readable
  <2>3. \A j \in i + 1 .. Len(log) : j < rpos /\ Readable(j) => log[j].page # log[i].page
    BY <2>1 DEF IsLast
  <2> QED BY <1>1, <1>3, <2>1, <2>2, <2>3 DEF CallsTidy
<1> QED BY <1>2, <1>3 DEF Settled

LEMMA SettledView ==
  ASSUME PagerInv, OneTear, Settled, NEW p \in PageNo
  PROVE  View[p] = file[p]
<1>1. ViewReads
  BY ViewOf DEF PagerInv
<1> QED BY <1>1, SettledFile DEF ViewReads

(* The steps that truncate the log.                                        *)
LEMMA Truncations ==
  ASSUME [Next]_vars, log # << >>, log' = << >>, TypeOK
  PROVE  Settled /\ file' = file
<1> USE DEF ghosts
<1>1. CASE ReplayDone
  BY <1>1 DEF ReplayDone, Settled
<1>2. CASE Checkpoint
  BY <1>2 DEF Checkpoint, Settled
<1>3. CASE Sync
  BY <1>3 DEF Sync, Settled
<1>4. CASE LogAppend
  <2>1. log' # << >>
    BY <1>4, AppendProperties DEF LogAppend, TypeOK, VarsTyped
  <2> QED BY <2>1
<1>5. CASE Kill
  <2>1. TornAppend => log' # << >>
    BY <1>5, AppendProperties DEF TornAppend, TypeOK, VarsTyped
  <2> QED BY <1>5, <2>1 DEF Kill, TornWrite
<1>6. ASSUME log' = log PROVE FALSE
  BY <1>6
<1> QED
  BY <1>1, <1>2, <1>3, <1>4, <1>5, <1>6
     DEF Next, Step, Call, vars, Open, ReplayStep, LoadHeader, LoadFails, CreateHeader,
         DataWrite, AllocateReuse, AllocateExtend, FreePage, WritePage, Close

LEMMA TruncationNext ==
  ASSUME PagerInv, [Next]_vars, OneTear, log # << >>, log' = << >>,
         NEW i \in 1 .. Len(log), Readable(i),
         \A j \in i + 1 .. Len(log) : log[j].page # log[i].page
  PROVE  file'[log[i].page] = log[i].img
<1>1. log[i].page \in PageNo /\ IsLast(i, log[i].page)
  BY ReplayedRecord DEF PagerInv, IsLast
<1>2. Settled /\ file' = file
  BY Truncations DEF PagerInv
<1> QED BY <1>1, <1>2, SettledFile

(* Neither a checkpoint nor the end of a recovery drops a record that the  *)
(* data file does not make up for (_checkpoint, replay).                   *)
THEOREM TruncationSafe == Spec => TruncatesNothingNeeded
<1>1. PagerInv /\ [Next]_vars =>
        [OneTear /\ log # << >> /\ log' = << >> =>
           \A i \in 1 .. Len(log) :
             Readable(i) /\ (\A j \in i + 1 .. Len(log) : log[j].page # log[i].page)
               => file'[log[i].page] = log[i].img]_vars
  BY TruncationNext
<1> QED BY <1>1, PagerInvariant, PTL DEF Spec, TruncatesNothingNeeded

-----------------------------------------------------------------------------
(* The pager implements AtomicPages, step by step.                         *)

(* A recovery finds a page as before if it can read the same records, and  *)
(* the page is either as it was or in one of them.                         *)
LEMMA SameRecords ==
  ASSUME TypeOK, TypeOK',
         \A i : Readable(i)' <=> Readable(i),
         \A i : Readable(i) => log'[i] = log[i],
         NEW p \in PageNo,
         \/ file'[p] = file[p]
         \/ \E i \in 1 .. Len(log) : Readable(i) /\ log[i].page = p
  PROVE  View'[p] = View[p]
<1>0. ViewReads /\ ViewReads'
  BY ViewOf, ViewOfNext
<1>1. /\ \A i : Readable(i) => i \in 1 .. Len(log)
      /\ \A i : Readable(i)' => i \in 1 .. Len(log')
  BY DEF Readable
<1>2. CASE \E i \in 1 .. Len(log') : IsLast(i, p)'
  <2>1. PICK i \in 1 .. Len(log') : IsLast(i, p)'
    BY <1>2
  <2>2. Readable(i) /\ log'[i] = log[i] /\ log[i].page = p /\ i \in 1 .. Len(log)
    BY <1>1, <2>1 DEF IsLast
  <2>3. \A j \in i + 1 .. Len(log) : Readable(j) => log[j].page # p
    <3>1. SUFFICES ASSUME NEW j \in i + 1 .. Len(log), Readable(j) PROVE log[j].page # p
      OBVIOUS
    <3>2. j \in 1 .. Len(log') /\ Readable(j)' /\ log'[j] = log[j]
      BY <1>1, <3>1
    <3>3. j \in i + 1 .. Len(log')
      BY <2>1, <3>1, <3>2 DEF TypeOK, VarsTyped
    <3> QED BY <2>1, <3>2, <3>3 DEF IsLast
  <2>4. IsLast(i, p)
    BY <2>2, <2>3 DEF IsLast
  <2>5. View'[p] = log'[i].img /\ View[p] = log[i].img
    BY <1>0, <2>1, <2>2, <2>4 DEF ViewReads
  <2> QED BY <2>2, <2>5
<1>3. CASE ~\E i \in 1 .. Len(log') : IsLast(i, p)'
  <2>1. \A i \in 1 .. Len(log) : Readable(i) => log[i].page # p
    BY <1>0, <1>1, <1>3 DEF ViewReads
  <2>2. \A i \in 1 .. Len(log) : ~IsLast(i, p)
    BY <2>1 DEF IsLast
  <2>3. View'[p] = file'[p] /\ View[p] = file[p]
    BY <1>0, <1>3, <2>2 DEF ViewReads
  <2> QED BY <2>1, <2>3
<1> QED BY <1>2, <1>3

(* The write of a call in progress takes effect in View.                   *)
TakesEffect == View' = [View EXCEPT ![todo[1].page] = todo[1].img]

LEMMA TakesEffectIf ==
  ASSUME todo[1].page \in PageNo, View'[todo[1].page] = todo[1].img,
         \A p \in PageNo : p # todo[1].page => View'[p] = View[p]
  PROVE  TakesEffect
<1>1. View = [p \in PageNo |-> View[p]]
  BY DEF View
<1> DEFINE f == [View EXCEPT ![todo[1].page] = todo[1].img]
<1>2. /\ f = [p \in PageNo |-> f[p]]
      /\ \A p \in PageNo : f[p] = IF p = todo[1].page THEN todo[1].img ELSE View[p]
  BY <1>1
<1> HIDE DEF f
<1>3. View' = f
  BY <1>2, ViewIsFunction
<1> QED BY <1>3 DEF TakesEffect, f

LEMMA SameView ==
  ASSUME \A p \in PageNo : View'[p] = View[p]
  PROVE  View' = View
<1>1. View = [p \in PageNo |-> View[p]]
  BY DEF View
<1> QED BY <1>1, ViewIsFunction

LEMMA LogAppendView ==
  ASSUME PagerInv, PagerInv', OneTear, LogAppend
  PROVE  View' = View \/ TakesEffect
<1>1. TypeOK /\ TypeOK' /\ Repairable
  BY DEF PagerInv, Recoverable
<1>2. PICK r \in Record :
        /\ r.intact /\ r.page = todo[1].page /\ r.img = todo[1].img
        /\ r.page \in PageNo /\ log' = Append(log, r) /\ file' = file
  <2>1. [page |-> todo[1].page, img |-> todo[1].img, intact |-> TRUE] \in Record
    BY <1>1, NextWrite DEF LogAppend, Record, Persist
  <2> QED BY <1>1, <2>1, NextWrite DEF LogAppend, Persist
<1>3. Poisoned \/ AllIntact
  BY <1>1 DEF LogAppend, Repairable, LogShape, Running, Persist
<1>4. CASE Poisoned
  <2>1. \A i : ~Readable(i) /\ ~Readable(i)'
    BY <1>1, <1>2, <1>4, AppendPoisoned, PoisonedLog
  <2>2. \A p \in PageNo : View'[p] = View[p]
    BY <1>1, <1>2, <2>1, SameRecords
  <2> QED BY <2>2, SameView
<1>5. CASE AllIntact
  <2>0. ViewReads /\ ViewReads'
    BY <1>1, ViewOf, ViewOfNext
  <2>1. /\ AllIntact'
        /\ \A p \in PageNo, i \in 1 .. Len(log') : IsLast(i, p)' =>
             IF p = r.page THEN i = Len(log') /\ log'[i] = r
                           ELSE i \in 1 .. Len(log) /\ IsLast(i, p) /\ log'[i] = log[i]
        /\ log' # << >> /\ log'[Len(log')] = r
    BY <1>1, <1>2, <1>5, AppendIntact
  <2>2. /\ Len(log) \in Nat /\ Len(log') = Len(log) + 1
        /\ \A i \in 1 .. Len(log) : log'[i] = log[i]
    BY <1>1, <1>2, AppendProperties DEF TypeOK, VarsTyped
  <2>3. \A i : Readable(i)' <=> i \in 1 .. Len(log')
    BY <2>1, <2>2 DEF Readable, AllIntact
  <2>4. View'[r.page] = r.img
    <3>1. \E i \in 1 .. Len(log') : IsLast(i, r.page)'
      BY <1>2, <2>0, <2>1, <2>2, <2>3 DEF ViewReads
    <3>2. PICK i \in 1 .. Len(log') : IsLast(i, r.page)'
      BY <3>1
    <3>3. log'[i] = r /\ View'[r.page] = log'[i].img
      BY <1>2, <2>0, <2>1, <3>2 DEF ViewReads
    <3> QED BY <3>3
  <2>5. ASSUME NEW p \in PageNo, p # r.page PROVE View'[p] = View[p]
    <3>1. CASE \E i \in 1 .. Len(log') : IsLast(i, p)'
      <4>1. PICK i \in 1 .. Len(log') : IsLast(i, p)'
        BY <3>1
      <4>2. i \in 1 .. Len(log) /\ IsLast(i, p) /\ log'[i] = log[i]
        BY <2>1, <2>5, <4>1
      <4> QED BY <2>0, <4>1, <4>2 DEF ViewReads
    <3>2. CASE ~\E i \in 1 .. Len(log') : IsLast(i, p)'
      <4>1. \A i \in 1 .. Len(log) : ~IsLast(i, p)
        <5>1. SUFFICES ASSUME NEW i \in 1 .. Len(log), IsLast(i, p) PROVE FALSE
          OBVIOUS
        <5>2. i \in 1 .. Len(log') /\ Readable(i)' /\ log'[i].page = p
          BY <2>2, <2>3, <5>1 DEF IsLast
        <5> QED BY <2>0, <3>2, <5>2 DEF ViewReads
      <4> QED BY <1>2, <2>0, <3>2, <4>1 DEF ViewReads
    <3> QED BY <3>1, <3>2
  <2> QED BY <1>2, <2>4, <2>5, TakesEffectIf
<1> QED BY <1>3, <1>4, <1>5

LEMMA DataWriteView ==
  ASSUME PagerInv, PagerInv', OneTear, DataWrite
  PROVE  TakesEffect
<1>1. TypeOK /\ TypeOK' /\ Repairable
  BY DEF PagerInv, Recoverable
<1>2. PICK page \in PageNo :
        /\ page = todo[1].page /\ log' = log /\ file'[page] = todo[1].img
        /\ \A p \in PageNo : p # page => file'[p] = file[p]
  BY <1>1, NextWrite DEF DataWrite, Persist, TypeOK, VarsTyped
<1>3. ViewReads'
  BY <1>1, ViewOfNext
<1>4. View'[page] = todo[1].img
  <2>1. CASE \E i \in 1 .. Len(log') : IsLast(i, page)'
    <3>1. PICK i \in 1 .. Len(log') : IsLast(i, page)'
      BY <2>1
    <3>2. View'[page] = log[i].img
      BY <1>2, <1>3, <3>1 DEF ViewReads
    <3>3. i \in 1 .. Len(log) /\ IsLast(i, page)
      BY <1>2, <3>1, SameLog
    <3>4. log[i].img = todo[1].img
      BY <1>1, <1>2, <3>3 DEF DataWrite, Repairable, LogAgrees, Logged, Running, Persist
    <3> QED BY <3>2, <3>4
  <2>2. CASE ~\E i \in 1 .. Len(log') : IsLast(i, page)'
    BY <1>2, <1>3, <2>2 DEF ViewReads
  <2> QED BY <2>1, <2>2
<1>5. ASSUME NEW p \in PageNo, p # page PROVE View'[p] = View[p]
  BY <1>1, <1>2, <1>5, SameLog, SameRecords
<1> QED BY <1>2, <1>4, <1>5, TakesEffectIf

LEMMA ReplayStepView ==
  ASSUME PagerInv, PagerInv', ReplayStep
  PROVE  View' = View
<1>1. TypeOK /\ TypeOK'
  BY DEF PagerInv
<1>2. PICK page \in PageNo :
        /\ page = log[rpos].page /\ log' = log /\ rpos \in 1 .. Len(log) /\ Readable(rpos)
        /\ \A p \in PageNo : p # page => file'[p] = file[p]
  BY <1>1, ReplayedRecord DEF ReplayStep, TypeOK, VarsTyped, Readable
<1>3. ASSUME NEW p \in PageNo PROVE View'[p] = View[p]
  BY <1>1, <1>2, SameLog, SameRecords
<1> QED BY <1>3, SameView

LEMMA KillView ==
  ASSUME PagerInv, PagerInv', OneTear, Kill
  PROVE  View' = View
<1>1. TypeOK /\ TypeOK' /\ Repairable
  BY DEF PagerInv, Recoverable
<1>2. CASE TornAppend
  <2>1. PICK r \in Record : ~r.intact /\ log' = Append(log, r)
    <3>1. [page |-> todo[1].page, img |-> todo[1].img, intact |-> FALSE] \in Record
      BY <1>1, <1>2, NextWrite DEF TornAppend, Record, Persist
    <3> QED BY <1>2, <3>1 DEF TornAppend
  <2>2. /\ \A i : Readable(i)' <=> Readable(i)
        /\ \A i \in 1 .. Len(log) : log'[i] = log[i]
    BY <1>1, <2>1, AppendTorn, AppendProperties DEF TypeOK, VarsTyped
  <2>3. ASSUME NEW p \in PageNo PROVE View'[p] = View[p]
    BY <1>1, <1>2, <2>2, SameRecords DEF TornAppend, Readable
  <2> QED BY <2>3, SameView
<1>3. CASE TornWrite
  <2>1. log' = log
    BY <1>3 DEF TornWrite
  <2>2. ASSUME NEW p \in PageNo PROVE View'[p] = View[p]
    BY <1>1, <1>3, <2>1, TornPageLogged, SameLog, SameRecords
  <2> QED BY <2>2, SameView
<1>4. CASE UNCHANGED <<file, log>>
  BY <1>4 DEF View, LastRecord, Readable
<1> QED BY <1>2, <1>3, <1>4 DEF Kill

(* An empty log leaves the file to be read.                                *)
LEMMA TruncatedView ==
  ASSUME PagerInv, PagerInv', OneTear, Settled, log' = << >>, file' = file
  PROVE  View' = View /\ View = file
<1>1. ViewReads'
  BY ViewOfNext DEF PagerInv
<1>2. ASSUME NEW p \in PageNo PROVE View'[p] = View[p] /\ View[p] = file[p]
  <2>1. View'[p] = file'[p]
    BY <1>1, EmptyLog DEF ViewReads, IsLast
  <2> QED BY <2>1, SettledView
<1>3. file = [p \in PageNo |-> file[p]] /\ View = [p \in PageNo |-> View[p]]
  BY DEF PagerInv, TypeOK, VarsTyped, View
<1> QED BY <1>2, <1>3, SameView

(* The mapping of PagesAtomic.                                             *)
Store == IF OneTear THEN View ELSE [p \in PageNo |-> Absent]
Pending == IF OneTear /\ todo # << >> THEN {todo[1]} ELSE {}

HeadIsWrite == pc \in Persist => todo[1] \in Write /\ todo # << >>

LEMMA HeadWrite == TypeOK => HeadIsWrite
BY NextWrite DEF TypeOK, VarsTyped, HeadIsWrite

LEMMA HeadWriteNext == TypeOK' => HeadIsWrite'
BY HeadWrite, PTL

(* A call that begins, in a file whose pages stay as they are.             *)
LEMMA BeginsWrite ==
  ASSUME PagerInv, PagerInv', OneTear, OneTear', pc \notin Persist,
         NEW name, NEW page, NEW writes, Begin(name, page, writes),
         UNCHANGED <<file, log>>
  PROVE  Pages!Next
<1>1. todo = << >> /\ View' = View
  BY DEF PagerInv, CallsTidy, View, LastRecord, Readable
<1>2. pc' \in Persist
  BY DEF Begin, Persisting, Persist
<1>3. (todo[1] \in Write /\ todo # << >>)'
  BY <1>2, HeadWriteNext DEF PagerInv, HeadIsWrite
<1>4. (todo[1])' \in Pages!Write
  BY <1>3 DEF Write, Pages!Write
<1> QED BY <1>1, <1>3, <1>4 DEF Pages!Next, Pages!Begin

(* A page write that returns.                                              *)
LEMMA WriteReturns ==
  ASSUME PagerInv, PagerInv', OneTear, OneTear', pc \in Persist,
         TakesEffect, Continue
  PROVE  Pages!Next
<1>1. /\ todo # << >> /\ todo[1] \in Write /\ Len(todo) \in Nat \ {0}
      /\ todo' = Tail(todo) /\ todo' \in Seq(Write)
      /\ Len(todo) > 1 <=> todo' # << >>
  <2>1. TypeOK /\ TypeOK'
    BY DEF PagerInv
  <2>2. /\ todo # << >> /\ todo[1] \in Write /\ Len(todo) \in Nat \ {0}
        /\ Len(todo) > 1 => Tail(todo) # << >>
    BY <2>1, NextWrite DEF TypeOK, VarsTyped
  <2>3. ~(Len(todo) > 1) => Tail(todo) = << >>
    <3>1. Tail(todo) \in Seq(Write) /\ Len(Tail(todo)) = Len(todo) - 1
      BY <2>1, <2>2 DEF TypeOK, VarsTyped
    <3> QED BY <2>2, <3>1, EmptySeq
  <2> QED BY <2>1, <2>2, <2>3 DEF Continue, TypeOK, VarsTyped
<1>2. todo[1] \in Pending /\ Pending = {todo[1]} /\ Store = View /\ Store' = View'
  BY <1>1 DEF Pending, Store
<1>3. CASE todo' = << >>
  <2>1. Pending' = {}
    BY <1>3 DEF Pending
  <2> QED BY <1>2, <2>1
          DEF Pages!Next, Pages!Return, Pages!Stores, TakesEffect, Pending, Store
<1>4. CASE todo' # << >>
  <2>1. todo'[1] \in Write
    BY <1>1, <1>4
  <2>2. Pending' = {todo'[1]} /\ todo'[1] \in Pages!Write
    BY <1>4, <2>1 DEF Pending, Write, Pages!Write
  <2> QED BY <1>2, <2>2
          DEF Pages!Next, Pages!Return, Pages!Stores, TakesEffect, Pending, Store
<1> QED BY <1>3, <1>4

(* One that takes effect and has still to return.                          *)
LEMMA WriteEffect ==
  ASSUME PagerInv, OneTear, OneTear', pc \in Persist, TakesEffect, todo' = todo
  PROVE  Pages!Next
<1>1. todo # << >> /\ todo[1] \in Write
  BY HeadWrite DEF PagerInv, HeadIsWrite
<1>2. todo[1] \in Pages!Write
  BY <1>1 DEF Write, Pages!Write
<1> QED BY <1>1, <1>2 DEF Pages!Next, Pages!Effect, Pages!Stores, TakesEffect

LEMMA PagesStepLogged ==
  ASSUME PagerInv, PagerInv', OneTear, OneTear', [Next]_vars
  PROVE  Pages!Next \/ UNCHANGED <<Store, Pending>>
<1> USE DEF Persist, ghosts
<1>0. TypeOK /\ Repairable /\ CallsTidy /\ HeaderKept
  BY DEF PagerInv, Recoverable
<1>s. ASSUME View' = View, todo' = todo PROVE UNCHANGED <<Store, Pending>>
  BY <1>s DEF Store, Pending
<1>v. ASSUME UNCHANGED <<file, log>> PROVE View' = View
  BY <1>v DEF View, LastRecord, Readable
<1>1. ASSUME NEW w \in env.modes, Open(w) PROVE UNCHANGED <<Store, Pending>>
  BY <1>1, <1>s, <1>v DEF Open
<1>2. CASE ReplayStep
  BY <1>2, <1>s, ReplayStepView DEF ReplayStep
<1>3. CASE ReplayDone
  <2>1. CASE log' = log
    BY <1>3, <2>1, <1>s, <1>v DEF ReplayDone
  <2>2. CASE log' = << >>
    BY <1>3, <2>2, <1>s, TruncatedView DEF ReplayDone, Settled
  <2> QED BY <1>3, <2>1, <2>2 DEF ReplayDone
<1>4. CASE LoadHeader
  BY <1>4, <1>s, <1>v DEF LoadHeader
<1>5. CASE LoadFails
  BY <1>5, <1>s, <1>v DEF LoadFails
<1>6. CASE CreateHeader
  BY <1>6, BeginsWrite DEF CreateHeader
<1>7. CASE LogAppend
  <2>1. todo' = todo /\ pc \in Persist
    BY <1>7 DEF LogAppend
  <2> QED BY <1>7, <2>1, <1>s, LogAppendView, WriteEffect
<1>8. CASE DataWrite
  <2>1. TakesEffect /\ pc \in Persist
    BY <1>8, DataWriteView DEF DataWrite
  <2>2. todo' = todo \/ Continue
    BY <1>8 DEF DataWrite
  <2> QED BY <2>1, <2>2, WriteEffect, WriteReturns
<1>9. CASE Checkpoint
  <2>1. View' = View /\ View = file
    BY <1>9, TruncatedView DEF Checkpoint, Settled
  <2>2. file[todo[1].page] = todo[1].img /\ todo[1].page \in PageNo
    BY <1>0, <1>9, NextWrite DEF Checkpoint, CallsTidy
  <2>3. TakesEffect
    BY <2>1, <2>2, TakesEffectIf
  <2> QED BY <1>9, <2>3, WriteReturns DEF Checkpoint
<1>10. CASE AllocateReuse
  BY <1>10, BeginsWrite DEF AllocateReuse
<1>11. CASE AllocateExtend
  BY <1>11, BeginsWrite DEF AllocateExtend
<1>12. ASSUME NEW p \in DataPage, FreePage(p) PROVE Pages!Next
  BY <1>12, BeginsWrite DEF FreePage
<1>13. ASSUME NEW p \in DataPage, NEW img \in Images, WritePage(p, img)
       PROVE  Pages!Next
  BY <1>13, BeginsWrite DEF WritePage
<1>14. CASE Sync
  <2>1. log' = << >> /\ file' = file /\ todo' = todo
    BY <1>0, <1>14 DEF Sync, Repairable
  <2> QED BY <1>14, <2>1, <1>s, TruncatedView DEF Sync, Settled
<1>15. CASE Close
  BY <1>15, BeginsWrite DEF Close
<1>16. CASE Kill
  <2>1. View' = View /\ todo' = << >>
    BY <1>16, KillView DEF Kill
  <2>2. Store' = Store /\ Pending' = {}
    BY <2>1 DEF Store, Pending
  <2> QED BY <2>2 DEF Pages!Next, Pages!Killed, Store, Pending
<1>17. CASE UNCHANGED vars
  BY <1>17, <1>s, <1>v DEF vars
<1> QED
  BY <1>1, <1>2, <1>3, <1>4, <1>5, <1>6, <1>7, <1>8, <1>9, <1>10, <1>11,
     <1>12, <1>13, <1>14, <1>15, <1>16, <1>17 DEF Next, Step, Call

(* In an environment of which the mapping says nothing, nothing moves.     *)
LEMMA PagesStep ==
  PagerInv /\ PagerInv' /\ [Next]_vars
    => Pages!Next \/ UNCHANGED <<Store, Pending>>
<1> SUFFICES ASSUME PagerInv, PagerInv', [Next]_vars
             PROVE  Pages!Next \/ UNCHANGED <<Store, Pending>>
  OBVIOUS
<1>1. OneTear' <=> OneTear
  BY SameEnv DEF OneTear
<1>2. CASE OneTear
  BY <1>1, <1>2, PagesStepLogged
<1>3. CASE ~OneTear
  BY <1>1, <1>3 DEF Store, Pending
<1> QED BY <1>2, <1>3

(* With its log, and unless a page is torn behind a torn record, the pager *)
(* gives its callers page writes that are atomic and durable: every step,  *)
(* a kill at any point, replay and the checkpoints included, is a step of  *)
(* AtomicPages or changes no page (_persist_page, _checkpoint, replay).    *)
THEOREM ImplementsAtomicPages == Spec => PagesAtomic
<1>1. Init => Pages!Initially
  BY DEF Init, Pages!Initially
<1>2. PagerInv /\ PagerInv' /\ [Next]_vars
        => [Pages!Next]_<<IF OneTear THEN View ELSE [p \in PageNo |-> Absent],
                          IF OneTear /\ todo # << >> THEN {todo[1]} ELSE {}>>
  BY PagesStep DEF Store, Pending
<1> QED BY <1>1, <1>2, PagerInvariant, PTL DEF Spec, PagesAtomic, Pages!Spec
=============================================================================
