----------------------------- MODULE HashIndex -----------------------------
(***************************************************************************)
(* The hash index: queryx/index/hash_index.py.  A fixed number of bucket   *)
(* pages, each the head of a chain of overflow pages.                      *)
(*                                                                         *)
(* An insert or a delete is one step, as nothing runs beside it.  Its      *)
(* pages are in the buffer pool then and reach the file one by one, so a   *)
(* kill before the next flush leaves pages of different times.             *)
(***************************************************************************)
EXTENDS Integers, SequencesExt

CONSTANTS
  Key,
  RowId,
  Hash,         (* key -> its 32-bit multiplicative hash                   *)
  NumBuckets,   (* the buckets the index is created with                   *)
  OtherBuckets, (* the num_buckets argument when it is opened again        *)
  Capacity,     (* entries a page holds                                    *)
  EmptyLink,    (* 4096: the link that the bytes of Page.empty() read as   *)
  MaxPage,      (* the last page of the instance (a bound)                 *)
  MaxEntries,   (* entries of the instance (a bound)                       *)
  MaxHurt       (* and once a kill has met a growing bucket (a bound)      *)

FirstBucket == 2

ASSUME HashAssumption ==
  /\ Hash \in [Key -> Nat]
  /\ NumBuckets \in Nat \ {0} /\ OtherBuckets \in Nat \ {0}
  /\ Capacity \in Nat \ {0}
  /\ MaxEntries \in Nat /\ MaxHurt \in Nat
  /\ MaxPage \in Nat /\ MaxPage >= FirstBucket + NumBuckets - 1
  /\ EmptyLink \in Nat

(* The instance's files are shorter than 4096 pages: an EmptyLink leads    *)
(* nowhere.  In a longer file it leads to a page, which may be behind,     *)
(* before or in the page's own chain, and nothing below is meant for that. *)
ShortFile == MaxPage < EmptyLink

VARIABLES
  pages,         (* page number -> bucket page, for the pages allocated    *)
  cand,          (* page number -> what the file may hold after a kill     *)
  num_buckets,   (* HashIndex._num_buckets                                 *)
  meta,          (* the number of buckets in the meta page                 *)
  answer,        (* the last delete: its entry and what it returned        *)
  touched,       (* ghost: entries put or removed since the last flush     *)
  grown,         (* ghost: buckets that got a page since the last flush    *)
  hurt           (* ghost: buckets that were growing when a kill came      *)

vars == <<pages, cand, num_buckets, meta, answer, touched, grown, hurt>>

Bucket(entries, next) == [entries |-> entries, next_overflow |-> next]

(* A page that was allocated and never stored: its slot count of 0 reads   *)
(* as no entries, its boundary of 4096 as a link.                          *)
Unwritten == Bucket(<< >>, EmptyLink)

(* The file with page p added or replaced.                                 *)
WithPage(file, p, page) ==
  [q \in DOMAIN file \cup {p} |-> IF q = p THEN page ELSE file[q]]

Heads == FirstBucket .. FirstBucket + meta - 1

(* A new index.  Its bucket pages are not in the file yet; its meta page   *)
(* is, as without it the file cannot be opened again.                      *)
Init ==
  /\ pages = [p \in FirstBucket .. FirstBucket + NumBuckets - 1 |-> Bucket(<< >>, 0)]
  /\ cand = [p \in DOMAIN pages |-> {Unwritten, pages[p]}]
  /\ num_buckets = NumBuckets /\ meta = NumBuckets
  /\ answer = << >>
  /\ touched = {} /\ grown = Heads /\ hurt = {}

BucketHead(key) == FirstBucket + (Hash[key] % num_buckets)

(* The pages of a chain, from a page on; a link to a page that does not    *)
(* exist raises, and ends what can be read of it.                          *)
ChainFrom(page) ==
  LET chain[p \in DOMAIN pages] ==
        <<p>> \o IF pages[p].next_overflow \notin DOMAIN pages THEN << >>
                 ELSE chain[pages[p].next_overflow]
  IN  chain[page]
Chain(key) == ChainFrom(BucketHead(key))
Broken(chain) == pages[Last(chain)].next_overflow # 0

(* The entries of a key, in the order they are read in.                    *)
Matching(entries, key) ==
  LET upTo[i \in 0 .. Len(entries)] ==
        IF i = 0 THEN << >>
        ELSE IF entries[i][1] = key THEN Append(upTo[i - 1], entries[i]) ELSE upTo[i - 1]
  IN  upTo[Len(entries)]

(* Mutant: a search ends at a page that deletes have emptied.              *)
SearchStopsAtEmpty(key) ==
  LET chain == Chain(key)
      emptied == {i \in DOMAIN chain : pages[chain[i]].entries = << >>}
      read == IF emptied = {} THEN chain ELSE SubSeq(chain, 1, Min(emptied))
  IN  Matching(FlattenSeq([i \in DOMAIN read |-> pages[read[i]].entries]), key)

(* The entries of a key, along its bucket's whole chain.                   *)
Search(key) ==
  LET chain == Chain(key)
  IN  Matching(FlattenSeq([i \in DOMAIN chain |-> pages[chain[i]].entries]), key)

(* The entries of the index, as a bag: those of the buckets' chains.       *)
Places ==
  UNION {{p} \X DOMAIN pages[p].entries : p \in UNION {ToSet(ChainFrom(h)) : h \in Heads}}
EntryAt(place) == pages[place[1]].entries[place[2]]
Entries ==
  LET places == Places
  IN  [entry \in {EntryAt(at) : at \in places} |->
         Cardinality({at \in places : EntryAt(at) = entry})]

-----------------------------------------------------------------------------
(* A call is one row of a statement.  The instance flushes after each that *)
(* changes anything (a bound): touched is empty when one begins.           *)
Touch(key, rowid) == touched = {} /\ touched' = {<<key, rowid>>}

Fits == Cardinality(Places) < IF hurt = {} THEN MaxEntries ELSE MaxHurt

(* _write_bucket_page for each page that changed.  A new page is in the    *)
(* file at once, empty.                                                    *)
Store(file) ==
  /\ pages' = file
  /\ cand' = [p \in DOMAIN file |->
       (IF p \in DOMAIN cand THEN cand[p] ELSE {Unwritten}) \cup {file[p]}]

(* Mutant: a page takes one entry too many.                                *)
HasRoomLate(p) == Len(pages[p].entries) <= Capacity

HasRoom(p) == Len(pages[p].entries) < Capacity

(* The first page of the chain with room takes the entry.                  *)
InsertInPage(key, rowid) ==
  /\ Touch(key, rowid)
  /\ Fits
  /\ LET chain == Chain(key)
         open == {i \in DOMAIN chain : HasRoom(chain[i])}
     IN  /\ open # {}
         /\ Store([pages EXCEPT ![chain[Min(open)]].entries = Append(@, <<key, rowid>>)])
  /\ answer' = << >>
  /\ UNCHANGED <<num_buckets, meta, grown, hurt>>

(* Mutant: the new page is linked from the head of the chain.              *)
InsertInOverflowAtHead(key, rowid) ==
  /\ Touch(key, rowid) /\ FirstBucket + Cardinality(DOMAIN pages) <= MaxPage
  /\ LET chain == Chain(key)
         overflow == FirstBucket + Cardinality(DOMAIN pages)
     IN  /\ \A i \in DOMAIN chain : ~HasRoom(chain[i])
         /\ Store(WithPage([pages EXCEPT ![chain[1]].next_overflow = overflow],
                           overflow, Bucket(<<<<key, rowid>>>>, 0)))
         /\ grown' = grown \cup {chain[1]}
  /\ answer' = << >> /\ UNCHANGED <<num_buckets, meta, hurt>>

(* A new page behind the last of a chain without room takes the entry.     *)
InsertInOverflow(key, rowid) ==
  /\ Touch(key, rowid)
  /\ Fits /\ FirstBucket + Cardinality(DOMAIN pages) <= MaxPage
  /\ LET chain == Chain(key)
         overflow == FirstBucket + Cardinality(DOMAIN pages)
     IN  /\ \A i \in DOMAIN chain : ~HasRoom(chain[i])
         /\ ~Broken(chain)
         /\ Store(WithPage([pages EXCEPT ![Last(chain)].next_overflow = overflow],
                           overflow, Bucket(<<<<key, rowid>>>>, 0)))
         /\ grown' = grown \cup {chain[1]}
  /\ answer' = << >>
  /\ UNCHANGED <<num_buckets, meta, hurt>>

(* Mutant: writing the page back drops its link.                           *)
DeleteDropsLink(key, rowid) ==
  /\ Touch(key, rowid)
  /\ \E i \in DOMAIN Chain(key), n \in 1 .. Capacity :
       /\ n \in DOMAIN pages[Chain(key)[i]].entries
       /\ pages[Chain(key)[i]].entries[n] = <<key, rowid>>
       /\ Store([pages EXCEPT ![Chain(key)[i]] = Bucket(RemoveAt(@.entries, n), 0)])
  /\ answer' = <<key, rowid, TRUE>> /\ UNCHANGED <<num_buckets, meta, grown, hurt>>

(* The first such entry of the chain goes; its page stays in the chain.    *)
(* Without one the walk ends at the end of the chain, or raises.           *)
Delete(key, rowid) ==
  /\ LET chain == Chain(key)
         holders == {i \in DOMAIN chain :
                       Contains(pages[chain[i]].entries, <<key, rowid>>)}
     IN  \/ /\ holders # {}
            /\ Store([pages EXCEPT ![chain[Min(holders)]].entries =
                        RemoveFirst(@, <<key, rowid>>)])
            /\ Touch(key, rowid) /\ answer' = <<key, rowid, TRUE>>
         \/ /\ holders = {} /\ ~Broken(chain)
            /\ answer' = <<key, rowid, FALSE>>
            /\ UNCHANGED <<pages, cand, touched>>
  /\ UNCHANGED <<num_buckets, meta, grown, hurt>>

(* Mutant: a page that was never in the file is not written.               *)
FlushSkipsNew ==
  /\ cand' = [p \in DOMAIN pages |-> IF Unwritten \in cand[p] THEN cand[p] ELSE {pages[p]}]
  /\ touched' = {} /\ grown' = {} /\ answer' = << >>
  /\ UNCHANGED <<pages, num_buckets, meta, hurt>>

(* flush, at the end of a statement or before the index is closed.         *)
Flush ==
  /\ cand' = [p \in DOMAIN pages |-> {pages[p]}]
  /\ touched' = {} /\ grown' = {}
  /\ answer' = << >>
  /\ UNCHANGED <<pages, num_buckets, meta, hurt>>

(* What the file may be after a kill: one candidate of each page.          *)
Mixes ==
  LET last == FirstBucket + Cardinality(DOMAIN pages) - 1
      upTo[p \in FirstBucket - 1 .. last] ==
        IF p < FirstBucket THEN {<< >>}
        ELSE {WithPage(file, p, page) : file \in upTo[p - 1], page \in cand[p]}
  IN  upTo[last]

(* Mutant: the number of buckets is taken from the argument.               *)
ReopenTakesArgument ==
  /\ \E file \in Mixes : pages' = file /\ cand' = [p \in DOMAIN file |-> {file[p]}]
  /\ num_buckets' = OtherBuckets
  /\ hurt' = hurt \cup grown /\ touched' = {} /\ grown' = {} /\ answer' = << >> /\ UNCHANGED meta

(* A kill, or close after a flush, and the next open: each page is as it   *)
(* was flushed or stored since, and the number of buckets is that of the   *)
(* meta page, whatever the argument says.                                  *)
Reopen ==
  /\ \E file \in Mixes : pages' = file /\ cand' = [p \in DOMAIN file |-> {file[p]}]
  /\ num_buckets' = meta
  /\ hurt' = hurt \cup grown /\ touched' = {} /\ grown' = {}
  /\ answer' = << >>
  /\ UNCHANGED meta

Next ==
  \/ \E key \in Key, rowid \in RowId :
       InsertInPage(key, rowid) \/ InsertInOverflow(key, rowid) \/ Delete(key, rowid)
  \/ Flush
  \/ Reopen

Spec == Init /\ [][Next]_vars

-----------------------------------------------------------------------------
(* Types: no page holds more than its capacity, and links lead forward to  *)
(* overflow pages.                                                         *)
TypeOK ==
  /\ DOMAIN pages = FirstBucket .. FirstBucket + Cardinality(DOMAIN pages) - 1
  /\ \A p \in DOMAIN pages :
       /\ pages[p] \in cand[p]
       /\ \A version \in cand[p] :
            /\ version.entries \in Seq(Key \X RowId) /\ Len(version.entries) <= Capacity
            /\ version.next_overflow \in {0, EmptyLink} \cup (DOMAIN pages \ (Heads \cup 1 .. p))
  /\ num_buckets = meta /\ Heads \subseteq DOMAIN pages
  /\ answer = << >> \/ answer \in Key \X RowId \X BOOLEAN

(* No page is in two chains, or twice in one, and a chain holds entries of *)
(* its bucket only, kills or not; no page is lost but to a kill while a    *)
(* chain was growing.                                                      *)
ChainsApart ==
  /\ \A p, q \in DOMAIN pages :
       p # q /\ pages[p].next_overflow = pages[q].next_overflow =>
         pages[p].next_overflow \in {0, EmptyLink}
  /\ hurt = {} => DOMAIN pages = UNION {ToSet(ChainFrom(h)) : h \in Heads}
  /\ \A h \in Heads : \A p \in ToSet(ChainFrom(h)) :
       \A entry \in ToSet(pages[p].entries) : BucketHead(entry[1]) = h

(* A search returns all of its key's entries, however many were deleted    *)
(* from the pages before them in the chain (hash_index.py, 147 to 157), or *)
(* raises.                                                                 *)
SearchFindsAll ==
  LET all == Entries
  IN  \A key \in Key : ~Broken(Chain(key)) =>
        ToBag(Search(key)) = [e \in {d \in BagToSet(all) : d[1] = key} |-> all[e]]

(* It raises only in a bucket that was getting a page when a kill came.    *)
(* The other buckets, and an index that no kill met while it grew, are     *)
(* readable for good.                                                      *)
BreaksOnlyGrowing == \A h \in Heads : Broken(ChainFrom(h)) => h \in hurt

(* The hash index is an index, and a complete one: entries come and go one *)
(* by one, every delete of an entry finds it, and a kill takes no entry    *)
(* but those touched since the last flush.                                 *)
Index == INSTANCE KeyIndex WITH entries <- Entries, complete <- TRUE, sound <- TRUE
KeepsEntries == Index!Spec
=============================================================================
