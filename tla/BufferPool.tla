----------------------------- MODULE BufferPool -----------------------------
(***************************************************************************)
(* The buffer pool of one file: queryx/storage/buffer_pool.py.             *)
(*                                                                         *)
(* Below it, the pager is what AtomicPages says: a page write either       *)
(* happens or not, and what is written survives a kill.  Above it, the     *)
(* callers keep the pool's contract: they change only the page the last    *)
(* call returned (buffer_pool.py, lines 22 to 28), and mark it dirty when  *)
(* they do.  Pages are allocated by extending the file: no caller of the   *)
(* pool frees one.                                                         *)
(***************************************************************************)
EXTENDS Integers, Sequences, FiniteSets

CONSTANTS
  MaxPage,    (* the last page of the instance (a bound)                   *)
  Images,     (* what callers store in a page                              *)
  Empty,      (* Page.empty()                                              *)
  Absent,     (* the page is past the end of the file                      *)
  NoCopy,     (* the page is not in the cache                              *)
  Nothing,    (* the caller holds no page                                  *)
  Capacity,   (* pages the pool keeps                                      *)
  IOErrors    (* the pager's writes may raise, and the process goes on     *)

Page == 1 .. MaxPage
Value == Images \cup {Empty}

ASSUME PoolAssumption ==
  /\ MaxPage \in Nat
  /\ Capacity \in Nat \ {0}
  /\ IOErrors \in BOOLEAN
  /\ Absent \notin Value /\ NoCopy \notin Value
  /\ Nothing \notin Page

VARIABLES
  disk,      (* page -> what the pager would read                          *)
  lru,       (* BufferPool._cache: page numbers, least recently used first *)
  copy,      (* the cached pages' contents                                 *)
  dirty,     (* BufferPool._dirty                                          *)
  held,      (* the page the last call returned to the caller              *)
  flushing,  (* pages flush_all has still to write                         *)
  busy,      (* flush_all is under way                                     *)
  cand,      (* ghost: images a page may have after a kill                 *)
  since      (* ghost: requested page -> the others requested after it     *)

vars == <<disk, lru, copy, dirty, held, flushing, busy, cand, since>>

Cached == {lru[i] : i \in 1 .. Len(lru)}
View == [p \in Page |-> IF p \in Cached THEN copy[p] ELSE disk[p]]

Init ==
  /\ disk = [p \in Page |-> Absent]
  /\ lru = << >>
  /\ copy = [p \in Page |-> NoCopy]
  /\ dirty = {}
  /\ held = Nothing
  /\ flushing = {} /\ busy = FALSE
  /\ cand = [p \in Page |-> {Absent}]
  /\ since = << >>

Requested(p) ==
  [q \in DOMAIN since \cup {p} |-> IF q = p THEN {} ELSE since[q] \cup {p}]

(* OrderedDict.move_to_end of the entry at position i.                     *)
MoveToEnd(s, i) ==
  [j \in 1 .. Len(s) |-> IF j < i THEN s[j]
                         ELSE IF j < Len(s) THEN s[j + 1] ELSE s[i]]

(* Mutant: a hit does not count as a use.                                  *)
GetHitKeepsOrder(p) ==
  /\ ~busy /\ p \in Cached
  /\ held' = p /\ since' = Requested(p)
  /\ UNCHANGED <<disk, lru, copy, dirty, flushing, busy, cand>>

(* get_page of a cached page.                                              *)
GetHit(p) ==
  /\ ~busy
  /\ \E i \in 1 .. Len(lru) : lru[i] = p /\ lru' = MoveToEnd(lru, i)
  /\ held' = p
  /\ since' = Requested(p)
  /\ UNCHANGED <<disk, copy, dirty, flushing, busy, cand>>

Full == Len(lru) >= Capacity

(* Mutant: the victim is dropped without being written.                    *)
AdmitDropsDirty(p, v, file) ==
  /\ held' = p /\ since' = Requested(p)
  /\ lru' = Append(IF Full THEN Tail(lru) ELSE lru, p)
  /\ copy' = [q \in Page |-> IF q = p THEN v
                             ELSE IF Full /\ q = lru[1] THEN NoCopy ELSE copy[q]]
  /\ disk' = file /\ dirty' = dirty \ (IF Full THEN {lru[1]} ELSE {})
  /\ UNCHANGED <<flushing, busy>>

(* _admit, the pager holding the pages of file: the page at the front of   *)
(* the cache makes room, and is written first if it is dirty.              *)
Admit(p, v, file) ==
  /\ held' = p
  /\ since' = Requested(p)
  /\ lru' = Append(IF Full THEN Tail(lru) ELSE lru, p)
  /\ copy' = [q \in Page |-> IF q = p THEN v
                             ELSE IF Full /\ q = lru[1] THEN NoCopy ELSE copy[q]]
  /\ IF Full /\ lru[1] \in dirty
       THEN /\ disk' = [file EXCEPT ![lru[1]] = copy[lru[1]]]
            /\ dirty' = dirty \ {lru[1]}
       ELSE disk' = file /\ UNCHANGED dirty
  /\ UNCHANGED <<flushing, busy>>

(* The victim has left the cache when its write raises; the call returns   *)
(* no page.                                                                *)
AdmitFails(p, file) ==
  /\ IOErrors
  /\ Full /\ lru[1] \in dirty
  /\ lru' = Tail(lru)
  /\ copy' = [copy EXCEPT ![lru[1]] = NoCopy]
  /\ disk' = file
  /\ held' = Nothing
  /\ since' = [q \in DOMAIN since |-> since[q] \cup ({p} \ {q})]
  /\ UNCHANGED <<dirty, flushing, busy>>

GetMiss(p) ==
  /\ ~busy
  /\ p \notin Cached /\ disk[p] # Absent
  /\ Admit(p, disk[p], disk) \/ AdmitFails(p, disk)
  /\ UNCHANGED cand

(* allocate_page extends the file by an empty page before it is admitted.  *)
NewPage ==
  /\ ~busy
  /\ \E p \in Page :
       /\ disk[p] = Absent /\ \A q \in 1 .. p - 1 : disk[q] # Absent
       /\ LET file == [disk EXCEPT ![p] = Empty]
          IN  Admit(p, Empty, file) \/ AdmitFails(p, file)
       /\ cand' = [cand EXCEPT ![p] = {Empty}]

(* The caller changes the page it holds and calls mark_dirty.              *)
Modify(v) ==
  /\ ~busy
  /\ held # Nothing
  /\ copy' = [copy EXCEPT ![held] = v]
  /\ dirty' = dirty \cup {held}
  /\ cand' = [cand EXCEPT ![held] = @ \cup {v}]
  /\ UNCHANGED <<disk, lru, held, flushing, busy, since>>

FlushPage(p) ==
  /\ ~busy
  /\ p \in dirty \cap Cached
  /\ disk' = [disk EXCEPT ![p] = copy[p]]
  /\ dirty' = dirty \ {p}
  /\ cand' = [cand EXCEPT ![p] = {copy[p]}]
  /\ UNCHANGED <<lru, copy, held, flushing, busy, since>>

-----------------------------------------------------------------------------
(* flush_all, one page at a time: a kill can come between two pages.       *)

FlushAll ==
  /\ ~busy
  /\ busy' = TRUE
  /\ flushing' = dirty
  /\ UNCHANGED <<disk, lru, copy, dirty, held, cand, since>>

FlushOne(p) ==
  /\ busy
  /\ p \in flushing \cap Cached
  /\ disk' = [disk EXCEPT ![p] = copy[p]]
  /\ flushing' = flushing \ {p}
  /\ UNCHANGED <<lru, copy, dirty, held, busy, cand, since>>

(* Mutant: the marks are cleared although a write raised.                  *)
FlushRaisesClears ==
  /\ busy /\ flushing # {} /\ (IOErrors \/ ~(flushing \subseteq Cached))
  /\ busy' = FALSE /\ flushing' = {} /\ dirty' = {}
  /\ UNCHANGED <<disk, lru, copy, held, cand, since>>

(* A write raises, or a dirty page is not in the cache (KeyError).         *)
FlushRaises ==
  /\ busy
  /\ flushing # {}
  /\ IOErrors \/ ~(flushing \subseteq Cached)
  /\ busy' = FALSE
  /\ flushing' = {}
  /\ UNCHANGED <<disk, lru, copy, dirty, held, cand, since>>

FlushDone ==
  /\ busy
  /\ flushing = {}
  /\ busy' = FALSE
  /\ dirty' = {}
  /\ cand' = [p \in Page |-> {View[p]}]
  /\ UNCHANGED <<disk, lru, copy, held, flushing, since>>

(* The process is killed and the file opened again, with a new pool.       *)
Kill ==
  /\ lru' = << >>
  /\ copy' = [p \in Page |-> NoCopy]
  /\ dirty' = {}
  /\ held' = Nothing
  /\ flushing' = {} /\ busy' = FALSE
  /\ cand' = [p \in Page |-> {disk[p]}]
  /\ since' = << >>
  /\ UNCHANGED disk

Next ==
  \/ \E p \in Page : GetHit(p) \/ GetMiss(p) \/ FlushPage(p) \/ FlushOne(p)
  \/ NewPage \/ FlushAll \/ FlushRaises \/ FlushDone \/ Kill
  \/ \E v \in Images : Modify(v)

Spec == Init /\ [][Next]_vars

-----------------------------------------------------------------------------
(* Types: the cache never outgrows the capacity and holds no page twice,   *)
(* and its contents are those of pages the file has.                       *)
TypeOK ==
  /\ disk \in [Page -> Value \cup {Absent}]
  /\ lru \in Seq(Page) /\ Len(lru) <= Capacity
  /\ \A i, j \in 1 .. Len(lru) : lru[i] = lru[j] => i = j
  /\ copy \in [Page -> Value \cup {NoCopy}]
  /\ \A p \in Page : IF p \in Cached THEN copy[p] \in Value /\ disk[p] # Absent
                                     ELSE copy[p] = NoCopy
  /\ dirty \in SUBSET Page
  /\ flushing \in SUBSET dirty /\ (~busy => flushing = {})
  /\ busy \in BOOLEAN
  /\ held \in Cached \cup {Nothing}
  /\ cand \in [Page -> SUBSET (Value \cup {Absent})]

(* The pool loses no update and invents none: reads, evictions, flushes in *)
(* any order and kills leave the callers the pages BufferedPages promises, *)
(* and a write that raises costs one page's last updates and tells.        *)
Promise == INSTANCE BufferedPages
             WITH Image <- Images, mem <- View, MayRaise <- IOErrors
KeepsPromise == Promise!Spec

(* "page numbers whose cached copy differs from disk" (buffer_pool.py,     *)
(* line 53): every dirty page is in the cache.                             *)
DirtyCached == dirty \subseteq Cached

(* A clean page can be dropped: the file holds what the cache holds.       *)
CleanMatchesDisk == \A p \in Cached \ dirty : copy[p] = disk[p]

(* What the proof of KeepsPromise rests on: while flush_all runs, every    *)
(* page it has passed is clean, and both copies of a page are always among *)
(* those a kill may leave.                                                 *)
FlushProgress ==
  busy => \A p \in Cached \cap (dirty \ flushing) : copy[p] = disk[p]
CandidatesKept == \A p \in Page : disk[p] \in cand[p] /\ View[p] \in cand[p]
Coherent == TypeOK /\ CleanMatchesDisk /\ FlushProgress /\ CandidatesKept

(* Why KeepsRecent holds: whatever lies behind a page in the cache was     *)
(* requested after it, so a page that is evicted has been passed by a      *)
(* cache full of others.                                                   *)
RecencyKept ==
  /\ \A p \in DOMAIN since : since[p] \subseteq Page
  /\ \A i, j \in 1 .. Len(lru) :
       lru[i] \in DOMAIN since /\ i < j => lru[j] \in since[lru[i]]
  /\ \A p \in DOMAIN since : p \notin Cached => Cardinality(since[p]) >= Capacity

(* A requested page stays cached until as many others have been requested  *)
(* as the pool has room for (least recently used eviction).                *)
KeepsRecent ==
  \A p \in DOMAIN since : Cardinality(since[p]) < Capacity => p \in Cached
=============================================================================
