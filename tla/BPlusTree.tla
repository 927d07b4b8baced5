----------------------------- MODULE BPlusTree -----------------------------
(***************************************************************************)
(* The B+ tree index: queryx/index/btree.py.                               *)
(*                                                                         *)
(* The tree is what its pages hold: an insert or a delete is one step, as  *)
(* nothing else runs while it does.  The pages it stores are in the buffer *)
(* pool then and reach the file one by one, so a kill before the next      *)
(* flush leaves pages of different times.  Opening the index again reads   *)
(* the root from the meta page.                                            *)
(***************************************************************************)
EXTENDS Integers, SequencesExt

CONSTANTS
  Key,          (* integers                                                *)
  RowId,
  MaxKeys,      (* max_keys: the keys a node keeps                         *)
  EmptyChild,   (* 16: the child that the bytes of Page.empty() read as    *)
  MaxPage,      (* the last page of the instance (a bound)                 *)
  MaxEntries    (* entries of the instance (a bound)                       *)

(* The file is shorter than 17 pages, so that EmptyChild is behind it.     *)
ASSUME TreeAssumption ==
  /\ Key \subseteq Int
  /\ MaxKeys \in Nat /\ MaxKeys >= 2
  /\ MaxPage \in Nat /\ MaxEntries \in Nat
  /\ EmptyChild \in Nat /\ EmptyChild > MaxPage

VARIABLES
  nodes,    (* page number -> _Node, for the pages allocated               *)
  cand,     (* page number -> what the file may hold after a kill          *)
  root,     (* BPlusTree._root                                             *)
  meta,     (* the root the meta page names                                *)
  metas,    (* the roots it may name after a kill                          *)
  answer,   (* the last delete: its entry and what it returned, or << >>   *)
  touched,  (* ghost: entries put or removed since the last flush          *)
  grown,    (* ghost: whether pages were added since the last flush        *)
  torn,     (* ghost: whether a kill has met a tree that had grown         *)
  kept      (* ghost: then, the entries that were not touched              *)

vars == <<nodes, cand, root, meta, metas, answer, touched, grown, torn, kept>>

Leaf(keys, values, next_leaf) ==
  [is_leaf |-> TRUE, keys |-> keys, values |-> values, next_leaf |-> next_leaf]
Internal(keys, children) ==
  [is_leaf |-> FALSE, keys |-> keys, children |-> children]

(* Page 0 is the pager's, page 1 the meta page.                            *)
FirstRoot == 2
NewPage(file) == FirstRoot + Cardinality(DOMAIN file)

(* The file with page p added or replaced.                                 *)
WithPage(file, p, node) ==
  [q \in DOMAIN file \cup {p} |-> IF q = p THEN node ELSE file[q]]

(* A page that was allocated and never stored reads as an inner node       *)
(* without keys.                                                           *)
Unwritten == Internal(<< >>, <<EmptyChild>>)

(* A new index.  Its root page is not in the file yet; its meta page is,   *)
(* as without it the file cannot be opened again.                          *)
Init ==
  /\ nodes = [p \in {FirstRoot} |-> Leaf(<< >>, << >>, 0)]
  /\ cand = [p \in {FirstRoot} |-> {Unwritten, nodes[p]}]
  /\ root = FirstRoot /\ meta = FirstRoot /\ metas = {meta}
  /\ answer = << >>
  /\ touched = {} /\ grown = TRUE /\ torn = FALSE /\ kept = EmptyBag

(* bisect_left and bisect_right on a sorted list: the number of keys below *)
(* key, and of those not above it.                                         *)
BisectLeft(keys, key) == Cardinality({i \in DOMAIN keys : keys[i] < key})
BisectRight(keys, key) == Cardinality({i \in DOMAIN keys : keys[i] <= key})

-----------------------------------------------------------------------------
(* Searching.                                                              *)

(* Mutant: the descent goes right of an equal separator.                   *)
FindLeafRight(key) ==
  LET down[p \in DOMAIN nodes] ==
        IF nodes[p].is_leaf THEN p
        ELSE down[nodes[p].children[BisectRight(nodes[p].keys, key) + 1]]
  IN  down[root]

(* _find_leaf: the leftmost leaf that could contain the key.               *)
FindLeaf(key) ==
  LET down[p \in DOMAIN nodes] ==
        IF nodes[p].is_leaf THEN p
        ELSE down[nodes[p].children[BisectLeft(nodes[p].keys, key) + 1]]
  IN  down[root]

LeftmostLeaf ==
  LET down[p \in DOMAIN nodes] ==
        IF nodes[p].is_leaf THEN p ELSE down[nodes[p].children[1]]
  IN  down[root]

Leaves == {p \in DOMAIN nodes : nodes[p].is_leaf}

(* The walk to the right ends at a key above the one sought, at the end of *)
(* the chain, or at a leaf without keys.                                   *)
WalksOn(node, key) ==
  /\ BisectRight(node.keys, key) = Len(node.keys)
  /\ node.next_leaf # 0
  /\ node.keys # << >>

Search(key) ==
  LET from[p \in Leaves] ==
        SubSeq(nodes[p].values, BisectLeft(nodes[p].keys, key) + 1,
               BisectRight(nodes[p].keys, key))
        \o IF WalksOn(nodes[p], key) THEN from[nodes[p].next_leaf] ELSE << >>
  IN  from[FindLeaf(key)]

(* The entries of a leaf from position i on, and those of the leaves       *)
(* behind it.                                                              *)
EntriesOf(node) == [i \in DOMAIN node.keys |-> <<node.keys[i], node.values[i]>>]
StreamFrom(leaf, i) ==
  LET behind[p \in Leaves] ==
        EntriesOf(nodes[p])
        \o IF nodes[p].next_leaf # 0 THEN behind[nodes[p].next_leaf] ELSE << >>
  IN  SubSeq(behind[leaf], i, Len(behind[leaf]))

(* range_scan stops at the first key above high.                           *)
UpTo(stream, high) ==
  LET beyond == {i \in DOMAIN stream : stream[i][1] > high}
  IN  IF beyond = {} THEN stream ELSE SubSeq(stream, 1, Min(beyond) - 1)

RangeScan(low, high) ==
  LET leaf == FindLeaf(low)
  IN  UpTo(StreamFrom(leaf, BisectLeft(nodes[leaf].keys, low) + 1), high)
FullScan == StreamFrom(LeftmostLeaf, 1)

-----------------------------------------------------------------------------
(* Inserting.                                                              *)

(* What storing a changed node leaves: the pages, and if the node split    *)
(* the separator and the page of its right half for the parent.            *)
Stored(file, sep, right) == [nodes |-> file, sep |-> sep, right |-> right]
NoSplit(file) == Stored(file, 0, 0)

(* Mutant: the left half keeps its old link, and the chain passes the      *)
(* right half by.                                                          *)
SplitLeafUnlinked(file, p, node) ==
  LET mid == Len(node.keys) \div 2
      right == NewPage(file)
      left == Leaf(SubSeq(node.keys, 1, mid), SubSeq(node.values, 1, mid), node.next_leaf)
      new == Leaf(SubSeq(node.keys, mid + 1, Len(node.keys)),
                  SubSeq(node.values, mid + 1, Len(node.keys)), node.next_leaf)
  IN  Stored(WithPage([file EXCEPT ![p] = left], right, new), new.keys[1], right)

SplitLeaf(file, p, node) ==
  LET mid == Len(node.keys) \div 2
      right == NewPage(file)
      left == Leaf(SubSeq(node.keys, 1, mid), SubSeq(node.values, 1, mid), right)
      new == Leaf(SubSeq(node.keys, mid + 1, Len(node.keys)),
                  SubSeq(node.values, mid + 1, Len(node.keys)), node.next_leaf)
  IN  Stored(WithPage([file EXCEPT ![p] = left], right, new), new.keys[1], right)

(* Mutant: the promoted key's child goes with the left half.               *)
SplitInternalShifted(file, p, node) ==
  LET mid == Len(node.keys) \div 2
      right == NewPage(file)
      left == Internal(SubSeq(node.keys, 1, mid), SubSeq(node.children, 1, mid + 1))
      new == Internal(SubSeq(node.keys, mid + 2, Len(node.keys)),
                      SubSeq(node.children, mid + 2, Len(node.children)))
  IN  Stored(WithPage([file EXCEPT ![p] = left], right, new), node.keys[mid], right)

SplitInternal(file, p, node) ==
  LET mid == Len(node.keys) \div 2
      right == NewPage(file)
      left == Internal(SubSeq(node.keys, 1, mid), SubSeq(node.children, 1, mid + 1))
      new == Internal(SubSeq(node.keys, mid + 2, Len(node.keys)),
                      SubSeq(node.children, mid + 2, Len(node.children)))
  IN  Stored(WithPage([file EXCEPT ![p] = left], right, new), node.keys[mid + 1], right)

StoreOrSplit(file, p, node) ==
  IF Len(node.keys) <= MaxKeys THEN NoSplit([file EXCEPT ![p] = node])
  ELSE IF node.is_leaf THEN SplitLeaf(file, p, node) ELSE SplitInternal(file, p, node)

(* _insert_into: down to the leaf right of equal separators, then back up  *)
(* while nodes split.                                                      *)
InsertInto(key, rowid) ==
  LET at(p) == BisectRight(nodes[p].keys, key)
      up[p \in DOMAIN nodes] ==
        IF nodes[p].is_leaf
        THEN StoreOrSplit(nodes, p,
               Leaf(InsertAt(nodes[p].keys, at(p) + 1, key),
                    InsertAt(nodes[p].values, at(p) + 1, rowid), nodes[p].next_leaf))
        ELSE LET below == up[nodes[p].children[at(p) + 1]]
             IN  IF below.right = 0 THEN below
                 ELSE StoreOrSplit(below.nodes, p,
                        Internal(InsertAt(nodes[p].keys, at(p) + 1, below.sep),
                                 InsertAt(nodes[p].children, at(p) + 2, below.right)))
  IN  up[root]

(* A call is one row of a statement.  The instance flushes after each that *)
(* changes anything, and leaves a torn tree as it is, of which nothing is  *)
(* promised (bounds).                                                      *)
Touch(key, rowid) == touched = {} /\ ~torn /\ touched' = {<<key, rowid>>}

(* _store for each node that changed.  A new page is in the file at once,  *)
(* empty.                                                                  *)
Store(file) ==
  /\ nodes' = file
  /\ cand' = [p \in DOMAIN file |->
       (IF p \in DOMAIN cand THEN cand[p] ELSE {Unwritten}) \cup {file[p]}]
  /\ grown' = (grown \/ DOMAIN file # DOMAIN nodes)

(* Mutant: the meta page is not rewritten when the tree grows.             *)
GrowsForgetsMeta(result) ==
  /\ root' = NewPage(result.nodes)
  /\ Store(WithPage(result.nodes, NewPage(result.nodes),
                    Internal(<<result.sep>>, <<root, result.right>>)))
  /\ UNCHANGED <<meta, metas>>

(* A split root gets a new root above it, which the meta page then names.  *)
Grows(result) ==
  /\ root' = NewPage(result.nodes)
  /\ Store(WithPage(result.nodes, NewPage(result.nodes),
                    Internal(<<result.sep>>, <<root, result.right>>)))
  /\ meta' = NewPage(result.nodes)
  /\ metas' = metas \cup {NewPage(result.nodes)}

(* The pages below a page, itself included, and the leaves below it from   *)
(* left to right.                                                          *)
Below(p) ==
  LET below[q \in DOMAIN nodes] ==
        {q} \cup IF nodes[q].is_leaf THEN {}
                 ELSE UNION {below[c] : c \in ToSet(nodes[q].children)}
  IN  below[p]
LeavesBelow(p) ==
  LET leaves[q \in DOMAIN nodes] ==
        IF nodes[q].is_leaf THEN <<q>>
        ELSE FlattenSeq([i \in DOMAIN nodes[q].children |-> leaves[nodes[q].children[i]]])
  IN  leaves[p]

(* The entries of the tree, as a bag: those of the leaves below the root.  *)
Places == UNION {{p} \X DOMAIN nodes[p].keys : p \in Below(root) \cap Leaves}
EntryAt(place) == <<nodes[place[1]].keys[place[2]], nodes[place[1]].values[place[2]]>>
Entries ==
  LET places == Places
  IN  [entry \in {EntryAt(at) : at \in places} |->
         Cardinality({at \in places : EntryAt(at) = entry})]

Insert(key, rowid) ==
  /\ Touch(key, rowid)
  /\ Cardinality(Places) < MaxEntries
  /\ LET result == InsertInto(key, rowid)
     IN  \/ result.right = 0 /\ Store(result.nodes) /\ UNCHANGED <<root, meta, metas>>
         \/ result.right # 0 /\ Grows(result)
  /\ Cardinality(DOMAIN nodes') < MaxPage
  /\ answer' = << >>
  /\ UNCHANGED <<torn, kept>>

-----------------------------------------------------------------------------
(* Deleting and reopening.                                                 *)

(* Where delete finds the entry: the page and the position, or nothing.    *)
Matches(node, key, rowid) ==
  {i \in DOMAIN node.keys : node.keys[i] = key /\ node.values[i] = rowid}
Found(key, rowid) ==
  LET from[p \in Leaves] ==
        IF Matches(nodes[p], key, rowid) # {}
          THEN <<p, Min(Matches(nodes[p], key, rowid))>>
        ELSE IF WalksOn(nodes[p], key) THEN from[nodes[p].next_leaf] ELSE << >>
  IN  from[FindLeaf(key)]

(* Mutant: any entry of the key is removed.                                *)
DeleteAnyOfKey(key, rowid) ==
  LET p == FindLeaf(key)
      i == BisectLeft(nodes[p].keys, key) + 1
  IN  /\ Touch(key, rowid)
      /\ i \in DOMAIN nodes[p].keys /\ nodes[p].keys[i] = key
      /\ Store([nodes EXCEPT ![p] = Leaf(RemoveAt(@.keys, i), RemoveAt(@.values, i), @.next_leaf)])
      /\ answer' = <<key, rowid, TRUE>> /\ UNCHANGED <<root, meta, metas, torn, kept>>

(* The entry leaves its leaf; no node is merged and no separator changes.  *)
Delete(key, rowid) ==
  /\ ~torn
  /\ LET place == Found(key, rowid)
     IN  \/ /\ place # << >>
            /\ Touch(key, rowid) /\ answer' = <<key, rowid, TRUE>>
            /\ Store([nodes EXCEPT ![place[1]] =
                  Leaf(RemoveAt(@.keys, place[2]), RemoveAt(@.values, place[2]), @.next_leaf)])
         \/ /\ place = << >>
            /\ answer' = <<key, rowid, FALSE>>
            /\ UNCHANGED <<nodes, cand, touched, grown>>
  /\ UNCHANGED <<root, meta, metas, torn, kept>>

(* flush, at the end of a statement or before the index is closed.         *)
Flush ==
  /\ cand' = [p \in DOMAIN nodes |-> {nodes[p]}] /\ metas' = {meta}
  /\ touched' = {} /\ grown' = FALSE
  /\ answer' = << >>
  /\ UNCHANGED <<nodes, root, meta, torn, kept>>

(* What the file may be after a kill: one candidate of each page.          *)
Mixes ==
  LET upTo[p \in FirstRoot - 1 .. NewPage(nodes) - 1] ==
        IF p < FirstRoot THEN {<< >>}
        ELSE {WithPage(file, p, node) : file \in upTo[p - 1], node \in cand[p]}
  IN  upTo[NewPage(nodes) - 1]

(* A kill, or close after a flush, and the next open: each page is as it   *)
(* was flushed or stored since.                                            *)
Reopen ==
  /\ \E file \in Mixes : nodes' = file /\ cand' = [p \in DOMAIN file |-> {file[p]}]
  /\ meta' \in metas /\ metas' = {meta'} /\ root' = meta'
  /\ torn' = (torn \/ grown)
  /\ kept' = IF grown THEN [e \in DOMAIN Entries \ touched |-> Entries[e]] ELSE kept
  /\ touched' = {} /\ grown' = FALSE
  /\ answer' = << >>

Next ==
  \/ \E key \in Key, rowid \in RowId : Insert(key, rowid) \/ Delete(key, rowid)
  \/ Flush
  \/ Reopen

Spec == Init /\ [][Next]_vars

-----------------------------------------------------------------------------
(* The keys of the pages below a page.                                     *)
KeysBelow(p) == UNION {ToSet(nodes[q].keys) : q \in Below(p)}

(* Types: nodes hold as many values or children as their keys ask for, and *)
(* never more keys than fit.                                               *)
TypeOK ==
  /\ DOMAIN nodes = FirstRoot .. FirstRoot + Cardinality(DOMAIN nodes) - 1
  /\ \A p \in DOMAIN nodes : nodes[p] \in cand[p] /\ \A node \in cand[p] \ {Unwritten} :
       /\ node.keys \in Seq(Key) /\ Len(node.keys) <= MaxKeys
       /\ IF node.is_leaf
            THEN /\ node.values \in Seq(RowId) /\ Len(node.values) = Len(node.keys)
                 /\ node.next_leaf \in DOMAIN nodes \cup {0}
            ELSE /\ node.children \in Seq(DOMAIN nodes)
                 /\ Len(node.children) = Len(node.keys) + 1
                 /\ node.keys # << >>
  /\ root \in DOMAIN nodes /\ meta = root /\ meta \in metas
  /\ answer = << >> \/ answer \in Key \X RowId \X BOOLEAN

(* Every allocated page is in the tree, once.                              *)
PagesUsedOnce ==
  /\ Below(root) = DOMAIN nodes
  /\ \A p, q \in DOMAIN nodes :
       ~nodes[p].is_leaf /\ ~nodes[q].is_leaf =>
         \A i \in DOMAIN nodes[p].children, j \in DOMAIN nodes[q].children :
           nodes[p].children[i] = nodes[q].children[j] => p = q /\ i = j

(* "That is how the tree stays balanced" (btree.py, lines 18 to 21): all   *)
(* leaves are equally deep.                                                *)
Balanced ==
  LET depth[p \in DOMAIN nodes] ==
        IF nodes[p].is_leaf THEN {0}
        ELSE UNION {{d + 1 : d \in depth[c]} : c \in ToSet(nodes[p].children)}
  IN  Cardinality(depth[root]) = 1

(* Separators route: what is left of a separator is not above it and what  *)
(* is right of it not below, duplicates and deletes notwithstanding.       *)
Routed ==
  \A p \in DOMAIN nodes :
    /\ IsSorted(nodes[p].keys, <=)
    /\ ~nodes[p].is_leaf =>
         \A i \in DOMAIN nodes[p].keys :
           /\ \A key \in KeysBelow(nodes[p].children[i]) : key <= nodes[p].keys[i]
           /\ \A key \in KeysBelow(nodes[p].children[i + 1]) : nodes[p].keys[i] <= key

(* "Leaves are LINKED in sorted order" (btree.py, lines 14 to 17): the     *)
(* chain visits the tree's leaves, each once, from left to right.          *)
LeavesLinked ==
  LET leaves == LeavesBelow(root)
  IN  \A i \in DOMAIN leaves :
        nodes[leaves[i]].next_leaf = IF i = Len(leaves) THEN 0 ELSE leaves[i + 1]

WellShaped == ~torn => PagesUsedOnce /\ Balanced /\ Routed /\ LeavesLinked

(* A range scan yields every entry of the range and no other, in key       *)
(* order, even when deletes have left leaves empty.                        *)
InRange(low, high) ==
  [e \in {d \in BagToSet(Entries) : low <= d[1] /\ d[1] <= high} |-> Entries[e]]
ScansComplete == ~torn =>
  /\ ToBag(FullScan) = Entries
  /\ \A low, high \in Key :
       LET scan == RangeScan(low, high)
       IN  /\ ToBag(scan) = InRange(low, high)
           /\ IsSorted(scan, LAMBDA d, e : d[1] <= e[1])

(* "Search stays correct because separators need not exist as live data"   *)
(* (btree.py, lines 34 to 36): a search returns every RowId of its key.    *)
SearchFinds == ~torn =>
  \A key \in Key :
    ToBag([i \in DOMAIN Search(key) |-> <<key, Search(key)[i]>>]) = InRange(key, key)

(* What is true of it: it does while no leaf below the root is empty.      *)
NoEmptyLeaf == \A p \in DOMAIN nodes \ {root} : nodes[p].keys # << >>
SearchFindsUnlessEmptied == NoEmptyLeaf => SearchFinds

(* A kill in the middle of a split hides no entry that was flushed before, *)
(* as long as every page of the file was written once: what the parent,    *)
(* the root or the meta page do not name yet, scans and searches reach     *)
(* along the leaves, in order ("may still find them on a scan", DESIGN.md, *)
(* 348 to 354).                                                            *)
AllWritten == \A p \in DOMAIN nodes : nodes[p] # Unwritten
TornKeepsFlushed == torn /\ AllWritten =>
  /\ LET scanned == ToBag(FullScan)
     IN  \A e \in DOMAIN kept : e \in BagToSet(scanned) /\ scanned[e] = kept[e]
  /\ IsSorted(FullScan, LAMBDA d, e : d[1] <= e[1])
  /\ NoEmptyLeaf => \A e \in DOMAIN kept : Contains(Search(e[1]), e[2])

(* The tree is an index, however it splits: entries come and go one by     *)
(* one, a kill takes no entry but those touched since the last flush       *)
(* unless the tree had grown, and a delete misses an entry only when some  *)
(* leaf has been emptied.                                                  *)
Index == INSTANCE KeyIndex WITH
  entries <- IF torn THEN EmptyBag ELSE Entries, complete <- NoEmptyLeaf, sound <- ~torn
KeepsEntries == Index!Spec
=============================================================================
