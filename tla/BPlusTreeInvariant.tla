------------------------- MODULE BPlusTreeInvariant --------------------------
(***************************************************************************)
(* What holds of the B+ tree between its calls and the words to say it:    *)
(* that the pages are a tree (TreeInv), that every page is in its place    *)
(* there (ShapeInv), what the versions of a page hold while the tree is as *)
(* at the last flush (Settled) or grows (MixInv), and what a kill in the   *)
(* middle of growing leaves (TornInv).  BPlusTreeProofs proves them.       *)
(***************************************************************************)
EXTENDS BPlusTree, Counting

-----------------------------------------------------------------------------
(* Trees.                                                                  *)

LeafNode(within) ==
  [is_leaf : {TRUE}, keys : Seq(Key), values : Seq(RowId), next_leaf : within \cup {0}]

InnerNode(within) == [is_leaf : {FALSE}, keys : Seq(Key), children : Seq(within)]

(* A node with at most max keys that names pages within a set.             *)
IsLeaf(node, within, max) ==
  node \in LeafNode(within) /\ Len(node.values) = Len(node.keys) /\ Len(node.keys) <= max

IsInner(node, within, max) ==
  /\ node \in InnerNode(within) /\ Len(node.children) = Len(node.keys) + 1
  /\ 1 <= Len(node.keys) /\ Len(node.keys) <= max

IsNode(node, within, max) == IsLeaf(node, within, max) \/ IsInner(node, within, max)

Numbered(file) ==
  /\ \E last \in Nat : 2 <= last /\ DOMAIN file = 2 .. last
  /\ file = [p \in DOMAIN file |-> file[p]]

PagesOK(file) ==
  /\ Numbered(file)
  /\ \A p \in DOMAIN file : IsNode(file[p], DOMAIN file, MaxKeys)

(* Leaves are at depth 0, and what is below an inner node is one less deep.*)
AtDepth(depth, n) == {p \in DOMAIN depth : depth[p] = n}

DepthOK(file, depth) ==
  /\ \E height \in Nat : depth \in [DOMAIN file -> 0 .. height]
  /\ \A p \in DOMAIN file :
       IF file[p].is_leaf THEN depth[p] = 0
       ELSE depth[p] >= 1 /\ file[p].children \in Seq(AtDepth(depth, depth[p] - 1))

(* A link leads to a leaf of a lower rank.                                 *)
RankOK(file, rank) ==
  /\ \E bound \in Nat : rank \in [DOMAIN file -> 0 .. bound]
  /\ \A p \in DOMAIN file : file[p].is_leaf /\ file[p].next_leaf # 0 =>
       file[file[p].next_leaf].is_leaf /\ rank[file[p].next_leaf] < rank[p]

-----------------------------------------------------------------------------
(* A tree with a page replaced, or one added.                              *)

Good(file, depth, rank) == PagesOK(file) /\ DepthOK(file, depth) /\ RankOK(file, rank)

(* depth with one more page.                                               *)
Extended(depth, p, n) == [q \in DOMAIN depth \cup {p} |-> IF q = p THEN n ELSE depth[q]]

-----------------------------------------------------------------------------
(* Storing a node, split or not.                                           *)

(* What storing a node comes to: a tree with the pages at the depths that  *)
(* they had, and a right half at the depth of the left.                    *)
Outcome(r, file, depth, p) ==
  \E d, k :
    /\ Good(r.nodes, d, k)
    /\ DOMAIN file \subseteq DOMAIN r.nodes
    /\ \A q \in DOMAIN file : d[q] = depth[q]
    /\ r.right # 0 => /\ r.right \in DOMAIN r.nodes \ DOMAIN file
                      /\ r.sep \in Key /\ d[r.right] = depth[p]

-----------------------------------------------------------------------------
(* Walking down the tree.                                                  *)

DownStep(f, key, p) ==
  IF nodes[p].is_leaf THEN p
  ELSE f[nodes[p].children[BisectLeft(nodes[p].keys, key) + 1]]

(* Leaves are equally deep.                                                *)
DepthStep(f, p) ==
  IF nodes[p].is_leaf THEN {0}
  ELSE UNION {{d + 1 : d \in f[c]} : c \in ToSet(nodes[p].children)}

-----------------------------------------------------------------------------
(* Inserting.                                                              *)

SameShape(v, w) ==
  v.is_leaf = w.is_leaf /\ IF v.is_leaf THEN v.next_leaf = w.next_leaf ELSE v = w

(* Without a new page only what a leaf holds has changed.                  *)
InsertOutcome(r, depth, p) ==
  /\ Outcome(r, nodes, depth, p)
  /\ DOMAIN r.nodes = DOMAIN nodes =>
       r.right = 0 /\ \A q \in DOMAIN nodes : SameShape(r.nodes[q], nodes[q])

UpStep(f, key, rowid, p) ==
  IF nodes[p].is_leaf
  THEN StoreOrSplit(nodes, p,
         Leaf(InsertAt(nodes[p].keys, BisectRight(nodes[p].keys, key) + 1, key),
              InsertAt(nodes[p].values, BisectRight(nodes[p].keys, key) + 1, rowid),
              nodes[p].next_leaf))
  ELSE LET below == f[nodes[p].children[BisectRight(nodes[p].keys, key) + 1]]
       IN  IF below.right = 0 THEN below
           ELSE StoreOrSplit(below.nodes, p,
                  Internal(InsertAt(nodes[p].keys, BisectRight(nodes[p].keys, key) + 1,
                                    below.sep),
                           InsertAt(nodes[p].children, BisectRight(nodes[p].keys, key) + 2,
                                    below.right)))

-----------------------------------------------------------------------------
(* Deleting.                                                               *)

FoundStep(f, key, rowid, p) ==
  IF Matches(nodes[p], key, rowid) # {} THEN <<p, Min(Matches(nodes[p], key, rowid))>>
  ELSE IF WalksOn(nodes[p], key) THEN f[nodes[p].next_leaf] ELSE << >>

(* A place of the entry in a leaf, or none.                                *)
IsPlace(place, key, rowid) ==
  \/ place = << >>
  \/ \E p \in Leaves : \E i \in DOMAIN nodes[p].keys :
       place = <<p, i>> /\ nodes[p].keys[i] = key /\ nodes[p].values[i] = rowid

-----------------------------------------------------------------------------
(* What the file may be after a kill.                                      *)

Extensions(files, p) == {WithPage(file, p, node) : file \in files, node \in cand[p]}

FilesUpTo(f, p) == IF p < FirstRoot THEN {<< >>} ELSE Extensions(f[p - 1], p)

-----------------------------------------------------------------------------
(* The inductive invariant.                                                *)

(* What the file may hold of a page: what was stored, or nothing yet.      *)
Version(v, within) == v = Unwritten \/ IsNode(v, within, MaxKeys)

Versions ==
  /\ DOMAIN cand = DOMAIN nodes
  /\ \A p \in DOMAIN nodes :
       nodes[p] \in cand[p] /\ \A v \in cand[p] : Version(v, DOMAIN nodes)

Roots == root \in DOMAIN nodes /\ meta = root /\ meta \in metas /\ metas \subseteq DOMAIN nodes

Answered == answer = << >> \/ answer \in Key \X RowId \X BOOLEAN

IsTree == \E depth, rank : Good(nodes, depth, rank)

(* Until a kill has met a tree that had grown the pages are a tree; and    *)
(* while it has not grown since the last flush, so is any mix of versions. *)
WholeTree ==
  /\ torn \in BOOLEAN /\ grown \in BOOLEAN
  /\ ~torn => IsTree
  /\ ~torn /\ ~grown => \A p \in DOMAIN nodes : \A v \in cand[p] : SameShape(v, nodes[p])

TreeInv == Numbered(nodes) /\ Versions /\ Roots /\ Answered /\ WholeTree

-----------------------------------------------------------------------------
(* Sorted keys.                                                            *)

Within(keys, range) == \A i \in 1 .. Len(keys) : keys[i] \in range

-----------------------------------------------------------------------------
(* Where a page is in the tree: the first leaf below it, the leaf behind   *)
(* those below it, and the keys that the separators above route to it.     *)

Part(range, keys, i) ==
  {k \in range : (i > 1 => keys[i - 1] <= k) /\ (i <= Len(keys) => k <= keys[i])}

LeafFits(node, p, s) ==
  /\ Sorted(node.keys) /\ Within(node.keys, s[p].range)
  /\ s[p].first = p /\ s[p].after = node.next_leaf

InnerFits(node, p, s) ==
  /\ Sorted(node.keys) /\ Within(node.keys, s[p].range)
  /\ s[p].first = s[node.children[1]].first
  /\ s[p].after = s[node.children[Len(node.keys) + 1]].after
  /\ \A i \in 1 .. Len(node.keys) :
       s[node.children[i]].after = s[node.children[i + 1]].first
  /\ \A i \in 1 .. Len(node.keys) + 1 :
       s[node.children[i]].range = Part(s[p].range, node.keys, i)

Fits(node, p, s) == IF node.is_leaf THEN LeafFits(node, p, s) ELSE InnerFits(node, p, s)

(* t is s with p split in front of a page to its right.                    *)
SplitAs(t, s, p, right, sep) ==
  /\ sep \in s[p].range
  /\ t[p].first = s[p].first /\ t[p].after = t[right].first
  /\ t[p].range = {k \in s[p].range : k <= sep}
  /\ t[right].after = s[p].after
  /\ t[right].range = {k \in s[p].range : sep <= k}

-----------------------------------------------------------------------------
(* Storing a node, split or not.                                           *)

(* s with page p cut at sep, and the new page n behind it.                 *)
Cut(s, pages, p, n, sep, first) ==
  [q \in pages \cup {n} |->
     IF q = n THEN [first |-> first, after |-> s[p].after,
                    range |-> {k \in s[p].range : sep <= k}]
     ELSE IF q = p THEN [first |-> s[p].first, after |-> first,
                         range |-> {k \in s[p].range : k <= sep}]
     ELSE s[q]]

InIntegers(pages, s) == \A q \in pages : s[q].range \subseteq Int

(* What storing a node for page p comes to: the other pages stay as and    *)
(* where they were.  If the node splits, a parent of p no longer fits.     *)
StoredShape(r, file, p, s, tops) ==
  \E t :
    /\ InIntegers(DOMAIN r.nodes, t) /\ DOMAIN file \subseteq DOMAIN r.nodes
    /\ \A q \in DOMAIN file \ {p} : t[q] = s[q] /\ r.nodes[q] = file[q]
    /\ r.right = 0 =>
         /\ \A q \in DOMAIN file : t[q] = s[q]
         /\ Once(r.nodes, tops)
         /\ \A q \in DOMAIN r.nodes : Fits(r.nodes[q], q, t)
    /\ r.right # 0 =>
         /\ SplitAs(t, s, p, r.right, r.sep)
         /\ \E top : (\A x : x \in top <=> x \in tops \/ x = r.right) /\ Once(r.nodes, top)
         /\ \A q \in DOMAIN r.nodes : p \notin Kids(r.nodes[q]) => Fits(r.nodes[q], q, t)

(* What is left of the pages at the top when some get a parent.            *)
Rest(tops, more, top) ==
  more \subseteq tops /\ \A x : x \in top <=> x \in tops /\ x \notin more

-----------------------------------------------------------------------------
(* What nodes hold.                                                        *)

Entry == Key \X RowId

HeldBy(node) == IF node.is_leaf THEN EntriesOf(node) ELSE << >>

Held(file) == [p \in DOMAIN file |-> HeldBy(file[p])]

-----------------------------------------------------------------------------
(* Inserting.                                                              *)

Shaped(file, s, tops) ==
  /\ InIntegers(DOMAIN file, s) /\ Once(file, tops)
  /\ \A q \in DOMAIN file : Fits(file[q], q, s)

(* How the leaves lie in a file that an insert of e leaves, with t the     *)
(* places there: a leaf stays with what is routed to it, or its right half *)
(* is a new leaf behind it; and it holds as many of the other entries.     *)
Stays(file, s, t, e, p) ==
  /\ file[p].next_leaf = nodes[p].next_leaf /\ t[p].range = s[p].range
  /\ \A x \in Entry \ {e} : Times(HeldBy(nodes[p]), x) = Times(HeldBy(file[p]), x)

Splits(file, s, t, e, p, n) ==
  /\ n = file[p].next_leaf /\ n \in DOMAIN file /\ n \notin DOMAIN nodes /\ file[n].is_leaf
  /\ file[n].next_leaf = nodes[p].next_leaf /\ file[p].keys # << >>
  /\ t[n].range \subseteq s[p].range /\ s[p].range \subseteq t[p].range \cup t[n].range
  /\ \A x \in Entry \ {e} :
       Times(HeldBy(nodes[p]), x) = Times(HeldBy(file[p]), x) + Times(HeldBy(file[n]), x)

Leafwise(file, s, t, e) ==
  /\ DOMAIN nodes \subseteq DOMAIN file
  /\ \A q \in DOMAIN nodes :
       /\ file[q].is_leaf <=> nodes[q].is_leaf
       /\ t[q].first = s[q].first /\ t[q].range \subseteq s[q].range
  /\ \A p \in Leaves : Stays(file, s, t, e, p) \/ \E n : Splits(file, s, t, e, p, n)
  /\ \A n \in DOMAIN file : n \notin DOMAIN nodes /\ file[n].is_leaf =>
       \E p \in Leaves : n = file[p].next_leaf

(* What inserting below page p comes to: pages as deep as p or less stay   *)
(* as and where they were, and without a new page all stay where they were.*)
InsertedAs(r, depth, p, s, tops, t) ==
  /\ InIntegers(DOMAIN r.nodes, t)
  /\ \A q \in DOMAIN nodes \ {p} : depth[q] >= depth[p] => t[q] = s[q] /\ r.nodes[q] = nodes[q]
  /\ DOMAIN r.nodes = DOMAIN nodes => \A q \in DOMAIN nodes : t[q] = s[q]
  /\ r.right = 0 => t[p] = s[p] /\ Shaped(r.nodes, t, tops)
  /\ r.right # 0 =>
       /\ SplitAs(t, s, p, r.right, r.sep)
       /\ \E top : (\A x : x \in top <=> x \in tops \/ x = r.right) /\ Once(r.nodes, top)
       /\ \A q \in DOMAIN r.nodes : p \notin Kids(r.nodes[q]) => Fits(r.nodes[q], q, t)

InsertedShape(r, depth, p, s, tops, e) ==
  \E t : InsertedAs(r, depth, p, s, tops, t) /\ Leafwise(r.nodes, s, t, e)

-----------------------------------------------------------------------------
(* The new root above a root that has split.                               *)

(* The pages are a tree of all the keys, and its last leaf has none behind.*)
Placed(file, s, top) ==
  /\ Shaped(file, s, {top})
  /\ s[top].range = Int /\ s[top].after = 0

(* result with a new root above its two halves.                            *)
Raised(new, result) ==
  new = WithPage(result.nodes, NewPage(result.nodes),
                 Internal(<<result.sep>>, <<root, result.right>>))

RaisedAs(new, n, s, t, e) ==
  Placed(new, t, n) /\ Leafwise(new, s, t, e) /\ t[n].first = t[root].first

-----------------------------------------------------------------------------
(* The inductive invariant of the shape.                                   *)

(* Every page is in its place and, while the tree has not grown since the  *)
(* last flush, so is every version that the file may hold of it.           *)
InPlace(s) ==
  /\ Placed(nodes, s, root)
  /\ ~grown => \A p \in DOMAIN nodes : \A v \in cand[p] : Fits(v, p, s)

ShapeInv ==
  /\ ~grown => metas = {root}
  /\ ~torn => \E s : InPlace(s)

(* What an insert stores, and where its pages are.                         *)
Placing(file, s, t, e) ==
  /\ Store(file) /\ Placed(file, t, root') /\ Leafwise(file, s, t, e)
  /\ DOMAIN file = DOMAIN nodes =>
       UNCHANGED <<root, metas>> /\ \A q \in DOMAIN nodes : t[q] = s[q]
  /\ \/ UNCHANGED <<root, metas>>
     \/ /\ root' \in DOMAIN file /\ root' \notin DOMAIN nodes /\ ~file[root'].is_leaf
        /\ metas' = metas \cup {root'} /\ t[root'].first = t[root].first

-----------------------------------------------------------------------------
(* The pages below a page.                                                 *)

UnderStep(f, p) ==
  {p} \cup IF nodes[p].is_leaf THEN {} ELSE UNION {f[c] : c \in ToSet(nodes[p].children)}

-----------------------------------------------------------------------------
(* The leaves below a page are the chain from its first leaf to the one    *)
(* behind.                                                                 *)

Chain(L, a, b) ==
  /\ L \in Seq(DOMAIN nodes) /\ Len(L) >= 1 /\ L[1] = a
  /\ \A i \in 1 .. Len(L) :
       nodes[L[i]].next_leaf = IF i = Len(L) THEN b ELSE L[i + 1]

LeavesStep(f, p) ==
  IF nodes[p].is_leaf THEN <<p>>
  ELSE FlattenSeq([i \in DOMAIN nodes[p].children |-> f[nodes[p].children[i]]])

-----------------------------------------------------------------------------
(* The chain of leaves: every leaf once, their ranges in order.            *)

InTree(depth, rank, s) ==
  Good(nodes, depth, rank) /\ root \in DOMAIN nodes /\ Placed(nodes, s, root)

Link(p) == nodes[p].next_leaf

LeavesUnder(p) == Below(p) \cap Leaves

(* What is routed to q is not above what is routed to r.                   *)
InOrder(s, q, r) == \A k \in s[q].range, m \in s[r].range : k <= m

(* The leaf behind one of the leaves below a page is the next of them, or  *)
(* behind them all.                                                        *)
Follows(s, p, q) ==
  Link(q) = s[p].after \/ (Link(q) \in LeavesUnder(p) /\ InOrder(s, q, Link(q)))

(* The leaves one behind the other: all of them, each once.                *)
AllLeaves(s, L) ==
  Chain(L, s[root].first, 0) /\ NoRepeats(L) /\ ToSet(L) = Leaves

(* What follows of a leaf's place in the chain.                            *)
InChain(s, L, n) ==
  /\ n >= 1 /\ DOMAIN L = 1 .. n /\ L[1] = s[root].first
  /\ Len(L) = n /\ L \in Seq(Leaves)
  /\ \A i \in 1 .. n : L[i] \in Leaves /\ L[i] \in DOMAIN nodes
  /\ \A i \in 1 .. n : Link(L[i]) = IF i = n THEN 0 ELSE L[i + 1]
  /\ \A i, j \in 1 .. n : L[i] = L[j] => i = j
  /\ \A q \in Leaves : \E i \in 1 .. n : q = L[i]
  /\ \A i \in 1 .. n : i # n => InOrder(s, L[i], L[i + 1])

-----------------------------------------------------------------------------
(* The entries of the tree, page by page.                                  *)

EntriesKnown ==
  /\ IsFiniteSet(DOMAIN nodes) /\ SeqsOn(Held(nodes), DOMAIN nodes, Entry)
  /\ Entries = BagOn(Held(nodes), DOMAIN nodes)

-----------------------------------------------------------------------------
(* What is gathered along the chain: head[p] of a leaf p and, if p is in W, *)
(* what is gathered from the leaf behind.                                  *)

GatherStep(f, head, W, p) == head[p] \o IF p \in W THEN f[Link(p)] ELSE << >>

(* Everything from a leaf on.                                              *)
StreamStep(f, p) ==
  EntriesOf(nodes[p])
  \o IF nodes[p].next_leaf # 0 THEN f[nodes[p].next_leaf] ELSE << >>

Streams == CHOOSE f : f = [p \in Leaves |-> StreamStep(f, p)]

(* The leaves from position i of the chain on.                             *)
From(L, i) == {L[j] : j \in i .. Len(L)}

NotBefore(s, p, t) == \A i \in DOMAIN t : \E k \in s[p].range : k <= t[i][1]

(* What there is from a leaf on, in key order and not below what is routed *)
(* to the leaf.                                                            *)
Onwards(t, p) ==
  Streams[p] \in Seq(Entry) /\ ByKey(Streams[p]) /\ NotBefore(t, p, Streams[p])

-----------------------------------------------------------------------------
(* Where a scan starts.                                                    *)

LeftStep(f, p) == IF nodes[p].is_leaf THEN p ELSE f[nodes[p].children[1]]

(* Only smaller keys are routed to the leaf in front of those below p.     *)
Before(s, p, key) ==
  \A q \in Leaves : Link(q) = s[p].first => \A k \in s[q].range : k < key

-----------------------------------------------------------------------------
(* What a search finds.                                                    *)

Hits(p, key) ==
  SubSeq(nodes[p].values, BisectLeft(nodes[p].keys, key) + 1, BisectRight(nodes[p].keys, key))

SearchStep(f, key, p) ==
  SubSeq(nodes[p].values, BisectLeft(nodes[p].keys, key) + 1, BisectRight(nodes[p].keys, key))
  \o IF WalksOn(nodes[p], key) THEN f[nodes[p].next_leaf] ELSE << >>

Results(key) == CHOOSE f : f = [p \in Leaves |-> SearchStep(f, key, p)]

(* All there is from a leaf on is in key order, and there is no empty leaf *)
(* to end a walk.                                                          *)
Ordered ==
  \A p \in Leaves :
    /\ Sorted(nodes[p].keys) /\ Streams[p] \in Seq(Entry) /\ ByKey(Streams[p])
    /\ Link(p) # 0 => nodes[p].keys # << >>

-----------------------------------------------------------------------------
(* What a call changes of the entries.                                     *)

(* How often a file holds x.                                               *)
All(file, x) == Total(Held(file), DOMAIN file, x)

(* Pages hold as often whatever is not e.                                  *)
Besides(e, file, new) ==
  \A q \in DOMAIN file : \A x \in Entry \ {e} :
    Times(HeldBy(new[q]), x) = Times(HeldBy(file[q]), x)

(* An insert below a page adds its entry, once; and if it adds no page, it *)
(* leaves the other entries where they are.                                *)
AddsOne(r, e) ==
  /\ \A x \in Entry : All(r.nodes, x) = All(nodes, x) + One(e, x)
  /\ DOMAIN r.nodes = DOMAIN nodes => Besides(e, nodes, r.nodes)

(* A new root holds no entries.                                            *)
RootAdded(new, file, n) ==
  /\ n \notin DOMAIN file /\ DOMAIN new = DOMAIN file \cup {n} /\ HeldBy(new[n]) = << >>
  /\ \A q \in DOMAIN file : new[q] = file[q]

-----------------------------------------------------------------------------
(* Every step is one of KeyIndex.                                          *)

(* While the tree has not grown, the versions of a page differ in entries  *)
(* only that were touched since the last flush.                            *)
Settled ==
  ~torn /\ ~grown =>
    \A p \in DOMAIN nodes : \A v \in cand[p] : \A x \in Entry \ touched :
      Times(HeldBy(v), x) = Times(HeldBy(nodes[p]), x)

EntryKnown == ~torn => PagesOK(nodes) /\ EntriesKnown

IndexVars == <<IF torn THEN EmptyBag ELSE Entries, touched, ~torn, answer>>

-----------------------------------------------------------------------------
(* The versions of the pages while a tree grows.                           *)

(* What a version v of page p may be beside the other pages of a file N,   *)
(* whose places are t, when only the entries outside T differ: as the leaf *)
(* p, or as it and the leaf behind it together; or an inner node that      *)
(* routes to the right leaf or to one in front of it.                      *)
AsLeaf(v, N, p, t, T) ==
  /\ v.next_leaf = N[p].next_leaf /\ Within(v.keys, t[p].range)
  /\ \A x \in T : Times(HeldBy(v), x) = Times(HeldBy(N[p]), x)

AsTwo(v, N, p, n, t, T) ==
  /\ n = N[p].next_leaf /\ n \in DOMAIN N /\ N[n].is_leaf /\ v.next_leaf = N[n].next_leaf
  /\ Within(v.keys, t[p].range \cup t[n].range)
  /\ \A x \in T : Times(HeldBy(v), x) = Times(HeldBy(N[p]), x) + Times(HeldBy(N[n]), x)

AsInner(v, N, p, depth, t) ==
  /\ v.children \in Seq(AtDepth(depth, depth[p] - 1))
  /\ t[v.children[1]].first = t[p].first
  /\ \A i \in 1 .. Len(v.keys) : \A q \in DOMAIN N :
       N[q].is_leaf /\ N[q].next_leaf = t[v.children[i + 1]].first =>
         \A k \in t[q].range : k <= v.keys[i]

May(v, N, p, depth, t, T) ==
  /\ IsNode(v, DOMAIN N, MaxKeys) /\ (v.is_leaf <=> N[p].is_leaf) /\ Sorted(v.keys)
  /\ v.is_leaf => AsLeaf(v, N, p, t, T) \/ \E n : AsTwo(v, N, p, n, t, T)
  /\ ~v.is_leaf => AsInner(v, N, p, depth, t)

(* What is stored.                                                         *)
StoredMay ==
  \A depth, rank, s : InTree(depth, rank, s) =>
    \A p \in DOMAIN nodes : \A T : May(nodes[p], nodes, p, depth, s, T)

(* In a tree that is to be flushed every version of a page fits in beside  *)
(* the others, and under every root that the meta page may name the leaves *)
(* start with the same.                                                    *)
FirstRoots(t) ==
  \A m \in metas :
    /\ m \in DOMAIN nodes /\ t[m].first = t[root].first
    /\ \A v \in cand[m] : v.is_leaf /\ v.next_leaf # 0 => v.keys # << >>

Mixable(depth, rank, t) ==
  /\ InTree(depth, rank, t) /\ FirstRoots(t)
  /\ \A p \in DOMAIN nodes : \A v \in cand[p] :
       v = Unwritten \/ May(v, nodes, p, depth, t, Entry \ touched)

AsStored ==
  metas = {root} /\ \A p \in DOMAIN nodes : \A v \in cand[p] : v = Unwritten \/ v = nodes[p]

MixInv ==
  ~torn => (\E depth, rank, t : Mixable(depth, rank, t)) /\ (touched = {} => AsStored)

-----------------------------------------------------------------------------
(* A kill in the middle of growing.                                        *)

(* What is known of the tree before the kill: of its leaves and of what    *)
(* there was from each on, and where its entries were.                     *)
Behind(N, t, p, key) ==
  \A q \in DOMAIN N : N[q].is_leaf /\ N[q].next_leaf = t[p].first => \A k \in t[q].range : k < key

LeafBefore(N, F, t, rank, p) ==
  /\ t[p].first = p /\ t[p].range # {} /\ t[p].range \subseteq Int
  /\ HeldBy(N[p]) \in Seq(Entry) /\ F[p] \in Seq(Entry)
  /\ F[p] = HeldBy(N[p]) \o IF N[p].next_leaf # 0 THEN F[N[p].next_leaf] ELSE << >>
  /\ N[p].next_leaf # 0 =>
       /\ N[p].next_leaf \in DOMAIN N /\ N[N[p].next_leaf].is_leaf
       /\ rank[N[p].next_leaf] < rank[p] /\ InOrder(t, p, N[p].next_leaf)

LeavesBefore(N, F, t, rank) ==
  \A p \in DOMAIN N : N[p].is_leaf => LeafBefore(N, F, t, rank, p)

BagBefore(bag, N, F, t) ==
  /\ DOMAIN bag \subseteq Entry
  /\ \A x \in DOMAIN bag : bag[x] # 0 /\ \A p \in DOMAIN N :
       N[p].is_leaf /\ Behind(N, t, p, x[1]) => Times(F[p], x) = bag[x]

(* After the kill every page is one of its versions beside the tree N that *)
(* was to be flushed.                                                      *)
Aligned(N, F, t, depth, rank) ==
  /\ Good(nodes, depth, rank) /\ root \in DOMAIN nodes /\ DOMAIN nodes = DOMAIN N
  /\ \A p \in DOMAIN N : May(nodes[p], N, p, depth, t, DOMAIN kept)
  /\ LeavesBefore(N, F, t, rank) /\ BagBefore(kept, N, F, t)
  /\ \A q \in DOMAIN N : N[q].is_leaf => N[q].next_leaf # t[root].first
  /\ nodes[root].is_leaf /\ nodes[root].next_leaf # 0 => nodes[root].keys # << >>

TornInv ==
  torn =>
    /\ ~grown /\ metas = {root} /\ \A p \in DOMAIN nodes : cand[p] = {nodes[p]}
    /\ AllWritten => \E N, F, t, depth, rank : Aligned(N, F, t, depth, rank)
=============================================================================
