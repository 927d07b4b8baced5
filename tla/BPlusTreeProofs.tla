--------------------------- MODULE BPlusTreeProofs ---------------------------
(***************************************************************************)
(* What TLAPS proves of the B+ tree, for every set of keys and RowIds,     *)
(* node size and number of pages.                                          *)
(***************************************************************************)
EXTENDS BPlusTreeInvariant

-----------------------------------------------------------------------------
(* Numbers and sequences.                                                  *)

LEMMA BisectType ==
  ASSUME NEW keys, NEW n \in Nat, DOMAIN keys = 1 .. n, NEW key
  PROVE  BisectLeft(keys, key) \in 0 .. n /\ BisectRight(keys, key) \in 0 .. n
<1>1. IsFiniteSet(1 .. n) /\ Cardinality(1 .. n) = n
  <2>1. IsFiniteSet(1 .. n) /\ Cardinality(1 .. n) = IF 1 > n THEN 0 ELSE n - 1 + 1
    BY FS_Interval
  <2> QED BY <2>1
<1>2. ASSUME NEW T \in SUBSET (1 .. n) PROVE Cardinality(T) \in 0 .. n
  <2>1. Cardinality(T) \in Nat /\ Cardinality(T) <= Cardinality(1 .. n)
    BY <1>1, FS_Subset, FS_CardinalityType
  <2> QED BY <1>1, <2>1
<1> QED BY <1>2 DEF BisectLeft, BisectRight

-----------------------------------------------------------------------------
(* A tree with a page replaced, or one added.                              *)

LEMMA NodeOfMore ==
  ASSUME NEW within, NEW more, within \subseteq more, NEW node, NEW max,
         IsNode(node, within, max)
  PROVE  /\ IsNode(node, more, max)
         /\ IsLeaf(node, within, max) <=> node.is_leaf
         /\ IsInner(node, within, max) <=> ~node.is_leaf
<1>1. CASE IsLeaf(node, within, max)
  BY <1>1 DEF IsLeaf, IsNode, IsInner, LeafNode, InnerNode
<1>2. CASE IsInner(node, within, max)
  <2>1. node.children \in Seq(more)
    BY <1>2, SeqOfMore DEF IsInner, InnerNode
  <2> QED BY <1>2, <2>1 DEF IsLeaf, IsNode, IsInner, LeafNode, InnerNode
<1> QED BY <1>1, <1>2 DEF IsNode

LEMMA NewPageNumber ==
  ASSUME NEW file, Numbered(file), NEW node
  PROVE  /\ NewPage(file) \in Nat \ {0} /\ NewPage(file) \notin DOMAIN file
         /\ 0 \notin DOMAIN file
         /\ Numbered(WithPage(file, NewPage(file), node))
         /\ DOMAIN WithPage(file, NewPage(file), node) = DOMAIN file \cup {NewPage(file)}
<1>1. PICK last \in Nat : 2 <= last /\ DOMAIN file = 2 .. last
  BY DEF Numbered
<1>2. Cardinality(2 .. last) = last - 1
  <2>1. Cardinality(2 .. last) = IF 2 > last THEN 0 ELSE last - 2 + 1
    BY <1>1, FS_Interval
  <2> QED BY <1>1, <2>1
<1>3. NewPage(file) = last + 1
  BY <1>1, <1>2 DEF NewPage, FirstRoot
<1>4. DOMAIN file \cup {NewPage(file)} = 2 .. last + 1
  BY <1>1, <1>3
<1>5. 2 <= last + 1 /\ last + 1 \in Nat
  BY <1>1
<1> QED BY <1>1, <1>3, <1>4, <1>5 DEF Numbered, WithPage

LEMMA Replaced ==
  ASSUME NEW file, NEW depth, NEW rank, Good(file, depth, rank), NEW p \in DOMAIN file,
         NEW node, IsNode(node, DOMAIN file, MaxKeys), node.is_leaf = file[p].is_leaf,
         node.is_leaf => node.next_leaf = file[p].next_leaf,
         ~node.is_leaf => node.children \in Seq(AtDepth(depth, depth[p] - 1))
  PROVE  /\ Good([file EXCEPT ![p] = node], depth, rank)
         /\ DOMAIN [file EXCEPT ![p] = node] = DOMAIN file
<1> DEFINE new == [file EXCEPT ![p] = node]
<1>1. /\ DOMAIN new = DOMAIN file
      /\ \A q \in DOMAIN file : new[q] = IF q = p THEN node ELSE file[q]
      /\ new = [q \in DOMAIN new |-> new[q]]
  OBVIOUS
<1> HIDE DEF new
<1>2. PagesOK(new)
  BY <1>1 DEF Good, PagesOK, Numbered
<1>3. DepthOK(new, depth)
  BY <1>1 DEF Good, DepthOK
<1>4. RankOK(new, rank)
  <2>1. ASSUME NEW q \in DOMAIN file, new[q].is_leaf, new[q].next_leaf # 0
        PROVE  /\ new[new[q].next_leaf].is_leaf
               /\ rank[new[q].next_leaf] < rank[q]
    <3>1. file[q].is_leaf /\ file[q].next_leaf = new[q].next_leaf
      BY <1>1, <2>1
    <3>2. IsLeaf(file[q], DOMAIN file, MaxKeys)
      BY <3>1, NodeOfMore DEF Good, PagesOK
    <3>3. new[q].next_leaf \in DOMAIN file
      BY <2>1, <3>1, <3>2 DEF IsLeaf, LeafNode
    <3> QED BY <1>1, <2>1, <3>1, <3>3 DEF Good, RankOK
  <2> QED BY <1>1, <2>1 DEF Good, RankOK
<1> QED BY <1>1, <1>2, <1>3, <1>4 DEF Good, new

LEMMA DepthExtended ==
  ASSUME NEW file, NEW depth, DepthOK(file, depth), NEW p, p \notin DOMAIN file, NEW n \in Nat
  PROVE  /\ DOMAIN depth = DOMAIN file
         /\ \E height \in Nat : Extended(depth, p, n) \in [DOMAIN file \cup {p} -> 0 .. height]
         /\ \A q \in DOMAIN file : Extended(depth, p, n)[q] = depth[q]
         /\ Extended(depth, p, n)[p] = n
         /\ \A m : AtDepth(depth, m) \subseteq AtDepth(Extended(depth, p, n), m)
<1>1. PICK height \in Nat : depth \in [DOMAIN file -> 0 .. height]
  BY DEF DepthOK
<1>2. height + n \in Nat /\ n \in 0 .. height + n
      /\ \A m \in 0 .. height : m \in 0 .. height + n
  BY <1>1
<1>3. Extended(depth, p, n) \in [DOMAIN file \cup {p} -> 0 .. height + n]
  BY <1>1, <1>2 DEF Extended
<1> QED BY <1>1, <1>2, <1>3 DEF Extended, AtDepth

LEMMA InnerAdded ==
  ASSUME NEW file, NEW depth, NEW rank, Good(file, depth, rank),
         NEW node, IsInner(node, DOMAIN file, MaxKeys),
         NEW n \in Nat, node.children \in Seq(AtDepth(depth, n))
  PROVE  \E r : Good(WithPage(file, NewPage(file), node),
                     Extended(depth, NewPage(file), n + 1), r)
<1> DEFINE p == NewPage(file)
           new == WithPage(file, p, node)
           d == Extended(depth, p, n + 1)
           r == Extended(rank, p, 0)
<1>1. /\ p \notin DOMAIN file /\ Numbered(new) /\ DOMAIN new = DOMAIN file \cup {p}
      /\ p # 0
  BY NewPageNumber DEF Good, PagesOK
<1>2. \A q \in DOMAIN new : new[q] = IF q = p THEN node ELSE file[q]
  BY <1>1 DEF WithPage
<1>3. ~node.is_leaf /\ IsNode(node, DOMAIN file, MaxKeys)
  BY DEF IsInner, InnerNode, IsNode
<1>4. \A m : AtDepth(depth, m) \subseteq AtDepth(d, m)
  <2>1. n + 1 \in Nat /\ DepthOK(file, depth)
    BY DEF Good
  <2> QED BY <1>1, <2>1, DepthExtended
<1>5. /\ \E height \in Nat : d \in [DOMAIN new -> 0 .. height]
      /\ \A q \in DOMAIN file : d[q] = depth[q]
      /\ d[p] = n + 1
  <2>1. n + 1 \in Nat /\ DepthOK(file, depth)
    BY DEF Good
  <2>2. /\ \E height \in Nat : d \in [DOMAIN file \cup {p} -> 0 .. height]
        /\ \A q \in DOMAIN file : d[q] = depth[q]
        /\ d[p] = n + 1
    <3>1. p \notin DOMAIN file
      BY <1>1
    <3> HIDE DEF p
    <3>2. \E height \in Nat : d \in [DOMAIN file \cup {p} -> 0 .. height]
      BY ONLY <2>1, <3>1, DepthExtended
    <3>3. (\A q \in DOMAIN file : d[q] = depth[q]) /\ d[p] = n + 1
      BY <2>1, <3>1 DEF DepthOK, Extended
    <3> QED BY <3>2, <3>3
  <2> HIDE DEF d, p, new
  <2> QED BY <1>1, <2>2
<1>6. /\ \E bound \in Nat : r \in [DOMAIN new -> 0 .. bound]
      /\ \A q \in DOMAIN file : r[q] = rank[q]
  BY <1>1 DEF Extended, Good, RankOK
<1> HIDE DEF new, d, r, p
<1>7. PagesOK(new)
  <2>1. \A q \in DOMAIN file : IsNode(file[q], DOMAIN file, MaxKeys)
    BY DEF Good, PagesOK
  <2>2. \A q \in DOMAIN new : IsNode(new[q], DOMAIN new, MaxKeys)
    BY <1>1, <1>2, <1>3, <2>1, NodeOfMore
  <2> QED BY <1>1, <2>2 DEF PagesOK
<1>8. DepthOK(new, d)
  <2>1. ASSUME NEW q \in DOMAIN new
        PROVE  IF new[q].is_leaf THEN d[q] = 0
               ELSE d[q] >= 1 /\ new[q].children \in Seq(AtDepth(d, d[q] - 1))
    <3>1. CASE q = p
      <4>1. node.children \in Seq(AtDepth(d, n))
        BY <1>4, SeqOfMore
      <4>2. d[q] >= 1 /\ d[q] - 1 = n
        BY <1>5, <3>1
      <4> QED BY <1>1, <1>2, <1>3, <3>1, <4>1, <4>2
    <3>2. CASE q # p
      <4>1. q \in DOMAIN file /\ new[q] = file[q] /\ d[q] = depth[q]
        BY <1>1, <1>2, <1>5, <3>2
      <4>2. IF file[q].is_leaf THEN depth[q] = 0
            ELSE depth[q] >= 1 /\ file[q].children \in Seq(AtDepth(depth, depth[q] - 1))
        BY <4>1 DEF Good, DepthOK
      <4>3. ~file[q].is_leaf => file[q].children \in Seq(AtDepth(d, depth[q] - 1))
        BY <1>4, <4>2, SeqOfMore
      <4> QED BY <4>1, <4>2, <4>3
    <3> QED BY <3>1, <3>2
  <2> QED BY <1>5, <2>1 DEF DepthOK
<1>9. RankOK(new, r)
  <2>1. ASSUME NEW q \in DOMAIN new, new[q].is_leaf, new[q].next_leaf # 0
        PROVE  new[new[q].next_leaf].is_leaf /\ r[new[q].next_leaf] < r[q]
    <3>1. q \in DOMAIN file /\ new[q] = file[q]
      BY <1>1, <1>2, <1>3, <2>1
    <3>2. IsLeaf(file[q], DOMAIN file, MaxKeys)
      BY <2>1, <3>1, NodeOfMore DEF Good, PagesOK
    <3>3. file[q].next_leaf \in DOMAIN file
      BY <2>1, <3>1, <3>2 DEF IsLeaf, LeafNode
    <3> QED BY <1>1, <1>2, <1>6, <2>1, <3>1, <3>3 DEF Good, RankOK
  <2> QED BY <1>6, <2>1 DEF RankOK
<1>10. Good(new, d, r)
  BY <1>7, <1>8, <1>9 DEF Good
<1> QED BY <1>10 DEF new, d, p

(* A leaf that links to a new one, which links to where the first did.     *)
LEMMA LeafAdded ==
  ASSUME NEW file, NEW depth, NEW rank, Good(file, depth, rank),
         NEW p \in DOMAIN file, file[p].is_leaf,
         NEW left, IsLeaf(left, DOMAIN file \cup {NewPage(file)}, MaxKeys),
         left.next_leaf = NewPage(file),
         NEW node, IsLeaf(node, DOMAIN file, MaxKeys), node.next_leaf = file[p].next_leaf
  PROVE  \E r : Good(WithPage([file EXCEPT ![p] = left], NewPage(file), node),
                     Extended(depth, NewPage(file), 0), r)
<1> DEFINE n == NewPage(file)
           changed == [file EXCEPT ![p] = left]
           new == WithPage(changed, n, node)
           d == Extended(depth, n, 0)
           r == [q \in DOMAIN file \cup {n} |->
                   IF q = n THEN rank[p]
                   ELSE IF q = p \/ rank[q] > rank[p] THEN rank[q] + 1 ELSE rank[q]]
<1>1. n \notin DOMAIN file /\ n # 0 /\ 0 \notin DOMAIN file /\ Numbered(new)
  <2>1. DOMAIN changed = DOMAIN file /\ NewPage(changed) = NewPage(file)
    BY DEF NewPage
  <2>2. Numbered(changed)
    BY DEF Good, PagesOK, Numbered
  <2> QED BY <2>1, <2>2, NewPageNumber
<1>2. /\ DOMAIN new = DOMAIN file \cup {n}
      /\ \A q \in DOMAIN new :
           new[q] = IF q = n THEN node ELSE IF q = p THEN left ELSE file[q]
  BY <1>1 DEF WithPage
<1>3. /\ left.is_leaf /\ node.is_leaf
      /\ IsNode(left, DOMAIN file \cup {n}, MaxKeys) /\ IsNode(node, DOMAIN file, MaxKeys)
  BY DEF IsLeaf, LeafNode, IsNode
<1>4. /\ \E height \in Nat : depth \in [DOMAIN file -> 0 .. height]
      /\ \E height \in Nat : d \in [DOMAIN file \cup {n} -> 0 .. height]
      /\ \A q \in DOMAIN file : d[q] = depth[q]
      /\ d[n] = 0 /\ \A m : AtDepth(depth, m) \subseteq AtDepth(d, m)
  BY <1>1 DEF Extended, Good, DepthOK, AtDepth
<1>5. PICK bound \in Nat : rank \in [DOMAIN file -> 0 .. bound]
  BY DEF Good, RankOK
<1>6. r \in [DOMAIN file \cup {n} -> 0 .. bound + 1]
  BY <1>5
<1>7. /\ r[n] = rank[p]
      /\ \A q \in DOMAIN file :
           r[q] = IF q = p \/ rank[q] > rank[p] THEN rank[q] + 1 ELSE rank[q]
  BY <1>1
<1> HIDE DEF changed, new, d, r, n
<1>8. PagesOK(new)
  <2>1. \A q \in DOMAIN file : IsNode(file[q], DOMAIN file, MaxKeys)
    BY DEF Good, PagesOK
  <2>2. \A q \in DOMAIN new : IsNode(new[q], DOMAIN new, MaxKeys)
    BY <1>1, <1>2, <1>3, <2>1, NodeOfMore
  <2> QED BY <1>1, <2>2 DEF PagesOK
<1>9. DepthOK(new, d)
  <2>1. ASSUME NEW q \in DOMAIN new
        PROVE  IF new[q].is_leaf THEN d[q] = 0
               ELSE d[q] >= 1 /\ new[q].children \in Seq(AtDepth(d, d[q] - 1))
    <3>1. CASE q = n
      BY <1>2, <1>3, <1>4, <3>1
    <3>2. CASE q = p
      BY <1>1, <1>2, <1>3, <1>4, <3>2 DEF Good, DepthOK
    <3>3. CASE q # n /\ q # p
      <4>1. q \in DOMAIN file /\ new[q] = file[q] /\ d[q] = depth[q]
        BY <1>2, <1>4, <3>3
      <4>2. IF file[q].is_leaf THEN depth[q] = 0
            ELSE depth[q] >= 1 /\ file[q].children \in Seq(AtDepth(depth, depth[q] - 1))
        BY <4>1 DEF Good, DepthOK
      <4>3. ~file[q].is_leaf => file[q].children \in Seq(AtDepth(d, depth[q] - 1))
        BY <1>4, <4>2, SeqOfMore
      <4> QED BY <4>1, <4>2, <4>3
    <3> QED BY <3>1, <3>2, <3>3
  <2> QED BY <1>2, <1>4, <2>1 DEF DepthOK
<1>10. RankOK(new, r)
  <2>1. ASSUME NEW q \in DOMAIN file, file[q].is_leaf, file[q].next_leaf # 0
        PROVE  /\ file[q].next_leaf \in DOMAIN file /\ file[file[q].next_leaf].is_leaf
               /\ rank[file[q].next_leaf] < rank[q]
    <3>1. IsLeaf(file[q], DOMAIN file, MaxKeys)
      BY <2>1, NodeOfMore DEF Good, PagesOK
    <3> QED BY <2>1, <3>1 DEF IsLeaf, LeafNode, Good, RankOK
  <2>2. \A q \in DOMAIN file : rank[q] \in Nat
    BY <1>5
  <2>3. ASSUME NEW q \in DOMAIN file, file[q].is_leaf PROVE new[q].is_leaf
    BY <1>1, <1>2, <1>3, <2>3
  <2>4. ASSUME NEW q \in DOMAIN new, new[q].is_leaf, new[q].next_leaf # 0
        PROVE  new[new[q].next_leaf].is_leaf /\ r[new[q].next_leaf] < r[q]
    <3>1. CASE q = n
      <4>1. /\ new[q].next_leaf = file[p].next_leaf /\ file[p].next_leaf # 0
            /\ r[q] = rank[p]
        BY <1>2, <1>7, <2>4, <3>1
      <4>2. /\ file[p].next_leaf \in DOMAIN file /\ file[file[p].next_leaf].is_leaf
            /\ rank[file[p].next_leaf] < rank[p]
        BY <2>1, <4>1
      <4>3. r[file[p].next_leaf] = rank[file[p].next_leaf]
        BY <1>7, <2>2, <4>2
      <4> QED BY <2>3, <4>1, <4>2, <4>3
    <3>2. CASE q = p
      <4>1. new[q].next_leaf = n /\ new[n].is_leaf /\ r[n] = rank[p] /\ r[q] = rank[p] + 1
        BY <1>1, <1>2, <1>3, <1>7, <3>2 DEF n
      <4> QED BY <2>2, <4>1
    <3>3. CASE q # n /\ q # p
      <4>1. q \in DOMAIN file /\ new[q] = file[q]
        BY <1>2, <3>3
      <4>2. /\ file[q].next_leaf \in DOMAIN file /\ file[file[q].next_leaf].is_leaf
            /\ rank[file[q].next_leaf] < rank[q]
        BY <2>1, <2>4, <4>1
      <4>3. r[file[q].next_leaf] < r[q]
        BY <1>7, <2>2, <3>3, <4>1, <4>2
      <4> QED BY <2>3, <4>1, <4>2, <4>3
    <3> QED BY <3>1, <3>2, <3>3
  <2>5. bound + 1 \in Nat
    BY <1>5
  <2> QED BY <1>2, <1>6, <2>4, <2>5 DEF RankOK
<1>11. Good(new, d, r)
  BY <1>8, <1>9, <1>10 DEF Good
<1> QED BY <1>11 DEF new, d, n, changed

-----------------------------------------------------------------------------
(* Storing a node, split or not.                                           *)

LEMMA Halves ==
  ASSUME NEW n \in Nat, n = MaxKeys + 1
  PROVE  /\ n \div 2 \in Nat /\ 1 <= n \div 2 /\ n \div 2 + 2 <= n
         /\ n \div 2 <= MaxKeys /\ n - n \div 2 <= MaxKeys
         /\ MaxKeys \in Nat
<1>1. MaxKeys \in Nat /\ MaxKeys >= 2
  BY TreeAssumption
<1> QED BY <1>1

LEMMA SplitLeafParts ==
  ASSUME NEW within, NEW more, within \subseteq more, NEW right \in more, NEW node,
         IsLeaf(node, within, MaxKeys + 1),
         Len(node.keys) > MaxKeys,
         NEW mid \in Nat, 1 <= mid, mid + 2 <= Len(node.keys), mid <= MaxKeys,
         Len(node.keys) - mid <= MaxKeys
  PROVE  LET left == Leaf(SubSeq(node.keys, 1, mid), SubSeq(node.values, 1, mid), right)
             new == Leaf(SubSeq(node.keys, mid + 1, Len(node.keys)),
                         SubSeq(node.values, mid + 1, Len(node.keys)), node.next_leaf)
         IN  /\ IsLeaf(left, more, MaxKeys) /\ left.next_leaf = right
             /\ IsLeaf(new, within, MaxKeys) /\ new.next_leaf = node.next_leaf
             /\ new.keys[1] \in Key
<1> DEFINE n == Len(node.keys)
<1>1. /\ node.keys \in Seq(Key) /\ node.values \in Seq(RowId) /\ Len(node.values) = n
      /\ node.next_leaf \in within \cup {0} /\ n \in Nat /\ n <= MaxKeys + 1
  BY DEF IsLeaf, LeafNode
<1>2. n = MaxKeys + 1
  BY <1>1, TreeAssumption
<1>3. /\ mid \in Nat /\ 1 <= mid /\ mid + 2 <= n /\ mid <= MaxKeys /\ n - mid <= MaxKeys
      /\ MaxKeys \in Nat
  BY TreeAssumption
<1>4. /\ SubSeq(node.keys, 1, mid) \in Seq(Key) /\ Len(SubSeq(node.keys, 1, mid)) = mid
      /\ SubSeq(node.values, 1, mid) \in Seq(RowId) /\ Len(SubSeq(node.values, 1, mid)) = mid
  <2>1. mid - 1 + 1 = mid /\ 1 <= mid + 1 /\ mid <= n
    BY <1>1, <1>3
  <2> QED BY <1>1, <1>3, <2>1, SubSeqType
<1>5. /\ SubSeq(node.keys, mid + 1, n) \in Seq(Key)
      /\ Len(SubSeq(node.keys, mid + 1, n)) = n - mid
      /\ SubSeq(node.values, mid + 1, n) \in Seq(RowId)
      /\ Len(SubSeq(node.values, mid + 1, n)) = n - mid
  <2>1. n - (mid + 1) + 1 = n - mid /\ 1 <= mid + 1 /\ mid + 1 <= n + 1 /\ mid + 1 \in Nat
    BY <1>1, <1>3
  <2> QED BY <1>1, <1>3, <2>1, SubSeqType
<1> DEFINE leftKeys == SubSeq(node.keys, 1, mid)
           leftValues == SubSeq(node.values, 1, mid)
           newKeys == SubSeq(node.keys, mid + 1, n)
           newValues == SubSeq(node.values, mid + 1, n)
<1>6. newKeys[1] \in Key
  <2>1. newKeys \in Seq(Key) /\ Len(newKeys) >= 1
    BY <1>1, <1>3, <1>5
  <2> HIDE DEF newKeys
  <2> QED BY <2>1
<1>7. /\ leftKeys \in Seq(Key) /\ leftValues \in Seq(RowId)
      /\ newKeys \in Seq(Key) /\ newValues \in Seq(RowId)
      /\ Len(leftKeys) <= MaxKeys /\ Len(leftValues) = Len(leftKeys)
      /\ Len(newKeys) <= MaxKeys /\ Len(newValues) = Len(newKeys)
  BY <1>3, <1>4, <1>5
<1> HIDE DEF leftKeys, leftValues, newKeys, newValues
<1>8. /\ IsLeaf(Leaf(leftKeys, leftValues, right), more, MaxKeys)
      /\ Leaf(leftKeys, leftValues, right).next_leaf = right
      /\ IsLeaf(Leaf(newKeys, newValues, node.next_leaf), within, MaxKeys)
      /\ Leaf(newKeys, newValues, node.next_leaf).next_leaf = node.next_leaf
      /\ Leaf(newKeys, newValues, node.next_leaf).keys[1] \in Key
  BY <1>1, <1>6, <1>7 DEF Leaf, IsLeaf, LeafNode
<1> QED BY <1>8 DEF leftKeys, leftValues, newKeys, newValues

LEMMA SplitInternalParts ==
  ASSUME NEW within, NEW below, NEW node, IsInner(node, within, MaxKeys + 1),
         below \subseteq within, node.children \in Seq(below), Len(node.keys) > MaxKeys,
         NEW mid \in Nat, 1 <= mid, mid + 2 <= Len(node.keys), mid <= MaxKeys,
         Len(node.keys) - mid <= MaxKeys
  PROVE  LET left == Internal(SubSeq(node.keys, 1, mid), SubSeq(node.children, 1, mid + 1))
             new == Internal(SubSeq(node.keys, mid + 2, Len(node.keys)),
                             SubSeq(node.children, mid + 2, Len(node.children)))
         IN  /\ IsInner(left, within, MaxKeys) /\ left.children \in Seq(below)
             /\ IsInner(new, within, MaxKeys) /\ new.children \in Seq(below)
             /\ node.keys[mid + 1] \in Key
<1> DEFINE n == Len(node.keys)
<1>1. /\ node.keys \in Seq(Key) /\ Len(node.children) = n + 1
      /\ n \in Nat /\ n <= MaxKeys + 1
  BY DEF IsInner, InnerNode
<1>2. n = MaxKeys + 1
  BY <1>1, TreeAssumption
<1>3. /\ mid \in Nat /\ 1 <= mid /\ mid + 2 <= n /\ mid <= MaxKeys /\ n - mid <= MaxKeys
      /\ MaxKeys \in Nat
  BY TreeAssumption
<1>4. /\ SubSeq(node.keys, 1, mid) \in Seq(Key) /\ Len(SubSeq(node.keys, 1, mid)) = mid
      /\ SubSeq(node.children, 1, mid + 1) \in Seq(below)
      /\ Len(SubSeq(node.children, 1, mid + 1)) = mid + 1
  <2>1. /\ mid - 1 + 1 = mid /\ 1 <= mid + 1 /\ mid <= n
        /\ (mid + 1) - 1 + 1 = mid + 1 /\ 1 <= (mid + 1) + 1 /\ mid + 1 <= n + 1
        /\ mid + 1 \in Nat
    BY <1>1, <1>3
  <2>2. SubSeq(node.keys, 1, mid) \in Seq(Key) /\ Len(SubSeq(node.keys, 1, mid)) = mid
    BY <1>1, <1>3, <2>1, SubSeqType
  <2>3. /\ SubSeq(node.children, 1, mid + 1) \in Seq(below)
        /\ Len(SubSeq(node.children, 1, mid + 1)) = mid + 1
    BY <1>1, <1>3, <2>1, SubSeqType
  <2> QED BY <2>2, <2>3
<1>5. /\ SubSeq(node.keys, mid + 2, n) \in Seq(Key)
      /\ Len(SubSeq(node.keys, mid + 2, n)) = n - mid - 1
      /\ SubSeq(node.children, mid + 2, n + 1) \in Seq(below)
      /\ Len(SubSeq(node.children, mid + 2, n + 1)) = n - mid
  <2>1. /\ n - (mid + 2) + 1 = n - mid - 1 /\ 1 <= mid + 2 /\ mid + 2 <= n + 1
        /\ mid + 2 \in Nat
        /\ (n + 1) - (mid + 2) + 1 = n - mid /\ mid + 2 <= (n + 1) + 1 /\ n + 1 \in Nat
    BY <1>1, <1>3
  <2>2. /\ SubSeq(node.keys, mid + 2, n) \in Seq(Key)
        /\ Len(SubSeq(node.keys, mid + 2, n)) = n - mid - 1
    BY <1>1, <2>1, SubSeqType
  <2>3. /\ SubSeq(node.children, mid + 2, n + 1) \in Seq(below)
        /\ Len(SubSeq(node.children, mid + 2, n + 1)) = n - mid
    BY <1>1, <2>1, SubSeqType
  <2> QED BY <2>2, <2>3
<1>6. node.keys[mid + 1] \in Key
  <2>1. mid + 1 \in 1 .. n
    BY <1>1, <1>3
  <2> QED BY <1>1, <2>1
<1> DEFINE leftKeys == SubSeq(node.keys, 1, mid)
           leftChildren == SubSeq(node.children, 1, mid + 1)
           newKeys == SubSeq(node.keys, mid + 2, n)
           newChildren == SubSeq(node.children, mid + 2, n + 1)
<1>7. /\ leftKeys \in Seq(Key) /\ leftChildren \in Seq(below) /\ leftChildren \in Seq(within)
      /\ newKeys \in Seq(Key) /\ newChildren \in Seq(below) /\ newChildren \in Seq(within)
      /\ 1 <= Len(leftKeys) /\ Len(leftKeys) <= MaxKeys
      /\ Len(leftChildren) = Len(leftKeys) + 1
      /\ 1 <= Len(newKeys) /\ Len(newKeys) <= MaxKeys
      /\ Len(newChildren) = Len(newKeys) + 1
  BY <1>1, <1>3, <1>4, <1>5, SeqOfMore
<1> HIDE DEF leftKeys, leftChildren, newKeys, newChildren
<1>8. /\ IsInner(Internal(leftKeys, leftChildren), within, MaxKeys)
      /\ Internal(leftKeys, leftChildren).children \in Seq(below)
      /\ IsInner(Internal(newKeys, newChildren), within, MaxKeys)
      /\ Internal(newKeys, newChildren).children \in Seq(below)
  BY <1>7 DEF Internal, IsInner, InnerNode
<1> QED BY <1>1, <1>6, <1>8 DEF leftKeys, leftChildren, newKeys, newChildren

LEMMA StoreOrSplitOutcome ==
  ASSUME NEW file, NEW depth, NEW rank, Good(file, depth, rank), NEW p \in DOMAIN file,
         NEW node, IsNode(node, DOMAIN file, MaxKeys + 1), node.is_leaf = file[p].is_leaf,
         node.is_leaf => node.next_leaf = file[p].next_leaf,
         ~node.is_leaf => node.children \in Seq(AtDepth(depth, depth[p] - 1))
  PROVE  /\ Outcome(StoreOrSplit(file, p, node), file, depth, p)
         /\ StoreOrSplit(file, p, node).right = 0 =>
              StoreOrSplit(file, p, node).nodes = [file EXCEPT ![p] = node]
<1> DEFINE n == NewPage(file)
           mid == Len(node.keys) \div 2
<1>1. /\ n \in Nat \ {0} /\ n \notin DOMAIN file
      /\ \A new : /\ DOMAIN WithPage(file, n, new) = DOMAIN file \cup {n}
                  /\ Numbered(WithPage(file, n, new))
  BY NewPageNumber DEF Good, PagesOK
<1>2. /\ Len(node.keys) \in Nat /\ Len(node.keys) <= MaxKeys + 1 /\ MaxKeys \in Nat
      /\ DOMAIN depth = DOMAIN file
  <2>1. node.keys \in Seq(Key) /\ Len(node.keys) <= MaxKeys + 1
    BY DEF IsNode, IsLeaf, IsInner, LeafNode, InnerNode
  <2>2. DOMAIN depth = DOMAIN file
    BY DEF Good, DepthOK
  <2> QED BY <2>1, <2>2, TreeAssumption
<1>3. CASE Len(node.keys) <= MaxKeys
  <2>1. IsNode(node, DOMAIN file, MaxKeys)
    BY <1>3 DEF IsNode, IsLeaf, IsInner
  <2> DEFINE r == Stored([file EXCEPT ![p] = node], 0, 0)
  <2>2. StoreOrSplit(file, p, node) = r
    BY <1>3 DEF StoreOrSplit, NoSplit
  <2>3. r.nodes = [file EXCEPT ![p] = node] /\ r.right = 0
    BY DEF Stored
  <2> HIDE DEF r
  <2>4. Good(r.nodes, depth, rank) /\ DOMAIN r.nodes = DOMAIN file
    BY <2>1, <2>3, Replaced
  <2> QED BY <2>2, <2>3, <2>4 DEF Outcome
<1>4. ASSUME ~(Len(node.keys) <= MaxKeys)
      PROVE  /\ mid \in Nat /\ 1 <= mid /\ mid + 2 <= Len(node.keys) /\ mid <= MaxKeys
             /\ Len(node.keys) - mid <= MaxKeys
             /\ Len(node.keys) > MaxKeys
  <2>1. Len(node.keys) = MaxKeys + 1
    BY <1>2, <1>4
  <2> QED BY <1>2, <2>1, Halves
<1>5. CASE ~(Len(node.keys) <= MaxKeys) /\ node.is_leaf
  <2>1. IsLeaf(node, DOMAIN file, MaxKeys + 1) /\ file[p].is_leaf
    BY <1>5, NodeOfMore
  <2> DEFINE left == Leaf(SubSeq(node.keys, 1, mid), SubSeq(node.values, 1, mid), n)
             new == Leaf(SubSeq(node.keys, mid + 1, Len(node.keys)),
                         SubSeq(node.values, mid + 1, Len(node.keys)), node.next_leaf)
             r == Stored(WithPage([file EXCEPT ![p] = left], n, new), new.keys[1], n)
  <2>2. StoreOrSplit(file, p, node) = r
    BY <1>5 DEF StoreOrSplit, SplitLeaf
  <2>3. /\ IsLeaf(left, DOMAIN file \cup {n}, MaxKeys) /\ left.next_leaf = n
        /\ IsLeaf(new, DOMAIN file, MaxKeys) /\ new.next_leaf = node.next_leaf
        /\ new.keys[1] \in Key
    <3>1. /\ mid \in Nat /\ 1 <= mid /\ mid + 2 <= Len(node.keys) /\ mid <= MaxKeys
          /\ Len(node.keys) - mid <= MaxKeys
          /\ Len(node.keys) > MaxKeys
      BY <1>4, <1>5
    <3> DEFINE more == DOMAIN file \cup {n}
    <3>2. DOMAIN file \subseteq more /\ n \in more
      OBVIOUS
    <3> HIDE DEF mid, n, more
    <3>3. /\ IsLeaf(left, more, MaxKeys) /\ left.next_leaf = n
          /\ IsLeaf(new, DOMAIN file, MaxKeys) /\ new.next_leaf = node.next_leaf
          /\ new.keys[1] \in Key
      BY ONLY <2>1, <3>1, <3>2, SplitLeafParts
    <3> QED BY <3>3 DEF more
  <2>4. r.nodes = WithPage([file EXCEPT ![p] = left], n, new) /\ r.right = n /\ r.sep = new.keys[1]
    BY DEF Stored
  <2>5. DOMAIN WithPage([file EXCEPT ![p] = left], n, new) = DOMAIN file \cup {n}
    BY DEF WithPage
  <2> HIDE DEF left, new, r
  <2>6. PICK k : Good(r.nodes, Extended(depth, n, 0), k)
    BY <1>5, <2>1, <2>3, <2>4, LeafAdded
  <2> DEFINE d == Extended(depth, n, 0)
  <2>7. d[n] = 0 /\ \A q \in DOMAIN file : d[q] = depth[q]
    BY <1>1, <1>2 DEF Extended
  <2>8. depth[p] = 0
    BY <2>1 DEF Good, DepthOK
  <2> HIDE DEF n, d
  <2>9. Good(r.nodes, d, k) /\ r.right # 0
    BY <1>1, <2>4, <2>6 DEF d
  <2> QED BY <1>1, <2>2, <2>3, <2>4, <2>5, <2>7, <2>8, <2>9 DEF Outcome
<1>6. CASE ~(Len(node.keys) <= MaxKeys) /\ ~node.is_leaf
  <2>1. IsInner(node, DOMAIN file, MaxKeys + 1) /\ ~file[p].is_leaf
    BY <1>6, NodeOfMore
  <2> DEFINE left == Internal(SubSeq(node.keys, 1, mid), SubSeq(node.children, 1, mid + 1))
             new == Internal(SubSeq(node.keys, mid + 2, Len(node.keys)),
                             SubSeq(node.children, mid + 2, Len(node.children)))
             changed == [file EXCEPT ![p] = left]
             r == Stored(WithPage(changed, n, new), node.keys[mid + 1], n)
             below == AtDepth(depth, depth[p] - 1)
  <2>2. StoreOrSplit(file, p, node) = r
    BY <1>6 DEF StoreOrSplit, SplitInternal
  <2>3. /\ IsInner(left, DOMAIN file, MaxKeys) /\ left.children \in Seq(below)
        /\ IsInner(new, DOMAIN file, MaxKeys) /\ new.children \in Seq(below)
        /\ node.keys[mid + 1] \in Key
    <3>1. /\ mid \in Nat /\ 1 <= mid /\ mid + 2 <= Len(node.keys) /\ mid <= MaxKeys
          /\ Len(node.keys) - mid <= MaxKeys
          /\ Len(node.keys) > MaxKeys
      BY <1>4, <1>6
    <3>2. below \subseteq DOMAIN file /\ node.children \in Seq(below)
      BY <1>2, <1>6 DEF AtDepth
    <3> HIDE DEF mid, below
    <3> QED BY <2>1, <3>1, <3>2, SplitInternalParts
  <2>4. r.nodes = WithPage(changed, n, new) /\ r.right = n /\ r.sep = node.keys[mid + 1]
    BY DEF Stored
  <2>5. DOMAIN WithPage(changed, n, new) = DOMAIN file \cup {n}
    BY DEF WithPage
  <2>6. IsNode(left, DOMAIN file, MaxKeys) /\ left.is_leaf = file[p].is_leaf /\ ~left.is_leaf
    <3>1. IsInner(file[p], DOMAIN file, MaxKeys)
      BY <2>1, NodeOfMore DEF Good, PagesOK
    <3> HIDE DEF left
    <3> QED BY <2>3, <3>1 DEF IsNode, IsInner, InnerNode
  <2>7. depth[p] \in Nat /\ depth[p] - 1 \in Nat /\ (depth[p] - 1) + 1 = depth[p]
    BY <2>1 DEF Good, DepthOK
  <2> HIDE DEF left, new, r, mid
  <2>8. Good(changed, depth, rank) /\ DOMAIN changed = DOMAIN file
    BY <2>1, <2>3, <2>6, Replaced
  <2>9. NewPage(changed) = n
    BY <2>8 DEF NewPage
  <2> HIDE DEF changed, n, below
  <2>10. PICK k : Good(r.nodes, Extended(depth, n, depth[p]), k)
    BY <2>3, <2>4, <2>7, <2>8, <2>9, InnerAdded DEF below
  <2> DEFINE d == Extended(depth, n, depth[p])
  <2>11. d[n] = depth[p] /\ \A q \in DOMAIN file : d[q] = depth[q]
    BY <1>1, <1>2 DEF Extended
  <2> HIDE DEF d
  <2>12. Good(r.nodes, d, k) /\ r.right # 0
    BY <1>1, <2>4, <2>10 DEF d
  <2> QED BY <1>1, <2>2, <2>3, <2>4, <2>5, <2>11, <2>12 DEF Outcome
<1> QED BY <1>3, <1>5, <1>6

-----------------------------------------------------------------------------
(* Walking down the tree.                                                  *)

LEMMA Children ==
  ASSUME NEW depth, NEW rank, Good(nodes, depth, rank), NEW p \in DOMAIN nodes,
         ~nodes[p].is_leaf
  PROVE  /\ IsInner(nodes[p], DOMAIN nodes, MaxKeys)
         /\ depth[p] \in Nat /\ depth[p] >= 1
         /\ nodes[p].keys \in Seq(Key) /\ Len(nodes[p].keys) \in Nat
         /\ nodes[p].children \in Seq(AtDepth(depth, depth[p] - 1))
         /\ Len(nodes[p].children) = Len(nodes[p].keys) + 1
         /\ \A i \in 1 .. Len(nodes[p].keys) + 1 :
              nodes[p].children[i] \in AtDepth(depth, depth[p] - 1)
         /\ \A c \in AtDepth(depth, depth[p] - 1) :
              c \in DOMAIN nodes /\ depth[c] = depth[p] - 1
<1>1. IsInner(nodes[p], DOMAIN nodes, MaxKeys)
  BY NodeOfMore DEF Good, PagesOK
<1>2. /\ nodes[p].keys \in Seq(Key) /\ Len(nodes[p].keys) \in Nat
      /\ Len(nodes[p].children) = Len(nodes[p].keys) + 1
  BY <1>1 DEF IsInner, InnerNode
<1>3. /\ depth[p] \in Nat /\ depth[p] >= 1 /\ DOMAIN depth = DOMAIN nodes
      /\ nodes[p].children \in Seq(AtDepth(depth, depth[p] - 1))
  BY DEF Good, DepthOK
<1>4. \A i \in 1 .. Len(nodes[p].keys) + 1 :
        nodes[p].children[i] \in AtDepth(depth, depth[p] - 1)
  BY <1>2, <1>3
<1> QED BY <1>1, <1>2, <1>3, <1>4 DEF AtDepth

LEMMA TheChild ==
  ASSUME NEW depth, NEW rank, Good(nodes, depth, rank), NEW p \in DOMAIN nodes,
         ~nodes[p].is_leaf, NEW key
  PROVE  /\ BisectLeft(nodes[p].keys, key) + 1 \in 1 .. Len(nodes[p].children)
         /\ BisectRight(nodes[p].keys, key) + 1 \in 1 .. Len(nodes[p].children)
         /\ nodes[p].children[BisectLeft(nodes[p].keys, key) + 1]
              \in AtDepth(depth, depth[p] - 1)
         /\ nodes[p].children[BisectRight(nodes[p].keys, key) + 1]
              \in AtDepth(depth, depth[p] - 1)
<1>1. /\ Len(nodes[p].keys) \in Nat /\ DOMAIN nodes[p].keys = 1 .. Len(nodes[p].keys)
      /\ Len(nodes[p].children) = Len(nodes[p].keys) + 1
      /\ \A i \in 1 .. Len(nodes[p].keys) + 1 :
           nodes[p].children[i] \in AtDepth(depth, depth[p] - 1)
  BY Children
<1>2. /\ BisectLeft(nodes[p].keys, key) \in 0 .. Len(nodes[p].keys)
      /\ BisectRight(nodes[p].keys, key) \in 0 .. Len(nodes[p].keys)
  BY <1>1, BisectType
<1>3. /\ BisectLeft(nodes[p].keys, key) + 1 \in 1 .. Len(nodes[p].keys) + 1
      /\ BisectRight(nodes[p].keys, key) + 1 \in 1 .. Len(nodes[p].keys) + 1
  BY <1>1, <1>2
<1> QED BY <1>1, <1>3

(* What is so of a page if it is of all less deep ones is so of every page.*)
LEMMA ByDepth ==
  ASSUME NEW depth, NEW rank, Good(nodes, depth, rank), NEW T \in SUBSET DOMAIN nodes,
         \A p \in DOMAIN nodes :
           (\A c \in DOMAIN nodes : depth[c] < depth[p] => c \in T) => p \in T
  PROVE  T = DOMAIN nodes
<1> SUFFICES ASSUME DOMAIN nodes \ T # {} PROVE FALSE
  OBVIOUS
<1> DEFINE D == {depth[p] : p \in DOMAIN nodes \ T}
<1>1. \A p \in DOMAIN nodes : depth[p] \in Nat
  BY DEF Good, DepthOK
<1>2. PICK n \in D : \A m \in D : n <= m
  <2>1. D \in SUBSET Nat /\ D # {}
    BY <1>1
  <2> HIDE DEF D
  <2> QED BY <2>1, LeastNumber
<1>3. PICK p \in DOMAIN nodes \ T : depth[p] = n
  OBVIOUS
<1>4. ASSUME NEW c \in DOMAIN nodes, depth[c] < depth[p] PROVE c \in T
  <2>1. c \notin T => depth[c] \in D
    OBVIOUS
  <2>2. n \in Nat
    BY <1>1, <1>3
  <2> HIDE DEF D
  <2> QED BY <1>1, <1>2, <1>3, <1>4, <2>1, <2>2
<1> QED BY <1>3, <1>4

LEMMA DownSame ==
  ASSUME NEW depth, NEW rank, Good(nodes, depth, rank), NEW p \in DOMAIN nodes,
         NEW f, NEW g, NEW key,
         nodes[p].is_leaf \/ \A c \in AtDepth(depth, depth[p] - 1) : f[c] = g[c]
  PROVE  DownStep(f, key, p) = DownStep(g, key, p)
BY TheChild DEF DownStep

LEMMA DownExists ==
  ASSUME NEW depth, NEW rank, Good(nodes, depth, rank), NEW key
  PROVE  \E f : f = [p \in DOMAIN nodes |-> DownStep(f, key, p)]
<1> DEFINE To(n) == {p \in DOMAIN nodes : depth[p] < n}
           T == {n \in Nat : \E f : f = [p \in To(n) |-> DownStep(f, key, p)]}
<1>1. PICK height \in Nat : depth \in [DOMAIN nodes -> 0 .. height]
  BY DEF Good, DepthOK
<1>2. 0 \in T
  <2> DEFINE f == [p \in {} |-> 0]
  <2>1. To(0) = {}
    BY <1>1
  <2>2. f = [p \in To(0) |-> DownStep(f, key, p)]
    BY <2>1
  <2> HIDE DEF f, To
  <2> QED BY <2>2
<1>3. ASSUME NEW n \in Nat, n \in T PROVE n + 1 \in T
  <2>1. PICK f : f = [p \in To(n) |-> DownStep(f, key, p)]
    BY <1>3
  <2> DEFINE g == [p \in To(n + 1) |-> DownStep(f, key, p)]
  <2>2. ASSUME NEW p \in To(n + 1) PROVE DownStep(f, key, p) = DownStep(g, key, p)
    <3>1. ~nodes[p].is_leaf =>
            \A c \in AtDepth(depth, depth[p] - 1) : c \in To(n) /\ c \in To(n + 1)
      BY <1>1 DEF AtDepth
    <3>2. \A c \in To(n) : c \in To(n + 1) => f[c] = g[c]
      BY <2>1
    <3> HIDE DEF g
    <3>3. nodes[p].is_leaf \/ \A c \in AtDepth(depth, depth[p] - 1) : f[c] = g[c]
      BY <3>1, <3>2
    <3> QED BY <3>3, DownSame
  <2>3. g = [p \in To(n + 1) |-> DownStep(g, key, p)]
    <3>1. g = [p \in To(n + 1) |-> DownStep(f, key, p)]
      OBVIOUS
    <3> HIDE DEF g, To
    <3> QED BY <2>2, <3>1
  <2>4. n + 1 \in Nat
    OBVIOUS
  <2> HIDE DEF g, To
  <2> QED BY <2>3, <2>4
<1>4. Nat \subseteq T
  <2> HIDE DEF T
  <2> QED BY <1>2, <1>3, AllNumbers
<1>5. To(height + 1) = DOMAIN nodes
  BY <1>1
<1>6. height + 1 \in T
  <2>1. height + 1 \in Nat
    BY <1>1
  <2> HIDE DEF T
  <2> QED BY <1>4, <2>1
<1> QED BY <1>5, <1>6

LEMMA FindLeafFinds ==
  ASSUME NEW depth, NEW rank, Good(nodes, depth, rank), NEW key, root \in DOMAIN nodes
  PROVE  FindLeaf(key) \in Leaves
<1> DEFINE down == CHOOSE f : f = [p \in DOMAIN nodes |-> DownStep(f, key, p)]
<1>1. down = [p \in DOMAIN nodes |-> DownStep(down, key, p)]
  BY DownExists
<1>2. FindLeaf(key) = down[root]
  BY DEF FindLeaf, DownStep
<1> HIDE DEF down
<1> DEFINE T == {p \in DOMAIN nodes : down[p] \in Leaves}
<1>3. ASSUME NEW p \in DOMAIN nodes,
             \A c \in DOMAIN nodes : depth[c] < depth[p] => c \in T
      PROVE  p \in T
  <2>1. down[p] = DownStep(down, key, p)
    BY <1>1
  <2>2. CASE nodes[p].is_leaf
    BY <2>1, <2>2 DEF DownStep, Leaves
  <2>3. CASE ~nodes[p].is_leaf
    <3> DEFINE c == nodes[p].children[BisectLeft(nodes[p].keys, key) + 1]
    <3>1. c \in AtDepth(depth, depth[p] - 1)
      BY <2>3, TheChild
    <3> HIDE DEF c
    <3>2. c \in DOMAIN nodes /\ depth[c] = depth[p] - 1 /\ depth[p] \in Nat
      BY <2>3, <3>1, Children
    <3>3. c \in T
      BY <1>3, <3>2
    <3>4. down[p] = down[c]
      BY <2>1, <2>3 DEF DownStep, c
    <3> QED BY <3>3, <3>4
  <2> QED BY <2>2, <2>3
<1>4. T = DOMAIN nodes
  <2>1. T \in SUBSET DOMAIN nodes
    OBVIOUS
  <2> HIDE DEF T
  <2> QED BY <1>3, <2>1, ByDepth
<1> QED BY <1>2, <1>4

LEMMA DepthSame ==
  ASSUME NEW depth, NEW rank, Good(nodes, depth, rank), NEW p \in DOMAIN nodes,
         NEW f, NEW g,
         nodes[p].is_leaf \/ \A c \in AtDepth(depth, depth[p] - 1) : f[c] = g[c]
  PROVE  DepthStep(f, p) = DepthStep(g, p)
<1>1. CASE nodes[p].is_leaf
  BY <1>1 DEF DepthStep
<1>2. CASE ~nodes[p].is_leaf
  <2>1. \A c \in ToSet(nodes[p].children) : c \in AtDepth(depth, depth[p] - 1)
    BY <1>2, Children DEF ToSet
  <2>2. \A c \in ToSet(nodes[p].children) : f[c] = g[c]
    BY <1>2, <2>1
  <2> QED BY <1>2, <2>2 DEF DepthStep
<1> QED BY <1>1, <1>2

LEMMA DepthsExist ==
  ASSUME NEW depth, NEW rank, Good(nodes, depth, rank)
  PROVE  \E f : f = [p \in DOMAIN nodes |-> DepthStep(f, p)]
<1> DEFINE To(n) == {p \in DOMAIN nodes : depth[p] < n}
           T == {n \in Nat : \E f : f = [p \in To(n) |-> DepthStep(f, p)]}
<1>1. PICK height \in Nat : depth \in [DOMAIN nodes -> 0 .. height]
  BY DEF Good, DepthOK
<1>2. 0 \in T
  <2> DEFINE f == [p \in {} |-> 0]
  <2>1. To(0) = {}
    BY <1>1
  <2>2. f = [p \in To(0) |-> DepthStep(f, p)]
    BY <2>1
  <2> HIDE DEF f, To
  <2> QED BY <2>2
<1>3. ASSUME NEW n \in Nat, n \in T PROVE n + 1 \in T
  <2>1. PICK f : f = [p \in To(n) |-> DepthStep(f, p)]
    BY <1>3
  <2> DEFINE g == [p \in To(n + 1) |-> DepthStep(f, p)]
  <2>2. ASSUME NEW p \in To(n + 1) PROVE DepthStep(f, p) = DepthStep(g, p)
    <3>1. ~nodes[p].is_leaf =>
            \A c \in AtDepth(depth, depth[p] - 1) : c \in To(n) /\ c \in To(n + 1)
      BY <1>1 DEF AtDepth
    <3>2. \A c \in To(n) : c \in To(n + 1) => f[c] = g[c]
      BY <2>1
    <3> HIDE DEF g
    <3>3. nodes[p].is_leaf \/ \A c \in AtDepth(depth, depth[p] - 1) : f[c] = g[c]
      BY <3>1, <3>2
    <3> QED BY <3>3, DepthSame
  <2>3. g = [p \in To(n + 1) |-> DepthStep(g, p)]
    <3>1. g = [p \in To(n + 1) |-> DepthStep(f, p)]
      OBVIOUS
    <3> HIDE DEF g, To
    <3> QED BY <2>2, <3>1
  <2>4. n + 1 \in Nat
    OBVIOUS
  <2> HIDE DEF g, To
  <2> QED BY <2>3, <2>4
<1>4. Nat \subseteq T
  <2> HIDE DEF T
  <2> QED BY <1>2, <1>3, AllNumbers
<1>5. To(height + 1) = DOMAIN nodes
  BY <1>1
<1>6. height + 1 \in T
  <2>1. height + 1 \in Nat
    BY <1>1
  <2> HIDE DEF T
  <2> QED BY <1>4, <2>1
<1> QED BY <1>5, <1>6

LEMMA GoodIsBalanced ==
  ASSUME NEW depth, NEW rank, Good(nodes, depth, rank), root \in DOMAIN nodes
  PROVE  Balanced
<1> DEFINE depths == CHOOSE f : f = [p \in DOMAIN nodes |-> DepthStep(f, p)]
<1>1. depths = [p \in DOMAIN nodes |-> DepthStep(depths, p)]
  BY DepthsExist
<1>2. Balanced <=> Cardinality(depths[root]) = 1
  BY DEF Balanced, DepthStep
<1> HIDE DEF depths
<1> DEFINE T == {p \in DOMAIN nodes : depths[p] = {depth[p]}}
<1>3. ASSUME NEW p \in DOMAIN nodes,
             \A c \in DOMAIN nodes : depth[c] < depth[p] => c \in T
      PROVE  p \in T
  <2>1. depths[p] = DepthStep(depths, p)
    BY <1>1
  <2>2. CASE nodes[p].is_leaf
    BY <2>1, <2>2 DEF DepthStep, Good, DepthOK
  <2>3. CASE ~nodes[p].is_leaf
    <3>1. /\ depth[p] \in Nat /\ Len(nodes[p].children) >= 1
          /\ nodes[p].children \in Seq(AtDepth(depth, depth[p] - 1))
          /\ \A c \in AtDepth(depth, depth[p] - 1) :
               c \in DOMAIN nodes /\ depth[c] = depth[p] - 1
      BY <2>3, Children
    <3>2. \A c \in AtDepth(depth, depth[p] - 1) : depths[c] = {depth[p] - 1}
      BY <1>3, <3>1
    <3>3. ToSet(nodes[p].children) \subseteq AtDepth(depth, depth[p] - 1)
      BY <3>1 DEF ToSet
    <3>4. nodes[p].children[1] \in ToSet(nodes[p].children)
      BY <3>1 DEF ToSet
    <3>5. \A c \in ToSet(nodes[p].children) : {d + 1 : d \in depths[c]} = {depth[p]}
      <4> SUFFICES ASSUME NEW c \in ToSet(nodes[p].children)
                   PROVE  {d + 1 : d \in depths[c]} = {depth[p]}
        OBVIOUS
      <4>1. depths[c] = {depth[p] - 1}
        BY <3>2, <3>3
      <4>2. (depth[p] - 1) + 1 = depth[p]
        BY <3>1
      <4> QED BY ONLY <4>1, <4>2
    <3>6. UNION {{d + 1 : d \in depths[c]} : c \in ToSet(nodes[p].children)} = {depth[p]}
      <4>1. PICK S : S = ToSet(nodes[p].children)
        OBVIOUS
      <4>2. PICK z : z = {depth[p]}
        OBVIOUS
      <4>3. PICK c0 \in S : \A c \in S : {d + 1 : d \in depths[c]} = z
        BY <3>4, <3>5, <4>1, <4>2
      <4>4. \A x : x \in UNION {{d + 1 : d \in depths[c]} : c \in S} <=> x \in z
        BY ONLY c0 \in S, <4>3
      <4> QED BY <4>1, <4>2, <4>4
    <3> QED BY <2>1, <2>3, <3>6 DEF DepthStep
  <2> QED BY <2>2, <2>3
<1>4. T = DOMAIN nodes
  <2>1. T \in SUBSET DOMAIN nodes
    OBVIOUS
  <2> HIDE DEF T
  <2> QED BY <1>3, <2>1, ByDepth
<1> QED BY <1>2, <1>4, FS_Singleton

-----------------------------------------------------------------------------
(* Inserting.                                                              *)

LEMMA UpSame ==
  ASSUME NEW depth, NEW rank, Good(nodes, depth, rank), NEW p \in DOMAIN nodes,
         NEW f, NEW g, NEW key, NEW rowid,
         nodes[p].is_leaf \/ \A c \in AtDepth(depth, depth[p] - 1) : f[c] = g[c]
  PROVE  UpStep(f, key, rowid, p) = UpStep(g, key, rowid, p)
BY TheChild DEF UpStep

LEMMA UpExists ==
  ASSUME NEW depth, NEW rank, Good(nodes, depth, rank), NEW key, NEW rowid
  PROVE  \E f : f = [p \in DOMAIN nodes |-> UpStep(f, key, rowid, p)]
<1> DEFINE To(n) == {p \in DOMAIN nodes : depth[p] < n}
           T == {n \in Nat : \E f : f = [p \in To(n) |-> UpStep(f, key, rowid, p)]}
<1>1. PICK height \in Nat : depth \in [DOMAIN nodes -> 0 .. height]
  BY DEF Good, DepthOK
<1>2. 0 \in T
  <2> DEFINE f == [p \in {} |-> 0]
  <2>1. To(0) = {}
    BY <1>1
  <2>2. f = [p \in To(0) |-> UpStep(f, key, rowid, p)]
    BY <2>1
  <2> HIDE DEF f, To
  <2> QED BY <2>2
<1>3. ASSUME NEW n \in Nat, n \in T PROVE n + 1 \in T
  <2>1. PICK f : f = [p \in To(n) |-> UpStep(f, key, rowid, p)]
    BY <1>3
  <2> DEFINE g == [p \in To(n + 1) |-> UpStep(f, key, rowid, p)]
  <2>2. ASSUME NEW p \in To(n + 1) PROVE UpStep(f, key, rowid, p) = UpStep(g, key, rowid, p)
    <3>1. ~nodes[p].is_leaf =>
            \A c \in AtDepth(depth, depth[p] - 1) : c \in To(n) /\ c \in To(n + 1)
      BY <1>1 DEF AtDepth
    <3>2. \A c \in To(n) : c \in To(n + 1) => f[c] = g[c]
      BY <2>1
    <3> HIDE DEF g
    <3>3. nodes[p].is_leaf \/ \A c \in AtDepth(depth, depth[p] - 1) : f[c] = g[c]
      BY <3>1, <3>2
    <3> QED BY <3>3, UpSame
  <2>3. g = [p \in To(n + 1) |-> UpStep(g, key, rowid, p)]
    <3>1. g = [p \in To(n + 1) |-> UpStep(f, key, rowid, p)]
      OBVIOUS
    <3> HIDE DEF g, To
    <3> QED BY <2>2, <3>1
  <2>4. n + 1 \in Nat
    OBVIOUS
  <2> HIDE DEF g, To
  <2> QED BY <2>3, <2>4
<1>4. Nat \subseteq T
  <2> HIDE DEF T
  <2> QED BY <1>2, <1>3, AllNumbers
<1>5. To(height + 1) = DOMAIN nodes
  BY <1>1
<1>6. height + 1 \in T
  <2>1. height + 1 \in Nat
    BY <1>1
  <2> HIDE DEF T
  <2> QED BY <1>4, <2>1
<1> QED BY <1>5, <1>6

LEMMA InsertInLeaf ==
  ASSUME NEW depth, NEW rank, Good(nodes, depth, rank), NEW p \in DOMAIN nodes,
         nodes[p].is_leaf, NEW key \in Key, NEW rowid \in RowId, NEW f
  PROVE  InsertOutcome(UpStep(f, key, rowid, p), depth, p)
<1> DEFINE n == BisectRight(nodes[p].keys, key)
           keys == InsertAt(nodes[p].keys, n + 1, key)
           values == InsertAt(nodes[p].values, n + 1, rowid)
           node == Leaf(keys, values, nodes[p].next_leaf)
           r == StoreOrSplit(nodes, p, node)
<1>1. IsLeaf(nodes[p], DOMAIN nodes, MaxKeys)
  BY NodeOfMore DEF Good, PagesOK
<1>2. /\ nodes[p].keys \in Seq(Key) /\ nodes[p].values \in Seq(RowId)
      /\ Len(nodes[p].values) = Len(nodes[p].keys) /\ Len(nodes[p].keys) \in Nat
      /\ Len(nodes[p].keys) <= MaxKeys /\ nodes[p].next_leaf \in DOMAIN nodes \cup {0}
      /\ nodes[p].is_leaf = TRUE /\ MaxKeys \in Nat
  BY <1>1, TreeAssumption DEF IsLeaf, LeafNode
<1>3. n + 1 \in 1 .. Len(nodes[p].keys) + 1
  <2>1. DOMAIN nodes[p].keys = 1 .. Len(nodes[p].keys)
    BY <1>2
  <2>2. n \in 0 .. Len(nodes[p].keys)
    BY <1>2, <2>1, BisectType
  <2> HIDE DEF n
  <2> QED BY <1>2, <2>2
<1> HIDE DEF n
<1>4. /\ keys \in Seq(Key) /\ Len(keys) = Len(nodes[p].keys) + 1
      /\ values \in Seq(RowId) /\ Len(values) = Len(nodes[p].values) + 1
  <2>1. n + 1 \in 1 .. Len(nodes[p].values) + 1
    BY <1>2, <1>3
  <2>2. keys \in Seq(Key) /\ Len(keys) = Len(nodes[p].keys) + 1
    BY ONLY <1>2, <1>3, key \in Key, InsertAtType
  <2>3. values \in Seq(RowId) /\ Len(values) = Len(nodes[p].values) + 1
    <3>1. nodes[p].values \in Seq(RowId)
      BY <1>2
    <3> QED BY ONLY <2>1, <3>1, rowid \in RowId, InsertAtType
  <2> QED BY <2>2, <2>3
<1> HIDE DEF keys, values
<1>5. /\ IsLeaf(node, DOMAIN nodes, MaxKeys + 1) /\ node.is_leaf = nodes[p].is_leaf
      /\ node.is_leaf /\ node.next_leaf = nodes[p].next_leaf
  BY <1>2, <1>4 DEF Leaf, IsLeaf, LeafNode
<1> HIDE DEF node
<1>6. /\ Outcome(r, nodes, depth, p)
      /\ r.right = 0 => r.nodes = [nodes EXCEPT ![p] = node]
  <2>1. IsNode(node, DOMAIN nodes, MaxKeys + 1)
    BY <1>5 DEF IsNode
  <2>2. /\ node.is_leaf => node.next_leaf = nodes[p].next_leaf
        /\ ~node.is_leaf => node.children \in Seq(AtDepth(depth, depth[p] - 1))
        /\ node.is_leaf = nodes[p].is_leaf
    BY <1>5
  <2> QED BY ONLY Good(nodes, depth, rank), p \in DOMAIN nodes, <2>1, <2>2,
                  StoreOrSplitOutcome
<1> HIDE DEF r
<1>7. ASSUME DOMAIN r.nodes = DOMAIN nodes
      PROVE  r.right = 0 /\ \A q \in DOMAIN nodes : SameShape(r.nodes[q], nodes[q])
  <2>1. r.right = 0
    BY <1>6, <1>7 DEF Outcome
  <2>2. \A q \in DOMAIN nodes : r.nodes[q] = IF q = p THEN node ELSE nodes[q]
    BY <1>6, <2>1
  <2> QED BY <1>5, <2>1, <2>2 DEF SameShape
<1>8. UpStep(f, key, rowid, p) = r
  BY DEF UpStep, r, node, keys, values, n
<1> QED BY <1>6, <1>7, <1>8 DEF InsertOutcome

LEMMA InsertBelow ==
  ASSUME NEW depth, NEW rank, Good(nodes, depth, rank), NEW p \in DOMAIN nodes,
         ~nodes[p].is_leaf, NEW key \in Key, NEW rowid \in RowId, NEW f,
         NEW c, c = nodes[p].children[BisectRight(nodes[p].keys, key) + 1],
         InsertOutcome(f[c], depth, c)
  PROVE  InsertOutcome(UpStep(f, key, rowid, p), depth, p)
<1>1. CASE f[c].right = 0
  <2>1. UpStep(f, key, rowid, p) = f[c]
    BY <1>1 DEF UpStep
  <2> QED BY <1>1, <2>1 DEF InsertOutcome, Outcome
<1>2. CASE f[c].right # 0
  <2> DEFINE below == f[c]
             n == BisectRight(nodes[p].keys, key)
             keys == InsertAt(nodes[p].keys, n + 1, below.sep)
             children == InsertAt(nodes[p].children, n + 2, below.right)
             node == Internal(keys, children)
             r == StoreOrSplit(below.nodes, p, node)
  <2>1. UpStep(f, key, rowid, p) = r
    BY <1>2 DEF UpStep
  <2>2. PICK d, k :
          /\ Good(below.nodes, d, k)
          /\ DOMAIN nodes \subseteq DOMAIN below.nodes
          /\ \A q \in DOMAIN nodes : d[q] = depth[q]
          /\ below.right \in DOMAIN below.nodes \ DOMAIN nodes
          /\ below.sep \in Key /\ d[below.right] = depth[c]
    BY <1>2 DEF InsertOutcome, Outcome
  <2>3. /\ IsInner(nodes[p], DOMAIN nodes, MaxKeys)
        /\ depth[p] \in Nat /\ depth[p] >= 1
        /\ nodes[p].keys \in Seq(Key) /\ Len(nodes[p].keys) \in Nat
        /\ nodes[p].children \in Seq(AtDepth(depth, depth[p] - 1))
        /\ Len(nodes[p].children) = Len(nodes[p].keys) + 1
    BY Children
  <2>4. n \in 0 .. Len(nodes[p].keys) /\ depth[c] = depth[p] - 1
    <3>1. DOMAIN nodes[p].keys = 1 .. Len(nodes[p].keys)
      BY <2>3
    <3>2. n \in 0 .. Len(nodes[p].keys)
      BY <2>3, <3>1, BisectType
    <3>3. c \in AtDepth(depth, depth[p] - 1)
      BY TheChild
    <3> QED BY <3>2, <3>3 DEF AtDepth
  <2>5. n + 1 \in 1 .. Len(nodes[p].keys) + 1 /\ n + 2 \in 1 .. Len(nodes[p].children) + 1
    <3> HIDE DEF n
    <3> QED BY <2>3, <2>4
  <2> HIDE DEF n, below
  <2>6. /\ DOMAIN depth = DOMAIN nodes /\ DOMAIN d = DOMAIN below.nodes
        /\ d[p] = depth[p] /\ MaxKeys \in Nat
    BY <2>2, TreeAssumption DEF Good, DepthOK
  <2> DEFINE lower == AtDepth(d, d[p] - 1)
  <2>7. /\ lower \subseteq DOMAIN below.nodes /\ below.right \in lower
        /\ AtDepth(depth, depth[p] - 1) \subseteq lower
    BY <2>2, <2>4, <2>6 DEF AtDepth
  <2> HIDE DEF lower
  <2>8. nodes[p].children \in Seq(lower)
    BY <2>3, <2>7, SeqOfMore
  <2>9. keys \in Seq(Key) /\ Len(keys) = Len(nodes[p].keys) + 1
    <3>1. below.sep \in Key /\ nodes[p].keys \in Seq(Key)
      BY <2>2, <2>3
    <3> QED BY ONLY <2>5, <3>1, InsertAtType
  <2>10. /\ children \in Seq(lower) /\ Len(children) = Len(nodes[p].children) + 1
         /\ children \in Seq(DOMAIN below.nodes)
    <3>1. children \in Seq(lower) /\ Len(children) = Len(nodes[p].children) + 1
      BY <2>5, <2>7, <2>8, InsertAtType
    <3> HIDE DEF children
    <3> QED BY <2>7, <3>1, SeqOfMore
  <2>11. 1 <= Len(nodes[p].keys) /\ Len(nodes[p].keys) <= MaxKeys
    BY <2>3 DEF IsInner
  <2> HIDE DEF keys, children
  <2>12. /\ IsInner(node, DOMAIN below.nodes, MaxKeys + 1) /\ node.children \in Seq(lower)
         /\ node.is_leaf = FALSE
    <3>1. /\ Len(keys) >= 1 /\ Len(keys) <= MaxKeys + 1
          /\ Len(children) = Len(keys) + 1
      BY <2>3, <2>6, <2>9, <2>10, <2>11
    <3> QED BY <2>9, <2>10, <3>1 DEF Internal, IsInner, InnerNode
  <2> HIDE DEF node
  <2>13. below.nodes[p].is_leaf = FALSE
    <3>1. IsNode(below.nodes[p], DOMAIN below.nodes, MaxKeys)
      BY <2>2 DEF Good, PagesOK
    <3>2. ~below.nodes[p].is_leaf
      BY <2>2, <2>3, <2>6 DEF Good, DepthOK
    <3> QED BY <3>1, <3>2 DEF IsNode, IsLeaf, IsInner, LeafNode, InnerNode
  <2>14. Outcome(r, below.nodes, d, p)
    BY <2>2, <2>12, <2>13, StoreOrSplitOutcome DEF IsNode, lower
  <2> HIDE DEF r
  <2>15. PICK d2, k2 :
           /\ Good(r.nodes, d2, k2)
           /\ DOMAIN below.nodes \subseteq DOMAIN r.nodes
           /\ \A q \in DOMAIN below.nodes : d2[q] = d[q]
           /\ r.right # 0 => /\ r.right \in DOMAIN r.nodes \ DOMAIN below.nodes
                             /\ r.sep \in Key /\ d2[r.right] = d[p]
    BY <2>14 DEF Outcome
  <2>16. Outcome(r, nodes, depth, p)
    <3>1. /\ DOMAIN nodes \subseteq DOMAIN r.nodes
          /\ \A q \in DOMAIN nodes : d2[q] = depth[q]
          /\ r.right # 0 => /\ r.right \in DOMAIN r.nodes \ DOMAIN nodes
                            /\ r.sep \in Key /\ d2[r.right] = depth[p]
      BY <2>2, <2>6, <2>15
    <3> QED BY <2>15, <3>1 DEF Outcome
  <2>17. DOMAIN r.nodes # DOMAIN nodes
    BY <2>2, <2>15
  <2> QED BY <2>1, <2>16, <2>17 DEF InsertOutcome
<1> QED BY <1>1, <1>2

LEMMA InsertIntoOutcome ==
  ASSUME NEW depth, NEW rank, Good(nodes, depth, rank), root \in DOMAIN nodes,
         NEW key \in Key, NEW rowid \in RowId
  PROVE  InsertOutcome(InsertInto(key, rowid), depth, root)
<1> DEFINE up == CHOOSE f : f = [p \in DOMAIN nodes |-> UpStep(f, key, rowid, p)]
<1>1. up = [p \in DOMAIN nodes |-> UpStep(up, key, rowid, p)]
  BY UpExists
<1>2. InsertInto(key, rowid) = up[root]
  BY DEF InsertInto, UpStep
<1> HIDE DEF up
<1> DEFINE T == {p \in DOMAIN nodes : InsertOutcome(up[p], depth, p)}
<1>3. ASSUME NEW p \in DOMAIN nodes,
             \A c \in DOMAIN nodes : depth[c] < depth[p] => c \in T
      PROVE  p \in T
  <2>1. up[p] = UpStep(up, key, rowid, p)
    BY <1>1
  <2>2. CASE nodes[p].is_leaf
    BY <2>1, <2>2, InsertInLeaf
  <2>3. CASE ~nodes[p].is_leaf
    <3>1. PICK c : c = nodes[p].children[BisectRight(nodes[p].keys, key) + 1]
      OBVIOUS
    <3>2. c \in AtDepth(depth, depth[p] - 1)
      BY <2>3, <3>1, TheChild
    <3>3. c \in DOMAIN nodes /\ depth[c] = depth[p] - 1 /\ depth[p] \in Nat
      BY <2>3, <3>2, Children
    <3>4. InsertOutcome(up[c], depth, c)
      BY <1>3, <3>3
    <3> QED BY <2>1, <2>3, <3>1, <3>4, InsertBelow
  <2> QED BY <2>2, <2>3
<1>4. T = DOMAIN nodes
  <2>1. T \in SUBSET DOMAIN nodes
    OBVIOUS
  <2> HIDE DEF T
  <2> QED BY <1>3, <2>1, ByDepth
<1> QED BY <1>2, <1>4

(* The new root above a root that has split.                               *)
LEMMA GrowsOutcome ==
  ASSUME NEW depth, NEW rank, Good(nodes, depth, rank), root \in DOMAIN nodes,
         NEW result, Outcome(result, nodes, depth, root), result.right # 0,
         NEW new, new = WithPage(result.nodes, NewPage(result.nodes),
                                 Internal(<<result.sep>>, <<root, result.right>>))
  PROVE  /\ \E d, k : Good(new, d, k) /\ \A q \in DOMAIN nodes : d[q] = depth[q]
         /\ NewPage(result.nodes) \in DOMAIN new
         /\ DOMAIN nodes \subseteq DOMAIN new /\ DOMAIN new # DOMAIN nodes
<1> DEFINE node == Internal(<<result.sep>>, <<root, result.right>>)
<1>1. PICK d, k :
        /\ Good(result.nodes, d, k)
        /\ DOMAIN nodes \subseteq DOMAIN result.nodes
        /\ \A q \in DOMAIN nodes : d[q] = depth[q]
        /\ result.right \in DOMAIN result.nodes \ DOMAIN nodes
        /\ result.sep \in Key /\ d[result.right] = depth[root]
  BY DEF Outcome
<1>2. DOMAIN d = DOMAIN result.nodes /\ depth[root] \in Nat /\ MaxKeys \in Nat /\ MaxKeys >= 1
  BY <1>1, TreeAssumption DEF Good, DepthOK
<1>3. PICK n \in Nat : n = depth[root]
  BY <1>2
<1> DEFINE level == AtDepth(d, n)
<1>4. root \in level /\ result.right \in level /\ level \subseteq DOMAIN result.nodes
  BY <1>1, <1>2, <1>3 DEF AtDepth
<1> HIDE DEF level
<1>5. /\ <<result.sep>> \in Seq(Key) /\ Len(<<result.sep>>) = 1
      /\ <<root, result.right>> \in Seq(level) /\ Len(<<root, result.right>>) = 2
      /\ <<root, result.right>> \in Seq(DOMAIN result.nodes)
  <2>1. root \in DOMAIN result.nodes /\ result.right \in DOMAIN result.nodes
    BY <1>1
  <2>2. <<result.sep>> \in Seq(Key) /\ Len(<<result.sep>>) = 1
    BY <1>1, ShortSeq
  <2>3. <<root, result.right>> \in Seq(level) /\ Len(<<root, result.right>>) = 2
    BY ONLY <1>4, ShortSeq
  <2>4. <<root, result.right>> \in Seq(DOMAIN result.nodes)
    BY ONLY <2>1, ShortSeq
  <2> QED BY <2>2, <2>3, <2>4
<1>6. /\ node.is_leaf = FALSE /\ node.keys = <<result.sep>>
      /\ node.children = <<root, result.right>>
      /\ node \in InnerNode(DOMAIN result.nodes)
  BY <1>5 DEF Internal, InnerNode
<1> HIDE DEF node
<1>7. IsInner(node, DOMAIN result.nodes, MaxKeys)
  BY <1>2, <1>5, <1>6 DEF IsInner
<1>8. node.children \in Seq(AtDepth(d, n))
  BY <1>5, <1>6 DEF level
<1>9. \E r : Good(WithPage(result.nodes, NewPage(result.nodes), node),
                  Extended(d, NewPage(result.nodes), n + 1), r)
  BY <1>1, <1>7, <1>8, InnerAdded
<1>10. new = WithPage(result.nodes, NewPage(result.nodes), node)
  BY DEF node
<1>11. DOMAIN new = DOMAIN result.nodes \cup {NewPage(result.nodes)}
  BY <1>1, <1>10, NewPageNumber DEF Good, PagesOK
<1>12. \A q \in DOMAIN nodes : Extended(d, NewPage(result.nodes), n + 1)[q] = depth[q]
  <2>1. NewPage(result.nodes) \notin DOMAIN result.nodes
    BY <1>1, NewPageNumber DEF Good, PagesOK
  <2> QED BY <1>1, <1>2, <2>1 DEF Extended
<1> QED BY <1>1, <1>9, <1>10, <1>11, <1>12

-----------------------------------------------------------------------------
(* Deleting.                                                               *)

(* What is so of a leaf if it is of all of lower rank is so of every leaf. *)
LEMMA ByRank ==
  ASSUME NEW depth, NEW rank, Good(nodes, depth, rank), NEW T \in SUBSET Leaves,
         \A p \in Leaves : (\A q \in Leaves : rank[q] < rank[p] => q \in T) => p \in T
  PROVE  T = Leaves
<1> SUFFICES ASSUME Leaves \ T # {} PROVE FALSE
  OBVIOUS
<1> DEFINE R == {rank[p] : p \in Leaves \ T}
<1>1. \A p \in Leaves : rank[p] \in Nat
  BY DEF Good, RankOK, Leaves
<1>2. PICK n \in R : \A m \in R : n <= m
  <2>1. R \in SUBSET Nat /\ R # {}
    BY <1>1
  <2> HIDE DEF R
  <2> QED BY <2>1, LeastNumber
<1>3. PICK p \in Leaves \ T : rank[p] = n
  OBVIOUS
<1>4. ASSUME NEW q \in Leaves, rank[q] < rank[p] PROVE q \in T
  <2>1. q \notin T => rank[q] \in R
    OBVIOUS
  <2>2. n \in Nat /\ rank[q] \in Nat
    BY <1>1, <1>3
  <2> HIDE DEF R
  <2> QED BY <1>2, <1>3, <1>4, <2>1, <2>2
<1> QED BY <1>3, <1>4

(* The leaf behind a leaf.                                                 *)
LEMMA NextLeaf ==
  ASSUME NEW depth, NEW rank, Good(nodes, depth, rank), NEW p \in Leaves,
         nodes[p].next_leaf # 0
  PROVE  /\ nodes[p].next_leaf \in Leaves
         /\ rank[nodes[p].next_leaf] < rank[p]
<1>1. p \in DOMAIN nodes /\ nodes[p].is_leaf
  BY DEF Leaves
<1>2. IsLeaf(nodes[p], DOMAIN nodes, MaxKeys)
  BY <1>1, NodeOfMore DEF Good, PagesOK
<1>3. nodes[p].next_leaf \in DOMAIN nodes
  BY <1>2 DEF IsLeaf, LeafNode
<1> QED BY <1>1, <1>3 DEF Good, RankOK, Leaves

LEMMA FoundSame ==
  ASSUME NEW p, NEW f, NEW g, NEW key, NEW rowid,
         nodes[p].next_leaf # 0 => f[nodes[p].next_leaf] = g[nodes[p].next_leaf]
  PROVE  FoundStep(f, key, rowid, p) = FoundStep(g, key, rowid, p)
BY DEF FoundStep, WalksOn

LEMMA FoundExists ==
  ASSUME NEW depth, NEW rank, Good(nodes, depth, rank), NEW key, NEW rowid
  PROVE  \E f : f = [p \in Leaves |-> FoundStep(f, key, rowid, p)]
<1> DEFINE To(n) == {p \in Leaves : rank[p] < n}
           T == {n \in Nat : \E f : f = [p \in To(n) |-> FoundStep(f, key, rowid, p)]}
<1>1. PICK bound \in Nat : rank \in [DOMAIN nodes -> 0 .. bound]
  BY DEF Good, RankOK
<1>2. \A p \in Leaves : p \in DOMAIN nodes /\ rank[p] \in 0 .. bound
  BY <1>1 DEF Leaves
<1>3. 0 \in T
  <2> DEFINE f == [p \in {} |-> 0]
  <2>1. To(0) = {}
    BY <1>1, <1>2
  <2>2. f = [p \in To(0) |-> FoundStep(f, key, rowid, p)]
    BY <2>1
  <2> HIDE DEF f, To
  <2> QED BY <2>2
<1>4. ASSUME NEW n \in Nat, n \in T PROVE n + 1 \in T
  <2>1. PICK f : f = [p \in To(n) |-> FoundStep(f, key, rowid, p)]
    BY <1>4
  <2> DEFINE g == [p \in To(n + 1) |-> FoundStep(f, key, rowid, p)]
  <2>2. ASSUME NEW p \in To(n + 1)
        PROVE  FoundStep(f, key, rowid, p) = FoundStep(g, key, rowid, p)
    <3>1. nodes[p].next_leaf # 0 => nodes[p].next_leaf \in Leaves /\ rank[nodes[p].next_leaf] < rank[p]
      BY NextLeaf
    <3>2. nodes[p].next_leaf # 0 =>
            nodes[p].next_leaf \in To(n) /\ nodes[p].next_leaf \in To(n + 1)
      BY <1>2, <3>1
    <3>3. \A q \in To(n) : q \in To(n + 1) => f[q] = g[q]
      BY <2>1
    <3> HIDE DEF g, To
    <3> QED BY <3>2, <3>3, FoundSame
  <2>3. g = [p \in To(n + 1) |-> FoundStep(g, key, rowid, p)]
    <3>1. g = [p \in To(n + 1) |-> FoundStep(f, key, rowid, p)]
      OBVIOUS
    <3> HIDE DEF g, To
    <3> QED BY <2>2, <3>1
  <2>4. n + 1 \in Nat
    OBVIOUS
  <2> HIDE DEF g, To
  <2> QED BY <2>3, <2>4
<1>5. Nat \subseteq T
  <2> HIDE DEF T
  <2> QED BY <1>3, <1>4, AllNumbers
<1>6. To(bound + 1) = Leaves
  BY <1>1, <1>2
<1>7. bound + 1 \in T
  <2>1. bound + 1 \in Nat
    BY <1>1
  <2> HIDE DEF T
  <2> QED BY <1>5, <2>1
<1> QED BY <1>6, <1>7

LEMMA FoundInLeaf ==
  ASSUME NEW depth, NEW rank, Good(nodes, depth, rank), root \in DOMAIN nodes,
         NEW key, NEW rowid
  PROVE  IsPlace(Found(key, rowid), key, rowid)
<1> DEFINE from == CHOOSE f : f = [p \in Leaves |-> FoundStep(f, key, rowid, p)]
<1>1. from = [p \in Leaves |-> FoundStep(from, key, rowid, p)]
  BY FoundExists
<1>2. Found(key, rowid) = from[FindLeaf(key)] /\ FindLeaf(key) \in Leaves
  BY FindLeafFinds DEF Found, FoundStep
<1> HIDE DEF from
<1> DEFINE T == {p \in Leaves : IsPlace(from[p], key, rowid)}
<1>3. ASSUME NEW p \in Leaves, \A q \in Leaves : rank[q] < rank[p] => q \in T
      PROVE  p \in T
  <2>1. from[p] = FoundStep(from, key, rowid, p)
    BY <1>1
  <2>2. CASE Matches(nodes[p], key, rowid) # {}
    <3>1. Matches(nodes[p], key, rowid) \in SUBSET Nat
      <4>1. p \in DOMAIN nodes /\ nodes[p].is_leaf
        BY DEF Leaves
      <4>2. IsLeaf(nodes[p], DOMAIN nodes, MaxKeys)
        BY <4>1, NodeOfMore DEF Good, PagesOK
      <4>3. nodes[p].keys \in Seq(Key)
        BY <4>2 DEF IsLeaf, LeafNode
      <4> QED BY <4>3 DEF Matches
    <3>2. Min(Matches(nodes[p], key, rowid)) \in Matches(nodes[p], key, rowid)
      BY <2>2, <3>1, MinProperties
    <3>3. PICK i : i = Min(Matches(nodes[p], key, rowid))
      OBVIOUS
    <3>4. i \in DOMAIN nodes[p].keys /\ nodes[p].keys[i] = key /\ nodes[p].values[i] = rowid
      BY <3>2, <3>3 DEF Matches
    <3>5. from[p] = <<p, i>>
      BY <2>1, <2>2, <3>3 DEF FoundStep
    <3> QED BY <3>4, <3>5 DEF IsPlace
  <2>3. CASE Matches(nodes[p], key, rowid) = {} /\ WalksOn(nodes[p], key)
    <3>1. nodes[p].next_leaf \in Leaves /\ rank[nodes[p].next_leaf] < rank[p]
      BY <2>3, NextLeaf DEF WalksOn
    <3>2. from[p] = from[nodes[p].next_leaf]
      BY <2>1, <2>3 DEF FoundStep
    <3> QED BY <1>3, <3>1, <3>2
  <2>4. CASE Matches(nodes[p], key, rowid) = {} /\ ~WalksOn(nodes[p], key)
    BY <2>1, <2>4 DEF FoundStep, IsPlace
  <2> QED BY <2>2, <2>3, <2>4
<1>4. T = Leaves
  <2>1. T \in SUBSET Leaves
    OBVIOUS
  <2> HIDE DEF T
  <2> QED BY <1>3, <2>1, ByRank
<1> QED BY <1>2, <1>4

-----------------------------------------------------------------------------
(* What the file may be after a kill.                                      *)

LEMMA MixesAre ==
  ASSUME Numbered(nodes), NEW file \in Mixes
  PROVE  /\ file = [p \in DOMAIN nodes |-> file[p]]
         /\ \A p \in DOMAIN nodes : file[p] \in cand[p]
<1>1. PICK last \in Nat :
        /\ FirstRoot = 2 /\ DOMAIN nodes = 2 .. last /\ 2 <= last
        /\ NewPage(nodes) = last + 1
  <2>1. PICK last \in Nat : DOMAIN nodes = 2 .. last /\ 2 <= last
    BY DEF Numbered
  <2>2. Cardinality(2 .. last) = IF 2 > last THEN 0 ELSE last - 2 + 1
    BY <2>1, FS_Interval
  <2> QED BY <2>1, <2>2 DEF NewPage, FirstRoot
<1> DEFINE upTo == CHOOSE f : f = [p \in FirstRoot - 1 .. NewPage(nodes) - 1 |-> FilesUpTo(f, p)]
           IsMix(g, p) == /\ g = [q \in 2 .. p |-> g[q]]
                          /\ \A q \in 2 .. p : g[q] \in cand[q]
<1>2. FirstRoot - 1 .. NewPage(nodes) - 1 = 1 .. last /\ NewPage(nodes) - 1 = last
  BY <1>1
<1>3. Mixes = upTo[last]
  <2>1. Mixes = upTo[NewPage(nodes) - 1]
    BY DEF Mixes, FilesUpTo, Extensions
  <2> QED BY <1>2, <2>1
<1>4. \E f : f = [p \in 1 .. last |-> FilesUpTo(f, p)]
  <2> DEFINE Made == {n \in Nat : \E f : f = [p \in 1 .. n |-> FilesUpTo(f, p)]}
  <2>1. 0 \in Made
    <3> DEFINE f == [p \in 1 .. 0 |-> << >>]
    <3>1. f = [p \in 1 .. 0 |-> FilesUpTo(f, p)]
      OBVIOUS
    <3> HIDE DEF f
    <3> QED BY <3>1
  <2>2. ASSUME NEW n \in Nat, n \in Made PROVE n + 1 \in Made
    <3>1. PICK f : f = [p \in 1 .. n |-> FilesUpTo(f, p)]
      BY <2>2
    <3> DEFINE g == [p \in 1 .. n + 1 |-> IF p = n + 1 THEN FilesUpTo(f, p) ELSE f[p]]
    <3>2. ASSUME NEW p \in 1 .. n + 1 PROVE g[p] = FilesUpTo(g, p)
      <4>1. p \in Nat /\ p - 1 # n + 1 /\ (p >= 2 => p - 1 \in 1 .. n)
        OBVIOUS
      <4>2. p >= 2 => g[p - 1] = f[p - 1]
        BY <4>1
      <4>3. g[p] = FilesUpTo(f, p)
        <5>1. CASE p = n + 1
          BY <5>1
        <5>2. CASE p \in 1 .. n
          <6>1. f[p] = FilesUpTo(f, p)
            BY <3>1, <5>2
          <6> QED BY <5>2, <6>1
        <5> QED BY <5>1, <5>2
      <4> HIDE DEF g
      <4> QED BY <1>1, <4>1, <4>2, <4>3 DEF FilesUpTo
    <3>3. g = [p \in 1 .. n + 1 |-> g[p]]
      OBVIOUS
    <3> HIDE DEF g
    <3>4. g = [p \in 1 .. n + 1 |-> FilesUpTo(g, p)]
      BY <3>2, <3>3
    <3>5. n + 1 \in Nat
      OBVIOUS
    <3> QED BY <3>4, <3>5
  <2>3. Nat \subseteq Made
    <3> HIDE DEF Made
    <3> QED BY <2>1, <2>2, AllNumbers
  <2>4. last \in Made
    BY <1>1, <2>3
  <2> QED BY <2>4
<1>5. upTo = [p \in 1 .. last |-> FilesUpTo(upTo, p)]
  BY <1>2, <1>4
<1> HIDE DEF upTo
<1> DEFINE T == {p \in 1 .. last : \E g \in upTo[p] : ~IsMix(g, p)}
<1>6. T = {}
  <2> SUFFICES ASSUME T # {} PROVE FALSE
    OBVIOUS
  <2>1. PICK p \in T : \A q \in T : p <= q
    <3>1. T \in SUBSET Nat
      OBVIOUS
    <3> HIDE DEF T
    <3> QED BY <3>1, LeastNumber
  <2>2. PICK g \in upTo[p] : ~IsMix(g, p)
    BY <2>1
  <2>3. p \in 1 .. last /\ p \in Nat
    BY <1>1
  <2>4. CASE p < 2
    <3>1. upTo[p] = FilesUpTo(upTo, p)
      BY <1>5, <2>3
    <3>2. g = << >> /\ 2 .. p = {}
      BY <1>1, <2>2, <2>3, <2>4, <3>1 DEF FilesUpTo
    <3> QED BY <2>2, <3>2
  <2>5. CASE p >= 2
    <3>1. p - 1 \in 1 .. last /\ p - 1 \notin T
      BY <1>1, <2>1, <2>3, <2>5
    <3>2. PICK old \in upTo[p - 1], node \in cand[p] : g = WithPage(old, p, node)
      <4>1. upTo[p] = FilesUpTo(upTo, p)
        BY <1>5, <2>3
      <4>2. g \in Extensions(upTo[p - 1], p)
        BY <1>1, <2>2, <2>3, <2>5, <4>1 DEF FilesUpTo
      <4> QED BY <4>2 DEF Extensions
    <3>3. IsMix(old, p - 1)
      BY <3>1, <3>2
    <3>4. DOMAIN old = 2 .. p - 1 /\ (2 .. p - 1) \cup {p} = 2 .. p /\ p \notin 2 .. p - 1
      BY <2>3, <2>5, <3>3
    <3>5. DOMAIN g = 2 .. p /\ g = [q \in 2 .. p |-> IF q \in 2 .. p - 1 THEN old[q] ELSE node]
      BY <3>2, <3>4 DEF WithPage
    <3>6. IsMix(g, p)
      <4>1. ASSUME NEW q \in 2 .. p PROVE g[q] \in cand[q]
        <5>1. q \in 2 .. p - 1 \/ q = p
          BY <2>3
        <5> QED BY <3>2, <3>3, <3>5, <5>1
      <4> QED BY <3>5, <4>1
    <3> QED BY <2>2, <3>6
  <2> QED BY <2>3, <2>4, <2>5
<1>7. last \in 1 .. last
  BY <1>1
<1>8. IsMix(file, last)
  BY <1>6, <1>7, <1>3
<1> QED BY <1>1, <1>8

-----------------------------------------------------------------------------
(* The inductive invariant.                                                *)

LEMMA UnwrittenIsNoNode ==
  ASSUME NEW within, NEW max
  PROVE  ~IsNode(Unwritten, within, max)
<1>1. Unwritten.is_leaf = FALSE /\ Unwritten.keys = << >> /\ Len(Unwritten.keys) = 0
  BY DEF Unwritten, Internal
<1>2. ~IsLeaf(Unwritten, within, max)
  BY <1>1 DEF IsLeaf, LeafNode
<1>3. ~IsInner(Unwritten, within, max)
  BY <1>1 DEF IsInner
<1> QED BY <1>2, <1>3 DEF IsNode

LEMMA TypeOKFromInv == TreeInv => TypeOK
<1> SUFFICES ASSUME TreeInv PROVE TypeOK
  OBVIOUS
<1>1. DOMAIN nodes = FirstRoot .. FirstRoot + Cardinality(DOMAIN nodes) - 1
  <2>1. PICK last \in Nat : 2 <= last /\ DOMAIN nodes = 2 .. last
    BY DEF TreeInv, Numbered
  <2>2. Cardinality(2 .. last) = IF 2 > last THEN 0 ELSE last - 2 + 1
    BY <2>1, FS_Interval
  <2> QED BY <2>1, <2>2 DEF FirstRoot
<1>2. ASSUME NEW p \in DOMAIN nodes, NEW node \in cand[p] \ {Unwritten}
      PROVE  /\ node.keys \in Seq(Key) /\ Len(node.keys) <= MaxKeys
             /\ IF node.is_leaf
                  THEN /\ node.values \in Seq(RowId) /\ Len(node.values) = Len(node.keys)
                       /\ node.next_leaf \in DOMAIN nodes \cup {0}
                  ELSE /\ node.children \in Seq(DOMAIN nodes)
                       /\ Len(node.children) = Len(node.keys) + 1
                       /\ node.keys # << >>
  <2>1. IsNode(node, DOMAIN nodes, MaxKeys)
    BY <1>2 DEF TreeInv, Versions, Version
  <2>2. CASE IsLeaf(node, DOMAIN nodes, MaxKeys)
    BY <2>2 DEF IsLeaf, LeafNode
  <2>3. CASE IsInner(node, DOMAIN nodes, MaxKeys)
    <3>1. /\ node.is_leaf = FALSE /\ node.keys \in Seq(Key)
          /\ node.children \in Seq(DOMAIN nodes)
          /\ Len(node.children) = Len(node.keys) + 1
          /\ 1 <= Len(node.keys) /\ Len(node.keys) <= MaxKeys
      BY <2>3 DEF IsInner, InnerNode
    <3>2. node.keys # << >>
      BY <3>1
    <3> QED BY <3>1, <3>2
  <2> QED BY <2>1, <2>2, <2>3 DEF IsNode
<1> QED BY <1>1, <1>2 DEF TypeOK, TreeInv, Versions, Roots, Answered

LEMMA TreeInit == Init => TreeInv
<1> SUFFICES ASSUME Init PROVE TreeInv
  OBVIOUS
<1> DEFINE empty == Leaf(<< >>, << >>, 0)
           zero == [p \in {2} |-> 0]
<1>1. DOMAIN nodes = {2} /\ nodes = [p \in {2} |-> empty] /\ nodes[2] = empty
  BY DEF Init, FirstRoot
<1>2. IsLeaf(empty, {2}, MaxKeys) /\ empty.is_leaf = TRUE /\ empty.next_leaf = 0
  <2>1. << >> \in Seq(Key) /\ << >> \in Seq(RowId) /\ Len(<< >>) = 0 /\ 0 <= MaxKeys
    BY TreeAssumption
  <2> QED BY <2>1 DEF Leaf, IsLeaf, LeafNode
<1> HIDE DEF empty
<1>3. Numbered(nodes)
  <2>1. 2 .. 2 = {2}
    OBVIOUS
  <2> QED BY <1>1, <2>1 DEF Numbered
<1>4. Good(nodes, zero, zero)
  <2>1. zero \in [DOMAIN nodes -> 0 .. 0] /\ zero[2] = 0
    BY <1>1
  <2> HIDE DEF zero
  <2>2. PagesOK(nodes)
    BY <1>1, <1>2, <1>3 DEF PagesOK, IsNode
  <2>3. DepthOK(nodes, zero)
    BY <1>1, <1>2, <2>1 DEF DepthOK
  <2>4. RankOK(nodes, zero)
    BY <1>1, <1>2, <2>1 DEF RankOK
  <2> QED BY <2>2, <2>3, <2>4 DEF Good
<1>5. Versions
  <2>1. cand = [p \in {2} |-> {Unwritten, nodes[p]}]
    BY DEF Init, FirstRoot
  <2> QED BY <1>1, <1>2, <2>1 DEF Versions, Version, IsNode
<1>6. Roots /\ Answered /\ torn = FALSE /\ grown = TRUE
  BY <1>1 DEF Init, FirstRoot, Roots, Answered
<1> QED BY <1>3, <1>4, <1>5, <1>6 DEF TreeInv, WholeTree, IsTree

(* Storing a tree that keeps the pages of the old.                         *)
LEMMA Stores ==
  ASSUME TreeInv, ~torn, NEW file, Store(file), UNCHANGED torn,
         \E d, k : Good(file, d, k),
         DOMAIN nodes \subseteq DOMAIN file,
         DOMAIN file = DOMAIN nodes => \A q \in DOMAIN nodes : SameShape(file[q], nodes[q])
  PROVE  Numbered(nodes)' /\ Versions' /\ WholeTree' /\ nodes' = file
<1>1. nodes' = file /\ torn' = FALSE
      /\ grown' = (grown \/ DOMAIN file # DOMAIN nodes)
      /\ cand' = [p \in DOMAIN file |->
                    (IF p \in DOMAIN cand THEN cand[p] ELSE {Unwritten}) \cup {file[p]}]
  BY DEF Store, TreeInv, WholeTree
<1>2. Numbered(file) /\ \A p \in DOMAIN file : IsNode(file[p], DOMAIN file, MaxKeys)
  BY DEF Good, PagesOK
<1>3. DOMAIN cand = DOMAIN nodes
  BY DEF TreeInv, Versions
<1>4. ASSUME NEW p \in DOMAIN file, NEW v \in cand'[p] PROVE Version(v, DOMAIN file)
  <2>1. v = file[p] \/ v = Unwritten \/ (p \in DOMAIN nodes /\ v \in cand[p])
    BY <1>1, <1>3
  <2>2. CASE p \in DOMAIN nodes /\ v \in cand[p]
    <3>1. v = Unwritten \/ IsNode(v, DOMAIN nodes, MaxKeys)
      BY <2>2 DEF TreeInv, Versions, Version
    <3> QED BY <3>1, NodeOfMore DEF Version
  <2> QED BY <1>2, <2>1, <2>2 DEF Version
<1>5. Versions'
  BY <1>1, <1>4 DEF Versions
<1>6. ASSUME ~grown', NEW p \in DOMAIN nodes', NEW v \in cand'[p]
      PROVE  SameShape(v, nodes'[p])
  <2>1. ~grown /\ DOMAIN file = DOMAIN nodes
    BY <1>1, <1>6
  <2>2. v = file[p] \/ v \in cand[p]
    BY <1>1, <1>3, <1>6, <2>1
  <2>3. SameShape(file[p], nodes[p]) /\ p \in DOMAIN nodes
    BY <1>1, <1>6, <2>1
  <2>4. v \in cand[p] => SameShape(v, nodes[p])
    BY <2>1, <2>3 DEF TreeInv, WholeTree
  <2> QED BY <1>1, <2>2, <2>3, <2>4 DEF SameShape
<1>7. grown' \in BOOLEAN /\ torn' \in BOOLEAN
  BY <1>1 DEF TreeInv, WholeTree
<1>8. IsTree'
  BY <1>1 DEF IsTree
<1> QED BY <1>1, <1>2, <1>5, <1>6, <1>7, <1>8 DEF WholeTree

LEMMA InsertKeeps ==
  ASSUME TreeInv, NEW key \in Key, NEW rowid \in RowId, Insert(key, rowid)
  PROVE  TreeInv'
<1>1. ~torn /\ UNCHANGED torn /\ answer' = << >>
  BY DEF Insert, Touch
<1>2. PICK depth, rank : Good(nodes, depth, rank)
  BY <1>1 DEF TreeInv, WholeTree, IsTree
<1>3. root \in DOMAIN nodes
  BY DEF TreeInv, Roots
<1>4. PICK result : result = InsertInto(key, rowid)
  OBVIOUS
<1>5. InsertOutcome(result, depth, root)
  BY <1>2, <1>3, <1>4, InsertIntoOutcome
<1>6. Answered'
  BY <1>1 DEF Answered
<1>7. CASE result.right = 0 /\ Store(result.nodes) /\ UNCHANGED <<root, meta, metas>>
  <2>1. /\ \E d, k : Good(result.nodes, d, k)
        /\ DOMAIN nodes \subseteq DOMAIN result.nodes
        /\ DOMAIN result.nodes = DOMAIN nodes =>
             \A q \in DOMAIN nodes : SameShape(result.nodes[q], nodes[q])
    BY <1>5 DEF InsertOutcome, Outcome
  <2>2. Numbered(nodes)' /\ Versions' /\ WholeTree' /\ nodes' = result.nodes
    BY <1>1, <1>7, <2>1, Stores
  <2>3. Roots'
    BY <1>7, <2>1, <2>2 DEF TreeInv, Roots
  <2> QED BY <1>6, <2>2, <2>3 DEF TreeInv
<1>8. CASE result.right # 0 /\ Grows(result)
  <2>1. PICK new : new = WithPage(result.nodes, NewPage(result.nodes),
                                  Internal(<<result.sep>>, <<root, result.right>>))
    OBVIOUS
  <2>2. PICK page : page = NewPage(result.nodes)
    OBVIOUS
  <2>3. /\ \E d, k : Good(new, d, k)
        /\ page \in DOMAIN new
        /\ DOMAIN nodes \subseteq DOMAIN new /\ DOMAIN new # DOMAIN nodes
    BY <1>2, <1>3, <1>5, <1>8, <2>1, <2>2, GrowsOutcome DEF InsertOutcome
  <2>4. Store(new) /\ root' = page /\ meta' = page /\ metas' = metas \cup {page}
    BY <1>8, <2>1, <2>2 DEF Grows
  <2>5. Numbered(nodes)' /\ Versions' /\ WholeTree' /\ nodes' = new
    BY <1>1, <2>3, <2>4, Stores
  <2>6. Roots'
    BY <2>3, <2>4, <2>5 DEF TreeInv, Roots
  <2> QED BY <1>6, <2>5, <2>6 DEF TreeInv
<1> QED BY <1>4, <1>7, <1>8 DEF Insert

(* A leaf with an entry removed.                                           *)
LEMMA Removed ==
  ASSUME NEW depth, NEW rank, Good(nodes, depth, rank), NEW p \in Leaves,
         NEW i \in DOMAIN nodes[p].keys,
         NEW node, node = Leaf(RemoveAt(nodes[p].keys, i), RemoveAt(nodes[p].values, i),
                               nodes[p].next_leaf)
  PROVE  /\ Good([nodes EXCEPT ![p] = node], depth, rank)
         /\ DOMAIN [nodes EXCEPT ![p] = node] = DOMAIN nodes
         /\ \A q \in DOMAIN nodes : SameShape([nodes EXCEPT ![p] = node][q], nodes[q])
<1>1. p \in DOMAIN nodes /\ nodes[p].is_leaf
  BY DEF Leaves
<1>2. IsLeaf(nodes[p], DOMAIN nodes, MaxKeys)
  BY <1>1, NodeOfMore DEF Good, PagesOK
<1>3. /\ nodes[p].keys \in Seq(Key) /\ nodes[p].values \in Seq(RowId)
      /\ Len(nodes[p].values) = Len(nodes[p].keys) /\ Len(nodes[p].keys) \in Nat
      /\ Len(nodes[p].keys) <= MaxKeys /\ MaxKeys \in Nat
      /\ nodes[p].next_leaf \in DOMAIN nodes \cup {0} /\ nodes[p].is_leaf = TRUE
  <2>1. nodes[p] \in LeafNode(DOMAIN nodes)
    BY <1>2 DEF IsLeaf
  <2>2. /\ nodes[p].keys \in Seq(Key) /\ nodes[p].values \in Seq(RowId)
        /\ nodes[p].next_leaf \in DOMAIN nodes \cup {0} /\ nodes[p].is_leaf = TRUE
    BY <2>1 DEF LeafNode
  <2>3. Len(nodes[p].keys) \in Nat
    BY <2>2
  <2> QED BY <1>2, <2>2, <2>3, TreeAssumption DEF IsLeaf
<1>4. i \in 1 .. Len(nodes[p].keys) /\ i \in 1 .. Len(nodes[p].values)
  BY <1>3
<1> DEFINE keys == RemoveAt(nodes[p].keys, i)
           values == RemoveAt(nodes[p].values, i)
<1>5. keys \in Seq(Key) /\ Len(keys) = Len(nodes[p].keys) - 1
  <2>1. nodes[p].keys \in Seq(Key)
    BY <1>3
  <2> QED BY ONLY <1>4, <2>1, RemoveAtType
<1>6. values \in Seq(RowId) /\ Len(values) = Len(nodes[p].values) - 1
  <2>1. nodes[p].values \in Seq(RowId)
    BY <1>3
  <2> QED BY ONLY <1>4, <2>1, RemoveAtType
<1>7. node = Leaf(keys, values, nodes[p].next_leaf)
  OBVIOUS
<1> HIDE DEF keys, values
<1>8. /\ IsLeaf(node, DOMAIN nodes, MaxKeys) /\ node.is_leaf = TRUE
      /\ node.next_leaf = nodes[p].next_leaf
  BY <1>3, <1>5, <1>6, <1>7 DEF Leaf, IsLeaf, LeafNode
<1>9. IsNode(node, DOMAIN nodes, MaxKeys)
  BY <1>8 DEF IsNode
<1>10. /\ node.is_leaf = nodes[p].is_leaf
       /\ node.is_leaf => node.next_leaf = nodes[p].next_leaf
       /\ ~node.is_leaf => node.children \in Seq(AtDepth(depth, depth[p] - 1))
  BY <1>3, <1>8
<1>11. /\ Good([nodes EXCEPT ![p] = node], depth, rank)
       /\ DOMAIN [nodes EXCEPT ![p] = node] = DOMAIN nodes
  BY ONLY Good(nodes, depth, rank), <1>1, <1>9, <1>10, Replaced
<1>12. ASSUME NEW q \in DOMAIN nodes
       PROVE  SameShape([nodes EXCEPT ![p] = node][q], nodes[q])
  <2>1. [nodes EXCEPT ![p] = node][q] = IF q = p THEN node ELSE nodes[q]
    OBVIOUS
  <2> QED BY <1>3, <1>8, <2>1 DEF SameShape
<1> QED BY <1>11, <1>12

LEMMA DeleteKeeps ==
  ASSUME TreeInv, NEW key \in Key, NEW rowid \in RowId, Delete(key, rowid)
  PROVE  TreeInv'
<1>1. ~torn /\ UNCHANGED <<root, meta, metas, torn>>
  BY DEF Delete
<1>2. PICK depth, rank : Good(nodes, depth, rank)
  BY <1>1 DEF TreeInv, WholeTree, IsTree
<1>3. PICK place : place = Found(key, rowid)
  OBVIOUS
<1>4. IsPlace(place, key, rowid)
  BY <1>2, <1>3, FoundInLeaf DEF TreeInv, Roots
<1>5. CASE /\ place # << >>
           /\ answer' = <<key, rowid, TRUE>>
           /\ Store([nodes EXCEPT ![place[1]] =
                 Leaf(RemoveAt(@.keys, place[2]), RemoveAt(@.values, place[2]), @.next_leaf)])
  <2>1. PICK p \in Leaves : \E i \in DOMAIN nodes[p].keys : place = <<p, i>>
    BY <1>4, <1>5 DEF IsPlace
  <2>2. PICK i \in DOMAIN nodes[p].keys : place = <<p, i>>
    BY <2>1
  <2>3. PICK node : node = Leaf(RemoveAt(nodes[p].keys, i), RemoveAt(nodes[p].values, i),
                                nodes[p].next_leaf)
    OBVIOUS
  <2>4. PICK file : file = [nodes EXCEPT ![p] = node]
    OBVIOUS
  <2>5. Store(file)
    <3>1. place[1] = p /\ place[2] = i
      BY <2>2
    <3> QED BY <1>5, <2>3, <2>4, <3>1
  <2>6. /\ \E d, k : Good(file, d, k)
        /\ DOMAIN file = DOMAIN nodes
        /\ \A q \in DOMAIN nodes : SameShape(file[q], nodes[q])
    BY <1>2, <2>3, <2>4, Removed
  <2>7. Numbered(nodes)' /\ Versions' /\ WholeTree' /\ nodes' = file
    BY <1>1, <2>5, <2>6, Stores
  <2>8. Roots'
    BY <1>1, <2>6, <2>7 DEF TreeInv, Roots
  <2>9. Answered'
    BY <1>5 DEF Answered
  <2> QED BY <2>7, <2>8, <2>9 DEF TreeInv
<1>6. CASE answer' = <<key, rowid, FALSE>> /\ UNCHANGED <<nodes, cand, touched, grown>>
  BY <1>1, <1>6 DEF TreeInv, Versions, Roots, Answered, WholeTree, IsTree
<1> QED BY <1>3, <1>5, <1>6 DEF Delete

LEMMA FlushKeeps == TreeInv /\ Flush => TreeInv'
<1> SUFFICES ASSUME TreeInv, Flush PROVE TreeInv'
  OBVIOUS
<1>1. /\ UNCHANGED <<nodes, root, meta, torn>> /\ metas' = {meta} /\ grown' = FALSE
      /\ answer' = << >> /\ cand' = [p \in DOMAIN nodes |-> {nodes[p]}]
  BY DEF Flush
<1>2. Numbered(nodes)' /\ Roots' /\ Answered'
  BY <1>1 DEF TreeInv, Roots, Answered
<1>3. Versions'
  BY <1>1 DEF TreeInv, Versions
<1>4. WholeTree'
  BY <1>1 DEF TreeInv, WholeTree, IsTree, SameShape
<1> QED BY <1>2, <1>3, <1>4 DEF TreeInv

(* A mix of versions of the shape of a tree is a tree.                     *)
LEMMA MixIsTree ==
  ASSUME TreeInv, ~torn, ~grown, NEW file, file = [p \in DOMAIN nodes |-> file[p]],
         \A p \in DOMAIN nodes : file[p] \in cand[p]
  PROVE  \E depth, rank : Good(file, depth, rank)
<1>1. PICK depth, rank : Good(nodes, depth, rank)
  BY DEF TreeInv, WholeTree, IsTree
<1>2. DOMAIN file = DOMAIN nodes /\ Numbered(file)
  <2>1. DOMAIN file = DOMAIN nodes
    OBVIOUS
  <2> QED BY <2>1 DEF TreeInv, Numbered
<1>3. ASSUME NEW p \in DOMAIN nodes
      PROVE  SameShape(file[p], nodes[p]) /\ IsNode(file[p], DOMAIN nodes, MaxKeys)
  <2>1. SameShape(file[p], nodes[p]) /\ Version(file[p], DOMAIN nodes)
    BY DEF TreeInv, WholeTree, Versions
  <2>2. IsNode(nodes[p], DOMAIN nodes, MaxKeys)
    BY <1>1 DEF Good, PagesOK
  <2>3. file[p] = Unwritten => file[p] = nodes[p]
    BY <2>1 DEF SameShape, Unwritten, Internal
  <2> QED BY <2>1, <2>2, <2>3, UnwrittenIsNoNode DEF Version
<1>4. PagesOK(file)
  BY <1>2, <1>3 DEF PagesOK
<1>5. DepthOK(file, depth)
  BY <1>1, <1>2, <1>3 DEF Good, DepthOK, SameShape
<1>6. RankOK(file, rank)
  <2>1. ASSUME NEW p \in DOMAIN file, file[p].is_leaf, file[p].next_leaf # 0
        PROVE  file[file[p].next_leaf].is_leaf /\ rank[file[p].next_leaf] < rank[p]
    <3>1. nodes[p].is_leaf /\ nodes[p].next_leaf = file[p].next_leaf /\ p \in DOMAIN nodes
      BY <1>2, <1>3, <2>1 DEF SameShape
    <3>2. IsLeaf(nodes[p], DOMAIN nodes, MaxKeys)
      BY <1>1, <3>1, NodeOfMore DEF Good, PagesOK
    <3>3. file[p].next_leaf \in DOMAIN nodes
      BY <2>1, <3>1, <3>2 DEF IsLeaf, LeafNode
    <3>4. nodes[file[p].next_leaf].is_leaf /\ rank[file[p].next_leaf] < rank[p]
      BY <1>1, <2>1, <3>1 DEF Good, RankOK
    <3> QED BY <1>3, <3>3, <3>4 DEF SameShape
  <2> QED BY <1>1, <1>2, <2>1 DEF Good, RankOK
<1> QED BY <1>4, <1>5, <1>6 DEF Good

LEMMA ReopenKeeps == TreeInv /\ Reopen => TreeInv'
<1> SUFFICES ASSUME TreeInv, Reopen PROVE TreeInv'
  OBVIOUS
<1>1. PICK file \in Mixes : nodes' = file /\ cand' = [p \in DOMAIN file |-> {file[p]}]
  BY DEF Reopen
<1>2. /\ meta' \in metas /\ metas' = {meta'} /\ root' = meta' /\ torn' = (torn \/ grown)
      /\ grown' = FALSE /\ answer' = << >>
  BY DEF Reopen
<1>3. /\ file = [p \in DOMAIN nodes |-> file[p]]
      /\ \A p \in DOMAIN nodes : file[p] \in cand[p]
  BY MixesAre DEF TreeInv
<1>4. DOMAIN file = DOMAIN nodes
  BY <1>3
<1>5. Numbered(nodes)'
  BY <1>1, <1>3, <1>4 DEF TreeInv, Numbered
<1>6. Versions'
  BY <1>1, <1>3, <1>4 DEF TreeInv, Versions
<1>7. Roots' /\ Answered'
  BY <1>1, <1>2, <1>4 DEF TreeInv, Roots, Answered
<1>8. WholeTree'
  <2>1. torn' \in BOOLEAN /\ grown' \in BOOLEAN
    BY <1>2 DEF TreeInv, WholeTree
  <2>2. ~torn' => IsTree'
    <3>1. ~torn' => ~torn /\ ~grown
      BY <1>2
    <3> QED BY <1>1, <1>3, <3>1, MixIsTree DEF IsTree
  <2>3. \A p \in DOMAIN nodes' : \A v \in cand'[p] : SameShape(v, nodes'[p])
    BY <1>1 DEF SameShape
  <2> QED BY <2>1, <2>2, <2>3 DEF WholeTree
<1> QED BY <1>5, <1>6, <1>7, <1>8 DEF TreeInv

LEMMA TreeNext == TreeInv /\ [Next]_vars => TreeInv'
<1> SUFFICES ASSUME TreeInv, [Next]_vars PROVE TreeInv'
  OBVIOUS
<1>1. CASE UNCHANGED vars
  BY <1>1 DEF vars, TreeInv, Versions, Roots, Answered, WholeTree, IsTree
<1> QED BY <1>1, InsertKeeps, DeleteKeeps, FlushKeeps, ReopenKeeps DEF Next

(* Nodes hold as many values or children as their keys ask for and never   *)
(* more keys than fit, pages are numbered without a gap, and the meta page *)
(* names the root: whatever is inserted, split, deleted, flushed or lost,  *)
(* in every version of a page that a kill can leave.                       *)
THEOREM TreeType == Spec => []TypeOK
<1>1. Init => TreeInv
  BY TreeInit
<1>2. TreeInv /\ [Next]_vars => TreeInv'
  BY TreeNext
<1>3. TreeInv => TypeOK
  BY TypeOKFromInv
<1> QED BY <1>1, <1>2, <1>3, PTL DEF Spec

(* "That is how the tree stays balanced" (btree.py, lines 18 to 21): until *)
(* a kill has met a tree that had grown, all leaves are equally deep.      *)
THEOREM TreeBalanced == Spec => [](~torn => Balanced)
<1>1. Init => TreeInv
  BY TreeInit
<1>2. TreeInv /\ [Next]_vars => TreeInv'
  BY TreeNext
<1>3. TreeInv => (~torn => Balanced)
  BY GoodIsBalanced DEF TreeInv, WholeTree, IsTree, Roots
<1> QED BY <1>1, <1>2, <1>3, PTL DEF Spec

-----------------------------------------------------------------------------
(* Sorted keys.                                                            *)

LEMMA KeysAreInt ==
  ASSUME NEW keys \in Seq(Key)
  PROVE  Len(keys) \in Nat /\ \A i \in 1 .. Len(keys) : keys[i] \in Int /\ keys[i] \in Key
<1>1. Len(keys) \in Nat /\ \A i \in 1 .. Len(keys) : keys[i] \in Key
  OBVIOUS
<1>2. \A key \in Key : key \in Int
  BY TreeAssumption
<1> QED BY <1>1, <1>2

LEMMA BisectRightSplits ==
  ASSUME NEW keys \in Seq(Key), Sorted(keys), NEW key \in Key
  PROVE  \A i \in 1 .. Len(keys) : keys[i] <= key <=> i <= BisectRight(keys, key)
<1> DEFINE T == {i \in 1 .. Len(keys) : keys[i] <= key}
<1>1. Len(keys) \in Nat /\ DOMAIN keys = 1 .. Len(keys)
      /\ \A i \in 1 .. Len(keys) : keys[i] \in Int
  BY KeysAreInt
<1>2. BisectRight(keys, key) = Cardinality(T)
  BY <1>1 DEF BisectRight
<1>3. ASSUME NEW i \in T, NEW j \in 1 .. Len(keys), j <= i PROVE j \in T
  <2>1. i = j \/ j < i
    BY <1>1, <1>3
  <2>2. keys[j] <= keys[i] \/ i = j
    BY <2>1 DEF Sorted
  <2>3. keys[i] \in Int /\ keys[j] \in Int /\ key \in Int /\ keys[i] <= key
    <3>1. key \in Int
      BY TreeAssumption
    <3> QED BY <1>1, <1>3, <3>1
  <2> QED BY <2>2, <2>3
<1>4. T \in SUBSET (1 .. Len(keys))
  OBVIOUS
<1>5. \A i \in 1 .. Len(keys) : i \in T <=> keys[i] <= key
  OBVIOUS
<1> HIDE DEF T
<1> QED BY <1>1, <1>2, <1>3, <1>4, <1>5, FromOne

LEMMA SortedInsert ==
  ASSUME NEW keys \in Seq(Key), Sorted(keys), NEW key \in Key, NEW n \in 0 .. Len(keys),
         \A i \in 1 .. Len(keys) : IF i <= n THEN keys[i] <= key ELSE key <= keys[i],
         NEW range, Within(keys, range), key \in range
  PROVE  Sorted(InsertAt(keys, n + 1, key)) /\ Within(InsertAt(keys, n + 1, key), range)
<1> DEFINE new == InsertAt(keys, n + 1, key)
<1>1. /\ Len(keys) \in Nat /\ n \in Nat /\ n + 1 \in 1 .. Len(keys) + 1 /\ n <= Len(keys)
      /\ \A i \in 1 .. Len(keys) : keys[i] \in Int
      /\ key \in Int
  BY KeysAreInt, TreeAssumption
<1>2. Len(new) = Len(keys) + 1
  BY <1>1, InsertAtType
<1>3. \A j \in 1 .. Len(keys) + 1 :
        new[j] = IF j < n + 1 THEN keys[j] ELSE IF j = n + 1 THEN key ELSE keys[j - 1]
  BY <1>1, InsertAtElements
<1> HIDE DEF new
<1>4. ASSUME NEW i \in 1 .. Len(keys) + 1, NEW j \in 1 .. Len(keys) + 1, i < j
      PROVE  new[i] <= new[j]
  <2>1. CASE j < n + 1
    <3>1. i \in 1 .. Len(keys) /\ j \in 1 .. Len(keys) /\ i < n + 1
      BY <1>1, <1>4, <2>1
    <3> QED BY <1>3, <1>4, <2>1, <3>1 DEF Sorted
  <2>2. CASE j = n + 1
    <3>1. i \in 1 .. Len(keys) /\ i <= n /\ i < n + 1 /\ ~(j < n + 1)
      BY <1>1, <1>4, <2>2
    <3> QED BY <1>3, <2>2, <3>1
  <2>3. CASE j > n + 1 /\ i < n + 1
    <3>1. i \in 1 .. Len(keys) /\ j - 1 \in 1 .. Len(keys) /\ i < j - 1 /\ ~(j < n + 1) /\ j # n + 1
      BY <1>1, <1>4, <2>3
    <3>2. keys[i] <= keys[j - 1]
      BY <3>1 DEF Sorted
    <3> QED BY <1>3, <2>3, <3>1, <3>2
  <2>4. CASE j > n + 1 /\ i = n + 1
    <3>1. j - 1 \in 1 .. Len(keys) /\ ~(j - 1 <= n) /\ ~(j < n + 1) /\ j # n + 1 /\ ~(i < n + 1)
      BY <1>1, <1>4, <2>4
    <3>2. key <= keys[j - 1]
      BY <3>1
    <3> QED BY <1>3, <2>4, <3>1, <3>2
  <2>5. CASE j > n + 1 /\ i > n + 1
    <3>1. /\ i - 1 \in 1 .. Len(keys) /\ j - 1 \in 1 .. Len(keys) /\ i - 1 < j - 1
          /\ ~(j < n + 1) /\ j # n + 1 /\ ~(i < n + 1) /\ i # n + 1
      BY <1>1, <1>4, <2>5
    <3>2. keys[i - 1] <= keys[j - 1]
      BY <3>1 DEF Sorted
    <3> QED BY <1>3, <3>1, <3>2
  <2>6. i \in Int /\ j \in Int /\ n + 1 \in Int
    BY <1>1
  <2> QED BY <2>1, <2>2, <2>3, <2>4, <2>5, <2>6
<1>5. ASSUME NEW i \in 1 .. Len(keys) + 1 PROVE new[i] \in range
  <2>1. i < n + 1 => i \in 1 .. Len(keys)
    BY <1>1
  <2>2. ~(i < n + 1) /\ i # n + 1 => i - 1 \in 1 .. Len(keys)
    BY <1>1
  <2> QED BY <1>3, <2>1, <2>2 DEF Within
<1> QED BY <1>2, <1>4, <1>5 DEF Sorted, Within, new

LEMMA SortedPart ==
  ASSUME NEW keys \in Seq(Key), Sorted(keys), NEW m \in Nat, NEW n \in Nat,
         1 <= m, m <= n + 1, n <= Len(keys), NEW range,
         \A i \in m .. n : keys[i] \in range
  PROVE  Sorted(SubSeq(keys, m, n)) /\ Within(SubSeq(keys, m, n), range)
<1> DEFINE new == SubSeq(keys, m, n)
<1>1. Len(new) = n - m + 1 /\ Len(keys) \in Nat
  BY SubSeqType
<1>2. \A i \in 1 .. n - m + 1 : new[i] = keys[m + i - 1]
  BY SubSeqElements
<1> HIDE DEF new
<1>3. ASSUME NEW i \in 1 .. n - m + 1, NEW j \in 1 .. n - m + 1, i < j
      PROVE  new[i] <= new[j]
  <2>1. /\ m + i - 1 \in 1 .. Len(keys) /\ m + j - 1 \in 1 .. Len(keys)
        /\ m + i - 1 < m + j - 1
    BY <1>1, <1>3
  <2> QED BY <1>2, <2>1 DEF Sorted
<1>4. ASSUME NEW i \in 1 .. n - m + 1 PROVE new[i] \in range
  <2>1. m + i - 1 \in m .. n
    OBVIOUS
  <2> QED BY <1>2, <2>1
<1> QED BY <1>1, <1>3, <1>4 DEF Sorted, Within, new

LEMMA SortedRemove ==
  ASSUME NEW keys \in Seq(Key), Sorted(keys), NEW n \in 1 .. Len(keys), NEW range,
         Within(keys, range)
  PROVE  Sorted(RemoveAt(keys, n)) /\ Within(RemoveAt(keys, n), range)
<1> DEFINE new == RemoveAt(keys, n)
<1>1. Len(new) = Len(keys) - 1 /\ Len(keys) \in Nat /\ n \in Nat
  BY RemoveAtType
<1>2. \A i \in 1 .. Len(keys) - 1 : new[i] = IF i < n THEN keys[i] ELSE keys[i + 1]
  BY RemoveAtElements
<1> HIDE DEF new
<1>3. ASSUME NEW i \in 1 .. Len(keys) - 1
      PROVE  i \in 1 .. Len(keys) /\ i + 1 \in 1 .. Len(keys)
  BY <1>1
<1>4. ASSUME NEW i \in 1 .. Len(keys) - 1, NEW j \in 1 .. Len(keys) - 1, i < j
      PROVE  new[i] <= new[j]
  <2>1. i < j /\ i < j + 1 /\ i + 1 < j + 1 /\ (j < n => i < n)
    BY <1>1, <1>4
  <2>2. keys[i] <= keys[j] /\ keys[i] <= keys[j + 1] /\ keys[i + 1] <= keys[j + 1]
    BY <1>3, <2>1 DEF Sorted
  <2> QED BY <1>2, <2>1, <2>2
<1>5. ASSUME NEW i \in 1 .. Len(keys) - 1 PROVE new[i] \in range
  BY <1>2, <1>3 DEF Within
<1> QED BY <1>1, <1>4, <1>5 DEF Sorted, Within, new

-----------------------------------------------------------------------------
(* Where a page is in the tree: the first leaf below it, the leaf behind   *)
(* those below it, and the keys that the separators above route to it.     *)

(* An inner node gets the right half of a child behind it.                 *)
LEMMA InsertedFits ==
  ASSUME NEW S, NEW keys \in Seq(Key), NEW children \in Seq(S),
         Len(children) = Len(keys) + 1,
         NEW p, NEW s, InnerFits(Internal(keys, children), p, s), s[p].range \subseteq Int,
         NEW n \in 0 .. Len(keys),
         NEW t, NEW sep \in Key, NEW right \in S, SplitAs(t, s, children[n + 1], right, sep),
         t[p] = s[p],
         \A i \in 1 .. Len(keys) + 1 : i # n + 1 => t[children[i]] = s[children[i]]
  PROVE  InnerFits(Internal(InsertAt(keys, n + 1, sep), InsertAt(children, n + 2, right)), p, t)
<1> DEFINE K == InsertAt(keys, n + 1, sep)
           C == InsertAt(children, n + 2, right)
<1>1. PICK N \in Nat : N = Len(keys)
  OBVIOUS
<1>2. /\ n \in Nat /\ n <= N /\ n + 1 \in 1 .. N + 1 /\ n + 2 \in 1 .. Len(children) + 1
      /\ Len(children) = N + 1
      /\ \A i \in 1 .. N : keys[i] \in Int
      /\ sep \in Int
  BY <1>1, KeysAreInt, TreeAssumption
<1>3. /\ Len(K) = N + 1
      /\ \A j \in 1 .. N + 1 :
           K[j] = IF j < n + 1 THEN keys[j] ELSE IF j = n + 1 THEN sep ELSE keys[j - 1]
  <2>1. n + 1 \in 1 .. Len(keys) + 1
    BY <1>1, <1>2
  <2>2. Len(K) = Len(keys) + 1
    BY ONLY keys \in Seq(Key), sep \in Key, <2>1, InsertAtType
  <2>3. \A j \in 1 .. Len(keys) + 1 :
           K[j] = IF j < n + 1 THEN keys[j] ELSE IF j = n + 1 THEN sep ELSE keys[j - 1]
    BY ONLY keys \in Seq(Key), sep \in Key, <2>1, InsertAtElements
  <2> QED BY <1>1, <2>2, <2>3
<1>4. \A j \in 1 .. N + 2 :
        C[j] = IF j < n + 2 THEN children[j] ELSE IF j = n + 2 THEN right ELSE children[j - 1]
  <2>1. \A j \in 1 .. Len(children) + 1 :
          C[j] = IF j < n + 2 THEN children[j] ELSE IF j = n + 2 THEN right ELSE children[j - 1]
    <3>1. n + 2 \in 1 .. Len(children) + 1
      BY ONLY <1>2
    <3> QED BY ONLY children \in Seq(S), right \in S, <3>1, InsertAtElements
  <2>2. Len(children) + 1 = N + 2
    BY <1>2
  <2> QED BY <2>1, <2>2
<1>5. /\ Sorted(keys) /\ Within(keys, s[p].range)
      /\ s[p].first = s[children[1]].first
      /\ s[p].after = s[children[N + 1]].after
      /\ \A i \in 1 .. N : s[children[i]].after = s[children[i + 1]].first
      /\ \A i \in 1 .. N + 1 : s[children[i]].range = Part(s[p].range, keys, i)
  BY <1>1 DEF InnerFits, Internal
<1>6. PICK c : c = children[n + 1]
  OBVIOUS
<1>7. /\ sep \in s[p].range
      /\ n >= 1 => keys[n] <= sep
      /\ n + 1 <= N => sep <= keys[n + 1]
  <2>1. sep \in Part(s[p].range, keys, n + 1)
    BY <1>2, <1>5 DEF SplitAs
  <2> QED BY <1>1, <1>2, <2>1 DEF Part
<1>8. Sorted(K) /\ Within(K, s[p].range)
  <2>1. ASSUME NEW i \in 1 .. Len(keys)
        PROVE  IF i <= n THEN keys[i] <= sep ELSE sep <= keys[i]
    <3>1. CASE i <= n
      <4>1. i = n \/ (i < n /\ n \in 1 .. Len(keys))
        BY <1>1, <1>2, <3>1
      <4>2. keys[i] <= keys[n] \/ i = n
        BY <1>5, <4>1 DEF Sorted
      <4>3. n >= 1 /\ keys[i] \in Int /\ keys[n] \in Int
        BY <1>1, <1>2, <3>1
      <4> QED BY <1>2, <1>7, <3>1, <4>2, <4>3
    <3>2. CASE ~(i <= n)
      <4>1. i = n + 1 \/ (n + 1 < i /\ n + 1 \in 1 .. Len(keys))
        BY <1>1, <1>2, <3>2
      <4>2. keys[n + 1] <= keys[i] \/ i = n + 1
        BY <1>5, <4>1 DEF Sorted
      <4>3. n + 1 <= N /\ keys[i] \in Int /\ keys[n + 1] \in Int
        BY <1>1, <1>2, <3>2
      <4> QED BY <1>2, <1>7, <3>2, <4>2, <4>3
    <3> QED BY <3>1, <3>2
  <2> QED BY <1>5, <1>7, <2>1, SortedInsert
<1> HIDE DEF K, C
<1>9. /\ t[c].first = s[c].first /\ t[c].after = t[right].first
      /\ t[c].range = {k \in s[c].range : k <= sep}
      /\ t[right].after = s[c].after
      /\ t[right].range = {k \in s[c].range : sep <= k}
  BY <1>6 DEF SplitAs
<1>10. \A i \in 1 .. N + 1 : i # n + 1 => t[children[i]] = s[children[i]]
  BY <1>1
<1>11. t[p].first = t[C[1]].first
  <2>1. C[1] = children[1]
    BY <1>2, <1>4
  <2>2. t[children[1]].first = s[children[1]].first
    BY <1>2, <1>6, <1>9, <1>10
  <2> QED BY <1>5, <2>1, <2>2
<1>12. t[p].after = t[C[N + 2]].after
  <2>1. CASE n = N
    <3>1. C[N + 2] = right
      BY <1>2, <1>4, <2>1
    <3> QED BY <1>5, <1>6, <1>9, <2>1, <3>1
  <2>2. CASE n # N
    <3>1. C[N + 2] = children[N + 1]
      BY <1>2, <1>4, <2>2
    <3>2. t[children[N + 1]] = s[children[N + 1]]
      BY <1>2, <1>10, <2>2
    <3> QED BY <1>5, <3>1, <3>2
  <2> QED BY <2>1, <2>2
<1>13. ASSUME NEW i \in 1 .. N + 1 PROVE t[C[i]].after = t[C[i + 1]].first
  <2>1. CASE i < n
    <3>1. C[i] = children[i] /\ C[i + 1] = children[i + 1]
      BY <1>2, <1>4, <2>1
    <3>2. i \in 1 .. N /\ i # n + 1 /\ i + 1 \in 1 .. N + 1 /\ i + 1 # n + 1
      BY <1>2, <2>1
    <3> QED BY <1>5, <1>10, <3>1, <3>2
  <2>2. CASE i = n
    <3>1. C[i] = children[i] /\ C[i + 1] = c
      <4>1. C[i] = children[i]
        BY <1>2, <1>4, <2>2
      <4>2. n + 1 \in 1 .. N + 2 /\ n + 1 < n + 2
        BY <1>2
      <4>3. C[n + 1] = children[n + 1]
        BY <1>4, <4>2
      <4> QED BY <1>6, <2>2, <4>1, <4>3
    <3>2. i \in 1 .. N /\ i # n + 1
      BY <1>2, <2>2
    <3> QED BY <1>5, <1>6, <1>9, <1>10, <2>2, <3>1, <3>2
  <2>3. CASE i = n + 1
    <3>1. C[i] = c /\ C[i + 1] = right
      BY <1>2, <1>4, <1>6, <2>3
    <3> QED BY <1>9, <3>1
  <2>4. CASE i = n + 2
    <3>1. C[i] = right /\ C[i + 1] = children[n + 2]
      BY <1>2, <1>4, <2>4
    <3>2. n + 1 \in 1 .. N /\ n + 2 \in 1 .. N + 1 /\ n + 2 # n + 1 /\ (n + 1) + 1 = n + 2
      BY <1>2, <2>4
    <3>3. s[children[n + 1]].after = s[children[n + 2]].first
      BY <1>5, <3>2
    <3> QED BY <1>6, <1>9, <1>10, <3>1, <3>2, <3>3
  <2>5. CASE i > n + 2
    <3>1. C[i] = children[i - 1] /\ C[i + 1] = children[i]
      <4>1. i + 1 \in 1 .. N + 2 /\ (i + 1) - 1 = i
        OBVIOUS
      <4> QED BY <1>2, <1>4, <2>5, <4>1
    <3>2. i - 1 \in 1 .. N /\ i - 1 # n + 1 /\ i # n + 1 /\ (i - 1) + 1 = i /\ i - 1 \in 1 .. N + 1
      BY <1>2, <2>5
    <3>3. s[children[i - 1]].after = s[children[i]].first
      BY <1>5, <3>2
    <3> QED BY <1>10, <3>1, <3>2, <3>3
  <2> QED BY <1>2, <2>1, <2>2, <2>3, <2>4, <2>5
<1>14. ASSUME NEW j \in 1 .. N + 2
       PROVE  t[C[j]].range = Part(s[p].range, K, j)
  <2>1. CASE j < n + 1
    <3>1. C[j] = children[j] /\ t[children[j]] = s[children[j]] /\ j \in 1 .. N /\ j \in 1 .. N + 1
      BY <1>2, <1>4, <1>10, <2>1
    <3>2. K[j] = keys[j] /\ (j > 1 => K[j - 1] = keys[j - 1])
      BY <1>2, <1>3, <2>1
    <3>3. Part(s[p].range, keys, j) = Part(s[p].range, K, j)
      BY <1>1, <1>3, <3>1, <3>2 DEF Part
    <3> QED BY <1>5, <3>1, <3>3
  <2>2. CASE j = n + 1
    <3>1. C[j] = c /\ j \in 1 .. N + 1
      BY <1>2, <1>4, <1>6, <2>2
    <3>2. K[j] = sep /\ (j > 1 => K[j - 1] = keys[j - 1])
      BY <1>2, <1>3, <2>2
    <3>3. t[c].range = {k \in Part(s[p].range, keys, j) : k <= sep}
      BY <1>5, <1>6, <1>9, <2>2, <3>1
    <3>4. ASSUME NEW k \in s[p].range
          PROVE  k \in Part(s[p].range, K, j) <=> k \in Part(s[p].range, keys, j) /\ k <= sep
      <4>1. k \in Int /\ (j <= N => keys[j] \in Int /\ sep <= keys[j])
        BY <1>2, <1>7, <2>2
      <4>2. k <= sep => (j <= N => k <= keys[j])
        BY <1>2, <4>1
      <4>3. Len(K) = N + 1 /\ Len(keys) = N /\ j <= N + 1
        BY <1>1, <1>3, <3>1
      <4>4. k \in Part(s[p].range, K, j) <=> (j > 1 => keys[j - 1] <= k) /\ k <= sep
        BY ONLY k \in s[p].range, <3>2, <4>3 DEF Part
      <4>5. k \in Part(s[p].range, keys, j)
              <=> (j > 1 => keys[j - 1] <= k) /\ (j <= N => k <= keys[j])
        BY ONLY k \in s[p].range, <4>3 DEF Part
      <4> QED BY ONLY <4>2, <4>4, <4>5
    <3> QED BY <3>1, <3>3, <3>4 DEF Part
  <2>3. CASE j = n + 2
    <3>1. C[j] = right /\ n + 1 \in 1 .. N + 1
      BY <1>2, <1>4, <2>3
    <3>2. K[j - 1] = sep /\ (j <= N + 1 => K[j] = keys[j - 1])
      BY <1>2, <1>3, <2>3
    <3>3. t[right].range = {k \in Part(s[p].range, keys, n + 1) : sep <= k}
      BY <1>5, <1>6, <1>9, <3>1
    <3>4. ASSUME NEW k \in s[p].range
          PROVE  k \in Part(s[p].range, K, j) <=> k \in Part(s[p].range, keys, n + 1) /\ sep <= k
      <4>1. k \in Int /\ (n >= 1 => keys[n] \in Int /\ keys[n] <= sep)
        BY <1>2, <1>7
      <4>2. sep <= k => (n + 1 > 1 => keys[n] <= k)
        BY <1>2, <4>1
      <4>3. j > 1 /\ j - 1 = n + 1 /\ (n + 1) - 1 = n /\ (j <= N + 1 <=> n + 1 <= N)
        BY <1>2, <2>3
      <4>4. k \in Part(s[p].range, K, j) <=> sep <= k /\ (j <= N + 1 => k <= keys[n + 1])
        BY <1>3, <3>2, <4>3 DEF Part
      <4>5. k \in Part(s[p].range, keys, n + 1)
              <=> (n + 1 > 1 => keys[n] <= k) /\ (n + 1 <= N => k <= keys[n + 1])
        BY <1>1, <4>3 DEF Part
      <4> QED BY <4>2, <4>3, <4>4, <4>5
    <3> QED BY <3>1, <3>3, <3>4 DEF Part
  <2>4. CASE j > n + 2
    <3>1. /\ C[j] = children[j - 1] /\ t[children[j - 1]] = s[children[j - 1]]
          /\ j - 1 \in 1 .. N + 1 /\ j - 1 > 1 /\ j > 1
      <4>1. j - 1 \in 1 .. N + 1 /\ j - 1 # n + 1 /\ j - 1 > 1 /\ j > 1
        BY <1>2, <2>4
      <4> QED BY <1>2, <1>4, <1>10, <2>4, <4>1
    <3>2. K[j - 1] = keys[(j - 1) - 1] /\ (j <= N + 1 => K[j] = keys[j - 1])
      <4>1. j - 1 \in 1 .. N + 1 /\ ~(j - 1 < n + 1) /\ j - 1 # n + 1 /\ ~(j < n + 1) /\ j # n + 1
        BY <1>2, <2>4
      <4> QED BY <1>3, <4>1
    <3>3. Part(s[p].range, keys, j - 1) = Part(s[p].range, K, j)
      <4>1. j <= N + 1 <=> j - 1 <= N
        BY <1>2
      <4> QED BY <1>1, <1>3, <3>1, <3>2, <4>1 DEF Part
    <3> QED BY <1>5, <3>1, <3>3
  <2> QED BY <1>2, <2>1, <2>2, <2>3, <2>4
<1>15. InnerFits(Internal(K, C), p, t)
  <2>1. Internal(K, C).keys = K /\ Internal(K, C).children = C /\ (N + 1) + 1 = N + 2
    BY DEF Internal
  <2> QED BY <1>3, <1>8, <1>11, <1>12, <1>13, <1>14, <2>1 DEF InnerFits
<1> QED BY <1>15 DEF K, C

(* An inner node is split.                                                 *)
LEMMA HalvesFit ==
  ASSUME NEW S, NEW keys \in Seq(Key), NEW children \in Seq(S),
         Len(children) = Len(keys) + 1,
         NEW p, NEW s, InnerFits(Internal(keys, children), p, s), s[p].range \subseteq Int,
         NEW mid \in Nat, mid + 1 <= Len(keys),
         NEW t, NEW right, SplitAs(t, s, p, right, keys[mid + 1]),
         t[right].first = s[children[mid + 2]].first,
         \A i \in 1 .. Len(keys) + 1 : t[children[i]] = s[children[i]]
  PROVE  /\ InnerFits(Internal(SubSeq(keys, 1, mid), SubSeq(children, 1, mid + 1)), p, t)
         /\ InnerFits(Internal(SubSeq(keys, mid + 2, Len(keys)),
                               SubSeq(children, mid + 2, Len(children))), right, t)
<1> DEFINE K1 == SubSeq(keys, 1, mid)
           C1 == SubSeq(children, 1, mid + 1)
           K2 == SubSeq(keys, mid + 2, Len(keys))
           C2 == SubSeq(children, mid + 2, Len(children))
           sep == keys[mid + 1]
<1>1. PICK N \in Nat : N = Len(keys)
  OBVIOUS
<1>2. /\ mid + 1 \in 1 .. N /\ mid + 1 \in Nat /\ mid + 2 \in Nat /\ Len(children) = N + 1
      /\ \A i \in 1 .. N : keys[i] \in Int
      /\ sep \in Int
  BY <1>1, KeysAreInt
<1>3. /\ Len(K1) = mid /\ \A i \in 1 .. mid : K1[i] = keys[i]
  <2>1. 1 <= mid + 1 /\ mid <= Len(keys) /\ 1 \in Nat
    BY <1>1, <1>2
  <2>2. Len(K1) = mid - 1 + 1
    BY <2>1, SubSeqType
  <2>3. \A i \in 1 .. mid - 1 + 1 : K1[i] = keys[1 + i - 1]
    BY <2>1, SubSeqElements
  <2> QED BY <2>2, <2>3
<1>4. \A i \in 1 .. mid + 1 : C1[i] = children[i]
  <2>1. 1 <= (mid + 1) + 1 /\ mid + 1 <= Len(children) /\ 1 \in Nat /\ 1 <= 1
    BY <1>2
  <2>2. \A i \in 1 .. (mid + 1) - 1 + 1 : C1[i] = children[1 + i - 1]
    BY <1>2, <2>1, SubSeqElements
  <2> QED BY <2>2
<1>5. Len(K2) = N - mid - 1 /\ \A i \in 1 .. N - mid - 1 : K2[i] = keys[mid + 1 + i]
  <2>1. 1 <= mid + 2 /\ mid + 2 <= Len(keys) + 1 /\ Len(keys) <= Len(keys) /\ Len(keys) \in Nat
    BY <1>1, <1>2
  <2>2. Len(K2) = Len(keys) - (mid + 2) + 1
    BY <1>2, <2>1, SubSeqType
  <2>3. \A i \in 1 .. Len(keys) - (mid + 2) + 1 : K2[i] = keys[(mid + 2) + i - 1]
    BY <1>2, <2>1, SubSeqElements
  <2> QED BY <1>1, <2>2, <2>3
<1>6. \A i \in 1 .. N - mid : C2[i] = children[mid + 1 + i]
  <2>1. /\ 1 <= mid + 2 /\ mid + 2 <= Len(children) + 1 /\ Len(children) <= Len(children)
        /\ Len(children) \in Nat
    BY <1>2
  <2>2. \A i \in 1 .. Len(children) - (mid + 2) + 1 : C2[i] = children[(mid + 2) + i - 1]
    BY <1>2, <2>1, SubSeqElements
  <2> QED BY <1>2, <2>2
<1>7. /\ Sorted(keys) /\ Within(keys, s[p].range)
      /\ s[p].first = s[children[1]].first
      /\ s[p].after = s[children[N + 1]].after
      /\ \A i \in 1 .. N : s[children[i]].after = s[children[i + 1]].first
      /\ \A i \in 1 .. N + 1 : s[children[i]].range = Part(s[p].range, keys, i)
      /\ \A i \in 1 .. N + 1 : t[children[i]] = s[children[i]]
  BY <1>1 DEF InnerFits, Internal
<1>8. /\ sep \in s[p].range
      /\ t[p].first = s[p].first /\ t[p].after = t[right].first
      /\ t[p].range = {k \in s[p].range : k <= sep}
      /\ t[right].after = s[p].after
      /\ t[right].range = {k \in s[p].range : sep <= k}
      /\ t[right].first = s[children[mid + 2]].first
  BY DEF SplitAs
<1>9. Sorted(K1) /\ Within(K1, t[p].range)
  <2>1. ASSUME NEW i \in 1 .. mid PROVE keys[i] \in t[p].range
    <3>1. i \in 1 .. N /\ i < mid + 1
      BY <1>1, <1>2
    <3>2. keys[i] <= sep
      BY <1>1, <1>2, <1>7, <3>1 DEF Sorted
    <3>3. keys[i] \in s[p].range
      BY <1>1, <1>7, <3>1 DEF Within
    <3> QED BY <1>8, <3>2, <3>3
  <2>2. 1 <= mid + 1 /\ mid <= Len(keys) /\ 1 \in Nat /\ 1 <= 1
    BY <1>1, <1>2
  <2> QED BY <1>7, <2>1, <2>2, SortedPart
<1>10. Sorted(K2) /\ Within(K2, t[right].range)
  <2>1. ASSUME NEW i \in mid + 2 .. Len(keys) PROVE keys[i] \in t[right].range
    <3>1. i \in 1 .. N /\ mid + 1 < i
      BY <1>1, <1>2
    <3>2. sep <= keys[i]
      BY <1>1, <1>2, <1>7, <3>1 DEF Sorted
    <3>3. keys[i] \in s[p].range
      BY <1>1, <1>7, <3>1 DEF Within
    <3> QED BY <1>8, <3>2, <3>3
  <2>2. 1 <= mid + 2 /\ mid + 2 <= Len(keys) + 1 /\ Len(keys) <= Len(keys) /\ Len(keys) \in Nat
    BY <1>1, <1>2
  <2> QED BY <1>2, <1>7, <2>1, <2>2, SortedPart
<1> HIDE DEF K1, C1, K2, C2
<1>11. t[p].first = t[C1[1]].first /\ t[p].after = t[C1[mid + 1]].after
  <2>1. C1[1] = children[1] /\ C1[mid + 1] = children[mid + 1]
    BY <1>2, <1>4
  <2>2. t[children[1]] = s[children[1]] /\ t[children[mid + 1]] = s[children[mid + 1]]
    BY <1>2, <1>7
  <2>3. s[children[mid + 1]].after = s[children[mid + 2]].first
    <3>1. (mid + 1) + 1 = mid + 2
      OBVIOUS
    <3> QED BY <1>2, <1>7, <3>1
  <2> QED BY <1>7, <1>8, <2>1, <2>2, <2>3
<1>12. ASSUME NEW i \in 1 .. mid PROVE t[C1[i]].after = t[C1[i + 1]].first
  <2>1. /\ i \in 1 .. mid + 1 /\ i + 1 \in 1 .. mid + 1 /\ i \in 1 .. N
        /\ i \in 1 .. N + 1 /\ i + 1 \in 1 .. N + 1
    BY <1>2
  <2>2. C1[i] = children[i] /\ C1[i + 1] = children[i + 1]
    BY <1>4, <2>1
  <2>3. t[children[i]] = s[children[i]] /\ t[children[i + 1]] = s[children[i + 1]]
    BY <1>7, <2>1
  <2>4. s[children[i]].after = s[children[i + 1]].first
    BY <1>7, <2>1
  <2> QED BY <2>2, <2>3, <2>4
<1>13. ASSUME NEW i \in 1 .. mid + 1 PROVE t[C1[i]].range = Part(t[p].range, K1, i)
  <2>1. C1[i] = children[i] /\ i \in 1 .. N + 1 /\ i <= N
    BY <1>2, <1>4
  <2>2. t[C1[i]].range = Part(s[p].range, keys, i)
    BY <1>7, <2>1
  <2>3. ASSUME NEW k \in s[p].range
        PROVE  k \in Part(t[p].range, K1, i) <=> k \in Part(s[p].range, keys, i)
    <3>1. i > 1 => K1[i - 1] = keys[i - 1]
      BY <1>3
    <3>2. k \in Part(s[p].range, keys, i) <=> (i > 1 => keys[i - 1] <= k) /\ k <= keys[i]
      BY <1>1, <2>1 DEF Part
    <3>3. k \in Part(t[p].range, K1, i)
            <=> k <= sep /\ (i > 1 => keys[i - 1] <= k) /\ (i <= mid => k <= keys[i])
      <4>1. Len(K1) = mid /\ (i <= mid => K1[i] = keys[i])
        BY <1>3
      <4>2. k \in t[p].range <=> k <= sep
        BY <1>8
      <4> QED BY ONLY <3>1, <4>1, <4>2 DEF Part
    <3>4. i <= mid => keys[i] <= sep
      BY <1>1, <1>2, <1>7 DEF Sorted
    <3>5. i <= mid \/ i = mid + 1
      OBVIOUS
    <3>6. k \in Int /\ keys[i] \in Int /\ sep \in Int
      BY <1>2, <2>1
    <3>7. CASE i <= mid
      <4>1. k <= keys[i] => k <= sep
        BY <3>4, <3>6, <3>7
      <4> QED BY <3>2, <3>3, <3>7, <4>1
    <3>8. CASE i = mid + 1
      <4>1. ~(i <= mid)
        BY <3>8
      <4> QED BY <3>2, <3>3, <3>8, <4>1
    <3> QED BY <3>5, <3>7, <3>8
  <2> QED BY <1>8, <2>2, <2>3 DEF Part
<1>14. t[right].first = t[C2[1]].first /\ t[right].after = t[C2[N - mid]].after
  <2>1. C2[1] = children[mid + 2] /\ C2[N - mid] = children[N + 1]
    <3>1. /\ 1 \in 1 .. N - mid /\ N - mid \in 1 .. N - mid
          /\ mid + 1 + 1 = mid + 2 /\ mid + 1 + (N - mid) = N + 1
      BY <1>2
    <3> QED BY <1>6, <3>1
  <2>2. /\ t[children[mid + 2]] = s[children[mid + 2]]
        /\ t[children[N + 1]] = s[children[N + 1]]
    BY <1>2, <1>7
  <2> QED BY <1>7, <1>8, <2>1, <2>2
<1>15. ASSUME NEW i \in 1 .. N - mid - 1 PROVE t[C2[i]].after = t[C2[i + 1]].first
  <2>1. PICK j \in 1 .. N : j = mid + 1 + i
    BY <1>2
  <2>2. C2[i] = children[j] /\ C2[i + 1] = children[j + 1]
    <3>1. i \in 1 .. N - mid /\ i + 1 \in 1 .. N - mid
      BY <1>2
    <3>2. mid + 1 + (i + 1) = j + 1
      BY <2>1
    <3> QED BY <1>6, <2>1, <3>1, <3>2
  <2>3. t[children[j]] = s[children[j]] /\ t[children[j + 1]] = s[children[j + 1]]
    BY <1>7
  <2>4. s[children[j]].after = s[children[j + 1]].first
    BY <1>7
  <2> QED BY <2>2, <2>3, <2>4
<1>16. ASSUME NEW i \in 1 .. N - mid PROVE t[C2[i]].range = Part(t[right].range, K2, i)
  <2>1. PICK j \in 1 .. N + 1 : j = mid + 1 + i
    BY <1>2
  <2>2. t[C2[i]].range = Part(s[p].range, keys, j)
    BY <1>6, <1>7, <2>1
  <2>3. ASSUME NEW k \in s[p].range
        PROVE  k \in Part(t[right].range, K2, i) <=> k \in Part(s[p].range, keys, j)
    <3>1. /\ i > 1 => K2[i - 1] = keys[j - 1]
          /\ i <= N - mid - 1 => K2[i] = keys[j]
      <4>1. i > 1 => i - 1 \in 1 .. N - mid - 1 /\ mid + 1 + (i - 1) = j - 1
        BY <2>1
      <4>2. i <= N - mid - 1 => i \in 1 .. N - mid - 1
        OBVIOUS
      <4> QED BY <1>5, <2>1, <4>1, <4>2
    <3>2. k \in Part(s[p].range, keys, j) <=> keys[j - 1] <= k /\ (j <= N => k <= keys[j])
      <4>1. j > 1
        BY <2>1
      <4> QED BY <1>1, <4>1 DEF Part
    <3>3. k \in Part(t[right].range, K2, i)
            <=> sep <= k /\ (i > 1 => keys[j - 1] <= k) /\ (j <= N => k <= keys[j])
      <4>1. Len(K2) = N - mid - 1
        BY <1>5
      <4>2. i <= N - mid - 1 <=> j <= N
        BY <2>1
      <4>3. k \in Part(t[right].range, K2, i)
              <=> k \in t[right].range /\ (i > 1 => K2[i - 1] <= k) /\ (i <= Len(K2) => k <= K2[i])
        BY ONLY DEF Part
      <4>4. k \in t[right].range <=> sep <= k
        BY <1>8
      <4> QED BY ONLY <3>1, <4>1, <4>2, <4>3, <4>4
    <3>4. CASE i = 1
      <4>1. j - 1 = mid + 1 /\ ~(i > 1)
        BY <2>1, <3>4
      <4> QED BY <3>2, <3>3, <4>1
    <3>5. CASE i > 1
      <4>1. j - 1 \in 1 .. N /\ mid + 1 < j - 1
        BY <2>1, <3>5
      <4>2. sep <= keys[j - 1] /\ keys[j - 1] \in Int
        BY <1>1, <1>2, <1>7, <4>1 DEF Sorted
      <4>3. k \in Int /\ sep \in Int
        BY <1>2
      <4>4. keys[j - 1] <= k => sep <= k
        BY <4>2, <4>3
      <4> QED BY <3>2, <3>3, <3>5, <4>4
    <3> QED BY <3>4, <3>5
  <2>4. /\ t[right].range \subseteq s[p].range
        /\ Part(t[right].range, K2, i) \subseteq t[right].range
        /\ Part(s[p].range, keys, j) \subseteq s[p].range
    BY <1>8 DEF Part
  <2> QED BY <2>2, <2>3, <2>4
<1>17. InnerFits(Internal(K1, C1), p, t)
  <2>1. Internal(K1, C1).keys = K1 /\ Internal(K1, C1).children = C1
    BY DEF Internal
  <2> QED BY <1>3, <1>9, <1>11, <1>12, <1>13, <2>1 DEF InnerFits
<1>18. InnerFits(Internal(K2, C2), right, t)
  <2>1. Internal(K2, C2).keys = K2 /\ Internal(K2, C2).children = C2
    BY DEF Internal
  <2>2. Len(K2) + 1 = N - mid
    BY <1>2, <1>5
  <2> QED BY <1>5, <1>10, <1>14, <1>15, <1>16, <2>1, <2>2 DEF InnerFits
<1> QED BY <1>17, <1>18 DEF K1, C1, K2, C2

(* A leaf is split.                                                        *)
LEMMA LeafHalvesFit ==
  ASSUME NEW node, NEW keys \in Seq(Key), keys = node.keys, NEW p, NEW s, LeafFits(node, p, s),
         NEW mid \in Nat, mid + 1 <= Len(keys), NEW sep, sep = keys[mid + 1],
         NEW t, NEW right, SplitAs(t, s, p, right, sep), t[right].first = right,
         NEW left, left.keys = SubSeq(keys, 1, mid), left.next_leaf = right,
         NEW new, new.keys = SubSeq(keys, mid + 1, Len(keys)), new.next_leaf = node.next_leaf
  PROVE  LeafFits(left, p, t) /\ LeafFits(new, right, t)
<1>1. /\ Sorted(keys) /\ Within(keys, s[p].range) /\ s[p].first = p /\ s[p].after = node.next_leaf
  BY DEF LeafFits
<1>2. /\ t[p].first = s[p].first /\ t[p].after = t[right].first
      /\ t[p].range = {k \in s[p].range : k <= keys[mid + 1]}
      /\ t[right].after = s[p].after
      /\ t[right].range = {k \in s[p].range : keys[mid + 1] <= k}
  BY DEF SplitAs
<1>3. Len(keys) \in Nat /\ mid + 1 \in 1 .. Len(keys) /\ keys[mid + 1] \in Int
  BY KeysAreInt
<1>4. Sorted(SubSeq(keys, 1, mid)) /\ Within(SubSeq(keys, 1, mid), t[p].range)
  <2>1. ASSUME NEW i \in 1 .. mid PROVE keys[i] \in t[p].range
    <3>1. i \in 1 .. Len(keys) /\ i < mid + 1
      BY <1>3
    <3>2. keys[i] <= keys[mid + 1]
      BY <1>1, <1>3, <3>1 DEF Sorted
    <3>3. keys[i] \in s[p].range
      BY <1>1, <3>1 DEF Within
    <3> QED BY <1>2, <3>2, <3>3
  <2>2. 1 <= mid + 1 /\ mid <= Len(keys) /\ 1 \in Nat /\ 1 <= 1
    BY <1>3
  <2> QED BY <1>1, <2>1, <2>2, SortedPart
<1>5. /\ Sorted(SubSeq(keys, mid + 1, Len(keys)))
      /\ Within(SubSeq(keys, mid + 1, Len(keys)), t[right].range)
  <2>1. ASSUME NEW i \in mid + 1 .. Len(keys) PROVE keys[i] \in t[right].range
    <3>1. i \in 1 .. Len(keys) /\ (mid + 1 < i \/ i = mid + 1)
      BY <1>3
    <3>2. keys[mid + 1] <= keys[i]
      BY <1>1, <1>3, <3>1 DEF Sorted
    <3>3. keys[i] \in s[p].range
      BY <1>1, <3>1 DEF Within
    <3> QED BY <1>2, <3>2, <3>3
  <2>2. /\ 1 <= mid + 1 /\ mid + 1 <= Len(keys) + 1 /\ Len(keys) <= Len(keys)
        /\ mid + 1 \in Nat
    BY <1>3
  <2> QED BY <1>1, <1>3, <2>1, <2>2, SortedPart
<1> QED BY <1>1, <1>2, <1>4, <1>5 DEF LeafFits

-----------------------------------------------------------------------------
(* Every page is the child of one page, once, except those at the top.     *)

LEMMA KidsOfNode ==
  ASSUME NEW node, NEW within, NEW max, IsNode(node, within, max)
  PROVE  /\ Kids(node) \subseteq within
         /\ ~node.is_leaf => /\ \A i \in 1 .. Len(node.keys) + 1 :
                                  node.children[i] \in Kids(node)
                             /\ \A T : node.children \in Seq(T) => Kids(node) \subseteq T
<1>1. CASE node.is_leaf
  BY <1>1 DEF Kids
<1>2. CASE ~node.is_leaf
  <2>1. IsInner(node, within, max)
    BY <1>2 DEF IsNode, IsLeaf, LeafNode
  <2>2. /\ node.children \in Seq(within) /\ Len(node.children) = Len(node.keys) + 1
    BY <2>1 DEF IsInner, InnerNode
  <2>3. Kids(node) = {node.children[i] : i \in 1 .. Len(node.children)}
    BY <1>2, <2>2 DEF Kids
  <2>4. \A T : node.children \in Seq(T) => \A i \in 1 .. Len(node.children) : node.children[i] \in T
    OBVIOUS
  <2>5. \A T : node.children \in Seq(T) => Kids(node) \subseteq T
    BY <2>3, <2>4
  <2>6. \A i \in 1 .. Len(node.keys) + 1 : node.children[i] \in Kids(node)
    BY <1>2 DEF Kids
  <2> QED BY <2>2, <2>5, <2>6
<1> QED BY <1>1, <1>2

LEMMA InsertedKids ==
  ASSUME NEW S, NEW keys \in Seq(Key), NEW children \in Seq(S),
         Len(children) = Len(keys) + 1, NEW n \in 0 .. Len(keys),
         NEW sep \in Key, NEW right \in S, right \notin Kids(Internal(keys, children)),
         Distinct(Internal(keys, children)),
         NEW new, new = Internal(InsertAt(keys, n + 1, sep), InsertAt(children, n + 2, right))
  PROVE  /\ Distinct(new)
         /\ \A x : x \in Kids(new) <=> x \in Kids(Internal(keys, children)) \/ x = right
<1> DEFINE C == InsertAt(children, n + 2, right)
<1>1. PICK N \in Nat : N = Len(keys)
  OBVIOUS
<1>2. n \in Nat /\ n <= N /\ n + 2 \in 1 .. Len(children) + 1 /\ n + 2 \in 1 .. N + 2
  BY <1>1
<1>3. \A j \in 1 .. N + 2 :
        C[j] = IF j < n + 2 THEN children[j] ELSE IF j = n + 2 THEN right ELSE children[j - 1]
  <2>1. \A j \in 1 .. Len(children) + 1 :
          C[j] = IF j < n + 2 THEN children[j] ELSE IF j = n + 2 THEN right ELSE children[j - 1]
    <3>1. n + 2 \in 1 .. Len(children) + 1
      BY ONLY <1>2
    <3> QED BY ONLY children \in Seq(S), right \in S, <3>1, InsertAtElements
  <2>2. Len(children) + 1 = N + 2
    BY <1>1
  <2> QED BY <2>1, <2>2
<1>4. /\ new.is_leaf = FALSE /\ new.children = C /\ Len(new.keys) = N + 1
  <2>1. n + 1 \in 1 .. Len(keys) + 1
    BY <1>1, <1>2
  <2>2. Len(InsertAt(keys, n + 1, sep)) = Len(keys) + 1
    BY ONLY keys \in Seq(Key), sep \in Key, <2>1, InsertAtType
  <2> QED BY <1>1, <2>2 DEF Internal
<1> HIDE DEF C
<1>5. /\ Kids(Internal(keys, children)) = {children[i] : i \in 1 .. N + 1}
      /\ \A i, j \in 1 .. N + 1 : children[i] = children[j] => i = j
  BY <1>1 DEF Kids, Distinct, Internal
<1>6. (N + 1) + 1 = N + 2
  OBVIOUS
<1>7. \A i \in 1 .. N + 1 : children[i] # right
  BY <1>5
<1>8. Distinct(new)
  <2> SUFFICES ASSUME NEW i \in 1 .. N + 2, NEW j \in 1 .. N + 2, C[i] = C[j] PROVE i = j
    BY <1>4, <1>6 DEF Distinct
  <2>1. \A k \in 1 .. N + 2 : (k < n + 2 => k \in 1 .. N + 1) /\ (k > n + 2 => k - 1 \in 1 .. N + 1)
    BY <1>2
  <2>2. CASE i < n + 2 /\ j < n + 2
    BY <1>3, <1>5, <2>1, <2>2
  <2>3. CASE i = n + 2 \/ j = n + 2
    BY <1>2, <1>3, <1>7, <2>1, <2>3
  <2>4. CASE i > n + 2 /\ j > n + 2
    <3>1. children[i - 1] = children[j - 1]
      BY <1>2, <1>3, <2>4
    <3>2. i - 1 = j - 1
      BY <1>5, <2>1, <2>4, <3>1
    <3> QED BY <3>2
  <2>5. CASE i < n + 2 /\ j > n + 2
    <3>1. children[i] = children[j - 1]
      BY <1>2, <1>3, <2>5
    <3>2. i = j - 1
      BY <1>5, <2>1, <2>5, <3>1
    <3> QED BY <1>2, <2>5, <3>2
  <2>6. CASE i > n + 2 /\ j < n + 2
    <3>1. children[i - 1] = children[j]
      BY <1>2, <1>3, <2>6
    <3>2. i - 1 = j
      BY <1>5, <2>1, <2>6, <3>1
    <3> QED BY <1>2, <2>6, <3>2
  <2> QED BY <1>2, <2>2, <2>3, <2>4, <2>5, <2>6
<1>9. Kids(new) = {C[i] : i \in 1 .. N + 2}
  BY <1>4, <1>6 DEF Kids
<1>10. ASSUME NEW i \in 1 .. N + 2 PROVE C[i] = right \/ \E j \in 1 .. N + 1 : C[i] = children[j]
  <2>1. (i < n + 2 => i \in 1 .. N + 1) /\ (i > n + 2 => i - 1 \in 1 .. N + 1)
    BY <1>2
  <2> QED BY <1>2, <1>3, <2>1
<1>11. ASSUME NEW j \in 1 .. N + 1 PROVE \E i \in 1 .. N + 2 : C[i] = children[j]
  <2>1. CASE j < n + 2
    <3>1. j \in 1 .. N + 2
      OBVIOUS
    <3> QED BY <1>3, <2>1, <3>1
  <2>2. CASE ~(j < n + 2)
    <3>1. j + 1 \in 1 .. N + 2 /\ ~(j + 1 < n + 2) /\ j + 1 # n + 2 /\ (j + 1) - 1 = j
      BY <1>2, <2>2
    <3>2. C[j + 1] = children[j]
      BY <1>3, <3>1
    <3> QED BY <3>1, <3>2
  <2> QED BY <2>1, <2>2
<1>12. C[n + 2] = right
  BY <1>2, <1>3
<1>13. ASSUME NEW x \in Kids(new) PROVE x \in Kids(Internal(keys, children)) \/ x = right
  <2>1. PICK i \in 1 .. N + 2 : x = C[i]
    BY <1>9, <1>13
  <2>2. C[i] = right \/ \E j \in 1 .. N + 1 : C[i] = children[j]
    BY <1>10
  <2>3. CASE C[i] = right
    BY <2>1, <2>3
  <2>4. CASE \E j \in 1 .. N + 1 : C[i] = children[j]
    <3>1. PICK j \in 1 .. N + 1 : C[i] = children[j]
      BY <2>4
    <3>2. children[j] \in Kids(Internal(keys, children))
      BY <1>5
    <3> QED BY <2>1, <3>1, <3>2
  <2> QED BY <2>2, <2>3, <2>4
<1>14. ASSUME NEW x \in Kids(Internal(keys, children)) PROVE x \in Kids(new)
  <2>1. PICK j \in 1 .. N + 1 : x = children[j]
    BY <1>5, <1>14
  <2>2. PICK i \in 1 .. N + 2 : C[i] = children[j]
    BY <1>11
  <2> QED BY <1>9, <2>1, <2>2
<1>15. right \in Kids(new)
  BY <1>2, <1>9, <1>12
<1> QED BY <1>8, <1>13, <1>14, <1>15

LEMMA HalvesKids ==
  ASSUME NEW S, NEW keys \in Seq(Key), NEW children \in Seq(S),
         Len(children) = Len(keys) + 1, NEW mid \in Nat, mid + 1 <= Len(keys),
         Distinct(Internal(keys, children)),
         NEW left, left = Internal(SubSeq(keys, 1, mid), SubSeq(children, 1, mid + 1)),
         NEW new, new = Internal(SubSeq(keys, mid + 2, Len(keys)),
                                 SubSeq(children, mid + 2, Len(children)))
  PROVE  /\ Distinct(left) /\ Distinct(new)
         /\ \A x : x \in Kids(Internal(keys, children)) <=> x \in Kids(left) \/ x \in Kids(new)
         /\ \A x : ~(x \in Kids(left) /\ x \in Kids(new))
<1> DEFINE C1 == SubSeq(children, 1, mid + 1)
           C2 == SubSeq(children, mid + 2, Len(children))
<1>1. PICK N \in Nat : N = Len(keys)
  OBVIOUS
<1>2. mid + 1 \in 1 .. N /\ mid + 2 \in Nat /\ Len(children) = N + 1
  BY <1>1
<1>3. Len(left.keys) + 1 = mid + 1 /\ left.children = C1 /\ left.is_leaf = FALSE
  <2>1. 1 <= mid + 1 /\ mid <= Len(keys) /\ 1 \in Nat
    BY <1>1, <1>2
  <2>2. Len(SubSeq(keys, 1, mid)) = mid - 1 + 1
    BY <2>1, SubSeqType
  <2> QED BY <2>2 DEF Internal
<1>4. \A i \in 1 .. mid + 1 : C1[i] = children[i]
  <2>1. 1 <= (mid + 1) + 1 /\ mid + 1 <= Len(children) /\ 1 \in Nat /\ 1 <= 1
    BY <1>2
  <2>2. \A i \in 1 .. (mid + 1) - 1 + 1 : C1[i] = children[1 + i - 1]
    BY <1>2, <2>1, SubSeqElements
  <2> QED BY <2>2
<1>5. Len(new.keys) + 1 = N - mid /\ new.children = C2 /\ new.is_leaf = FALSE
  <2>1. 1 <= mid + 2 /\ mid + 2 <= Len(keys) + 1 /\ Len(keys) <= Len(keys) /\ Len(keys) \in Nat
    BY <1>1, <1>2
  <2>2. Len(SubSeq(keys, mid + 2, Len(keys))) = Len(keys) - (mid + 2) + 1
    BY <1>2, <2>1, SubSeqType
  <2>3. Len(keys) - (mid + 2) + 1 + 1 = N - mid
    BY <1>1
  <2>4. new.keys = SubSeq(keys, mid + 2, Len(keys)) /\ new.children = C2 /\ new.is_leaf = FALSE
    BY DEF Internal
  <2> HIDE DEF C2
  <2> QED BY <2>2, <2>3, <2>4
<1>6. \A i \in 1 .. N - mid : C2[i] = children[mid + 1 + i]
  <2>1. /\ 1 <= mid + 2 /\ mid + 2 <= Len(children) + 1 /\ Len(children) <= Len(children)
        /\ Len(children) \in Nat
    BY <1>2
  <2>2. \A i \in 1 .. Len(children) - (mid + 2) + 1 : C2[i] = children[(mid + 2) + i - 1]
    BY <1>2, <2>1, SubSeqElements
  <2> QED BY <1>2, <2>2
<1> HIDE DEF C1, C2
<1>7. /\ Kids(Internal(keys, children)) = {children[i] : i \in 1 .. N + 1}
      /\ \A i, j \in 1 .. N + 1 : children[i] = children[j] => i = j
  BY <1>1 DEF Kids, Distinct, Internal
<1>8. Kids(left) = {C1[i] : i \in 1 .. mid + 1} /\ Kids(new) = {C2[i] : i \in 1 .. N - mid}
  BY <1>3, <1>5 DEF Kids
<1>9. \A i \in 1 .. mid + 1 : i \in 1 .. N + 1
  BY <1>2
<1>10. \A i \in 1 .. N - mid : mid + 1 + i \in 1 .. N + 1 /\ ~(mid + 1 + i \in 1 .. mid + 1)
  BY <1>2
<1>11. Distinct(left)
  <2> SUFFICES ASSUME NEW i \in 1 .. mid + 1, NEW j \in 1 .. mid + 1, C1[i] = C1[j] PROVE i = j
    BY <1>3 DEF Distinct
  <2> QED BY <1>4, <1>7, <1>9
<1>12. Distinct(new)
  <2> SUFFICES ASSUME NEW i \in 1 .. N - mid, NEW j \in 1 .. N - mid, C2[i] = C2[j] PROVE i = j
    BY <1>5 DEF Distinct
  <2>1. mid + 1 + i = mid + 1 + j
    BY <1>6, <1>7, <1>10
  <2> QED BY <2>1
<1>13. ASSUME NEW k \in 1 .. N + 1
       PROVE  (\E i \in 1 .. mid + 1 : C1[i] = children[k])
                \/ (\E i \in 1 .. N - mid : C2[i] = children[k])
  <2>1. CASE k \in 1 .. mid + 1
    BY <1>4, <2>1
  <2>2. CASE ~(k \in 1 .. mid + 1)
    <3>1. k - mid - 1 \in 1 .. N - mid /\ mid + 1 + (k - mid - 1) = k
      BY <1>2, <2>2
    <3>2. C2[k - mid - 1] = children[k]
      BY <1>6, <3>1
    <3> QED BY <3>1, <3>2
  <2> QED BY <2>1, <2>2
<1>14. Kids(left) \cup Kids(new) = Kids(Internal(keys, children))
  <2>1. ASSUME NEW i \in 1 .. mid + 1 PROVE C1[i] \in Kids(Internal(keys, children))
    BY <1>4, <1>7, <1>9
  <2>2. ASSUME NEW i \in 1 .. N - mid PROVE C2[i] \in Kids(Internal(keys, children))
    <3>1. C2[i] = children[mid + 1 + i] /\ mid + 1 + i \in 1 .. N + 1
      BY <1>6, <1>10
    <3> QED BY <1>7, <3>1
  <2>3. ASSUME NEW x \in Kids(Internal(keys, children)) PROVE x \in Kids(left) \/ x \in Kids(new)
    <3>1. PICK k \in 1 .. N + 1 : x = children[k]
      BY <1>7, <2>3
    <3>2. CASE \E i \in 1 .. mid + 1 : C1[i] = children[k]
      BY <1>8, <3>1, <3>2
    <3>3. CASE \E i \in 1 .. N - mid : C2[i] = children[k]
      BY <1>8, <3>1, <3>3
    <3> QED BY <1>13, <3>2, <3>3
  <2> QED BY <1>8, <2>1, <2>2, <2>3
<1>15. Kids(left) \cap Kids(new) = {}
  <2> SUFFICES ASSUME NEW i \in 1 .. mid + 1, NEW j \in 1 .. N - mid, C1[i] = C2[j] PROVE FALSE
    BY <1>8
  <2>1. i = mid + 1 + j
    BY <1>4, <1>6, <1>7, <1>9, <1>10
  <2> QED BY <1>10, <2>1
<1> QED BY <1>11, <1>12, <1>14, <1>15

-----------------------------------------------------------------------------
(* Storing a node, split or not.                                           *)

LEMMA CutIs ==
  ASSUME NEW s, NEW pages, NEW p \in pages, NEW n, n \notin pages, NEW sep \in s[p].range,
         NEW first, InIntegers(pages, s), NEW t, t = Cut(s, pages, p, n, sep, first)
  PROVE  /\ SplitAs(t, s, p, n, sep) /\ t[n].first = first
         /\ \A q \in pages \ {p} : t[q] = s[q]
         /\ \A q : q \in pages \/ q = n => t[q].range \subseteq Int
<1>1. p # n
  OBVIOUS
<1>2. /\ t[n] = [first |-> first, after |-> s[p].after,
                 range |-> {k \in s[p].range : sep <= k}]
      /\ t[p] = [first |-> s[p].first, after |-> first,
                 range |-> {k \in s[p].range : k <= sep}]
      /\ \A q \in pages \ {p} : t[q] = s[q]
  BY <1>1 DEF Cut
<1>3. /\ t[n].first = first /\ t[n].after = s[p].after
      /\ t[n].range = {k \in s[p].range : sep <= k}
      /\ t[p].first = s[p].first /\ t[p].after = first
      /\ t[p].range = {k \in s[p].range : k <= sep}
  BY <1>2
<1>4. SplitAs(t, s, p, n, sep)
  BY <1>3 DEF SplitAs
<1>5. \A q : q \in pages \/ q = n => t[q].range \subseteq Int
  BY <1>2, <1>3 DEF InIntegers
<1> QED BY <1>2, <1>3, <1>4, <1>5

LEMMA FitsStill ==
  ASSUME NEW node, NEW within, NEW max, IsNode(node, within, max), NEW q, NEW s, NEW t,
         Fits(node, q, s), t[q] = s[q], \A c \in Kids(node) : t[c] = s[c]
  PROVE  Fits(node, q, t)
<1>1. CASE node.is_leaf
  BY <1>1 DEF Fits, LeafFits
<1>2. CASE ~node.is_leaf
  <2>1. \A i \in 1 .. Len(node.keys) + 1 : t[node.children[i]] = s[node.children[i]]
    BY <1>2, KidsOfNode
  <2>2. Len(node.keys) \in Nat
    BY DEF IsNode, IsLeaf, IsInner, LeafNode, InnerNode
  <2>3. /\ 1 \in 1 .. Len(node.keys) + 1 /\ Len(node.keys) + 1 \in 1 .. Len(node.keys) + 1
        /\ \A i \in 1 .. Len(node.keys) :
             i \in 1 .. Len(node.keys) + 1 /\ i + 1 \in 1 .. Len(node.keys) + 1
    BY <2>2
  <2>4. InnerFits(node, q, s)
    BY <1>2 DEF Fits
  <2>5. InnerFits(node, q, t)
    BY <2>1, <2>3, <2>4 DEF InnerFits
  <2> QED BY <1>2, <2>5 DEF Fits
<1> QED BY <1>1, <1>2

LEMMA StoreOrSplitShape ==
  ASSUME NEW file, PagesOK(file), NEW p \in DOMAIN file,
         NEW node, IsNode(node, DOMAIN file, MaxKeys + 1), p \notin Kids(node),
         Distinct(node), NEW tops, Once(file, tops),
         NEW more, NEW top, Rest(tops, more, top), more \subseteq DOMAIN file,
         \A x : x \in Kids(node) <=> x \in Kids(file[p]) \/ x \in more,
         NEW s, InIntegers(DOMAIN file, s), Fits(node, p, s),
         \A q \in DOMAIN file \ {p} : Fits(file[q], q, s)
  PROVE  StoredShape(StoreOrSplit(file, p, node), file, p, s, top)
<1> DEFINE mid == Len(node.keys) \div 2
<1>1. PICK n \in Nat \ {0} : n = NewPage(file) /\ n \notin DOMAIN file
  BY NewPageNumber DEF PagesOK
<1>2. /\ node.keys \in Seq(Key) /\ Len(node.keys) \in Nat /\ Len(node.keys) <= MaxKeys + 1
      /\ MaxKeys \in Nat
  <2>1. node.keys \in Seq(Key) /\ Len(node.keys) <= MaxKeys + 1
    BY DEF IsNode, IsLeaf, IsInner, LeafNode, InnerNode
  <2> QED BY <2>1, TreeAssumption
<1>3. /\ p \in DOMAIN file /\ InIntegers(DOMAIN file, s) /\ s[p].range \subseteq Int
      /\ Once(file, tops) /\ more \subseteq tops /\ more \subseteq DOMAIN file
      /\ Distinct(node)
      /\ \A x : x \in Kids(node) <=> x \in Kids(file[p]) \/ x \in more
      /\ \A x : x \in top <=> x \in tops /\ x \notin more
  BY DEF InIntegers, Rest
<1>4. \A q \in DOMAIN file : IsNode(file[q], DOMAIN file, MaxKeys) /\ Kids(file[q]) \subseteq DOMAIN file
  BY KidsOfNode DEF PagesOK
<1>5. Kids(node) \subseteq DOMAIN file
  BY KidsOfNode
<1>6. CASE Len(node.keys) <= MaxKeys
  <2> DEFINE r == Stored([file EXCEPT ![p] = node], 0, 0)
  <2>1. StoreOrSplit(file, p, node) = r
    BY <1>6 DEF StoreOrSplit, NoSplit
  <2>2. r.nodes = [file EXCEPT ![p] = node] /\ r.right = 0
    BY DEF Stored
  <2> HIDE DEF r
  <2>3. /\ DOMAIN r.nodes = DOMAIN file
        /\ \A q \in DOMAIN file : r.nodes[q] = IF q = p THEN node ELSE file[q]
    BY <2>2
  <2>4. Once(r.nodes, top)
    <3>1. Once([file EXCEPT ![p] = node], top)
      BY ONLY <1>3, OnceReplaced
    <3> QED BY <2>2, <3>1
  <2>5. \A q \in DOMAIN r.nodes : Fits(r.nodes[q], q, s)
    BY <2>3
  <2> QED BY <2>1, <2>2, <2>3, <2>4, <2>5 DEF StoredShape
<1>7. ASSUME ~(Len(node.keys) <= MaxKeys)
      PROVE  mid \in Nat /\ 1 <= mid /\ mid + 2 <= Len(node.keys)
  <2>1. Len(node.keys) = MaxKeys + 1
    BY <1>2, <1>7
  <2> QED BY <1>2, <2>1, Halves
<1>8. CASE ~(Len(node.keys) <= MaxKeys) /\ node.is_leaf
  <2>1. mid \in Nat /\ 1 <= mid /\ mid + 2 <= Len(node.keys) /\ mid + 1 <= Len(node.keys)
        /\ mid + 1 \in 1 .. Len(node.keys) /\ mid + 1 \in Nat
    <3>1. mid \in Nat /\ 1 <= mid /\ mid + 2 <= Len(node.keys)
      BY <1>7, <1>8
    <3> HIDE DEF mid
    <3> QED BY <1>2, <3>1
  <2> DEFINE left == Leaf(SubSeq(node.keys, 1, mid), SubSeq(node.values, 1, mid), n)
             new == Leaf(SubSeq(node.keys, mid + 1, Len(node.keys)),
                         SubSeq(node.values, mid + 1, Len(node.keys)), node.next_leaf)
             r == Stored(WithPage([file EXCEPT ![p] = left], n, new), new.keys[1], n)
  <2>2. StoreOrSplit(file, p, node) = r
    BY <1>1, <1>8 DEF StoreOrSplit, SplitLeaf
  <2> HIDE DEF mid
  <2>3. PICK sep : sep = node.keys[mid + 1]
    OBVIOUS
  <2>4. new.keys[1] = sep
    <3>1. 1 <= mid + 1 /\ mid + 1 <= Len(node.keys) + 1 /\ Len(node.keys) <= Len(node.keys)
          /\ 1 \in 1 .. Len(node.keys) - (mid + 1) + 1
      BY <1>2, <2>1
    <3>2. SubSeq(node.keys, mid + 1, Len(node.keys))[1] = node.keys[(mid + 1) + 1 - 1]
      BY <1>2, <2>1, <3>1, SubSeqElements
    <3>3. (mid + 1) + 1 - 1 = mid + 1
      BY <2>1
    <3>4. new.keys = SubSeq(node.keys, mid + 1, Len(node.keys))
      BY DEF Leaf
    <3> HIDE DEF new
    <3> QED BY <2>3, <3>2, <3>3, <3>4
  <2>5. r.nodes = WithPage([file EXCEPT ![p] = left], n, new) /\ r.right = n /\ r.sep = sep
    BY <2>4 DEF Stored
  <2>6. /\ left.is_leaf = TRUE /\ new.is_leaf = TRUE
    BY DEF Leaf
  <2>7. Leaf(node.keys, node.values, node.next_leaf) = node /\ LeafFits(node, p, s)
    <3>1. IsLeaf(node, DOMAIN file, MaxKeys + 1)
      BY <1>8, NodeOfMore
    <3>2. node = [is_leaf |-> TRUE, keys |-> node.keys, values |-> node.values,
                  next_leaf |-> node.next_leaf]
      BY <3>1 DEF IsLeaf, LeafNode
    <3> QED BY <1>8, <3>2 DEF Fits, Leaf
  <2>8. sep \in s[p].range
    BY <2>1, <2>3, <2>7 DEF LeafFits, Within
  <2>9. PICK t : t = Cut(s, DOMAIN file, p, n, sep, n)
    OBVIOUS
  <2>10. /\ SplitAs(t, s, p, n, sep) /\ t[n].first = n
         /\ \A q \in DOMAIN file \ {p} : t[q] = s[q]
         /\ \A q : q \in DOMAIN file \/ q = n => t[q].range \subseteq Int
    BY ONLY <1>3, <1>1, <2>8, <2>9, CutIs
  <2>11. LeafFits(left, p, t) /\ LeafFits(new, n, t)
    <3>1. LeafFits(node, p, s)
      BY <2>7
    <3>2. /\ left.keys = SubSeq(node.keys, 1, mid) /\ left.next_leaf = n
          /\ new.keys = SubSeq(node.keys, mid + 1, Len(node.keys))
          /\ new.next_leaf = node.next_leaf
      BY DEF Leaf
    <3> HIDE DEF left, new
    <3>3. PICK keys : keys = node.keys
      OBVIOUS
    <3>4. PICK m \in Nat : m = mid
      BY <2>1
    <3>5. /\ SplitAs(t, s, p, n, sep) /\ sep = keys[m + 1] /\ t[n].first = n
          /\ keys \in Seq(Key) /\ m + 1 <= Len(keys)
          /\ left.keys = SubSeq(keys, 1, m) /\ left.next_leaf = n
          /\ new.keys = SubSeq(keys, m + 1, Len(keys)) /\ new.next_leaf = node.next_leaf
      BY <1>2, <2>1, <2>3, <2>10, <3>2, <3>3, <3>4
    <3> QED BY ONLY <3>1, <3>5, <3>3, LeafHalvesFit
  <2> HIDE DEF left, new, r
  <2>12. /\ DOMAIN r.nodes = DOMAIN file \cup {n}
         /\ \A q : q \in DOMAIN r.nodes <=> q \in DOMAIN file \/ q = n
         /\ \A q \in DOMAIN r.nodes :
              r.nodes[q] = IF q = n THEN new ELSE IF q = p THEN left ELSE file[q]
    BY <2>5 DEF WithPage
  <2>13. ASSUME NEW q \in DOMAIN r.nodes, p \notin Kids(r.nodes[q]) PROVE Fits(r.nodes[q], q, t)
    <3>1. CASE q = n \/ q = p
      BY <1>1, <2>6, <2>11, <2>12, <3>1 DEF Fits
    <3>2. CASE q # n /\ q # p
      <4>1. q \in DOMAIN file /\ r.nodes[q] = file[q] /\ t[q] = s[q] /\ Fits(file[q], q, s)
        BY <2>10, <2>12, <3>2
      <4>2. \A c \in Kids(file[q]) : t[c] = s[c]
        BY <1>4, <2>10, <2>13, <4>1
      <4> QED BY <1>4, <4>1, <4>2, FitsStill
    <3> QED BY <3>1, <3>2
  <2> DEFINE after == top \cup {n}
  <2>14. Once(r.nodes, after) /\ \A x : x \in after <=> x \in top \/ x = n
    <3>1. Kids(left) = {} /\ Kids(new) = {} /\ Kids(node) = {} /\ Distinct(left) /\ Distinct(new)
      BY <1>8, <2>6 DEF Kids, Distinct
    <3>2. /\ \A x : ~(x \in Kids(left) /\ x \in Kids(new))
          /\ \A x : x \in Kids(left) \/ x \in Kids(new) <=> x \in Kids(file[p]) \/ x \in more
      BY <1>3, <3>1
    <3>3. \A x : x \in after <=> (x \in tops /\ x \notin more) \/ x = n
      BY <1>3
    <3>4. \A x : x \in after <=> x \in top \/ x = n
      OBVIOUS
    <3> HIDE DEF after
    <3>5. Halved(r.nodes, file, p, n, left, new, more)
      BY ONLY <2>12, <3>1, <3>2 DEF Halved
    <3>6. Once(r.nodes, after)
      BY ONLY <1>3, <1>1, <1>4, <3>3, <3>5, OnceSplit
    <3> QED BY <3>4, <3>6
  <2>15. \A q \in DOMAIN file \ {p} : t[q] = s[q] /\ r.nodes[q] = file[q]
    BY <1>1, <2>10, <2>12
  <2>16. n # 0
    BY <1>1
  <2> HIDE DEF after
  <2> QED BY <2>2, <2>5, <2>10, <2>12, <2>13, <2>14, <2>15, <2>16 DEF StoredShape, InIntegers
<1>9. CASE ~(Len(node.keys) <= MaxKeys) /\ ~node.is_leaf
  <2>1. mid \in Nat /\ 1 <= mid /\ mid + 2 <= Len(node.keys) /\ mid + 1 <= Len(node.keys)
        /\ mid + 1 \in 1 .. Len(node.keys) /\ mid + 1 \in Nat
        /\ mid + 2 \in 1 .. Len(node.keys) + 1
    <3>1. mid \in Nat /\ 1 <= mid /\ mid + 2 <= Len(node.keys)
      BY <1>7, <1>9
    <3> HIDE DEF mid
    <3> QED BY <1>2, <3>1
  <2> DEFINE left == Internal(SubSeq(node.keys, 1, mid), SubSeq(node.children, 1, mid + 1))
             new == Internal(SubSeq(node.keys, mid + 2, Len(node.keys)),
                             SubSeq(node.children, mid + 2, Len(node.children)))
             r == Stored(WithPage([file EXCEPT ![p] = left], n, new), node.keys[mid + 1], n)
  <2>2. StoreOrSplit(file, p, node) = r
    BY <1>1, <1>9 DEF StoreOrSplit, SplitInternal
  <2> HIDE DEF mid
  <2>3. PICK sep : sep = node.keys[mid + 1]
    OBVIOUS
  <2>4. PICK first : first = s[node.children[mid + 2]].first
    OBVIOUS
  <2>5. r.nodes = WithPage([file EXCEPT ![p] = left], n, new) /\ r.right = n /\ r.sep = sep
    BY <2>3 DEF Stored
  <2>6. /\ left.is_leaf = FALSE /\ new.is_leaf = FALSE
    BY DEF Internal
  <2>7. /\ Internal(node.keys, node.children) = node /\ InnerFits(node, p, s)
        /\ node.children \in Seq(DOMAIN file) /\ Len(node.children) = Len(node.keys) + 1
    <3>1. IsInner(node, DOMAIN file, MaxKeys + 1)
      BY <1>9, NodeOfMore
    <3>2. node = [is_leaf |-> FALSE, keys |-> node.keys, children |-> node.children]
      BY <3>1 DEF IsInner, InnerNode
    <3>3. node.children \in Seq(DOMAIN file) /\ Len(node.children) = Len(node.keys) + 1
      BY <3>1 DEF IsInner, InnerNode
    <3> QED BY <1>9, <3>2, <3>3 DEF Fits, Internal
  <2>8. sep \in s[p].range
    BY <2>1, <2>3, <2>7 DEF InnerFits, Within
  <2>9. PICK t : t = Cut(s, DOMAIN file, p, n, sep, first)
    OBVIOUS
  <2>10. /\ SplitAs(t, s, p, n, sep) /\ t[n].first = first
         /\ \A q \in DOMAIN file \ {p} : t[q] = s[q]
         /\ \A q : q \in DOMAIN file \/ q = n => t[q].range \subseteq Int
    BY ONLY <1>3, <1>1, <2>8, <2>9, CutIs
  <2>11. \A i \in 1 .. Len(node.keys) + 1 :
           node.children[i] \in Kids(node) /\ t[node.children[i]] = s[node.children[i]]
    <3>1. \A i \in 1 .. Len(node.keys) + 1 : node.children[i] \in Kids(node)
      BY <1>9, KidsOfNode
    <3> QED BY <1>5, <2>10, <3>1
  <2>12. InnerFits(left, p, t) /\ InnerFits(new, n, t)
    <3>1. InnerFits(Internal(node.keys, node.children), p, s)
      BY <2>7
    <3>2. SplitAs(t, s, p, n, node.keys[mid + 1]) /\ t[n].first = s[node.children[mid + 2]].first
      BY <2>3, <2>4, <2>10
    <3> QED BY ONLY <1>3, <1>2, <2>1, <2>7, <2>11, <3>1, <3>2, HalvesFit
  <2>13. /\ Distinct(left) /\ Distinct(new)
         /\ \A x : x \in Kids(node) <=> x \in Kids(left) \/ x \in Kids(new)
         /\ \A x : ~(x \in Kids(left) /\ x \in Kids(new))
    <3>1. Distinct(Internal(node.keys, node.children))
      BY <2>7
    <3>2. /\ left = Internal(SubSeq(node.keys, 1, mid), SubSeq(node.children, 1, mid + 1))
          /\ new = Internal(SubSeq(node.keys, mid + 2, Len(node.keys)),
                            SubSeq(node.children, mid + 2, Len(node.children)))
      OBVIOUS
    <3> HIDE DEF left, new
    <3>3. /\ Distinct(left) /\ Distinct(new)
          /\ \A x : x \in Kids(Internal(node.keys, node.children))
                    <=> x \in Kids(left) \/ x \in Kids(new)
          /\ \A x : ~(x \in Kids(left) /\ x \in Kids(new))
      BY ONLY <1>2, <2>1, <2>7, <3>1, <3>2, HalvesKids
    <3> QED BY <2>7, <3>3
  <2> HIDE DEF left, new, r
  <2>14. /\ DOMAIN r.nodes = DOMAIN file \cup {n}
         /\ \A q : q \in DOMAIN r.nodes <=> q \in DOMAIN file \/ q = n
         /\ \A q \in DOMAIN r.nodes :
              r.nodes[q] = IF q = n THEN new ELSE IF q = p THEN left ELSE file[q]
    BY <2>5 DEF WithPage
  <2>15. ASSUME NEW q \in DOMAIN r.nodes, p \notin Kids(r.nodes[q]) PROVE Fits(r.nodes[q], q, t)
    <3>1. CASE q = n \/ q = p
      BY <1>1, <2>6, <2>12, <2>14, <3>1 DEF Fits
    <3>2. CASE q # n /\ q # p
      <4>1. q \in DOMAIN file /\ r.nodes[q] = file[q] /\ t[q] = s[q] /\ Fits(file[q], q, s)
        BY <2>10, <2>14, <3>2
      <4>2. \A c \in Kids(file[q]) : t[c] = s[c]
        BY <1>4, <2>10, <2>15, <4>1
      <4> QED BY <1>4, <4>1, <4>2, FitsStill
    <3> QED BY <3>1, <3>2
  <2> DEFINE after == top \cup {n}
  <2>16. Once(r.nodes, after) /\ \A x : x \in after <=> x \in top \/ x = n
    <3>1. \A x : x \in Kids(left) \/ x \in Kids(new) <=> x \in Kids(file[p]) \/ x \in more
      BY <1>3, <2>13
    <3>2. \A x : x \in after <=> (x \in tops /\ x \notin more) \/ x = n
      BY <1>3
    <3>3. \A x : x \in after <=> x \in top \/ x = n
      OBVIOUS
    <3> HIDE DEF after
    <3>4. Halved(r.nodes, file, p, n, left, new, more)
      BY ONLY <2>13, <2>14, <3>1 DEF Halved
    <3>5. Once(r.nodes, after)
      BY ONLY <1>3, <1>1, <1>4, <3>2, <3>4, OnceSplit
    <3> QED BY <3>3, <3>5
  <2>17. \A q \in DOMAIN file \ {p} : t[q] = s[q] /\ r.nodes[q] = file[q]
    BY <1>1, <2>10, <2>14
  <2>18. n # 0
    BY <1>1
  <2> HIDE DEF after
  <2> QED BY <2>2, <2>5, <2>10, <2>14, <2>15, <2>16, <2>17, <2>18 DEF StoredShape, InIntegers
<1> QED BY <1>6, <1>8, <1>9

-----------------------------------------------------------------------------
(* What nodes hold.                                                        *)

LEMMA EntryKey ==
  ASSUME NEW x \in Entry
  PROVE  x[1] \in Key /\ x[1] \in Int /\ x[2] \in RowId /\ x = <<x[1], x[2]>>
<1>1. x \in Key \X RowId
  BY DEF Entry
<1>2. x[1] \in Key /\ x[2] \in RowId
  BY <1>1
<1>3. x = <<x[1], x[2]>>
  BY <1>1
<1> QED BY <1>2, <1>3, TreeAssumption

LEMMA HeldIs ==
  ASSUME NEW node, NEW within, NEW max, IsNode(node, within, max)
  PROVE  /\ HeldBy(node) \in Seq(Entry)
         /\ node.is_leaf => /\ Len(HeldBy(node)) = Len(node.keys)
                            /\ DOMAIN HeldBy(node) = 1 .. Len(node.keys)
                            /\ \A i \in 1 .. Len(node.keys) :
                                 HeldBy(node)[i] = <<node.keys[i], node.values[i]>>
<1>1. CASE ~node.is_leaf
  BY <1>1 DEF HeldBy
<1>2. CASE node.is_leaf
  <2>1. IsLeaf(node, within, max)
    BY <1>2, NodeOfMore
  <2>2. node.keys \in Seq(Key) /\ node.values \in Seq(RowId)
    BY <2>1 DEF IsLeaf, LeafNode
  <2>3. PICK n \in Nat : n = Len(node.keys) /\ DOMAIN node.keys = 1 .. n
    BY <2>2
  <2>4. Len(node.values) = n /\ DOMAIN node.values = 1 .. n
    BY <2>1, <2>2, <2>3 DEF IsLeaf
  <2>5. HeldBy(node) = [i \in 1 .. n |-> <<node.keys[i], node.values[i]>>]
    BY <1>2, <2>3 DEF HeldBy, EntriesOf
  <2>6. \A i \in 1 .. n : <<node.keys[i], node.values[i]>> \in Entry
    BY <2>2, <2>3, <2>4 DEF Entry
  <2>7. HeldBy(node) \in Seq(Entry)
    BY <2>5, <2>6
  <2>8. DOMAIN HeldBy(node) = 1 .. n /\ Len(HeldBy(node)) = n
    BY <2>3, <2>5
  <2> QED BY <2>3, <2>5, <2>7, <2>8
<1> QED BY <1>1, <1>2

(* A node and its entries.                                                 *)
LEMMA LeafHolds ==
  ASSUME NEW node, NEW within, NEW max, IsLeaf(node, within, max)
  PROVE  /\ node.keys \in Seq(Key) /\ node.values \in Seq(RowId) /\ Len(node.keys) \in Nat
         /\ Len(node.values) = Len(node.keys) /\ node.is_leaf = TRUE
         /\ HeldBy(node) \in Seq(Entry) /\ Len(HeldBy(node)) = Len(node.keys)
         /\ \A i \in 1 .. Len(node.keys) : HeldBy(node)[i] = <<node.keys[i], node.values[i]>>
<1>1. /\ node.keys \in Seq(Key) /\ node.values \in Seq(RowId) /\ Len(node.keys) \in Nat
      /\ Len(node.values) = Len(node.keys) /\ node.is_leaf = TRUE
  <2>1. node \in LeafNode(within) /\ Len(node.values) = Len(node.keys)
    BY DEF IsLeaf
  <2>2. node.keys \in Seq(Key) /\ node.values \in Seq(RowId) /\ node.is_leaf = TRUE
    BY <2>1 DEF LeafNode
  <2>3. Len(node.keys) \in Nat
    BY <2>2
  <2> QED BY <2>1, <2>2, <2>3
<1>2. IsNode(node, within, max)
  BY DEF IsNode
<1>3. /\ HeldBy(node) \in Seq(Entry) /\ Len(HeldBy(node)) = Len(node.keys)
      /\ \A i \in 1 .. Len(node.keys) : HeldBy(node)[i] = <<node.keys[i], node.values[i]>>
  <2>1. node.is_leaf
    BY <1>1
  <2> QED BY ONLY <1>2, <2>1, HeldIs
<1> QED BY <1>1, <1>3

(* The halves of a leaf hold what it held.                                 *)
LEMMA HalvesHold ==
  ASSUME NEW within, NEW node, IsLeaf(node, within, MaxKeys + 1),
         NEW mid \in Nat, mid <= Len(node.keys),
         NEW more, NEW left, IsLeaf(left, more, MaxKeys), NEW new, IsLeaf(new, more, MaxKeys),
         left.keys = SubSeq(node.keys, 1, mid), left.values = SubSeq(node.values, 1, mid),
         new.keys = SubSeq(node.keys, mid + 1, Len(node.keys)),
         new.values = SubSeq(node.values, mid + 1, Len(node.keys)),
         NEW x
  PROVE  Times(HeldBy(node), x) = Times(HeldBy(left), x) + Times(HeldBy(new), x)
<1>1. PICK s, a, b : s = HeldBy(node) /\ a = HeldBy(left) /\ b = HeldBy(new)
  OBVIOUS
<1>2. PICK len \in Nat : len = Len(node.keys) /\ len = Len(node.values)
  BY LeafHolds
<1>3. /\ node.keys \in Seq(Key) /\ node.values \in Seq(RowId) /\ s \in Seq(Entry) /\ Len(s) = len
      /\ \A i \in 1 .. len : s[i] = <<node.keys[i], node.values[i]>>
  BY <1>1, <1>2, LeafHolds
<1>4. /\ a \in Seq(Entry) /\ Len(a) = Len(left.keys)
      /\ \A i \in 1 .. Len(left.keys) : a[i] = <<left.keys[i], left.values[i]>>
  BY <1>1, LeafHolds
<1>5. /\ b \in Seq(Entry) /\ Len(b) = Len(new.keys)
      /\ \A i \in 1 .. Len(new.keys) : b[i] = <<new.keys[i], new.values[i]>>
  BY <1>1, LeafHolds
<1>6. a = SubSeq(s, 1, mid)
  <2>1. /\ 1 \in Nat /\ 1 <= 1 /\ 1 <= mid + 1 /\ mid <= Len(s) /\ mid - 1 + 1 = mid
        /\ mid <= Len(node.keys) /\ mid <= Len(node.values)
    BY <1>2, <1>3
  <2>2. SubSeq(s, 1, mid) \in Seq(Entry) /\ Len(SubSeq(s, 1, mid)) = mid
    BY <1>3, <2>1, SubSeqType
  <2>3. Len(left.keys) = mid
    BY <1>3, <2>1, SubSeqType
  <2>4. ASSUME NEW i \in 1 .. mid PROVE a[i] = SubSeq(s, 1, mid)[i]
    <3>1. i \in 1 .. len /\ i \in 1 .. mid - 1 + 1 /\ 1 + i - 1 = i
      BY <1>2, <2>1
    <3>2. SubSeq(s, 1, mid)[i] = s[i]
      BY <1>3, <2>1, <3>1, SubSeqElements
    <3>3. left.keys[i] = node.keys[i]
      BY <1>3, <2>1, <3>1, SubSeqElements
    <3>4. left.values[i] = node.values[i]
      BY <1>3, <2>1, <3>1, SubSeqElements
    <3> QED BY <1>3, <1>4, <2>3, <3>1, <3>2, <3>3, <3>4
  <2>5. Len(a) = Len(SubSeq(s, 1, mid)) /\ \A i \in 1 .. Len(a) : a[i] = SubSeq(s, 1, mid)[i]
    BY <1>4, <2>2, <2>3, <2>4
  <2> QED BY ONLY <1>4, <2>2, <2>5, SameSequence
<1>7. b = SubSeq(s, mid + 1, Len(s))
  <2>1. PICK m \in Nat : m = mid + 1
    OBVIOUS
  <2>2. /\ 1 <= m /\ m <= len + 1 /\ len <= Len(s) /\ len <= Len(node.keys)
        /\ len <= Len(node.values) /\ len - m + 1 \in Nat
    BY <1>2, <1>3, <2>1
  <2>3. SubSeq(s, m, len) \in Seq(Entry) /\ Len(SubSeq(s, m, len)) = len - m + 1
    BY <1>3, <2>2, SubSeqType
  <2>4. Len(new.keys) = len - m + 1
    BY <1>2, <1>3, <2>1, <2>2, SubSeqType
  <2>5. ASSUME NEW i \in 1 .. len - m + 1 PROVE b[i] = SubSeq(s, m, len)[i]
    <3>1. PICK j : j = m + i - 1
      OBVIOUS
    <3>2. j \in 1 .. len
      BY <2>2, <3>1
    <3>3. SubSeq(s, m, len)[i] = s[j]
      BY <1>3, <2>2, <3>1, SubSeqElements
    <3>4. new.keys[i] = node.keys[j]
      BY <1>2, <1>3, <2>1, <2>2, <3>1, SubSeqElements
    <3>5. new.values[i] = node.values[j]
      BY <1>2, <1>3, <2>1, <2>2, <3>1, SubSeqElements
    <3> QED BY <1>3, <1>5, <2>4, <3>2, <3>3, <3>4, <3>5
  <2>6. Len(b) = Len(SubSeq(s, m, len)) /\ \A i \in 1 .. Len(b) : b[i] = SubSeq(s, m, len)[i]
    BY <1>5, <2>3, <2>4, <2>5
  <2>7. b = SubSeq(s, m, len)
    BY ONLY <1>5, <2>3, <2>6, SameSequence
  <2> QED BY <1>3, <2>1, <2>7
<1>8. mid \in 0 .. Len(s)
  BY <1>2, <1>3
<1>9. Times(s, x) = Times(SubSeq(s, 1, mid), x) + Times(SubSeq(s, mid + 1, Len(s)), x)
  BY <1>3, <1>8, TimesSplit
<1> QED BY <1>1, <1>6, <1>7, <1>9

(* A leaf with one entry more, or less.                                    *)
LEMMA InsertedHolds ==
  ASSUME NEW within, NEW old, IsLeaf(old, within, MaxKeys), NEW key \in Key, NEW rowid \in RowId,
         NEW i \in 1 .. Len(old.keys) + 1, NEW node, IsLeaf(node, within, MaxKeys + 1),
         node.keys = InsertAt(old.keys, i, key), node.values = InsertAt(old.values, i, rowid),
         NEW e, e = <<key, rowid>>, NEW x
  PROVE  Times(HeldBy(node), x) = Times(HeldBy(old), x) + One(e, x)
<1>1. PICK s, t : s = HeldBy(old) /\ t = HeldBy(node)
  OBVIOUS
<1>2. PICK len \in Nat : len = Len(old.keys) /\ len = Len(old.values)
  BY LeafHolds
<1>3. /\ old.keys \in Seq(Key) /\ old.values \in Seq(RowId) /\ s \in Seq(Entry) /\ Len(s) = len
      /\ \A j \in 1 .. len : s[j] = <<old.keys[j], old.values[j]>>
  BY <1>1, <1>2, LeafHolds
<1>4. /\ t \in Seq(Entry) /\ Len(t) = Len(node.keys)
      /\ \A j \in 1 .. Len(node.keys) : t[j] = <<node.keys[j], node.values[j]>>
  BY <1>1, LeafHolds
<1>5. i \in 1 .. Len(s) + 1 /\ i \in 1 .. Len(old.values) + 1 /\ e \in Entry
  BY <1>2, <1>3 DEF Entry
<1>6. InsertAt(s, i, e) \in Seq(Entry) /\ Len(InsertAt(s, i, e)) = len + 1
  BY <1>3, <1>5, InsertAtType
<1>7. Len(node.keys) = len + 1
  <2>1. Len(InsertAt(old.keys, i, key)) = Len(old.keys) + 1
    <3>1. old.keys \in Seq(Key)
      BY <1>3
    <3> QED BY ONLY <3>1, key \in Key, i \in 1 .. Len(old.keys) + 1, InsertAtType
  <2> QED BY <1>2, <2>1
<1>8. ASSUME NEW j \in 1 .. len + 1 PROVE t[j] = InsertAt(s, i, e)[j]
  <2>1. j \in 1 .. Len(s) + 1 /\ j \in 1 .. Len(old.keys) + 1 /\ j \in 1 .. Len(old.values) + 1
    BY <1>2, <1>3
  <2>2. InsertAt(s, i, e)[j] = IF j < i THEN s[j] ELSE IF j = i THEN e ELSE s[j - 1]
    <3>1. s \in Seq(Entry) /\ i \in 1 .. Len(s) + 1 /\ e \in Entry /\ j \in 1 .. Len(s) + 1
      BY <1>3, <1>5, <2>1
    <3> QED BY ONLY <3>1, InsertAtElements
  <2>3. node.keys[j] = IF j < i THEN old.keys[j] ELSE IF j = i THEN key ELSE old.keys[j - 1]
    BY <1>3, <2>1, InsertAtElements
  <2>4. node.values[j]
          = IF j < i THEN old.values[j] ELSE IF j = i THEN rowid ELSE old.values[j - 1]
    <3>1. InsertAt(old.values, i, rowid)[j]
            = IF j < i THEN old.values[j] ELSE IF j = i THEN rowid ELSE old.values[j - 1]
      <4>1. old.values \in Seq(RowId)
        BY <1>3
      <4> QED BY ONLY <1>5, <2>1, <4>1, rowid \in RowId, InsertAtElements
    <3> QED BY <3>1
  <2>5. t[j] = <<node.keys[j], node.values[j]>>
    BY <1>4, <1>7
  <2>6. CASE j < i
    <3>1. j \in 1 .. len
      BY <1>2, <2>6
    <3> QED BY <1>3, <2>2, <2>3, <2>4, <2>5, <2>6, <3>1
  <2>7. CASE j = i
    BY <2>2, <2>3, <2>4, <2>5, <2>7
  <2>8. CASE j > i
    <3>1. j - 1 \in 1 .. len /\ ~(j < i) /\ j # i
      BY <1>2, <2>8
    <3> QED BY <1>3, <2>2, <2>3, <2>4, <2>5, <3>1
  <2> QED BY <1>2, <2>6, <2>7, <2>8
<1>9. t = InsertAt(s, i, e)
  <2>1. Len(t) = Len(InsertAt(s, i, e)) /\ \A j \in 1 .. Len(t) : t[j] = InsertAt(s, i, e)[j]
    BY <1>4, <1>6, <1>7, <1>8
  <2> QED BY ONLY <1>4, <1>6, <2>1, SameSequence
<1>10. Times(InsertAt(s, i, e), x) = Times(s, x) + IF e = x THEN 1 ELSE 0
  <2>1. s \in Seq(Entry)
    BY <1>3
  <2> QED BY ONLY <1>5, <2>1, TimesInsertAt
<1> QED BY <1>1, <1>9, <1>10 DEF One

LEMMA RemovedHolds ==
  ASSUME NEW within, NEW old, IsLeaf(old, within, MaxKeys), NEW i \in 1 .. Len(old.keys),
         NEW node, IsLeaf(node, within, MaxKeys),
         node.keys = RemoveAt(old.keys, i), node.values = RemoveAt(old.values, i),
         NEW e, e = <<old.keys[i], old.values[i]>>, NEW x
  PROVE  Times(HeldBy(old), x) = Times(HeldBy(node), x) + One(e, x)
<1>1. PICK s, t : s = HeldBy(old) /\ t = HeldBy(node)
  OBVIOUS
<1>2. PICK len \in Nat : len = Len(old.keys) /\ len = Len(old.values)
  BY LeafHolds
<1>3. /\ old.keys \in Seq(Key) /\ old.values \in Seq(RowId) /\ s \in Seq(Entry) /\ Len(s) = len
      /\ \A j \in 1 .. len : s[j] = <<old.keys[j], old.values[j]>>
  BY <1>1, <1>2, LeafHolds
<1>4. /\ t \in Seq(Entry) /\ Len(t) = Len(node.keys)
      /\ \A j \in 1 .. Len(node.keys) : t[j] = <<node.keys[j], node.values[j]>>
  BY <1>1, LeafHolds
<1>5. i \in 1 .. Len(s) /\ i \in 1 .. Len(old.values) /\ s[i] = e
  BY <1>2, <1>3
<1>6. RemoveAt(s, i) \in Seq(Entry) /\ Len(RemoveAt(s, i)) = len - 1
  BY <1>3, <1>5, RemoveAtType
<1>7. Len(node.keys) = len - 1
  BY <1>2, <1>3, RemoveAtType
<1>8. ASSUME NEW j \in 1 .. len - 1 PROVE t[j] = RemoveAt(s, i)[j]
  <2>1. j \in 1 .. Len(s) - 1 /\ j \in 1 .. Len(old.keys) - 1 /\ j \in 1 .. Len(old.values) - 1
    BY <1>2, <1>3
  <2>2. RemoveAt(s, i)[j] = IF j < i THEN s[j] ELSE s[j + 1]
    BY <1>3, <1>5, <2>1, RemoveAtElements
  <2>3. node.keys[j] = IF j < i THEN old.keys[j] ELSE old.keys[j + 1]
    BY <1>3, <2>1, RemoveAtElements
  <2>4. node.values[j] = IF j < i THEN old.values[j] ELSE old.values[j + 1]
    BY <1>3, <1>5, <2>1, RemoveAtElements
  <2>5. t[j] = <<node.keys[j], node.values[j]>>
    BY <1>4, <1>7
  <2>6. j \in 1 .. len /\ j + 1 \in 1 .. len
    BY <1>2
  <2> QED BY <1>3, <2>2, <2>3, <2>4, <2>5, <2>6
<1>9. t = RemoveAt(s, i)
  <2>1. Len(t) = Len(RemoveAt(s, i)) /\ \A j \in 1 .. Len(t) : t[j] = RemoveAt(s, i)[j]
    BY <1>4, <1>6, <1>7, <1>8
  <2> QED BY ONLY <1>4, <1>6, <2>1, SameSequence
<1>10. Times(s, x) = Times(RemoveAt(s, i), x) + IF s[i] = x THEN 1 ELSE 0
  <2>1. s \in Seq(Entry)
    BY <1>3
  <2> QED BY ONLY <1>5, <2>1, TimesRemoveAt
<1> QED BY <1>1, <1>5, <1>9, <1>10 DEF One

-----------------------------------------------------------------------------
(* Inserting.                                                              *)

(* Changes of inner pages do not matter.                                   *)
LEMMA LeafwiseStill ==
  ASSUME NEW file, NEW s, NEW t, NEW e, Leafwise(file, s, t, e),
         NEW new, NEW u, DOMAIN file \subseteq DOMAIN new,
         \A q \in DOMAIN file :
           /\ new[q].is_leaf <=> file[q].is_leaf
           /\ u[q].first = t[q].first /\ u[q].range \subseteq t[q].range
           /\ file[q].is_leaf => new[q] = file[q] /\ u[q] = t[q],
         \A q \in DOMAIN new : q \notin DOMAIN file => ~new[q].is_leaf
  PROVE  Leafwise(new, s, u, e)
<1>1. DOMAIN nodes \subseteq DOMAIN file
  BY DEF Leafwise
<1>2. ASSUME NEW q \in DOMAIN nodes
      PROVE  /\ new[q].is_leaf <=> nodes[q].is_leaf
             /\ u[q].first = s[q].first /\ u[q].range \subseteq s[q].range
  BY <1>1 DEF Leafwise
<1>3. ASSUME NEW p \in Leaves
      PROVE  /\ new[p] = file[p] /\ u[p] = t[p]
             /\ Stays(new, s, u, e, p) \/ \E n : Splits(new, s, u, e, p, n)
  <2>1. p \in DOMAIN file /\ file[p].is_leaf
    BY <1>1 DEF Leafwise, Leaves
  <2>2. new[p] = file[p] /\ u[p] = t[p]
    BY <2>1
  <2>3. CASE Stays(file, s, t, e, p)
    BY <2>2, <2>3 DEF Stays
  <2>4. ASSUME NEW n, Splits(file, s, t, e, p, n) PROVE Splits(new, s, u, e, p, n)
    <3>1. n \in DOMAIN file /\ file[n].is_leaf
      BY <2>4 DEF Splits
    <3>2. new[n] = file[n] /\ u[n] = t[n] /\ n \in DOMAIN new
      BY <3>1
    <3> QED BY <2>2, <2>4, <3>2 DEF Splits
  <2> QED BY <2>2, <2>3, <2>4 DEF Leafwise
<1>4. ASSUME NEW n \in DOMAIN new, n \notin DOMAIN nodes, new[n].is_leaf
      PROVE  \E p \in Leaves : n = new[p].next_leaf
  <2>1. n \in DOMAIN file /\ file[n].is_leaf
    BY <1>4
  <2>2. PICK p \in Leaves : n = file[p].next_leaf
    BY <1>4, <2>1 DEF Leafwise
  <2> QED BY <1>3, <2>2
<1>5. DOMAIN nodes \subseteq DOMAIN new
  BY <1>1
<1> QED BY <1>2, <1>3, <1>4, <1>5 DEF Leafwise

LEMMA StoredInner ==
  ASSUME NEW file, PagesOK(file), NEW p \in DOMAIN file, NEW node, node.is_leaf = FALSE,
         NEW r, r = StoreOrSplit(file, p, node)
  PROVE  /\ DOMAIN file \subseteq DOMAIN r.nodes /\ ~r.nodes[p].is_leaf
         /\ \A q \in DOMAIN r.nodes : q \notin DOMAIN file => ~r.nodes[q].is_leaf
<1>1. PICK n : n = NewPage(file) /\ n \notin DOMAIN file
  BY NewPageNumber DEF PagesOK
<1>2. CASE Len(node.keys) <= MaxKeys
  <2>1. r.nodes = [file EXCEPT ![p] = node]
    BY <1>2 DEF StoreOrSplit, NoSplit, Stored
  <2> QED BY <2>1
<1>3. CASE ~(Len(node.keys) <= MaxKeys)
  <2>1. PICK left, new : /\ left.is_leaf = FALSE /\ new.is_leaf = FALSE
                         /\ r.nodes = WithPage([file EXCEPT ![p] = left], n, new)
    <3> DEFINE mid == Len(node.keys) \div 2
               left == Internal(SubSeq(node.keys, 1, mid), SubSeq(node.children, 1, mid + 1))
               new == Internal(SubSeq(node.keys, mid + 2, Len(node.keys)),
                               SubSeq(node.children, mid + 2, Len(node.children)))
    <3>1. r.nodes = WithPage([file EXCEPT ![p] = left], n, new)
      BY <1>1, <1>3 DEF StoreOrSplit, SplitInternal, Stored
    <3>2. left.is_leaf = FALSE /\ new.is_leaf = FALSE
      BY DEF Internal
    <3> QED BY <3>1, <3>2
  <2>2. /\ DOMAIN r.nodes = DOMAIN file \cup {n} /\ r.nodes[n] = new /\ r.nodes[p] = left
    BY <1>1, <2>1 DEF WithPage
  <2> QED BY <2>1, <2>2
<1> QED BY <1>2, <1>3

(* A leaf that splits when it is stored.                                   *)
LEMMA StoredLeaf ==
  ASSUME NEW file, PagesOK(file), NEW p \in DOMAIN file,
         NEW node, IsLeaf(node, DOMAIN file, MaxKeys + 1), ~(Len(node.keys) <= MaxKeys),
         NEW r, r = StoreOrSplit(file, p, node)
  PROVE  \E n, left, new :
           /\ n \notin DOMAIN file /\ DOMAIN r.nodes = DOMAIN file \cup {n} /\ r.right = n
           /\ r.nodes[p] = left /\ r.nodes[n] = new
           /\ \A q \in DOMAIN file \ {p} : r.nodes[q] = file[q]
           /\ left.is_leaf /\ new.is_leaf /\ left.next_leaf = n /\ new.next_leaf = node.next_leaf
           /\ left.keys # << >>
           /\ \A x : Times(HeldBy(node), x) = Times(HeldBy(left), x) + Times(HeldBy(new), x)
<1>1. PICK n \in Nat \ {0} : n = NewPage(file) /\ n \notin DOMAIN file
  BY NewPageNumber DEF PagesOK
<1>2. /\ node.keys \in Seq(Key) /\ Len(node.keys) \in Nat /\ Len(node.keys) <= MaxKeys + 1
      /\ MaxKeys \in Nat /\ node.is_leaf = TRUE
  <2>1. node.keys \in Seq(Key) /\ Len(node.keys) <= MaxKeys + 1 /\ node.is_leaf = TRUE
    BY DEF IsLeaf, LeafNode
  <2> QED BY <2>1, TreeAssumption
<1>3. PICK m \in Nat : /\ m = Len(node.keys) \div 2 /\ 1 <= m /\ m + 2 <= Len(node.keys)
                       /\ m <= MaxKeys /\ Len(node.keys) - m <= MaxKeys
                       /\ Len(node.keys) > MaxKeys
  <2>1. Len(node.keys) = MaxKeys + 1
    BY <1>2
  <2> QED BY <1>2, <2>1, Halves
<1>4. PICK more : more = DOMAIN file \cup {n}
  OBVIOUS
<1>5. PICK left, new :
        /\ left = Leaf(SubSeq(node.keys, 1, m), SubSeq(node.values, 1, m), n)
        /\ new = Leaf(SubSeq(node.keys, m + 1, Len(node.keys)),
                      SubSeq(node.values, m + 1, Len(node.keys)), node.next_leaf)
  OBVIOUS
<1>6. r = Stored(WithPage([file EXCEPT ![p] = left], n, new), new.keys[1], n)
  BY <1>1, <1>2, <1>3, <1>5 DEF StoreOrSplit, SplitLeaf
<1>7. IsLeaf(left, more, MaxKeys) /\ IsLeaf(new, DOMAIN file, MaxKeys)
  <2>1. DOMAIN file \subseteq more /\ n \in more
    BY <1>4
  <2> QED BY ONLY IsLeaf(node, DOMAIN file, MaxKeys + 1), <1>3, <1>5, <2>1, SplitLeafParts
<1>8. /\ left.keys = SubSeq(node.keys, 1, m) /\ left.values = SubSeq(node.values, 1, m)
      /\ new.keys = SubSeq(node.keys, m + 1, Len(node.keys))
      /\ new.values = SubSeq(node.values, m + 1, Len(node.keys))
  BY <1>5 DEF Leaf
<1>9. left.is_leaf /\ new.is_leaf /\ left.next_leaf = n /\ new.next_leaf = node.next_leaf
  BY <1>5 DEF Leaf
<1>10. r.nodes = WithPage([file EXCEPT ![p] = left], n, new) /\ r.right = n
  BY <1>6 DEF Stored
<1>11. IsLeaf(new, more, MaxKeys) /\ m <= Len(node.keys)
  <2>1. IsNode(new, DOMAIN file, MaxKeys)
    BY <1>7 DEF IsNode
  <2>2. IsNode(new, more, MaxKeys)
    BY <1>4, <2>1, NodeOfMore
  <2>3. IsLeaf(new, more, MaxKeys)
    BY <1>9, <2>2, NodeOfMore
  <2>4. \A x, y \in Nat : x + 2 <= y => x <= y
    OBVIOUS
  <2> QED BY <1>2, <1>3, <2>3, <2>4
<1>12. ASSUME NEW x
       PROVE  Times(HeldBy(node), x) = Times(HeldBy(left), x) + Times(HeldBy(new), x)
  BY ONLY IsLeaf(node, DOMAIN file, MaxKeys + 1), m \in Nat, <1>7, <1>8, <1>11, HalvesHold
<1>13. left.keys # << >>
  <2>1. 1 <= m /\ m <= Len(node.keys)
    BY <1>3, <1>11
  <2>2. node.keys \in Seq(Key) /\ left.keys = SubSeq(node.keys, 1, m)
    BY <1>2, <1>8
  <2>3. Len(left.keys) = m
    BY ONLY m \in Nat, <2>1, <2>2
  <2> QED BY ONLY m \in Nat, <2>1, <2>3
<1>14. /\ DOMAIN r.nodes = DOMAIN file \cup {n} /\ r.nodes[n] = new /\ r.nodes[p] = left
       /\ \A q \in DOMAIN file \ {p} : r.nodes[q] = file[q]
  BY <1>1, <1>10 DEF WithPage
<1> WITNESS n, left, new
<1> QED BY <1>1, <1>9, <1>10, <1>12, <1>13, <1>14

(* The leaves when a leaf is stored with one entry more.                   *)
LEMMA LeafInsertLeafwise ==
  ASSUME PagesOK(nodes), NEW p \in DOMAIN nodes, nodes[p].is_leaf,
         NEW node, IsLeaf(node, DOMAIN nodes, MaxKeys + 1), node.next_leaf = nodes[p].next_leaf,
         NEW r, r = StoreOrSplit(nodes, p, node), NEW s, InIntegers(DOMAIN nodes, s),
         NEW t, \A q \in DOMAIN nodes \ {p} : t[q] = s[q], r.right = 0 => t[p] = s[p],
         r.right # 0 => SplitAs(t, s, p, r.right, r.sep),
         r.right # 0 => r.sep \in Int,
         NEW e, \A x \in Entry \ {e} : Times(HeldBy(nodes[p]), x) = Times(HeldBy(node), x)
  PROVE  Leafwise(r.nodes, s, t, e)
<1>1. node.is_leaf = TRUE /\ 0 \notin DOMAIN nodes
  BY NewPageNumber DEF IsLeaf, LeafNode, PagesOK
<1>2. ASSUME NEW q \in Leaves, q # p, r.nodes[q] = nodes[q], t[q] = s[q]
      PROVE  Stays(r.nodes, s, t, e, q)
  BY <1>2 DEF Stays
<1>3. CASE Len(node.keys) <= MaxKeys
  <2>1. r.nodes = [nodes EXCEPT ![p] = node] /\ r.right = 0
    BY <1>3 DEF StoreOrSplit, NoSplit, Stored
  <2>2. /\ DOMAIN r.nodes = DOMAIN nodes /\ r.nodes[p] = node
        /\ \A q \in DOMAIN nodes \ {p} : r.nodes[q] = nodes[q]
    BY <2>1
  <2>3. \A q \in DOMAIN nodes : t[q] = s[q]
    BY <2>1
  <2>4. Stays(r.nodes, s, t, e, p)
    BY <2>2, <2>3 DEF Stays
  <2>5. \A q \in Leaves : Stays(r.nodes, s, t, e, q)
    BY <1>2, <2>2, <2>3, <2>4 DEF Leaves
  <2>6. \A q \in DOMAIN nodes : r.nodes[q].is_leaf <=> nodes[q].is_leaf
    BY <1>1, <2>2
  <2> QED BY <2>2, <2>3, <2>5, <2>6 DEF Leafwise
<1>4. CASE ~(Len(node.keys) <= MaxKeys)
  <2>1. PICK n, left, new :
           /\ n \notin DOMAIN nodes /\ DOMAIN r.nodes = DOMAIN nodes \cup {n} /\ r.right = n
           /\ r.nodes[p] = left /\ r.nodes[n] = new
           /\ \A q \in DOMAIN nodes \ {p} : r.nodes[q] = nodes[q]
           /\ left.is_leaf /\ new.is_leaf /\ left.next_leaf = n /\ new.next_leaf = node.next_leaf
           /\ left.keys # << >>
           /\ \A x : Times(HeldBy(node), x) = Times(HeldBy(left), x) + Times(HeldBy(new), x)
    BY <1>4, StoredLeaf
  <2>2. n # 0
    <3>1. n = NewPage(nodes)
      BY <1>1, <1>4, <2>1 DEF StoreOrSplit, SplitLeaf, Stored
    <3> QED BY <3>1, NewPageNumber DEF PagesOK
  <2>3. SplitAs(t, s, p, n, r.sep) /\ r.sep \in Int /\ s[p].range \subseteq Int
    BY <2>1, <2>2 DEF InIntegers
  <2>4. /\ t[p].first = s[p].first /\ t[p].range \subseteq s[p].range
        /\ t[n].range \subseteq s[p].range /\ s[p].range \subseteq t[p].range \cup t[n].range
    <3>1. /\ t[p].range = {k \in s[p].range : k <= r.sep}
          /\ t[n].range = {k \in s[p].range : r.sep <= k} /\ t[p].first = s[p].first
      BY <2>3 DEF SplitAs
    <3>2. \A k \in s[p].range : k <= r.sep \/ r.sep <= k
      BY <2>3
    <3> QED BY <3>1, <3>2
  <2>5. Splits(r.nodes, s, t, e, p, n)
    BY <2>1, <2>4 DEF Splits
  <2>6. \A q \in Leaves : Stays(r.nodes, s, t, e, q) \/ \E m : Splits(r.nodes, s, t, e, q, m)
    BY <1>2, <2>1, <2>5 DEF Leaves
  <2>7. \A q \in DOMAIN nodes :
          /\ r.nodes[q].is_leaf <=> nodes[q].is_leaf
          /\ t[q].first = s[q].first /\ t[q].range \subseteq s[q].range
    BY <2>1, <2>4
  <2>8. p \in Leaves /\ n = r.nodes[p].next_leaf
    BY <2>1 DEF Leaves
  <2> QED BY <2>1, <2>6, <2>7, <2>8 DEF Leafwise
<1> QED BY <1>3, <1>4

LEMMA InsertedLeaf ==
  ASSUME NEW depth, NEW rank, Good(nodes, depth, rank), NEW p \in DOMAIN nodes,
         nodes[p].is_leaf, NEW key \in Key, NEW rowid \in RowId,
         NEW i, i = BisectRight(nodes[p].keys, key) + 1,
         NEW node, node = Leaf(InsertAt(nodes[p].keys, i, key),
                               InsertAt(nodes[p].values, i, rowid), nodes[p].next_leaf)
  PROVE  /\ nodes[p].keys \in Seq(Key) /\ nodes[p].is_leaf = TRUE
         /\ i \in 1 .. Len(nodes[p].keys) + 1
         /\ IsLeaf(node, DOMAIN nodes, MaxKeys + 1) /\ node.is_leaf = TRUE
<1> DEFINE keys == InsertAt(nodes[p].keys, i, key)
           values == InsertAt(nodes[p].values, i, rowid)
<1>1. IsLeaf(nodes[p], DOMAIN nodes, MaxKeys)
  BY NodeOfMore DEF Good, PagesOK
<1>2. /\ nodes[p].keys \in Seq(Key) /\ nodes[p].values \in Seq(RowId)
      /\ Len(nodes[p].values) = Len(nodes[p].keys) /\ Len(nodes[p].keys) \in Nat
      /\ Len(nodes[p].keys) <= MaxKeys /\ nodes[p].next_leaf \in DOMAIN nodes \cup {0}
      /\ nodes[p].is_leaf = TRUE /\ MaxKeys \in Nat
  BY <1>1, TreeAssumption DEF IsLeaf, LeafNode
<1>3. i \in 1 .. Len(nodes[p].keys) + 1
  <2>1. DOMAIN nodes[p].keys = 1 .. Len(nodes[p].keys)
    BY <1>2
  <2>2. BisectRight(nodes[p].keys, key) \in 0 .. Len(nodes[p].keys)
    BY <1>2, <2>1, BisectType
  <2>3. PICK n \in 0 .. Len(nodes[p].keys) : i = n + 1
    BY <2>2
  <2> QED BY <1>2, <2>3
<1>4. /\ keys \in Seq(Key) /\ Len(keys) = Len(nodes[p].keys) + 1
      /\ values \in Seq(RowId) /\ Len(values) = Len(nodes[p].values) + 1
  <2>1. i \in 1 .. Len(nodes[p].values) + 1
    BY <1>2, <1>3
  <2>2. keys \in Seq(Key) /\ Len(keys) = Len(nodes[p].keys) + 1
    BY ONLY <1>2, <1>3, key \in Key, InsertAtType
  <2>3. values \in Seq(RowId) /\ Len(values) = Len(nodes[p].values) + 1
    <3>1. nodes[p].values \in Seq(RowId)
      BY <1>2
    <3> QED BY ONLY <2>1, <3>1, rowid \in RowId, InsertAtType
  <2> QED BY <2>2, <2>3
<1>5. node = Leaf(keys, values, nodes[p].next_leaf)
  OBVIOUS
<1> HIDE DEF keys, values
<1>6. /\ IsLeaf(node, DOMAIN nodes, MaxKeys + 1) /\ node.is_leaf = TRUE
  BY <1>2, <1>4, <1>5 DEF Leaf, IsLeaf, LeafNode
<1> QED BY <1>2, <1>3, <1>6

LEMMA LeafInsertShape ==
  ASSUME NEW depth, NEW rank, Good(nodes, depth, rank), NEW p \in DOMAIN nodes,
         nodes[p].is_leaf, NEW key \in Key, NEW rowid \in RowId, NEW f,
         NEW s, NEW tops, Shaped(nodes, s, tops), key \in s[p].range,
         NEW e, e = <<key, rowid>>
  PROVE  InsertedShape(UpStep(f, key, rowid, p), depth, p, s, tops, e)
<1>1. PICK n : n = BisectRight(nodes[p].keys, key)
  OBVIOUS
<1>2. PICK i : i = n + 1
  OBVIOUS
<1>3. PICK node : node = Leaf(InsertAt(nodes[p].keys, i, key),
                              InsertAt(nodes[p].values, i, rowid), nodes[p].next_leaf)
  OBVIOUS
<1>4. PICK r : r = StoreOrSplit(nodes, p, node)
  OBVIOUS
<1>5. UpStep(f, key, rowid, p) = r
  BY <1>2, <1>3, <1>4, <1>1 DEF UpStep
<1>6. /\ nodes[p].keys \in Seq(Key) /\ nodes[p].is_leaf = TRUE
      /\ n \in 0 .. Len(nodes[p].keys)
      /\ IsLeaf(node, DOMAIN nodes, MaxKeys + 1) /\ node.is_leaf = TRUE
      /\ node.next_leaf = nodes[p].next_leaf
      /\ node.keys = InsertAt(nodes[p].keys, n + 1, key)
  <2>1. /\ Good(nodes, depth, rank) /\ p \in DOMAIN nodes /\ nodes[p].is_leaf
        /\ key \in Key /\ rowid \in RowId /\ i = BisectRight(nodes[p].keys, key) + 1
    BY <1>2, <1>1
  <2>2. /\ nodes[p].keys \in Seq(Key) /\ nodes[p].is_leaf = TRUE
        /\ i \in 1 .. Len(nodes[p].keys) + 1
        /\ IsLeaf(node, DOMAIN nodes, MaxKeys + 1) /\ node.is_leaf = TRUE
        /\ node.next_leaf = nodes[p].next_leaf
        /\ node.keys = InsertAt(nodes[p].keys, i, key)
    <3>1. nodes[p].keys \in Seq(Key) /\ nodes[p].is_leaf = TRUE
      BY ONLY <1>3, <2>1, InsertedLeaf
    <3>2. i \in 1 .. Len(nodes[p].keys) + 1
      BY ONLY <1>3, <2>1, InsertedLeaf
    <3>3. IsLeaf(node, DOMAIN nodes, MaxKeys + 1) /\ node.is_leaf = TRUE
      BY ONLY <1>3, <2>1, InsertedLeaf
    <3>4. node.keys = InsertAt(nodes[p].keys, i, key) /\ node.next_leaf = nodes[p].next_leaf
      BY <1>3 DEF Leaf
    <3> QED BY <3>1, <3>2, <3>3, <3>4
  <2>3. DOMAIN nodes[p].keys = 1 .. Len(nodes[p].keys) /\ Len(nodes[p].keys) \in Nat
    BY <2>2
  <2>4. n \in 0 .. Len(nodes[p].keys)
    BY <1>1, <2>3, BisectType
  <2> QED BY <1>2, <2>2, <2>4
<1>7. /\ Sorted(nodes[p].keys) /\ Within(nodes[p].keys, s[p].range)
      /\ s[p].first = p /\ s[p].after = nodes[p].next_leaf
      /\ s[p].range \subseteq Int
  BY DEF Shaped, Fits, LeafFits, InIntegers
<1>8. Sorted(node.keys) /\ Within(node.keys, s[p].range)
  <2>1. \A j \in 1 .. Len(nodes[p].keys) :
          IF j <= n THEN nodes[p].keys[j] <= key ELSE key <= nodes[p].keys[j]
    <3>1. \A j \in 1 .. Len(nodes[p].keys) : nodes[p].keys[j] <= key <=> j <= n
      BY ONLY <1>1, <1>6, <1>7, key \in Key, BisectRightSplits
    <3>2. key \in Int /\ \A j \in 1 .. Len(nodes[p].keys) : nodes[p].keys[j] \in Int
      BY <1>6, KeysAreInt, TreeAssumption
    <3> QED BY <3>1, <3>2
  <2>2. key \in s[p].range
    OBVIOUS
  <2>3. /\ Sorted(InsertAt(nodes[p].keys, n + 1, key))
        /\ Within(InsertAt(nodes[p].keys, n + 1, key), s[p].range)
    BY ONLY <1>6, <1>7, key \in Key, <2>1, <2>2, SortedInsert
  <2> QED BY <1>6, <2>3
<1>9. Fits(node, p, s)
  BY <1>6, <1>7, <1>8 DEF Fits, LeafFits
<1>10. IsNode(node, DOMAIN nodes, MaxKeys + 1) /\ Distinct(node)
      /\ p \notin Kids(node) /\ \A x : x \notin Kids(node) /\ x \notin Kids(nodes[p])
  BY <1>6 DEF IsNode, Distinct, Kids
<1>11. PICK none : none = {}
  OBVIOUS
<1>12. /\ Rest(tops, none, tops) /\ none \subseteq DOMAIN nodes
       /\ \A x : x \in Kids(node) <=> x \in Kids(nodes[p]) \/ x \in none
  BY <1>10, <1>11 DEF Rest
<1>13. /\ PagesOK(nodes) /\ p \in DOMAIN nodes /\ Once(nodes, tops)
       /\ InIntegers(DOMAIN nodes, s) /\ \A q \in DOMAIN nodes \ {p} : Fits(nodes[q], q, s)
  BY DEF Good, Shaped
<1>14. StoredShape(r, nodes, p, s, tops)
  BY ONLY <1>4, <1>9, <1>10, <1>12, <1>13, StoreOrSplitShape
<1>15. /\ DOMAIN nodes \subseteq DOMAIN r.nodes
       /\ DOMAIN r.nodes = DOMAIN nodes => r.right = 0
  <2>1. InsertOutcome(r, depth, p)
    BY <1>5, InsertInLeaf
  <2> QED BY <2>1 DEF InsertOutcome, Outcome
<1>16. PICK t : /\ InsertedAs(r, depth, p, s, tops, t)
                /\ \A q \in DOMAIN nodes \ {p} : t[q] = s[q]
                /\ r.right = 0 => t[p] = s[p]
                /\ r.right # 0 => SplitAs(t, s, p, r.right, r.sep)
  BY <1>13, <1>14, <1>15 DEF StoredShape, InsertedAs, Shaped
<1>17. \A x \in Entry \ {e} : Times(HeldBy(nodes[p]), x) = Times(HeldBy(node), x)
  <2>1. IsLeaf(nodes[p], DOMAIN nodes, MaxKeys) /\ i \in 1 .. Len(nodes[p].keys) + 1
    <3>1. IsLeaf(nodes[p], DOMAIN nodes, MaxKeys)
      BY <1>13, NodeOfMore DEF PagesOK
    <3>2. i \in 1 .. Len(nodes[p].keys) + 1
      BY <1>2, <1>6
    <3> QED BY <3>1, <3>2
  <2>2. /\ node.keys = InsertAt(nodes[p].keys, i, key)
        /\ node.values = InsertAt(nodes[p].values, i, rowid)
    BY <1>3 DEF Leaf
  <2> SUFFICES ASSUME NEW x \in Entry \ {e}
               PROVE  Times(HeldBy(nodes[p]), x) = Times(HeldBy(node), x)
    OBVIOUS
  <2>3. Times(HeldBy(node), x) = Times(HeldBy(nodes[p]), x) + One(e, x)
    BY ONLY <1>6, <2>1, <2>2, key \in Key, rowid \in RowId, e = <<key, rowid>>, InsertedHolds
  <2>4. Times(HeldBy(nodes[p]), x) \in Nat
    BY <2>1, LeafHolds, TimesType
  <2> QED BY <2>3, <2>4 DEF One
<1>18. r.right # 0 => r.sep \in Int
  <2>1. InsertOutcome(r, depth, p)
    BY <1>5, InsertInLeaf
  <2> QED BY <2>1, TreeAssumption DEF InsertOutcome, Outcome
<1>19. Leafwise(r.nodes, s, t, e)
  BY <1>4, <1>6, <1>13, <1>16, <1>17, <1>18, LeafInsertLeafwise
<1>20. InsertedShape(r, depth, p, s, tops, e)
  BY <1>16, <1>19 DEF InsertedShape
<1> QED BY <1>5, <1>20

(* The child that a key goes to has room for it.                           *)
LEMMA KeyGoesTo ==
  ASSUME NEW depth, NEW rank, Good(nodes, depth, rank), NEW p \in DOMAIN nodes,
         ~nodes[p].is_leaf, NEW s, NEW tops, Shaped(nodes, s, tops),
         NEW key \in Key, key \in s[p].range,
         NEW c, c = nodes[p].children[BisectRight(nodes[p].keys, key) + 1]
  PROVE  key \in s[c].range
<1>1. PICK n : n = BisectRight(nodes[p].keys, key)
  OBVIOUS
<1>2. PICK N \in Nat : /\ N = Len(nodes[p].keys) /\ nodes[p].keys \in Seq(Key)
                       /\ DOMAIN nodes[p].keys = 1 .. N
  <2>1. nodes[p].keys \in Seq(Key)
    BY Children
  <2> QED BY <2>1
<1>3. n \in 0 .. N /\ n \in Nat /\ n + 1 \in 1 .. N + 1
  <2>1. n \in 0 .. N
    BY <1>1, <1>2, BisectType
  <2> QED BY <2>1
<1>4. InnerFits(nodes[p], p, s)
  BY DEF Shaped, Fits
<1>5. s[c].range = Part(s[p].range, nodes[p].keys, n + 1)
  BY <1>1, <1>2, <1>3, <1>4 DEF InnerFits
<1>6. \A i \in 1 .. N : nodes[p].keys[i] <= key <=> i <= n
  <2>1. Sorted(nodes[p].keys)
    BY <1>4 DEF InnerFits
  <2> QED BY ONLY <1>1, <1>2, <2>1, key \in Key, BisectRightSplits
<1>7. key \in Int /\ \A i \in 1 .. N : nodes[p].keys[i] \in Int
  BY <1>2, KeysAreInt, TreeAssumption
<1>8. n + 1 > 1 => nodes[p].keys[(n + 1) - 1] <= key
  <2>1. n + 1 > 1 => (n + 1) - 1 \in 1 .. N /\ (n + 1) - 1 <= n
    BY <1>3
  <2> QED BY <1>6, <2>1
<1>9. n + 1 <= N => key <= nodes[p].keys[n + 1]
  <2>1. n + 1 <= N => n + 1 \in 1 .. N /\ ~(n + 1 <= n)
    BY <1>3
  <2> QED BY <1>6, <1>7, <2>1
<1> QED BY <1>2, <1>5, <1>8, <1>9 DEF Part

LEMMA BelowInsertShape ==
  ASSUME NEW depth, NEW rank, Good(nodes, depth, rank), NEW p \in DOMAIN nodes,
         ~nodes[p].is_leaf, NEW key \in Key, NEW rowid \in RowId, NEW f,
         NEW c, c = nodes[p].children[BisectRight(nodes[p].keys, key) + 1],
         InsertOutcome(f[c], depth, c),
         NEW s, NEW tops, Shaped(nodes, s, tops), tops \subseteq DOMAIN nodes,
         NEW e, InsertedShape(f[c], depth, c, s, tops, e)
  PROVE  InsertedShape(UpStep(f, key, rowid, p), depth, p, s, tops, e)
<1>1. PICK below : below = f[c]
  OBVIOUS
<1>2. PICK n : n = BisectRight(nodes[p].keys, key)
  OBVIOUS
<1>3. /\ c \in DOMAIN nodes /\ depth[c] = depth[p] - 1 /\ depth[p] \in Nat
      /\ \A q \in DOMAIN nodes : depth[q] \in Nat
  <2>1. c \in AtDepth(depth, depth[p] - 1)
    BY TheChild
  <2>2. depth[p] \in Nat /\ c \in DOMAIN nodes /\ depth[c] = depth[p] - 1
    BY <2>1, Children
  <2> QED BY <2>2 DEF Good, DepthOK
<1>4. \A q \in DOMAIN nodes : depth[q] >= depth[p] => depth[q] >= depth[c] /\ q # c
  BY <1>3
<1>5. depth[p] >= depth[p]
  BY <1>3
<1>6. CASE below.right = 0
  <2>1. UpStep(f, key, rowid, p) = below
    BY <1>1, <1>6 DEF UpStep
  <2>2. PICK t :
          /\ InIntegers(DOMAIN below.nodes, t)
          /\ \A q \in DOMAIN nodes \ {c} :
               depth[q] >= depth[c] => t[q] = s[q] /\ below.nodes[q] = nodes[q]
          /\ DOMAIN below.nodes = DOMAIN nodes => \A q \in DOMAIN nodes : t[q] = s[q]
          /\ Shaped(below.nodes, t, tops) /\ Leafwise(below.nodes, s, t, e)
    BY <1>1, <1>6 DEF InsertedShape, InsertedAs
  <2>3. \A q \in DOMAIN nodes : depth[q] >= depth[p] => t[q] = s[q] /\ below.nodes[q] = nodes[q]
    BY <1>4, <2>2
  <2>4. InsertedShape(below, depth, p, s, tops, e)
    <3>1. t[p] = s[p]
      BY <1>5, <2>3
    <3>2. InsertedAs(below, depth, p, s, tops, t)
      BY <1>6, <2>2, <2>3, <3>1 DEF InsertedAs
    <3> QED BY <2>2, <3>2 DEF InsertedShape
  <2> QED BY <2>1, <2>4
<1>7. CASE below.right # 0
  <2>1. PICK file, right, sep : file = below.nodes /\ right = below.right /\ sep = below.sep
    OBVIOUS
  <2>2. PICK node : node = Internal(InsertAt(nodes[p].keys, n + 1, sep),
                                    InsertAt(nodes[p].children, n + 2, right))
    OBVIOUS
  <2>3. PICK r : r = StoreOrSplit(file, p, node)
    OBVIOUS
  <2>4. UpStep(f, key, rowid, p) = r
    BY <1>1, <1>2, <1>7, <2>1, <2>2, <2>3 DEF UpStep
  <2>5. PICK d, k :
          /\ Good(file, d, k)
          /\ DOMAIN nodes \subseteq DOMAIN file
          /\ \A q \in DOMAIN nodes : d[q] = depth[q]
          /\ right \in DOMAIN file \ DOMAIN nodes
          /\ sep \in Key /\ d[right] = depth[c]
    BY <1>1, <1>7, <2>1 DEF InsertOutcome, Outcome
  <2>6. /\ n \in 0 .. Len(nodes[p].keys)
        /\ IsInner(node, DOMAIN file, MaxKeys + 1) /\ node.is_leaf = FALSE
        /\ node.children \in Seq(AtDepth(d, d[p] - 1))
    <3> DEFINE keys == InsertAt(nodes[p].keys, n + 1, sep)
               children == InsertAt(nodes[p].children, n + 2, right)
               lower == AtDepth(d, d[p] - 1)
    <3>1. /\ n = BisectRight(nodes[p].keys, key) /\ c = nodes[p].children[n + 1]
          /\ node = Internal(InsertAt(nodes[p].keys, n + 1, sep),
                             InsertAt(nodes[p].children, n + 2, right))
      BY <1>2, <2>2
    <3> USE <2>5
    <3>2. /\ IsInner(nodes[p], DOMAIN nodes, MaxKeys)
          /\ depth[p] \in Nat /\ depth[p] >= 1
          /\ nodes[p].keys \in Seq(Key) /\ Len(nodes[p].keys) \in Nat
          /\ nodes[p].children \in Seq(AtDepth(depth, depth[p] - 1))
          /\ Len(nodes[p].children) = Len(nodes[p].keys) + 1
      BY Children
    <3>3. /\ n \in 0 .. Len(nodes[p].keys)
          /\ c \in DOMAIN nodes /\ depth[c] = depth[p] - 1
      <4>1. DOMAIN nodes[p].keys = 1 .. Len(nodes[p].keys)
        BY <3>2
      <4>2. n \in 0 .. Len(nodes[p].keys)
        BY <3>1, <3>2, <4>1, BisectType
      <4>3. c \in AtDepth(depth, depth[p] - 1)
        BY <3>1, TheChild
      <4>4. c \in DOMAIN nodes
        BY <4>3 DEF AtDepth, Good, DepthOK
      <4> QED BY <4>2, <4>3, <4>4 DEF AtDepth
    <3>4. n + 1 \in 1 .. Len(nodes[p].keys) + 1 /\ n + 2 \in 1 .. Len(nodes[p].children) + 1
      BY <3>2, <3>3
    <3>5. /\ DOMAIN depth = DOMAIN nodes /\ DOMAIN d = DOMAIN file
          /\ d[p] = depth[p] /\ MaxKeys \in Nat
      BY TreeAssumption DEF Good, DepthOK
    <3>6. /\ lower \subseteq DOMAIN file /\ right \in lower
          /\ AtDepth(depth, depth[p] - 1) \subseteq lower
      BY <3>3, <3>5 DEF AtDepth
    <3> HIDE DEF lower
    <3>7. nodes[p].children \in Seq(lower)
      BY <3>2, <3>6, SeqOfMore
    <3>8. keys \in Seq(Key) /\ Len(keys) = Len(nodes[p].keys) + 1
      BY ONLY <3>2, <3>4, sep \in Key, InsertAtType
    <3>9. /\ children \in Seq(lower) /\ Len(children) = Len(nodes[p].children) + 1
          /\ children \in Seq(DOMAIN file)
      <4>1. children \in Seq(lower) /\ Len(children) = Len(nodes[p].children) + 1
        BY <3>4, <3>6, <3>7, InsertAtType
      <4> HIDE DEF children
      <4> QED BY <3>6, <4>1, SeqOfMore
    <3>10. 1 <= Len(nodes[p].keys) /\ Len(nodes[p].keys) <= MaxKeys
      BY <3>2 DEF IsInner
    <3>11. node = Internal(keys, children)
      BY <3>1
    <3> HIDE DEF keys, children
    <3>12. /\ IsInner(node, DOMAIN file, MaxKeys + 1) /\ node.children \in Seq(lower)
           /\ node.is_leaf = FALSE
      <4>1. /\ Len(keys) >= 1 /\ Len(keys) <= MaxKeys + 1
            /\ Len(children) = Len(keys) + 1
        BY <3>2, <3>5, <3>8, <3>9, <3>10
      <4>2. node.keys = keys /\ node.children = children /\ node.is_leaf = FALSE
        BY ONLY <3>11 DEF Internal
      <4>3. IsInner(node, DOMAIN file, MaxKeys + 1)
        BY ONLY <3>8, <3>9, <3>11, <4>1 DEF Internal, IsInner, InnerNode
      <4> QED BY <3>9, <4>2, <4>3
    <3>13. file[p].is_leaf = FALSE
      <4>1. IsNode(file[p], DOMAIN file, MaxKeys)
        BY DEF Good, PagesOK
      <4>2. ~file[p].is_leaf
        BY <3>2, <3>5 DEF Good, DepthOK
      <4> QED BY <4>1, <4>2 DEF IsNode, IsLeaf, IsInner, LeafNode, InnerNode
    <3> QED BY <3>2, <3>3, <3>12, <3>13 DEF lower
  <2>7. PICK t, top :
          /\ InIntegers(DOMAIN file, t)
          /\ \A q \in DOMAIN nodes \ {c} :
               depth[q] >= depth[c] => t[q] = s[q] /\ file[q] = nodes[q]
          /\ SplitAs(t, s, c, right, sep)
          /\ \A x : x \in top <=> x \in tops \/ x = right
          /\ Once(file, top)
          /\ \A q \in DOMAIN file : c \notin Kids(file[q]) => Fits(file[q], q, t)
          /\ Leafwise(file, s, t, e)
    BY <1>1, <1>7, <2>1 DEF InsertedShape, InsertedAs
  <2>8. \A q \in DOMAIN nodes : depth[q] >= depth[p] => t[q] = s[q] /\ file[q] = nodes[q]
    BY <1>4, <2>7
  <2>9. t[p] = s[p] /\ file[p] = nodes[p]
    BY <1>5, <2>8
  <2>10. PICK keys, children : keys = nodes[p].keys /\ children = nodes[p].children
    OBVIOUS
  <2>11. /\ keys \in Seq(Key) /\ children \in Seq(AtDepth(depth, depth[p] - 1))
         /\ Len(children) = Len(keys) + 1 /\ Len(keys) \in Nat
         /\ nodes[p] = Internal(keys, children) /\ nodes[p].is_leaf = FALSE
         /\ children[n + 1] = c /\ n + 1 \in 1 .. Len(keys) + 1 /\ n \in 0 .. Len(keys)
    <3>1. IsInner(nodes[p], DOMAIN nodes, MaxKeys)
      BY Children
    <3>2. nodes[p] = [is_leaf |-> FALSE, keys |-> keys, children |-> children]
      BY <2>10, <3>1 DEF IsInner, InnerNode
    <3>3. /\ keys \in Seq(Key) /\ children \in Seq(AtDepth(depth, depth[p] - 1))
          /\ Len(children) = Len(keys) + 1 /\ Len(keys) \in Nat
      BY <2>10, Children
    <3>4. nodes[p] = Internal(keys, children) /\ nodes[p].is_leaf = FALSE
      BY <3>2 DEF Internal
    <3>5. children[n + 1] = c /\ n \in 0 .. Len(keys)
      BY <1>2, <2>6, <2>10
    <3>6. n + 1 \in 1 .. Len(keys) + 1
      BY <3>3, <3>5
    <3> QED BY <3>3, <3>4, <3>5, <3>6
  <2>12. /\ Kids(nodes[p]) \subseteq DOMAIN nodes
         /\ \A i \in 1 .. Len(keys) + 1 : children[i] \in Kids(nodes[p])
         /\ \A x \in Kids(nodes[p]) : depth[x] = depth[p] - 1
    <3>1. IsNode(nodes[p], DOMAIN nodes, MaxKeys)
      BY DEF Good, PagesOK
    <3>2. Kids(nodes[p]) \subseteq DOMAIN nodes
      BY <3>1, KidsOfNode
    <3>3. \A i \in 1 .. Len(keys) + 1 : children[i] \in Kids(nodes[p])
      BY <2>10, <2>11 DEF Kids
    <3>4. Kids(nodes[p]) \subseteq AtDepth(depth, depth[p] - 1)
      <4>1. nodes[p].children \in Seq(AtDepth(depth, depth[p] - 1))
        BY <2>10, <2>11
      <4> QED BY <3>1, <4>1, KidsOfNode
    <3> QED BY <3>2, <3>3, <3>4 DEF AtDepth
  <2>13. c \in Kids(file[p])
    BY <2>9, <2>11, <2>12
  <2>14. \A q \in DOMAIN file \ {p} : Fits(file[q], q, t)
    <3>1. p \in DOMAIN file
      BY <2>5
    <3>2. \A q \in DOMAIN file \ {p} : c \notin Kids(file[q])
      BY <2>7, <2>13, <3>1 DEF Once
    <3> QED BY <2>7, <3>2
  <2>15. PICK S : S = DOMAIN file
    OBVIOUS
  <2>16. children \in Seq(S) /\ right \in S
    <3>1. AtDepth(depth, depth[p] - 1) \subseteq S
      BY <2>5, <2>15 DEF AtDepth, Good, DepthOK
    <3> QED BY <2>5, <2>11, <2>15, <3>1, SeqOfMore
  <2>17. node = Internal(InsertAt(keys, n + 1, sep), InsertAt(children, n + 2, right))
    BY <2>2, <2>10
  <2>18. Fits(node, p, t)
    <3>1. InnerFits(Internal(keys, children), p, s) /\ s[p].range \subseteq Int
      BY <2>11 DEF Shaped, Fits, InIntegers
    <3>2. \A i \in 1 .. Len(keys) + 1 : i # n + 1 => t[children[i]] = s[children[i]]
      <4>1. ASSUME NEW i \in 1 .. Len(keys) + 1, i # n + 1 PROVE t[children[i]] = s[children[i]]
        <5>1. Distinct(nodes[p])
          BY DEF Shaped, Once
        <5>2. children[i] # children[n + 1]
          BY <2>10, <2>11, <4>1, <5>1 DEF Distinct
        <5>3. children[i] \in DOMAIN nodes /\ depth[children[i]] = depth[c]
          BY <1>3, <2>12
        <5>4. depth[children[i]] >= depth[c]
          BY <1>3, <5>3
        <5> QED BY <2>7, <2>11, <5>2, <5>3, <5>4
      <4> QED BY <4>1
    <3>3. SplitAs(t, s, children[n + 1], right, sep) /\ t[p] = s[p] /\ sep \in Key
      BY <2>5, <2>7, <2>9, <2>11
    <3>4. InnerFits(Internal(InsertAt(keys, n + 1, sep), InsertAt(children, n + 2, right)), p, t)
      BY ONLY <2>11, <2>16, <3>1, <3>2, <3>3, InsertedFits
    <3> QED BY <2>6, <2>17, <3>4 DEF Fits
  <2>19. Distinct(node) /\ \A x : x \in Kids(node) <=> x \in Kids(file[p]) \/ x = right
    <3>1. /\ right \notin Kids(Internal(keys, children)) /\ sep \in Key
          /\ Distinct(Internal(keys, children))
      BY <2>5, <2>11, <2>12 DEF Shaped, Once
    <3>2. /\ Distinct(node)
          /\ \A x : x \in Kids(node) <=> x \in Kids(Internal(keys, children)) \/ x = right
      BY ONLY <2>11, <2>16, <2>17, <3>1, InsertedKids
    <3> QED BY <2>9, <2>11, <3>2
  <2>20. p \notin Kids(node)
    <3>1. depth[p] # depth[p] - 1 /\ right # p
      BY <1>3, <2>5
    <3> QED BY <2>9, <2>12, <2>19, <3>1
  <2>21. PICK more : more = {right}
    OBVIOUS
  <2>22. /\ Rest(top, more, tops) /\ more \subseteq DOMAIN file
         /\ \A x : x \in Kids(node) <=> x \in Kids(file[p]) \/ x \in more
    BY <2>5, <2>7, <2>19, <2>21 DEF Rest
  <2>23. /\ PagesOK(file) /\ p \in DOMAIN file /\ IsNode(node, DOMAIN file, MaxKeys + 1)
         /\ Once(file, top) /\ InIntegers(DOMAIN file, t)
    BY <2>5, <2>6, <2>7 DEF Good, IsNode
  <2>24. StoredShape(r, file, p, t, tops)
    BY ONLY <2>3, <2>14, <2>18, <2>19, <2>20, <2>22, <2>23, StoreOrSplitShape
  <2>25. PICK u :
           /\ InIntegers(DOMAIN r.nodes, u) /\ DOMAIN file \subseteq DOMAIN r.nodes
           /\ \A q \in DOMAIN file \ {p} : u[q] = t[q] /\ r.nodes[q] = file[q]
           /\ r.right = 0 =>
                /\ \A q \in DOMAIN file : u[q] = t[q]
                /\ Once(r.nodes, tops)
                /\ \A q \in DOMAIN r.nodes : Fits(r.nodes[q], q, u)
           /\ r.right # 0 =>
                /\ SplitAs(u, t, p, r.right, r.sep)
                /\ \E above : /\ \A x : x \in above <=> x \in tops \/ x = r.right
                              /\ Once(r.nodes, above)
                /\ \A q \in DOMAIN r.nodes : p \notin Kids(r.nodes[q]) => Fits(r.nodes[q], q, u)
    BY <2>24 DEF StoredShape
  <2>26. \A q \in DOMAIN nodes \ {p} :
           depth[q] >= depth[p] => u[q] = s[q] /\ r.nodes[q] = nodes[q]
    BY <2>5, <2>8, <2>25
  <2>27. DOMAIN r.nodes # DOMAIN nodes
    BY <2>5, <2>25
  <2>28. r.right = 0 => u[p] = s[p] /\ Shaped(r.nodes, u, tops)
    BY <2>9, <2>23, <2>25 DEF Shaped
  <2>29. r.right # 0 => SplitAs(u, s, p, r.right, r.sep)
    BY <2>9, <2>25 DEF SplitAs
  <2>30. Leafwise(r.nodes, s, u, e)
    <3>1. /\ DOMAIN file \subseteq DOMAIN r.nodes /\ ~r.nodes[p].is_leaf
          /\ \A q \in DOMAIN r.nodes : q \notin DOMAIN file => ~r.nodes[q].is_leaf
      BY <2>3, <2>6, <2>23, StoredInner
    <3>2. u[p].first = t[p].first /\ u[p].range \subseteq t[p].range
      BY <2>23, <2>25 DEF SplitAs
    <3>3. ~file[p].is_leaf
      BY <2>9
    <3>4. \A q \in DOMAIN file :
            /\ r.nodes[q].is_leaf <=> file[q].is_leaf
            /\ u[q].first = t[q].first /\ u[q].range \subseteq t[q].range
            /\ file[q].is_leaf => r.nodes[q] = file[q] /\ u[q] = t[q]
      BY <2>25, <3>1, <3>2, <3>3
    <3> QED BY <2>7, <3>1, <3>4, LeafwiseStill
  <2>31. InsertedShape(r, depth, p, s, tops, e)
    <3>1. r.right # 0 =>
            /\ SplitAs(u, s, p, r.right, r.sep)
            /\ \E above : (\A x : x \in above <=> x \in tops \/ x = r.right) /\ Once(r.nodes, above)
            /\ \A q \in DOMAIN r.nodes : p \notin Kids(r.nodes[q]) => Fits(r.nodes[q], q, u)
      BY <2>25, <2>29
    <3>2. InIntegers(DOMAIN r.nodes, u)
      BY <2>25
    <3>3. InsertedAs(r, depth, p, s, tops, u)
      BY ONLY <2>26, <2>27, <2>28, <3>1, <3>2 DEF InsertedAs
    <3> QED BY <2>30, <3>3 DEF InsertedShape
  <2> QED BY <2>4, <2>31
<1> QED BY <1>6, <1>7

LEMMA InsertIntoShape ==
  ASSUME NEW depth, NEW rank, Good(nodes, depth, rank), root \in DOMAIN nodes,
         NEW key \in Key, NEW rowid \in RowId,
         NEW s, NEW tops, Shaped(nodes, s, tops), tops \subseteq DOMAIN nodes,
         key \in s[root].range, NEW e, e = <<key, rowid>>
  PROVE  InsertedShape(InsertInto(key, rowid), depth, root, s, tops, e)
<1> DEFINE up == CHOOSE f : f = [p \in DOMAIN nodes |-> UpStep(f, key, rowid, p)]
<1>1. up = [p \in DOMAIN nodes |-> UpStep(up, key, rowid, p)]
  BY UpExists
<1>2. InsertInto(key, rowid) = up[root]
  BY DEF InsertInto, UpStep
<1> HIDE DEF up
<1> DEFINE T == {p \in DOMAIN nodes :
                   /\ InsertOutcome(up[p], depth, p)
                   /\ key \in s[p].range => InsertedShape(up[p], depth, p, s, tops, e)}
<1>3. ASSUME NEW p \in DOMAIN nodes,
             \A c \in DOMAIN nodes : depth[c] < depth[p] => c \in T
      PROVE  p \in T
  <2>1. up[p] = UpStep(up, key, rowid, p)
    BY <1>1
  <2>2. CASE nodes[p].is_leaf
    BY <2>1, <2>2, InsertInLeaf, LeafInsertShape
  <2>3. CASE ~nodes[p].is_leaf
    <3>1. PICK c : c = nodes[p].children[BisectRight(nodes[p].keys, key) + 1]
      OBVIOUS
    <3>2. c \in AtDepth(depth, depth[p] - 1)
      BY <2>3, <3>1, TheChild
    <3>3. c \in DOMAIN nodes /\ depth[c] = depth[p] - 1 /\ depth[p] \in Nat
      BY <2>3, <3>2, Children
    <3>4. /\ InsertOutcome(up[c], depth, c)
          /\ key \in s[c].range => InsertedShape(up[c], depth, c, s, tops, e)
      BY <1>3, <3>3
    <3>5. InsertOutcome(up[p], depth, p)
      BY <2>1, <2>3, <3>1, <3>4, InsertBelow
    <3>6. ASSUME key \in s[p].range PROVE InsertedShape(up[p], depth, p, s, tops, e)
      <4>1. key \in s[c].range
        BY <2>3, <3>1, <3>6, KeyGoesTo
      <4> QED BY <2>1, <2>3, <3>1, <3>4, <4>1, BelowInsertShape
    <3> QED BY <3>5, <3>6
  <2> QED BY <2>2, <2>3
<1>4. T = DOMAIN nodes
  <2>1. T \in SUBSET DOMAIN nodes
    OBVIOUS
  <2> HIDE DEF T
  <2> QED BY <1>3, <2>1, ByDepth
<1> QED BY <1>2, <1>4

-----------------------------------------------------------------------------
(* The new root above a root that has split.                               *)

LEMMA KidsOfTwo ==
  ASSUME NEW sep, NEW a, NEW b, a # b,
         NEW node, node = Internal(<<sep>>, <<a, b>>)
  PROVE  Distinct(node) /\ \A x : x \in Kids(node) <=> x = a \/ x = b
<1>1. /\ node.is_leaf = FALSE /\ node.children[1] = a /\ node.children[2] = b
      /\ Len(node.keys) + 1 = 2
  BY DEF Internal
<1>2. \A i : i \in 1 .. 2 <=> i = 1 \/ i = 2
  OBVIOUS
<1>3. Distinct(node)
  BY <1>1, <1>2 DEF Distinct
<1>4. \A x : x \in Kids(node) <=> \E i \in 1 .. 2 : x = node.children[i]
  BY <1>1 DEF Kids
<1>5. \A x : x \in Kids(node) <=> x = a \/ x = b
  BY <1>1, <1>2, <1>4
<1> QED BY <1>3, <1>5

LEMMA GrowsOnce ==
  ASSUME NEW file, NEW tops, Once(file, tops), NEW a, NEW b,
         \A x : x \in tops <=> x = a \/ x = b,
         \A q \in DOMAIN file : Kids(file[q]) \subseteq DOMAIN file,
         a \in DOMAIN file, b \in DOMAIN file, NEW n, n \notin DOMAIN file,
         NEW node, Distinct(node), \A x : x \in Kids(node) <=> x = a \/ x = b,
         NEW new, new = WithPage(file, n, node)
  PROVE  Once(new, {n})
<1>1. /\ DOMAIN new = DOMAIN file \cup {n} /\ new[n] = node
      /\ \A q \in DOMAIN file : new[q] = file[q]
  BY DEF WithPage
<1>2. \A q \in DOMAIN file : a \notin Kids(file[q]) /\ b \notin Kids(file[q])
  BY DEF Once
<1>3. \A p \in DOMAIN new : Distinct(new[p])
  BY <1>1 DEF Once
<1>4. ASSUME NEW p \in DOMAIN new, NEW q \in DOMAIN new, p # q,
             NEW x, x \in Kids(new[p]), x \in Kids(new[q])
      PROVE  FALSE
  <2>1. CASE p = n
    BY <1>1, <1>2, <1>4, <2>1
  <2>2. CASE q = n
    BY <1>1, <1>2, <1>4, <2>2
  <2>3. CASE p # n /\ q # n
    BY <1>1, <1>4, <2>3 DEF Once
  <2> QED BY <2>1, <2>2, <2>3
<1>5. ASSUME NEW q \in DOMAIN new, q # n PROVE \E p \in DOMAIN new : q \in Kids(new[p])
  <2>1. q \in DOMAIN file
    BY <1>1, <1>5
  <2>2. CASE q \in tops
    BY <1>1, <2>2
  <2>3. CASE q \notin tops
    <3>1. PICK p \in DOMAIN file : q \in Kids(file[p])
      BY <2>1, <2>3 DEF Once
    <3> QED BY <1>1, <3>1
  <2> QED BY <2>2, <2>3
<1>6. \A p \in DOMAIN new : n \notin Kids(new[p])
  <2>1. \A p \in DOMAIN file : n \notin Kids(new[p])
    BY <1>1
  <2>2. n \notin Kids(new[n])
    BY <1>1
  <2> QED BY <1>1, <2>1, <2>2
<1>7. \A q \in DOMAIN new : q \notin {n} <=> \E p \in DOMAIN new : q \in Kids(new[p])
  BY <1>5, <1>6
<1> QED BY <1>3, <1>4, <1>7 DEF Once

LEMMA GrowsShape ==
  ASSUME NEW depth, NEW rank, Good(nodes, depth, rank), root \in DOMAIN nodes,
         NEW result, InsertOutcome(result, depth, root), result.right # 0,
         NEW s, Placed(nodes, s, root), NEW e, InsertedShape(result, depth, root, s, {root}, e),
         NEW new, Raised(new, result)
  PROVE  \E t : RaisedAs(new, NewPage(result.nodes), s, t, e)
<1>1. PICK file, right, sep : file = result.nodes /\ right = result.right /\ sep = result.sep
  OBVIOUS
<1>2. PICK n, node : n = NewPage(file) /\ node = Internal(<<sep>>, <<root, right>>)
  OBVIOUS
<1>3. /\ PagesOK(file) /\ root \in DOMAIN file
      /\ right \in DOMAIN file /\ right \notin DOMAIN nodes /\ right # root
      /\ sep \in Key /\ sep \in Int
  BY <1>1, TreeAssumption DEF InsertOutcome, Outcome, Good
<1>4. PICK t, top :
        /\ InIntegers(DOMAIN file, t)
        /\ SplitAs(t, s, root, right, sep)
        /\ \A x : x \in top <=> x \in {root} \/ x = right
        /\ Once(file, top)
        /\ \A q \in DOMAIN file : root \notin Kids(file[q]) => Fits(file[q], q, t)
        /\ Leafwise(file, s, t, e)
  BY <1>1 DEF InsertedShape, InsertedAs
<1>5. n \notin DOMAIN file /\ \A q \in DOMAIN file : Kids(file[q]) \subseteq DOMAIN file
  BY <1>2, <1>3, NewPageNumber, KidsOfNode DEF PagesOK
<1>6. Distinct(node) /\ \A x : x \in Kids(node) <=> x = root \/ x = right
  BY <1>2, <1>3, KidsOfTwo
<1>7. new = WithPage(file, n, node)
  BY <1>1, <1>2 DEF Raised
<1>8. Once(new, {n})
  <2>1. \A x : x \in top <=> x = root \/ x = right
    BY <1>4
  <2> QED BY <1>3, <1>4, <1>5, <1>6, <1>7, <2>1, GrowsOnce
<1>9. /\ DOMAIN new = DOMAIN file \cup {n} /\ new[n] = node
      /\ \A q \in DOMAIN file : new[q] = file[q]
  BY ONLY <1>5, <1>7 DEF WithPage
<1>10. PICK u : u = [q \in DOMAIN file \cup {n} |->
                       IF q = n THEN [first |-> t[root].first, after |-> t[right].after,
                                      range |-> Int]
                       ELSE t[q]]
  OBVIOUS
<1>11. /\ u[n].first = t[root].first /\ u[n].after = t[right].after /\ u[n].range = Int
       /\ \A q \in DOMAIN file : u[q] = t[q]
  BY <1>5, <1>10
<1>12. InIntegers(DOMAIN new, u)
  BY <1>4, <1>9, <1>11 DEF InIntegers
<1>13. \A q \in DOMAIN file : Fits(new[q], q, u)
  <2>1. ASSUME NEW q \in DOMAIN file PROVE Fits(new[q], q, u)
    <3>1. root \notin Kids(file[q])
      BY <1>3, <1>4 DEF Once
    <3>2. Fits(file[q], q, t) /\ IsNode(file[q], DOMAIN file, MaxKeys)
      BY <1>3, <1>4, <3>1 DEF PagesOK
    <3>3. u[q] = t[q] /\ \A c \in Kids(file[q]) : u[c] = t[c]
      BY <1>5, <1>11
    <3>4. Fits(file[q], q, u)
      BY <3>2, <3>3, FitsStill
    <3> QED BY <1>9, <3>4
  <2> QED BY <2>1
<1>14. /\ s[root].range = Int /\ s[root].after = 0
       /\ t[root].after = t[right].first
       /\ t[root].range = {k \in Int : k <= sep}
       /\ t[right].after = 0
       /\ t[right].range = {k \in Int : sep <= k}
  BY <1>4 DEF Placed, SplitAs
<1>15. Fits(node, n, u)
  <2>1. /\ node.is_leaf = FALSE /\ node.keys = <<sep>> /\ Len(node.keys) = 1
        /\ node.children[1] = root /\ node.children[2] = right /\ node.keys[1] = sep
    BY <1>2 DEF Internal
  <2>2. \A i : (i \in 1 .. 1 <=> i = 1) /\ (i \in 1 .. 1 + 1 <=> i = 1 \/ i = 2)
    OBVIOUS
  <2>3. u[root] = t[root] /\ u[right] = t[right]
    BY <1>3, <1>11
  <2>4. Sorted(node.keys) /\ Within(node.keys, u[n].range)
    BY <1>3, <1>11, <2>1, <2>2 DEF Sorted, Within
  <2>5. /\ u[n].first = u[node.children[1]].first
        /\ u[n].after = u[node.children[Len(node.keys) + 1]].after
    BY <1>11, <2>1, <2>3
  <2>6. \A i \in 1 .. Len(node.keys) : u[node.children[i]].after = u[node.children[i + 1]].first
    BY <1>14, <2>1, <2>2, <2>3
  <2>7. Part(Int, node.keys, 1) = {k \in Int : k <= sep}
    BY <2>1 DEF Part
  <2>8. Part(Int, node.keys, 2) = {k \in Int : sep <= k}
    BY <2>1 DEF Part
  <2>9. \A i \in 1 .. Len(node.keys) + 1 :
          u[node.children[i]].range = Part(u[n].range, node.keys, i)
    <3> SUFFICES ASSUME NEW i \in 1 .. Len(node.keys) + 1
                 PROVE  u[node.children[i]].range = Part(u[n].range, node.keys, i)
      OBVIOUS
    <3>1. i = 1 \/ i = 2
      BY <2>1
    <3>2. CASE i = 1
      BY <1>11, <1>14, <2>1, <2>2, <2>3, <2>7, <3>2
    <3>3. CASE i = 2
      BY <1>11, <1>14, <2>1, <2>2, <2>3, <2>8, <3>3
    <3> QED BY <3>1, <3>2, <3>3
  <2>10. InnerFits(node, n, u)
    BY <2>4, <2>5, <2>6, <2>9 DEF InnerFits
  <2> QED BY <2>1, <2>10 DEF Fits
<1>16. \A q \in DOMAIN new : Fits(new[q], q, u)
  BY <1>9, <1>13, <1>15
<1>17. Placed(new, u, n)
  BY <1>8, <1>11, <1>12, <1>14, <1>16 DEF Placed, Shaped
<1>18. Leafwise(new, s, u, e)
  <2>1. node.is_leaf = FALSE
    BY <1>2 DEF Internal
  <2> QED BY <1>4, <1>9, <1>11, <2>1, LeafwiseStill
<1>19. RaisedAs(new, n, s, u, e)
  BY <1>3, <1>11, <1>17, <1>18 DEF RaisedAs
<1> QED BY <1>1, <1>2, <1>19

-----------------------------------------------------------------------------
(* The inductive invariant of the shape.                                   *)

LEMMA VersionIsNode ==
  ASSUME TreeInv, ~torn, ~grown, NEW p \in DOMAIN nodes, NEW v \in cand[p]
  PROVE  /\ IsNode(v, DOMAIN nodes, MaxKeys) /\ SameShape(v, nodes[p])
         /\ Distinct(v) <=> Distinct(nodes[p])
         /\ Kids(v) = Kids(nodes[p])
<1>1. SameShape(v, nodes[p]) /\ Version(v, DOMAIN nodes)
  BY DEF TreeInv, WholeTree, Versions
<1>2. IsNode(nodes[p], DOMAIN nodes, MaxKeys)
  BY DEF TreeInv, WholeTree, IsTree, Good, PagesOK
<1>3. ASSUME v = Unwritten PROVE v = nodes[p]
  <2>1. v.is_leaf = FALSE
    BY <1>3 DEF Unwritten, Internal
  <2> QED BY <1>1, <2>1 DEF SameShape
<1>4. IsNode(v, DOMAIN nodes, MaxKeys)
  BY <1>1, <1>2, <1>3, UnwrittenIsNoNode DEF Version
<1>5. (Distinct(v) <=> Distinct(nodes[p])) /\ Kids(v) = Kids(nodes[p])
  BY <1>1 DEF SameShape, Distinct, Kids
<1> QED BY <1>1, <1>4, <1>5

LEMMA ShapeInit == Init => ShapeInv
<1> SUFFICES ASSUME Init PROVE ShapeInv
  OBVIOUS
<1> DEFINE empty == Leaf(<< >>, << >>, 0)
<1>1. DOMAIN nodes = {2} /\ nodes[2] = empty /\ root = 2 /\ grown = TRUE
  BY DEF Init, FirstRoot
<1>2. empty.is_leaf = TRUE /\ empty.keys = << >> /\ empty.next_leaf = 0 /\ Len(empty.keys) = 0
  BY DEF Leaf
<1> HIDE DEF empty
<1>3. PICK s : s = [q \in {2} |-> [first |-> 2, after |-> 0, range |-> Int]]
  OBVIOUS
<1>4. s[2].first = 2 /\ s[2].after = 0 /\ s[2].range = Int
  BY <1>3
<1>5. Fits(nodes[2], 2, s)
  BY <1>1, <1>2, <1>4 DEF Fits, LeafFits, Sorted, Within
<1>6. Kids(nodes[2]) = {} /\ Distinct(nodes[2])
  BY <1>1, <1>2 DEF Kids, Distinct
<1>7. Once(nodes, {2})
  BY <1>1, <1>6 DEF Once
<1>8. InIntegers(DOMAIN nodes, s)
  BY <1>1, <1>4 DEF InIntegers
<1>9. Placed(nodes, s, root)
  BY <1>1, <1>4, <1>5, <1>7, <1>8 DEF Placed, Shaped
<1> QED BY <1>1, <1>9 DEF ShapeInv, InPlace

LEMMA StoresShape ==
  ASSUME TreeInv, ShapeInv, ~torn, NEW s, InPlace(s), NEW file, Store(file), UNCHANGED torn,
         DOMAIN file = DOMAIN nodes => UNCHANGED <<root, metas>>,
         NEW t, Placed(file, t, root'),
         DOMAIN file = DOMAIN nodes => \A q \in DOMAIN nodes : t[q] = s[q]
  PROVE  ShapeInv'
<1>1. /\ nodes' = file
      /\ grown' = (grown \/ DOMAIN file # DOMAIN nodes)
      /\ cand' = [p \in DOMAIN file |->
                    (IF p \in DOMAIN cand THEN cand[p] ELSE {Unwritten}) \cup {file[p]}]
  BY DEF Store
<1>2. DOMAIN cand = DOMAIN nodes
  BY DEF TreeInv, Versions
<1>3. ASSUME ~grown', NEW p \in DOMAIN file, NEW v \in cand'[p] PROVE Fits(v, p, t)
  <2>1. ~grown /\ DOMAIN file = DOMAIN nodes
    BY <1>1, <1>3
  <2>2. v = file[p] \/ v \in cand[p]
    BY <1>1, <1>2, <1>3, <2>1
  <2>3. Fits(file[p], p, t)
    BY DEF Placed, Shaped
  <2>4. ASSUME v \in cand[p] PROVE Fits(v, p, t)
    <3>1. Fits(v, p, s) /\ p \in DOMAIN nodes
      BY <2>1, <2>4 DEF InPlace
    <3>2. IsNode(v, DOMAIN nodes, MaxKeys)
      BY <2>1, <2>4, <3>1, VersionIsNode
    <3>3. t[p] = s[p] /\ \A c \in Kids(v) : t[c] = s[c]
      BY <2>1, <3>1, <3>2, KidsOfNode
    <3> QED BY <3>1, <3>2, <3>3, FitsStill
  <2> QED BY <2>2, <2>3, <2>4
<1>4. /\ Placed(nodes', t, root')
      /\ ~grown' => \A p \in DOMAIN nodes' : \A v \in cand'[p] : Fits(v, p, t)
  BY <1>1, <1>3
<1>5. InPlace(t)'
  BY <1>4 DEF InPlace
<1>6. ~grown' => metas' = {root'}
  BY <1>1 DEF ShapeInv
<1> QED BY <1>5, <1>6 DEF ShapeInv

LEMMA InsertPlaces ==
  ASSUME TreeInv, NEW depth, NEW rank, Good(nodes, depth, rank), NEW s, Placed(nodes, s, root),
         NEW key \in Key, NEW rowid \in RowId, Insert(key, rowid), NEW e, e = <<key, rowid>>
  PROVE  \E file, d, k, t :
           /\ Good(file, d, k) /\ (\A q \in DOMAIN nodes : d[q] = depth[q])
           /\ Placing(file, s, t, e)
<1>1. root \in DOMAIN nodes
  BY DEF TreeInv, Roots
<1>2. PICK result : result = InsertInto(key, rowid)
  OBVIOUS
<1>3. InsertOutcome(result, depth, root)
  BY <1>1, <1>2, InsertIntoOutcome
<1>4. InsertedShape(result, depth, root, s, {root}, e)
  <2>1. PICK tops : tops = {root}
    OBVIOUS
  <2>2. /\ Shaped(nodes, s, tops) /\ tops \subseteq DOMAIN nodes
        /\ key \in s[root].range
    BY <1>1, <2>1, TreeAssumption DEF Placed
  <2>3. InsertedShape(InsertInto(key, rowid), depth, root, s, tops, e)
    BY <1>1, <2>2, InsertIntoShape
  <2> QED BY <1>2, <2>1, <2>3
<1>5. CASE result.right = 0 /\ Store(result.nodes) /\ UNCHANGED <<root, meta, metas>>
  <2>1. PICK file : file = result.nodes
    OBVIOUS
  <2>2. PICK t :
          /\ DOMAIN file = DOMAIN nodes => \A q \in DOMAIN nodes : t[q] = s[q]
          /\ t[root] = s[root] /\ Shaped(file, t, {root}) /\ Leafwise(file, s, t, e)
    BY <1>4, <1>5, <2>1 DEF InsertedShape, InsertedAs
  <2>3. Placed(file, t, root')
    BY <1>5, <2>2 DEF Placed
  <2>4. PICK d, k : Good(file, d, k) /\ \A q \in DOMAIN nodes : d[q] = depth[q]
    BY <1>3, <2>1 DEF InsertOutcome, Outcome
  <2>5. Placing(file, s, t, e)
    BY <1>5, <2>1, <2>2, <2>3 DEF Placing
  <2> QED BY <2>4, <2>5
<1>6. CASE result.right # 0 /\ Grows(result)
  <2>1. PICK n, new : /\ n = NewPage(result.nodes)
                      /\ new = WithPage(result.nodes, NewPage(result.nodes),
                                        Internal(<<result.sep>>, <<root, result.right>>))
    OBVIOUS
  <2>2. PICK t : Placed(new, t, n) /\ Leafwise(new, s, t, e) /\ t[n].first = t[root].first
    <3>1. result.right # 0 /\ Raised(new, result)
      BY <1>6, <2>1 DEF Raised
    <3>2. \E t : RaisedAs(new, NewPage(result.nodes), s, t, e)
      BY ONLY Good(nodes, depth, rank), Placed(nodes, s, root), <1>1, <1>3, <1>4, <3>1, GrowsShape
    <3> QED BY <2>1, <3>2 DEF RaisedAs
  <2>3. Store(new) /\ root' = n /\ metas' = metas \cup {n}
    BY <1>6, <2>1 DEF Grows
  <2>4. /\ \E d, k : Good(new, d, k) /\ \A q \in DOMAIN nodes : d[q] = depth[q]
        /\ n \in DOMAIN new /\ DOMAIN new # DOMAIN nodes
    BY <1>1, <1>3, <1>6, <2>1, GrowsOutcome DEF InsertOutcome
  <2>5. PICK d, k : Good(new, d, k) /\ \A q \in DOMAIN nodes : d[q] = depth[q]
    BY <2>4
  <2>6. n \notin DOMAIN nodes /\ ~new[n].is_leaf
    <3>1. PagesOK(result.nodes) /\ DOMAIN nodes \subseteq DOMAIN result.nodes
      BY <1>3 DEF InsertOutcome, Outcome, Good
    <3>2. n \notin DOMAIN result.nodes
      BY <2>1, <3>1, NewPageNumber DEF PagesOK
    <3>3. new[n] = Internal(<<result.sep>>, <<root, result.right>>)
      BY <2>1 DEF WithPage
    <3> QED BY <3>1, <3>2, <3>3 DEF Internal
  <2>7. Placing(new, s, t, e)
    BY <2>2, <2>3, <2>4, <2>6 DEF Placing
  <2> QED BY <2>5, <2>7
<1> QED BY <1>2, <1>5, <1>6 DEF Insert

LEMMA InsertKeepsShape ==
  ASSUME TreeInv, ShapeInv, NEW key \in Key, NEW rowid \in RowId, Insert(key, rowid)
  PROVE  ShapeInv'
<1>1. ~torn /\ UNCHANGED torn
  BY DEF Insert, Touch
<1>2. PICK depth, rank : Good(nodes, depth, rank)
  BY <1>1 DEF TreeInv, WholeTree, IsTree
<1>3. PICK s : InPlace(s)
  BY <1>1 DEF ShapeInv
<1>4. PICK e : e = <<key, rowid>>
  OBVIOUS
<1>5. Placed(nodes, s, root)
  BY <1>3 DEF InPlace
<1>6. PICK file, t : Placing(file, s, t, e)
  BY <1>2, <1>4, <1>5, InsertPlaces
<1>7. /\ Store(file) /\ Placed(file, t, root')
      /\ DOMAIN file = DOMAIN nodes => UNCHANGED <<root, metas>>
      /\ DOMAIN file = DOMAIN nodes => \A q \in DOMAIN nodes : t[q] = s[q]
  BY <1>6 DEF Placing
<1> QED BY <1>1, <1>3, <1>7, StoresShape

LEMMA RemovedShape ==
  ASSUME NEW depth, NEW rank, Good(nodes, depth, rank), NEW p \in Leaves,
         NEW i \in DOMAIN nodes[p].keys, NEW s, NEW top, Placed(nodes, s, top),
         NEW node, node = Leaf(RemoveAt(nodes[p].keys, i), RemoveAt(nodes[p].values, i),
                               nodes[p].next_leaf),
         NEW file, file = [nodes EXCEPT ![p] = node]
  PROVE  Placed(file, s, top)
<1>1. p \in DOMAIN nodes /\ nodes[p].is_leaf
  BY DEF Leaves
<1>2. nodes[p].keys \in Seq(Key) /\ i \in 1 .. Len(nodes[p].keys)
  <2>1. IsLeaf(nodes[p], DOMAIN nodes, MaxKeys)
    BY <1>1, NodeOfMore DEF Good, PagesOK
  <2>2. nodes[p].keys \in Seq(Key)
    BY <2>1 DEF IsLeaf, LeafNode
  <2> QED BY <2>2
<1>3. LeafFits(nodes[p], p, s)
  BY <1>1 DEF Placed, Shaped, Fits
<1>4. Sorted(RemoveAt(nodes[p].keys, i)) /\ Within(RemoveAt(nodes[p].keys, i), s[p].range)
  <2>1. Sorted(nodes[p].keys) /\ Within(nodes[p].keys, s[p].range)
    BY <1>3 DEF LeafFits
  <2>2. PICK range : range = s[p].range
    OBVIOUS
  <2>3. Within(nodes[p].keys, range)
    BY <2>1, <2>2
  <2>4. Sorted(RemoveAt(nodes[p].keys, i)) /\ Within(RemoveAt(nodes[p].keys, i), range)
    BY ONLY <1>2, <2>1, <2>3, SortedRemove
  <2> QED BY <2>2, <2>4
<1>5. /\ node.is_leaf = TRUE /\ node.keys = RemoveAt(nodes[p].keys, i)
      /\ node.next_leaf = nodes[p].next_leaf
  BY DEF Leaf
<1>6. Fits(node, p, s)
  BY <1>3, <1>4, <1>5 DEF Fits, LeafFits
<1>7. /\ DOMAIN file = DOMAIN nodes
      /\ \A q \in DOMAIN nodes : file[q] = IF q = p THEN node ELSE nodes[q]
  BY <1>1
<1>8. \A q \in DOMAIN file : Fits(file[q], q, s)
  BY <1>6, <1>7 DEF Placed, Shaped
<1>9. \A q \in DOMAIN file :
        Kids(file[q]) = Kids(nodes[q]) /\ (Distinct(nodes[q]) => Distinct(file[q]))
  <2>1. Kids(node) = {} /\ Kids(nodes[p]) = {} /\ Distinct(node)
    BY <1>1, <1>5 DEF Kids, Distinct
  <2> QED BY <1>7, <2>1
<1>10. Once(nodes, {top})
  BY DEF Placed, Shaped
<1>11. Once(file, {top})
  BY <1>7, <1>9, <1>10 DEF Once
<1>12. InIntegers(DOMAIN file, s) /\ s[top].range = Int /\ s[top].after = 0
  BY <1>7 DEF Placed, Shaped
<1> QED BY <1>8, <1>11, <1>12 DEF Placed, Shaped

LEMMA DeleteKeepsShape ==
  ASSUME TreeInv, ShapeInv, NEW key \in Key, NEW rowid \in RowId, Delete(key, rowid)
  PROVE  ShapeInv'
<1>1. ~torn /\ UNCHANGED <<root, meta, metas, torn>>
  BY DEF Delete
<1>2. PICK depth, rank : Good(nodes, depth, rank)
  BY <1>1 DEF TreeInv, WholeTree, IsTree
<1>3. PICK place : place = Found(key, rowid)
  OBVIOUS
<1>4. IsPlace(place, key, rowid)
  BY <1>2, <1>3, FoundInLeaf DEF TreeInv, Roots
<1>5. PICK s : InPlace(s)
  BY <1>1 DEF ShapeInv
<1>6. CASE /\ place # << >>
           /\ Store([nodes EXCEPT ![place[1]] =
                 Leaf(RemoveAt(@.keys, place[2]), RemoveAt(@.values, place[2]), @.next_leaf)])
  <2>1. PICK p \in Leaves : \E i \in DOMAIN nodes[p].keys : place = <<p, i>>
    BY <1>4, <1>6 DEF IsPlace
  <2>2. PICK i \in DOMAIN nodes[p].keys : place = <<p, i>>
    BY <2>1
  <2>3. PICK node : node = Leaf(RemoveAt(nodes[p].keys, i), RemoveAt(nodes[p].values, i),
                                nodes[p].next_leaf)
    OBVIOUS
  <2>4. PICK file : file = [nodes EXCEPT ![p] = node]
    OBVIOUS
  <2>5. Store(file)
    <3>1. place[1] = p /\ place[2] = i
      BY <2>2
    <3> QED BY <1>6, <2>3, <2>4, <3>1
  <2>6. Placed(nodes, s, root)
    BY <1>5 DEF InPlace
  <2>7. Placed(file, s, root)
    BY <1>2, <2>3, <2>4, <2>6, RemovedShape
  <2>8. Placed(file, s, root')
    BY <1>1, <2>7
  <2> QED BY <1>1, <1>5, <2>5, <2>8, StoresShape
<1>7. CASE UNCHANGED <<nodes, cand, touched, grown>>
  BY <1>1, <1>5, <1>7 DEF ShapeInv, InPlace
<1> QED BY <1>3, <1>6, <1>7 DEF Delete

LEMMA FlushKeepsShape == TreeInv /\ ShapeInv /\ Flush => ShapeInv'
<1> SUFFICES ASSUME TreeInv, ShapeInv, Flush PROVE ShapeInv'
  OBVIOUS
<1>1. /\ UNCHANGED <<nodes, root, meta, torn>> /\ metas' = {meta}
      /\ cand' = [p \in DOMAIN nodes |-> {nodes[p]}]
  BY DEF Flush
<1>2. metas' = {root'}
  BY <1>1 DEF TreeInv, Roots
<1>3. ASSUME ~torn PROVE \E s : InPlace(s)'
  <2>1. PICK s : InPlace(s)
    BY <1>3 DEF ShapeInv
  <2>2. \A p \in DOMAIN nodes' : \A v \in cand'[p] : Fits(v, p, s)
    BY <1>1, <2>1 DEF InPlace, Placed, Shaped
  <2>3. InPlace(s)'
    BY <1>1, <2>1, <2>2 DEF InPlace
  <2> QED BY <2>3
<1> QED BY <1>1, <1>2, <1>3 DEF ShapeInv

LEMMA ReopenKeepsShape == TreeInv /\ ShapeInv /\ Reopen => ShapeInv'
<1> SUFFICES ASSUME TreeInv, ShapeInv, Reopen, ~torn' PROVE \E s : InPlace(s)'
  BY DEF ShapeInv, Reopen
<1>1. PICK file \in Mixes : nodes' = file /\ cand' = [p \in DOMAIN file |-> {file[p]}]
  BY DEF Reopen
<1>2. ~torn /\ ~grown /\ meta' \in metas /\ root' = meta'
  BY DEF Reopen
<1>3. /\ file = [p \in DOMAIN nodes |-> file[p]]
      /\ \A p \in DOMAIN nodes : file[p] \in cand[p]
  BY MixesAre DEF TreeInv
<1>4. DOMAIN file = DOMAIN nodes
  BY <1>3
<1>5. PICK s : InPlace(s)
  BY <1>2 DEF ShapeInv
<1>6. \A q \in DOMAIN file : Fits(file[q], q, s)
  BY <1>2, <1>3, <1>4, <1>5 DEF InPlace
<1>7. \A q \in DOMAIN file :
        Kids(file[q]) = Kids(nodes[q]) /\ (Distinct(nodes[q]) => Distinct(file[q]))
  BY <1>2, <1>3, <1>4, VersionIsNode
<1>8. Once(nodes, {root}) /\ InIntegers(DOMAIN nodes, s) /\ s[root].range = Int /\ s[root].after = 0
  BY <1>5 DEF InPlace, Placed, Shaped
<1>9. Once(file, {root})
  BY <1>4, <1>7, <1>8 DEF Once
<1>10. Placed(file, s, root)
  BY <1>4, <1>6, <1>8, <1>9 DEF Placed, Shaped
<1>11. root' = root
  BY <1>2 DEF ShapeInv
<1>12. InPlace(s)'
  BY <1>1, <1>6, <1>10, <1>11 DEF InPlace
<1> QED BY <1>12

LEMMA ShapeNext == TreeInv /\ ShapeInv /\ [Next]_vars => ShapeInv'
<1> SUFFICES ASSUME TreeInv, ShapeInv, [Next]_vars PROVE ShapeInv'
  OBVIOUS
<1>1. CASE UNCHANGED vars
  BY <1>1 DEF vars, ShapeInv, InPlace
<1> QED BY <1>1, InsertKeepsShape, DeleteKeepsShape, FlushKeepsShape, ReopenKeepsShape DEF Next

-----------------------------------------------------------------------------
(* The pages below a page.                                                 *)

LEMMA KidsBelow ==
  ASSUME NEW depth, NEW rank, Good(nodes, depth, rank), NEW p \in DOMAIN nodes
  PROVE  /\ \A c \in Kids(nodes[p]) :
              c \in DOMAIN nodes /\ depth[c] = depth[p] - 1 /\ depth[p] \in Nat
         /\ nodes[p].is_leaf => Kids(nodes[p]) = {}
         /\ ~nodes[p].is_leaf => Kids(nodes[p]) = ToSet(nodes[p].children)
<1>1. IsNode(nodes[p], DOMAIN nodes, MaxKeys)
  BY DEF Good, PagesOK
<1>2. CASE nodes[p].is_leaf
  BY <1>2 DEF Kids
<1>3. CASE ~nodes[p].is_leaf
  <2>1. /\ depth[p] \in Nat /\ Len(nodes[p].children) = Len(nodes[p].keys) + 1
        /\ nodes[p].children \in Seq(AtDepth(depth, depth[p] - 1))
        /\ \A c \in AtDepth(depth, depth[p] - 1) : c \in DOMAIN nodes /\ depth[c] = depth[p] - 1
    BY <1>3, Children
  <2>2. Kids(nodes[p]) \subseteq AtDepth(depth, depth[p] - 1)
    BY <1>1, <1>3, <2>1, KidsOfNode
  <2>3. Kids(nodes[p]) = {nodes[p].children[i] : i \in 1 .. Len(nodes[p].keys) + 1}
    BY <1>3 DEF Kids
  <2>4. DOMAIN nodes[p].children = 1 .. Len(nodes[p].keys) + 1
    BY <2>1
  <2>5. Kids(nodes[p]) = ToSet(nodes[p].children)
    BY <2>3, <2>4 DEF ToSet
  <2> QED BY <1>3, <2>1, <2>2, <2>5
<1> QED BY <1>2, <1>3

LEMMA UnderSame ==
  ASSUME NEW depth, NEW rank, Good(nodes, depth, rank), NEW p \in DOMAIN nodes,
         NEW f, NEW g,
         nodes[p].is_leaf \/ \A c \in AtDepth(depth, depth[p] - 1) : f[c] = g[c]
  PROVE  UnderStep(f, p) = UnderStep(g, p)
<1>1. CASE nodes[p].is_leaf
  BY <1>1 DEF UnderStep
<1>2. CASE ~nodes[p].is_leaf
  <2>1. \A c \in ToSet(nodes[p].children) : c \in AtDepth(depth, depth[p] - 1)
    BY <1>2, Children DEF ToSet
  <2>2. \A c \in ToSet(nodes[p].children) : f[c] = g[c]
    BY <1>2, <2>1
  <2> QED BY <1>2, <2>2 DEF UnderStep
<1> QED BY <1>1, <1>2

LEMMA UnderExist ==
  ASSUME NEW depth, NEW rank, Good(nodes, depth, rank)
  PROVE  \E f : f = [p \in DOMAIN nodes |-> UnderStep(f, p)]
<1> DEFINE To(n) == {p \in DOMAIN nodes : depth[p] < n}
           T == {n \in Nat : \E f : f = [p \in To(n) |-> UnderStep(f, p)]}
<1>1. PICK height \in Nat : depth \in [DOMAIN nodes -> 0 .. height]
  BY DEF Good, DepthOK
<1>2. 0 \in T
  <2> DEFINE f == [p \in {} |-> 0]
  <2>1. To(0) = {}
    BY <1>1
  <2>2. f = [p \in To(0) |-> UnderStep(f, p)]
    BY <2>1
  <2> HIDE DEF f, To
  <2> QED BY <2>2
<1>3. ASSUME NEW n \in Nat, n \in T PROVE n + 1 \in T
  <2>1. PICK f : f = [p \in To(n) |-> UnderStep(f, p)]
    BY <1>3
  <2> DEFINE g == [p \in To(n + 1) |-> UnderStep(f, p)]
  <2>2. ASSUME NEW p \in To(n + 1) PROVE UnderStep(f, p) = UnderStep(g, p)
    <3>1. ~nodes[p].is_leaf =>
            \A c \in AtDepth(depth, depth[p] - 1) : c \in To(n) /\ c \in To(n + 1)
      BY <1>1 DEF AtDepth
    <3>2. \A c \in To(n) : c \in To(n + 1) => f[c] = g[c]
      BY <2>1
    <3> HIDE DEF g
    <3>3. nodes[p].is_leaf \/ \A c \in AtDepth(depth, depth[p] - 1) : f[c] = g[c]
      BY <3>1, <3>2
    <3> QED BY <3>3, UnderSame
  <2>3. g = [p \in To(n + 1) |-> UnderStep(g, p)]
    <3>1. g = [p \in To(n + 1) |-> UnderStep(f, p)]
      OBVIOUS
    <3> HIDE DEF g, To
    <3> QED BY <2>2, <3>1
  <2>4. n + 1 \in Nat
    OBVIOUS
  <2> HIDE DEF g, To
  <2> QED BY <2>3, <2>4
<1>4. Nat \subseteq T
  <2> HIDE DEF T
  <2> QED BY <1>2, <1>3, AllNumbers
<1>5. To(height + 1) = DOMAIN nodes
  BY <1>1
<1>6. height + 1 \in T
  <2>1. height + 1 \in Nat
    BY <1>1
  <2> HIDE DEF T
  <2> QED BY <1>4, <2>1
<1> QED BY <1>5, <1>6

LEMMA BelowIs ==
  ASSUME NEW depth, NEW rank, Good(nodes, depth, rank), NEW p \in DOMAIN nodes
  PROVE  \A x : x \in Below(p) <=> x = p \/ \E c \in Kids(nodes[p]) : x \in Below(c)
<1> DEFINE below == CHOOSE f : f = [q \in DOMAIN nodes |-> UnderStep(f, q)]
<1>1. below = [q \in DOMAIN nodes |-> UnderStep(below, q)]
  BY UnderExist
<1>2. \A q : Below(q) = below[q]
  BY DEF Below, UnderStep
<1> HIDE DEF below
<1>3. below[p] = UnderStep(below, p)
  BY <1>1
<1>4. CASE nodes[p].is_leaf
  <2>1. Kids(nodes[p]) = {}
    BY <1>4 DEF Kids
  <2> QED BY <1>2, <1>3, <1>4, <2>1 DEF UnderStep
<1>5. CASE ~nodes[p].is_leaf
  <2>1. Kids(nodes[p]) = ToSet(nodes[p].children)
    BY <1>5, KidsBelow
  <2>2. \A x : x \in below[p] <=> x = p \/ \E c \in Kids(nodes[p]) : x \in below[c]
    BY <1>3, <1>5, <2>1 DEF UnderStep
  <2> QED BY <1>2, <2>2
<1> QED BY <1>4, <1>5

LEMMA BelowHolds ==
  ASSUME NEW depth, NEW rank, Good(nodes, depth, rank)
  PROVE  \A p \in DOMAIN nodes :
           /\ Below(p) \subseteq DOMAIN nodes
           /\ \A q \in Below(p) : Kids(nodes[q]) \subseteq Below(p)
<1> DEFINE T == {p \in DOMAIN nodes :
                   /\ Below(p) \subseteq DOMAIN nodes
                   /\ \A q \in Below(p) : Kids(nodes[q]) \subseteq Below(p)}
<1>1. ASSUME NEW p \in DOMAIN nodes,
             \A c \in DOMAIN nodes : depth[c] < depth[p] => c \in T
      PROVE  p \in T
  <2>1. \A c \in Kids(nodes[p]) : c \in DOMAIN nodes /\ c \in T
    <3>1. ASSUME NEW c \in Kids(nodes[p]) PROVE c \in DOMAIN nodes /\ depth[c] < depth[p]
      BY KidsBelow
    <3> HIDE DEF T
    <3> QED BY <1>1, <3>1
  <2>2. \A x : x \in Below(p) <=> x = p \/ \E c \in Kids(nodes[p]) : x \in Below(c)
    BY BelowIs
  <2>3. Below(p) \subseteq DOMAIN nodes
    BY <2>1, <2>2
  <2>4. \A c \in Kids(nodes[p]) : c \in Below(c)
    BY <2>1, BelowIs
  <2>5. \A q \in Below(p) : Kids(nodes[q]) \subseteq Below(p)
    <3>1. ASSUME NEW q \in Below(p), NEW x \in Kids(nodes[q]) PROVE x \in Below(p)
      <4>1. CASE q = p
        BY <2>2, <2>4, <4>1
      <4>2. CASE q # p
        <5>1. PICK c \in Kids(nodes[p]) : q \in Below(c)
          BY <2>2, <4>2
        <5>2. x \in Below(c)
          BY <2>1, <5>1
        <5> QED BY <2>2, <5>2
      <4> QED BY <4>1, <4>2
    <3> QED BY <3>1
  <2> QED BY <2>3, <2>5
<1>2. T = DOMAIN nodes
  <2>1. T \in SUBSET DOMAIN nodes
    OBVIOUS
  <2> HIDE DEF T
  <2> QED BY <1>1, <2>1, ByDepth
<1> QED BY <1>2

(* A page that is nowhere below the root would have a parent that is not.  *)
LEMMA AllBelowRoot ==
  ASSUME NEW depth, NEW rank, Good(nodes, depth, rank), root \in DOMAIN nodes,
         Once(nodes, {root})
  PROVE  Below(root) = DOMAIN nodes
<1> DEFINE Out == DOMAIN nodes \ Below(root)
<1> SUFFICES ASSUME Out # {} PROVE FALSE
  BY BelowHolds
<1>1. PICK height \in Nat : depth \in [DOMAIN nodes -> 0 .. height]
  BY DEF Good, DepthOK
<1> DEFINE D == {height - depth[q] : q \in Out}
<1>2. PICK n \in D : \A m \in D : n <= m
  <2>1. D \in SUBSET Nat /\ D # {}
    BY <1>1
  <2> HIDE DEF D
  <2> QED BY <2>1, LeastNumber
<1>3. PICK q \in Out : n = height - depth[q]
  OBVIOUS
<1>4. q # root /\ q \in DOMAIN nodes
  BY BelowIs
<1>5. PICK p \in DOMAIN nodes : q \in Kids(nodes[p])
  BY <1>4 DEF Once
<1>6. p \in Out
  BY <1>5, BelowHolds
<1>7. depth[q] = depth[p] - 1 /\ depth[p] \in Nat
  BY <1>5, KidsBelow
<1>8. n <= height - depth[p]
  BY <1>2, <1>6
<1> QED BY <1>1, <1>3, <1>7, <1>8

LEMMA UsedOnce ==
  ASSUME NEW depth, NEW rank, Good(nodes, depth, rank), root \in DOMAIN nodes,
         Once(nodes, {root})
  PROVE  PagesUsedOnce
<1>1. ASSUME NEW p \in DOMAIN nodes, NEW q \in DOMAIN nodes,
             ~nodes[p].is_leaf, ~nodes[q].is_leaf,
             NEW i \in DOMAIN nodes[p].children, NEW j \in DOMAIN nodes[q].children,
             nodes[p].children[i] = nodes[q].children[j]
      PROVE  p = q /\ i = j
  <2>1. nodes[p].children[i] \in Kids(nodes[p]) /\ nodes[q].children[j] \in Kids(nodes[q])
    BY <1>1, KidsBelow DEF ToSet
  <2>2. p = q
    BY <1>1, <2>1 DEF Once
  <2>3. DOMAIN nodes[p].children = 1 .. Len(nodes[p].keys) + 1
    <3>1. /\ Len(nodes[p].children) = Len(nodes[p].keys) + 1
          /\ nodes[p].children \in Seq(AtDepth(depth, depth[p] - 1))
      BY <1>1, Children
    <3> QED BY <3>1
  <2>4. i = j
    BY <1>1, <2>2, <2>3 DEF Once, Distinct
  <2> QED BY <2>2, <2>4
<1>2. Below(root) = DOMAIN nodes
  BY AllBelowRoot
<1> QED BY <1>1, <1>2 DEF PagesUsedOnce

-----------------------------------------------------------------------------
(* Separators route.                                                       *)

LEMMA NarrowerBelow ==
  ASSUME NEW depth, NEW rank, Good(nodes, depth, rank), NEW s, NEW tops, Shaped(nodes, s, tops)
  PROVE  \A p \in DOMAIN nodes : \A q \in Below(p) : s[q].range \subseteq s[p].range
<1> DEFINE T == {p \in DOMAIN nodes : \A q \in Below(p) : s[q].range \subseteq s[p].range}
<1>1. ASSUME NEW p \in DOMAIN nodes,
             \A c \in DOMAIN nodes : depth[c] < depth[p] => c \in T
      PROVE  p \in T
  <2>1. \A c \in Kids(nodes[p]) : c \in DOMAIN nodes /\ c \in T
    <3>1. ASSUME NEW c \in Kids(nodes[p]) PROVE c \in DOMAIN nodes /\ depth[c] < depth[p]
      BY KidsBelow
    <3> HIDE DEF T
    <3> QED BY <1>1, <3>1
  <2>2. \A c \in Kids(nodes[p]) : s[c].range \subseteq s[p].range
    <3>1. ASSUME NEW c \in Kids(nodes[p]) PROVE s[c].range \subseteq s[p].range
      <4>1. ~nodes[p].is_leaf
        BY DEF Kids
      <4>2. PICK i \in 1 .. Len(nodes[p].keys) + 1 : c = nodes[p].children[i]
        BY <4>1 DEF Kids
      <4>3. InnerFits(nodes[p], p, s)
        BY <4>1 DEF Shaped, Fits
      <4>4. s[c].range = Part(s[p].range, nodes[p].keys, i)
        BY <4>2, <4>3 DEF InnerFits
      <4> QED BY <4>4 DEF Part
    <3> QED BY <3>1
  <2>3. \A x : x \in Below(p) <=> x = p \/ \E c \in Kids(nodes[p]) : x \in Below(c)
    BY BelowIs
  <2>4. ASSUME NEW q \in Below(p) PROVE s[q].range \subseteq s[p].range
    <3>1. CASE q = p
      BY <3>1
    <3>2. CASE q # p
      <4>1. PICK c \in Kids(nodes[p]) : q \in Below(c)
        BY <2>3, <3>2
      <4>2. s[q].range \subseteq s[c].range /\ s[c].range \subseteq s[p].range
        BY <2>1, <2>2, <4>1
      <4> QED BY <4>2
    <3> QED BY <3>1, <3>2
  <2> QED BY <2>4
<1>2. T = DOMAIN nodes
  <2>1. T \in SUBSET DOMAIN nodes
    OBVIOUS
  <2> HIDE DEF T
  <2> QED BY <1>1, <2>1, ByDepth
<1> QED BY <1>2

LEMMA KeysInRange ==
  ASSUME NEW depth, NEW rank, Good(nodes, depth, rank), NEW s, NEW tops, Shaped(nodes, s, tops),
         NEW p \in DOMAIN nodes
  PROVE  KeysBelow(p) \subseteq s[p].range
<1>1. ASSUME NEW q \in Below(p), NEW key \in ToSet(nodes[q].keys) PROVE key \in s[p].range
  <2>1. q \in DOMAIN nodes
    BY BelowHolds
  <2>2. Fits(nodes[q], q, s)
    BY <2>1 DEF Shaped
  <2>3. Within(nodes[q].keys, s[q].range)
    BY <2>2 DEF Fits, LeafFits, InnerFits
  <2>4. DOMAIN nodes[q].keys = 1 .. Len(nodes[q].keys)
    <3>1. IsNode(nodes[q], DOMAIN nodes, MaxKeys)
      BY <2>1 DEF Good, PagesOK
    <3>2. nodes[q].keys \in Seq(Key)
      BY <3>1 DEF IsNode, IsLeaf, IsInner, LeafNode, InnerNode
    <3> QED BY <3>2
  <2>5. key \in s[q].range
    BY <2>3, <2>4 DEF ToSet, Within
  <2> QED BY <2>5, NarrowerBelow
<1> QED BY <1>1 DEF KeysBelow

LEMMA IsRouted ==
  ASSUME NEW depth, NEW rank, Good(nodes, depth, rank), NEW s, NEW tops, Shaped(nodes, s, tops)
  PROVE  Routed
<1>1. ASSUME NEW p \in DOMAIN nodes PROVE IsSorted(nodes[p].keys, <=)
  <2>1. Sorted(nodes[p].keys)
    BY DEF Shaped, Fits, LeafFits, InnerFits
  <2> QED BY <2>1 DEF Sorted, IsSorted
<1>2. ASSUME NEW p \in DOMAIN nodes, ~nodes[p].is_leaf, NEW i \in DOMAIN nodes[p].keys
      PROVE  /\ \A key \in KeysBelow(nodes[p].children[i]) : key <= nodes[p].keys[i]
             /\ \A key \in KeysBelow(nodes[p].children[i + 1]) : nodes[p].keys[i] <= key
  <2>1. PICK N \in Nat : N = Len(nodes[p].keys) /\ DOMAIN nodes[p].keys = 1 .. N
    <3>1. nodes[p].keys \in Seq(Key)
      BY <1>2, Children
    <3> QED BY <3>1
  <2>2. PICK j : j = i + 1
    OBVIOUS
  <2>3. i \in 1 .. N /\ i \in 1 .. N + 1 /\ j \in 1 .. N + 1 /\ i <= N /\ j > 1 /\ j - 1 = i
    BY <2>1, <2>2
  <2>4. InnerFits(nodes[p], p, s)
    BY <1>2 DEF Shaped, Fits
  <2>5. PICK b, c : b = nodes[p].children[i] /\ c = nodes[p].children[j]
    OBVIOUS
  <2>6. /\ s[b].range = Part(s[p].range, nodes[p].keys, i)
        /\ s[c].range = Part(s[p].range, nodes[p].keys, j)
    BY <2>1, <2>3, <2>4, <2>5 DEF InnerFits
  <2>7. b \in DOMAIN nodes /\ c \in DOMAIN nodes
    BY <1>2, <2>1, <2>3, <2>5, Children
  <2>8. KeysBelow(b) \subseteq s[b].range /\ KeysBelow(c) \subseteq s[c].range
    BY <2>7, KeysInRange
  <2>9. \A key \in s[b].range : key <= nodes[p].keys[i]
    BY <2>1, <2>3, <2>6 DEF Part
  <2>10. \A key \in s[c].range : nodes[p].keys[i] <= key
    BY <2>3, <2>6 DEF Part
  <2> QED BY <2>2, <2>5, <2>8, <2>9, <2>10
<1> QED BY <1>1, <1>2 DEF Routed

-----------------------------------------------------------------------------
(* The leaves below a page are the chain from its first leaf to the one    *)
(* behind.                                                                 *)

LEMMA ChainsJoin ==
  ASSUME NEW L, NEW M, NEW a, NEW b, NEW c, Chain(L, a, b), Chain(M, b, c)
  PROVE  Chain(L \o M, a, c)
<1>1. PICK m \in Nat, n \in Nat : m = Len(L) /\ n = Len(M) /\ m >= 1 /\ n >= 1
  BY DEF Chain
<1>2. L \in Seq(DOMAIN nodes) /\ M \in Seq(DOMAIN nodes)
  BY DEF Chain
<1>3. PICK J : J = L \o M
  OBVIOUS
<1>4. J \in Seq(DOMAIN nodes) /\ Len(J) = m + n
  BY <1>1, <1>2, <1>3, ConcatType
<1>5. \A i \in 1 .. m + n : J[i] = IF i <= m THEN L[i] ELSE M[i - m]
  BY <1>1, <1>2, <1>3, ConcatElements
<1>6. J[1] = a
  BY <1>1, <1>5 DEF Chain
<1>7. M[1] = b
  BY DEF Chain
<1>8. ASSUME NEW i \in 1 .. m + n
      PROVE  nodes[J[i]].next_leaf = IF i = m + n THEN c ELSE J[i + 1]
  <2>1. CASE i < m
    <3>1. i \in 1 .. m /\ i # m /\ i + 1 \in 1 .. m + n /\ i <= m /\ i + 1 <= m /\ i # m + n
      BY <1>1, <2>1
    <3>2. J[i] = L[i] /\ J[i + 1] = L[i + 1]
      BY <1>5, <3>1
    <3> QED BY <1>1, <3>1, <3>2 DEF Chain
  <2>2. CASE i = m
    <3>1. i \in 1 .. m /\ i + 1 \in 1 .. m + n /\ i <= m /\ ~(i + 1 <= m) /\ (i + 1) - m = 1 /\ i # m + n
      BY <1>1, <2>2
    <3>2. J[i] = L[i] /\ J[i + 1] = M[1]
      BY <1>5, <3>1
    <3> QED BY <1>1, <1>7, <2>2, <3>1, <3>2 DEF Chain
  <2>3. CASE i > m
    <3>1. PICK k \in 1 .. n : k = i - m
      <4>1. i - m \in 1 .. n
        BY <1>1, <2>3
      <4> QED BY <4>1
    <3>2. ~(i <= m) /\ (i = m + n <=> k = n)
      BY <1>1, <2>3, <3>1
    <3>3. J[i] = M[k]
      BY <1>5, <3>1, <3>2
    <3>4. i # m + n => i + 1 \in 1 .. m + n /\ ~(i + 1 <= m) /\ (i + 1) - m = k + 1
      BY <1>1, <2>3, <3>1
    <3>5. i # m + n => J[i + 1] = M[k + 1]
      BY <1>5, <3>4
    <3>6. nodes[M[k]].next_leaf = IF k = n THEN c ELSE M[k + 1]
      BY <1>1 DEF Chain
    <3> QED BY <3>2, <3>3, <3>5, <3>6
  <2> QED BY <1>1, <2>1, <2>2, <2>3
<1>9. Len(J) >= 1
  BY <1>1, <1>4
<1> QED BY <1>3, <1>4, <1>6, <1>8, <1>9 DEF Chain

LEMMA ChainsFlatten ==
  ASSUME NEW last \in Nat, last >= 1, NEW seqs, Len(seqs) = last, NEW from, NEW to,
         \A i \in 1 .. last : Chain(seqs[i], from[i], to[i]),
         \A i \in 1 .. last : i # last => to[i] = from[i + 1]
  PROVE  Chain(FlattenSeq(seqs), from[1], to[last])
<1> DEFINE flatten == CHOOSE f : f = [i \in 1 .. last |-> FlatStep(f, seqs, i)]
<1>1. flatten = [i \in 1 .. last |-> FlatStep(flatten, seqs, i)]
  BY FlatExists
<1>2. FlattenSeq(seqs) = flatten[last]
  <2>1. last # 0
    OBVIOUS
  <2> QED BY <2>1 DEF FlattenSeq, FlatStep
<1> HIDE DEF flatten
<1> DEFINE T == {i \in Nat : i + 1 \in 1 .. last => Chain(flatten[i + 1], from[1], to[i + 1])}
<1>3. 0 \in T
  <2>1. flatten[1] = seqs[1]
    BY <1>1 DEF FlatStep
  <2> QED BY <2>1
<1>4. ASSUME NEW i \in Nat, i \in T PROVE i + 1 \in T
  <2>1. PICK j, k : j = i + 1 /\ k = i + 1 + 1
    OBVIOUS
  <2>2. ASSUME k \in 1 .. last PROVE Chain(flatten[k], from[1], to[k])
    <3>1. j \in 1 .. last /\ j # last /\ k # 1 /\ k - 1 = j /\ j + 1 = k
      BY <2>1, <2>2
    <3>2. Chain(flatten[j], from[1], to[j])
      BY <1>4, <2>1, <3>1
    <3>3. Chain(seqs[k], to[j], to[k])
      BY <2>2, <3>1
    <3>4. flatten[k] = flatten[j] \o seqs[k]
      BY <1>1, <2>2, <3>1 DEF FlatStep
    <3> QED BY <3>2, <3>3, <3>4, ChainsJoin
  <2> QED BY <2>1, <2>2
<1>5. Nat \subseteq T
  <2> HIDE DEF T
  <2> QED BY <1>3, <1>4, AllNumbers
<1>6. PICK n \in Nat : n + 1 = last
  <2>1. last - 1 \in Nat /\ (last - 1) + 1 = last
    OBVIOUS
  <2> QED BY <2>1
<1>7. n \in T /\ n + 1 \in 1 .. last
  BY <1>5, <1>6
<1> QED BY <1>2, <1>6, <1>7

LEMMA LeavesSame ==
  ASSUME NEW depth, NEW rank, Good(nodes, depth, rank), NEW p \in DOMAIN nodes,
         NEW f, NEW g,
         nodes[p].is_leaf \/ \A c \in AtDepth(depth, depth[p] - 1) : f[c] = g[c]
  PROVE  LeavesStep(f, p) = LeavesStep(g, p)
<1>1. CASE nodes[p].is_leaf
  BY <1>1 DEF LeavesStep
<1>2. CASE ~nodes[p].is_leaf
  <2>1. \A i \in DOMAIN nodes[p].children :
          nodes[p].children[i] \in AtDepth(depth, depth[p] - 1)
    BY <1>2, Children
  <2>2. [i \in DOMAIN nodes[p].children |-> f[nodes[p].children[i]]]
          = [i \in DOMAIN nodes[p].children |-> g[nodes[p].children[i]]]
    BY <1>2, <2>1
  <2> QED BY <1>2, <2>2 DEF LeavesStep
<1> QED BY <1>1, <1>2

LEMMA LeavesExist ==
  ASSUME NEW depth, NEW rank, Good(nodes, depth, rank)
  PROVE  \E f : f = [p \in DOMAIN nodes |-> LeavesStep(f, p)]
<1> DEFINE To(n) == {p \in DOMAIN nodes : depth[p] < n}
           T == {n \in Nat : \E f : f = [p \in To(n) |-> LeavesStep(f, p)]}
<1>1. PICK height \in Nat : depth \in [DOMAIN nodes -> 0 .. height]
  BY DEF Good, DepthOK
<1>2. 0 \in T
  <2> DEFINE f == [p \in {} |-> 0]
  <2>1. To(0) = {}
    BY <1>1
  <2>2. f = [p \in To(0) |-> LeavesStep(f, p)]
    BY <2>1
  <2> HIDE DEF f, To
  <2> QED BY <2>2
<1>3. ASSUME NEW n \in Nat, n \in T PROVE n + 1 \in T
  <2>1. PICK f : f = [p \in To(n) |-> LeavesStep(f, p)]
    BY <1>3
  <2> DEFINE g == [p \in To(n + 1) |-> LeavesStep(f, p)]
  <2>2. ASSUME NEW p \in To(n + 1) PROVE LeavesStep(f, p) = LeavesStep(g, p)
    <3>1. ~nodes[p].is_leaf =>
            \A c \in AtDepth(depth, depth[p] - 1) : c \in To(n) /\ c \in To(n + 1)
      BY <1>1 DEF AtDepth
    <3>2. \A c \in To(n) : c \in To(n + 1) => f[c] = g[c]
      BY <2>1
    <3> HIDE DEF g
    <3>3. nodes[p].is_leaf \/ \A c \in AtDepth(depth, depth[p] - 1) : f[c] = g[c]
      BY <3>1, <3>2
    <3> QED BY <3>3, LeavesSame
  <2>3. g = [p \in To(n + 1) |-> LeavesStep(g, p)]
    <3>1. g = [p \in To(n + 1) |-> LeavesStep(f, p)]
      OBVIOUS
    <3> HIDE DEF g, To
    <3> QED BY <2>2, <3>1
  <2>4. n + 1 \in Nat
    OBVIOUS
  <2> HIDE DEF g, To
  <2> QED BY <2>3, <2>4
<1>4. Nat \subseteq T
  <2> HIDE DEF T
  <2> QED BY <1>2, <1>3, AllNumbers
<1>5. To(height + 1) = DOMAIN nodes
  BY <1>1
<1>6. height + 1 \in T
  <2>1. height + 1 \in Nat
    BY <1>1
  <2> HIDE DEF T
  <2> QED BY <1>4, <2>1
<1> QED BY <1>5, <1>6

LEMMA LeavesAreChain ==
  ASSUME NEW depth, NEW rank, Good(nodes, depth, rank), NEW s, NEW tops, Shaped(nodes, s, tops)
  PROVE  \A p \in DOMAIN nodes : Chain(LeavesBelow(p), s[p].first, s[p].after)
<1> DEFINE leaves == CHOOSE f : f = [q \in DOMAIN nodes |-> LeavesStep(f, q)]
<1>1. leaves = [q \in DOMAIN nodes |-> LeavesStep(leaves, q)]
  BY LeavesExist
<1>2. \A q : LeavesBelow(q) = leaves[q]
  BY DEF LeavesBelow, LeavesStep
<1> HIDE DEF leaves
<1> DEFINE T == {p \in DOMAIN nodes : Chain(leaves[p], s[p].first, s[p].after)}
<1>3. ASSUME NEW p \in DOMAIN nodes,
             \A c \in DOMAIN nodes : depth[c] < depth[p] => c \in T
      PROVE  p \in T
  <2>1. leaves[p] = LeavesStep(leaves, p)
    BY <1>1
  <2>2. CASE nodes[p].is_leaf
    <3>1. leaves[p] = <<p>>
      BY <2>1, <2>2 DEF LeavesStep
    <3>2. s[p].first = p /\ s[p].after = nodes[p].next_leaf
      BY <2>2 DEF Shaped, Fits, LeafFits
    <3>3. <<p>> \in Seq(DOMAIN nodes) /\ Len(<<p>>) = 1 /\ <<p>>[1] = p
      OBVIOUS
    <3>4. Chain(<<p>>, p, nodes[p].next_leaf)
      BY <3>3 DEF Chain
    <3> QED BY <3>1, <3>2, <3>4
  <2>3. CASE ~nodes[p].is_leaf
    <3>1. PICK N \in Nat :
            /\ N = Len(nodes[p].keys) + 1 /\ N >= 1 /\ DOMAIN nodes[p].children = 1 .. N
            /\ \A i \in 1 .. N : nodes[p].children[i] \in AtDepth(depth, depth[p] - 1)
      <4>1. /\ Len(nodes[p].keys) \in Nat
            /\ Len(nodes[p].children) = Len(nodes[p].keys) + 1
            /\ nodes[p].children \in Seq(AtDepth(depth, depth[p] - 1))
        BY <2>3, Children
      <4>2. /\ DOMAIN nodes[p].children = 1 .. Len(nodes[p].keys) + 1
            /\ \A i \in 1 .. Len(nodes[p].keys) + 1 :
                 nodes[p].children[i] \in AtDepth(depth, depth[p] - 1)
        BY <4>1
      <4> QED BY <4>1, <4>2
    <3>2. \A c \in AtDepth(depth, depth[p] - 1) :
            c \in DOMAIN nodes /\ depth[c] = depth[p] - 1 /\ depth[p] \in Nat
      BY <2>3, Children
    <3>3. \A i \in 1 .. N : nodes[p].children[i] \in T
      <4> HIDE DEF T
      <4> QED BY <1>3, <3>1, <3>2
    <3>4. PICK seqs : seqs = [i \in 1 .. N |-> leaves[nodes[p].children[i]]]
      OBVIOUS
    <3>5. PICK from : from = [i \in 1 .. N |-> s[nodes[p].children[i]].first]
      OBVIOUS
    <3>6. PICK to : to = [i \in 1 .. N |-> s[nodes[p].children[i]].after]
      OBVIOUS
    <3>7. Len(seqs) = N
      BY <3>1, <3>4
    <3>8. \A i \in 1 .. N : Chain(seqs[i], from[i], to[i])
      BY <3>3, <3>4, <3>5, <3>6
    <3>9. InnerFits(nodes[p], p, s)
      BY <2>3 DEF Shaped, Fits
    <3>10. \A i \in 1 .. N : i # N => to[i] = from[i + 1]
      <4>1. ASSUME NEW i \in 1 .. N, i # N PROVE to[i] = from[i + 1]
        <5>1. i \in 1 .. Len(nodes[p].keys) /\ i + 1 \in 1 .. N
          BY <3>1, <4>1
        <5>2. s[nodes[p].children[i]].after = s[nodes[p].children[i + 1]].first
          BY <3>9, <5>1 DEF InnerFits
        <5> QED BY <3>5, <3>6, <5>1, <5>2
      <4> QED BY <4>1
    <3>11. Chain(FlattenSeq(seqs), from[1], to[N])
      BY ONLY <3>1, <3>7, <3>8, <3>10, ChainsFlatten
    <3>12. from[1] = s[p].first /\ to[N] = s[p].after
      BY <3>1, <3>5, <3>6, <3>9 DEF InnerFits
    <3>13. leaves[p] = FlattenSeq(seqs)
      BY <2>1, <2>3, <3>1, <3>4 DEF LeavesStep
    <3> QED BY <3>11, <3>12, <3>13
  <2> QED BY <2>2, <2>3
<1>4. T = DOMAIN nodes
  <2>1. T \in SUBSET DOMAIN nodes
    OBVIOUS
  <2> HIDE DEF T
  <2> QED BY <1>3, <2>1, ByDepth
<1> QED BY <1>2, <1>4

LEMMA AreLinked ==
  ASSUME NEW depth, NEW rank, Good(nodes, depth, rank), root \in DOMAIN nodes,
         NEW s, Placed(nodes, s, root)
  PROVE  LeavesLinked
<1>1. PICK L : L = LeavesBelow(root)
  OBVIOUS
<1>2. Chain(L, s[root].first, 0)
  <2>1. \E tops : Shaped(nodes, s, tops)
    BY DEF Placed
  <2>2. Chain(LeavesBelow(root), s[root].first, s[root].after)
    BY <2>1, LeavesAreChain
  <2> QED BY <1>1, <2>2 DEF Placed
<1>3. DOMAIN L = 1 .. Len(L)
  BY <1>2 DEF Chain
<1> QED BY <1>1, <1>2, <1>3 DEF LeavesLinked, Chain

-----------------------------------------------------------------------------
(* The theorem.                                                            *)

LEMMA ShapeHolds == TreeInv /\ ShapeInv => WellShaped
<1> SUFFICES ASSUME TreeInv, ShapeInv, ~torn
             PROVE  PagesUsedOnce /\ Balanced /\ Routed /\ LeavesLinked
  BY DEF WellShaped
<1>1. PICK depth, rank : Good(nodes, depth, rank)
  BY DEF TreeInv, WholeTree, IsTree
<1>2. PICK s : Placed(nodes, s, root)
  BY DEF ShapeInv, InPlace
<1>3. root \in DOMAIN nodes
  BY DEF TreeInv, Roots
<1>4. Shaped(nodes, s, {root}) /\ Once(nodes, {root})
  BY <1>2 DEF Placed, Shaped
<1>5. PagesUsedOnce
  BY <1>1, <1>3, <1>4, UsedOnce
<1>6. Balanced
  BY <1>1, <1>3, GoodIsBalanced
<1>7. Routed
  BY <1>1, <1>4, IsRouted
<1>8. LeavesLinked
  BY <1>1, <1>2, <1>3, AreLinked
<1> QED BY <1>5, <1>6, <1>7, <1>8

(* Until a kill has met a tree that had grown every page is used once, the *)
(* leaves are equally deep, separators route what is below them and the    *)
(* chain of leaves is the leaves from left to right (btree.py, lines 14    *)
(* to 36): whatever is inserted, split, deleted, flushed or lost.          *)
THEOREM TreeWellShaped == Spec => []WellShaped
<1>1. Init => TreeInv /\ ShapeInv
  BY TreeInit, ShapeInit
<1>2. TreeInv /\ ShapeInv /\ [Next]_vars => TreeInv' /\ ShapeInv'
  BY TreeNext, ShapeNext
<1>3. TreeInv /\ ShapeInv => WellShaped
  BY ShapeHolds
<1> QED BY <1>1, <1>2, <1>3, PTL DEF Spec

-----------------------------------------------------------------------------
(* The chain of leaves: every leaf once, their ranges in order.            *)

LEMMA LeafType ==
  ASSUME NEW depth, NEW rank, Good(nodes, depth, rank), NEW p \in Leaves
  PROVE  /\ p \in DOMAIN nodes /\ nodes[p].is_leaf /\ 0 \notin DOMAIN nodes
         /\ IsLeaf(nodes[p], DOMAIN nodes, MaxKeys)
         /\ nodes[p].keys \in Seq(Key) /\ nodes[p].values \in Seq(RowId)
         /\ Len(nodes[p].values) = Len(nodes[p].keys) /\ Len(nodes[p].keys) \in Nat
         /\ Link(p) # 0 => Link(p) \in Leaves /\ rank[Link(p)] < rank[p]
<1>1. p \in DOMAIN nodes /\ nodes[p].is_leaf
  BY DEF Leaves
<1>2. IsLeaf(nodes[p], DOMAIN nodes, MaxKeys)
  BY <1>1, NodeOfMore DEF Good, PagesOK
<1>3. /\ nodes[p].keys \in Seq(Key) /\ nodes[p].values \in Seq(RowId)
      /\ Len(nodes[p].values) = Len(nodes[p].keys) /\ Len(nodes[p].keys) \in Nat
  <2>1. nodes[p].keys \in Seq(Key) /\ nodes[p].values \in Seq(RowId)
    BY <1>2 DEF IsLeaf, LeafNode
  <2>2. Len(nodes[p].values) = Len(nodes[p].keys)
    BY <1>2 DEF IsLeaf
  <2> QED BY <2>1, <2>2
<1>4. 0 \notin DOMAIN nodes
  BY DEF Good, PagesOK, Numbered
<1>5. Link(p) # 0 => Link(p) \in Leaves /\ rank[Link(p)] < rank[p]
  BY NextLeaf DEF Link
<1> QED BY <1>1, <1>2, <1>3, <1>4, <1>5

(* The children of an inner node.                                          *)
LEMMA KidsOf ==
  ASSUME NEW depth, NEW rank, Good(nodes, depth, rank), NEW s, NEW tops, Shaped(nodes, s, tops),
         NEW p \in DOMAIN nodes, ~nodes[p].is_leaf
  PROVE  \E n \in Nat :
           /\ n = Len(nodes[p].keys) /\ n >= 1 /\ nodes[p].keys \in Seq(Key)
           /\ DOMAIN nodes[p].children = 1 .. n + 1
           /\ Kids(nodes[p]) = {nodes[p].children[i] : i \in 1 .. n + 1}
           /\ \A i \in 1 .. n + 1 :
                /\ nodes[p].children[i] \in DOMAIN nodes
                /\ nodes[p].children[i] \in Kids(nodes[p])
                /\ depth[nodes[p].children[i]] < depth[p]
           /\ InnerFits(nodes[p], p, s)
<1>1. /\ nodes[p].keys \in Seq(Key) /\ Len(nodes[p].keys) \in Nat /\ Len(nodes[p].keys) >= 1
      /\ DOMAIN nodes[p].children = 1 .. Len(nodes[p].keys) + 1
  <2>1. IsInner(nodes[p], DOMAIN nodes, MaxKeys)
    BY Children
  <2> QED BY <2>1 DEF IsInner, InnerNode
<1>2. Kids(nodes[p]) = {nodes[p].children[i] : i \in 1 .. Len(nodes[p].keys) + 1}
  BY DEF Kids
<1>3. \A c \in Kids(nodes[p]) : c \in DOMAIN nodes /\ depth[c] < depth[p]
  <2>1. ASSUME NEW c \in Kids(nodes[p]) PROVE c \in DOMAIN nodes /\ depth[c] < depth[p]
    <3>1. c \in DOMAIN nodes /\ depth[c] = depth[p] - 1 /\ depth[p] \in Nat
      BY KidsBelow
    <3> QED BY <3>1
  <2> QED BY <2>1
<1>4. InnerFits(nodes[p], p, s)
  BY DEF Shaped, Fits
<1> QED BY <1>1, <1>2, <1>3, <1>4

LEMMA FirstBelow ==
  ASSUME NEW depth, NEW rank, Good(nodes, depth, rank), NEW s, NEW tops, Shaped(nodes, s, tops)
  PROVE  \A p \in DOMAIN nodes : s[p].first \in LeavesUnder(p)
<1> DEFINE T == {p \in DOMAIN nodes : s[p].first \in LeavesUnder(p)}
<1>1. ASSUME NEW p \in DOMAIN nodes,
             \A c \in DOMAIN nodes : depth[c] < depth[p] => c \in T
      PROVE  p \in T
  <2>1. \A x : x \in Below(p) <=> x = p \/ \E c \in Kids(nodes[p]) : x \in Below(c)
    BY BelowIs
  <2>2. CASE nodes[p].is_leaf
    <3>1. s[p].first = p
      BY <2>2 DEF Shaped, Fits, LeafFits
    <3> QED BY <2>1, <2>2, <3>1 DEF LeavesUnder, Leaves
  <2>3. CASE ~nodes[p].is_leaf
    <3>1. PICK n \in Nat :
            /\ n >= 1 /\ InnerFits(nodes[p], p, s)
            /\ \A i \in 1 .. n + 1 : /\ nodes[p].children[i] \in DOMAIN nodes
                                     /\ nodes[p].children[i] \in Kids(nodes[p])
                                     /\ depth[nodes[p].children[i]] < depth[p]
      BY <2>3, KidsOf
    <3>2. PICK c : c = nodes[p].children[1]
      OBVIOUS
    <3>3. c \in DOMAIN nodes /\ c \in Kids(nodes[p]) /\ depth[c] < depth[p]
      BY <3>1, <3>2
    <3>4. s[c].first \in LeavesUnder(c)
      BY <1>1, <3>3
    <3>5. s[p].first = s[c].first
      BY <3>1, <3>2 DEF InnerFits
    <3> QED BY <2>1, <3>3, <3>4, <3>5 DEF LeavesUnder
  <2> QED BY <2>2, <2>3
<1>2. T = DOMAIN nodes
  <2>1. T \in SUBSET DOMAIN nodes
    OBVIOUS
  <2> HIDE DEF T
  <2> QED BY <1>1, <2>1, ByDepth
<1> QED BY <1>2

LEMMA LastBelow ==
  ASSUME NEW depth, NEW rank, Good(nodes, depth, rank), NEW s, NEW tops, Shaped(nodes, s, tops)
  PROVE  \A p \in DOMAIN nodes : \E q \in LeavesUnder(p) : Link(q) = s[p].after
<1> DEFINE T == {p \in DOMAIN nodes : \E q \in LeavesUnder(p) : Link(q) = s[p].after}
<1>1. ASSUME NEW p \in DOMAIN nodes,
             \A c \in DOMAIN nodes : depth[c] < depth[p] => c \in T
      PROVE  p \in T
  <2>1. \A x : x \in Below(p) <=> x = p \/ \E c \in Kids(nodes[p]) : x \in Below(c)
    BY BelowIs
  <2>2. CASE nodes[p].is_leaf
    <3>1. s[p].after = Link(p)
      BY <2>2 DEF Shaped, Fits, LeafFits, Link
    <3> QED BY <2>1, <2>2, <3>1 DEF LeavesUnder, Leaves
  <2>3. CASE ~nodes[p].is_leaf
    <3>1. PICK n \in Nat :
            /\ n = Len(nodes[p].keys) /\ n >= 1 /\ InnerFits(nodes[p], p, s)
            /\ \A i \in 1 .. n + 1 : /\ nodes[p].children[i] \in DOMAIN nodes
                                     /\ nodes[p].children[i] \in Kids(nodes[p])
                                     /\ depth[nodes[p].children[i]] < depth[p]
      BY <2>3, KidsOf
    <3>2. PICK c : c = nodes[p].children[n + 1]
      OBVIOUS
    <3>3. c \in DOMAIN nodes /\ c \in Kids(nodes[p]) /\ depth[c] < depth[p]
      BY <3>1, <3>2
    <3>4. PICK q \in LeavesUnder(c) : Link(q) = s[c].after
      BY <1>1, <3>3
    <3>5. s[p].after = s[c].after
      BY <3>1, <3>2 DEF InnerFits
    <3> QED BY <2>1, <3>3, <3>4, <3>5 DEF LeavesUnder
  <2> QED BY <2>2, <2>3
<1>2. T = DOMAIN nodes
  <2>1. T \in SUBSET DOMAIN nodes
    OBVIOUS
  <2> HIDE DEF T
  <2> QED BY <1>1, <2>1, ByDepth
<1> QED BY <1>2

LEMMA NextInOrder ==
  ASSUME NEW depth, NEW rank, Good(nodes, depth, rank), NEW s, NEW tops, Shaped(nodes, s, tops)
  PROVE  \A p \in DOMAIN nodes : \A q \in LeavesUnder(p) : Follows(s, p, q)
<1> DEFINE T == {p \in DOMAIN nodes : \A q \in LeavesUnder(p) : Follows(s, p, q)}
<1>1. ASSUME NEW p \in DOMAIN nodes,
             \A c \in DOMAIN nodes : depth[c] < depth[p] => c \in T
      PROVE  p \in T
  <2>1. \A x : x \in Below(p) <=> x = p \/ \E c \in Kids(nodes[p]) : x \in Below(c)
    BY BelowIs
  <2>2. CASE nodes[p].is_leaf
    <3>1. s[p].after = Link(p) /\ Kids(nodes[p]) = {}
      BY <2>2 DEF Shaped, Fits, LeafFits, Link, Kids
    <3> QED BY <2>1, <3>1 DEF LeavesUnder, Follows
  <2>3. CASE ~nodes[p].is_leaf
    <3>1. PICK n \in Nat :
            /\ n = Len(nodes[p].keys) /\ n >= 1 /\ InnerFits(nodes[p], p, s)
            /\ nodes[p].keys \in Seq(Key)
            /\ Kids(nodes[p]) = {nodes[p].children[i] : i \in 1 .. n + 1}
            /\ \A i \in 1 .. n + 1 : /\ nodes[p].children[i] \in DOMAIN nodes
                                     /\ nodes[p].children[i] \in Kids(nodes[p])
                                     /\ depth[nodes[p].children[i]] < depth[p]
      BY <2>3, KidsOf
    <3>2. ASSUME NEW q \in LeavesUnder(p) PROVE Follows(s, p, q)
      <4>1. q # p
        BY <2>3 DEF LeavesUnder, Leaves
      <4>2. PICK c \in Kids(nodes[p]) : q \in Below(c)
        BY <2>1, <4>1 DEF LeavesUnder
      <4>3. PICK i \in 1 .. n + 1 : c = nodes[p].children[i]
        BY <3>1, <4>2
      <4>4. c \in DOMAIN nodes /\ depth[c] < depth[p] /\ q \in LeavesUnder(c)
        BY <3>1, <4>2, <4>3 DEF LeavesUnder
      <4>5. Follows(s, c, q)
        BY <1>1, <4>4
      <4>6. CASE Link(q) \in LeavesUnder(c) /\ InOrder(s, q, Link(q))
        BY <2>1, <4>2, <4>6 DEF LeavesUnder, Follows
      <4>7. CASE Link(q) = s[c].after /\ i = n + 1
        BY <3>1, <4>3, <4>7 DEF InnerFits, Follows
      <4>8. CASE Link(q) = s[c].after /\ i # n + 1
        <5>1. i \in 1 .. n /\ i + 1 \in 1 .. n + 1
          BY <4>8
        <5>2. PICK d : d = nodes[p].children[i + 1]
          OBVIOUS
        <5>3. d \in DOMAIN nodes /\ d \in Kids(nodes[p])
          BY <3>1, <5>1, <5>2
        <5>4. Link(q) = s[d].first
          BY <3>1, <4>3, <4>8, <5>1, <5>2 DEF InnerFits
        <5>5. Link(q) \in LeavesUnder(d)
          BY <5>3, <5>4, FirstBelow
        <5>6. Link(q) \in LeavesUnder(p)
          BY <2>1, <5>3, <5>5 DEF LeavesUnder
        <5>7. s[q].range \subseteq s[c].range /\ s[Link(q)].range \subseteq s[d].range
          BY <4>4, <5>3, <5>5, NarrowerBelow DEF LeavesUnder
        <5>8. nodes[p].keys[i] \in Int /\ \A x \in DOMAIN nodes : s[x].range \subseteq Int
          BY <3>1, <5>1, KeysAreInt DEF Shaped, InIntegers
        <5>9. \A k \in s[c].range : k <= nodes[p].keys[i]
          BY <3>1, <4>3, <5>1 DEF InnerFits, Part
        <5>10. \A m \in s[d].range : nodes[p].keys[i] <= m
          <6>1. s[d].range = Part(s[p].range, nodes[p].keys, i + 1)
            BY <3>1, <5>1, <5>2 DEF InnerFits
          <6>2. i + 1 > 1 /\ (i + 1) - 1 = i
            BY <5>1
          <6> QED BY <6>1, <6>2 DEF Part
        <5>11. InOrder(s, q, Link(q))
          <6> SUFFICES ASSUME NEW k \in s[q].range, NEW m \in s[Link(q)].range PROVE k <= m
            BY DEF InOrder
          <6>1. k \in s[c].range /\ m \in s[d].range
            BY <5>7
          <6>2. k \in Int /\ m \in Int /\ k <= nodes[p].keys[i] /\ nodes[p].keys[i] <= m
            BY <4>4, <5>3, <5>8, <5>9, <5>10, <6>1
          <6> QED BY <5>8, <6>2
        <5> QED BY <5>6, <5>11 DEF Follows
      <4> QED BY <4>5, <4>6, <4>7, <4>8 DEF Follows
    <3> QED BY <3>2
  <2> QED BY <2>2, <2>3
<1>2. T = DOMAIN nodes
  <2>1. T \in SUBSET DOMAIN nodes
    OBVIOUS
  <2> HIDE DEF T
  <2> QED BY <1>1, <2>1, ByDepth
<1> QED BY <1>2

(* Some key is routed to every page.                                       *)
LEMMA RangesFilled ==
  ASSUME NEW depth, NEW rank, NEW s, InTree(depth, rank, s)
  PROVE  \A q \in DOMAIN nodes : s[q].range # {}
<1>1. Good(nodes, depth, rank) /\ Shaped(nodes, s, {root}) /\ s[root].range = Int
  BY DEF InTree, Placed
<1>2. ASSUME NEW q \in DOMAIN nodes, q # root PROVE s[q].range # {}
  <2>1. PICK p \in DOMAIN nodes : q \in Kids(nodes[p])
    BY <1>1, <1>2 DEF Shaped, Once
  <2>2. ~nodes[p].is_leaf
    BY <2>1 DEF Kids
  <2>3. PICK n \in Nat :
          /\ n = Len(nodes[p].keys) /\ n >= 1 /\ InnerFits(nodes[p], p, s)
          /\ nodes[p].keys \in Seq(Key)
          /\ Kids(nodes[p]) = {nodes[p].children[i] : i \in 1 .. n + 1}
    BY <1>1, <2>2, KidsOf
  <2>4. PICK i \in 1 .. n + 1 : q = nodes[p].children[i]
    BY <2>1, <2>3
  <2>5. s[q].range = Part(s[p].range, nodes[p].keys, i)
    BY <2>3, <2>4 DEF InnerFits
  <2>6. /\ \A j \in 1 .. n : nodes[p].keys[j] \in s[p].range /\ nodes[p].keys[j] \in Int
        /\ \A j, k \in 1 .. n : j < k => nodes[p].keys[j] <= nodes[p].keys[k]
    BY <2>3, KeysAreInt DEF InnerFits, Sorted, Within
  <2>7. CASE i <= n
    <3>1. i \in 1 .. n /\ (i > 1 => i - 1 \in 1 .. n /\ i - 1 < i)
      BY <2>7
    <3>2. nodes[p].keys[i] \in Part(s[p].range, nodes[p].keys, i)
      BY <2>6, <3>1 DEF Part
    <3> QED BY <2>5, <3>2
  <2>8. CASE i = n + 1
    <3>1. n \in 1 .. n /\ i - 1 = n /\ ~(i <= n)
      BY <2>3, <2>8
    <3>2. nodes[p].keys[n] <= nodes[p].keys[n]
      BY <2>6, <3>1
    <3>3. nodes[p].keys[n] \in Part(s[p].range, nodes[p].keys, i)
      BY <2>3, <2>6, <3>1, <3>2 DEF Part
    <3> QED BY <2>5, <3>3
  <2> QED BY <2>7, <2>8
<1> QED BY <1>1, <1>2

LEMMA LeavesCovered ==
  ASSUME NEW depth, NEW rank, Good(nodes, depth, rank), NEW s, NEW tops, Shaped(nodes, s, tops),
         NEW R, \A q \in R \cap Leaves : Link(q) \in R \cup {0}
  PROVE  \A p \in DOMAIN nodes :
           s[p].first \in R => LeavesUnder(p) \subseteq R /\ s[p].after \in R \cup {0}
<1> DEFINE Right(p) == s[p].first \in R => LeavesUnder(p) \subseteq R /\ s[p].after \in R \cup {0}
           T == {p \in DOMAIN nodes : Right(p)}
<1>1. ASSUME NEW p \in DOMAIN nodes,
             \A c \in DOMAIN nodes : depth[c] < depth[p] => c \in T
      PROVE  p \in T
  <2>1. \A x : x \in Below(p) <=> x = p \/ \E c \in Kids(nodes[p]) : x \in Below(c)
    BY BelowIs
  <2>2. CASE nodes[p].is_leaf
    <3>1. s[p].first = p /\ s[p].after = Link(p) /\ Kids(nodes[p]) = {} /\ p \in Leaves
      BY <2>2 DEF Shaped, Fits, LeafFits, Link, Kids, Leaves
    <3>2. LeavesUnder(p) \subseteq {p}
      BY <2>1, <3>1 DEF LeavesUnder
    <3> QED BY <3>1, <3>2
  <2>3. CASE ~nodes[p].is_leaf
    <3>1. PICK n \in Nat :
            /\ n = Len(nodes[p].keys) /\ n >= 1 /\ InnerFits(nodes[p], p, s)
            /\ Kids(nodes[p]) = {nodes[p].children[i] : i \in 1 .. n + 1}
            /\ \A i \in 1 .. n + 1 : /\ nodes[p].children[i] \in DOMAIN nodes
                                     /\ depth[nodes[p].children[i]] < depth[p]
      BY <2>3, KidsOf
    <3>2. \A i \in 1 .. n + 1 : Right(nodes[p].children[i])
      <4> HIDE DEF Right
      <4> QED BY <1>1, <3>1
    <3>3. ASSUME s[p].first \in R PROVE LeavesUnder(p) \subseteq R /\ s[p].after \in R \cup {0}
      <4> DEFINE U == {m \in Nat : m + 1 \in 1 .. n + 1 => s[nodes[p].children[m + 1]].first \in R}
      <4>1. 0 \in U
        BY <3>1, <3>3 DEF InnerFits
      <4>2. ASSUME NEW m \in Nat, m \in U PROVE m + 1 \in U
        <5>1. PICK i \in Nat : i = m + 1
          OBVIOUS
        <5>2. ASSUME i + 1 \in 1 .. n + 1 PROVE s[nodes[p].children[i + 1]].first \in R
          <6>1. i \in 1 .. n /\ i \in 1 .. n + 1
            BY <5>1, <5>2
          <6>2. s[nodes[p].children[i]].first \in R
            BY <4>2, <5>1, <6>1
          <6>3. s[nodes[p].children[i]].after \in R \cup {0}
            BY <3>2, <6>1, <6>2
          <6>4. s[nodes[p].children[i]].after = s[nodes[p].children[i + 1]].first
            BY <3>1, <6>1 DEF InnerFits
          <6>5. nodes[p].children[i + 1] \in DOMAIN nodes
            BY <3>1, <5>2
          <6>6. s[nodes[p].children[i + 1]].first \in Leaves
            BY <6>5, FirstBelow DEF LeavesUnder
          <6>7. 0 \notin Leaves
            BY DEF Good, PagesOK, Numbered, Leaves
          <6> QED BY <6>3, <6>4, <6>6, <6>7
        <5> QED BY <5>1, <5>2
      <4>3. Nat \subseteq U
        <5> HIDE DEF U
        <5> QED BY <4>1, <4>2, AllNumbers
      <4>4. ASSUME NEW i \in 1 .. n + 1 PROVE s[nodes[p].children[i]].first \in R
        <5>1. i - 1 \in U /\ (i - 1) + 1 = i
          BY <4>3
        <5> QED BY <5>1
      <4> HIDE DEF U
      <4>5. \A i \in 1 .. n + 1 : LeavesUnder(nodes[p].children[i]) \subseteq R
        BY <3>2, <4>4
      <4>6. LeavesUnder(p) \subseteq R
        <5>1. p \notin LeavesUnder(p)
          BY <2>3 DEF LeavesUnder, Leaves
        <5> QED BY <2>1, <3>1, <4>5, <5>1 DEF LeavesUnder
      <4>7. n + 1 \in 1 .. n + 1 /\ s[p].after = s[nodes[p].children[n + 1]].after
        BY <3>1 DEF InnerFits
      <4> QED BY <3>2, <4>4, <4>6, <4>7
    <3> QED BY <3>3
  <2> QED BY <2>2, <2>3
<1>2. T = DOMAIN nodes
  <2>1. T \in SUBSET DOMAIN nodes
    OBVIOUS
  <2> HIDE DEF T
  <2> QED BY <1>1, <2>1, ByDepth
<1> QED BY <1>2

(* Along a chain there are only leaves, of lower and lower rank.           *)
LEMMA ChainLeaves ==
  ASSUME NEW depth, NEW rank, Good(nodes, depth, rank), NEW L, NEW a \in Leaves, NEW b,
         Chain(L, a, b)
  PROVE  /\ \A i \in 1 .. Len(L) : L[i] \in Leaves
         /\ \A i, j \in 1 .. Len(L) : i < j => rank[L[j]] < rank[L[i]]
<1>1. PICK n \in Nat : n = Len(L) /\ n >= 1 /\ DOMAIN L = 1 .. n
  BY DEF Chain
<1>2. /\ \A i \in 1 .. n : L[i] \in DOMAIN nodes
      /\ \A i \in 1 .. n : i # n => Link(L[i]) = L[i + 1]
      /\ L[1] = a
  BY <1>1 DEF Chain, Link
<1>3. 0 \notin DOMAIN nodes
  BY DEF Good, PagesOK, Numbered
<1> DEFINE T == {i \in Nat : i \in 1 .. n => L[i] \in Leaves}
<1>4. \A i \in Nat : 1 <= i /\ i <= n => i \in T
  <2>1. 1 \in T
    BY <1>2
  <2>2. ASSUME NEW i \in Nat, 1 <= i, i < n, i \in T PROVE i + 1 \in T
    <3>1. i \in 1 .. n /\ i + 1 \in 1 .. n /\ i # n
      BY <2>2
    <3>2. L[i] \in Leaves /\ Link(L[i]) = L[i + 1] /\ L[i + 1] # 0
      BY <1>2, <1>3, <2>2, <3>1
    <3>3. L[i + 1] \in Leaves
      BY <3>2, LeafType
    <3> QED BY <3>3
  <2> HIDE DEF T
  <2> QED BY <2>1, <2>2, Upwards
<1>5. ASSUME NEW i \in 1 .. n PROVE L[i] \in Leaves
  BY <1>4
<1>6. ASSUME NEW i \in 1 .. n, i # n PROVE rank[L[i + 1]] < rank[L[i]]
  <2>1. i + 1 \in 1 .. n
    BY <1>6
  <2>2. Link(L[i]) = L[i + 1] /\ L[i + 1] # 0 /\ L[i] \in Leaves
    BY <1>2, <1>3, <1>5, <1>6, <2>1
  <2> QED BY <2>2, LeafType
<1>7. \A q \in DOMAIN nodes : rank[q] \in Int
  BY DEF Good, RankOK
<1>8. ASSUME NEW i \in 1 .. n, NEW j \in 1 .. n, i < j PROVE rank[L[j]] < rank[L[i]]
  <2> DEFINE U == {k \in Nat : k \in 1 .. n => rank[L[k]] < rank[L[i]]}
  <2>1. PICK m \in Nat : m = i + 1
    OBVIOUS
  <2>2. m \in U
    BY <1>6, <1>8, <2>1
  <2>3. ASSUME NEW k \in Nat, m <= k, k < j, k \in U PROVE k + 1 \in U
    <3>1. k \in 1 .. n /\ k # n /\ k + 1 \in 1 .. n
      BY <2>1, <2>3
    <3>2. rank[L[k]] < rank[L[i]] /\ rank[L[k + 1]] < rank[L[k]]
      BY <1>6, <2>3, <3>1
    <3>3. rank[L[k]] \in Int /\ rank[L[i]] \in Int /\ rank[L[k + 1]] \in Int
      BY <1>2, <1>7, <3>1
    <3>4. rank[L[k + 1]] < rank[L[i]]
      BY <3>2, <3>3
    <3> QED BY <3>4
  <2>4. \A k \in Nat : m <= k /\ k <= j => k \in U
    <3>1. j \in Nat
      OBVIOUS
    <3> HIDE DEF U
    <3> QED BY <2>2, <2>3, <3>1, Upwards
  <2>5. j \in U
    BY <1>8, <2>1, <2>4
  <2> QED BY <2>5
<1> QED BY <1>1, <1>5, <1>8

LEMMA TheLeaves ==
  ASSUME NEW depth, NEW rank, NEW s, InTree(depth, rank, s)
  PROVE  \E L : AllLeaves(s, L)
<1>1. /\ Good(nodes, depth, rank) /\ root \in DOMAIN nodes
      /\ Shaped(nodes, s, {root}) /\ s[root].after = 0 /\ Once(nodes, {root})
  BY DEF InTree, Placed, Shaped
<1>2. PICK L : L = LeavesBelow(root)
  OBVIOUS
<1>3. Chain(L, s[root].first, 0)
  BY <1>1, <1>2, LeavesAreChain
<1>4. s[root].first \in LeavesUnder(root)
  BY <1>1, FirstBelow
<1>5. s[root].first \in Leaves
  BY <1>4 DEF LeavesUnder
<1>6. PICK n \in Nat : n = Len(L) /\ n >= 1 /\ DOMAIN L = 1 .. n /\ L[1] = s[root].first
  BY <1>3 DEF Chain
<1>7. /\ \A i \in 1 .. n : L[i] \in Leaves
      /\ \A i, j \in 1 .. n : i < j => rank[L[j]] < rank[L[i]]
  BY <1>1, <1>3, <1>5, <1>6, ChainLeaves
<1>8. NoRepeats(L)
  <2>1. \A q \in DOMAIN nodes : rank[q] \in Int
    BY <1>1 DEF Good, RankOK
  <2>2. \A i \in 1 .. n : rank[L[i]] \in Int
    BY <1>7, <2>1 DEF Leaves
  <2>3. ASSUME NEW i \in 1 .. n, NEW j \in 1 .. n, L[i] = L[j] PROVE i = j
    <3>1. ~(i < j) /\ ~(j < i)
      BY <1>7, <2>2, <2>3
    <3> QED BY <3>1
  <2> QED BY <1>6, <2>3 DEF NoRepeats
<1>9. ToSet(L) = Leaves
  <2>1. PICK R : R = ToSet(L)
    OBVIOUS
  <2>2. R \subseteq Leaves
    BY <1>6, <1>7, <2>1 DEF ToSet
  <2>3. ASSUME NEW q \in R PROVE Link(q) \in R \cup {0}
    <3>1. PICK i \in 1 .. n : q = L[i]
      BY <1>6, <2>1, <2>3 DEF ToSet
    <3>2. CASE i = n
      BY <1>3, <1>6, <3>1, <3>2 DEF Chain, Link
    <3>3. CASE i # n
      <4>1. Link(q) = L[i + 1] /\ i + 1 \in 1 .. n
        BY <1>3, <1>6, <3>1, <3>3 DEF Chain, Link
      <4> QED BY <1>6, <2>1, <4>1 DEF ToSet
    <3> QED BY <3>2, <3>3
  <2>4. s[root].first \in R
    <3>1. 1 \in 1 .. n
      BY <1>6
    <3> QED BY <1>6, <2>1, <3>1 DEF ToSet
  <2>5. LeavesUnder(root) \subseteq R
    <3>1. \A q \in R \cap Leaves : Link(q) \in R \cup {0}
      BY <2>3
    <3> QED BY <1>1, <2>4, <3>1, LeavesCovered
  <2>6. LeavesUnder(root) = Leaves
    BY <1>1, AllBelowRoot DEF LeavesUnder, Leaves
  <2> QED BY <2>1, <2>2, <2>5, <2>6
<1> QED BY <1>3, <1>8, <1>9 DEF AllLeaves

LEMMA PlaceInChain ==
  ASSUME NEW depth, NEW rank, NEW s, InTree(depth, rank, s), NEW L, AllLeaves(s, L)
  PROVE  \E n \in Nat : InChain(s, L, n)
<1>1. /\ Good(nodes, depth, rank) /\ root \in DOMAIN nodes
      /\ Shaped(nodes, s, {root}) /\ s[root].after = 0 /\ Once(nodes, {root})
  BY DEF InTree, Placed, Shaped
<1>2. PICK n \in Nat : n = Len(L) /\ n >= 1 /\ DOMAIN L = 1 .. n /\ L[1] = s[root].first
  BY DEF Chain, AllLeaves
<1>3. \A i \in 1 .. n : Link(L[i]) = IF i = n THEN 0 ELSE L[i + 1]
  BY <1>2 DEF Chain, AllLeaves, Link
<1>4. /\ \A i \in 1 .. n : L[i] \in Leaves
      /\ \A q \in Leaves : \E i \in 1 .. n : q = L[i]
  BY <1>2 DEF AllLeaves, ToSet
<1>5. \A i \in 1 .. n : L[i] \in DOMAIN nodes
  BY <1>4 DEF Leaves
<1>6. \A i, j \in 1 .. n : L[i] = L[j] => i = j
  BY <1>2 DEF AllLeaves, NoRepeats
<1>7. ASSUME NEW i \in 1 .. n, i # n PROVE InOrder(s, L[i], L[i + 1])
  <2>1. LeavesUnder(root) = Leaves
    BY <1>1, AllBelowRoot DEF LeavesUnder, Leaves
  <2>2. Follows(s, root, L[i])
    BY <1>1, <1>4, <2>1, NextInOrder
  <2>3. Link(L[i]) = L[i + 1] /\ i + 1 \in 1 .. n
    BY <1>3, <1>7
  <2>4. L[i + 1] # 0
    BY <1>1, <1>5, <2>3 DEF Good, PagesOK, Numbered
  <2> QED BY <1>1, <2>2, <2>3, <2>4 DEF Follows
<1>8. L \in Seq(Leaves)
  <2>1. L \in Seq(DOMAIN nodes)
    BY DEF AllLeaves, Chain
  <2>2. L = [i \in 1 .. n |-> L[i]]
    BY <1>2, <2>1
  <2> QED BY <1>2, <1>4, <2>2
<1> QED BY <1>2, <1>3, <1>4, <1>5, <1>6, <1>7, <1>8 DEF InChain

-----------------------------------------------------------------------------
(* The entries of the tree, page by page.                                  *)

LEMMA SeqsHeld ==
  ASSUME NEW file, PagesOK(file)
  PROVE  /\ IsFiniteSet(DOMAIN file) /\ DOMAIN Held(file) = DOMAIN file
         /\ SeqsOn(Held(file), DOMAIN file, Entry)
         /\ \A p \in DOMAIN file : Held(file)[p] = HeldBy(file[p])
<1>1. IsFiniteSet(DOMAIN file)
  <2>1. PICK last \in Nat : DOMAIN file = 2 .. last
    BY DEF PagesOK, Numbered
  <2> QED BY <2>1, FS_Interval
<1>2. \A p \in DOMAIN file : Held(file)[p] = HeldBy(file[p])
  BY DEF Held
<1>3. \A p \in DOMAIN file : HeldBy(file[p]) \in Seq(Entry)
  BY HeldIs DEF PagesOK
<1> QED BY <1>1, <1>2, <1>3 DEF SeqsOn, Held

LEMMA EntriesAre ==
  ASSUME NEW depth, NEW rank, Good(nodes, depth, rank), root \in DOMAIN nodes,
         Once(nodes, {root})
  PROVE  EntriesKnown
<1> DEFINE held == Held(nodes)
<1>1. Below(root) \cap Leaves = Leaves
  BY AllBelowRoot DEF Leaves
<1>2. /\ IsFiniteSet(DOMAIN nodes) /\ SeqsOn(held, DOMAIN nodes, Entry)
      /\ \A p \in DOMAIN nodes : held[p] = HeldBy(nodes[p])
  BY SeqsHeld DEF Good
<1>3. ASSUME NEW p \in DOMAIN nodes
      PROVE  /\ p \in Leaves => DOMAIN held[p] = DOMAIN nodes[p].keys
             /\ p \in Leaves => \A i \in DOMAIN nodes[p].keys :
                                  held[p][i] = <<nodes[p].keys[i], nodes[p].values[i]>>
             /\ p \notin Leaves => held[p] = << >>
  <2>1. held[p] = HeldBy(nodes[p])
    BY <1>2
  <2> HIDE DEF held
  <2> QED BY <2>1 DEF HeldBy, EntriesOf, Leaves
<1> HIDE DEF held
<1>4. Places = PlacesOf(held, DOMAIN nodes)
  <2>1. Places = UNION {{p} \X DOMAIN nodes[p].keys : p \in Leaves}
    BY <1>1 DEF Places
  <2>2. Leaves \subseteq DOMAIN nodes
    BY DEF Leaves
  <2>3. \A p \in DOMAIN nodes \ Leaves : DOMAIN held[p] = {}
    BY <1>3
  <2>4. ASSUME NEW at PROVE at \in Places <=> at \in PlacesOf(held, DOMAIN nodes)
    <3>1. at \in Places <=> \E p \in Leaves : at \in {p} \X DOMAIN nodes[p].keys
      BY <2>1
    <3>2. at \in PlacesOf(held, DOMAIN nodes) <=>
            \E p \in DOMAIN nodes : at \in {p} \X DOMAIN held[p]
      BY DEF PlacesOf
    <3> QED BY <1>3, <2>2, <2>3, <3>1, <3>2
  <2> QED BY <2>4
<1>5. \A at \in Places : EntryAt(at) = held[at[1]][at[2]]
  <2>1. \A at \in Places : /\ at[1] \in Leaves /\ at[1] \in DOMAIN nodes
                           /\ at[2] \in DOMAIN nodes[at[1]].keys
    BY <1>1 DEF Places, Leaves
  <2> QED BY <1>3, <2>1 DEF EntryAt
<1>6. {EntryAt(at) : at \in Places} = {held[at[1]][at[2]] : at \in PlacesOf(held, DOMAIN nodes)}
  BY <1>4, <1>5
<1>7. ASSUME NEW e
      PROVE  Cardinality({at \in Places : EntryAt(at) = e}) = Total(held, DOMAIN nodes, e)
  <2>1. {at \in Places : EntryAt(at) = e} = Spots(held, DOMAIN nodes, e)
    BY <1>4, <1>5 DEF Spots
  <2> QED BY <2>1 DEF Total
<1>8. Entries = BagOn(held, DOMAIN nodes)
  BY <1>6, <1>7 DEF Entries, BagOn
<1> QED BY <1>2, <1>8 DEF EntriesKnown, held

(* The leaves hold all entries.                                            *)
LEMMA TotalOnLeaves ==
  ASSUME PagesOK(nodes), NEW x
  PROVE  Total(Held(nodes), DOMAIN nodes, x) = Total(Held(nodes), Leaves, x)
<1>1. SeqsOn(Held(nodes), DOMAIN nodes, Entry) /\ Leaves \in SUBSET DOMAIN nodes
  BY SeqsHeld DEF Leaves
<1>2. ASSUME NEW p \in DOMAIN nodes \ Leaves PROVE Times(Held(nodes)[p], x) = 0
  <2>1. Held(nodes)[p] = << >>
    BY SeqsHeld DEF HeldBy, Leaves
  <2> QED BY <2>1, TimesEmpty
<1> QED BY <1>1, <1>2, TotalOfMore

-----------------------------------------------------------------------------
(* What is gathered along the chain: head[p] of a leaf p and, if p is in W, *)
(* what is gathered from the leaf behind.                                  *)

LEMMA GatherExists ==
  ASSUME NEW depth, NEW rank, Good(nodes, depth, rank), NEW head, NEW W,
         \A p \in W : Link(p) # 0
  PROVE  \E f : f = [p \in Leaves |-> GatherStep(f, head, W, p)]
<1> DEFINE To(n) == {p \in Leaves : rank[p] < n}
           T == {n \in Nat : \E f : f = [p \in To(n) |-> GatherStep(f, head, W, p)]}
<1>1. PICK bound \in Nat : rank \in [DOMAIN nodes -> 0 .. bound]
  BY DEF Good, RankOK
<1>2. \A p \in Leaves : p \in DOMAIN nodes /\ rank[p] \in 0 .. bound
  BY <1>1 DEF Leaves
<1>3. 0 \in T
  <2> DEFINE f == [p \in {} |-> 0]
  <2>1. To(0) = {}
    BY <1>1, <1>2
  <2>2. f = [p \in To(0) |-> GatherStep(f, head, W, p)]
    BY <2>1
  <2> HIDE DEF f, To
  <2> QED BY <2>2
<1>4. ASSUME NEW n \in Nat, n \in T PROVE n + 1 \in T
  <2>1. PICK f : f = [p \in To(n) |-> GatherStep(f, head, W, p)]
    BY <1>4
  <2> DEFINE g == [p \in To(n + 1) |-> GatherStep(f, head, W, p)]
  <2>2. ASSUME NEW p \in To(n + 1)
        PROVE  GatherStep(f, head, W, p) = GatherStep(g, head, W, p)
    <3>1. p \in W => Link(p) \in Leaves /\ rank[Link(p)] < rank[p]
      BY LeafType
    <3>2. p \in W => Link(p) \in To(n) /\ Link(p) \in To(n + 1)
      BY <1>2, <3>1
    <3>3. \A q \in To(n) : q \in To(n + 1) => f[q] = g[q]
      BY <2>1
    <3> HIDE DEF g, To
    <3> QED BY <3>2, <3>3 DEF GatherStep
  <2>3. g = [p \in To(n + 1) |-> GatherStep(g, head, W, p)]
    <3>1. g = [p \in To(n + 1) |-> GatherStep(f, head, W, p)]
      OBVIOUS
    <3> HIDE DEF g, To
    <3> QED BY <2>2, <3>1
  <2>4. n + 1 \in Nat
    OBVIOUS
  <2> HIDE DEF g, To
  <2> QED BY <2>3, <2>4
<1>5. Nat \subseteq T
  <2> HIDE DEF T
  <2> QED BY <1>3, <1>4, AllNumbers
<1>6. To(bound + 1) = Leaves
  BY <1>1, <1>2
<1>7. bound + 1 \in T
  <2>1. bound + 1 \in Nat
    BY <1>1
  <2> HIDE DEF T
  <2> QED BY <1>5, <2>1
<1> QED BY <1>6, <1>7

LEMMA StreamsAre ==
  ASSUME NEW depth, NEW rank, Good(nodes, depth, rank)
  PROVE  \A p \in Leaves :
           Streams[p] = Held(nodes)[p] \o IF Link(p) # 0 THEN Streams[Link(p)] ELSE << >>
<1>1. PICK head : head = [p \in Leaves |-> EntriesOf(nodes[p])]
  OBVIOUS
<1>2. PICK W : W = {p \in Leaves : Link(p) # 0}
  OBVIOUS
<1>3. PICK f : f = [p \in Leaves |-> GatherStep(f, head, W, p)]
  BY <1>2, GatherExists
<1>4. \A p \in Leaves : GatherStep(f, head, W, p) = StreamStep(f, p)
  BY <1>1, <1>2 DEF GatherStep, StreamStep, Link
<1>5. f = [p \in Leaves |-> StreamStep(f, p)]
  BY <1>3, <1>4
<1>6. Streams = [p \in Leaves |-> StreamStep(Streams, p)]
  BY <1>5 DEF Streams
<1>7. ASSUME NEW p \in Leaves PROVE Held(nodes)[p] = EntriesOf(nodes[p])
  BY DEF Held, HeldBy, Leaves
<1> QED BY <1>6, <1>7 DEF StreamStep, Link

LEMMA StreamFromIs ==
  ASSUME NEW leaf, NEW i
  PROVE  StreamFrom(leaf, i) = SubSeq(Streams[leaf], i, Len(Streams[leaf]))
BY DEF StreamFrom, Streams, StreamStep

LEMMA StreamTimes ==
  ASSUME NEW depth, NEW rank, NEW s, InTree(depth, rank, s), NEW L, AllLeaves(s, L)
  PROVE  \A i \in 1 .. Len(L) :
           /\ Streams[L[i]] \in Seq(Entry)
           /\ \A x : Times(Streams[L[i]], x) = Total(Held(nodes), From(L, i), x)
<1>1. Good(nodes, depth, rank) /\ PagesOK(nodes)
  BY DEF InTree, Good
<1>n. PICK n \in Nat : InChain(s, L, n)
  BY PlaceInChain
<1>2. /\ n \in Nat /\ n >= 1 /\ n = Len(L)
      /\ \A i \in 1 .. n : L[i] \in Leaves /\ L[i] \in DOMAIN nodes
      /\ \A i \in 1 .. n : Link(L[i]) = IF i = n THEN 0 ELSE L[i + 1]
      /\ \A i, j \in 1 .. n : L[i] = L[j] => i = j
  BY <1>n DEF InChain
<1>3. PICK held : held = Held(nodes)
  OBVIOUS
<1>4. IsFiniteSet(DOMAIN nodes) /\ SeqsOn(held, DOMAIN nodes, Entry)
  BY <1>1, <1>3, SeqsHeld
<1> DEFINE Right(i) == /\ Streams[L[i]] \in Seq(Entry)
                       /\ \A x : Times(Streams[L[i]], x) = Total(held, From(L, i), x)
           T == {i \in Nat : i \in 1 .. n => Right(i)}
<1>5. n \in T
  <2>1. n \in 1 .. n /\ Link(L[n]) = 0
    BY <1>2
  <2>2. PICK p, h : p = L[n] /\ h = held[p]
    OBVIOUS
  <2>3. p \in Leaves /\ p \in DOMAIN nodes /\ h \in Seq(Entry)
    BY <1>2, <1>4, <2>1, <2>2 DEF SeqsOn
  <2>4. Streams[p] = h \o << >>
    BY <1>1, <1>3, <2>1, <2>2, <2>3, StreamsAre
  <2>5. Streams[p] = h
    BY <2>3, <2>4
  <2>6. From(L, n) = {p}
    <3>1. n .. n = {n}
      BY <1>2
    <3> QED BY <1>2, <2>2, <3>1 DEF From
  <2>7. Joins(held, p, h, {}, {p})
    BY <2>2 DEF Joins
  <2>8. ASSUME NEW x PROVE Total(held, {p}, x) = Times(h, x)
    BY <2>3, <2>7, TotalOnePage
  <2>9. Right(n)
    BY <2>2, <2>3, <2>5, <2>6, <2>8
  <2> HIDE DEF Right
  <2> QED BY <2>9
<1>6. ASSUME NEW i \in Nat, 1 <= i, i < n, i + 1 \in T PROVE i \in T
  <2>1. i \in 1 .. n /\ i + 1 \in 1 .. n /\ i # n
    BY <1>6
  <2>2. Right(i + 1)
    <3> HIDE DEF Right
    <3> QED BY <1>6, <2>1
  <2>3. PICK p, h, q : p = L[i] /\ h = held[p] /\ q = L[i + 1]
    OBVIOUS
  <2>4. p \in Leaves /\ p \in DOMAIN nodes /\ h \in Seq(Entry) /\ Link(p) = q /\ q \in DOMAIN nodes
    BY <1>2, <1>4, <2>1, <2>3 DEF SeqsOn
  <2>5. PICK t : t = Streams[q]
    OBVIOUS
  <2>6. q # 0
    BY <1>1, <2>4 DEF PagesOK, Numbered
  <2>7. Streams[p] = h \o t
    BY <1>1, <1>3, <2>3, <2>4, <2>5, <2>6, StreamsAre
  <2>8. t \in Seq(Entry) /\ \A x : Times(t, x) = Total(held, From(L, i + 1), x)
    BY <2>2, <2>3, <2>5
  <2>9. PICK D, E : D = From(L, i + 1) /\ E = From(L, i)
    OBVIOUS
  <2>10. D \subseteq DOMAIN nodes /\ p \notin D /\ E = D \cup {p}
    <3>1. ASSUME NEW j \in i + 1 .. n PROVE L[j] \in DOMAIN nodes /\ L[j] # p
      <4>1. j \in 1 .. n /\ j # i
        BY <2>1, <3>1
      <4> QED BY <1>2, <2>1, <2>3, <4>1
    <3>2. i .. n = (i + 1 .. n) \cup {i}
      BY <1>6
    <3> QED BY <1>2, <2>3, <2>9, <3>1, <3>2 DEF From
  <2>11. Joins(held, p, h, D, E)
    BY <2>3, <2>10 DEF Joins
  <2>12. IsFiniteSet(D) /\ SeqsOn(held, D, Entry)
    BY <1>4, <2>10, FS_Subset DEF SeqsOn
  <2>13. ASSUME NEW x PROVE Times(Streams[p], x) = Total(held, E, x)
    <3>1. Total(held, E, x) = Total(held, D, x) + Times(h, x)
      BY <2>4, <2>11, <2>12, TotalOnePageMore
    <3>2. Times(h \o t, x) = Times(h, x) + Times(t, x)
      BY <2>4, <2>8, TimesConcat
    <3>3. Times(h, x) \in Nat /\ Times(t, x) \in Nat
      BY <2>4, <2>8, TimesType
    <3>4. Times(t, x) = Total(held, D, x)
      BY <2>8, <2>9
    <3> QED BY <2>7, <3>1, <3>2, <3>3, <3>4
  <2>14. Streams[p] \in Seq(Entry)
    BY <2>4, <2>7, <2>8, ConcatType
  <2>15. Right(i)
    BY <2>3, <2>9, <2>13, <2>14
  <2> HIDE DEF Right
  <2> QED BY <2>15
<1>7. \A i \in Nat : 1 <= i /\ i <= n => i \in T
  <2> HIDE DEF T
  <2> QED BY <1>2, <1>5, <1>6, Downwards
<1>8. ASSUME NEW i \in 1 .. n PROVE Right(i)
  <2>1. i \in Nat /\ 1 <= i /\ i <= n
    OBVIOUS
  <2>2. i \in T
    BY <1>7, <2>1
  <2> HIDE DEF Right
  <2> QED BY <2>2
<1> QED BY <1>2, <1>3, <1>8

LEMMA ByKeyJoined ==
  ASSUME NEW a \in Seq(Entry), NEW b \in Seq(Entry), ByKey(a), ByKey(b),
         \A i \in DOMAIN a, j \in DOMAIN b : a[i][1] <= b[j][1]
  PROVE  ByKey(a \o b)
<1>1. PICK m, n \in Nat : /\ m = Len(a) /\ DOMAIN a = 1 .. m
                          /\ n = Len(b) /\ DOMAIN b = 1 .. n
  OBVIOUS
<1>2. PICK c : c = a \o b
  OBVIOUS
<1>3. DOMAIN c = 1 .. m + n
  <2>1. c \in Seq(Entry) /\ Len(c) = m + n
    BY <1>1, <1>2, ConcatType
  <2> QED BY <2>1
<1>4. \A i \in 1 .. m + n : c[i] = IF i <= m THEN a[i] ELSE b[i - m]
  BY <1>1, <1>2, ConcatElements
<1>5. ASSUME NEW i \in 1 .. m + n, NEW j \in 1 .. m + n, i < j PROVE c[i][1] <= c[j][1]
  <2>1. CASE j <= m
    <3>1. i \in 1 .. m /\ j \in 1 .. m /\ c[i] = a[i] /\ c[j] = a[j]
      BY <1>4, <1>5, <2>1
    <3> QED BY <1>1, <1>5, <3>1 DEF ByKey
  <2>2. CASE i <= m /\ ~(j <= m)
    <3>1. i \in 1 .. m /\ j - m \in 1 .. n /\ c[i] = a[i] /\ c[j] = b[j - m]
      BY <1>4, <2>2
    <3> QED BY <1>1, <3>1
  <2>3. CASE ~(i <= m)
    <3>1. i - m \in 1 .. n /\ j - m \in 1 .. n /\ i - m < j - m
      BY <1>5, <2>3
    <3>2. c[i] = b[i - m] /\ c[j] = b[j - m]
      BY <1>4, <1>5, <2>3
    <3> QED BY <1>1, <3>1, <3>2 DEF ByKey
  <2> QED BY <2>1, <2>2, <2>3
<1> QED BY <1>2, <1>3, <1>5 DEF ByKey

(* A leaf's entries are in key order, and routed to it.                    *)
LEMMA SortedEntries ==
  ASSUME NEW depth, NEW rank, Good(nodes, depth, rank), NEW p \in Leaves, Sorted(nodes[p].keys)
  PROVE  /\ Held(nodes)[p] \in Seq(Entry) /\ ByKey(Held(nodes)[p])
         /\ DOMAIN Held(nodes)[p] = 1 .. Len(nodes[p].keys)
         /\ \A i \in 1 .. Len(nodes[p].keys) :
              /\ Held(nodes)[p][i] = <<nodes[p].keys[i], nodes[p].values[i]>>
              /\ Held(nodes)[p][i][1] = nodes[p].keys[i]
<1>1. p \in DOMAIN nodes /\ nodes[p].is_leaf
  BY DEF Leaves
<1>2. IsNode(nodes[p], DOMAIN nodes, MaxKeys) /\ Held(nodes)[p] = HeldBy(nodes[p])
  BY <1>1, SeqsHeld DEF Good, PagesOK
<1>3. /\ HeldBy(nodes[p]) \in Seq(Entry)
      /\ DOMAIN HeldBy(nodes[p]) = 1 .. Len(nodes[p].keys)
      /\ \A i \in 1 .. Len(nodes[p].keys) :
           HeldBy(nodes[p])[i] = <<nodes[p].keys[i], nodes[p].values[i]>>
  BY <1>1, <1>2, HeldIs
<1>4. PICK h : h = HeldBy(nodes[p])
  OBVIOUS
<1>5. \A i \in 1 .. Len(nodes[p].keys) : h[i][1] = nodes[p].keys[i]
  BY <1>3, <1>4
<1>6. ByKey(h)
  BY <1>3, <1>4, <1>5 DEF ByKey, Sorted
<1> QED BY <1>2, <1>3, <1>4, <1>5, <1>6

LEMMA LeafEntries ==
  ASSUME NEW depth, NEW rank, Good(nodes, depth, rank), NEW s, NEW tops, Shaped(nodes, s, tops),
         NEW p \in Leaves
  PROVE  /\ Held(nodes)[p] \in Seq(Entry) /\ ByKey(Held(nodes)[p])
         /\ DOMAIN Held(nodes)[p] = 1 .. Len(nodes[p].keys)
         /\ \A i \in 1 .. Len(nodes[p].keys) :
              /\ Held(nodes)[p][i] = <<nodes[p].keys[i], nodes[p].values[i]>>
              /\ Held(nodes)[p][i][1] = nodes[p].keys[i]
              /\ Held(nodes)[p][i][1] \in s[p].range
<1>1. Sorted(nodes[p].keys) /\ Within(nodes[p].keys, s[p].range)
  BY DEF Shaped, Fits, LeafFits, Leaves
<1> QED BY <1>1, SortedEntries DEF Within

(* What follows a node's entries follows in key order.                     *)
LEMMA JoinedInOrder ==
  ASSUME NEW a \in Seq(Entry), ByKey(a), NEW R \in SUBSET Int, \A i \in DOMAIN a : a[i][1] \in R,
         NEW low \in SUBSET Int, low # {}, \A k \in R : \E m \in low : m <= k,
         NEW b \in Seq(Entry), ByKey(b), NEW next \in SUBSET Int,
         \A k \in R \cup low, m \in next : k <= m,
         \A i \in DOMAIN b : \E m \in next : m <= b[i][1]
  PROVE  /\ a \o b \in Seq(Entry) /\ ByKey(a \o b)
         /\ \A i \in DOMAIN (a \o b) : \E m \in low : m <= (a \o b)[i][1]
<1>1. PICK m \in Nat, n \in Nat :
        m = Len(a) /\ DOMAIN a = 1 .. m /\ n = Len(b) /\ DOMAIN b = 1 .. n
  OBVIOUS
<1>2. a \o b \in Seq(Entry) /\ Len(a \o b) = m + n /\ DOMAIN (a \o b) = 1 .. m + n
  <2>1. a \o b \in Seq(Entry) /\ Len(a \o b) = m + n
    BY <1>1, ConcatType
  <2> QED BY <1>1, <2>1
<1>3. \A j \in 1 .. n : b[j][1] \in Int
  <2>1. \A j \in 1 .. n : b[j] \in Entry
    BY <1>1
  <2> QED BY <2>1, EntryKey
<1>4. ASSUME NEW k \in R \cup low, NEW j \in 1 .. n PROVE k <= b[j][1]
  <2>1. PICK l \in next : l <= b[j][1]
    BY <1>1
  <2>2. k <= l /\ k \in Int /\ l \in Int /\ b[j][1] \in Int
    BY <1>3
  <2> QED BY <2>1, <2>2
<1>5. ByKey(a \o b)
  <2>1. \A i \in DOMAIN a, j \in DOMAIN b : a[i][1] <= b[j][1]
    BY <1>1, <1>4
  <2> QED BY <2>1, ByKeyJoined
<1>6. ASSUME NEW i \in 1 .. m + n PROVE \E l \in low : l <= (a \o b)[i][1]
  <2>1. (a \o b)[i] = IF i <= m THEN a[i] ELSE b[i - m]
    BY <1>1, ConcatElements
  <2>2. CASE i <= m
    <3>1. i \in 1 .. m
      BY <2>2
    <3>2. a[i][1] \in R
      BY <1>1, <3>1
    <3> QED BY <2>1, <2>2, <3>2
  <2>3. CASE ~(i <= m)
    <3>1. i - m \in 1 .. n
      BY <2>3
    <3>2. PICK l : l \in low
      OBVIOUS
    <3> QED BY <1>4, <2>1, <2>3, <3>1, <3>2
  <2> QED BY <2>2, <2>3
<1> QED BY <1>2, <1>5, <1>6

LEMMA OnwardsFrom ==
  ASSUME NEW depth, NEW rank, Good(nodes, depth, rank), NEW p \in Leaves, NEW t,
         Sorted(nodes[p].keys), NEW R \in SUBSET Int, Within(nodes[p].keys, R),
         t[p].range \subseteq Int, t[p].range # {}, \A k \in R : \E m \in t[p].range : m <= k,
         Link(p) # 0 =>
           /\ Onwards(t, Link(p)) /\ t[Link(p)].range \subseteq Int
           /\ \A k \in R \cup t[p].range, m \in t[Link(p)].range : k <= m
  PROVE  /\ Onwards(t, p)
         /\ \A x : Times(Streams[p], x) =
              Times(HeldBy(nodes[p]), x) + IF Link(p) # 0 THEN Times(Streams[Link(p)], x) ELSE 0
<1>1. PICK a, low, S : a = Held(nodes)[p] /\ low = t[p].range /\ S = Streams[p]
  OBVIOUS
<1>2. PICK b, next : /\ b = IF Link(p) # 0 THEN Streams[Link(p)] ELSE << >>
                     /\ next = IF Link(p) # 0 THEN t[Link(p)].range ELSE {}
  OBVIOUS
<1>3. S = a \o b
  BY <1>1, <1>2, StreamsAre
<1>4. a \in Seq(Entry) /\ ByKey(a) /\ \A i \in DOMAIN a : a[i][1] \in R
  <2>1. PICK n \in Nat : n = Len(nodes[p].keys)
    BY LeafType
  <2>2. /\ a \in Seq(Entry) /\ ByKey(a) /\ DOMAIN a = 1 .. n
        /\ \A i \in 1 .. n : a[i][1] = nodes[p].keys[i]
    BY <1>1, <2>1, SortedEntries
  <2> QED BY <2>1, <2>2 DEF Within
<1>5. low \in SUBSET Int /\ low # {} /\ \A k \in R : \E m \in low : m <= k
  BY <1>1
<1>6. b \in Seq(Entry) /\ ByKey(b) /\ next \in SUBSET Int
  BY <1>2 DEF Onwards, ByKey
<1>7. \A k \in R \cup low, m \in next : k <= m
  BY <1>1, <1>2
<1>8. \A i \in DOMAIN b : \E m \in next : m <= b[i][1]
  <2>1. CASE Link(p) = 0
    BY <1>2, <2>1
  <2>2. CASE Link(p) # 0
    BY <1>2, <2>2 DEF Onwards, NotBefore
  <2> QED BY <2>1, <2>2
<1>9. /\ a \o b \in Seq(Entry) /\ ByKey(a \o b)
      /\ \A i \in DOMAIN (a \o b) : \E m \in low : m <= (a \o b)[i][1]
  BY ONLY <1>4, <1>5, <1>6, <1>7, <1>8, R \in SUBSET Int, JoinedInOrder
<1>10. Onwards(t, p)
  BY <1>1, <1>3, <1>9 DEF Onwards, NotBefore
<1>11. ASSUME NEW x
       PROVE  Times(S, x) =
                Times(HeldBy(nodes[p]), x) + IF Link(p) # 0 THEN Times(Streams[Link(p)], x) ELSE 0
  <2>1. Times(S, x) = Times(a, x) + Times(b, x)
    BY <1>3, <1>4, <1>6, TimesConcat
  <2>2. a = HeldBy(nodes[p])
    BY <1>1 DEF Held, Leaves
  <2>3. Times(b, x) = IF Link(p) # 0 THEN Times(Streams[Link(p)], x) ELSE 0
    BY <1>2, TimesEmpty
  <2> QED BY <2>1, <2>2, <2>3
<1> QED BY <1>1, <1>10, <1>11

LEMMA StreamOrdered ==
  ASSUME NEW depth, NEW rank, NEW s, InTree(depth, rank, s), NEW L, AllLeaves(s, L)
  PROVE  \A p \in Leaves : Onwards(s, p)
<1>1. Good(nodes, depth, rank) /\ Shaped(nodes, s, {root})
  BY DEF InTree, Placed
<1>2. PICK n \in Nat : InChain(s, L, n)
  BY PlaceInChain
<1>3. \A q \in DOMAIN nodes : s[q].range \subseteq Int /\ s[q].range # {}
  BY <1>1, RangesFilled DEF Shaped, InIntegers
<1> DEFINE T == {p \in Leaves : Onwards(s, p)}
<1>4. ASSUME NEW p \in Leaves, \A q \in Leaves : rank[q] < rank[p] => q \in T
      PROVE  p \in T
  <2>1. PICK R : R = s[p].range
    OBVIOUS
  <2>2. R \in SUBSET Int /\ s[p].range \subseteq Int /\ s[p].range # {}
    BY <1>3, <2>1 DEF Leaves
  <2>3. Sorted(nodes[p].keys) /\ Within(nodes[p].keys, R)
    BY <1>1, <2>1 DEF Shaped, Fits, LeafFits, Leaves
  <2>4. \A k \in R : \E m \in s[p].range : m <= k
    <3>1. \A k \in R : k <= k
      BY <2>2
    <3> QED BY <2>1, <3>1
  <2>5. ASSUME Link(p) # 0
        PROVE  /\ Onwards(s, Link(p)) /\ s[Link(p)].range \subseteq Int
               /\ \A k \in R \cup s[p].range, m \in s[Link(p)].range : k <= m
    <3>1. Link(p) \in Leaves /\ rank[Link(p)] < rank[p]
      BY <1>1, <2>5, LeafType
    <3>2. InOrder(s, p, Link(p))
      BY <1>2, <2>5 DEF InChain
    <3> QED BY <1>3, <1>4, <2>1, <3>1, <3>2 DEF InOrder, Leaves
  <2> QED BY <1>1, <2>2, <2>3, <2>4, <2>5, OnwardsFrom
<1>5. T = Leaves
  <2>1. T \in SUBSET Leaves
    OBVIOUS
  <2> HIDE DEF T
  <2> QED BY <1>1, <1>4, <2>1, ByRank
<1> QED BY <1>5

-----------------------------------------------------------------------------
(* Where a scan starts.                                                    *)

LEMMA LeftmostBy ==
  ASSUME NEW depth, NEW rank, Good(nodes, depth, rank), root \in DOMAIN nodes,
         NEW s, \A p \in DOMAIN nodes :
                  s[p].first = IF nodes[p].is_leaf THEN p ELSE s[nodes[p].children[1]].first
  PROVE  LeftmostLeaf = s[root].first /\ LeftmostLeaf \in Leaves
<1>1. ASSUME NEW p \in DOMAIN nodes, ~nodes[p].is_leaf
      PROVE  nodes[p].children[1] \in DOMAIN nodes /\ depth[nodes[p].children[1]] < depth[p]
  <2>1. PICK m \in Nat : m = Len(nodes[p].keys)
    BY <1>1, Children
  <2>2. /\ \A i \in 1 .. m + 1 : nodes[p].children[i] \in AtDepth(depth, depth[p] - 1)
        /\ \A c \in AtDepth(depth, depth[p] - 1) : c \in DOMAIN nodes /\ depth[c] = depth[p] - 1
        /\ depth[p] \in Nat
    BY <1>1, <2>1, Children
  <2>3. 1 \in 1 .. m + 1
    BY <2>1
  <2>4. PICK c : c = nodes[p].children[1]
    OBVIOUS
  <2>5. c \in DOMAIN nodes /\ depth[c] = depth[p] - 1
    BY <2>2, <2>3, <2>4
  <2>6. depth[c] < depth[p]
    BY <2>2, <2>5
  <2> QED BY <2>4, <2>5, <2>6
<1> DEFINE g == [p \in DOMAIN nodes |-> s[p].first]
<1>2. g = [p \in DOMAIN nodes |-> LeftStep(g, p)]
  <2>1. \A p \in DOMAIN nodes : g[p] = LeftStep(g, p)
    BY <1>1 DEF LeftStep
  <2> QED BY <2>1
<1> HIDE DEF g
<1> DEFINE down == CHOOSE f : f = [p \in DOMAIN nodes |-> LeftStep(f, p)]
<1>3. down = [p \in DOMAIN nodes |-> LeftStep(down, p)]
  BY <1>2
<1>4. LeftmostLeaf = down[root]
  BY DEF LeftmostLeaf, LeftStep
<1> HIDE DEF down
<1> DEFINE T == {p \in DOMAIN nodes : down[p] = s[p].first /\ down[p] \in Leaves}
<1>5. ASSUME NEW p \in DOMAIN nodes,
             \A c \in DOMAIN nodes : depth[c] < depth[p] => c \in T
      PROVE  p \in T
  <2>1. down[p] = IF nodes[p].is_leaf THEN p ELSE down[nodes[p].children[1]]
    BY <1>3 DEF LeftStep
  <2>2. CASE nodes[p].is_leaf
    BY <2>1, <2>2 DEF Leaves
  <2>3. CASE ~nodes[p].is_leaf
    BY <1>1, <1>5, <2>1, <2>3
  <2> QED BY <2>2, <2>3
<1>6. T = DOMAIN nodes
  <2>1. T \in SUBSET DOMAIN nodes
    OBVIOUS
  <2> HIDE DEF T
  <2> QED BY <1>5, <2>1, ByDepth
<1> QED BY <1>4, <1>6

LEMMA LeftmostIs ==
  ASSUME NEW depth, NEW rank, NEW s, InTree(depth, rank, s)
  PROVE  LeftmostLeaf = s[root].first
<1>1. Good(nodes, depth, rank) /\ root \in DOMAIN nodes /\ Shaped(nodes, s, {root})
  BY DEF InTree, Placed
<1>2. \A p \in DOMAIN nodes :
        s[p].first = IF nodes[p].is_leaf THEN p ELSE s[nodes[p].children[1]].first
  BY <1>1 DEF Shaped, Fits, LeafFits, InnerFits
<1> QED BY ONLY <1>1, <1>2, LeftmostBy

LEMMA BisectLeftSplits ==
  ASSUME NEW keys \in Seq(Key), Sorted(keys), NEW key \in Key
  PROVE  \A i \in 1 .. Len(keys) : keys[i] < key <=> i <= BisectLeft(keys, key)
<1> DEFINE T == {i \in 1 .. Len(keys) : keys[i] < key}
<1>1. Len(keys) \in Nat /\ DOMAIN keys = 1 .. Len(keys)
      /\ \A i \in 1 .. Len(keys) : keys[i] \in Int
  BY KeysAreInt
<1>2. BisectLeft(keys, key) = Cardinality(T)
  BY <1>1 DEF BisectLeft
<1>3. ASSUME NEW i \in T, NEW j \in 1 .. Len(keys), j <= i PROVE j \in T
  <2>1. i = j \/ j < i
    BY <1>1, <1>3
  <2>2. keys[j] <= keys[i] \/ i = j
    BY <2>1 DEF Sorted
  <2>3. keys[i] \in Int /\ keys[j] \in Int /\ key \in Int /\ keys[i] < key
    <3>1. key \in Int
      BY TreeAssumption
    <3> QED BY <1>1, <1>3, <3>1
  <2> QED BY <2>2, <2>3
<1>4. T \in SUBSET (1 .. Len(keys))
  OBVIOUS
<1>5. \A i \in 1 .. Len(keys) : i \in T <=> keys[i] < key
  OBVIOUS
<1> HIDE DEF T
<1> QED BY <1>1, <1>2, <1>3, <1>4, <1>5, FromOne

(* Every leaf but the first is behind one other.                           *)
LEMMA LinkOnce ==
  ASSUME NEW depth, NEW rank, NEW s, InTree(depth, rank, s)
  PROVE  /\ \A q, r \in Leaves : Link(q) = Link(r) /\ Link(q) \in Leaves => q = r
         /\ \A q \in Leaves : Link(q) # s[root].first
<1>1. PICK L : AllLeaves(s, L)
  BY TheLeaves
<1>2. PICK n \in Nat : InChain(s, L, n)
  BY <1>1, PlaceInChain
<1>3. 0 \notin Leaves
  BY DEF InTree, Good, PagesOK, Numbered, Leaves
<1>4. ASSUME NEW q \in Leaves, NEW r \in Leaves, Link(q) = Link(r), Link(q) \in Leaves
      PROVE  q = r
  <2>1. PICK i \in 1 .. n, j \in 1 .. n : q = L[i] /\ r = L[j]
    BY <1>2 DEF InChain
  <2>2. i # n /\ j # n
    BY <1>2, <1>3, <1>4, <2>1 DEF InChain
  <2>3. i + 1 \in 1 .. n /\ j + 1 \in 1 .. n /\ L[i + 1] = L[j + 1]
    BY <1>2, <1>4, <2>1, <2>2 DEF InChain
  <2>4. i + 1 = j + 1
    BY <1>2, <2>3 DEF InChain
  <2> QED BY <2>1, <2>4
<1>5. ASSUME NEW q \in Leaves, Link(q) = s[root].first PROVE FALSE
  <2>1. PICK i \in 1 .. n : q = L[i]
    BY <1>2 DEF InChain
  <2>2. 1 \in 1 .. n /\ L[1] = s[root].first /\ L[1] \in Leaves
    BY <1>2 DEF InChain
  <2>3. i # n
    BY <1>2, <1>3, <1>5, <2>1, <2>2 DEF InChain
  <2>4. i + 1 \in 1 .. n /\ L[i + 1] = L[1]
    BY <1>2, <1>5, <2>1, <2>2, <2>3 DEF InChain
  <2>5. i + 1 = 1
    BY <1>2, <2>2, <2>4 DEF InChain
  <2> QED BY <2>5
<1> QED BY <1>4, <1>5

LEMMA KeyGoesLeft ==
  ASSUME NEW depth, NEW rank, NEW s, InTree(depth, rank, s),
         NEW p \in DOMAIN nodes, ~nodes[p].is_leaf,
         NEW key \in Key, key \in s[p].range, Before(s, p, key),
         NEW c, c = nodes[p].children[BisectLeft(nodes[p].keys, key) + 1]
  PROVE  /\ key \in s[c].range /\ Before(s, c, key)
         /\ c \in DOMAIN nodes /\ depth[c] < depth[p]
<1>1. Good(nodes, depth, rank) /\ Shaped(nodes, s, {root})
  BY DEF InTree, Placed
<1>2. PICK n \in Nat :
        /\ n = Len(nodes[p].keys) /\ n >= 1 /\ nodes[p].keys \in Seq(Key)
        /\ \A i \in 1 .. n + 1 : /\ nodes[p].children[i] \in DOMAIN nodes
                                 /\ depth[nodes[p].children[i]] < depth[p]
        /\ InnerFits(nodes[p], p, s)
  BY <1>1, KidsOf
<1>3. PICK b : b = BisectLeft(nodes[p].keys, key)
  OBVIOUS
<1>4. b \in 0 .. n /\ b \in Nat /\ b + 1 \in 1 .. n + 1
  <2>1. DOMAIN nodes[p].keys = 1 .. n
    BY <1>2
  <2>2. b \in 0 .. n
    BY <1>3, <2>1, BisectType
  <2> QED BY <2>2
<1>5. c = nodes[p].children[b + 1] /\ c \in DOMAIN nodes /\ depth[c] < depth[p]
  BY <1>2, <1>3, <1>4
<1>6. \A i \in 1 .. n : nodes[p].keys[i] < key <=> i <= b
  <2>1. Sorted(nodes[p].keys)
    BY <1>2 DEF InnerFits
  <2> QED BY ONLY <1>2, <1>3, <2>1, key \in Key, BisectLeftSplits
<1>7. key \in Int /\ \A i \in 1 .. n : nodes[p].keys[i] \in Int
  BY <1>2, KeysAreInt, TreeAssumption
<1>8. s[c].range = Part(s[p].range, nodes[p].keys, b + 1)
  BY <1>2, <1>4, <1>5 DEF InnerFits
<1>9. key \in s[c].range
  <2>1. b + 1 > 1 => nodes[p].keys[(b + 1) - 1] <= key
    <3>1. b + 1 > 1 => (b + 1) - 1 \in 1 .. n /\ (b + 1) - 1 <= b
      BY <1>4
    <3> QED BY <1>6, <1>7, <3>1
  <2>2. b + 1 <= n => key <= nodes[p].keys[b + 1]
    <3>1. b + 1 <= n => b + 1 \in 1 .. n /\ ~(b + 1 <= b)
      BY <1>4
    <3> QED BY <1>6, <1>7, <3>1
  <2> QED BY <1>2, <1>8, <2>1, <2>2 DEF Part
<1>10. ASSUME NEW q \in Leaves, Link(q) = s[c].first, NEW k \in s[q].range PROVE k < key
  <2>1. CASE b = 0
    <3>1. c = nodes[p].children[1]
      BY <1>5, <2>1
    <3>2. s[c].first = s[p].first
      BY <1>2, <3>1 DEF InnerFits
    <3> QED BY <1>10, <3>2 DEF Before
  <2>2. CASE b # 0
    <3>1. b \in 1 .. n /\ b \in 1 .. n + 1 /\ b <= b /\ b <= n
      BY <1>4, <2>2
    <3>2. PICK d : d = nodes[p].children[b]
      OBVIOUS
    <3>3. d \in DOMAIN nodes /\ s[d].after = s[c].first
      BY <1>2, <1>5, <3>1, <3>2 DEF InnerFits
    <3>4. PICK r \in LeavesUnder(d) : Link(r) = s[d].after
      BY <1>1, <3>3, LastBelow
    <3>5. s[c].first \in Leaves
      <4>1. s[c].first \in LeavesUnder(c)
        BY <1>1, <1>5, FirstBelow
      <4> QED BY <4>1 DEF LeavesUnder
    <3>6. r \in Leaves /\ r \in Below(d)
      BY <3>4 DEF LeavesUnder
    <3>7. q = r
      BY <1>10, <3>3, <3>4, <3>5, <3>6, LinkOnce
    <3>8. k \in s[d].range
      <4>1. s[r].range \subseteq s[d].range
        BY <1>1, <3>3, <3>6, NarrowerBelow
      <4> QED BY <1>10, <3>7, <4>1
    <3>9. s[d].range = Part(s[p].range, nodes[p].keys, b)
      BY <1>2, <3>1, <3>2 DEF InnerFits
    <3>10. k <= nodes[p].keys[b]
      BY <1>2, <3>1, <3>8, <3>9 DEF Part
    <3>11. nodes[p].keys[b] < key /\ nodes[p].keys[b] \in Int
      BY <1>6, <1>7, <3>1
    <3>12. k \in Int
      BY <1>1, <3>3, <3>8 DEF Shaped, InIntegers
    <3> QED BY <1>7, <3>10, <3>11, <3>12
  <2> QED BY <2>1, <2>2
<1> QED BY <1>5, <1>9, <1>10 DEF Before

(* The descent stays in a set that, with a page, has the child it goes to. *)
LEMMA FindLeafKeeps ==
  ASSUME NEW depth, NEW rank, Good(nodes, depth, rank), root \in DOMAIN nodes, NEW key,
         NEW W, root \in W,
         \A p \in DOMAIN nodes : p \in W /\ ~nodes[p].is_leaf =>
           nodes[p].children[BisectLeft(nodes[p].keys, key) + 1] \in W
  PROVE  FindLeaf(key) \in W
<1> DEFINE down == CHOOSE f : f = [p \in DOMAIN nodes |-> DownStep(f, key, p)]
<1>1. down = [p \in DOMAIN nodes |-> DownStep(down, key, p)]
  BY DownExists
<1>2. FindLeaf(key) = down[root]
  BY DEF FindLeaf, DownStep
<1> HIDE DEF down
<1> DEFINE T == {p \in DOMAIN nodes : p \in W => down[p] \in W}
<1>3. ASSUME NEW p \in DOMAIN nodes,
             \A c \in DOMAIN nodes : depth[c] < depth[p] => c \in T
      PROVE  p \in T
  <2>1. down[p] = DownStep(down, key, p)
    BY <1>1
  <2>2. CASE nodes[p].is_leaf
    BY <2>1, <2>2 DEF DownStep
  <2>3. CASE ~nodes[p].is_leaf
    <3>1. PICK c : c = nodes[p].children[BisectLeft(nodes[p].keys, key) + 1]
      OBVIOUS
    <3>2. down[p] = down[c]
      BY <2>1, <2>3, <3>1 DEF DownStep
    <3>3. c \in DOMAIN nodes /\ depth[c] < depth[p]
      <4>1. c \in AtDepth(depth, depth[p] - 1)
        BY <2>3, <3>1, TheChild
      <4>2. c \in DOMAIN nodes /\ depth[c] = depth[p] - 1 /\ depth[p] \in Nat
        BY <2>3, <4>1, Children
      <4> QED BY <4>2
    <3> QED BY <1>3, <2>3, <3>1, <3>2, <3>3
  <2> QED BY <2>2, <2>3
<1>4. T = DOMAIN nodes
  <2>1. T \in SUBSET DOMAIN nodes
    OBVIOUS
  <2> HIDE DEF T
  <2> QED BY <1>3, <2>1, ByDepth
<1> QED BY <1>2, <1>4

LEMMA FindLeafIs ==
  ASSUME NEW depth, NEW rank, NEW s, InTree(depth, rank, s), NEW key \in Key
  PROVE  FindLeaf(key) \in Leaves /\ key \in s[FindLeaf(key)].range /\ Before(s, FindLeaf(key), key)
<1>1. Good(nodes, depth, rank) /\ root \in DOMAIN nodes /\ s[root].range = Int
  BY DEF InTree, Placed
<1> DEFINE W == {p \in DOMAIN nodes : key \in s[p].range /\ Before(s, p, key)}
<1>2. root \in W
  <2>1. key \in Int
    BY TreeAssumption
  <2>2. Before(s, root, key)
    BY LinkOnce DEF Before
  <2> QED BY <1>1, <2>1, <2>2
<1>3. ASSUME NEW p \in DOMAIN nodes, p \in W, ~nodes[p].is_leaf
      PROVE  nodes[p].children[BisectLeft(nodes[p].keys, key) + 1] \in W
  <2>1. PICK c : c = nodes[p].children[BisectLeft(nodes[p].keys, key) + 1]
    OBVIOUS
  <2>2. key \in s[c].range /\ Before(s, c, key) /\ c \in DOMAIN nodes
    BY <1>3, <2>1, KeyGoesLeft
  <2> QED BY <2>1, <2>2
<1>4. FindLeaf(key) \in W
  <2> HIDE DEF W
  <2> QED BY <1>1, <1>2, <1>3, FindLeafKeeps
<1>5. FindLeaf(key) \in Leaves
  BY <1>1, FindLeafFinds
<1> QED BY <1>4, <1>5

(* Only smaller keys are in the leaves in front of the one that is found.  *)
LEMMA AllBefore ==
  ASSUME NEW depth, NEW rank, NEW s, InTree(depth, rank, s), NEW L, AllLeaves(s, L),
         NEW n \in Nat, InChain(s, L, n), NEW m \in 1 .. n,
         NEW key \in Key, Before(s, L[m], key)
  PROVE  \A i \in 1 .. m - 1 : \A k \in s[L[i]].range : k < key
<1>1. /\ \A i \in 1 .. n : L[i] \in Leaves /\ L[i] \in DOMAIN nodes
      /\ \A i \in 1 .. n : Link(L[i]) = IF i = n THEN 0 ELSE L[i + 1]
      /\ \A i \in 1 .. n : i # n => InOrder(s, L[i], L[i + 1])
  BY DEF InChain
<1>2. Shaped(nodes, s, {root}) /\ key \in Int
  BY TreeAssumption DEF InTree, Placed
<1>3. \A i \in 1 .. n : s[L[i]].range \subseteq Int /\ s[L[i]].range # {}
  BY <1>1, <1>2, RangesFilled DEF Shaped, InIntegers
<1>4. s[L[m]].first = L[m]
  BY <1>1, <1>2 DEF Shaped, Fits, LeafFits, Leaves
<1> DEFINE T == {i \in Nat : i \in 1 .. m - 1 => \A k \in s[L[i]].range : k < key}
<1>5. 1 <= m - 1 => m - 1 \in T
  <2>1. ASSUME 1 <= m - 1, NEW k \in s[L[m - 1]].range PROVE k < key
    <3>1. m - 1 \in 1 .. n /\ m - 1 # n /\ (m - 1) + 1 = m
      BY <2>1
    <3>2. Link(L[m - 1]) = L[m] /\ L[m - 1] \in Leaves
      BY <1>1, <3>1
    <3> QED BY <1>4, <2>1, <3>2 DEF Before
  <2>2. m - 1 \in Nat
    OBVIOUS
  <2> QED BY <2>1, <2>2
<1>6. ASSUME NEW i \in Nat, 1 <= i, i < m - 1, i + 1 \in T PROVE i \in T
  <2>1. i \in 1 .. n /\ i + 1 \in 1 .. n /\ i # n /\ i + 1 \in 1 .. m - 1
    BY <1>6
  <2>2. PICK l : l \in s[L[i + 1]].range
    BY <1>3, <2>1
  <2>3. l < key
    BY <1>6, <2>1, <2>2
  <2>4. ASSUME NEW k \in s[L[i]].range PROVE k < key
    <3>1. InOrder(s, L[i], L[i + 1])
      BY <1>1, <2>1
    <3>2. k <= l
      BY <2>2, <3>1 DEF InOrder
    <3>3. k \in Int /\ l \in Int
      BY <1>3, <2>1, <2>2
    <3> QED BY <1>2, <2>3, <3>2, <3>3
  <2> QED BY <2>4
<1>7. \A i \in Nat : 1 <= i /\ i <= m - 1 => i \in T
  <2>1. m - 1 \in Nat /\ 1 \in Nat
    OBVIOUS
  <2> HIDE DEF T
  <2> QED BY <1>5, <1>6, <2>1, Downwards
<1>8. ASSUME NEW i \in 1 .. m - 1 PROVE i \in T
  <2>1. i \in Nat /\ 1 <= i /\ i <= m - 1
    OBVIOUS
  <2> QED BY <1>7, <2>1
<1> QED BY <1>8

-----------------------------------------------------------------------------
(* What a scan yields.                                                     *)

LEMMA ByKeyPart ==
  ASSUME NEW t \in Seq(Entry), ByKey(t), NEW m \in Nat, NEW n \in Nat,
         1 <= m, m <= n + 1, n <= Len(t)
  PROVE  ByKey(SubSeq(t, m, n))
<1>1. PICK u : u = SubSeq(t, m, n)
  OBVIOUS
<1>2. u \in Seq(Entry) /\ Len(u) = n - m + 1
  BY <1>1, SubSeqType
<1>3. DOMAIN u = 1 .. n - m + 1 /\ DOMAIN t = 1 .. Len(t)
  BY <1>2
<1>4. \A i \in 1 .. n - m + 1 : u[i] = t[m + i - 1]
  BY <1>1, SubSeqElements
<1>5. ASSUME NEW i \in 1 .. n - m + 1, NEW j \in 1 .. n - m + 1, i < j PROVE u[i][1] <= u[j][1]
  <2>1. m + i - 1 \in DOMAIN t /\ m + j - 1 \in DOMAIN t /\ m + i - 1 < m + j - 1
    BY <1>3, <1>5
  <2>2. t[m + i - 1][1] <= t[m + j - 1][1]
    BY <2>1 DEF ByKey
  <2> QED BY <1>4, <2>2
<1> QED BY <1>1, <1>3, <1>5 DEF ByKey

LEMMA UpToIs ==
  ASSUME NEW t \in Seq(Entry), ByKey(t), NEW high \in Key
  PROVE  /\ UpTo(t, high) \in Seq(Entry) /\ ByKey(UpTo(t, high))
         /\ \A x \in Entry : Times(UpTo(t, high), x) = IF x[1] <= high THEN Times(t, x) ELSE 0
<1>1. PICK n \in Nat : n = Len(t) /\ DOMAIN t = 1 .. n
  OBVIOUS
<1>2. high \in Int /\ \A i \in 1 .. n : t[i] \in Entry /\ t[i][1] \in Int
  BY <1>1, EntryKey, TreeAssumption
<1>3. PICK beyond : beyond = {i \in DOMAIN t : t[i][1] > high}
  OBVIOUS
<1>4. CASE beyond = {}
  <2>1. UpTo(t, high) = t
    BY <1>3, <1>4 DEF UpTo
  <2>2. ASSUME NEW x \in Entry, ~(x[1] <= high) PROVE Times(t, x) = 0
    <3>1. \A i \in DOMAIN t : t[i] # x
      BY <1>1, <1>2, <1>3, <1>4, <2>2, EntryKey
    <3> QED BY <3>1, TimesType
  <2> QED BY <2>1, <2>2
<1>5. CASE beyond # {}
  <2>1. PICK m : m = Min(beyond)
    OBVIOUS
  <2>2. m \in beyond /\ \A i \in beyond : m <= i
    <3>1. beyond \in SUBSET Nat
      BY <1>1, <1>3
    <3> QED BY <1>5, <2>1, <3>1, MinProperties
  <2>3. m \in 1 .. n /\ t[m][1] > high
    BY <1>1, <1>3, <2>2
  <2>4. PICK k \in Nat : k = m - 1
    BY <2>3
  <2>5. k \in 0 .. n /\ k + 1 = m /\ 1 <= k + 1 /\ k <= n
    BY <2>3, <2>4
  <2>6. PICK u, v : u = SubSeq(t, 1, k) /\ v = SubSeq(t, k + 1, n)
    OBVIOUS
  <2>7. UpTo(t, high) = u
    BY <1>3, <1>5, <2>1, <2>4, <2>6 DEF UpTo
  <2>8. u \in Seq(Entry) /\ ByKey(u) /\ Len(u) = k - 1 + 1
    BY <1>1, <2>5, <2>6, SubSeqType, ByKeyPart
  <2>9. v \in Seq(Entry) /\ Len(v) = n - (k + 1) + 1
    <3>1. k + 1 \in Nat /\ n \in Nat /\ 1 <= k + 1 /\ k + 1 <= n + 1 /\ n <= Len(t)
      BY <1>1, <2>5
    <3> QED BY <2>6, <3>1, SubSeqType
  <2>10. DOMAIN u = 1 .. k /\ DOMAIN v = 1 .. n - k
    BY <2>5, <2>8, <2>9
  <2>11. ASSUME NEW i \in 1 .. k PROVE u[i][1] <= high
    <3>1. u[i] = t[i]
      BY <1>1, <2>5, <2>6
    <3>2. i \in 1 .. n /\ ~(m <= i)
      BY <2>5
    <3>3. ~(t[i][1] > high)
      BY <1>1, <1>3, <2>2, <3>2
    <3> QED BY <1>2, <3>1, <3>2, <3>3
  <2>12. ASSUME NEW i \in 1 .. n - k PROVE ~(v[i][1] <= high)
    <3>1. PICK j : j = k + i
      OBVIOUS
    <3>2. v[i] = t[j]
      <4>1. v[i] = t[k + 1 + i - 1] /\ k + 1 + i - 1 = k + i
        BY <1>1, <2>5, <2>6
      <4> QED BY <3>1, <4>1
    <3>3. j \in 1 .. n /\ (j = m \/ m < j)
      BY <2>5, <3>1
    <3>4. j = m \/ t[m][1] <= t[j][1]
      BY <1>1, <2>3, <3>3 DEF ByKey
    <3> QED BY <1>2, <2>3, <3>2, <3>3, <3>4
  <2>13. ASSUME NEW x \in Entry
         PROVE  Times(u, x) = IF x[1] <= high THEN Times(t, x) ELSE 0
    <3>1. Times(t, x) = Times(u, x) + Times(v, x)
      BY <1>1, <2>5, <2>6, TimesSplit
    <3>2. Times(u, x) \in Nat /\ Times(v, x) \in Nat
      BY <2>8, <2>9, TimesType
    <3>3. CASE x[1] <= high
      <4>1. \A i \in DOMAIN v : v[i] # x
        BY <2>10, <2>12, <3>3
      <4>2. Times(v, x) = 0
        BY <2>9, <4>1, TimesType
      <4> QED BY <3>1, <3>2, <3>3, <4>2
    <3>4. CASE ~(x[1] <= high)
      <4>1. \A i \in DOMAIN u : u[i] # x
        BY <2>10, <2>11, <3>4
      <4>2. Times(u, x) = 0
        BY <2>8, <4>1, TimesType
      <4> QED BY <3>4, <4>2
    <3> QED BY <3>3, <3>4
  <2> QED BY <2>7, <2>8, <2>13
<1> QED BY <1>4, <1>5

(* Everything behind a leaf to which a key is routed has no smaller key.   *)
LEMMA BehindIsAbove ==
  ASSUME NEW depth, NEW rank, NEW s, InTree(depth, rank, s), NEW p \in Leaves,
         NEW key \in Key, key \in s[p].range
  PROVE  /\ Streams[p] \in Seq(Entry) /\ ByKey(Streams[p])
         /\ Len(nodes[p].keys) <= Len(Streams[p])
         /\ \A i \in 1 .. Len(Streams[p]) :
              IF i <= Len(nodes[p].keys) THEN Streams[p][i][1] = nodes[p].keys[i]
              ELSE key <= Streams[p][i][1]
<1>1. Good(nodes, depth, rank) /\ PagesOK(nodes) /\ Shaped(nodes, s, {root})
  BY DEF InTree, Good, Placed
<1>2. PICK L : AllLeaves(s, L)
  BY TheLeaves
<1>3. PICK n \in Nat : InChain(s, L, n)
  BY <1>2, PlaceInChain
<1>4. PICK a \in 1 .. n : p = L[a]
  BY <1>3 DEF InChain
<1>5. ASSUME NEW i \in 1 .. n PROVE Streams[L[i]] \in Seq(Entry)
  BY <1>2, <1>3, StreamTimes DEF InChain
<1>6. PICK S, h : S = Streams[p] /\ h = Held(nodes)[p]
  OBVIOUS
<1>7. S \in Seq(Entry) /\ ByKey(S)
  BY <1>2, <1>4, <1>5, <1>6, StreamOrdered DEF Onwards
<1>8. PICK m \in Nat : m = Len(nodes[p].keys)
  BY <1>1, LeafType
<1>9. /\ h \in Seq(Entry) /\ DOMAIN h = 1 .. m
      /\ \A i \in 1 .. m : h[i][1] = nodes[p].keys[i]
  BY <1>1, <1>6, <1>8, LeafEntries
<1>10. Len(h) = m
  BY <1>9
<1>11. CASE Link(p) = 0
  <2>1. S = h \o << >>
    BY <1>1, <1>6, <1>11, StreamsAre
  <2>2. S = h
    BY <1>9, <2>1
  <2> QED BY <1>6, <1>7, <1>8, <1>9, <1>10, <2>2
<1>12. CASE Link(p) # 0
  <2>1. PICK q, t : q = Link(p) /\ t = Streams[q]
    OBVIOUS
  <2>2. a # n /\ q = L[a + 1] /\ a + 1 \in 1 .. n
    <3>1. Link(L[a]) = IF a = n THEN 0 ELSE L[a + 1]
      BY <1>3, <1>4 DEF InChain
    <3>2. a # n /\ q = L[a + 1]
      BY <1>4, <1>12, <2>1, <3>1
    <3> QED BY <3>2
  <2>3. q \in Leaves /\ InOrder(s, p, q)
    BY <1>3, <1>4, <2>2 DEF InChain
  <2>4. t \in Seq(Entry) /\ NotBefore(s, q, t)
    BY <1>2, <1>5, <2>1, <2>2, <2>3, StreamOrdered DEF Onwards
  <2>5. PICK N \in Nat : N = Len(t) /\ DOMAIN t = 1 .. N
    BY <2>4
  <2>6. S = h \o t
    BY <1>1, <1>6, <1>12, <2>1, StreamsAre
  <2>7. Len(S) = m + N
    BY <1>9, <1>10, <2>4, <2>5, <2>6, ConcatType
  <2>8. \A i \in 1 .. m + N : S[i] = IF i <= m THEN h[i] ELSE t[i - m]
    BY <1>9, <1>10, <2>4, <2>5, <2>6, ConcatElements
  <2>9. ASSUME NEW j \in 1 .. N PROVE key <= t[j][1]
    <3>1. PICK k \in s[q].range : k <= t[j][1]
      BY <2>4, <2>5 DEF NotBefore
    <3>2. key <= k
      BY <2>3 DEF InOrder
    <3>3. key \in Int /\ k \in Int
      <4>1. q \in DOMAIN nodes
        BY <2>3 DEF Leaves
      <4> QED BY <1>1, <4>1, TreeAssumption DEF Shaped, InIntegers
    <3>4. t[j][1] \in Int
      <4>1. t[j] \in Entry
        BY <2>4, <2>5
      <4> QED BY <4>1, EntryKey
    <3> QED BY <3>1, <3>2, <3>3, <3>4
  <2>10. ASSUME NEW i \in 1 .. m + N
         PROVE  IF i <= m THEN S[i][1] = nodes[p].keys[i] ELSE key <= S[i][1]
    <3>1. CASE i <= m
      <4>1. i \in 1 .. m
        BY <3>1
      <4> QED BY <1>9, <2>8, <3>1, <4>1
    <3>2. CASE ~(i <= m)
      <4>1. i - m \in 1 .. N
        BY <3>2
      <4> QED BY <2>8, <2>9, <3>2, <4>1
    <3> QED BY <3>1, <3>2
  <2> QED BY <1>6, <1>7, <1>8, <2>7, <2>10
<1> QED BY <1>11, <1>12

(* All entries of a key not below low are at or behind the leaf of low.    *)
LEMMA AllAtOrBehind ==
  ASSUME NEW depth, NEW rank, NEW s, InTree(depth, rank, s), NEW p \in Leaves,
         NEW low \in Key, Before(s, p, low)
  PROVE  \A x \in Entry :
           low <= x[1] => Times(Streams[p], x) = Total(Held(nodes), DOMAIN nodes, x)
<1>1. Good(nodes, depth, rank) /\ PagesOK(nodes) /\ Shaped(nodes, s, {root}) /\ low \in Int
  BY TreeAssumption DEF InTree, Good, Placed
<1>2. PICK L : AllLeaves(s, L)
  BY TheLeaves
<1>3. PICK n \in Nat : InChain(s, L, n)
  BY <1>2, PlaceInChain
<1>4. PICK a \in 1 .. n : p = L[a]
  BY <1>3 DEF InChain
<1>5. \A i \in 1 .. a - 1 : \A k \in s[L[i]].range : k < low
  BY <1>2, <1>3, <1>4, AllBefore
<1>6. PICK held : held = Held(nodes)
  OBVIOUS
<1>7. /\ \A x : Times(Streams[p], x) = Total(held, From(L, a), x)
      /\ From(L, a) \in SUBSET DOMAIN nodes
  <2>1. Len(L) = n /\ \A i \in 1 .. n : L[i] \in DOMAIN nodes
    BY <1>3 DEF InChain
  <2>2. \A j \in a .. n : j \in 1 .. n
    OBVIOUS
  <2> QED BY <1>2, <1>4, <1>6, <2>1, <2>2, StreamTimes DEF From
<1>8. SeqsOn(held, DOMAIN nodes, Entry)
  BY <1>1, <1>6, SeqsHeld
<1>9. ASSUME NEW x \in Entry, low <= x[1] PROVE Total(held, DOMAIN nodes, x) = Total(held, From(L, a), x)
  <2>1. ASSUME NEW q \in DOMAIN nodes \ From(L, a) PROVE Times(held[q], x) = 0
    <3>1. CASE q \notin Leaves
      <4>1. held[q] = << >>
        BY <1>1, <1>6, <3>1, SeqsHeld DEF HeldBy, Leaves
      <4> QED BY <4>1, TimesEmpty
    <3>2. CASE q \in Leaves
      <4>1. PICK i \in 1 .. n : q = L[i]
        BY <1>3, <3>2 DEF InChain
      <4>2. i \in 1 .. a - 1
        <5>1. Len(L) = n
          BY <1>3 DEF InChain
        <5>2. i \notin a .. n
          BY <2>1, <4>1, <5>1 DEF From
        <5> QED BY <5>2
      <4>3. PICK h : h = held[q]
        OBVIOUS
      <4>4. h \in Seq(Entry) /\ \A j \in DOMAIN h : h[j][1] \in s[q].range
        BY <1>1, <1>6, <3>2, <4>3, LeafEntries
      <4>5. \A j \in DOMAIN h : h[j] # x
        <5>1. \A j \in DOMAIN h : h[j][1] < low
          BY <1>5, <4>1, <4>2, <4>4
        <5>2. x[1] \in Int
          BY EntryKey
        <5> QED BY <1>1, <1>9, <5>1, <5>2
      <4> QED BY <4>3, <4>4, <4>5, TimesType
    <3> QED BY <3>1, <3>2
  <2> QED BY <1>7, <1>8, <2>1, TotalOfMore
<1> QED BY <1>6, <1>7, <1>9

LEMMA RangeScanIs ==
  ASSUME NEW depth, NEW rank, NEW s, InTree(depth, rank, s), NEW low \in Key, NEW high \in Key
  PROVE  /\ RangeScan(low, high) \in Seq(Entry) /\ ByKey(RangeScan(low, high))
         /\ \A x \in Entry : Times(RangeScan(low, high), x) =
              IF low <= x[1] /\ x[1] <= high THEN Total(Held(nodes), DOMAIN nodes, x) ELSE 0
<1>1. Good(nodes, depth, rank) /\ PagesOK(nodes) /\ Shaped(nodes, s, {root}) /\ low \in Int
  BY TreeAssumption DEF InTree, Good, Placed
<1>2. PICK p : p = FindLeaf(low)
  OBVIOUS
<1>3. p \in Leaves /\ low \in s[p].range /\ Before(s, p, low)
  BY <1>2, FindLeafIs
<1>4. PICK m \in Nat : m = Len(nodes[p].keys) /\ nodes[p].keys \in Seq(Key)
  BY <1>1, <1>3, LeafType
<1>5. PICK S : S = Streams[p]
  OBVIOUS
<1>6. PICK N \in Nat : N = Len(S) /\ m <= N
  BY <1>3, <1>4, <1>5, BehindIsAbove
<1>7. /\ S \in Seq(Entry) /\ ByKey(S) /\ DOMAIN S = 1 .. N
      /\ \A i \in 1 .. N : IF i <= m THEN S[i][1] = nodes[p].keys[i] ELSE low <= S[i][1]
  <2>1. S \in Seq(Entry) /\ ByKey(S)
    BY <1>3, <1>5, BehindIsAbove
  <2>2. \A i \in 1 .. N : IF i <= m THEN S[i][1] = nodes[p].keys[i] ELSE low <= S[i][1]
    BY <1>3, <1>4, <1>5, <1>6, BehindIsAbove
  <2> QED BY <1>6, <2>1, <2>2
<1>8. PICK b : b = BisectLeft(nodes[p].keys, low)
  OBVIOUS
<1>9. b \in 0 .. m /\ b \in 0 .. N /\ b \in Nat
  <2>1. DOMAIN nodes[p].keys = 1 .. m
    BY <1>4
  <2>2. b \in 0 .. m
    BY <1>8, <2>1, BisectType
  <2> QED BY <1>6, <2>2
<1>10. \A i \in 1 .. m : nodes[p].keys[i] < low <=> i <= b
  <2>1. Sorted(nodes[p].keys)
    BY <1>1, <1>3 DEF Shaped, Fits, LeafFits, Leaves
  <2> QED BY ONLY <1>4, <1>8, <2>1, low \in Key, BisectLeftSplits
<1>11. ASSUME NEW i \in 1 .. N PROVE S[i] \in Entry /\ (S[i][1] < low <=> i <= b)
  <2>1. S[i] \in Entry /\ S[i][1] \in Int
    BY <1>7, EntryKey
  <2>2. CASE i <= m
    <3>1. i \in 1 .. m
      BY <2>2
    <3> QED BY <1>7, <1>10, <2>1, <2>2, <3>1
  <2>3. CASE ~(i <= m)
    <3>1. low <= S[i][1] /\ ~(i <= b)
      BY <1>7, <1>9, <2>3
    <3> QED BY <1>1, <2>1, <3>1
  <2> QED BY <2>2, <2>3
<1>12. PICK u, t : u = SubSeq(S, 1, b) /\ t = SubSeq(S, b + 1, N)
  OBVIOUS
<1>13. u \in Seq(Entry) /\ Len(u) = b - 1 + 1
  BY <1>6, <1>7, <1>9, <1>12, SubSeqType
<1>14. t \in Seq(Entry) /\ Len(t) = N - (b + 1) + 1 /\ ByKey(t)
  <2>1. b + 1 \in Nat /\ N \in Nat /\ 1 <= b + 1 /\ b + 1 <= N + 1 /\ N <= Len(S)
    BY <1>6, <1>9
  <2> QED BY <1>7, <1>12, <2>1, SubSeqType, ByKeyPart
<1>15. DOMAIN u = 1 .. b /\ DOMAIN t = 1 .. N - b
  BY <1>9, <1>13, <1>14
<1>16. \A i \in 1 .. b : u[i][1] < low
  <2>1. \A i \in 1 .. b : u[i] = S[i] /\ i \in 1 .. N /\ i <= b
    BY <1>6, <1>7, <1>9, <1>12
  <2> QED BY <1>11, <2>1
<1>17. ASSUME NEW i \in 1 .. N - b PROVE ~(t[i][1] < low)
  <2>1. t[i] = S[b + 1 + i - 1] /\ b + 1 + i - 1 = b + i
    BY <1>6, <1>7, <1>9, <1>12
  <2>2. b + i \in 1 .. N /\ ~(b + i <= b)
    BY <1>9
  <2> QED BY <1>11, <2>1, <2>2
<1>18. ASSUME NEW x \in Entry
       PROVE  Times(t, x) = IF low <= x[1] THEN Total(Held(nodes), DOMAIN nodes, x) ELSE 0
  <2>1. Times(S, x) = Times(u, x) + Times(t, x)
    BY <1>6, <1>7, <1>9, <1>12, TimesSplit
  <2>2. Times(u, x) \in Nat /\ Times(t, x) \in Nat /\ x[1] \in Int
    BY <1>13, <1>14, TimesType, EntryKey
  <2>3. CASE low <= x[1]
    <3>1. \A i \in DOMAIN u : u[i] # x
      BY <1>1, <1>15, <1>16, <2>2, <2>3
    <3>2. Times(u, x) = 0
      BY <1>13, <3>1, TimesType
    <3>3. Times(S, x) = Total(Held(nodes), DOMAIN nodes, x)
      BY <1>3, <1>5, <2>3, AllAtOrBehind
    <3> QED BY <2>1, <2>2, <2>3, <3>2, <3>3
  <2>4. CASE ~(low <= x[1])
    <3>1. \A i \in DOMAIN t : t[i] # x
      BY <1>1, <1>15, <1>17, <2>2, <2>4
    <3>2. Times(t, x) = 0
      BY <1>14, <3>1, TimesType
    <3> QED BY <2>4, <3>2
  <2> QED BY <2>3, <2>4
<1>19. RangeScan(low, high) = UpTo(t, high)
  BY <1>2, <1>5, <1>6, <1>8, <1>12, StreamFromIs DEF RangeScan
<1>20. /\ UpTo(t, high) \in Seq(Entry) /\ ByKey(UpTo(t, high))
       /\ \A x \in Entry : Times(UpTo(t, high), x) = IF x[1] <= high THEN Times(t, x) ELSE 0
  BY <1>14, UpToIs
<1> QED BY <1>18, <1>19, <1>20

LEMMA FullScanIs ==
  ASSUME NEW depth, NEW rank, NEW s, InTree(depth, rank, s)
  PROVE  /\ FullScan \in Seq(Entry)
         /\ \A x : Times(FullScan, x) = Total(Held(nodes), DOMAIN nodes, x)
<1>1. PagesOK(nodes)
  BY DEF InTree, Good
<1>2. PICK L : AllLeaves(s, L)
  BY TheLeaves
<1>3. PICK n \in Nat : InChain(s, L, n)
  BY <1>2, PlaceInChain
<1>4. Len(L) = n /\ 1 \in 1 .. n /\ L[1] = s[root].first /\ DOMAIN L = 1 .. n
  BY <1>3 DEF InChain
<1>5. PICK S : S = Streams[L[1]]
  OBVIOUS
<1>6. S \in Seq(Entry) /\ \A x : Times(S, x) = Total(Held(nodes), From(L, 1), x)
  BY <1>2, <1>4, <1>5, StreamTimes
<1>7. From(L, 1) = Leaves
  BY <1>2, <1>4 DEF From, AllLeaves, ToSet
<1>8. FullScan = SubSeq(S, 1, Len(S))
  BY <1>4, <1>5, LeftmostIs, StreamFromIs DEF FullScan
<1>9. SubSeq(S, 1, Len(S)) = S
  BY <1>6
<1> QED BY <1>1, <1>6, <1>7, <1>8, <1>9, TotalOnLeaves

(* A sequence with the entries of a range, each as often as the tree has   *)
(* it.                                                                     *)
LEMMA BagOfRange ==
  ASSUME EntriesKnown, NEW t \in Seq(Entry), NEW low, NEW high,
         \A x \in Entry : Times(t, x) =
           IF low <= x[1] /\ x[1] <= high THEN Total(Held(nodes), DOMAIN nodes, x) ELSE 0
  PROVE  ToBag(t) = InRange(low, high)
<1>1. /\ ToBag(t) = [x \in DOMAIN ToBag(t) |-> Times(t, x)]
      /\ \A x : x \in DOMAIN ToBag(t) <=> Times(t, x) # 0
  BY ToBagIs
<1>2. \A x : /\ x \in DOMAIN Entries <=> Total(Held(nodes), DOMAIN nodes, x) # 0
             /\ x \in DOMAIN Entries => Entries[x] = Total(Held(nodes), DOMAIN nodes, x) /\ x \in Entry
  BY BagOnIs DEF EntriesKnown
<1>3. \A x : Times(t, x) # 0 => x \in Entry
  BY TimesType
<1>4. ASSUME NEW x
      PROVE  /\ x \in DOMAIN ToBag(t) <=> x \in DOMAIN Entries /\ low <= x[1] /\ x[1] <= high
             /\ x \in DOMAIN ToBag(t) => Times(t, x) = Entries[x]
  <2>1. CASE x \in Entry
    BY <1>1, <1>2, <2>1
  <2>2. CASE x \notin Entry
    BY <1>1, <1>2, <1>3, <2>2
  <2> QED BY <2>1, <2>2
<1>5. DOMAIN ToBag(t) = {d \in BagToSet(Entries) : low <= d[1] /\ d[1] <= high}
  BY <1>4 DEF BagToSet
<1> QED BY <1>1, <1>4, <1>5 DEF InRange

LEMMA ScansHold == TreeInv /\ ShapeInv => ScansComplete
<1> SUFFICES ASSUME TreeInv, ShapeInv, ~torn
             PROVE  /\ ToBag(FullScan) = Entries
                    /\ \A low, high \in Key :
                         /\ ToBag(RangeScan(low, high)) = InRange(low, high)
                         /\ IsSorted(RangeScan(low, high), LAMBDA d, e : d[1] <= e[1])
  BY DEF ScansComplete
<1>1. PICK depth, rank : Good(nodes, depth, rank)
  BY DEF TreeInv, WholeTree, IsTree
<1>2. PICK s : Placed(nodes, s, root)
  BY DEF ShapeInv, InPlace
<1>3. InTree(depth, rank, s)
  BY <1>1, <1>2 DEF InTree, TreeInv, Roots
<1>4. EntriesKnown
  <2>1. Once(nodes, {root}) /\ root \in DOMAIN nodes
    BY <1>2 DEF Placed, Shaped, TreeInv, Roots
  <2> QED BY <1>1, <2>1, EntriesAre
<1>5. ToBag(FullScan) = Entries
  <2>1. PICK t : t = FullScan
    OBVIOUS
  <2>2. t \in Seq(Entry) /\ \A x : Times(t, x) = Total(Held(nodes), DOMAIN nodes, x)
    BY <1>3, <2>1, FullScanIs
  <2>3. /\ ToBag(t) = [x \in DOMAIN ToBag(t) |-> Times(t, x)]
        /\ \A x : x \in DOMAIN ToBag(t) <=> Times(t, x) # 0
    BY <2>2, ToBagIs
  <2>4. \A x : /\ x \in DOMAIN Entries <=> Total(Held(nodes), DOMAIN nodes, x) # 0
               /\ x \in DOMAIN Entries => Entries[x] = Total(Held(nodes), DOMAIN nodes, x)
    BY <1>4, BagOnIs DEF EntriesKnown
  <2>5. Entries = [x \in DOMAIN Entries |-> Entries[x]]
    BY <1>4 DEF EntriesKnown, BagOn
  <2>6. DOMAIN ToBag(t) = DOMAIN Entries
    BY <2>2, <2>3, <2>4
  <2> QED BY <2>1, <2>2, <2>3, <2>4, <2>5, <2>6
<1>6. ASSUME NEW low \in Key, NEW high \in Key
      PROVE  /\ ToBag(RangeScan(low, high)) = InRange(low, high)
             /\ IsSorted(RangeScan(low, high), LAMBDA d, e : d[1] <= e[1])
  <2>1. PICK t : t = RangeScan(low, high)
    OBVIOUS
  <2>2. /\ t \in Seq(Entry) /\ ByKey(t)
        /\ \A x \in Entry : Times(t, x) =
             IF low <= x[1] /\ x[1] <= high THEN Total(Held(nodes), DOMAIN nodes, x) ELSE 0
    BY <1>3, <2>1, RangeScanIs
  <2>3. ToBag(t) = InRange(low, high)
    BY <1>4, <2>2, BagOfRange
  <2>4. IsSorted(t, LAMBDA d, e : d[1] <= e[1])
    <3>1. DOMAIN t = 1 .. Len(t)
      BY <2>2
    <3> QED BY <2>2, <3>1 DEF ByKey, IsSorted
  <2> QED BY <2>1, <2>3, <2>4
<1> QED BY <1>5, <1>6

(* ScansComplete: a full scan yields every entry as often as the tree has  *)
(* it, and a range scan those of the range, in key order; empty leaves,    *)
(* duplicates over several leaves and splits notwithstanding (btree.py,    *)
(* range_scan and full_scan).                                              *)
THEOREM ScansAreComplete == Spec => []ScansComplete
<1>1. Init => TreeInv /\ ShapeInv
  BY TreeInit, ShapeInit
<1>2. TreeInv /\ ShapeInv /\ [Next]_vars => TreeInv' /\ ShapeInv'
  BY TreeNext, ShapeNext
<1>3. TreeInv /\ ShapeInv => ScansComplete
  BY ScansHold
<1> QED BY <1>1, <1>2, <1>3, PTL DEF Spec

-----------------------------------------------------------------------------
(* What a search finds.                                                    *)

LEMMA ResultsAre ==
  ASSUME NEW depth, NEW rank, Good(nodes, depth, rank), NEW key
  PROVE  /\ \A p \in Leaves : Results(key)[p] =
              Hits(p, key) \o IF WalksOn(nodes[p], key) THEN Results(key)[Link(p)] ELSE << >>
         /\ Search(key) = Results(key)[FindLeaf(key)]
<1>1. PICK head : head = [p \in Leaves |-> Hits(p, key)]
  OBVIOUS
<1>2. PICK W : W = {p \in Leaves : WalksOn(nodes[p], key)}
  OBVIOUS
<1>3. PICK f : f = [p \in Leaves |-> GatherStep(f, head, W, p)]
  <2>1. \A p \in W : Link(p) # 0
    BY <1>2 DEF WalksOn, Link
  <2> QED BY <2>1, GatherExists
<1>4. \A p \in Leaves : GatherStep(f, head, W, p) = SearchStep(f, key, p)
  BY <1>1, <1>2 DEF GatherStep, SearchStep, Hits, Link
<1>5. f = [p \in Leaves |-> SearchStep(f, key, p)]
  BY <1>3, <1>4
<1>6. Results(key) = [p \in Leaves |-> SearchStep(Results(key), key, p)]
  BY <1>5 DEF Results
<1>7. Search(key) = Results(key)[FindLeaf(key)]
  BY DEF Search, Results, SearchStep
<1> QED BY <1>6, <1>7 DEF SearchStep, Hits, Link

(* A leaf's RowIds of the key, from the first of them to the last.         *)
LEMMA HitsAre ==
  ASSUME NEW depth, NEW rank, Good(nodes, depth, rank), NEW p \in Leaves, Sorted(nodes[p].keys),
         NEW key \in Key
  PROVE  /\ Hits(p, key) \in Seq(RowId)
         /\ \A v : Times(Hits(p, key), v) = Times(Held(nodes)[p], <<key, v>>)
<1>1. PICK m \in Nat : /\ m = Len(nodes[p].keys) /\ nodes[p].keys \in Seq(Key)
                       /\ nodes[p].values \in Seq(RowId) /\ Len(nodes[p].values) = m
  BY LeafType
<1>2. PICK keys, values, h : keys = nodes[p].keys /\ values = nodes[p].values /\ h = Held(nodes)[p]
  OBVIOUS
<1>3. DOMAIN keys = 1 .. m /\ DOMAIN values = 1 .. m /\ \A i \in 1 .. m : keys[i] \in Int
  BY <1>1, <1>2, KeysAreInt
<1>4. /\ h \in Seq(Entry) /\ DOMAIN h = 1 .. m
      /\ \A i \in 1 .. m : h[i] = <<keys[i], values[i]>>
  BY <1>1, <1>2, SortedEntries
<1>5. PICK l, r : l = BisectLeft(keys, key) /\ r = BisectRight(keys, key)
  OBVIOUS
<1>6. l \in 0 .. m /\ r \in 0 .. m /\ key \in Int
  BY <1>3, <1>5, BisectType, TreeAssumption
<1>7. \A i \in 1 .. m : /\ keys[i] < key <=> i <= l
                        /\ keys[i] <= key <=> i <= r
  <2>1. Sorted(keys)
    BY <1>2
  <2>2. keys \in Seq(Key) /\ Len(keys) = m
    BY <1>1, <1>2
  <2>3. \A i \in 1 .. m : keys[i] < key <=> i <= l
    BY ONLY <1>5, <2>1, <2>2, key \in Key, BisectLeftSplits
  <2>4. \A i \in 1 .. m : keys[i] <= key <=> i <= r
    BY ONLY <1>5, <2>1, <2>2, key \in Key, BisectRightSplits
  <2> QED BY <2>3, <2>4
<1>8. l <= r
  <2>1. ASSUME l > r PROVE FALSE
    <3>1. l \in 1 .. m /\ l <= l /\ ~(l <= r)
      BY <1>6, <2>1
    <3>2. keys[l] < key /\ ~(keys[l] <= key)
      BY <1>7, <3>1
    <3> QED BY <1>3, <1>6, <3>1, <3>2
  <2> QED BY <1>6, <2>1
<1>9. PICK u : u = SubSeq(values, l + 1, r)
  OBVIOUS
<1>10. Hits(p, key) = u
  BY <1>2, <1>5, <1>9 DEF Hits
<1>11. l \in Nat /\ l + 1 \in Nat /\ r \in Nat /\ 1 <= l + 1 /\ l + 1 <= r + 1 /\ r <= m
  BY <1>6, <1>8
<1>12. u \in Seq(RowId) /\ Len(u) = r - (l + 1) + 1
  BY <1>1, <1>2, <1>9, <1>11, SubSeqType
<1>13. /\ DOMAIN u = 1 .. r - l
       /\ \A i \in 1 .. r - l : u[i] = values[l + i]
  <2>1. DOMAIN u = 1 .. r - l
    BY <1>11, <1>12
  <2>2. ASSUME NEW i \in 1 .. r - l PROVE u[i] = values[l + i]
    <3>1. i \in 1 .. r - (l + 1) + 1 /\ (l + 1) + i - 1 = l + i
      BY <1>11
    <3>2. u[i] = values[(l + 1) + i - 1]
      BY <1>1, <1>2, <1>9, <1>11, <3>1, SubSeqElements
    <3> QED BY <3>1, <3>2
  <2> QED BY <2>1, <2>2
<1>14. ASSUME NEW v PROVE Times(u, v) = Times(h, <<key, v>>)
  <2>1. PICK T, U : T = Occ(u, v) /\ U = Occ(h, <<key, v>>)
    OBVIOUS
  <2>2. T \in SUBSET Nat /\ IsFiniteSet(T)
    <3>1. IsFiniteSet(T)
      BY <1>12, <2>1, TimesType
    <3>2. T \in SUBSET Nat
      BY <1>13, <2>1 DEF Occ
    <3> QED BY <3>1, <3>2
  <2>3. U = {i + l : i \in T}
    <3>1. ASSUME NEW i \in T PROVE i + l \in U
      <4>1. i \in 1 .. r - l /\ u[i] = v
        BY <1>13, <2>1, <3>1 DEF Occ
      <4>2. i + l \in 1 .. m /\ i + l <= r /\ ~(i + l <= l) /\ i + l = l + i
        BY <1>11, <4>1
      <4>3. keys[i + l] = key
        BY <1>3, <1>6, <1>7, <4>2
      <4>4. values[i + l] = v
        BY <1>13, <4>1, <4>2
      <4>5. h[i + l] = <<key, v>>
        BY <1>4, <4>2, <4>3, <4>4
      <4> QED BY <1>4, <2>1, <4>2, <4>5 DEF Occ
    <3>2. ASSUME NEW j \in U PROVE \E i \in T : j = i + l
      <4>1. j \in 1 .. m /\ h[j] = <<key, v>>
        BY <1>4, <2>1, <3>2 DEF Occ
      <4>2. keys[j] = key /\ values[j] = v
        BY <1>4, <4>1
      <4>3. j <= r /\ ~(j <= l)
        BY <1>6, <1>7, <4>1, <4>2
      <4>4. j - l \in 1 .. r - l /\ l + (j - l) = j /\ j = (j - l) + l
        BY <1>6, <4>1, <4>3
      <4>5. u[j - l] = v
        BY <1>13, <4>2, <4>4
      <4>6. j - l \in T
        BY <1>13, <2>1, <4>4, <4>5 DEF Occ
      <4> QED BY <4>4, <4>6
    <3> QED BY <3>1, <3>2
  <2>4. Cardinality(U) = Cardinality(T)
    <3>1. l \in Nat
      BY <1>6
    <3> QED BY <2>2, <2>3, <3>1, Moved
  <2> QED BY <2>1, <2>4 DEF Times
<1> QED BY <1>2, <1>10, <1>12, <1>14

LEMMA TreeIsOrdered ==
  ASSUME NEW depth, NEW rank, NEW s, InTree(depth, rank, s), NoEmptyLeaf
  PROVE  Ordered
<1>1. Shaped(nodes, s, {root}) /\ s[root].after = 0
  BY DEF InTree, Placed
<1>2. PICK L : AllLeaves(s, L)
  BY TheLeaves
<1>3. PICK n \in Nat : InChain(s, L, n)
  BY <1>2, PlaceInChain
<1>4. ASSUME NEW p \in Leaves
      PROVE  /\ Sorted(nodes[p].keys) /\ Streams[p] \in Seq(Entry) /\ ByKey(Streams[p])
             /\ Link(p) # 0 => nodes[p].keys # << >>
  <2>1. Sorted(nodes[p].keys) /\ s[p].after = Link(p)
    BY <1>1 DEF Shaped, Fits, LeafFits, Leaves, Link
  <2>2. PICK i \in 1 .. n : p = L[i]
    BY <1>3 DEF InChain
  <2>3. Streams[p] \in Seq(Entry)
    BY <1>2, <1>3, <2>2, StreamTimes DEF InChain
  <2>4. ByKey(Streams[p])
    BY <1>2, StreamOrdered DEF Onwards
  <2>5. Link(p) # 0 => p # root
    BY <1>1, <2>1
  <2>6. Link(p) # 0 => nodes[p].keys # << >>
    BY <2>5 DEF NoEmptyLeaf, Leaves
  <2> QED BY <2>1, <2>3, <2>4, <2>6
<1> QED BY <1>4 DEF Ordered

LEMMA SearchesStream ==
  ASSUME NEW depth, NEW rank, Good(nodes, depth, rank), Ordered, NEW key \in Key
  PROVE  \A p \in Leaves :
           /\ Results(key)[p] \in Seq(RowId)
           /\ \A v : Times(Results(key)[p], v) = Times(Streams[p], <<key, v>>)
<1>1. Good(nodes, depth, rank) /\ PagesOK(nodes) /\ key \in Int
  BY TreeAssumption DEF Good
<1>2. PICK results : results = Results(key)
  OBVIOUS
<1> DEFINE Right(p) == /\ results[p] \in Seq(RowId)
                       /\ \A v : Times(results[p], v) = Times(Streams[p], <<key, v>>)
           T == {p \in Leaves : Right(p)}
<1>3. ASSUME NEW p \in Leaves, \A q \in Leaves : rank[q] < rank[p] => q \in T
      PROVE  p \in T
  <2>1. PICK a, h, keys : a = Hits(p, key) /\ h = Held(nodes)[p] /\ keys = nodes[p].keys
    OBVIOUS
  <2>2. a \in Seq(RowId) /\ \A v : Times(a, v) = Times(h, <<key, v>>)
    BY <1>1, <2>1, HitsAre DEF Ordered
  <2>3. PICK m \in Nat : m = Len(keys) /\ keys \in Seq(Key)
    BY <1>1, <2>1, LeafType
  <2>4. h \in Seq(Entry) /\ DOMAIN h = 1 .. m
    BY <1>1, <2>1, <2>3, SortedEntries DEF Ordered
  <2>5. results[p] = a \o IF WalksOn(nodes[p], key) THEN results[Link(p)] ELSE << >>
    BY <1>1, <1>2, <2>1, ResultsAre
  <2>6. Streams[p] = h \o IF Link(p) # 0 THEN Streams[Link(p)] ELSE << >>
    BY <1>1, <2>1, StreamsAre
  <2>7. a \o << >> = a /\ h \o << >> = h
    BY <2>2, <2>4
  <2>8. CASE Link(p) = 0
    <3>1. ~WalksOn(nodes[p], key)
      BY <2>8 DEF WalksOn, Link
    <3>2. results[p] = a /\ Streams[p] = h
      BY <2>5, <2>6, <2>7, <2>8, <3>1
    <3> QED BY <2>2, <3>2
  <2>9. CASE Link(p) # 0
    <3>1. PICK q, t, b : q = Link(p) /\ t = Streams[q] /\ b = results[q]
      OBVIOUS
    <3>2. q \in Leaves /\ rank[q] < rank[p]
      BY <1>1, <2>9, <3>1, LeafType
    <3>3. b \in Seq(RowId) /\ \A v : Times(b, v) = Times(t, <<key, v>>)
      <4>1. Right(q)
        <5> HIDE DEF Right
        <5> QED BY <1>3, <3>2
      <4> QED BY <3>1, <4>1
    <3>4. Streams[p] = h \o t
      BY <2>6, <2>9, <3>1
    <3>5. t \in Seq(Entry)
      BY <3>1, <3>2 DEF Ordered
    <3>6. \A v : Times(h \o t, <<key, v>>) = Times(h, <<key, v>>) + Times(t, <<key, v>>)
      BY <2>4, <3>5, TimesConcat
    <3>7. CASE WalksOn(nodes[p], key)
      <4>1. results[p] = a \o b
        BY <2>5, <3>1, <3>7
      <4>2. a \o b \in Seq(RowId)
        BY <2>2, <3>3, ConcatType
      <4>3. ASSUME NEW v PROVE Times(a \o b, v) = Times(h \o t, <<key, v>>)
        <5>1. Times(a \o b, v) = Times(a, v) + Times(b, v)
          BY <2>2, <3>3, TimesConcat
        <5> QED BY <2>2, <3>3, <3>6, <5>1
      <4> QED BY <3>4, <4>1, <4>2, <4>3
    <3>8. CASE ~WalksOn(nodes[p], key)
      <4>1. results[p] = a
        BY <2>5, <2>7, <3>8
      <4>2. keys # << >>
        BY <2>1, <2>9 DEF Ordered
      <4>3. PICK r : r = BisectRight(keys, key)
        OBVIOUS
      <4>4. r \in 0 .. m /\ r # m
        <5>1. DOMAIN keys = 1 .. m
          BY <2>3
        <5>2. r \in 0 .. m
          BY <4>3, <5>1, BisectType
        <5>3. r # m
          BY <2>1, <2>3, <2>9, <3>8, <4>2, <4>3 DEF WalksOn, Link
        <5> QED BY <5>2, <5>3
      <4>5. r + 1 \in 1 .. m /\ ~(r + 1 <= r)
        BY <4>4
      <4>6. ~(keys[r + 1] <= key)
        <5>1. Sorted(keys)
          BY <2>1 DEF Ordered
        <5>2. \A i \in 1 .. m : keys[i] <= key <=> i <= r
          BY ONLY <2>3, <4>3, <5>1, key \in Key, BisectRightSplits
        <5> QED BY <4>5, <5>2
      <4>7. ByKey(h \o t)
        BY <3>4 DEF Ordered
      <4>8. PICK N \in Nat : N = Len(t) /\ DOMAIN t = 1 .. N
        BY <3>5
      <4>9. ASSUME NEW j \in 1 .. N PROVE ~(t[j][1] <= key)
        <5>1. PICK c : c = h \o t
          OBVIOUS
        <5>2. Len(h) = m
          BY <2>4
        <5>3. c \in Seq(Entry) /\ Len(c) = m + N /\ DOMAIN c = 1 .. m + N
          <6>1. c \in Seq(Entry) /\ Len(c) = m + N
            BY <2>4, <3>5, <4>8, <5>1, <5>2, ConcatType
          <6> QED BY <6>1
        <5>4. r + 1 \in 1 .. m + N /\ m + j \in 1 .. m + N /\ r + 1 < m + j
          BY <4>5
        <5>5. c[r + 1] = h[r + 1]
          <6>1. r + 1 <= Len(h) /\ r + 1 \in 1 .. Len(h) + Len(t)
            BY <4>5, <4>8, <5>2, <5>4
          <6> QED BY <2>4, <3>5, <5>1, <6>1, ConcatElements
        <5>6. c[m + j] = t[j]
          <6>1. ~(m + j <= Len(h)) /\ m + j \in 1 .. Len(h) + Len(t) /\ (m + j) - Len(h) = j
            BY <4>8, <5>2, <5>4
          <6> QED BY <2>4, <3>5, <5>1, <6>1, ConcatElements
        <5>7. c[r + 1][1] <= c[m + j][1]
          BY <4>7, <5>1, <5>3, <5>4 DEF ByKey
        <5>8. h[r + 1][1] = keys[r + 1] /\ keys[r + 1] \in Int
          <6>1. h[r + 1][1] = keys[r + 1]
            BY <1>1, <2>1, <2>3, <4>5, SortedEntries DEF Ordered
          <6> QED BY <2>3, <4>5, <6>1, KeysAreInt
        <5>9. t[j][1] \in Int
          BY <3>5, <4>8, EntryKey
        <5> QED BY <1>1, <4>6, <5>5, <5>6, <5>7, <5>8, <5>9
      <4>10. ASSUME NEW v PROVE Times(t, <<key, v>>) = 0
        <5>1. <<key, v>>[1] = key
          OBVIOUS
        <5>2. \A j \in DOMAIN t : t[j] # <<key, v>>
          BY <1>1, <4>8, <4>9, <5>1
        <5> QED BY <3>5, <5>2, TimesType
      <4>11. \A v : Times(h, <<key, v>>) \in Nat
        BY <2>4, TimesType
      <4>12. ASSUME NEW v PROVE Times(a, v) = Times(h \o t, <<key, v>>)
        BY <2>2, <3>6, <4>10, <4>11
      <4> QED BY <2>2, <3>4, <4>1, <4>12
    <3> QED BY <3>7, <3>8
  <2> QED BY <2>8, <2>9
<1>4. T = Leaves
  <2>1. T \in SUBSET Leaves
    OBVIOUS
  <2> HIDE DEF T
  <2> QED BY <1>1, <1>3, <2>1, ByRank
<1> QED BY <1>2, <1>4

LEMMA KeyedTimes ==
  ASSUME NEW r \in Seq(RowId), NEW key \in Key, NEW t, t = [i \in DOMAIN r |-> <<key, r[i]>>]
  PROVE  /\ t \in Seq(Entry)
         /\ \A x \in Entry : Times(t, x) = IF x[1] = key THEN Times(r, x[2]) ELSE 0
<1>1. PICK n \in Nat : n = Len(r) /\ DOMAIN r = 1 .. n
  OBVIOUS
<1>2. DOMAIN t = 1 .. n /\ \A i \in 1 .. n : t[i] = <<key, r[i]>> /\ t[i] \in Entry
  BY <1>1 DEF Entry
<1>3. t \in Seq(Entry)
  <2>1. t = [i \in 1 .. n |-> t[i]]
    BY <1>1, <1>2
  <2> QED BY <1>2, <2>1
<1>4. ASSUME NEW x \in Entry PROVE Times(t, x) = IF x[1] = key THEN Times(r, x[2]) ELSE 0
  <2>1. x = <<x[1], x[2]>>
    BY EntryKey
  <2>2. CASE x[1] = key
    <3>1. ASSUME NEW i \in 1 .. n PROVE t[i] = x <=> r[i] = x[2]
      BY <1>2, <2>1, <2>2
    <3>2. Occ(t, x) = Occ(r, x[2])
      BY <1>1, <1>2, <3>1 DEF Occ
    <3> QED BY <2>2, <3>2 DEF Times
  <2>3. CASE x[1] # key
    <3>1. \A i \in 1 .. n : t[i] # x
      BY <1>2, <2>1, <2>3
    <3> QED BY <1>2, <1>3, <2>3, <3>1, TimesType
  <2> QED BY <2>2, <2>3
<1> QED BY <1>3, <1>4

LEMMA SearchesHold == TreeInv /\ ShapeInv => SearchFindsUnlessEmptied
<1> SUFFICES ASSUME TreeInv, ShapeInv, ~torn, NoEmptyLeaf, NEW key \in Key
             PROVE  ToBag([i \in DOMAIN Search(key) |-> <<key, Search(key)[i]>>])
                      = InRange(key, key)
  BY DEF SearchFindsUnlessEmptied, SearchFinds
<1>1. PICK depth, rank : Good(nodes, depth, rank)
  BY DEF TreeInv, WholeTree, IsTree
<1>2. PICK s : Placed(nodes, s, root)
  BY DEF ShapeInv, InPlace
<1>3. InTree(depth, rank, s)
  BY <1>1, <1>2 DEF InTree, TreeInv, Roots
<1>4. EntriesKnown
  <2>1. Once(nodes, {root}) /\ root \in DOMAIN nodes
    BY <1>2 DEF Placed, Shaped, TreeInv, Roots
  <2> QED BY <1>1, <2>1, EntriesAre
<1>5. PICK p, r : p = FindLeaf(key) /\ r = Search(key)
  OBVIOUS
<1>6. p \in Leaves /\ key \in s[p].range /\ Before(s, p, key)
  BY <1>3, <1>5, FindLeafIs
<1>7. r = Results(key)[p]
  BY <1>1, <1>5, ResultsAre
<1>8. r \in Seq(RowId) /\ \A v : Times(r, v) = Times(Streams[p], <<key, v>>)
  <2>1. Ordered
    BY <1>3, TreeIsOrdered
  <2> QED BY <1>1, <1>6, <1>7, <2>1, SearchesStream
<1>9. PICK t : t = [i \in DOMAIN r |-> <<key, r[i]>>]
  OBVIOUS
<1>10. /\ t \in Seq(Entry)
       /\ \A x \in Entry : Times(t, x) = IF x[1] = key THEN Times(r, x[2]) ELSE 0
  BY <1>8, <1>9, KeyedTimes
<1>11. ASSUME NEW x \in Entry
       PROVE  Times(t, x) = IF key <= x[1] /\ x[1] <= key
                            THEN Total(Held(nodes), DOMAIN nodes, x) ELSE 0
  <2>1. x = <<x[1], x[2]>> /\ x[1] \in Int /\ key \in Int
    BY EntryKey, TreeAssumption
  <2>2. x[1] = key <=> key <= x[1] /\ x[1] <= key
    BY <2>1
  <2>3. CASE x[1] = key
    <3>1. Times(r, x[2]) = Times(Streams[p], x)
      BY <1>8, <2>1, <2>3
    <3>2. key <= x[1]
      BY <2>2, <2>3
    <3>3. Times(Streams[p], x) = Total(Held(nodes), DOMAIN nodes, x)
      BY <1>3, <1>6, <3>2, AllAtOrBehind
    <3> QED BY <1>10, <2>2, <2>3, <3>1, <3>3
  <2>4. CASE x[1] # key
    BY <1>10, <2>2, <2>4
  <2> QED BY <2>3, <2>4
<1>12. ToBag(t) = InRange(key, key)
  BY <1>4, <1>10, <1>11, BagOfRange
<1> QED BY <1>5, <1>9, <1>12

(* SearchFindsUnlessEmptied: a search returns every RowId of its key, on   *)
(* however many leaves they are, as long as no leaf below the root is      *)
(* empty (btree.py, search, and lines 34 to 36, which leave that out).     *)
THEOREM SearchesFind == Spec => []SearchFindsUnlessEmptied
<1>1. Init => TreeInv /\ ShapeInv
  BY TreeInit, ShapeInit
<1>2. TreeInv /\ ShapeInv /\ [Next]_vars => TreeInv' /\ ShapeInv'
  BY TreeNext, ShapeNext
<1>3. TreeInv /\ ShapeInv => SearchFindsUnlessEmptied
  BY SearchesHold
<1> QED BY <1>1, <1>2, <1>3, PTL DEF Spec

-----------------------------------------------------------------------------
(* What a call changes of the entries.                                     *)

(* Page p of a file replaced.                                              *)
LEMMA ReplacedTotals ==
  ASSUME NEW file, PagesOK(file), NEW new, PagesOK(new), NEW p \in DOMAIN file,
         DOMAIN new = DOMAIN file, \A q \in DOMAIN file \ {p} : new[q] = file[q],
         NEW a, a = HeldBy(file[p]), NEW b, b = HeldBy(new[p]), NEW x
  PROVE  All(new, x) + Times(a, x) = All(file, x) + Times(b, x)
<1>1. PICK f, g, C : f = Held(file) /\ g = Held(new) /\ C = DOMAIN file
  OBVIOUS
<1>2. /\ IsFiniteSet(C) /\ SeqsOn(f, C, Entry) /\ SeqsOn(g, C, Entry)
      /\ \A q \in C : f[q] = HeldBy(file[q]) /\ g[q] = HeldBy(new[q])
  BY <1>1, SeqsHeld
<1>3. OneDiffers(f, g, C, p, a, b, x)
  BY <1>1, <1>2 DEF OneDiffers
<1>4. Total(f, C, x) + Times(b, x) = Total(g, C, x) + Times(a, x)
  BY ONLY <1>2, <1>3, TotalChanged
<1> QED BY <1>1, <1>4 DEF All

(* A page replaced, and one more added.                                    *)
LEMMA SplitTotals ==
  ASSUME NEW file, PagesOK(file), NEW new, PagesOK(new), NEW p \in DOMAIN file,
         NEW n, n \notin DOMAIN file, DOMAIN new = DOMAIN file \cup {n},
         \A q \in DOMAIN file \ {p} : new[q] = file[q],
         NEW a, a = HeldBy(file[p]), NEW b, b = HeldBy(new[p]), NEW c, c = HeldBy(new[n]), NEW x
  PROVE  All(new, x) + Times(a, x) = All(file, x) + (Times(b, x) + Times(c, x))
<1>1. PICK f, g, C, D : f = Held(file) /\ g = Held(new) /\ C = DOMAIN file /\ D = DOMAIN new
  OBVIOUS
<1>2. /\ IsFiniteSet(C) /\ SeqsOn(f, C, Entry) /\ SeqsOn(g, C, Entry) /\ c \in Seq(Entry)
      /\ \A q \in C : f[q] = HeldBy(file[q]) /\ g[q] = HeldBy(new[q])
  <2>1. /\ IsFiniteSet(C) /\ SeqsOn(f, C, Entry) /\ SeqsOn(g, D, Entry)
        /\ \A q \in C : f[q] = HeldBy(file[q])
        /\ \A q \in D : g[q] = HeldBy(new[q])
    BY <1>1, SeqsHeld
  <2>2. C \subseteq D /\ n \in D
    BY <1>1
  <2> QED BY <2>1, <2>2 DEF SeqsOn
<1>3. OneDiffers(f, g, C, p, a, b, x) /\ Joins(g, n, c, C, D)
  <2>1. g[n] = c
    BY <1>1, SeqsHeld
  <2> QED BY <1>1, <1>2, <2>1 DEF OneDiffers, Joins
<1>4. Total(f, C, x) + Times(b, x) = Total(g, C, x) + Times(a, x)
  BY ONLY <1>2, <1>3, TotalChanged
<1>5. Total(g, D, x) = Total(g, C, x) + Times(c, x)
  BY ONLY <1>2, <1>3, TotalOnePageMore
<1>6. /\ Total(f, C, x) \in Nat /\ Total(g, C, x) \in Nat
      /\ Times(a, x) \in Nat /\ Times(b, x) \in Nat /\ Times(c, x) \in Nat
  <2>1. a \in Seq(Entry) /\ b \in Seq(Entry)
    BY <1>1, <1>2 DEF SeqsOn
  <2> QED BY <1>2, <2>1, TotalType, TimesType
<1> QED BY <1>1, <1>4, <1>5, <1>6 DEF All

(* Storing a node for page p puts what the node holds in the place of what *)
(* the page held, split or not.                                            *)
LEMMA StoredTotals ==
  ASSUME NEW file, PagesOK(file), NEW p \in DOMAIN file,
         NEW node, IsNode(node, DOMAIN file, MaxKeys + 1),
         NEW r, r = StoreOrSplit(file, p, node), PagesOK(r.nodes),
         NEW a, a = HeldBy(file[p]), NEW b, b = HeldBy(node), NEW x
  PROVE  All(r.nodes, x) + Times(a, x) = All(file, x) + Times(b, x)
<1> DEFINE mid == Len(node.keys) \div 2
<1>1. PICK n \in Nat \ {0} : n = NewPage(file) /\ n \notin DOMAIN file
  BY NewPageNumber DEF PagesOK
<1>2. /\ node.keys \in Seq(Key) /\ Len(node.keys) \in Nat /\ Len(node.keys) <= MaxKeys + 1
      /\ MaxKeys \in Nat
  <2>1. node.keys \in Seq(Key) /\ Len(node.keys) <= MaxKeys + 1
    BY DEF IsNode, IsLeaf, IsInner, LeafNode, InnerNode
  <2> QED BY <2>1, TreeAssumption
<1>3. CASE Len(node.keys) <= MaxKeys
  <2>1. r = Stored([file EXCEPT ![p] = node], 0, 0)
    BY <1>3 DEF StoreOrSplit, NoSplit
  <2>2. r.nodes = [file EXCEPT ![p] = node]
    BY <2>1 DEF Stored
  <2>3. PICK new : new = r.nodes
    OBVIOUS
  <2>4. /\ PagesOK(new) /\ DOMAIN new = DOMAIN file /\ b = HeldBy(new[p])
        /\ \A q \in DOMAIN file \ {p} : new[q] = file[q]
    BY <2>2, <2>3
  <2>5. All(new, x) + Times(a, x) = All(file, x) + Times(b, x)
    BY ONLY PagesOK(file), p \in DOMAIN file, a = HeldBy(file[p]), <2>4, ReplacedTotals
  <2> QED BY <2>3, <2>5
<1>4. ASSUME ~(Len(node.keys) <= MaxKeys)
      PROVE  mid \in Nat /\ 1 <= mid /\ mid + 2 <= Len(node.keys)
             /\ mid <= MaxKeys /\ Len(node.keys) - mid <= MaxKeys /\ Len(node.keys) > MaxKeys
  <2>1. Len(node.keys) = MaxKeys + 1
    BY <1>2, <1>4
  <2> QED BY <1>2, <2>1, Halves
<1>5. ASSUME NEW left, NEW new, NEW all, all = r.nodes,
             all = WithPage([file EXCEPT ![p] = left], n, new),
             Times(b, x) = Times(HeldBy(left), x) + Times(HeldBy(new), x)
      PROVE  All(r.nodes, x) + Times(a, x) = All(file, x) + Times(b, x)
  <2>1. /\ DOMAIN all = DOMAIN file \cup {n} /\ all[n] = new /\ all[p] = left
        /\ \A q \in DOMAIN file \ {p} : all[q] = file[q]
    BY <1>1, <1>5 DEF WithPage
  <2>2. PICK s, t : s = HeldBy(left) /\ t = HeldBy(new)
    OBVIOUS
  <2>3. /\ n \notin DOMAIN file /\ DOMAIN all = DOMAIN file \cup {n} /\ PagesOK(all)
        /\ \A q \in DOMAIN file \ {p} : all[q] = file[q]
        /\ s = HeldBy(all[p]) /\ t = HeldBy(all[n])
    BY <1>1, <1>5, <2>1, <2>2
  <2>4. All(all, x) + Times(a, x) = All(file, x) + (Times(s, x) + Times(t, x))
    BY ONLY PagesOK(file), p \in DOMAIN file, a = HeldBy(file[p]), <2>3, SplitTotals
  <2> QED BY <1>5, <2>2, <2>4
<1>6. CASE ~(Len(node.keys) <= MaxKeys) /\ node.is_leaf
  <2>1. IsLeaf(node, DOMAIN file, MaxKeys + 1)
    BY <1>6, NodeOfMore
  <2>2. PICK m \in Nat : m = mid /\ 1 <= m /\ m + 2 <= Len(node.keys) /\ m <= MaxKeys
                         /\ Len(node.keys) - m <= MaxKeys /\ Len(node.keys) > MaxKeys
    BY <1>4, <1>6
  <2> HIDE DEF mid
  <2>3. PICK more : more = DOMAIN file \cup {n}
    OBVIOUS
  <2> DEFINE left == Leaf(SubSeq(node.keys, 1, m), SubSeq(node.values, 1, m), n)
             new == Leaf(SubSeq(node.keys, m + 1, Len(node.keys)),
                         SubSeq(node.values, m + 1, Len(node.keys)), node.next_leaf)
  <2>4. r = Stored(WithPage([file EXCEPT ![p] = left], n, new), new.keys[1], n)
    BY <1>1, <1>6, <2>2 DEF StoreOrSplit, SplitLeaf, mid
  <2>5. IsLeaf(left, more, MaxKeys) /\ IsLeaf(new, DOMAIN file, MaxKeys)
    <3>1. DOMAIN file \subseteq more /\ n \in more
      BY <2>3
    <3> QED BY ONLY <2>1, <2>2, <3>1, SplitLeafParts
  <2>6. /\ left.keys = SubSeq(node.keys, 1, m) /\ left.values = SubSeq(node.values, 1, m)
        /\ new.keys = SubSeq(node.keys, m + 1, Len(node.keys))
        /\ new.values = SubSeq(node.values, m + 1, Len(node.keys))
    BY DEF Leaf
  <2>7. r.nodes = WithPage([file EXCEPT ![p] = left], n, new)
    BY <2>4 DEF Stored
  <2> HIDE DEF left, new
  <2>8. IsLeaf(new, more, MaxKeys) /\ m <= Len(node.keys)
    <3>1. IsNode(new, DOMAIN file, MaxKeys) /\ new.is_leaf
      BY <2>5, LeafHolds DEF IsNode
    <3>2. IsNode(new, more, MaxKeys)
      BY <2>3, <3>1, NodeOfMore
    <3> QED BY <1>2, <2>2, <3>1, <3>2, NodeOfMore
  <2>9. Times(HeldBy(node), x) = Times(HeldBy(left), x) + Times(HeldBy(new), x)
    BY ONLY <2>1, m \in Nat, <2>5, <2>6, <2>8, HalvesHold
  <2> QED BY <1>5, <2>7, <2>9
<1>7. CASE ~(Len(node.keys) <= MaxKeys) /\ ~node.is_leaf
  <2> DEFINE left == Internal(SubSeq(node.keys, 1, mid), SubSeq(node.children, 1, mid + 1))
             new == Internal(SubSeq(node.keys, mid + 2, Len(node.keys)),
                             SubSeq(node.children, mid + 2, Len(node.children)))
  <2>1. r = Stored(WithPage([file EXCEPT ![p] = left], n, new), node.keys[mid + 1], n)
    BY <1>1, <1>7 DEF StoreOrSplit, SplitInternal
  <2>2. HeldBy(left) = << >> /\ HeldBy(new) = << >> /\ b = << >>
    BY <1>7 DEF HeldBy, Internal
  <2>3. r.nodes = WithPage([file EXCEPT ![p] = left], n, new)
    BY <2>1 DEF Stored
  <2> HIDE DEF left, new
  <2>4. Times(b, x) = Times(HeldBy(left), x) + Times(HeldBy(new), x)
    BY <2>2, TimesEmpty
  <2> QED BY <1>5, <2>3, <2>4
<1> QED BY <1>3, <1>6, <1>7

LEMMA AllType ==
  ASSUME NEW file, PagesOK(file), NEW x
  PROVE  All(file, x) \in Nat
BY SeqsHeld, TotalType DEF All

LEMMA StoredKeepsPages ==
  ASSUME NEW file, NEW p, NEW node
  PROVE  DOMAIN file \subseteq DOMAIN StoreOrSplit(file, p, node).nodes
<1>1. ASSUME NEW left, NEW n, NEW new
      PROVE  DOMAIN file \subseteq DOMAIN WithPage([file EXCEPT ![p] = left], n, new)
  BY DEF WithPage
<1>2. CASE Len(node.keys) <= MaxKeys
  BY <1>2 DEF StoreOrSplit, NoSplit, Stored
<1>3. CASE ~(Len(node.keys) <= MaxKeys) /\ node.is_leaf
  BY <1>1, <1>3 DEF StoreOrSplit, SplitLeaf, Stored
<1>4. CASE ~(Len(node.keys) <= MaxKeys) /\ ~node.is_leaf
  BY <1>1, <1>4 DEF StoreOrSplit, SplitInternal, Stored
<1> QED BY <1>2, <1>3, <1>4

LEMMA LeafAddsOne ==
  ASSUME NEW depth, NEW rank, Good(nodes, depth, rank), NEW p \in DOMAIN nodes,
         nodes[p].is_leaf, NEW key \in Key, NEW rowid \in RowId, NEW f,
         NEW e, e = <<key, rowid>>
  PROVE  AddsOne(UpStep(f, key, rowid, p), e)
<1>1. PICK i, node, r :
        /\ i = BisectRight(nodes[p].keys, key) + 1
        /\ node = Leaf(InsertAt(nodes[p].keys, i, key),
                       InsertAt(nodes[p].values, i, rowid), nodes[p].next_leaf)
        /\ r = UpStep(f, key, rowid, p)
  OBVIOUS
<1>2. r = StoreOrSplit(nodes, p, node)
  BY <1>1 DEF UpStep
<1>3. /\ i \in 1 .. Len(nodes[p].keys) + 1
      /\ IsLeaf(node, DOMAIN nodes, MaxKeys + 1)
  BY <1>1, InsertedLeaf
<1>4. IsLeaf(nodes[p], DOMAIN nodes, MaxKeys) /\ PagesOK(nodes)
  BY NodeOfMore DEF Good, PagesOK
<1>5. PagesOK(r.nodes)
  BY <1>1, InsertInLeaf DEF InsertOutcome, Outcome, Good
<1>6. PICK a, b : a = HeldBy(nodes[p]) /\ b = HeldBy(node)
  OBVIOUS
<1>7. ASSUME NEW x PROVE Times(b, x) = Times(a, x) + One(e, x)
  <2>1. /\ node.keys = InsertAt(nodes[p].keys, i, key)
        /\ node.values = InsertAt(nodes[p].values, i, rowid)
    BY <1>1 DEF Leaf
  <2>2. Times(HeldBy(node), x) = Times(HeldBy(nodes[p]), x) + One(e, x)
    BY ONLY <1>3, <1>4, <2>1, key \in Key, rowid \in RowId, e = <<key, rowid>>, InsertedHolds
  <2> QED BY <1>6, <2>2
<1>8. ASSUME NEW x \in Entry PROVE All(r.nodes, x) = All(nodes, x) + One(e, x)
  <2>1. All(r.nodes, x) + Times(a, x) = All(nodes, x) + Times(b, x)
    <3>1. IsNode(node, DOMAIN nodes, MaxKeys + 1)
      BY <1>3 DEF IsNode
    <3> QED BY ONLY <1>2, <1>4, <1>5, <1>6, <3>1, p \in DOMAIN nodes, StoredTotals
  <2>2. Times(b, x) = Times(a, x) + One(e, x)
    BY <1>7
  <2>3. Times(a, x) \in Nat /\ All(r.nodes, x) \in Nat /\ All(nodes, x) \in Nat
    BY <1>4, <1>5, <1>6, LeafHolds, TimesType, AllType
  <2>4. One(e, x) \in Nat
    BY DEF One
  <2> QED BY <2>1, <2>2, <2>3, <2>4
<1>9. ASSUME DOMAIN r.nodes = DOMAIN nodes PROVE Besides(e, nodes, r.nodes)
  <2>1. r.right = 0
    BY <1>1, <1>9, InsertInLeaf DEF InsertOutcome
  <2>2. r.nodes = [nodes EXCEPT ![p] = node]
    <3>1. Len(node.keys) <= MaxKeys
      <4>1. SUFFICES ASSUME ~(Len(node.keys) <= MaxKeys) PROVE FALSE
        OBVIOUS
      <4>2. node.is_leaf = TRUE
        BY <1>3, LeafHolds
      <4>3. r = SplitLeaf(nodes, p, node)
        BY <1>2, <4>1, <4>2 DEF StoreOrSplit
      <4>4. r.right = NewPage(nodes)
        BY <4>3 DEF SplitLeaf, Stored
      <4> QED BY <1>4, <2>1, <4>4, NewPageNumber DEF PagesOK
    <3> QED BY <1>2, <3>1 DEF StoreOrSplit, NoSplit, Stored
  <2>3. ASSUME NEW q \in DOMAIN nodes, NEW x \in Entry \ {e}
        PROVE  Times(HeldBy(r.nodes[q]), x) = Times(HeldBy(nodes[q]), x)
    <3>1. CASE q # p
      BY <2>2, <3>1
    <3>2. CASE q = p
      <4>1. r.nodes[q] = node
        BY <2>2, <3>2
      <4>2. Times(b, x) = Times(a, x) + One(e, x) /\ Times(a, x) \in Nat
        BY <1>4, <1>6, <1>7, LeafHolds, TimesType
      <4>3. One(e, x) = 0
        BY <2>3 DEF One
      <4> QED BY <1>6, <3>2, <4>1, <4>2, <4>3
    <3> QED BY <3>1, <3>2
  <2> QED BY <2>3 DEF Besides
<1> QED BY <1>1, <1>8, <1>9 DEF AddsOne

LEMMA BelowAddsOne ==
  ASSUME NEW depth, NEW rank, Good(nodes, depth, rank), NEW p \in DOMAIN nodes,
         ~nodes[p].is_leaf, NEW key \in Key, NEW rowid \in RowId, NEW f,
         NEW c, c = nodes[p].children[BisectRight(nodes[p].keys, key) + 1],
         InsertOutcome(f[c], depth, c), NEW e, AddsOne(f[c], e)
  PROVE  AddsOne(UpStep(f, key, rowid, p), e)
<1>1. CASE f[c].right = 0
  BY <1>1 DEF UpStep
<1>2. CASE f[c].right # 0
  <2>1. PICK below : below = f[c]
    OBVIOUS
  <2> DEFINE n == BisectRight(nodes[p].keys, key)
  <2>2. PICK keys, children, node, r :
          /\ keys = InsertAt(nodes[p].keys, n + 1, below.sep)
          /\ children = InsertAt(nodes[p].children, n + 2, below.right)
          /\ node = Internal(keys, children)
          /\ r = UpStep(f, key, rowid, p)
    OBVIOUS
  <2>3. r = StoreOrSplit(below.nodes, p, node)
    BY <1>2, <2>1, <2>2 DEF UpStep
  <2>4. PICK d, k :
          /\ Good(below.nodes, d, k)
          /\ DOMAIN nodes \subseteq DOMAIN below.nodes
          /\ \A q \in DOMAIN nodes : d[q] = depth[q]
          /\ below.right \in DOMAIN below.nodes \ DOMAIN nodes
          /\ below.sep \in Key
    BY <1>2, <2>1 DEF InsertOutcome, Outcome
  <2>5. /\ IsInner(nodes[p], DOMAIN nodes, MaxKeys)
        /\ depth[p] \in Nat /\ depth[p] >= 1
        /\ nodes[p].keys \in Seq(Key) /\ Len(nodes[p].keys) \in Nat
        /\ nodes[p].children \in Seq(AtDepth(depth, depth[p] - 1))
        /\ Len(nodes[p].children) = Len(nodes[p].keys) + 1
    BY Children
  <2>6. n \in 0 .. Len(nodes[p].keys)
    <3>1. DOMAIN nodes[p].keys = 1 .. Len(nodes[p].keys)
      BY <2>5
    <3> QED BY <2>5, <3>1, BisectType
  <2>7. n + 1 \in 1 .. Len(nodes[p].keys) + 1 /\ n + 2 \in 1 .. Len(nodes[p].children) + 1
    <3> HIDE DEF n
    <3> QED BY <2>5, <2>6
  <2> HIDE DEF n
  <2>8. keys \in Seq(Key) /\ Len(keys) = Len(nodes[p].keys) + 1
    <3>1. below.sep \in Key /\ nodes[p].keys \in Seq(Key)
      BY <2>4, <2>5
    <3>2. /\ InsertAt(nodes[p].keys, n + 1, below.sep) \in Seq(Key)
          /\ Len(InsertAt(nodes[p].keys, n + 1, below.sep)) = Len(nodes[p].keys) + 1
      BY ONLY <2>7, <3>1, InsertAtType
    <3> QED BY <2>2, <3>2
  <2>9. children \in Seq(DOMAIN below.nodes) /\ Len(children) = Len(nodes[p].children) + 1
    <3>1. PICK S : S = DOMAIN below.nodes
      OBVIOUS
    <3>2. AtDepth(depth, depth[p] - 1) \subseteq S
      BY <2>4, <3>1 DEF Good, DepthOK, AtDepth
    <3>3. nodes[p].children \in Seq(S)
      BY <2>5, <3>2, SeqOfMore
    <3>4. below.right \in S
      BY <2>4, <3>1
    <3>5. /\ InsertAt(nodes[p].children, n + 2, below.right) \in Seq(S)
          /\ Len(InsertAt(nodes[p].children, n + 2, below.right)) = Len(nodes[p].children) + 1
      BY ONLY <2>7, <3>3, <3>4, InsertAtType
    <3> QED BY <2>2, <3>1, <3>5
  <2>10. IsInner(node, DOMAIN below.nodes, MaxKeys + 1) /\ node.is_leaf = FALSE
    <3>1. 1 <= Len(nodes[p].keys) /\ Len(nodes[p].keys) <= MaxKeys /\ MaxKeys \in Nat
      BY <2>5, TreeAssumption DEF IsInner
    <3>2. /\ Len(keys) >= 1 /\ Len(keys) <= MaxKeys + 1
          /\ Len(children) = Len(keys) + 1
      BY <2>5, <2>8, <2>9, <3>1
    <3> QED BY <2>2, <2>8, <2>9, <3>2 DEF Internal, IsInner, InnerNode
  <2>11. ~below.nodes[p].is_leaf /\ PagesOK(below.nodes) /\ p \in DOMAIN below.nodes
    BY <2>4, <2>5 DEF Good, DepthOK
  <2>12. PagesOK(r.nodes)
    <3>1. InsertOutcome(UpStep(f, key, rowid, p), depth, p)
      BY ONLY Good(nodes, depth, rank), p \in DOMAIN nodes, ~nodes[p].is_leaf, key \in Key,
              rowid \in RowId, c = nodes[p].children[BisectRight(nodes[p].keys, key) + 1],
              InsertOutcome(f[c], depth, c), InsertBelow
    <3> QED BY <2>2, <3>1 DEF InsertOutcome, Outcome, Good
  <2>13. PICK a, b, file : a = HeldBy(below.nodes[p]) /\ b = HeldBy(node) /\ file = below.nodes
    OBVIOUS
  <2>14. a = << >> /\ b = << >>
    BY <2>10, <2>11, <2>13 DEF HeldBy
  <2>15. ASSUME NEW x \in Entry PROVE All(r.nodes, x) = All(nodes, x) + One(e, x)
    <3>1. /\ PagesOK(file) /\ p \in DOMAIN file /\ IsNode(node, DOMAIN file, MaxKeys + 1)
          /\ r = StoreOrSplit(file, p, node) /\ a = HeldBy(file[p])
      BY <2>3, <2>10, <2>11, <2>13 DEF IsNode
    <3>2. All(r.nodes, x) + Times(a, x) = All(file, x) + Times(b, x)
      BY ONLY <2>12, <2>13, <3>1, StoredTotals
    <3>3. Times(a, x) = 0 /\ Times(b, x) = 0
      BY <2>14, TimesEmpty
    <3>4. All(r.nodes, x) \in Nat /\ All(file, x) \in Nat
      BY <2>12, <3>1, AllType
    <3>5. All(file, x) = All(nodes, x) + One(e, x)
      BY <2>1, <2>13 DEF AddsOne
    <3> QED BY <3>2, <3>3, <3>4, <3>5
  <2>16. DOMAIN r.nodes # DOMAIN nodes
    <3>1. DOMAIN below.nodes \subseteq DOMAIN r.nodes
      BY <2>3, StoredKeepsPages
    <3> QED BY <2>4, <3>1
  <2> QED BY <2>2, <2>15, <2>16 DEF AddsOne
<1> QED BY <1>1, <1>2

LEMMA InsertIntoAddsOne ==
  ASSUME NEW depth, NEW rank, Good(nodes, depth, rank), root \in DOMAIN nodes,
         NEW key \in Key, NEW rowid \in RowId, NEW e, e = <<key, rowid>>
  PROVE  AddsOne(InsertInto(key, rowid), e)
<1> DEFINE up == CHOOSE f : f = [p \in DOMAIN nodes |-> UpStep(f, key, rowid, p)]
<1>1. up = [p \in DOMAIN nodes |-> UpStep(up, key, rowid, p)]
  BY UpExists
<1>2. InsertInto(key, rowid) = up[root]
  BY DEF InsertInto, UpStep
<1> HIDE DEF up
<1> DEFINE T == {p \in DOMAIN nodes : InsertOutcome(up[p], depth, p) /\ AddsOne(up[p], e)}
<1>3. ASSUME NEW p \in DOMAIN nodes,
             \A c \in DOMAIN nodes : depth[c] < depth[p] => c \in T
      PROVE  p \in T
  <2>1. up[p] = UpStep(up, key, rowid, p)
    BY <1>1
  <2>2. CASE nodes[p].is_leaf
    BY <2>1, <2>2, InsertInLeaf, LeafAddsOne
  <2>3. CASE ~nodes[p].is_leaf
    <3>1. PICK c : c = nodes[p].children[BisectRight(nodes[p].keys, key) + 1]
      OBVIOUS
    <3>2. c \in AtDepth(depth, depth[p] - 1)
      BY <2>3, <3>1, TheChild
    <3>3. c \in DOMAIN nodes /\ depth[c] = depth[p] - 1 /\ depth[p] \in Nat
      BY <2>3, <3>2, Children
    <3>4. InsertOutcome(up[c], depth, c) /\ AddsOne(up[c], e)
      BY <1>3, <3>3
    <3>5. InsertOutcome(up[p], depth, p)
      BY <2>1, <2>3, <3>1, <3>4, InsertBelow
    <3>6. AddsOne(up[p], e)
      BY <2>1, <2>3, <3>1, <3>4, BelowAddsOne
    <3> QED BY <3>5, <3>6
  <2> QED BY <2>2, <2>3
<1>4. T = DOMAIN nodes
  <2>1. T \in SUBSET DOMAIN nodes
    OBVIOUS
  <2> HIDE DEF T
  <2> QED BY <1>3, <2>1, ByDepth
<1> QED BY <1>2, <1>4

LEMMA RootAddsNone ==
  ASSUME NEW file, PagesOK(file), NEW new, PagesOK(new), NEW n, RootAdded(new, file, n), NEW x
  PROVE  All(new, x) = All(file, x)
<1>1. /\ n \notin DOMAIN file /\ DOMAIN new = DOMAIN file \cup {n} /\ HeldBy(new[n]) = << >>
      /\ \A q \in DOMAIN file : new[q] = file[q]
  BY DEF RootAdded
<1>2. PICK f, g, C, D, c : /\ f = Held(file) /\ g = Held(new) /\ C = DOMAIN file
                           /\ D = DOMAIN new /\ c = HeldBy(new[n])
  OBVIOUS
<1>3. /\ IsFiniteSet(C) /\ SeqsOn(f, C, Entry) /\ SeqsOn(g, D, Entry)
      /\ \A q \in C : f[q] = HeldBy(file[q])
      /\ \A q \in D : g[q] = HeldBy(new[q])
  BY <1>2, SeqsHeld
<1>4. /\ SeqsOn(g, C, Entry) /\ \A q \in C : Times(f[q], x) = Times(g[q], x)
      /\ c = << >> /\ c \in Seq(Entry) /\ Joins(g, n, c, C, D)
  BY <1>1, <1>2, <1>3 DEF SeqsOn, Joins
<1>5. Total(f, C, x) = Total(g, C, x)
  BY ONLY <1>3, <1>4, TotalSame
<1>6. Total(g, D, x) = Total(g, C, x) + Times(c, x)
  <2>1. Joins(g, n, c, C, D) /\ IsFiniteSet(C) /\ SeqsOn(g, C, Entry) /\ c \in Seq(Entry)
    BY <1>3, <1>4
  <2> QED BY ONLY <2>1, TotalOnePageMore
<1>7. Times(c, x) = 0 /\ Total(g, C, x) \in Nat
  BY <1>3, <1>4, TimesEmpty, TotalType
<1> QED BY <1>2, <1>5, <1>6, <1>7 DEF All

-----------------------------------------------------------------------------
(* Every step is one of KeyIndex.                                          *)

LEMMA StoredSettled ==
  ASSUME TreeInv, Settled, NEW e, touched = {}, touched' = {e}, UNCHANGED torn,
         NEW file, Store(file), DOMAIN file = DOMAIN nodes => Besides(e, nodes, file)
  PROVE  Settled'
<1>1. /\ nodes' = file
      /\ grown' = (grown \/ DOMAIN file # DOMAIN nodes)
      /\ cand' = [p \in DOMAIN file |->
                    (IF p \in DOMAIN cand THEN cand[p] ELSE {Unwritten}) \cup {file[p]}]
  BY DEF Store
<1>2. DOMAIN cand = DOMAIN nodes
  BY DEF TreeInv, Versions
<1>3. ASSUME ~torn', ~grown', NEW p \in DOMAIN nodes', NEW v \in cand'[p],
             NEW x \in Entry \ touched'
      PROVE  Times(HeldBy(v), x) = Times(HeldBy(nodes'[p]), x)
  <2>1. ~torn /\ ~grown /\ DOMAIN file = DOMAIN nodes /\ p \in DOMAIN nodes
    BY <1>1, <1>3
  <2>2. v = file[p] \/ v \in cand[p]
    BY <1>1, <1>2, <1>3, <2>1
  <2>3. x \in Entry \ {e} /\ x \in Entry \ touched
    BY <1>3
  <2>4. Times(HeldBy(file[p]), x) = Times(HeldBy(nodes[p]), x)
    BY <2>1, <2>3 DEF Besides
  <2>5. v \in cand[p] => Times(HeldBy(v), x) = Times(HeldBy(nodes[p]), x)
    BY <2>1, <2>3 DEF Settled
  <2> QED BY <1>1, <2>2, <2>4, <2>5
<1> QED BY <1>3 DEF Settled

(* What an insert stores.                                                  *)
LEMMA InsertStores ==
  ASSUME TreeInv, NEW key \in Key, NEW rowid \in RowId, Insert(key, rowid),
         NEW e, e = <<key, rowid>>
  PROVE  \E file :
           /\ Store(file) /\ PagesOK(file)
           /\ \A x \in Entry : All(file, x) = All(nodes, x) + One(e, x)
           /\ DOMAIN file = DOMAIN nodes => Besides(e, nodes, file)
<1>1. ~torn
  BY DEF Insert, Touch
<1>2. PICK depth, rank : Good(nodes, depth, rank)
  BY <1>1 DEF TreeInv, WholeTree, IsTree
<1>3. root \in DOMAIN nodes
  BY DEF TreeInv, Roots
<1>4. PICK r : r = InsertInto(key, rowid)
  OBVIOUS
<1>5. InsertOutcome(r, depth, root) /\ AddsOne(r, e)
  BY <1>2, <1>3, <1>4, InsertIntoOutcome, InsertIntoAddsOne
<1>6. PagesOK(r.nodes)
  BY <1>5 DEF InsertOutcome, Outcome, Good
<1>7. CASE r.right = 0 /\ Store(r.nodes) /\ UNCHANGED <<root, meta, metas>>
  BY <1>5, <1>6, <1>7 DEF AddsOne
<1>8. CASE r.right # 0 /\ Grows(r)
  <2>1. PICK file, n, node, new :
          /\ file = r.nodes /\ n = NewPage(r.nodes)
          /\ node = Internal(<<r.sep>>, <<root, r.right>>)
          /\ new = WithPage(file, n, node)
    OBVIOUS
  <2>2. Store(new)
    BY <1>8, <2>1 DEF Grows
  <2>3. /\ \E d, k : Good(new, d, k)
        /\ DOMAIN nodes \subseteq DOMAIN new /\ DOMAIN new # DOMAIN nodes
    BY <1>2, <1>3, <1>5, <1>8, <2>1, GrowsOutcome DEF InsertOutcome
  <2>4. PagesOK(new) /\ PagesOK(file) /\ RootAdded(new, file, n)
    <3>1. n \notin DOMAIN file
      BY <1>6, <2>1, NewPageNumber DEF PagesOK
    <3>2. node.is_leaf = FALSE /\ HeldBy(node) = << >>
      BY <2>1 DEF Internal, HeldBy
    <3>3. /\ DOMAIN new = DOMAIN file \cup {n} /\ new[n] = node
          /\ \A q \in DOMAIN file : new[q] = file[q]
      BY <2>1, <3>1 DEF WithPage
    <3> QED BY <1>6, <2>1, <2>3, <3>1, <3>2, <3>3 DEF Good, RootAdded
  <2>5. ASSUME NEW x \in Entry PROVE All(new, x) = All(nodes, x) + One(e, x)
    <3>1. All(new, x) = All(file, x)
      BY ONLY <2>4, RootAddsNone
    <3> QED BY <1>5, <2>1, <3>1 DEF AddsOne
  <2> QED BY <2>2, <2>3, <2>4, <2>5
<1> QED BY <1>4, <1>7, <1>8 DEF Insert

(* What a delete stores if it finds its entry, and that it is there.       *)
LEMMA DeleteStores ==
  ASSUME TreeInv, NEW key \in Key, NEW rowid \in RowId, Delete(key, rowid),
         Found(key, rowid) # << >>, NEW e, e = <<key, rowid>>
  PROVE  \E file :
           /\ Store(file) /\ PagesOK(file) /\ DOMAIN file = DOMAIN nodes
           /\ \A x \in Entry : All(nodes, x) = All(file, x) + One(e, x)
           /\ Besides(e, nodes, file)
<1>1. ~torn
  BY DEF Delete
<1>2. PICK depth, rank : Good(nodes, depth, rank)
  BY <1>1 DEF TreeInv, WholeTree, IsTree
<1>3. PICK place : place = Found(key, rowid)
  OBVIOUS
<1>4. IsPlace(place, key, rowid)
  BY <1>2, <1>3, FoundInLeaf DEF TreeInv, Roots
<1>5. PICK p \in Leaves : \E i \in DOMAIN nodes[p].keys :
        place = <<p, i>> /\ nodes[p].keys[i] = key /\ nodes[p].values[i] = rowid
  BY <1>3, <1>4 DEF IsPlace
<1>6. PICK i \in DOMAIN nodes[p].keys :
        place = <<p, i>> /\ nodes[p].keys[i] = key /\ nodes[p].values[i] = rowid
  BY <1>5
<1>7. PICK node : node = Leaf(RemoveAt(nodes[p].keys, i), RemoveAt(nodes[p].values, i),
                              nodes[p].next_leaf)
  OBVIOUS
<1>8. PICK file : file = [nodes EXCEPT ![p] = node]
  OBVIOUS
<1>9. Store(file)
  <2>1. Store([nodes EXCEPT ![place[1]] =
           Leaf(RemoveAt(@.keys, place[2]), RemoveAt(@.values, place[2]), @.next_leaf)])
    BY <1>3 DEF Delete
  <2>2. place[1] = p /\ place[2] = i
    BY <1>6
  <2> QED BY <1>7, <1>8, <2>1, <2>2
<1>10. PagesOK(nodes) /\ PagesOK(file) /\ DOMAIN file = DOMAIN nodes
  BY <1>2, <1>7, <1>8, Removed DEF Good
<1>11. /\ p \in DOMAIN nodes /\ file[p] = node
       /\ \A q \in DOMAIN nodes \ {p} : file[q] = nodes[q]
  BY <1>8 DEF Leaves
<1>12. /\ IsLeaf(nodes[p], DOMAIN nodes, MaxKeys) /\ IsLeaf(node, DOMAIN nodes, MaxKeys)
       /\ i \in 1 .. Len(nodes[p].keys)
  <2>1. IsNode(nodes[p], DOMAIN nodes, MaxKeys) /\ nodes[p].is_leaf
    BY <1>10, <1>11 DEF PagesOK, Leaves
  <2>2. IsNode(node, DOMAIN nodes, MaxKeys) /\ node.is_leaf
    <3>1. node.is_leaf
      BY <1>7 DEF Leaf
    <3>2. IsNode(file[p], DOMAIN file, MaxKeys)
      BY <1>10, <1>11 DEF PagesOK
    <3> QED BY <1>10, <1>11, <3>1, <3>2
  <2>3. IsLeaf(nodes[p], DOMAIN nodes, MaxKeys) /\ IsLeaf(node, DOMAIN nodes, MaxKeys)
    BY <2>1, <2>2, NodeOfMore
  <2>4. nodes[p].keys \in Seq(Key)
    BY <2>3, LeafHolds
  <2>5. i \in 1 .. Len(nodes[p].keys)
    BY <2>4
  <2> QED BY <2>3, <2>5
<1>13. PICK a, b : a = HeldBy(nodes[p]) /\ b = HeldBy(node)
  OBVIOUS
<1>14. ASSUME NEW x PROVE /\ Times(a, x) = Times(b, x) + One(e, x)
                          /\ Times(b, x) \in Nat /\ One(e, x) \in Nat
  <2>1. /\ node.keys = RemoveAt(nodes[p].keys, i) /\ node.values = RemoveAt(nodes[p].values, i)
        /\ e = <<nodes[p].keys[i], nodes[p].values[i]>>
    BY <1>6, <1>7 DEF Leaf
  <2>2. Times(HeldBy(nodes[p]), x) = Times(HeldBy(node), x) + One(e, x)
    BY ONLY <1>12, <2>1, RemovedHolds
  <2>3. b \in Seq(Entry)
    BY <1>12, <1>13, LeafHolds
  <2> QED BY <1>13, <2>2, <2>3, TimesType DEF One
<1>15. ASSUME NEW x \in Entry PROVE All(nodes, x) = All(file, x) + One(e, x)
  <2>1. b = HeldBy(file[p])
    BY <1>11, <1>13
  <2>2. All(file, x) + Times(a, x) = All(nodes, x) + Times(b, x)
    BY ONLY <1>10, <1>11, <1>13, <2>1, ReplacedTotals
  <2>3. All(nodes, x) \in Nat /\ All(file, x) \in Nat
    BY <1>10, AllType
  <2> QED BY <1>14, <2>2, <2>3
<1>16. ASSUME NEW q \in DOMAIN nodes, NEW x \in Entry \ {e}
       PROVE  Times(HeldBy(file[q]), x) = Times(HeldBy(nodes[q]), x)
  <2>1. CASE q = p
    <3>1. One(e, x) = 0
      BY <1>16 DEF One
    <3>2. Times(b, x) \in Nat /\ Times(a, x) = Times(b, x) + One(e, x)
      BY <1>14
    <3> QED BY <1>11, <1>13, <2>1, <3>1, <3>2
  <2>2. CASE q # p
    BY <1>11, <2>2
  <2> QED BY <2>1, <2>2
<1> QED BY <1>9, <1>10, <1>15, <1>16 DEF Besides

LEMMA SettledInit == Init => Settled
BY DEF Init, Settled

LEMMA SettledNext == TreeInv /\ Settled /\ [Next]_vars => Settled'
<1> SUFFICES ASSUME TreeInv, Settled, [Next]_vars PROVE Settled'
  OBVIOUS
<1>1. ASSUME NEW key \in Key, NEW rowid \in RowId, Insert(key, rowid) PROVE Settled'
  <2>1. PICK e : e = <<key, rowid>>
    OBVIOUS
  <2>2. PICK file : Store(file) /\ (DOMAIN file = DOMAIN nodes => Besides(e, nodes, file))
    BY <1>1, <2>1, InsertStores
  <2>3. touched = {} /\ touched' = {e} /\ UNCHANGED torn
    BY <1>1, <2>1 DEF Insert, Touch
  <2> QED BY <2>2, <2>3, StoredSettled
<1>2. ASSUME NEW key \in Key, NEW rowid \in RowId, Delete(key, rowid) PROVE Settled'
  <2>1. UNCHANGED torn
    BY <1>2 DEF Delete
  <2>2. CASE Found(key, rowid) # << >>
    <3>1. PICK e : e = <<key, rowid>>
      OBVIOUS
    <3>2. PICK file : Store(file) /\ Besides(e, nodes, file)
      BY <1>2, <2>2, <3>1, DeleteStores
    <3>3. touched = {} /\ touched' = {e}
      BY <1>2, <2>2, <3>1 DEF Delete, Touch
    <3> QED BY <2>1, <3>2, <3>3, StoredSettled
  <2>3. CASE UNCHANGED <<nodes, cand, touched, grown>>
    BY <2>1, <2>3 DEF Settled
  <2> QED BY <1>2, <2>2, <2>3 DEF Delete
<1>3. ASSUME \A p \in DOMAIN nodes' : cand'[p] = {nodes'[p]} PROVE Settled'
  BY <1>3 DEF Settled
<1>4. CASE Flush
  BY <1>3, <1>4 DEF Flush
<1>5. CASE Reopen
  <2>1. PICK file : nodes' = file /\ cand' = [p \in DOMAIN file |-> {file[p]}]
    BY <1>5 DEF Reopen
  <2> QED BY <1>3, <2>1
<1>6. CASE UNCHANGED vars
  BY <1>6 DEF vars, Settled
<1> QED BY <1>1, <1>2, <1>4, <1>5, <1>6 DEF Next

LEMMA EntriesAlwaysKnown == TreeInv /\ ShapeInv => EntryKnown
<1> SUFFICES ASSUME TreeInv, ShapeInv, ~torn PROVE PagesOK(nodes) /\ EntriesKnown
  BY DEF EntryKnown
<1>1. PICK depth, rank : Good(nodes, depth, rank)
  BY DEF TreeInv, WholeTree, IsTree
<1>2. PICK s : Placed(nodes, s, root)
  BY DEF ShapeInv, InPlace
<1>3. Once(nodes, {root}) /\ root \in DOMAIN nodes
  BY <1>2 DEF Placed, Shaped, TreeInv, Roots
<1>4. EntriesKnown
  BY <1>1, <1>3, EntriesAre
<1> QED BY <1>1, <1>4 DEF Good

(* The bags of KeyIndex, taken apart.                                      *)
LEMMA InsertsOne ==
  ASSUME NEW e, ~torn, UNCHANGED torn, Entries' = PlusOne(Entries, e),
         touched' = touched \cup {e}, answer' = << >>
  PROVE  Index!Insert(e)
<1>1. Entries' = [x \in DOMAIN Entries \cup {e} |->
                    (IF x \in DOMAIN Entries THEN Entries[x] ELSE 0)
                      + (IF x \in {e} THEN 1 ELSE 0)]
  BY DEF Copy, One, PlusOne
<1> QED BY <1>1 DEF Index!Insert, Index!(+), Index!SetToBag

LEMMA DeletesOne ==
  ASSUME NEW e, ~torn, UNCHANGED torn,
         e \in DOMAIN Entries, \A d \in DOMAIN Entries : Entries[d] \in Nat,
         Entries' = MinusOne(Entries, e),
         touched' = touched \cup {e}, answer' = Append(e, TRUE)
  PROVE  Index!Delete(e)
<1> DEFINE less == [d \in DOMAIN Entries |->
                      IF d \in DOMAIN Index!SetToBag({e})
                        THEN Entries[d] - Index!SetToBag({e})[d] ELSE Entries[d]]
<1>1. \A x \in DOMAIN Entries : less[x] = IF x = e THEN Entries[x] - 1 ELSE Entries[x]
  BY DEF Index!SetToBag
<1>2. DOMAIN less = DOMAIN Entries
  OBVIOUS
<1>3. Index!(-)(Entries, Index!SetToBag({e})) = [x \in {d \in DOMAIN less : less[d] > 0} |-> less[x]]
  BY DEF Index!(-)
<1> HIDE DEF less
<1>4. \A x \in DOMAIN Entries : Entries[x] - One(e, x) = less[x]
  BY <1>1 DEF One
<1>5. Entries' = Index!(-)(Entries, Index!SetToBag({e}))
  BY <1>2, <1>3, <1>4 DEF MinusOne
<1> QED BY <1>5 DEF Index!Delete, Index!BagIn, Index!BagToSet

(* What the entries are, with the bag of a file that is stored.            *)
LEMMA BagsStored ==
  ASSUME EntryKnown, EntryKnown', ~torn, UNCHANGED torn, NEW file, Store(file), PagesOK(file)
  PROVE  \E f, C, g, D :
           /\ f = Held(nodes) /\ C = DOMAIN nodes /\ g = Held(file) /\ D = DOMAIN file
           /\ IsFiniteSet(C) /\ SeqsOn(f, C, Entry) /\ IsFiniteSet(D) /\ SeqsOn(g, D, Entry)
           /\ Entries = BagOn(f, C) /\ Entries' = BagOn(g, D)
           /\ \A x : All(nodes, x) = Total(f, C, x) /\ All(file, x) = Total(g, D, x)
<1>1. PICK f, C, g, D :
        f = Held(nodes) /\ C = DOMAIN nodes /\ g = Held(file) /\ D = DOMAIN file
  OBVIOUS
<1>2. IsFiniteSet(C) /\ SeqsOn(f, C, Entry) /\ Entries = BagOn(f, C)
  BY <1>1 DEF EntryKnown, EntriesKnown
<1>3. IsFiniteSet(D) /\ SeqsOn(g, D, Entry)
  BY <1>1, SeqsHeld
<1>4. Entries' = BagOn(g, D)
  <2>1. nodes' = file
    BY DEF Store
  <2>2. Entries' = BagOn(Held(nodes'), DOMAIN nodes')
    BY DEF EntryKnown, EntriesKnown, Held
  <2> QED BY <1>1, <2>1, <2>2
<1>5. \A x : All(nodes, x) = Total(f, C, x) /\ All(file, x) = Total(g, D, x)
  BY <1>1 DEF All
<1> QED BY <1>1, <1>2, <1>3, <1>4, <1>5

LEMMA InsertStep ==
  ASSUME TreeInv, EntryKnown, EntryKnown',
         NEW key \in Key, NEW rowid \in RowId, Insert(key, rowid)
  PROVE  Index!Insert(<<key, rowid>>)
<1>1. PICK e : e = <<key, rowid>> /\ e \in Entry
  <2>1. <<key, rowid>> \in Entry
    BY DEF Entry
  <2> QED BY <2>1
<1>2. ~torn /\ UNCHANGED torn /\ touched' = touched \cup {e} /\ answer' = << >>
  BY <1>1 DEF Insert, Touch
<1>3. PICK file : /\ Store(file) /\ PagesOK(file)
                  /\ \A x \in Entry : All(file, x) = All(nodes, x) + One(e, x)
  BY <1>1, InsertStores
<1>4. PICK f, C, g, D :
        /\ IsFiniteSet(C) /\ SeqsOn(f, C, Entry) /\ IsFiniteSet(D) /\ SeqsOn(g, D, Entry)
        /\ Entries = BagOn(f, C) /\ Entries' = BagOn(g, D)
        /\ \A x : All(nodes, x) = Total(f, C, x) /\ All(file, x) = Total(g, D, x)
  BY <1>2, <1>3, BagsStored
<1>5. OneMore(f, C, g, D, Entry, e)
  BY <1>3, <1>4 DEF OneMore
<1>6. BagOn(g, D) = PlusOne(BagOn(f, C), e)
  BY ONLY <1>1, <1>4, <1>5, BagPlusOne
<1>7. Entries' = PlusOne(Entries, e)
  BY <1>4, <1>6
<1>8. Index!Insert(e)
  BY ONLY <1>2, <1>7, InsertsOne
<1> QED BY <1>1, <1>8

(* Where no leaf is empty, a walk that ends without the entry has passed   *)
(* all there is of its key.                                                *)
LEMMA WalkPassesAll ==
  ASSUME NEW depth, NEW rank, NEW s, InTree(depth, rank, s), NoEmptyLeaf,
         NEW key \in Key, NEW rowid \in RowId, Found(key, rowid) = << >>
  PROVE  Total(Held(nodes), DOMAIN nodes, <<key, rowid>>) = 0
<1>1. Good(nodes, depth, rank) /\ Shaped(nodes, s, {root}) /\ root \in DOMAIN nodes /\ key \in Int
  BY TreeAssumption DEF InTree, Placed
<1> DEFINE from == CHOOSE f : f = [p \in Leaves |-> FoundStep(f, key, rowid, p)]
<1>2. from = [p \in Leaves |-> FoundStep(from, key, rowid, p)]
  BY <1>1, FoundExists
<1>3. Found(key, rowid) = from[FindLeaf(key)]
  BY DEF Found, FoundStep
<1> HIDE DEF from
<1>4. PICK results, e : results = Results(key) /\ e = <<key, rowid>>
  OBVIOUS
<1>5. Ordered
  BY TreeIsOrdered
<1>6. \A p \in Leaves :
        /\ results[p] \in Seq(RowId)
        /\ \A v : Times(results[p], v) = Times(Streams[p], <<key, v>>)
  BY <1>1, <1>4, <1>5, SearchesStream
<1> DEFINE T == {p \in Leaves : from[p] = << >> => Times(results[p], rowid) = 0}
<1>7. ASSUME NEW p \in Leaves, \A q \in Leaves : rank[q] < rank[p] => q \in T
      PROVE  p \in T
  <2> SUFFICES ASSUME from[p] = << >> PROVE Times(results[p], rowid) = 0
    OBVIOUS
  <2>1. << >> = FoundStep(from, key, rowid, p)
    BY <1>2
  <2>2. Matches(nodes[p], key, rowid) = {}
    <3>1. PICK i : i = Min(Matches(nodes[p], key, rowid))
      OBVIOUS
    <3>2. <<p, i>> # << >>
      OBVIOUS
    <3> QED BY <2>1, <3>1, <3>2 DEF FoundStep
  <2>3. PICK a, h, keys, values : /\ a = Hits(p, key) /\ h = Held(nodes)[p]
                                  /\ keys = nodes[p].keys /\ values = nodes[p].values
    OBVIOUS
  <2>4. a \in Seq(RowId) /\ Times(a, rowid) = Times(h, e)
    <3>1. Sorted(nodes[p].keys)
      BY <1>5 DEF Ordered
    <3> QED BY <1>1, <1>4, <2>3, <3>1, HitsAre
  <2>5. PICK m \in Nat : m = Len(keys) /\ keys \in Seq(Key)
    BY <1>1, <2>3, LeafType
  <2>6. h \in Seq(Entry) /\ DOMAIN h = 1 .. m /\ \A i \in 1 .. m : h[i] = <<keys[i], values[i]>>
    BY <1>1, <2>3, <2>5, LeafEntries
  <2>7. Times(h, e) = 0
    <3>1. ASSUME NEW i \in 1 .. m, h[i] = e PROVE FALSE
      <4>1. keys[i] = key /\ values[i] = rowid
        BY <1>4, <2>6, <3>1
      <4>2. i \in DOMAIN keys
        BY <2>5
      <4> QED BY <2>2, <2>3, <4>1, <4>2 DEF Matches
    <3>2. \A i \in DOMAIN h : h[i] # e
      BY <2>6, <3>1
    <3> QED BY <2>6, <3>2, TimesType
  <2>8. results[p] = a \o IF WalksOn(nodes[p], key) THEN results[Link(p)] ELSE << >>
    BY <1>1, <1>4, <2>3, ResultsAre
  <2>9. CASE WalksOn(nodes[p], key)
    <3>1. PICK q, b : q = Link(p) /\ b = results[q]
      OBVIOUS
    <3>2. q \in Leaves /\ rank[q] < rank[p]
      <4>1. Link(p) # 0
        BY <2>9 DEF WalksOn, Link
      <4> QED BY <1>1, <3>1, <4>1, LeafType
    <3>3. from[q] = << >>
      BY <2>1, <2>2, <2>9, <3>1 DEF FoundStep, Link
    <3>4. Times(b, rowid) = 0
      BY <1>7, <3>1, <3>2, <3>3
    <3>5. b \in Seq(RowId)
      BY <1>6, <3>1, <3>2
    <3>6. Times(a \o b, rowid) = Times(a, rowid) + Times(b, rowid)
      BY <2>4, <3>5, TimesConcat
    <3>7. results[p] = a \o b
      BY <2>8, <2>9, <3>1
    <3> QED BY <2>4, <2>7, <3>4, <3>6, <3>7
  <2>10. CASE ~WalksOn(nodes[p], key)
    <3>1. a \o << >> = a
      BY <2>4
    <3> QED BY <2>4, <2>7, <2>8, <2>10, <3>1
  <2> QED BY <2>9, <2>10
<1>8. T = Leaves
  <2>1. T \in SUBSET Leaves
    OBVIOUS
  <2> HIDE DEF T
  <2> QED BY <1>1, <1>7, <2>1, ByRank
<1>9. PICK p : p = FindLeaf(key) /\ p \in Leaves /\ Before(s, p, key)
  BY FindLeafIs
<1>10. Times(results[p], rowid) = 0
  <2>1. from[p] = << >>
    BY <1>3, <1>9
  <2>2. p \in T
    BY <1>8, <1>9
  <2> QED BY <2>1, <2>2
<1>11. Times(Streams[p], e) = 0
  BY <1>4, <1>6, <1>9, <1>10
<1>12. e \in Entry /\ e[1] = key
  BY <1>4 DEF Entry
<1>13. key <= e[1]
  BY <1>1, <1>12
<1>14. Times(Streams[p], e) = Total(Held(nodes), DOMAIN nodes, e)
  BY <1>9, <1>12, <1>13, AllAtOrBehind
<1> QED BY <1>4, <1>11, <1>14

LEMMA DeleteStep ==
  ASSUME TreeInv, ShapeInv, EntryKnown, EntryKnown',
         NEW key \in Key, NEW rowid \in RowId, Delete(key, rowid)
  PROVE  Index!Delete(<<key, rowid>>)
<1>1. PICK e : e = <<key, rowid>> /\ e \in Entry
  <2>1. <<key, rowid>> \in Entry
    BY DEF Entry
  <2> QED BY <2>1
<1>2. ~torn /\ UNCHANGED torn
  BY DEF Delete
<1>3. CASE Found(key, rowid) # << >>
  <2>1. touched' = touched \cup {e} /\ answer' = Append(e, TRUE)
    <3>1. touched' = touched \cup {e} /\ answer' = <<key, rowid, TRUE>>
      BY <1>1, <1>3 DEF Delete, Touch
    <3> QED BY <1>1, <3>1, AppendedThird
  <2>2. PICK file : /\ Store(file) /\ PagesOK(file)
                    /\ \A x \in Entry : All(nodes, x) = All(file, x) + One(e, x)
    BY <1>1, <1>3, DeleteStores
  <2>3. PICK f, C, g, D :
          /\ IsFiniteSet(C) /\ SeqsOn(f, C, Entry) /\ IsFiniteSet(D) /\ SeqsOn(g, D, Entry)
          /\ Entries = BagOn(f, C) /\ Entries' = BagOn(g, D)
          /\ \A x : All(nodes, x) = Total(f, C, x) /\ All(file, x) = Total(g, D, x)
    BY <1>2, <2>2, BagsStored
  <2>4. OneMore(g, D, f, C, Entry, e)
    BY <2>2, <2>3 DEF OneMore
  <2>5. e \in DOMAIN BagOn(f, C) /\ BagOn(g, D) = MinusOne(BagOn(f, C), e)
    BY ONLY <1>1, <2>3, <2>4, BagMinusOne
  <2>6. \A d \in DOMAIN Entries : Entries[d] \in Nat
    <3>1. \A d \in DOMAIN BagOn(f, C) : BagOn(f, C)[d] = Total(f, C, d) /\ Total(f, C, d) \in Nat
      BY <2>3, BagOnIs, TotalType
    <3> QED BY <2>3, <3>1
  <2>7. e \in DOMAIN Entries /\ Entries' = MinusOne(Entries, e)
    BY <2>3, <2>5
  <2>8. Index!Delete(e)
    BY ONLY <1>2, <2>1, <2>6, <2>7, DeletesOne
  <2> QED BY <1>1, <2>8
<1>4. CASE Found(key, rowid) = << >>
  <2>1. /\ UNCHANGED <<nodes, touched, root>> /\ answer' = <<key, rowid, FALSE>>
    BY <1>4 DEF Delete
  <2>2. answer' = Append(e, FALSE)
    BY <1>1, <2>1, AppendedThird
  <2>3. Entries' = Entries
    <3>1. Entries = BagOn(Held(nodes), DOMAIN nodes)
      BY <1>2 DEF EntryKnown, EntriesKnown
    <3>2. Entries' = BagOn(Held(nodes'), DOMAIN nodes')
      BY <1>2 DEF EntryKnown, EntriesKnown, Held
    <3> QED BY <2>1, <3>1, <3>2
  <2>4. ASSUME NoEmptyLeaf PROVE e \notin DOMAIN Entries
    <3>1. PICK depth, rank : Good(nodes, depth, rank)
      BY <1>2 DEF TreeInv, WholeTree, IsTree
    <3>2. PICK s : Placed(nodes, s, root)
      BY <1>2 DEF ShapeInv, InPlace
    <3>3. InTree(depth, rank, s)
      BY <3>1, <3>2 DEF InTree, TreeInv, Roots
    <3>4. Total(Held(nodes), DOMAIN nodes, e) = 0
      BY <1>1, <1>4, <2>4, <3>3, WalkPassesAll
    <3>5. PICK f, C : f = Held(nodes) /\ C = DOMAIN nodes
      OBVIOUS
    <3>6. IsFiniteSet(C) /\ SeqsOn(f, C, Entry) /\ Entries = BagOn(f, C)
      BY <1>2, <3>5 DEF EntryKnown, EntriesKnown
    <3>7. e \in DOMAIN BagOn(f, C) <=> Total(f, C, e) # 0
      BY <3>6, BagOnIs
    <3> QED BY <3>4, <3>5, <3>6, <3>7
  <2>5. Index!Delete(e)
    BY <1>2, <2>1, <2>2, <2>3, <2>4 DEF Index!Delete, Index!BagIn, Index!BagToSet
  <2> QED BY <1>1, <2>5
<1> QED BY <1>3, <1>4

LEMMA FlushStep ==
  ASSUME EntryKnown, EntryKnown', ~torn, Flush
  PROVE  Index!Flush
<1>1. UNCHANGED <<nodes, torn>> /\ touched' = {} /\ answer' = << >>
  BY DEF Flush
<1>2. Entries = BagOn(Held(nodes), DOMAIN nodes)
  BY DEF EntryKnown, EntriesKnown
<1>3. Entries' = BagOn(Held(nodes'), DOMAIN nodes')
  BY <1>1 DEF EntryKnown, EntriesKnown, Held
<1>4. Entries' = Entries
  BY <1>1, <1>2, <1>3
<1> QED BY <1>1, <1>4 DEF Index!Flush

(* A kill of a tree that has not grown.                                    *)
LEMMA ReopenStep ==
  ASSUME TreeInv, Settled, EntryKnown, EntryKnown', ~torn, Reopen
  PROVE  Index!Reopen
<1>1. touched' = {} /\ answer' = << >> /\ (grown => torn')
  BY DEF Reopen
<1>2. ASSUME ~torn', NEW x \in Entry \ touched
      PROVE  Index!Copies(x, IF torn' THEN EmptyBag ELSE Entries')
               = Index!Copies(x, IF torn THEN EmptyBag ELSE Entries)
  <2>1. ~grown
    BY <1>1, <1>2
  <2>2. PICK file : nodes' = file /\ file \in Mixes
    BY DEF Reopen
  <2>3. DOMAIN file = DOMAIN nodes /\ \A p \in DOMAIN nodes : file[p] \in cand[p]
    BY <2>2, MixesAre DEF TreeInv
  <2>4. PICK f, g, C : f = Held(nodes) /\ g = Held(file) /\ C = DOMAIN nodes
    OBVIOUS
  <2>5. IsFiniteSet(C) /\ SeqsOn(f, C, Entry) /\ Entries = BagOn(f, C)
    BY <2>4 DEF EntryKnown, EntriesKnown
  <2>6. SeqsOn(g, C, Entry) /\ Entries' = BagOn(g, C)
    <3>1. PagesOK(file)
      BY <1>2, <2>2 DEF EntryKnown, PagesOK, Numbered
    <3>2. Entries' = BagOn(Held(nodes'), DOMAIN nodes')
      BY <1>2 DEF EntryKnown, EntriesKnown, Held
    <3> QED BY <2>2, <2>3, <2>4, <3>1, <3>2, SeqsHeld
  <2>7. \A p \in C : Times(f[p], x) = Times(g[p], x)
    <3> SUFFICES ASSUME NEW p \in C PROVE Times(f[p], x) = Times(g[p], x)
      OBVIOUS
    <3>1. f[p] = HeldBy(nodes[p]) /\ g[p] = HeldBy(file[p])
      BY <2>3, <2>4 DEF Held
    <3>2. Times(HeldBy(file[p]), x) = Times(HeldBy(nodes[p]), x)
      BY <1>2, <2>1, <2>3, <2>4 DEF Settled
    <3> QED BY <3>1, <3>2
  <2>8. Total(f, C, x) = Total(g, C, x)
    BY ONLY <2>5, <2>6, <2>7, TotalSame
  <2>9. Copy(BagOn(f, C), x) = Total(f, C, x) /\ Copy(BagOn(g, C), x) = Total(g, C, x)
    BY <2>5, <2>6, BagOnCopies
  <2>10. Copy(Entries', x) = Copy(Entries, x)
    BY <2>5, <2>6, <2>8, <2>9
  <2> QED BY <1>2, <2>10 DEF Copy, Index!Copies, Index!BagIn, Index!BagToSet
<1> QED BY <1>1, <1>2 DEF Index!Reopen, Entry

LEMMA EveryStep ==
  ASSUME TreeInv, ShapeInv, Settled, EntryKnown, EntryKnown', [Next]_vars
  PROVE  [~torn => Index!Next]_IndexVars
<1> SUFFICES ASSUME ~torn PROVE Index!Next \/ UNCHANGED IndexVars
  OBVIOUS
<1>1. ASSUME NEW key \in Key, NEW rowid \in RowId, Insert(key, rowid) \/ Delete(key, rowid)
      PROVE  Index!Next
  <2>1. Index!Insert(<<key, rowid>>) \/ Index!Delete(<<key, rowid>>)
    BY <1>1, InsertStep, DeleteStep
  <2>2. <<key, rowid>> \in Key \X RowId
    OBVIOUS
  <2> QED BY <2>1, <2>2 DEF Index!Next
<1>2. CASE Flush
  BY <1>2, FlushStep DEF Index!Next
<1>3. CASE Reopen
  BY <1>3, ReopenStep DEF Index!Next
<1>4. CASE UNCHANGED vars
  <2>1. UNCHANGED <<nodes, touched, torn, answer>>
    BY <1>4 DEF vars
  <2>2. Entries = BagOn(Held(nodes), DOMAIN nodes)
    BY DEF EntryKnown, EntriesKnown
  <2>3. Entries' = BagOn(Held(nodes'), DOMAIN nodes')
    BY <2>1 DEF EntryKnown, EntriesKnown, Held
  <2> QED BY <2>1, <2>2, <2>3 DEF IndexVars
<1> QED BY <1>1, <1>2, <1>3, <1>4 DEF Next

LEMMA StartsEmpty == Init => Index!Initially
<1> SUFFICES ASSUME Init PROVE Index!Initially
  OBVIOUS
<1>1. EntryKnown /\ ~torn /\ touched = {} /\ answer = << >>
  BY TreeInit, ShapeInit, EntriesAlwaysKnown DEF Init
<1>2. PICK f, C : f = Held(nodes) /\ C = DOMAIN nodes
  OBVIOUS
<1>3. Entries = BagOn(f, C)
  BY <1>1, <1>2 DEF EntryKnown, EntriesKnown
<1>4. \A p \in C : DOMAIN f[p] = {}
  <2> SUFFICES ASSUME NEW p \in C PROVE DOMAIN f[p] = {}
    OBVIOUS
  <2>1. nodes[p] = Leaf(<< >>, << >>, 0)
    BY <1>2 DEF Init
  <2>2. nodes[p].is_leaf /\ nodes[p].keys = << >>
    BY <2>1 DEF Leaf
  <2>3. f[p] = EntriesOf(nodes[p])
    BY <1>2, <2>2 DEF Held, HeldBy
  <2> QED BY <2>2, <2>3 DEF EntriesOf
<1>5. PlacesOf(f, C) = {}
  BY <1>4 DEF PlacesOf
<1>6. DOMAIN Entries = {}
  BY <1>3, <1>5 DEF BagOn
<1>7. Entries = [x \in DOMAIN Entries |-> Entries[x]]
  BY <1>3 DEF BagOn
<1>8. Entries = Index!EmptyBag
  BY <1>6, <1>7 DEF Index!EmptyBag, Index!SetToBag
<1> QED BY <1>1, <1>8 DEF Index!Initially

(* KeepsEntries: the tree is the bag of entries that KeyIndex promises,    *)
(* however its nodes split and however many leaves hold a key.  An insert  *)
(* adds its entry and changes no other; a delete removes one such entry    *)
(* and says so, or says that there is none, which is true while no leaf    *)
(* below the root is empty; and a kill takes no entry but those touched    *)
(* since the last flush, unless pages were added since then (insert,       *)
(* delete, flush of btree.py).                                             *)
THEOREM EntriesAreKept == Spec => KeepsEntries
<1>1. Init => TreeInv /\ ShapeInv /\ Settled
  BY TreeInit, ShapeInit, SettledInit
<1>2. TreeInv /\ ShapeInv /\ Settled /\ [Next]_vars => (TreeInv /\ ShapeInv /\ Settled)'
  BY TreeNext, ShapeNext, SettledNext
<1>3. TreeInv /\ ShapeInv => EntryKnown
  BY EntriesAlwaysKnown
<1>4. (TreeInv /\ ShapeInv)' => EntryKnown'
  BY <1>3, PTL
<1>5. TreeInv /\ ShapeInv /\ Settled /\ (TreeInv /\ ShapeInv /\ Settled)' /\ [Next]_vars
        => [~torn => Index!Next]_IndexVars
  BY <1>3, <1>4, EveryStep
<1>6. [~torn => Index!Next]_IndexVars =>
        [~torn => Index!Next]_<<IF torn THEN EmptyBag ELSE Entries, touched, ~torn, answer>>
  BY DEF IndexVars
<1> QED BY <1>1, <1>2, <1>5, <1>6, StartsEmpty, PTL DEF Spec, KeepsEntries, Index!Spec

-----------------------------------------------------------------------------
(* The versions of the pages while a tree grows.                           *)

(* What is routed to the leaf in front of a child is not above the         *)
(* separator there.                                                        *)
LEMMA SeparatorIsAbove ==
  ASSUME NEW depth, NEW rank, NEW s, InTree(depth, rank, s),
         NEW p \in DOMAIN nodes, ~nodes[p].is_leaf, NEW i \in 1 .. Len(nodes[p].keys),
         NEW c, c = nodes[p].children[i + 1], NEW q \in Leaves, Link(q) = s[c].first
  PROVE  s[c].first \in Leaves /\ \A k \in s[q].range : k <= nodes[p].keys[i]
<1>1. Good(nodes, depth, rank) /\ Shaped(nodes, s, {root})
  BY DEF InTree, Placed
<1>2. PICK n \in Nat :
        /\ n = Len(nodes[p].keys)
        /\ \A j \in 1 .. n + 1 : nodes[p].children[j] \in DOMAIN nodes
        /\ InnerFits(nodes[p], p, s)
  BY <1>1, KidsOf
<1>3. i \in 1 .. n /\ i \in 1 .. n + 1 /\ i + 1 \in 1 .. n + 1 /\ i <= n
  BY <1>2
<1>4. PICK d : d = nodes[p].children[i]
  OBVIOUS
<1>5. d \in DOMAIN nodes /\ c \in DOMAIN nodes /\ s[d].after = s[c].first
  BY <1>2, <1>3, <1>4 DEF InnerFits
<1>6. s[c].first \in Leaves
  <2>1. s[c].first \in LeavesUnder(c)
    BY <1>1, <1>5, FirstBelow
  <2> QED BY <2>1 DEF LeavesUnder
<1>7. PICK r \in LeavesUnder(d) : Link(r) = s[d].after
  BY <1>1, <1>5, LastBelow
<1>8. r \in Leaves /\ r \in Below(d)
  BY <1>7 DEF LeavesUnder
<1>9. q = r
  BY <1>5, <1>6, <1>7, <1>8, LinkOnce
<1>10. s[r].range \subseteq s[d].range
  BY <1>1, <1>5, <1>8, NarrowerBelow
<1>11. s[d].range = Part(s[p].range, nodes[p].keys, i)
  BY <1>2, <1>3, <1>4 DEF InnerFits
<1>12. \A k \in s[d].range : k <= nodes[p].keys[i]
  BY <1>2, <1>3, <1>11 DEF Part
<1> QED BY <1>6, <1>9, <1>10, <1>12

(* What was stored before an insert or a delete of e.                      *)
LEMMA OldMay ==
  ASSUME NEW depth, NEW rank, NEW s, InTree(depth, rank, s),
         NEW file, NEW d, NEW k, Good(file, d, k), \A q \in DOMAIN nodes : d[q] = depth[q],
         NEW t, NEW e, Leafwise(file, s, t, e), NEW p \in DOMAIN nodes
  PROVE  May(nodes[p], file, p, d, t, Entry \ {e})
<1>1. Good(nodes, depth, rank) /\ Shaped(nodes, s, {root}) /\ PagesOK(nodes)
  BY DEF InTree, Placed, Good
<1>2. DOMAIN nodes \subseteq DOMAIN file
  BY DEF Leafwise
<1>3. IsNode(nodes[p], DOMAIN file, MaxKeys) /\ (nodes[p].is_leaf <=> file[p].is_leaf)
  <2>1. IsNode(nodes[p], DOMAIN nodes, MaxKeys)
    BY <1>1 DEF PagesOK
  <2>2. IsNode(nodes[p], DOMAIN file, MaxKeys)
    BY <1>2, <2>1, NodeOfMore
  <2> QED BY <2>2 DEF Leafwise
<1>4. Sorted(nodes[p].keys) /\ Within(nodes[p].keys, s[p].range)
  BY <1>1 DEF Shaped, Fits, LeafFits, InnerFits
<1>5. ASSUME nodes[p].is_leaf
      PROVE  \/ AsLeaf(nodes[p], file, p, t, Entry \ {e})
             \/ \E n : AsTwo(nodes[p], file, p, n, t, Entry \ {e})
  <2>1. p \in Leaves
    BY <1>5 DEF Leaves
  <2>2. CASE Stays(file, s, t, e, p)
    BY <1>4, <2>2 DEF Stays, AsLeaf
  <2>3. ASSUME NEW n, Splits(file, s, t, e, p, n)
        PROVE  AsTwo(nodes[p], file, p, n, t, Entry \ {e})
    <3>1. Within(nodes[p].keys, t[p].range \cup t[n].range)
      BY <1>4, <2>3 DEF Splits, Within
    <3> QED BY <2>3, <3>1 DEF Splits, AsTwo
  <2> QED BY <2>1, <2>2, <2>3 DEF Leafwise
<1>6. ASSUME ~nodes[p].is_leaf PROVE AsInner(nodes[p], file, p, d, t)
  <2>1. PICK n \in Nat :
          /\ n = Len(nodes[p].keys) /\ n >= 1
          /\ \A j \in 1 .. n + 1 : nodes[p].children[j] \in DOMAIN nodes
          /\ InnerFits(nodes[p], p, s)
    BY <1>1, <1>6, KidsOf
  <2>2. nodes[p].children \in Seq(AtDepth(d, d[p] - 1))
    <3>1. nodes[p].children \in Seq(AtDepth(depth, depth[p] - 1))
      BY <1>1, <1>6, Children
    <3>2. AtDepth(depth, depth[p] - 1) \subseteq AtDepth(d, d[p] - 1)
      BY <1>1, <1>2 DEF AtDepth, Good, DepthOK
    <3> QED BY <3>1, <3>2, SeqOfMore
  <2>3. \A q \in DOMAIN nodes : t[q].first = s[q].first /\ t[q].range \subseteq s[q].range
    BY DEF Leafwise
  <2>4. t[nodes[p].children[1]].first = t[p].first
    <3>1. 1 \in 1 .. n + 1
      BY <2>1
    <3> QED BY <2>1, <2>3, <3>1 DEF InnerFits
  <2>5. ASSUME NEW i \in 1 .. n, NEW q \in DOMAIN file, file[q].is_leaf,
               file[q].next_leaf = t[nodes[p].children[i + 1]].first, NEW m \in t[q].range
        PROVE  m <= nodes[p].keys[i]
    <3>1. PICK c : c = nodes[p].children[i + 1]
      OBVIOUS
    <3>2. c \in DOMAIN nodes /\ file[q].next_leaf = s[c].first
      <4>1. i + 1 \in 1 .. n + 1
        BY <2>1
      <4> QED BY <2>1, <2>3, <2>5, <3>1, <4>1
    <3>3. s[c].first \in Leaves
      <4>1. s[c].first \in LeavesUnder(c)
        BY <1>1, <3>2, FirstBelow
      <4> QED BY <4>1 DEF LeavesUnder
    <3>4. ASSUME NEW r \in Leaves, Link(r) = s[c].first, m \in s[r].range
          PROVE  m <= nodes[p].keys[i]
      BY <1>6, <2>1, <3>1, <3>4, SeparatorIsAbove
    <3>5. CASE q \in DOMAIN nodes
      <4>1. q \in Leaves
        BY <2>5, <3>5 DEF Leafwise, Leaves
      <4>2. \A r : ~Splits(file, s, t, e, q, r)
        BY <3>2, <3>3 DEF Splits, Leaves
      <4>3. Stays(file, s, t, e, q)
        BY <4>1, <4>2 DEF Leafwise
      <4> QED BY <2>5, <3>2, <3>4, <4>1, <4>3 DEF Stays, Link
    <3>6. CASE q \notin DOMAIN nodes
      <4>1. PICK r \in Leaves : q = file[r].next_leaf
        BY <2>5, <3>6 DEF Leafwise
      <4>2. ~Stays(file, s, t, e, r)
        <5>1. Link(r) \in DOMAIN nodes \cup {0}
          BY <1>1, LeafType DEF Leaves
        <5>2. 0 \notin DOMAIN file
          BY NewPageNumber DEF Good, PagesOK
        <5> QED BY <3>6, <4>1, <5>1, <5>2 DEF Stays, Link
      <4>3. PICK l : Splits(file, s, t, e, r, l)
        BY <4>1, <4>2 DEF Leafwise
      <4>4. Link(r) = s[c].first /\ m \in s[r].range
        BY <2>5, <3>2, <4>1, <4>3 DEF Splits, Link
      <4> QED BY <3>4, <4>1, <4>4
    <3> QED BY <3>5, <3>6
  <2> QED BY <2>1, <2>2, <2>4, <2>5 DEF AsInner
<1> QED BY <1>3, <1>4, <1>5, <1>6 DEF May

LEMMA StoredIsMay == StoredMay
<1> SUFFICES ASSUME NEW depth, NEW rank, NEW s, InTree(depth, rank, s),
                    NEW p \in DOMAIN nodes, NEW T
             PROVE  May(nodes[p], nodes, p, depth, s, T)
  BY DEF StoredMay
<1>1. Good(nodes, depth, rank) /\ Shaped(nodes, s, {root}) /\ IsNode(nodes[p], DOMAIN nodes, MaxKeys)
  BY DEF InTree, Placed, Good, PagesOK
<1>2. Sorted(nodes[p].keys) /\ Within(nodes[p].keys, s[p].range)
  BY <1>1 DEF Shaped, Fits, LeafFits, InnerFits
<1>3. AsLeaf(nodes[p], nodes, p, s, T)
  BY <1>2 DEF AsLeaf
<1>4. ASSUME ~nodes[p].is_leaf PROVE AsInner(nodes[p], nodes, p, depth, s)
  <2>1. PICK n \in Nat : n = Len(nodes[p].keys) /\ InnerFits(nodes[p], p, s)
    BY <1>1, <1>4, KidsOf
  <2>2. nodes[p].children \in Seq(AtDepth(depth, depth[p] - 1))
    BY <1>1, <1>4, Children
  <2>3. s[nodes[p].children[1]].first = s[p].first
    BY <2>1 DEF InnerFits
  <2>4. ASSUME NEW i \in 1 .. n, NEW q \in DOMAIN nodes, nodes[q].is_leaf,
               nodes[q].next_leaf = s[nodes[p].children[i + 1]].first, NEW m \in s[q].range
        PROVE  m <= nodes[p].keys[i]
    <3>1. PICK c : c = nodes[p].children[i + 1]
      OBVIOUS
    <3>2. q \in Leaves /\ Link(q) = s[c].first
      BY <2>4, <3>1 DEF Leaves, Link
    <3> QED BY <1>4, <2>1, <2>4, <3>1, <3>2, SeparatorIsAbove
  <2> QED BY <2>1, <2>2, <2>3, <2>4 DEF AsInner
<1> QED BY <1>1, <1>2, <1>3, <1>4 DEF May

(* A root that is a leaf has none behind it.                               *)
LEMMA RootIsLast ==
  ASSUME NEW depth, NEW rank, NEW s, InTree(depth, rank, s), nodes[root].is_leaf
  PROVE  nodes[root].next_leaf = 0
<1>1. Fits(nodes[root], root, s) /\ s[root].after = 0
  BY DEF InTree, Placed, Shaped
<1> QED BY <1>1 DEF Fits, LeafFits

LEMMA StoredMix == TreeInv /\ ShapeInv /\ AsStored => MixInv
<1> SUFFICES ASSUME TreeInv, ShapeInv, AsStored, ~torn
             PROVE  \E depth, rank, t : Mixable(depth, rank, t)
  BY DEF MixInv
<1>1. PICK depth, rank : Good(nodes, depth, rank)
  BY DEF TreeInv, WholeTree, IsTree
<1>2. PICK s : Placed(nodes, s, root)
  BY DEF ShapeInv, InPlace
<1>3. InTree(depth, rank, s)
  BY <1>1, <1>2 DEF InTree, TreeInv, Roots
<1>4. \A p \in DOMAIN nodes : May(nodes[p], nodes, p, depth, s, Entry \ touched)
  <2>1. \A p \in DOMAIN nodes : \A T : May(nodes[p], nodes, p, depth, s, T)
    BY <1>3, StoredIsMay DEF StoredMay
  <2> QED BY <2>1
<1>5. ~Unwritten.is_leaf
  BY DEF Unwritten, Internal
<1>6. FirstRoots(s)
  <2>1. \A v \in cand[root] : v = Unwritten \/ v = nodes[root]
    BY <1>3 DEF AsStored, InTree
  <2>2. nodes[root].is_leaf => nodes[root].next_leaf = 0
    BY <1>3, RootIsLast
  <2> QED BY <1>3, <1>5, <2>1, <2>2 DEF FirstRoots, AsStored, InTree
<1>7. Mixable(depth, rank, s)
  BY <1>3, <1>4, <1>6 DEF Mixable, AsStored
<1> QED BY <1>7

(* Storing the first change since the last flush.                          *)
LEMMA StoresMix ==
  ASSUME TreeInv, TreeInv', ~torn, UNCHANGED torn, AsStored, NEW e, touched' = {e},
         NEW depth, NEW rank, NEW s, InTree(depth, rank, s),
         NEW file, NEW d, NEW k, Good(file, d, k), \A q \in DOMAIN nodes : d[q] = depth[q],
         NEW t, Placing(file, s, t, e)
  PROVE  MixInv'
<1>1. /\ nodes' = file /\ Leafwise(file, s, t, e) /\ Placed(file, t, root')
      /\ cand' = [p \in DOMAIN file |->
                    (IF p \in DOMAIN cand THEN cand[p] ELSE {Unwritten}) \cup {file[p]}]
  BY DEF Placing, Store
<1>2. DOMAIN cand = DOMAIN nodes /\ root \in DOMAIN nodes /\ root' \in DOMAIN file
      /\ DOMAIN nodes \subseteq DOMAIN file
  BY <1>1 DEF TreeInv, Versions, Roots, Leafwise
<1>3. InTree(d, k, t)'
  BY <1>1, <1>2 DEF InTree
<1>4. ASSUME NEW p \in DOMAIN file, NEW v \in cand'[p]
      PROVE  v = file[p] \/ v = Unwritten \/ (p \in DOMAIN nodes /\ v = nodes[p])
  BY <1>1, <1>2, <1>4 DEF AsStored
<1>5. ASSUME NEW p \in DOMAIN file, NEW v \in cand'[p]
      PROVE  v = Unwritten \/ May(v, file, p, d, t, Entry \ {e})
  <2>1. CASE v = file[p]
    <3>1. StoredMay'
      BY StoredIsMay, PTL
    <3>2. \A q \in DOMAIN nodes' : \A T : May(nodes'[q], nodes', q, d, t, T)
      BY <1>3, <3>1 DEF StoredMay
    <3>3. \A T : May(file[p], file, p, d, t, T)
      BY <1>1, <3>2
    <3> QED BY <2>1, <3>3
  <2>2. CASE p \in DOMAIN nodes /\ v = nodes[p]
    <3>1. May(nodes[p], file, p, d, t, Entry \ {e})
      BY ONLY InTree(depth, rank, s), Good(file, d, k), \A q \in DOMAIN nodes : d[q] = depth[q],
              <1>1, <2>2, OldMay
    <3> QED BY <2>2, <3>1
  <2> QED BY <1>4, <1>5, <2>1, <2>2
<1>6. FirstRoots(t)'
  <2>1. ~Unwritten.is_leaf
    BY DEF Unwritten, Internal
  <2>2. ASSUME NEW v \in cand'[root], v.is_leaf, v.next_leaf # 0 PROVE v.keys # << >>
    <3>1. nodes[root].is_leaf => nodes[root].next_leaf = 0
      BY RootIsLast
    <3>2. v = file[root]
      BY <1>2, <1>4, <2>1, <2>2, <3>1
    <3>3. root \in Leaves
      BY <1>1, <1>2, <2>2, <3>2 DEF Leafwise, Leaves
    <3>4. PICK n : Splits(file, s, t, e, root, n)
      <4>1. ~Stays(file, s, t, e, root)
        BY <2>2, <3>1, <3>2, <3>3 DEF Stays, Leaves
      <4> QED BY <1>1, <3>3, <4>1 DEF Leafwise
    <3> QED BY <3>2, <3>4 DEF Splits
  <2>3. CASE UNCHANGED <<root, metas>>
    <3>1. metas' = {root} /\ root' = root
      BY <2>3 DEF AsStored
    <3> QED BY <1>1, <1>2, <2>2, <3>1 DEF FirstRoots
  <2>4. CASE /\ root' \in DOMAIN file /\ root' \notin DOMAIN nodes /\ ~file[root'].is_leaf
             /\ metas' = metas \cup {root'} /\ t[root'].first = t[root].first
    <3>1. metas' = {root, root'}
      BY <2>4 DEF AsStored
    <3>2. \A v \in cand'[root'] : ~v.is_leaf
      BY <1>4, <2>1, <2>4
    <3> QED BY <1>1, <1>2, <2>2, <2>4, <3>1, <3>2 DEF FirstRoots
  <2> QED BY <2>3, <2>4 DEF Placing
<1>7. Mixable(d, k, t)'
  BY <1>1, <1>3, <1>5, <1>6 DEF Mixable
<1>8. touched' # {}
  OBVIOUS
<1> QED BY <1>7, <1>8 DEF MixInv

(* A delete is a store that leaves the leaves where they are.              *)
LEMMA DeletePlaces ==
  ASSUME TreeInv, NEW depth, NEW rank, Good(nodes, depth, rank), NEW s, Placed(nodes, s, root),
         NEW key \in Key, NEW rowid \in RowId, Delete(key, rowid),
         Found(key, rowid) # << >>, NEW e, e = <<key, rowid>>
  PROVE  \E file : Good(file, depth, rank) /\ Placing(file, s, s, e)
<1>1. UNCHANGED <<root, metas>>
  BY DEF Delete
<1>2. PICK file : Store(file) /\ Besides(e, nodes, file)
  BY DeleteStores
<1>3. PICK place : place = Found(key, rowid)
  OBVIOUS
<1>4. IsPlace(place, key, rowid)
  BY <1>3, FoundInLeaf DEF TreeInv, Roots
<1>5. PICK p \in Leaves : \E i \in DOMAIN nodes[p].keys : place = <<p, i>>
  BY <1>3, <1>4 DEF IsPlace
<1>6. PICK i \in DOMAIN nodes[p].keys : place = <<p, i>>
  BY <1>5
<1>7. PICK node : node = Leaf(RemoveAt(nodes[p].keys, i), RemoveAt(nodes[p].values, i),
                              nodes[p].next_leaf)
  OBVIOUS
<1>8. file = [nodes EXCEPT ![p] = node]
  <2>1. Store([nodes EXCEPT ![place[1]] =
           Leaf(RemoveAt(@.keys, place[2]), RemoveAt(@.values, place[2]), @.next_leaf)])
    BY <1>3 DEF Delete
  <2>2. place[1] = p /\ place[2] = i
    BY <1>6
  <2>3. Store([nodes EXCEPT ![p] = node])
    BY <1>7, <2>1, <2>2
  <2> QED BY <1>2, <2>3 DEF Store
<1>9. /\ Good(file, depth, rank) /\ DOMAIN file = DOMAIN nodes
      /\ \A q \in DOMAIN nodes : SameShape(file[q], nodes[q])
  BY <1>7, <1>8, Removed
<1>10. Placed(file, s, root')
  BY <1>1, <1>7, <1>8, RemovedShape
<1>11. \A q \in Leaves : Stays(file, s, s, e, q)
  BY <1>2, <1>9 DEF Stays, SameShape, Besides, Leaves
<1>12. Leafwise(file, s, s, e)
  <2>1. \A q \in DOMAIN nodes : file[q].is_leaf <=> nodes[q].is_leaf
    BY <1>9 DEF SameShape
  <2> QED BY <1>9, <1>11, <2>1 DEF Leafwise
<1> QED BY <1>1, <1>2, <1>9, <1>10, <1>12 DEF Placing

LEMMA MixInit == TreeInv /\ ShapeInv /\ Init => MixInv
<1> SUFFICES ASSUME TreeInv, ShapeInv, Init PROVE AsStored
  BY StoredMix
<1> QED BY DEF Init, AsStored

LEMMA MixNext ==
  ASSUME TreeInv, TreeInv', ShapeInv, ShapeInv', MixInv, [Next]_vars
  PROVE  MixInv'
<1>1. (TreeInv /\ ShapeInv /\ AsStored)' => MixInv'
  BY StoredMix, PTL
<1>2. ASSUME ~torn, touched = {}
      PROVE  AsStored /\ \E depth, rank, s : InTree(depth, rank, s)
  BY <1>2 DEF MixInv, Mixable
<1>3. ASSUME NEW key \in Key, NEW rowid \in RowId, Insert(key, rowid) PROVE MixInv'
  <2>1. PICK e : e = <<key, rowid>>
    OBVIOUS
  <2>2. ~torn /\ UNCHANGED torn /\ touched = {} /\ touched' = {e}
    BY <1>3, <2>1 DEF Insert, Touch
  <2>3. AsStored
    BY <1>2, <2>2
  <2>4. PICK depth, rank, s : InTree(depth, rank, s)
    BY <1>2, <2>2
  <2>5. Good(nodes, depth, rank) /\ Placed(nodes, s, root)
    BY <2>4 DEF InTree
  <2>6. PICK file, d, k, t :
          /\ Good(file, d, k) /\ (\A q \in DOMAIN nodes : d[q] = depth[q])
          /\ Placing(file, s, t, e)
    BY <1>3, <2>1, <2>5, InsertPlaces
  <2> QED BY <2>2, <2>3, <2>4, <2>6, StoresMix
<1>4. ASSUME NEW key \in Key, NEW rowid \in RowId, Delete(key, rowid) PROVE MixInv'
  <2>1. PICK e : e = <<key, rowid>>
    OBVIOUS
  <2>2. CASE Found(key, rowid) # << >>
    <3>1. ~torn /\ UNCHANGED torn /\ touched = {} /\ touched' = {e}
      BY <1>4, <2>1, <2>2 DEF Delete, Touch
    <3>2. AsStored
      BY <1>2, <3>1
    <3>3. PICK depth, rank, s : InTree(depth, rank, s)
      BY <1>2, <3>1
    <3>4. Good(nodes, depth, rank) /\ Placed(nodes, s, root)
      BY <3>3 DEF InTree
    <3>5. PICK file : Good(file, depth, rank) /\ Placing(file, s, s, e)
      BY <1>4, <2>1, <2>2, <3>4, DeletePlaces
    <3> QED BY <3>1, <3>2, <3>3, <3>5, StoresMix
  <2>3. CASE Found(key, rowid) = << >>
    <3>1. UNCHANGED <<nodes, cand, touched, root, metas, torn>>
      BY <1>4, <2>3 DEF Delete
    <3> QED BY <3>1 DEF MixInv, Mixable, FirstRoots, AsStored, InTree
  <2> QED BY <2>2, <2>3
<1>5. CASE Flush
  <2>1. AsStored'
    <3>1. metas' = {root'}
      BY <1>5 DEF Flush, TreeInv, Roots
    <3> QED BY <1>5, <3>1 DEF Flush, AsStored
  <2> QED BY <1>1, <2>1
<1>6. CASE Reopen
  <2>1. AsStored'
    <3>1. PICK file : nodes' = file /\ cand' = [p \in DOMAIN file |-> {file[p]}]
      BY <1>6 DEF Reopen
    <3> QED BY <1>6, <3>1 DEF Reopen, AsStored
  <2> QED BY <1>1, <2>1
<1>7. CASE UNCHANGED vars
  BY <1>7 DEF vars, MixInv, Mixable, FirstRoots, AsStored, InTree
<1> QED BY <1>3, <1>4, <1>5, <1>6, <1>7 DEF Next

-----------------------------------------------------------------------------
(* A kill in the middle of growing.                                        *)

(* Any mix of what pages may be beside N is a tree as deep as N.           *)
LEMMA MixGood ==
  ASSUME NEW N, NEW depth, NEW rank, Good(N, depth, rank),
         NEW file, file = [p \in DOMAIN N |-> file[p]],
         NEW t, NEW T, \A p \in DOMAIN N : May(file[p], N, p, depth, t, T)
  PROVE  Good(file, depth, rank)
<1>1. DOMAIN file = DOMAIN N /\ Numbered(file)
  <2>1. DOMAIN file = DOMAIN N
    OBVIOUS
  <2> QED BY <2>1 DEF Good, PagesOK, Numbered
<1>2. \A p \in DOMAIN N : /\ IsNode(file[p], DOMAIN N, MaxKeys)
                          /\ file[p].is_leaf <=> N[p].is_leaf
  BY DEF May
<1>3. PagesOK(file)
  BY <1>1, <1>2 DEF PagesOK
<1>4. DepthOK(file, depth)
  <2>1. \E height \in Nat : depth \in [DOMAIN file -> 0 .. height]
    BY <1>1 DEF Good, DepthOK
  <2>2. ASSUME NEW p \in DOMAIN file
        PROVE  IF file[p].is_leaf THEN depth[p] = 0
               ELSE depth[p] >= 1 /\ file[p].children \in Seq(AtDepth(depth, depth[p] - 1))
    <3>1. CASE file[p].is_leaf
      BY <1>1, <1>2, <3>1 DEF Good, DepthOK
    <3>2. CASE ~file[p].is_leaf
      <4>1. AsInner(file[p], N, p, depth, t)
        BY <1>1, <3>2 DEF May
      <4>2. depth[p] >= 1
        BY <1>1, <1>2, <3>2 DEF Good, DepthOK
      <4> QED BY <3>2, <4>1, <4>2 DEF AsInner
    <3> QED BY <3>1, <3>2
  <2> QED BY <2>1, <2>2 DEF DepthOK
<1>5. RankOK(file, rank)
  <2>1. PICK bound \in Nat : rank \in [DOMAIN file -> 0 .. bound]
    BY <1>1 DEF Good, RankOK
  <2>2. ASSUME NEW p \in DOMAIN N, N[p].is_leaf, N[p].next_leaf # 0
        PROVE  /\ N[p].next_leaf \in DOMAIN N /\ N[N[p].next_leaf].is_leaf
               /\ rank[N[p].next_leaf] < rank[p]
    <3>1. IsLeaf(N[p], DOMAIN N, MaxKeys)
      BY <2>2, NodeOfMore DEF Good, PagesOK
    <3> QED BY <2>2, <3>1 DEF Good, RankOK, IsLeaf, LeafNode
  <2>3. ASSUME NEW p \in DOMAIN file, file[p].is_leaf, file[p].next_leaf # 0
        PROVE  file[file[p].next_leaf].is_leaf /\ rank[file[p].next_leaf] < rank[p]
    <3>1. AsLeaf(file[p], N, p, t, T) \/ \E n : AsTwo(file[p], N, p, n, t, T)
      BY <1>1, <2>3 DEF May
    <3>2. N[p].is_leaf /\ p \in DOMAIN N
      BY <1>1, <1>2, <2>3
    <3>3. CASE file[p].next_leaf = N[p].next_leaf
      BY <1>2, <2>2, <2>3, <3>2, <3>3
    <3>4. ASSUME NEW n, n = N[p].next_leaf, n \in DOMAIN N, N[n].is_leaf,
                 file[p].next_leaf = N[n].next_leaf
          PROVE  file[file[p].next_leaf].is_leaf /\ rank[file[p].next_leaf] < rank[p]
      <4>1. n # 0
        BY <3>4, NewPageNumber DEF Good, PagesOK
      <4>2. rank[n] < rank[p]
        BY <2>2, <3>2, <3>4, <4>1
      <4>3. PICK m : m = file[p].next_leaf
        OBVIOUS
      <4>4. m \in DOMAIN N /\ N[m].is_leaf /\ rank[m] < rank[n]
        BY <2>2, <2>3, <3>4, <4>3
      <4>5. rank[m] \in Int /\ rank[n] \in Int /\ rank[p] \in Int
        BY <1>1, <2>1, <3>2, <3>4, <4>4
      <4>6. rank[m] < rank[p]
        BY <4>2, <4>4, <4>5
      <4> QED BY <1>2, <4>3, <4>4, <4>6
    <3> QED BY <3>1, <3>3, <3>4 DEF AsLeaf, AsTwo
  <2> QED BY <2>1, <2>3 DEF RankOK
<1> QED BY <1>3, <1>4, <1>5 DEF Good

LEMMA TreeBefore ==
  ASSUME NEW depth, NEW rank, NEW s, InTree(depth, rank, s), EntriesKnown
  PROVE  LeavesBefore(nodes, Streams, s, rank) /\ BagBefore(Entries, nodes, Streams, s)
<1>1. Good(nodes, depth, rank) /\ PagesOK(nodes) /\ Shaped(nodes, s, {root})
  BY DEF InTree, Good, Placed
<1>2. PICK L : AllLeaves(s, L)
  BY TheLeaves
<1>3. PICK n \in Nat : InChain(s, L, n)
  BY <1>2, PlaceInChain
<1>4. ASSUME NEW p \in DOMAIN nodes, nodes[p].is_leaf
      PROVE  LeafBefore(nodes, Streams, s, rank, p)
  <2>1. p \in Leaves
    BY <1>4 DEF Leaves
  <2>2. s[p].first = p /\ s[p].range # {} /\ s[p].range \subseteq Int
    <3>1. s[p].range # {}
      BY RangesFilled
    <3> QED BY <1>1, <1>4, <3>1 DEF Shaped, Fits, LeafFits, InIntegers
  <2>3. HeldBy(nodes[p]) \in Seq(Entry)
    BY <1>1, HeldIs DEF PagesOK
  <2>4. PICK i \in 1 .. n : p = L[i]
    BY <1>3, <2>1 DEF InChain
  <2>5. Streams[p] \in Seq(Entry)
    BY <1>2, <1>3, <2>4, StreamTimes DEF InChain
  <2>6. Streams[p] = HeldBy(nodes[p])
                     \o IF nodes[p].next_leaf # 0 THEN Streams[nodes[p].next_leaf] ELSE << >>
    <3>1. Streams[p] = Held(nodes)[p] \o IF Link(p) # 0 THEN Streams[Link(p)] ELSE << >>
      BY <1>1, <2>1, StreamsAre
    <3>2. Held(nodes)[p] = HeldBy(nodes[p])
      BY DEF Held
    <3> QED BY <3>1, <3>2 DEF Link
  <2>7. ASSUME nodes[p].next_leaf # 0
        PROVE  /\ nodes[p].next_leaf \in DOMAIN nodes /\ nodes[nodes[p].next_leaf].is_leaf
               /\ rank[nodes[p].next_leaf] < rank[p] /\ InOrder(s, p, nodes[p].next_leaf)
    <3>1. nodes[p].next_leaf \in Leaves /\ rank[nodes[p].next_leaf] < rank[p]
      BY <1>1, <2>1, <2>7, NextLeaf
    <3>2. InOrder(s, p, nodes[p].next_leaf)
      BY <1>3, <2>4, <2>7 DEF InChain, Link
    <3> QED BY <3>1, <3>2 DEF Leaves
  <2> QED BY <2>2, <2>3, <2>5, <2>6, <2>7 DEF LeafBefore
<1>5. BagBefore(Entries, nodes, Streams, s)
  <2>1. \A x : /\ x \in DOMAIN Entries <=> Total(Held(nodes), DOMAIN nodes, x) # 0
               /\ x \in DOMAIN Entries => Entries[x] = Total(Held(nodes), DOMAIN nodes, x) /\ x \in Entry
    BY BagOnIs DEF EntriesKnown
  <2>2. ASSUME NEW x \in DOMAIN Entries, NEW p \in DOMAIN nodes, nodes[p].is_leaf,
               Behind(nodes, s, p, x[1])
        PROVE  Times(Streams[p], x) = Entries[x]
    <3>1. x \in Entry /\ p \in Leaves
      BY <2>1, <2>2 DEF Leaves
    <3>2. PICK low \in Key : low = x[1]
      BY <3>1, EntryKey
    <3>3. Before(s, p, low)
      BY <2>2, <3>2 DEF Behind, Before, Leaves, Link
    <3>4. low <= x[1]
      BY <3>2, TreeAssumption
    <3>5. Times(Streams[p], x) = Total(Held(nodes), DOMAIN nodes, x)
      BY ONLY InTree(depth, rank, s), <3>1, <3>3, <3>4, AllAtOrBehind
    <3> QED BY <2>1, <2>2, <3>5
  <2> QED BY <2>1, <2>2 DEF BagBefore
<1> QED BY <1>4, <1>5 DEF LeavesBefore

LEMMA MayOfFewer ==
  ASSUME NEW v, NEW N, NEW p, NEW depth, NEW t, NEW T, May(v, N, p, depth, t, T),
         NEW U, U \subseteq T
  PROVE  May(v, N, p, depth, t, U)
<1>1. AsLeaf(v, N, p, t, T) => AsLeaf(v, N, p, t, U)
  BY DEF AsLeaf
<1>2. \A n : AsTwo(v, N, p, n, t, T) => AsTwo(v, N, p, n, t, U)
  BY DEF AsTwo
<1> QED BY <1>1, <1>2 DEF May

(* The kill that tears.                                                    *)
LEMMA TornAligned ==
  ASSUME TreeInv, ShapeInv, MixInv, ~torn, grown, Reopen, AllWritten'
  PROVE  \E N, F, t, depth, rank : Aligned(N, F, t, depth, rank)'
<1>1. PICK file \in Mixes : nodes' = file
  BY DEF Reopen
<1>2. /\ file = [p \in DOMAIN nodes |-> file[p]]
      /\ \A p \in DOMAIN nodes : file[p] \in cand[p]
  BY <1>1, MixesAre DEF TreeInv
<1>3. /\ root' \in metas
      /\ kept' = [e \in DOMAIN Entries \ touched |-> Entries[e]]
  BY DEF Reopen
<1>4. PICK depth, rank, t : Mixable(depth, rank, t)
  BY DEF MixInv
<1>5. InTree(depth, rank, t) /\ FirstRoots(t) /\ Good(nodes, depth, rank)
  BY <1>4 DEF Mixable, InTree
<1>6. EntriesKnown
  BY EntriesAlwaysKnown DEF EntryKnown
<1>7. PICK N, F : N = nodes /\ F = Streams
  OBVIOUS
<1>8. LeavesBefore(N, F, t, rank) /\ BagBefore(Entries, N, F, t)
  BY <1>5, <1>6, <1>7, TreeBefore
<1>9. PICK T : T = DOMAIN Entries \ touched
  OBVIOUS
<1>10. DOMAIN kept' = T /\ T \subseteq DOMAIN Entries /\ \A x \in T : kept'[x] = Entries[x]
  BY <1>3, <1>9
<1>11. BagBefore(kept', N, F, t)
  BY <1>8, <1>10 DEF BagBefore
<1>12. DOMAIN file = DOMAIN N
  BY <1>2, <1>7
<1>13. ASSUME NEW p \in DOMAIN N PROVE May(file[p], N, p, depth, t, T)
  <2>1. file[p] # Unwritten
    BY <1>1, <1>12, <1>13 DEF AllWritten
  <2>2. May(file[p], N, p, depth, t, Entry \ touched)
    BY <1>2, <1>4, <1>7, <1>13, <2>1 DEF Mixable
  <2>3. T \subseteq Entry \ touched
    BY <1>8, <1>9 DEF BagBefore
  <2> QED BY <2>2, <2>3, MayOfFewer
<1>14. Good(file, depth, rank)
  <2>1. file = [p \in DOMAIN N |-> file[p]]
    BY <1>2, <1>7
  <2>2. Good(N, depth, rank)
    BY <1>5, <1>7
  <2> QED BY ONLY <1>13, <2>1, <2>2, MixGood
<1>15. root' \in DOMAIN N /\ t[root'].first = t[root].first
  BY <1>3, <1>5, <1>7 DEF FirstRoots
<1>16. \A q \in DOMAIN N : N[q].is_leaf => N[q].next_leaf # t[root'].first
  <2>1. \A q \in Leaves : Link(q) # t[root].first
    BY <1>5, LinkOnce
  <2> QED BY <1>7, <1>15, <2>1 DEF Leaves, Link
<1>17. file[root'].is_leaf /\ file[root'].next_leaf # 0 => file[root'].keys # << >>
  BY <1>2, <1>3, <1>5, <1>7, <1>15 DEF FirstRoots
<1>18. Aligned(N, F, t, depth, rank)'
  BY <1>1, <1>8, <1>10, <1>11, <1>12, <1>13, <1>14, <1>15, <1>16, <1>17 DEF Aligned
<1> QED BY <1>18

LEMMA TornInit == Init => TornInv
BY DEF Init, TornInv

LEMMA TornNext ==
  ASSUME TreeInv, ShapeInv, MixInv, TornInv, [Next]_vars
  PROVE  TornInv'
<1>1. CASE UNCHANGED <<nodes, cand, root, metas, grown, torn, kept>>
  BY <1>1 DEF TornInv, AllWritten, Aligned
<1>2. ASSUME NEW key \in Key, NEW rowid \in RowId, Insert(key, rowid) PROVE TornInv'
  BY <1>2 DEF Insert, Touch, TornInv
<1>3. ASSUME NEW key \in Key, NEW rowid \in RowId, Delete(key, rowid) PROVE TornInv'
  BY <1>3 DEF Delete, TornInv
<1>4. CASE Flush
  <2>1. /\ UNCHANGED <<nodes, root, meta, torn, kept>> /\ metas' = {meta} /\ ~grown'
        /\ cand' = [p \in DOMAIN nodes |-> {nodes[p]}]
    BY <1>4 DEF Flush
  <2>2. metas' = {root'}
    BY <2>1 DEF TreeInv, Roots
  <2> QED BY <2>1, <2>2 DEF TornInv, AllWritten, Aligned
<1>5. CASE Reopen
  <2>1. PICK file \in Mixes : nodes' = file /\ cand' = [p \in DOMAIN file |-> {file[p]}]
    BY <1>5 DEF Reopen
  <2>2. /\ meta' \in metas /\ metas' = {meta'} /\ root' = meta' /\ ~grown'
        /\ torn' = (torn \/ grown)
    BY <1>5 DEF Reopen
  <2>3. metas' = {root'} /\ \A p \in DOMAIN nodes' : cand'[p] = {nodes'[p]}
    BY <2>1, <2>2
  <2>4. CASE ~torn
    <3>1. torn' => grown
      BY <2>2, <2>4
    <3> QED BY <1>5, <2>2, <2>3, <2>4, <3>1, TornAligned DEF TornInv
  <2>5. CASE torn
    <3>1. ~grown /\ metas = {root} /\ \A p \in DOMAIN nodes : cand[p] = {nodes[p]}
      BY <2>5 DEF TornInv
    <3>2. kept' = kept /\ root' = root
      BY <1>5, <2>2, <3>1 DEF Reopen
    <3>3. file = nodes
      <4>1. /\ file = [p \in DOMAIN nodes |-> file[p]]
            /\ \A p \in DOMAIN nodes : file[p] \in cand[p]
        BY MixesAre DEF TreeInv
      <4>2. nodes = [p \in DOMAIN nodes |-> nodes[p]]
        BY DEF TreeInv, Numbered
      <4>3. \A p \in DOMAIN nodes : file[p] = nodes[p]
        BY <3>1, <4>1
      <4> QED BY <4>1, <4>2, <4>3
    <3> QED BY <2>1, <2>2, <2>3, <2>5, <3>2, <3>3 DEF TornInv, AllWritten, Aligned
  <2> QED BY <2>4, <2>5
<1> QED BY <1>1, <1>2, <1>3, <1>4, <1>5 DEF Next, vars

LEMMA CountBefore ==
  ASSUME NEW N, NEW F, NEW t, NEW rank, LeavesBefore(N, F, t, rank),
         NEW p \in DOMAIN N, N[p].is_leaf, NEW x
  PROVE  /\ Times(F[p], x) = Times(HeldBy(N[p]), x)
                             + IF N[p].next_leaf # 0 THEN Times(F[N[p].next_leaf], x) ELSE 0
         /\ Times(F[p], x) \in Nat /\ Times(HeldBy(N[p]), x) \in Nat
<1>1. LeafBefore(N, F, t, rank, p)
  BY DEF LeavesBefore
<1>2. PICK a, b : /\ a = HeldBy(N[p])
                  /\ b = IF N[p].next_leaf # 0 THEN F[N[p].next_leaf] ELSE << >>
  OBVIOUS
<1>3. a \in Seq(Entry) /\ F[p] \in Seq(Entry) /\ F[p] = a \o b
  BY <1>1, <1>2 DEF LeafBefore
<1>4. b \in Seq(Entry)
  <2>1. CASE N[p].next_leaf = 0
    <3>1. b = << >>
      BY <1>2, <2>1
    <3> QED BY <3>1
  <2>2. CASE N[p].next_leaf # 0
    <3>1. PICK n : n = N[p].next_leaf
      OBVIOUS
    <3>2. n \in DOMAIN N /\ N[n].is_leaf
      BY <1>1, <2>2, <3>1 DEF LeafBefore
    <3>3. F[n] \in Seq(Entry)
      BY <3>2 DEF LeavesBefore, LeafBefore
    <3> QED BY <1>2, <2>2, <3>1, <3>3
  <2> QED BY <2>1, <2>2
<1>5. Times(F[p], x) = Times(a, x) + Times(b, x)
  BY <1>3, <1>4, TimesConcat
<1>6. Times(b, x) = IF N[p].next_leaf # 0 THEN Times(F[N[p].next_leaf], x) ELSE 0
  BY <1>2, TimesEmpty
<1> QED BY <1>2, <1>3, <1>5, <1>6, TimesType

(* After the kill there is from every leaf on, in key order, as much of    *)
(* what was not touched as there was before.                               *)
LEMMA OnwardsAfter ==
  ASSUME NEW N, NEW F, NEW t, NEW depth, NEW rank, Aligned(N, F, t, depth, rank)
  PROVE  \A p \in Leaves :
           /\ Onwards(t, p)
           /\ \A x \in DOMAIN kept : Times(Streams[p], x) = Times(F[p], x)
<1>1. /\ Good(nodes, depth, rank) /\ DOMAIN nodes = DOMAIN N /\ LeavesBefore(N, F, t, rank)
      /\ \A p \in DOMAIN N : May(nodes[p], N, p, depth, t, DOMAIN kept)
  BY DEF Aligned
<1> DEFINE Right(p) ==
             Onwards(t, p) /\ \A x \in DOMAIN kept : Times(Streams[p], x) = Times(F[p], x)
           T == {p \in Leaves : Right(p)}
<1>2. ASSUME NEW p \in Leaves, \A q \in Leaves : rank[q] < rank[p] => q \in T
      PROVE  p \in T
  <2>1. p \in DOMAIN N /\ N[p].is_leaf /\ Sorted(nodes[p].keys)
        /\ (AsLeaf(nodes[p], N, p, t, DOMAIN kept)
            \/ \E n : AsTwo(nodes[p], N, p, n, t, DOMAIN kept))
    BY <1>1 DEF Leaves, May
  <2>2. PICK low : low = t[p].range
    OBVIOUS
  <2>3. low \subseteq Int /\ low # {} /\ \A k \in low : k <= k
    BY <1>1, <2>1, <2>2 DEF LeavesBefore, LeafBefore
  <2>4. ASSUME Link(p) # 0 PROVE Right(Link(p)) /\ Link(p) \in Leaves
    <3>1. Link(p) \in Leaves /\ rank[Link(p)] < rank[p]
      BY <1>1, <2>4, LeafType
    <3> HIDE DEF Right
    <3> QED BY <1>2, <3>1
  <2>5. ASSUME Link(p) # 0
        PROVE  Link(p) \in DOMAIN N /\ N[Link(p)].is_leaf /\ t[Link(p)].range \subseteq Int
    <3>1. Link(p) \in DOMAIN N /\ nodes[Link(p)].is_leaf
      BY <1>1, <2>4, <2>5 DEF Leaves
    <3>2. N[Link(p)].is_leaf
      BY <1>1, <3>1 DEF May
    <3> QED BY <1>1, <3>1, <3>2 DEF LeavesBefore, LeafBefore
  <2>6. CASE AsLeaf(nodes[p], N, p, t, DOMAIN kept)
    <3>1. /\ Link(p) = N[p].next_leaf /\ Within(nodes[p].keys, low)
          /\ \A x \in DOMAIN kept : Times(HeldBy(nodes[p]), x) = Times(HeldBy(N[p]), x)
      BY <2>2, <2>6 DEF AsLeaf, Link
    <3>2. Link(p) # 0 => \A k \in low, m \in t[Link(p)].range : k <= m
      BY <1>1, <2>1, <2>2, <3>1 DEF LeavesBefore, LeafBefore, InOrder
    <3>3. /\ Onwards(t, p)
          /\ \A x : Times(Streams[p], x) =
               Times(HeldBy(nodes[p]), x) + IF Link(p) # 0 THEN Times(Streams[Link(p)], x) ELSE 0
      <4>1. \A k \in low : \E m \in t[p].range : m <= k
        BY <2>2, <2>3
      <4>2. Link(p) # 0 =>
              /\ Onwards(t, Link(p)) /\ t[Link(p)].range \subseteq Int
              /\ \A k \in low \cup t[p].range, m \in t[Link(p)].range : k <= m
        BY <2>2, <2>4, <2>5, <3>2
      <4> QED BY <1>1, <2>1, <2>2, <2>3, <3>1, <4>1, <4>2, OnwardsFrom
    <3>4. ASSUME NEW x \in DOMAIN kept PROVE Times(Streams[p], x) = Times(F[p], x)
      <4>1. Times(F[p], x) = Times(HeldBy(N[p]), x)
                             + IF N[p].next_leaf # 0 THEN Times(F[N[p].next_leaf], x) ELSE 0
        BY <1>1, <2>1, CountBefore
      <4>2. Link(p) # 0 => Times(Streams[Link(p)], x) = Times(F[Link(p)], x)
        BY <2>4, <3>4
      <4> QED BY <3>1, <3>3, <3>4, <4>1, <4>2
    <3> QED BY <3>3, <3>4
  <2>7. ASSUME NEW n, AsTwo(nodes[p], N, p, n, t, DOMAIN kept) PROVE Right(p)
    <3>1. /\ n = N[p].next_leaf /\ n \in DOMAIN N /\ N[n].is_leaf /\ Link(p) = N[n].next_leaf
          /\ Within(nodes[p].keys, low \cup t[n].range)
          /\ \A x \in DOMAIN kept :
               Times(HeldBy(nodes[p]), x) = Times(HeldBy(N[p]), x) + Times(HeldBy(N[n]), x)
      BY <2>2, <2>7 DEF AsTwo, Link
    <3>2. n # 0
      BY <1>1, <3>1, NewPageNumber DEF Good, PagesOK
    <3>3. PICK R : R = low \cup t[n].range
      OBVIOUS
    <3>4. t[n].range \subseteq Int /\ t[n].range # {} /\ \A k \in low, m \in t[n].range : k <= m
      BY <1>1, <2>1, <2>2, <3>1, <3>2 DEF LeavesBefore, LeafBefore, InOrder
    <3>5. ASSUME NEW k \in R PROVE \E m \in low : m <= k
      BY <2>3, <3>3, <3>4
    <3>6. ASSUME Link(p) # 0, NEW k \in R, NEW m \in t[Link(p)].range PROVE k <= m
      <4>1. \A l \in t[n].range : l <= m
        BY <1>1, <3>1, <3>6 DEF LeavesBefore, LeafBefore, InOrder
      <4>2. PICK l \in t[n].range : k <= l
        BY <3>3, <3>4, <3>6
      <4>3. k \in Int /\ l \in Int /\ m \in Int /\ l <= m
        BY <2>3, <2>5, <3>3, <3>4, <3>6, <4>1
      <4> QED BY <4>2, <4>3
    <3>7. /\ Onwards(t, p)
          /\ \A x : Times(Streams[p], x) =
               Times(HeldBy(nodes[p]), x) + IF Link(p) # 0 THEN Times(Streams[Link(p)], x) ELSE 0
      <4>1. R \in SUBSET Int /\ Within(nodes[p].keys, R)
        BY <2>3, <3>1, <3>3, <3>4
      <4>2. \A k \in R : \E m \in t[p].range : m <= k
        BY <2>2, <3>5
      <4>3. Link(p) # 0 =>
              /\ Onwards(t, Link(p)) /\ t[Link(p)].range \subseteq Int
              /\ \A k \in R \cup t[p].range, m \in t[Link(p)].range : k <= m
        BY <2>2, <2>4, <2>5, <3>3, <3>6
      <4> QED BY <1>1, <2>1, <2>2, <2>3, <4>1, <4>2, <4>3, OnwardsFrom
    <3>8. ASSUME NEW x \in DOMAIN kept PROVE Times(Streams[p], x) = Times(F[p], x)
      <4>1. Times(F[p], x) = Times(HeldBy(N[p]), x) + Times(F[n], x)
        BY <1>1, <2>1, <3>1, <3>2, CountBefore
      <4>2. /\ Times(F[n], x) = Times(HeldBy(N[n]), x)
                                + IF Link(p) # 0 THEN Times(F[Link(p)], x) ELSE 0
            /\ Times(HeldBy(N[n]), x) \in Nat /\ Times(F[n], x) \in Nat
        BY <1>1, <3>1, CountBefore
      <4>3. Link(p) # 0 =>
              Times(Streams[Link(p)], x) = Times(F[Link(p)], x) /\ Times(F[Link(p)], x) \in Nat
        <5>1. Link(p) # 0 => Times(F[Link(p)], x) \in Nat
          BY <1>1, <2>5, CountBefore
        <5> QED BY <2>4, <3>8, <5>1
      <4>4. Times(HeldBy(N[p]), x) \in Nat
        BY <1>1, <2>1, CountBefore
      <4>5. Times(Streams[p], x) = Times(HeldBy(N[p]), x) + Times(HeldBy(N[n]), x)
                                   + IF Link(p) # 0 THEN Times(F[Link(p)], x) ELSE 0
        BY <3>1, <3>7, <3>8, <4>3
      <4>6. PICK c : c = IF Link(p) # 0 THEN Times(F[Link(p)], x) ELSE 0
        OBVIOUS
      <4>7. c \in Nat
        BY <4>3, <4>6
      <4> QED BY <4>1, <4>2, <4>4, <4>5, <4>6, <4>7
    <3> QED BY <3>7, <3>8
  <2>8. Right(p)
    <3>1. AsLeaf(nodes[p], N, p, t, DOMAIN kept) => Right(p)
      BY <2>6
    <3> QED BY <2>1, <2>7, <3>1
  <2> QED BY <2>8
<1>3. T = Leaves
  <2>1. T \in SUBSET Leaves
    OBVIOUS
  <2> HIDE DEF T
  <2> QED BY <1>1, <1>2, <2>1, ByRank
<1> QED BY <1>3

(* Scans start at the first leaf.                                          *)
LEMMA LeftmostAfter ==
  ASSUME NEW N, NEW F, NEW t, NEW depth, NEW rank, Aligned(N, F, t, depth, rank)
  PROVE  LeftmostLeaf \in Leaves /\ \A key : Behind(N, t, LeftmostLeaf, key)
<1>1. /\ Good(nodes, depth, rank) /\ root \in DOMAIN nodes /\ DOMAIN nodes = DOMAIN N
      /\ LeavesBefore(N, F, t, rank)
      /\ \A p \in DOMAIN N : May(nodes[p], N, p, depth, t, DOMAIN kept)
      /\ \A q \in DOMAIN N : N[q].is_leaf => N[q].next_leaf # t[root].first
  BY DEF Aligned
<1>2. ASSUME NEW p \in DOMAIN nodes
      PROVE  t[p].first = IF nodes[p].is_leaf THEN p ELSE t[nodes[p].children[1]].first
  <2>1. CASE nodes[p].is_leaf
    <3>1. N[p].is_leaf
      BY <1>1, <2>1 DEF May
    <3> QED BY <1>1, <2>1, <3>1 DEF LeavesBefore, LeafBefore
  <2>2. CASE ~nodes[p].is_leaf
    BY <1>1, <2>2 DEF May, AsInner
  <2> QED BY <2>1, <2>2
<1>3. LeftmostLeaf = t[root].first /\ LeftmostLeaf \in Leaves
  BY ONLY <1>1, <1>2, LeftmostBy
<1>4. t[LeftmostLeaf].first = LeftmostLeaf
  BY <1>2, <1>3 DEF Leaves
<1> QED BY <1>1, <1>3, <1>4 DEF Behind

(* And searches at a leaf that has only smaller keys in front.             *)
LEMMA FindLeafAfter ==
  ASSUME NEW N, NEW F, NEW t, NEW depth, NEW rank, Aligned(N, F, t, depth, rank),
         NEW key \in Key
  PROVE  FindLeaf(key) \in Leaves /\ Behind(N, t, FindLeaf(key), key)
<1>1. /\ Good(nodes, depth, rank) /\ root \in DOMAIN nodes /\ DOMAIN nodes = DOMAIN N
      /\ LeavesBefore(N, F, t, rank)
      /\ \A p \in DOMAIN N : May(nodes[p], N, p, depth, t, DOMAIN kept)
      /\ \A q \in DOMAIN N : N[q].is_leaf => N[q].next_leaf # t[root].first
  BY DEF Aligned
<1> DEFINE W == {p \in DOMAIN nodes : Behind(N, t, p, key)}
<1>2. root \in W
  BY <1>1 DEF Behind
<1>3. ASSUME NEW p \in DOMAIN nodes, Behind(N, t, p, key), ~nodes[p].is_leaf,
             NEW c, c = nodes[p].children[BisectLeft(nodes[p].keys, key) + 1]
      PROVE  Behind(N, t, c, key) /\ c \in DOMAIN nodes
  <2>1. AsInner(nodes[p], N, p, depth, t) /\ Sorted(nodes[p].keys)
    BY <1>1, <1>3 DEF May
  <2>2. PICK n \in Nat : n = Len(nodes[p].keys)
    BY <1>1, <1>3, Children
  <2>3. nodes[p].keys \in Seq(Key)
    BY <1>1, <1>3, Children
  <2>4. PICK i \in 0 .. n : i = BisectLeft(nodes[p].keys, key)
    <3>1. DOMAIN nodes[p].keys = 1 .. n
      BY <2>2, <2>3
    <3> QED BY <3>1, BisectType
  <2>5. c \in DOMAIN nodes
    <3>1. c \in AtDepth(depth, depth[p] - 1)
      BY <1>1, <1>3, TheChild
    <3> QED BY <1>1, <1>3, <3>1, Children
  <2>6. CASE i = 0
    <3>1. c = nodes[p].children[1]
      BY <1>3, <2>4, <2>6
    <3>2. t[c].first = t[p].first
      BY <2>1, <3>1 DEF AsInner
    <3> QED BY <1>3, <2>5, <3>2 DEF Behind
  <2>7. CASE i # 0
    <3>1. i \in 1 .. n /\ c = nodes[p].children[i + 1]
      BY <1>3, <2>4, <2>7
    <3>2. nodes[p].keys[i] < key
      <4>1. nodes[p].keys[i] < key <=> i <= i
        BY ONLY <2>1, <2>2, <2>3, <2>4, <3>1, key \in Key, BisectLeftSplits
      <4> QED BY <3>1, <4>1
    <3>3. nodes[p].keys[i] \in Int /\ key \in Int
      BY <2>2, <2>3, <3>1, KeysAreInt, TreeAssumption
    <3>4. ASSUME NEW q \in DOMAIN N, N[q].is_leaf, N[q].next_leaf = t[c].first, NEW k \in t[q].range
          PROVE  k < key
      <4>1. k <= nodes[p].keys[i]
        BY <2>1, <2>2, <3>1, <3>4 DEF AsInner
      <4>2. k \in Int
        BY <1>1, <3>4 DEF LeavesBefore, LeafBefore
      <4> QED BY <3>2, <3>3, <4>1, <4>2
    <3> QED BY <2>5, <3>4 DEF Behind
  <2> QED BY <2>6, <2>7
<1>4. FindLeaf(key) \in W
  <2>1. \A p \in DOMAIN nodes : p \in W /\ ~nodes[p].is_leaf =>
          nodes[p].children[BisectLeft(nodes[p].keys, key) + 1] \in W
    BY <1>3
  <2> HIDE DEF W
  <2> QED BY <1>1, <1>2, <2>1, FindLeafKeeps
<1> QED BY <1>1, <1>4, FindLeafFinds

LEMMA OrderedAfter ==
  ASSUME NEW N, NEW F, NEW t, NEW depth, NEW rank, Aligned(N, F, t, depth, rank), NoEmptyLeaf
  PROVE  Ordered
<1>1. ASSUME NEW p \in Leaves
      PROVE  Sorted(nodes[p].keys) /\ (Link(p) # 0 => nodes[p].keys # << >>)
  <2>1. Sorted(nodes[p].keys)
    BY DEF Aligned, May, Leaves
  <2>2. CASE p = root
    BY <2>1, <2>2 DEF Aligned, Leaves, Link
  <2>3. CASE p # root
    BY <2>1, <2>3 DEF NoEmptyLeaf, Leaves
  <2> QED BY <2>2, <2>3
<1> QED BY <1>1, OnwardsAfter DEF Ordered, Onwards

LEMMA TornHolds == TornInv => TornKeepsFlushed
<1> SUFFICES ASSUME TornInv, torn, AllWritten
             PROVE  /\ \A e \in DOMAIN kept :
                         e \in BagToSet(ToBag(FullScan)) /\ ToBag(FullScan)[e] = kept[e]
                    /\ IsSorted(FullScan, LAMBDA d, e : d[1] <= e[1])
                    /\ NoEmptyLeaf => \A e \in DOMAIN kept : Contains(Search(e[1]), e[2])
  BY DEF TornKeepsFlushed
<1>1. PICK N, F, t, depth, rank : Aligned(N, F, t, depth, rank)
  BY DEF TornInv
<1>2. /\ Good(nodes, depth, rank) /\ DOMAIN kept \subseteq Entry /\ DOMAIN nodes = DOMAIN N
      /\ \A p \in Leaves : N[p].is_leaf /\ p \in DOMAIN N
      /\ \A x \in DOMAIN kept : kept[x] # 0 /\ \A p \in DOMAIN N :
           N[p].is_leaf /\ Behind(N, t, p, x[1]) => Times(F[p], x) = kept[x]
  BY <1>1 DEF Aligned, BagBefore, Leaves, May
<1>3. ASSUME NEW p \in Leaves, NEW x \in DOMAIN kept, Behind(N, t, p, x[1])
      PROVE  Times(Streams[p], x) = kept[x]
  BY <1>1, <1>2, <1>3, OnwardsAfter
<1>4. PICK scan : scan = FullScan
  OBVIOUS
<1>5. scan \in Seq(Entry) /\ ByKey(scan) /\ scan = Streams[LeftmostLeaf]
  <2>1. LeftmostLeaf \in Leaves
    BY <1>1, LeftmostAfter
  <2>2. PICK S : S = Streams[LeftmostLeaf]
    OBVIOUS
  <2>3. S \in Seq(Entry) /\ ByKey(S)
    BY <1>1, <2>1, <2>2, OnwardsAfter DEF Onwards
  <2>4. scan = SubSeq(S, 1, Len(S))
    BY <1>4, <2>2, StreamFromIs DEF FullScan
  <2>5. SubSeq(S, 1, Len(S)) = S
    BY <2>3
  <2> QED BY <2>2, <2>3, <2>4, <2>5
<1>6. ASSUME NEW e \in DOMAIN kept PROVE e \in BagToSet(ToBag(scan)) /\ ToBag(scan)[e] = kept[e]
  <2>1. Times(scan, e) = kept[e]
    BY <1>1, <1>3, <1>5, <1>6, LeftmostAfter
  <2>2. /\ ToBag(scan) = [x \in DOMAIN ToBag(scan) |-> Times(scan, x)]
        /\ \A x : x \in DOMAIN ToBag(scan) <=> Times(scan, x) # 0
    BY <1>5, ToBagIs
  <2> QED BY <1>2, <2>1, <2>2 DEF BagToSet
<1>7. IsSorted(scan, LAMBDA d, e : d[1] <= e[1])
  <2>1. DOMAIN scan = 1 .. Len(scan)
    BY <1>5
  <2> QED BY <1>5, <2>1 DEF ByKey, IsSorted
<1>8. ASSUME NoEmptyLeaf, NEW e \in DOMAIN kept PROVE Contains(Search(e[1]), e[2])
  <2>1. PICK key \in Key, v \in RowId : key = e[1] /\ v = e[2] /\ e = <<key, v>>
    BY <1>2, EntryKey
  <2>2. PICK p, r : p = FindLeaf(key) /\ r = Search(key)
    OBVIOUS
  <2>3. p \in Leaves /\ Behind(N, t, p, key)
    BY <1>1, <2>2, FindLeafAfter
  <2>4. Times(Streams[p], e) # 0
    BY <1>2, <1>3, <1>8, <2>1, <2>3
  <2>5. r = Results(key)[p]
    BY <1>2, <2>2, ResultsAre
  <2>6. r \in Seq(RowId) /\ Times(r, v) # 0
    <3>1. Ordered
      BY <1>1, <1>8, OrderedAfter
    <3>2. Results(key)[p] \in Seq(RowId) /\ Times(Results(key)[p], v) = Times(Streams[p], <<key, v>>)
      BY <1>2, <2>3, <3>1, SearchesStream
    <3> QED BY <2>1, <2>4, <2>5, <3>2
  <2>7. \E i \in DOMAIN r : r[i] = v
    BY <2>6, TimesType
  <2>8. Contains(r, v)
    BY <2>6, <2>7 DEF Contains
  <2> QED BY <2>1, <2>2, <2>8
<1> QED BY <1>4, <1>6, <1>7, <1>8

(* TornKeepsFlushed: a kill in the middle of a split hides no entry that   *)
(* was flushed before, as long as every page of the file was written once: *)
(* scans yield each as often as the tree had it, in key order, and unless  *)
(* a leaf below the root is empty a search finds it.  The parent, the root *)
(* or the meta page need not name the new pages yet; the links of the      *)
(* leaves lead to them ("may still find them on a scan", DESIGN.md, 348 to *)
(* 354).                                                                   *)
THEOREM FlushedSurviveTearing == Spec => []TornKeepsFlushed
<1>1. Init => TreeInv /\ ShapeInv /\ MixInv /\ TornInv
  BY TreeInit, ShapeInit, MixInit, TornInit
<1>2. TreeInv /\ ShapeInv /\ MixInv /\ TornInv /\ [Next]_vars
        => TreeInv' /\ ShapeInv' /\ MixInv' /\ TornInv'
  BY TreeNext, ShapeNext, MixNext, TornNext
<1>3. TornInv => TornKeepsFlushed
  BY TornHolds
<1> QED BY <1>1, <1>2, <1>3, PTL DEF Spec
=============================================================================
