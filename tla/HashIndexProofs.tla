--------------------------- MODULE HashIndexProofs ---------------------------
(***************************************************************************)
(* What TLAPS proves of the hash index, for every hash function, number of *)
(* buckets and page capacity and for files of less than 4096 pages.        *)
(***************************************************************************)
EXTENDS HashIndex, Counting

-----------------------------------------------------------------------------
(* The inductive invariant.                                                *)

Version == [entries : Seq(Key \X RowId), next_overflow : Nat]

(* The pages are numbered through, from the buckets on, and the links of   *)
(* every version of a page lead forward to overflow pages.                 *)
Numbered ==
  /\ ShortFile
  /\ num_buckets = meta /\ meta \in Nat \ {0}
  /\ \E last \in FirstBucket + meta - 1 .. MaxPage :
       DOMAIN pages = FirstBucket .. last
  /\ pages = [p \in DOMAIN pages |-> pages[p]]
  /\ cand = [p \in DOMAIN pages |-> cand[p]]

LinkOK(p, version) ==
  version.next_overflow \in {0, EmptyLink} \cup (DOMAIN pages \ (Heads \cup 1 .. p))

Versions ==
  \A p \in DOMAIN pages :
    /\ pages[p] \in cand[p]
    /\ \A version \in cand[p] :
         /\ version \in Version /\ Len(version.entries) <= Capacity
         /\ LinkOK(p, version)

Answered == answer = << >> \/ answer \in Key \X RowId \X BOOLEAN

Typed == Numbered /\ Versions /\ Answered

-----------------------------------------------------------------------------
(* Numbers.                                                                *)

LEMMA PageNumbers ==
  ASSUME Numbered
  PROVE  \E last \in Nat :
           /\ FirstBucket = 2 /\ meta \in Nat \ {0}
           /\ last <= MaxPage /\ MaxPage \in Nat /\ EmptyLink \in Nat /\ EmptyLink > MaxPage
           /\ DOMAIN pages = 2 .. last /\ 2 + meta - 1 <= last
           /\ Heads = 2 .. 2 + meta - 1
           /\ Cardinality(DOMAIN pages) = last - 1
<1>1. /\ FirstBucket = 2 /\ meta \in Nat \ {0}
      /\ MaxPage \in Nat /\ EmptyLink \in Nat /\ EmptyLink > MaxPage
      /\ Heads = 2 .. 2 + meta - 1
  BY HashAssumption DEF FirstBucket, Numbered, Heads, ShortFile
<1>2. PICK last \in 2 + meta - 1 .. MaxPage : DOMAIN pages = 2 .. last
  BY <1>1 DEF Numbered
<1>3. last \in Nat /\ 2 <= last /\ Cardinality(2 .. last) = last - 2 + 1
  BY <1>1, <1>2, FS_Interval
<1>4. last - 2 + 1 = last - 1
  BY <1>3
<1> QED BY <1>1, <1>2, <1>3, <1>4

-----------------------------------------------------------------------------
(* Chains.                                                                 *)

Link(p) == pages[p].next_overflow
Rest(chain, p) == IF Link(p) \notin DOMAIN pages THEN << >> ELSE chain[Link(p)]

LEMMA LinksForward ==
  ASSUME Typed, NEW p \in DOMAIN pages
  PROVE  /\ p \in Nat /\ Link(p) \in Nat
         /\ Link(p) \in DOMAIN pages => Link(p) > p /\ Link(p) \notin Heads
         /\ Link(p) \notin DOMAIN pages => Link(p) \in {0, EmptyLink}
<1>1. PICK last \in Nat : DOMAIN pages = 2 .. last /\ last <= MaxPage
                          /\ MaxPage \in Nat /\ EmptyLink \in Nat /\ EmptyLink > MaxPage
  BY PageNumbers DEF Typed
<1>2. pages[p] \in Version /\ LinkOK(p, pages[p])
  BY DEF Typed, Versions
<1>3. 0 \notin DOMAIN pages /\ EmptyLink \notin DOMAIN pages /\ p \in Nat /\ p >= 2
  BY <1>1
<1> QED BY <1>1, <1>2, <1>3 DEF Link, LinkOK, Version

LEMMA ChainsExist ==
  ASSUME Typed
  PROVE  \E chain : chain = [p \in DOMAIN pages |-> <<p>> \o Rest(chain, p)]
<1>1. PICK last \in Nat : DOMAIN pages = 2 .. last
  BY PageNumbers DEF Typed
<1> DEFINE From(n) == {p \in DOMAIN pages : p >= n}
           Good == {n \in Nat :
                      \E f : f = [p \in From(n) |-> <<p>> \o Rest(f, p)]}
<1>2. last + 1 \in Good
  <2>1. From(last + 1) = {}
    BY <1>1
  <2> DEFINE f == [p \in From(last + 1) |-> << >>]
  <2>2. f = [p \in From(last + 1) |-> <<p>> \o Rest(f, p)]
    BY <2>1
  <2>3. last + 1 \in Nat
    BY <1>1
  <2> HIDE DEF f
  <2> QED BY <2>2, <2>3
<1>3. PICK n \in Good : \A m \in Good : n <= m
  <2>1. Good \in SUBSET Nat /\ Good # {}
    BY <1>2
  <2> HIDE DEF Good
  <2> QED BY <2>1, LeastNumber
<1>4. CASE n = 0
  <2>1. From(0) = DOMAIN pages
    BY <1>1
  <2> QED BY <1>4, <2>1
<1>5. CASE n # 0
  <2>1. PICK f : f = [p \in From(n) |-> <<p>> \o Rest(f, p)]
    OBVIOUS
  <2>2. n - 1 \in Nat /\ n \in Nat
    BY <1>5
  <2> DEFINE g == [p \in From(n - 1) |-> IF p \in From(n) THEN f[p] ELSE <<p>> \o Rest(f, p)]
  <2>3. ASSUME NEW p \in From(n - 1)
        PROVE  g[p] = <<p>> \o Rest(g, p)
    <3>1. /\ p \in Nat /\ p >= n - 1 /\ p \in DOMAIN pages
          /\ Link(p) \in DOMAIN pages => Link(p) > p /\ Link(p) \in Nat
      BY LinksForward
    <3>2. Link(p) \in DOMAIN pages => Link(p) \in From(n) /\ Link(p) \in From(n - 1)
      BY <2>2, <3>1
    <3>3. Rest(g, p) = Rest(f, p)
      BY <3>2 DEF Rest
    <3>4. g[p] = <<p>> \o Rest(f, p)
      BY <2>1
    <3> QED BY <3>3, <3>4
  <2>4. g = [p \in From(n - 1) |-> <<p>> \o Rest(g, p)]
    <3>1. g = [p \in From(n - 1) |-> g[p]]
      OBVIOUS
    <3> HIDE DEF g
    <3> QED BY <2>3, <3>1
  <2>5. n - 1 \in Good
    BY <2>2, <2>4
  <2>6. n <= n - 1
    BY <1>3, <2>5
  <2> QED BY <2>2, <2>6
<1> QED BY <1>4, <1>5

(* A chain is its first page and the chain of the page that this links to. *)
LEMMA ChainEquation ==
  ASSUME Typed, NEW p \in DOMAIN pages
  PROVE  ChainFrom(p) = <<p>> \o (IF Link(p) \in DOMAIN pages THEN ChainFrom(Link(p))
                                                             ELSE << >>)
<1> DEFINE chain == CHOOSE c : c = [q \in DOMAIN pages |-> <<q>> \o Rest(c, q)]
<1>1. chain = [q \in DOMAIN pages |-> <<q>> \o Rest(chain, q)]
  BY ChainsExist
<1>2. \A q : ChainFrom(q) = chain[q]
  BY DEF ChainFrom, Rest, Link
<1> HIDE DEF chain
<1> QED BY <1>1, <1>2 DEF Rest

(* What is so of the last page of every chain, and of a page if it is of   *)
(* the page that it links to, is so of every page.                         *)
LEMMA FromTheEnd ==
  ASSUME Typed, NEW T \in SUBSET DOMAIN pages,
         \A p \in DOMAIN pages : (Link(p) \in DOMAIN pages => Link(p) \in T) => p \in T
  PROVE  T = DOMAIN pages
<1> SUFFICES ASSUME DOMAIN pages \ T # {} PROVE FALSE
  OBVIOUS
<1>1. PICK last \in Nat : DOMAIN pages = 2 .. last
  BY PageNumbers DEF Typed
<1> DEFINE Others == DOMAIN pages \ T
<1>2. PICK p \in Others : \A q \in Others : q <= p
  <2>1. Others \in SUBSET (0 .. last) /\ Others # {}
    BY <1>1
  <2> HIDE DEF Others
  <2> QED BY <2>1, LargestNumber
<1>3. p \in DOMAIN pages /\ p \in Nat /\ p \notin T
  BY <1>1
<1>4. Link(p) \in DOMAIN pages => Link(p) > p /\ Link(p) \in Nat
  BY <1>3, LinksForward
<1>5. Link(p) \in DOMAIN pages => Link(p) \notin Others
  <2> HIDE DEF Others
  <2> QED BY <1>2, <1>3, <1>4
<1> QED BY <1>3, <1>5

LEMMA ChainProperties ==
  ASSUME Typed, NEW p \in DOMAIN pages
  PROVE  /\ ChainFrom(p) \in Seq(DOMAIN pages) /\ Len(ChainFrom(p)) \in Nat \ {0}
         /\ ChainFrom(p)[1] = p
         /\ DOMAIN ChainFrom(p) = 1 .. Len(ChainFrom(p))
         /\ Last(ChainFrom(p)) \in ToSet(ChainFrom(p))
         /\ ToSet(ChainFrom(p)) \subseteq DOMAIN pages
         /\ Link(Last(ChainFrom(p))) \notin DOMAIN pages
<1> DEFINE Good(q) == /\ ChainFrom(q) \in Seq(DOMAIN pages)
                      /\ Len(ChainFrom(q)) \in Nat \ {0}
                      /\ ChainFrom(q)[1] = q
                      /\ Link(ChainFrom(q)[Len(ChainFrom(q))]) \notin DOMAIN pages
           T == {q \in DOMAIN pages : Good(q)}
<1>1. ASSUME NEW q \in DOMAIN pages, Link(q) \in DOMAIN pages => Good(Link(q))
      PROVE  Good(q)
  <2>1. CASE Link(q) \in DOMAIN pages
    <3> DEFINE rest == ChainFrom(Link(q))
    <3>1. ChainFrom(q) = <<q>> \o rest
      BY <2>1, ChainEquation
    <3>2. /\ rest \in Seq(DOMAIN pages) /\ Len(rest) \in Nat \ {0}
          /\ Link(rest[Len(rest)]) \notin DOMAIN pages
      BY <1>1, <2>1
    <3> HIDE DEF rest
    <3>3. /\ ChainFrom(q) \in Seq(DOMAIN pages) /\ Len(ChainFrom(q)) = 1 + Len(rest)
          /\ ChainFrom(q)[1] = q /\ ChainFrom(q)[1 + Len(rest)] = rest[Len(rest)]
      BY <3>1, <3>2
    <3> QED BY <3>2, <3>3
  <2>2. CASE Link(q) \notin DOMAIN pages
    <3>1. ChainFrom(q) = <<q>> \o << >>
      BY <2>2, ChainEquation
    <3>2. ChainFrom(q) = <<q>>
      BY <3>1
    <3> QED BY <2>2, <3>2
  <2> QED BY <2>1, <2>2
<1> HIDE DEF Good
<1>2. T \in SUBSET DOMAIN pages
      /\ \A q \in DOMAIN pages : (Link(q) \in DOMAIN pages => Link(q) \in T) => q \in T
  BY <1>1
<1>3. T = DOMAIN pages
  <2> HIDE DEF T
  <2> QED BY <1>2, FromTheEnd
<1>4. Good(p)
  BY <1>3
<1> QED BY <1>4 DEF Good, Last, ToSet

(* The pages of a chain.                                                   *)
LEMMA ChainPages ==
  ASSUME Typed, NEW p \in DOMAIN pages
  PROVE  ToSet(ChainFrom(p)) =
           {p} \cup (IF Link(p) \in DOMAIN pages THEN ToSet(ChainFrom(Link(p))) ELSE {})
<1>1. CASE Link(p) \in DOMAIN pages
  <2> DEFINE rest == ChainFrom(Link(p))
             chain == ChainFrom(p)
  <2>1. chain = <<p>> \o rest
    BY <1>1, ChainEquation
  <2>2. rest \in Seq(DOMAIN pages) /\ DOMAIN rest = 1 .. Len(rest) /\ Len(rest) \in Nat
    BY <1>1, ChainProperties
  <2> HIDE DEF rest, chain
  <2>3. /\ DOMAIN chain = 1 .. Len(rest) + 1 /\ chain[1] = p
        /\ \A i \in 1 .. Len(rest) : chain[i + 1] = rest[i]
    BY <2>1, <2>2
  <2>4. ASSUME NEW q PROVE q \in ToSet(chain) <=> q = p \/ q \in ToSet(rest)
    <3>1. ASSUME q \in ToSet(chain), q # p PROVE q \in ToSet(rest)
      <4>1. PICK i \in 1 .. Len(rest) + 1 : chain[i] = q
        BY <2>3, <3>1 DEF ToSet
      <4>2. i - 1 \in 1 .. Len(rest) /\ chain[(i - 1) + 1] = rest[i - 1] /\ (i - 1) + 1 = i
        BY <2>2, <2>3, <3>1, <4>1
      <4> QED BY <2>2, <4>1, <4>2 DEF ToSet
    <3>2. ASSUME q \in ToSet(rest) PROVE q \in ToSet(chain)
      <4>1. PICK i \in 1 .. Len(rest) : rest[i] = q
        BY <2>2, <3>2 DEF ToSet
      <4>2. i + 1 \in DOMAIN chain /\ chain[i + 1] = q
        BY <2>2, <2>3, <4>1
      <4> QED BY <4>2 DEF ToSet
    <3>3. p \in ToSet(chain)
      BY <2>2, <2>3 DEF ToSet
    <3> QED BY <3>1, <3>2, <3>3
  <2>5. ToSet(chain) = {p} \cup ToSet(rest)
    BY <2>4
  <2> QED BY <1>1, <2>5 DEF chain, rest
<1>2. CASE Link(p) \notin DOMAIN pages
  <2>1. ChainFrom(p) = <<p>> \o << >>
    BY <1>2, ChainEquation
  <2>2. ChainFrom(p) = <<p>>
    BY <2>1
  <2> QED BY <1>2, <2>2 DEF ToSet
<1> QED BY <1>1, <1>2

(* A set that has the page and, with a page, the one it links to, has the  *)
(* chain; and a chain is such a set.                                       *)
LEMMA ChainInside ==
  ASSUME Typed, NEW S, NEW h \in DOMAIN pages, h \in S,
         \A p \in S \cap DOMAIN pages : Link(p) \in DOMAIN pages => Link(p) \in S
  PROVE  ToSet(ChainFrom(h)) \subseteq S
<1> DEFINE T == {p \in DOMAIN pages : p \in S => ToSet(ChainFrom(p)) \subseteq S}
<1>1. T \in SUBSET DOMAIN pages
      /\ \A p \in DOMAIN pages : (Link(p) \in DOMAIN pages => Link(p) \in T) => p \in T
  <2>1. ASSUME NEW p \in DOMAIN pages, Link(p) \in DOMAIN pages => Link(p) \in T, p \in S
        PROVE  ToSet(ChainFrom(p)) \subseteq S
    BY <2>1, ChainPages
  <2> QED BY <2>1
<1>2. T = DOMAIN pages
  <2> HIDE DEF T
  <2> QED BY <1>1, FromTheEnd
<1> QED BY <1>2

LEMMA ChainClosed ==
  ASSUME Typed, NEW h \in DOMAIN pages, NEW q \in ToSet(ChainFrom(h)),
         Link(q) \in DOMAIN pages
  PROVE  Link(q) \in ToSet(ChainFrom(h))
<1> DEFINE Good(p) == \A r \in ToSet(ChainFrom(p)) :
                        Link(r) \in DOMAIN pages => Link(r) \in ToSet(ChainFrom(p))
           T == {p \in DOMAIN pages : Good(p)}
<1>1. T \in SUBSET DOMAIN pages
      /\ \A p \in DOMAIN pages : (Link(p) \in DOMAIN pages => Link(p) \in T) => p \in T
  <2>1. ASSUME NEW p \in DOMAIN pages, Link(p) \in DOMAIN pages => Link(p) \in T,
               NEW r \in ToSet(ChainFrom(p)), Link(r) \in DOMAIN pages
        PROVE  Link(r) \in ToSet(ChainFrom(p))
    <3>1. CASE r = p
      <4>1. Link(p) \in ToSet(ChainFrom(Link(p)))
        BY <2>1, <3>1, ChainPages
      <4> QED BY <2>1, <3>1, <4>1, ChainPages
    <3>2. CASE r # p
      <4>1. Link(p) \in DOMAIN pages /\ r \in ToSet(ChainFrom(Link(p)))
        BY <2>1, <3>2, ChainPages
      <4>2. Link(r) \in ToSet(ChainFrom(Link(p)))
        BY <2>1, <4>1
      <4> QED BY <4>1, <4>2, ChainPages
    <3> QED BY <3>1, <3>2
  <2> QED BY <2>1
<1>2. T = DOMAIN pages
  <2> HIDE DEF T
  <2> QED BY <1>1, FromTheEnd
<1>3. Good(h)
  BY <1>2
<1> QED BY <1>3

-----------------------------------------------------------------------------
(* The actions, in terms of the pages that they change.                    *)

LEMMA BucketOfKey ==
  ASSUME Typed, NEW key \in Key
  PROVE  BucketHead(key) \in Heads /\ BucketHead(key) \in DOMAIN pages
<1>1. /\ FirstBucket = 2 /\ meta \in Nat \ {0} /\ num_buckets = meta
      /\ Heads = 2 .. 2 + meta - 1 /\ Heads \subseteq DOMAIN pages
  BY PageNumbers DEF Typed, Numbered
<1>2. Hash[key] \in Nat
  BY HashAssumption
<1>3. Hash[key] % meta \in 0 .. meta - 1
  BY <1>1, <1>2
<1>4. 2 + (Hash[key] % meta) \in Heads
  BY <1>1, <1>3
<1> QED BY <1>1, <1>4 DEF BucketHead

LEMMA PageType ==
  ASSUME Typed, NEW p \in DOMAIN pages
  PROVE  /\ p \in Nat \ {0}
         /\ pages[p] \in Version /\ pages[p] = Bucket(pages[p].entries, Link(p))
         /\ pages[p].entries \in Seq(Key \X RowId)
         /\ Len(pages[p].entries) \in 0 .. Capacity
<1>1. pages[p] \in Version /\ Len(pages[p].entries) <= Capacity
  BY DEF Typed, Versions
<1>2. p \in Nat \ {0}
  BY PageNumbers DEF Typed
<1>3. pages[p].entries \in Seq(Key \X RowId) /\ Len(pages[p].entries) \in Nat
  BY <1>1 DEF Version
<1>4. Capacity \in Nat
  BY HashAssumption
<1>5. pages[p] = Bucket(pages[p].entries, Link(p))
  BY <1>1 DEF Version, Bucket, Link
<1> QED BY <1>1, <1>2, <1>3, <1>4, <1>5

(* The pages with other entries in page c.                                 *)
Rewritten(c, entries) == [pages EXCEPT ![c] = Bucket(entries, Link(c))]

LEMMA SameAsRewritten ==
  ASSUME Typed, NEW c \in DOMAIN pages, NEW entries
  PROVE  [pages EXCEPT ![c].entries = entries] = Rewritten(c, entries)
<1>1. [pages[c] EXCEPT !.entries = entries] = Bucket(entries, Link(c))
  BY PageType DEF Version, Bucket, Link
<1> QED BY <1>1 DEF Rewritten

LEMMA InsertInPageEffect ==
  ASSUME Typed, NEW key \in Key, NEW rowid \in RowId, InsertInPage(key, rowid)
  PROVE  \E c \in ToSet(Chain(key)) :
           /\ c \in DOMAIN pages /\ Len(pages[c].entries) < Capacity
           /\ Store(Rewritten(c, Append(pages[c].entries, <<key, rowid>>)))
<1> DEFINE chain == Chain(key)
           open == {i \in DOMAIN chain : HasRoom(chain[i])}
           c == chain[Min(open)]
<1>1. /\ chain \in Seq(DOMAIN pages) /\ DOMAIN chain = 1 .. Len(chain)
      /\ Len(chain) \in Nat /\ ToSet(chain) \subseteq DOMAIN pages
  BY BucketOfKey, ChainProperties DEF Chain
<1>2. /\ open # {}
      /\ Store([pages EXCEPT ![chain[Min(open)]].entries = Append(@, <<key, rowid>>)])
  BY DEF InsertInPage
<1>3. Min(open) \in open
  <2>1. open \in SUBSET Nat
    BY <1>1
  <2> HIDE DEF open
  <2> QED BY <1>2, <2>1, MinProperties
<1>4. c \in ToSet(chain) /\ HasRoom(c)
  BY <1>3 DEF ToSet
<1>5. Store([pages EXCEPT ![c].entries = Append(pages[c].entries, <<key, rowid>>)])
  BY <1>2
<1> HIDE DEF c
<1>6. c \in DOMAIN pages /\ Len(pages[c].entries) < Capacity
  BY <1>1, <1>4 DEF HasRoom
<1>7. [pages EXCEPT ![c].entries = Append(pages[c].entries, <<key, rowid>>)]
        = Rewritten(c, Append(pages[c].entries, <<key, rowid>>))
  BY <1>6, SameAsRewritten
<1> QED BY <1>4, <1>5, <1>6, <1>7

LEMMA DeleteEffect ==
  ASSUME Typed, NEW key \in Key, NEW rowid \in RowId, Delete(key, rowid)
  PROVE  \/ /\ UNCHANGED <<pages, cand, touched>> /\ answer' = <<key, rowid, FALSE>>
            /\ \A c \in ToSet(Chain(key)) : \A n \in DOMAIN pages[c].entries :
                 pages[c].entries[n] # <<key, rowid>>
         \/ \E c \in ToSet(Chain(key)) : \E n \in 1 .. Len(pages[c].entries) :
              /\ c \in DOMAIN pages /\ pages[c].entries[n] = <<key, rowid>>
              /\ Store(Rewritten(c, RemoveAt(pages[c].entries, n)))
              /\ Touch(key, rowid) /\ answer' = <<key, rowid, TRUE>>
<1> DEFINE chain == Chain(key)
           e == <<key, rowid>>
           holders == {i \in DOMAIN chain : Contains(pages[chain[i]].entries, e)}
           c == chain[Min(holders)]
<1>1. /\ chain \in Seq(DOMAIN pages) /\ DOMAIN chain = 1 .. Len(chain)
      /\ Len(chain) \in Nat /\ ToSet(chain) \subseteq DOMAIN pages
  BY BucketOfKey, ChainProperties DEF Chain
<1>2. CASE /\ holders # {}
           /\ Store([pages EXCEPT ![chain[Min(holders)]].entries = RemoveFirst(@, e)])
           /\ Touch(key, rowid) /\ answer' = <<key, rowid, TRUE>>
  <2>1. Min(holders) \in holders
    <3>1. holders \in SUBSET Nat
      BY <1>1
    <3> HIDE DEF holders
    <3> QED BY <1>2, <3>1, MinProperties
  <2>2. c \in ToSet(chain) /\ Contains(pages[c].entries, e)
    BY <2>1 DEF ToSet
  <2>3. Store([pages EXCEPT ![c].entries = RemoveFirst(pages[c].entries, e)])
    BY <1>2
  <2> HIDE DEF c
  <2> DEFINE s == pages[c].entries
             I == {i \in 1 .. Len(s) : s[i] = e}
  <2>4. c \in DOMAIN pages
    BY <1>1, <2>2
  <2>5. I # {} /\ SelectInSeq(s, LAMBDA v : v = e) = Min(I)
    BY <2>2 DEF Contains, SelectInSeq
  <2>6. RemoveFirst(s, e) = RemoveAt(s, Min(I))
    BY <2>5 DEF RemoveFirst
  <2>7. Min(I) \in I
    <3>1. I \in SUBSET Nat
      OBVIOUS
    <3> HIDE DEF I
    <3> QED BY <2>5, <3>1, MinProperties
  <2>8. Store(Rewritten(c, RemoveAt(s, Min(I))))
    BY <2>3, <2>4, <2>6, SameAsRewritten
  <2> QED BY <1>2, <2>2, <2>4, <2>7, <2>8
<1>3. CASE /\ holders = {} /\ answer' = <<key, rowid, FALSE>>
           /\ UNCHANGED <<pages, cand, touched>>
  <2>1. ASSUME NEW c0 \in ToSet(chain), NEW n \in DOMAIN pages[c0].entries
        PROVE  pages[c0].entries[n] # e
    <3>1. PICK i \in DOMAIN chain : c0 = chain[i]
      BY DEF ToSet
    <3>2. n \in 1 .. Len(pages[c0].entries)
      BY <1>1, PageType
    <3> QED BY <1>3, <3>1, <3>2 DEF Contains
  <2> QED BY <1>3, <2>1
<1> QED BY <1>2, <1>3 DEF Delete

(* The page that an overflow adds, and what is linked to it.               *)
NewPage == FirstBucket + Cardinality(DOMAIN pages)

LEMMA InsertInOverflowEffect ==
  ASSUME Typed, NEW key \in Key, NEW rowid \in RowId, InsertInOverflow(key, rowid)
  PROVE  /\ NewPage \in Nat /\ NewPage <= MaxPage /\ NewPage \notin DOMAIN pages
         /\ \A p \in DOMAIN pages : p < NewPage
         /\ \E last \in Nat : /\ DOMAIN pages = 2 .. last /\ NewPage = last + 1
                              /\ DOMAIN pages' = 2 .. last + 1
         /\ \E c \in ToSet(Chain(key)) :
              /\ c \in DOMAIN pages /\ Link(c) = 0 /\ c = Last(Chain(key))
              /\ Len(pages[c].entries) >= Capacity
              /\ DOMAIN pages' = DOMAIN pages \cup {NewPage}
              /\ pages' = [p \in DOMAIN pages \cup {NewPage} |->
                   IF p = NewPage THEN Bucket(<<<<key, rowid>>>>, 0)
                   ELSE IF p = c THEN Bucket(pages[c].entries, NewPage) ELSE pages[p]]
         /\ cand' = [p \in DOMAIN pages \cup {NewPage} |->
              (IF p = NewPage THEN {Unwritten} ELSE cand[p]) \cup {pages'[p]}]
         /\ grown' = grown \cup {BucketHead(key)}
<1> DEFINE chain == Chain(key)
           c == Last(chain)
           file == WithPage([pages EXCEPT ![c].next_overflow = NewPage],
                           NewPage, Bucket(<<<<key, rowid>>>>, 0))
<1>1. PICK last \in Nat :
        /\ FirstBucket = 2 /\ DOMAIN pages = 2 .. last /\ 2 <= last
        /\ Cardinality(DOMAIN pages) = last - 1
  BY PageNumbers DEF Typed
<1>2. /\ NewPage = last + 1 /\ NewPage \in Nat /\ NewPage \notin DOMAIN pages
      /\ DOMAIN pages \cup {NewPage} = 2 .. last + 1
      /\ \A p \in DOMAIN pages : p < NewPage
  BY <1>1 DEF NewPage
<1>3. /\ chain[1] = BucketHead(key) /\ c \in ToSet(chain) /\ c \in DOMAIN pages
      /\ Len(chain) \in Nat \ {0} /\ DOMAIN chain = 1 .. Len(chain)
  BY BucketOfKey, ChainProperties DEF Chain
<1>4. /\ NewPage <= MaxPage /\ pages' = file
      /\ ~HasRoom(c) /\ ~Broken(chain) /\ grown' = grown \cup {chain[1]}
      /\ cand' = [p \in DOMAIN file |->
           (IF p \in DOMAIN cand THEN cand[p] ELSE {Unwritten}) \cup {file[p]}]
  BY <1>3 DEF InsertInOverflow, Store, NewPage, Last
<1>5. Link(c) = 0
  BY <1>4 DEF Broken, Link
<1>6. DOMAIN cand = DOMAIN pages
  BY DEF Typed, Numbered
<1>7. [pages[c] EXCEPT !.next_overflow = NewPage] = Bucket(pages[c].entries, NewPage)
  BY <1>3, PageType DEF Version, Bucket
<1>8. Len(pages[c].entries) >= Capacity
  <2>1. Len(pages[c].entries) \in Nat /\ Capacity \in Nat
    BY <1>3, PageType, HashAssumption
  <2> QED BY <1>4, <2>1 DEF HasRoom
<1> HIDE DEF c
<1>9. file = [p \in DOMAIN pages \cup {NewPage} |->
                IF p = NewPage THEN Bucket(<<<<key, rowid>>>>, 0)
                ELSE IF p = c THEN Bucket(pages[c].entries, NewPage) ELSE pages[p]]
  BY <1>2, <1>3, <1>7 DEF WithPage
<1> HIDE DEF file
<1>10. DOMAIN file = DOMAIN pages \cup {NewPage}
  BY <1>9
<1>11. cand' = [p \in DOMAIN pages \cup {NewPage} |->
                  (IF p = NewPage THEN {Unwritten} ELSE cand[p]) \cup {pages'[p]}]
  BY <1>2, <1>4, <1>6, <1>10
<1>12. c = Last(Chain(key))
  BY DEF c
<1> QED BY <1>1, <1>2, <1>3, <1>4, <1>5, <1>8, <1>9, <1>10, <1>11, <1>12

(* What the file may be after a kill.                                      *)
Extensions(files, p) == {WithPage(file, p, page) : file \in files, page \in cand[p]}
FilesUpTo(f, p) == IF p < FirstBucket THEN {<< >>} ELSE Extensions(f[p - 1], p)

LEMMA MixesAre ==
  ASSUME Typed, NEW file \in Mixes
  PROVE  /\ file = [p \in DOMAIN pages |-> file[p]]
         /\ \A p \in DOMAIN pages : file[p] \in cand[p]
<1>1. PICK last \in Nat :
        /\ FirstBucket = 2 /\ DOMAIN pages = 2 .. last /\ 2 <= last
        /\ Cardinality(DOMAIN pages) = last - 1
  BY PageNumbers DEF Typed
<1> DEFINE final == FirstBucket + Cardinality(DOMAIN pages) - 1
           upTo == CHOOSE f : f = [p \in FirstBucket - 1 .. final |-> FilesUpTo(f, p)]
           IsMix(g, p) == /\ g = [q \in 2 .. p |-> g[q]]
                          /\ \A q \in 2 .. p : g[q] \in cand[q]
<1>2. /\ FirstBucket - 1 .. FirstBucket + Cardinality(DOMAIN pages) - 1 = 1 .. last
      /\ FirstBucket + Cardinality(DOMAIN pages) - 1 = last
  BY <1>1
<1>3. Mixes = upTo[last]
  <2>1. Mixes = upTo[FirstBucket + Cardinality(DOMAIN pages) - 1]
    BY DEF Mixes, FilesUpTo, Extensions
  <2> QED BY <1>2, <2>1
<1>4. \E f : f = [p \in 1 .. last |-> FilesUpTo(f, p)]
  <2> DEFINE Good == {n \in Nat : \E f : f = [p \in 1 .. n |-> FilesUpTo(f, p)]}
             Bad == Nat \ Good
  <2>1. 0 \in Good
    <3> DEFINE f == [p \in 1 .. 0 |-> << >>]
    <3>1. f = [p \in 1 .. 0 |-> FilesUpTo(f, p)]
      OBVIOUS
    <3> HIDE DEF f
    <3> QED BY <3>1
  <2>2. ASSUME NEW n \in Good PROVE n + 1 \in Good
    <3>1. PICK f : f = [p \in 1 .. n |-> FilesUpTo(f, p)]
      OBVIOUS
    <3> DEFINE g == [p \in 1 .. n + 1 |-> IF p = n + 1 THEN FilesUpTo(f, p) ELSE f[p]]
    <3>2. ASSUME NEW p \in 1 .. n + 1 PROVE g[p] = FilesUpTo(g, p)
      <4>1. p \in Nat /\ p - 1 # n + 1 /\ (p >= 2 => p - 1 \in 1 .. n)
        OBVIOUS
      <4>2. p >= 2 => g[p - 1] = f[p - 1]
        BY <4>1
      <4>3. g[p] = FilesUpTo(f, p)
        <5>1. CASE p = n + 1
          BY <5>1
        <5>2. CASE p \in 1 .. n
          <6>1. f[p] = FilesUpTo(f, p)
            BY <3>1, <5>2
          <6> QED BY <5>2, <6>1
        <5> QED BY <5>1, <5>2
      <4> HIDE DEF g
      <4> QED BY <1>1, <4>1, <4>2, <4>3 DEF FilesUpTo
    <3>3. g = [p \in 1 .. n + 1 |-> g[p]]
      OBVIOUS
    <3> HIDE DEF g
    <3>4. g = [p \in 1 .. n + 1 |-> FilesUpTo(g, p)]
      BY <3>2, <3>3
    <3>5. n + 1 \in Nat
      OBVIOUS
    <3> QED BY <3>4, <3>5
  <2>3. Bad = {}
    <3> SUFFICES ASSUME Bad # {} PROVE FALSE
      OBVIOUS
    <3> HIDE DEF Good
    <3>1. PICK n \in Bad : \A m \in Bad : n <= m
      BY LeastNumber
    <3>2. n \in Nat /\ n # 0 /\ n - 1 \in Nat /\ n - 1 \notin Bad
      BY <2>1, <3>1
    <3>3. (n - 1) + 1 \in Good
      BY <2>2, <3>2
    <3> QED BY <3>2, <3>3
  <2>4. last \in Good
    BY <1>1, <2>3
  <2> QED BY <2>4
<1>5. upTo = [p \in 1 .. last |-> FilesUpTo(upTo, p)]
  BY <1>2, <1>4
<1> HIDE DEF upTo
<1> DEFINE T == {p \in 1 .. last : \E g \in upTo[p] : ~IsMix(g, p)}
<1>6. T = {}
  <2> SUFFICES ASSUME T # {} PROVE FALSE
    OBVIOUS
  <2>1. PICK p \in T : \A q \in T : p <= q
    <3>1. T \in SUBSET Nat
      OBVIOUS
    <3> HIDE DEF T
    <3> QED BY <3>1, LeastNumber
  <2>2. PICK g \in upTo[p] : ~IsMix(g, p)
    BY <2>1
  <2>3. p \in 1 .. last /\ p \in Nat
    BY <1>1
  <2>4. CASE p < 2
    <3>1. upTo[p] = FilesUpTo(upTo, p)
      BY <1>5, <2>3
    <3>2. g = << >> /\ 2 .. p = {}
      BY <1>1, <2>2, <2>3, <2>4, <3>1 DEF FilesUpTo
    <3> QED BY <2>2, <3>2
  <2>5. CASE p >= 2
    <3>1. p - 1 \in 1 .. last /\ p - 1 \notin T
      BY <1>1, <2>1, <2>3, <2>5
    <3>2. PICK old \in upTo[p - 1], page \in cand[p] : g = WithPage(old, p, page)
      <4>1. upTo[p] = FilesUpTo(upTo, p)
        BY <1>5, <2>3
      <4>2. g \in Extensions(upTo[p - 1], p)
        BY <1>1, <2>2, <2>3, <2>5, <4>1 DEF FilesUpTo
      <4> QED BY <4>2 DEF Extensions
    <3>3. IsMix(old, p - 1)
      BY <3>1, <3>2
    <3>4. DOMAIN old = 2 .. p - 1 /\ (2 .. p - 1) \cup {p} = 2 .. p /\ p \notin 2 .. p - 1
      BY <2>3, <2>5, <3>3
    <3>5. DOMAIN g = 2 .. p /\ g = [q \in 2 .. p |-> IF q \in 2 .. p - 1 THEN old[q] ELSE page]
      BY <3>2, <3>4 DEF WithPage
    <3>6. IsMix(g, p)
      <4>1. ASSUME NEW q \in 2 .. p PROVE g[q] \in cand[q]
        <5>1. q \in 2 .. p - 1 \/ q = p
          BY <2>3
        <5> QED BY <3>2, <3>3, <3>5, <5>1
      <4> QED BY <3>5, <4>1
    <3> QED BY <2>2, <3>6
  <2> QED BY <2>3, <2>4, <2>5
<1>7. last \in 1 .. last
  BY <1>1
<1>8. IsMix(file, last)
  BY <1>6, <1>7, <1>3
<1> QED BY <1>1, <1>8

-----------------------------------------------------------------------------
(* Typed is inductive.                                                     *)

LEMMA TypedInit == ShortFile /\ Init => Typed
<1> SUFFICES ASSUME ShortFile, Init PROVE Typed
  OBVIOUS
<1>1. /\ FirstBucket = 2 /\ NumBuckets \in Nat \ {0} /\ MaxPage \in Nat
      /\ MaxPage >= 2 + NumBuckets - 1 /\ EmptyLink \in Nat /\ Capacity \in Nat
  BY HashAssumption DEF FirstBucket
<1>2. DOMAIN pages = 2 .. 2 + NumBuckets - 1 /\ meta = NumBuckets
  BY <1>1 DEF Init
<1>3. Numbered
  <2>1. 2 + NumBuckets - 1 \in 2 + meta - 1 .. MaxPage
    BY <1>1, <1>2
  <2> QED BY <1>1, <1>2, <2>1 DEF Init, Numbered
<1>4. ASSUME NEW p \in DOMAIN pages
      PROVE  /\ pages[p] \in cand[p]
             /\ \A version \in cand[p] :
                  /\ version \in Version /\ Len(version.entries) <= Capacity
                  /\ LinkOK(p, version)
  <2>1. pages[p] = Bucket(<< >>, 0) /\ cand[p] = {Unwritten, pages[p]}
    BY <1>1, <1>2 DEF Init
  <2> QED BY <1>1, <2>1 DEF Bucket, Unwritten, Version, LinkOK
<1> QED BY <1>3, <1>4 DEF Typed, Versions, Answered, Init

LEMMA Rewriting ==
  ASSUME Typed, NEW c \in DOMAIN pages, NEW entries,
         Store(Rewritten(c, entries))
  PROVE  /\ DOMAIN pages' = DOMAIN pages
         /\ pages' = [p \in DOMAIN pages |->
              IF p = c THEN Bucket(entries, Link(c)) ELSE pages[p]]
         /\ cand' = [p \in DOMAIN pages |-> cand[p] \cup {pages'[p]}]
<1>1. DOMAIN cand = DOMAIN pages
  BY DEF Typed, Numbered
<1> QED BY <1>1 DEF Store, Rewritten

LEMMA RewrittenTyped ==
  ASSUME Typed, NEW c \in DOMAIN pages, NEW entries \in Seq(Key \X RowId),
         Len(entries) <= Capacity,
         Store(Rewritten(c, entries)), UNCHANGED <<num_buckets, meta>>, Answered'
  PROVE  Typed'
<1>1. /\ DOMAIN pages' = DOMAIN pages
      /\ pages' = [p \in DOMAIN pages |->
           IF p = c THEN Bucket(entries, Link(c)) ELSE pages[p]]
      /\ cand' = [p \in DOMAIN pages |-> cand[p] \cup {pages'[p]}]
  BY Rewriting
<1>2. Numbered'
  BY <1>1 DEF Typed, Numbered
<1>3. Heads' = Heads
  BY DEF Heads
<1>4. ASSUME NEW p \in DOMAIN pages
      PROVE  /\ pages[p] \in Version /\ Len(pages[p].entries) <= Capacity
             /\ LinkOK(p, pages[p]) /\ Link(p) \in Nat
  BY <1>1, LinksForward DEF Typed, Versions
<1>5. /\ Bucket(entries, Link(c)) \in Version
      /\ Len(Bucket(entries, Link(c)).entries) <= Capacity
      /\ LinkOK(c, Bucket(entries, Link(c)))
  BY <1>4 DEF Bucket, Version, LinkOK, Link
<1>6. ASSUME NEW p \in DOMAIN pages'
      PROVE  /\ pages'[p] \in cand'[p]
             /\ \A version \in cand'[p] :
                  /\ version \in Version /\ Len(version.entries) <= Capacity
                  /\ LinkOK(p, version)'
  <2>1. \A version \in cand[p] :
          version \in Version /\ Len(version.entries) <= Capacity /\ LinkOK(p, version)
    BY <1>1 DEF Typed, Versions
  <2>2. /\ pages'[p] \in Version /\ Len(pages'[p].entries) <= Capacity
        /\ LinkOK(p, pages'[p])
    BY <1>1, <1>4, <1>5
  <2>3. \A version : LinkOK(p, version)' = LinkOK(p, version)
    BY <1>1, <1>3 DEF LinkOK
  <2> QED BY <1>1, <2>1, <2>2, <2>3
<1>7. Versions'
  BY <1>6 DEF Versions
<1> QED BY <1>2, <1>7 DEF Typed

LEMMA OverflowTyped ==
  ASSUME Typed, NEW key \in Key, NEW rowid \in RowId, InsertInOverflow(key, rowid)
  PROVE  Typed'
<1>1. PICK c \in ToSet(Chain(key)) :
        /\ NewPage \in Nat /\ NewPage <= MaxPage /\ NewPage \notin DOMAIN pages
        /\ \A p \in DOMAIN pages : p < NewPage
        /\ c \in DOMAIN pages
        /\ DOMAIN pages' = DOMAIN pages \cup {NewPage}
        /\ pages' = [p \in DOMAIN pages \cup {NewPage} |->
             IF p = NewPage THEN Bucket(<<<<key, rowid>>>>, 0)
             ELSE IF p = c THEN Bucket(pages[c].entries, NewPage) ELSE pages[p]]
        /\ cand' = [p \in DOMAIN pages \cup {NewPage} |->
             (IF p = NewPage THEN {Unwritten} ELSE cand[p]) \cup {pages'[p]}]
  BY InsertInOverflowEffect
<1>2. PICK last \in Nat : /\ DOMAIN pages = 2 .. last /\ NewPage = last + 1
                          /\ DOMAIN pages' = 2 .. last + 1
  BY InsertInOverflowEffect
<1>3. UNCHANGED <<num_buckets, meta>> /\ answer' = << >>
  BY DEF InsertInOverflow
<1>4. /\ Heads' = Heads /\ Heads \subseteq DOMAIN pages
      /\ meta \in Nat \ {0} /\ FirstBucket = 2 /\ 2 + meta - 1 <= last
      /\ MaxPage \in Nat /\ EmptyLink \in Nat /\ Capacity \in Nat \ {0}
  <2>1. \E n \in Nat : /\ FirstBucket = 2 /\ meta \in Nat \ {0}
                       /\ MaxPage \in Nat /\ EmptyLink \in Nat
                       /\ DOMAIN pages = 2 .. n /\ 2 + meta - 1 <= n
                       /\ Heads = 2 .. 2 + meta - 1
    BY PageNumbers DEF Typed
  <2>2. Heads' = Heads
    BY <1>3 DEF Heads
  <2> QED BY <1>2, <2>1, <2>2, HashAssumption
<1>5. Numbered'
  <2>1. last + 1 \in FirstBucket + meta - 1 .. MaxPage
    BY <1>1, <1>2, <1>4
  <2> QED BY <1>1, <1>2, <1>3, <1>4, <2>1 DEF Typed, Numbered, FirstBucket
<1> DEFINE NewOK(p, version) ==
             version.next_overflow \in {0, EmptyLink}
               \cup ((DOMAIN pages \cup {NewPage}) \ (Heads \cup 1 .. p))
<1>6. \A p, version : LinkOK(p, version)' = NewOK(p, version)
  BY <1>1, <1>4 DEF LinkOK
<1>7. \A p, version : LinkOK(p, version) => NewOK(p, version)
  BY DEF LinkOK
<1>8. /\ NewOK(NewPage, Unwritten) /\ NewOK(NewPage, Bucket(<<<<key, rowid>>>>, 0))
      /\ \A p \in DOMAIN pages : \A entries : NewOK(p, Bucket(entries, NewPage))
  <2>1. \A p \in DOMAIN pages : p \in Nat
    BY PageType
  <2> QED BY <1>1, <1>4, <2>1 DEF Unwritten, Bucket
<1> HIDE DEF NewOK
<1>9. ASSUME NEW p \in DOMAIN pages'
      PROVE  /\ pages'[p] \in cand'[p]
             /\ \A version \in cand'[p] :
                  /\ version \in Version /\ Len(version.entries) <= Capacity
                  /\ NewOK(p, version)
  <2>1. CASE p = NewPage
    <3>1. pages'[p] = Bucket(<<<<key, rowid>>>>, 0) /\ cand'[p] = {Unwritten, pages'[p]}
      BY <1>1, <2>1
    <3>2. \A version \in {Unwritten, Bucket(<<<<key, rowid>>>>, 0)} :
            version \in Version /\ Len(version.entries) <= Capacity
      <4>1. /\ <<<<key, rowid>>>> \in Seq(Key \X RowId) /\ Len(<<<<key, rowid>>>>) = 1
            /\ << >> \in Seq(Key \X RowId) /\ Len(<< >>) = 0
        OBVIOUS
      <4>2. /\ Unwritten.entries = << >> /\ Unwritten \in Version
            /\ Bucket(<<<<key, rowid>>>>, 0).entries = <<<<key, rowid>>>>
            /\ Bucket(<<<<key, rowid>>>>, 0) \in Version
        BY <1>4, <4>1 DEF Unwritten, Bucket, Version
      <4>3. 0 <= Capacity /\ 1 <= Capacity
        BY <1>4
      <4> QED BY <4>1, <4>2, <4>3
    <3> QED BY <1>8, <2>1, <3>1, <3>2
  <2>2. CASE p \in DOMAIN pages
    <3>1. /\ p # NewPage /\ pages[p] \in cand[p]
          /\ \A version \in cand[p] :
               /\ version \in Version /\ Len(version.entries) <= Capacity
               /\ NewOK(p, version)
      BY <1>1, <1>7, <2>2 DEF Typed, Versions
    <3>2. cand'[p] = cand[p] \cup {pages'[p]}
      BY <1>1, <2>2, <3>1
    <3>3. /\ pages'[p] \in Version /\ Len(pages'[p].entries) <= Capacity
          /\ NewOK(p, pages'[p])
      <4>1. CASE p = c
        <5>1. pages'[p] = Bucket(pages[p].entries, NewPage)
          BY <1>1, <2>2, <3>1, <4>1
        <5> QED BY <1>1, <1>8, <2>2, <3>1, <5>1 DEF Bucket, Version
      <4>2. CASE p # c
        <5>1. pages'[p] = pages[p]
          BY <1>1, <2>2, <3>1, <4>2
        <5> QED BY <3>1, <5>1
      <4> QED BY <4>1, <4>2
    <3> QED BY <3>1, <3>2, <3>3
  <2> QED BY <1>1, <2>1, <2>2
<1>10. Versions'
  BY <1>6, <1>9 DEF Versions
<1> QED BY <1>3, <1>5, <1>10 DEF Typed, Answered

LEMMA ReopenEffect ==
  ASSUME Typed, Reopen
  PROVE  /\ DOMAIN pages' = DOMAIN pages /\ pages' = [p \in DOMAIN pages |-> pages'[p]]
         /\ cand' = [p \in DOMAIN pages |-> {pages'[p]}]
         /\ \A p \in DOMAIN pages : pages'[p] \in cand[p]
         /\ num_buckets' = meta /\ meta' = meta /\ Heads' = Heads
         /\ answer' = << >> /\ hurt' = hurt \cup grown /\ grown' = {} /\ touched' = {}
<1>1. PICK file \in Mixes : pages' = file /\ cand' = [p \in DOMAIN file |-> {file[p]}]
  BY DEF Reopen
<1>2. /\ file = [p \in DOMAIN pages |-> file[p]]
      /\ \A p \in DOMAIN pages : file[p] \in cand[p]
  BY MixesAre
<1>3. DOMAIN file = DOMAIN pages
  BY <1>2
<1> QED BY <1>1, <1>2, <1>3 DEF Reopen, Heads

LEMMA TypedNext == Typed /\ [Next]_vars => Typed'
<1> SUFFICES ASSUME Typed, [Next]_vars PROVE Typed'
  OBVIOUS
<1>1. ASSUME NEW key \in Key, NEW rowid \in RowId, InsertInPage(key, rowid)
      PROVE  Typed'
  <2>1. PICK c \in DOMAIN pages :
          /\ Len(pages[c].entries) < Capacity
          /\ Store(Rewritten(c, Append(pages[c].entries, <<key, rowid>>)))
    BY <1>1, InsertInPageEffect
  <2>2. /\ pages[c].entries \in Seq(Key \X RowId) /\ <<key, rowid>> \in Key \X RowId
        /\ Len(pages[c].entries) \in 0 .. Capacity /\ Capacity \in Nat
    BY PageType, HashAssumption
  <2>3. /\ Append(pages[c].entries, <<key, rowid>>) \in Seq(Key \X RowId)
        /\ Len(Append(pages[c].entries, <<key, rowid>>)) <= Capacity
    BY <2>1, <2>2
  <2>4. UNCHANGED <<num_buckets, meta>> /\ Answered'
    BY <1>1 DEF InsertInPage, Answered
  <2> QED BY <2>1, <2>3, <2>4, RewrittenTyped
<1>2. ASSUME NEW key \in Key, NEW rowid \in RowId, InsertInOverflow(key, rowid)
      PROVE  Typed'
  BY <1>2, OverflowTyped
<1>3. ASSUME NEW key \in Key, NEW rowid \in RowId, Delete(key, rowid)
      PROVE  Typed'
  <2>1. UNCHANGED <<num_buckets, meta>>
    BY <1>3 DEF Delete
  <2>2. CASE UNCHANGED <<pages, cand>> /\ answer' = <<key, rowid, FALSE>>
    BY <2>1, <2>2 DEF Typed, Numbered, Versions, LinkOK, Heads, Answered
  <2>3. CASE /\ answer' = <<key, rowid, TRUE>>
             /\ \E c \in DOMAIN pages : \E n \in 1 .. Len(pages[c].entries) :
                Store(Rewritten(c, RemoveAt(pages[c].entries, n)))
    <3>1. PICK c \in DOMAIN pages : \E n \in 1 .. Len(pages[c].entries) :
             Store(Rewritten(c, RemoveAt(pages[c].entries, n)))
      BY <2>3
    <3>2. PICK n \in 1 .. Len(pages[c].entries) :
             Store(Rewritten(c, RemoveAt(pages[c].entries, n)))
      BY <3>1
    <3>3. /\ pages[c].entries \in Seq(Key \X RowId)
          /\ Len(pages[c].entries) \in 0 .. Capacity /\ Capacity \in Nat
      BY PageType, HashAssumption
    <3>4. /\ RemoveAt(pages[c].entries, n) \in Seq(Key \X RowId)
          /\ Len(RemoveAt(pages[c].entries, n)) <= Capacity
      BY <3>3, RemoveAtType
    <3>5. Answered'
      BY <2>3 DEF Answered
    <3> QED BY <2>1, <3>4, <3>5, <3>2, RewrittenTyped
  <2> QED BY <1>3, <2>2, <2>3, DeleteEffect
<1>4. CASE Flush
  <2>1. UNCHANGED <<pages, num_buckets, meta>> /\ cand' = [p \in DOMAIN pages |-> {pages[p]}]
    BY <1>4 DEF Flush
  <2>2. Numbered' /\ Answered'
    BY <1>4, <2>1 DEF Typed, Numbered, Flush, Answered
  <2>3. Versions'
    BY <2>1 DEF Typed, Versions, LinkOK, Heads
  <2> QED BY <2>2, <2>3 DEF Typed
<1>5. CASE Reopen
  <2>1. Numbered' /\ Answered'
    BY <1>5, ReopenEffect DEF Typed, Numbered, Answered
  <2>2. Versions'
    BY <1>5, ReopenEffect DEF Typed, Versions, LinkOK, Heads
  <2> QED BY <2>1, <2>2 DEF Typed
<1>6. CASE UNCHANGED vars
  BY <1>6 DEF vars, Typed, Numbered, Versions, LinkOK, Heads, Answered
<1> QED BY <1>1, <1>2, <1>3, <1>4, <1>5, <1>6 DEF Next

(* TypeOK: pages are numbered through, none holds more than its capacity,  *)
(* and links lead forward to overflow pages, or behind the end of the file *)
(* in a page never written, in the pages of any time that a kill may leave *)
(* (_read_meta, _write_bucket_page, insert).  So the walk along a chain    *)
(* ends, in a file of less than 4096 pages: in a longer one, the link of a *)
(* page never written may lead backwards and close a cycle.                *)
THEOREM HashType == ShortFile => (Spec => []TypeOK)
<1>1. Typed => TypeOK
  <2> SUFFICES ASSUME Typed PROVE TypeOK
    OBVIOUS
  <2>1. PICK last \in Nat :
          /\ FirstBucket = 2 /\ DOMAIN pages = 2 .. last /\ 2 + meta - 1 <= last
          /\ meta \in Nat \ {0} /\ Heads = 2 .. 2 + meta - 1
          /\ Cardinality(DOMAIN pages) = last - 1
    BY PageNumbers DEF Typed
  <2>2. DOMAIN pages = FirstBucket .. FirstBucket + Cardinality(DOMAIN pages) - 1
    <3>1. FirstBucket + Cardinality(DOMAIN pages) - 1 = last
      BY <2>1
    <3> QED BY <2>1, <3>1
  <2>3. Heads \subseteq DOMAIN pages
    BY <2>1
  <2> QED BY <2>2, <2>3 DEF Typed, TypeOK, Numbered, Versions, LinkOK, Version, Answered
<1> QED BY <1>1, TypedInit, TypedNext, PTL DEF Spec

-----------------------------------------------------------------------------
(* Every page belongs to a bucket, in each of its versions, whether it is  *)
(* in the chain or not.                                                    *)

HomeOK(home) ==
  /\ home \in [DOMAIN pages -> Heads]
  /\ \A h \in Heads : home[h] = h
  /\ \A p \in DOMAIN pages : \A version \in cand[p] :
       /\ version.next_overflow \in DOMAIN pages =>
            home[version.next_overflow] = home[p]
       /\ \A i \in DOMAIN version.entries : BucketHead(version.entries[i][1]) = home[p]
       /\ home[p] \notin grown => version.next_overflow = Link(p)
  /\ \A p \in DOMAIN pages : home[p] \notin hurt => Link(p) # EmptyLink
Homed == \E home : HomeOK(home)

(* No two pages ever link to the same one.                                 *)
Apart ==
  \A p, q \in DOMAIN pages : p # q =>
    \A v \in cand[p], w \in cand[q] :
      v.next_overflow = w.next_overflow => v.next_overflow \in {0, EmptyLink}

(* Every overflow page is in a chain, unless a kill met a growing one.     *)
Linked ==
  hurt = {} => \A q \in DOMAIN pages \ Heads : \E p \in DOMAIN pages : Link(p) = q

Placed == Typed /\ Homed /\ Apart /\ Linked

LEMMA ChainHome ==
  ASSUME Typed, NEW home, HomeOK(home), NEW h \in Heads
  PROVE  /\ h \in DOMAIN pages
         /\ \A p \in ToSet(ChainFrom(h)) : p \in DOMAIN pages /\ home[p] = h
<1>1. h \in DOMAIN pages
  BY PageNumbers DEF Typed
<1> DEFINE S == {p \in DOMAIN pages : home[p] = h}
<1>2. h \in S
  BY <1>1 DEF HomeOK
<1>3. ASSUME NEW p \in S \cap DOMAIN pages, Link(p) \in DOMAIN pages PROVE Link(p) \in S
  <2>1. pages[p] \in cand[p]
    BY DEF Typed, Versions
  <2> QED BY <1>3, <2>1 DEF HomeOK, Link
<1>4. ToSet(ChainFrom(h)) \subseteq S
  <2> HIDE DEF S
  <2> QED BY <1>1, <1>2, <1>3, ChainInside
<1> QED BY <1>1, <1>4

LEMMA PlacedInit == ShortFile /\ Init => Placed
<1> SUFFICES ASSUME ShortFile, Init PROVE Placed
  OBVIOUS
<1>1. Typed
  BY TypedInit
<1>2. PICK last \in Nat :
        /\ FirstBucket = 2 /\ DOMAIN pages = 2 .. last /\ meta \in Nat \ {0}
        /\ Heads = 2 .. 2 + meta - 1
        /\ MaxPage \in Nat /\ EmptyLink \in Nat /\ EmptyLink > MaxPage /\ last <= MaxPage
  BY <1>1, PageNumbers DEF Typed
<1>3. /\ DOMAIN pages = Heads /\ grown = Heads /\ hurt = {}
      /\ \A p \in DOMAIN pages : pages[p] = Bucket(<< >>, 0)
      /\ \A p \in DOMAIN pages : cand[p] = {Unwritten, Bucket(<< >>, 0)}
  BY DEF Init, Heads
<1>4. \A p \in DOMAIN pages : \A version \in cand[p] :
        version.entries = << >> /\ version.next_overflow \in {0, EmptyLink}
  BY <1>3 DEF Unwritten, Bucket
<1>5. 0 \notin DOMAIN pages /\ EmptyLink \notin DOMAIN pages /\ EmptyLink # 0
  BY <1>2
<1>6. HomeOK([p \in DOMAIN pages |-> p])
  <2>1. \A p \in DOMAIN pages : Link(p) = 0
    BY <1>3 DEF Link, Bucket
  <2> QED BY <1>3, <1>4, <1>5, <2>1 DEF HomeOK
<1>7. Apart
  BY <1>4 DEF Apart
<1>8. Linked
  BY <1>3 DEF Linked
<1> QED BY <1>1, <1>6, <1>7, <1>8 DEF Placed, Homed

LEMMA SameBuckets ==
  ASSUME num_buckets' = num_buckets
  PROVE  \A key : BucketHead(key)' = BucketHead(key)
BY DEF BucketHead

(* New entries in a page of the key's chain, which are the key's or were   *)
(* there.                                                                  *)
LEMMA RewrittenPlaced ==
  ASSUME Placed, NEW key \in Key, NEW c \in ToSet(Chain(key)), c \in DOMAIN pages,
         NEW entries, Store(Rewritten(c, entries)),
         \A i \in DOMAIN entries :
           \/ entries[i][1] = key
           \/ \E j \in DOMAIN pages[c].entries : entries[i] = pages[c].entries[j],
         UNCHANGED <<num_buckets, meta, grown, hurt>>
  PROVE  Homed' /\ Apart' /\ Linked'
<1>1. /\ DOMAIN pages' = DOMAIN pages /\ Typed
      /\ pages' = [p \in DOMAIN pages |->
           IF p = c THEN Bucket(entries, Link(c)) ELSE pages[p]]
      /\ cand' = [p \in DOMAIN pages |-> cand[p] \cup {pages'[p]}]
  BY Rewriting DEF Placed
<1>2. /\ Heads' = Heads
      /\ \A k : BucketHead(k)' = BucketHead(k)
  BY SameBuckets DEF Heads
<1>3. PICK home : HomeOK(home)
  BY DEF Placed, Homed
<1>4. \A p \in DOMAIN pages : pages[p] \in cand[p]
  BY <1>1 DEF Typed, Versions
<1>5. home[c] = BucketHead(key)
  BY <1>1, <1>3, BucketOfKey, ChainHome DEF Chain
<1>6. \A p \in DOMAIN pages : Link(p)' = Link(p) /\ pages'[p].next_overflow = Link(p)
  BY <1>1 DEF Link, Bucket
<1>7. ASSUME NEW p \in DOMAIN pages
      PROVE  /\ Link(p) \in DOMAIN pages => home[Link(p)] = home[p]
             /\ \A i \in DOMAIN pages'[p].entries :
                  BucketHead(pages'[p].entries[i][1]) = home[p]
  <2>1. Link(p) \in DOMAIN pages => home[Link(p)] = home[p]
    BY <1>3, <1>4 DEF HomeOK, Link
  <2>2. ASSUME NEW i \in DOMAIN pages[p].entries
        PROVE  BucketHead(pages[p].entries[i][1]) = home[p]
    BY <1>3, <1>4 DEF HomeOK
  <2>3. CASE p = c
    <3>1. pages'[p].entries = entries
      BY <1>1, <2>3 DEF Bucket
    <3> QED BY <1>5, <2>1, <2>2, <2>3, <3>1
  <2>4. CASE p # c
    BY <1>1, <2>1, <2>2, <2>4
  <2> QED BY <2>3, <2>4
<1>8. HomeOK(home)'
  <2>1. ASSUME NEW p \in DOMAIN pages, NEW version \in cand'[p]
        PROVE  /\ version.next_overflow \in DOMAIN pages =>
                    home[version.next_overflow] = home[p]
               /\ \A i \in DOMAIN version.entries :
                    BucketHead(version.entries[i][1]) = home[p]
               /\ home[p] \notin grown => version.next_overflow = Link(p)
    <3>1. CASE version \in cand[p]
      BY <1>3, <3>1 DEF HomeOK
    <3>2. CASE version = pages'[p]
      BY <1>6, <1>7, <3>2
    <3> QED BY <1>1, <2>1, <3>1, <3>2
  <2>2. \A p \in DOMAIN pages : home[p] \notin hurt => Link(p) # EmptyLink
    BY <1>3 DEF HomeOK
  <2> QED BY <1>1, <1>2, <1>3, <1>6, <2>1, <2>2 DEF HomeOK
<1>9. Apart'
  <2>1. ASSUME NEW p \in DOMAIN pages, NEW version \in cand'[p]
        PROVE  \E old \in cand[p] : old.next_overflow = version.next_overflow
    BY <1>1, <1>4, <1>6 DEF Link
  <2> QED BY <1>1, <2>1 DEF Apart, Placed
<1>10. Linked'
  BY <1>1, <1>2, <1>6 DEF Linked, Placed
<1> QED BY <1>8, <1>9, <1>10 DEF Homed

(* The new page is one of the key's bucket.                                *)
LEMMA OverflowPlaced ==
  ASSUME Placed, NEW key \in Key, NEW rowid \in RowId, InsertInOverflow(key, rowid)
  PROVE  Homed' /\ Apart' /\ Linked'
<1>1. Typed
  BY DEF Placed
<1>2. PICK n : n = NewPage
  OBVIOUS
<1>3. PICK c \in ToSet(Chain(key)) :
        /\ NewPage \in Nat /\ NewPage <= MaxPage /\ NewPage \notin DOMAIN pages
        /\ c \in DOMAIN pages /\ Link(c) = 0
        /\ DOMAIN pages' = DOMAIN pages \cup {NewPage}
        /\ pages' = [p \in DOMAIN pages \cup {NewPage} |->
             IF p = NewPage THEN Bucket(<<<<key, rowid>>>>, 0)
             ELSE IF p = c THEN Bucket(pages[c].entries, NewPage) ELSE pages[p]]
        /\ cand' = [p \in DOMAIN pages \cup {NewPage} |->
             (IF p = NewPage THEN {Unwritten} ELSE cand[p]) \cup {pages'[p]}]
        /\ grown' = grown \cup {BucketHead(key)}
  BY <1>1, InsertInOverflowEffect
<1>4. /\ n \in Nat /\ n <= MaxPage /\ n \notin DOMAIN pages
      /\ c \in DOMAIN pages /\ Link(c) = 0
      /\ DOMAIN pages' = DOMAIN pages \cup {n}
      /\ pages' = [p \in DOMAIN pages \cup {n} |->
           IF p = n THEN Bucket(<<<<key, rowid>>>>, 0)
           ELSE IF p = c THEN Bucket(pages[c].entries, n) ELSE pages[p]]
      /\ cand' = [p \in DOMAIN pages \cup {n} |->
           (IF p = n THEN {Unwritten} ELSE cand[p]) \cup {pages'[p]}]
      /\ grown' = grown \cup {BucketHead(key)}
  BY <1>3, <1>2
<1>5. UNCHANGED <<num_buckets, meta, hurt>>
  BY DEF InsertInOverflow
<1>6. /\ Heads' = Heads /\ Heads \subseteq DOMAIN pages
      /\ \A k : BucketHead(k)' = BucketHead(k)
      /\ 0 \notin DOMAIN pages /\ EmptyLink \notin DOMAIN pages
      /\ n # 0 /\ n # EmptyLink /\ EmptyLink # 0
  <2>1. \E last \in Nat :
           /\ meta \in Nat \ {0} /\ DOMAIN pages = 2 .. last /\ last <= MaxPage
           /\ MaxPage \in Nat /\ EmptyLink \in Nat /\ EmptyLink > MaxPage
           /\ 2 + meta - 1 <= last /\ Heads = 2 .. 2 + meta - 1
           /\ Cardinality(DOMAIN pages) = last - 1 /\ FirstBucket = 2
    BY <1>1, PageNumbers DEF Typed
  <2>2. Heads' = Heads
    BY <1>5 DEF Heads
  <2>3. n # 0
    BY <1>2, <2>1 DEF NewPage
  <2> QED BY <1>4, <1>5, <2>1, <2>2, <2>3, SameBuckets
<1>7. PICK home : HomeOK(home)
  BY DEF Placed, Homed
<1>8. home[c] = BucketHead(key) /\ BucketHead(key) \in Heads
  BY <1>1, <1>7, BucketOfKey, ChainHome DEF Chain
<1>9. ASSUME NEW p \in DOMAIN pages
      PROVE  /\ pages[p] \in cand[p] /\ pages[p].next_overflow = Link(p)
             /\ \A version \in cand[p] :
                  version.next_overflow \in {0, EmptyLink} \cup DOMAIN pages
  BY <1>1 DEF Typed, Versions, LinkOK, Link
<1>10. /\ pages'[n] = Bucket(<<<<key, rowid>>>>, 0) /\ cand'[n] = {Unwritten, pages'[n]}
      /\ \A version \in cand'[n] :
           /\ version.entries \in {<< >>, <<<<key, rowid>>>>}
           /\ version.next_overflow \in {0, EmptyLink}
  BY <1>4 DEF Bucket, Unwritten
<1>11. ASSUME NEW p \in DOMAIN pages
      PROVE  /\ cand'[p] = cand[p] \cup {pages'[p]} /\ p # n
             /\ pages'[p].entries = pages[p].entries
             /\ pages'[p].next_overflow = IF p = c THEN n ELSE Link(p)
  BY <1>4, <1>9 DEF Bucket
<1>12. \A p : Link(p)' = pages'[p].next_overflow
  BY DEF Link
<1>13. PICK new : new = [p \in DOMAIN pages \cup {n} |-> IF p = n THEN home[c] ELSE home[p]]
  OBVIOUS
<1>14. ASSUME NEW p \in DOMAIN pages', NEW version \in cand'[p]
       PROVE  /\ version.next_overflow \in DOMAIN pages' =>
                   new[version.next_overflow] = new[p]
              /\ \A i \in DOMAIN version.entries :
                   BucketHead(version.entries[i][1]) = new[p]
              /\ new[p] \notin grown' => version.next_overflow = Link(p)'
  <2>1. CASE p = n
    <3>1. new[p] = BucketHead(key) /\ new[p] \in grown'
      BY <1>4, <1>8, <1>13, <2>1
    <3>2. \A i \in DOMAIN version.entries : version.entries[i] = <<key, rowid>>
      <4>1. DOMAIN << >> = {} /\ DOMAIN <<<<key, rowid>>>> = {1}
        OBVIOUS
      <4> QED BY <1>10, <2>1, <4>1
    <3>3. version.next_overflow \notin DOMAIN pages'
      BY <1>4, <1>6, <1>10, <2>1
    <3> QED BY <3>1, <3>2, <3>3
  <2>2. CASE p \in DOMAIN pages /\ version \in cand[p]
    <3>1. /\ version.next_overflow \in DOMAIN pages => home[version.next_overflow] = home[p]
          /\ \A i \in DOMAIN version.entries : BucketHead(version.entries[i][1]) = home[p]
          /\ home[p] \notin grown => version.next_overflow = Link(p)
      BY <1>7, <2>2 DEF HomeOK
    <3>2. /\ new[p] = home[p] /\ version.next_overflow # n
          /\ version.next_overflow \in DOMAIN pages =>
               new[version.next_overflow] = home[version.next_overflow]
      BY <1>4, <1>6, <1>9, <1>13, <2>2
    <3>3. new[p] \notin grown' => Link(p)' = Link(p)
      BY <1>4, <1>8, <1>11, <1>12, <2>2, <3>2
    <3> QED BY <1>4, <3>1, <3>2, <3>3
  <2>3. CASE p \in DOMAIN pages /\ version = pages'[p]
    <3>1. /\ Link(p) \in DOMAIN pages => home[Link(p)] = home[p]
          /\ \A i \in DOMAIN pages[p].entries : BucketHead(pages[p].entries[i][1]) = home[p]
      BY <1>7, <1>9, <2>3 DEF HomeOK
    <3>2. /\ new[p] = home[p] /\ new[n] = home[c] /\ Link(p) # n
          /\ Link(p) \in DOMAIN pages => new[Link(p)] = home[Link(p)]
      BY <1>4, <1>6, <1>9, <1>13, <2>3
    <3>3. version.entries = pages[p].entries /\ version.next_overflow = IF p = c THEN n ELSE Link(p)
      BY <1>11, <2>3
    <3>4. version.next_overflow = Link(p)'
      BY <1>12, <2>3
    <3>5. version.next_overflow \in DOMAIN pages' => new[version.next_overflow] = new[p]
      <4>1. CASE p = c
        BY <3>2, <3>3, <4>1
      <4>2. CASE p # c
        <5>1. version.next_overflow = Link(p)
          BY <3>3, <4>2
        <5> QED BY <1>4, <3>1, <3>2, <5>1
      <4> QED BY <4>1, <4>2
    <3> QED BY <3>1, <3>2, <3>3, <3>4, <3>5
  <2> QED BY <1>4, <1>11, <2>1, <2>2, <2>3
<1>15. HomeOK(new)'
  <2>1. /\ new \in [DOMAIN pages' -> Heads']
        /\ \A h \in Heads' : new[h] = h
    BY <1>4, <1>6, <1>7, <1>13 DEF HomeOK
  <2>2. ASSUME NEW p \in DOMAIN pages', new[p] \notin hurt' PROVE Link(p)' # EmptyLink
    <3>1. CASE p = n
      BY <1>6, <1>10, <1>12, <3>1 DEF Bucket
    <3>2. CASE p \in DOMAIN pages
      <4>1. new[p] = home[p]
        BY <1>11, <1>13, <3>2
      <4>2. Link(p) # EmptyLink
        BY <1>5, <1>7, <2>2, <3>2, <4>1 DEF HomeOK
      <4> QED BY <1>6, <1>11, <1>12, <3>2, <4>2
    <3> QED BY <1>4, <3>1, <3>2
  <2> QED BY <1>6, <1>14, <2>1, <2>2 DEF HomeOK
<1>16. Apart'
  <2>1. ASSUME NEW p \in DOMAIN pages', NEW v \in cand'[p],
               v.next_overflow \notin {0, EmptyLink}
        PROVE  \/ p = c /\ v.next_overflow = n
               \/ p \in DOMAIN pages /\ v.next_overflow # n
                  /\ \E old \in cand[p] : old.next_overflow = v.next_overflow
    <3>1. CASE p = n
      BY <1>10, <2>1, <3>1
    <3>2. CASE p \in DOMAIN pages /\ v \in cand[p]
      <4>1. v.next_overflow # n
        BY <1>4, <1>6, <1>9, <3>2
      <4> QED BY <3>2, <4>1
    <3>3. CASE p \in DOMAIN pages /\ v = pages'[p]
      <4>1. Link(p) # n
        BY <1>4, <1>6, <1>9, <3>3
      <4> QED BY <1>9, <1>11, <3>3, <4>1
    <3> QED BY <1>4, <1>11, <2>1, <3>1, <3>2, <3>3
  <2>2. ASSUME NEW p \in DOMAIN pages', NEW q \in DOMAIN pages', p # q,
               NEW v \in cand'[p], NEW w \in cand'[q], v.next_overflow = w.next_overflow
        PROVE  v.next_overflow \in {0, EmptyLink}
    <3>1. Apart
      BY DEF Placed
    <3> QED BY <2>1, <2>2, <3>1 DEF Apart
  <2> QED BY <2>2 DEF Apart
<1>17. Linked'
  <2>1. ASSUME hurt' = {}, NEW q \in DOMAIN pages' \ Heads'
        PROVE  \E p \in DOMAIN pages' : Link(p)' = q
    <3>1. CASE q = n
      BY <1>4, <1>11, <1>12, <3>1
    <3>2. CASE q \in DOMAIN pages
      <4>1. PICK p \in DOMAIN pages : Link(p) = q
        BY <1>5, <1>6, <2>1, <3>2 DEF Placed, Linked
      <4>2. p # c
        BY <1>4, <1>6, <3>2, <4>1
      <4> QED BY <1>4, <1>11, <1>12, <4>1, <4>2
    <3> QED BY <1>4, <2>1, <3>1, <3>2
  <2> QED BY <2>1 DEF Linked
<1> QED BY <1>15, <1>16, <1>17 DEF Homed

LEMMA ReopenPlaced ==
  ASSUME Placed, Reopen
  PROVE  Homed' /\ Apart' /\ Linked'
<1>1. /\ DOMAIN pages' = DOMAIN pages /\ cand' = [p \in DOMAIN pages |-> {pages'[p]}]
      /\ \A p \in DOMAIN pages : pages'[p] \in cand[p]
      /\ num_buckets' = num_buckets /\ Heads' = Heads
      /\ hurt' = hurt \cup grown /\ grown' = {}
  BY ReopenEffect DEF Placed, Typed, Numbered
<1>2. \A k : BucketHead(k)' = BucketHead(k)
  BY <1>1, SameBuckets
<1>3. PICK home : HomeOK(home)
  BY DEF Placed, Homed
<1>4. \A p : Link(p)' = pages'[p].next_overflow
  BY DEF Link
<1>5. HomeOK(home)'
  <2>1. ASSUME NEW p \in DOMAIN pages, home[p] \notin hurt' PROVE Link(p)' # EmptyLink
    BY <1>1, <1>3, <1>4, <2>1 DEF HomeOK
  <2>2. ASSUME NEW p \in DOMAIN pages, NEW version \in cand'[p]
        PROVE  /\ version.next_overflow \in DOMAIN pages =>
                    home[version.next_overflow] = home[p]
               /\ \A i \in DOMAIN version.entries :
                    BucketHead(version.entries[i][1]) = home[p]
               /\ version.next_overflow = Link(p)'
    BY <1>1, <1>3, <1>4 DEF HomeOK
  <2>3. home \in [DOMAIN pages -> Heads] /\ \A h \in Heads : home[h] = h
    BY <1>3 DEF HomeOK
  <2> QED BY <1>1, <1>2, <2>1, <2>2, <2>3 DEF HomeOK
<1>6. Apart'
  BY <1>1 DEF Apart, Placed
<1>7. Linked'
  <2>1. ASSUME hurt' = {}, NEW q \in DOMAIN pages \ Heads
        PROVE  \E p \in DOMAIN pages : Link(p)' = q
    <3>1. PICK p \in DOMAIN pages : Link(p) = q
      BY <1>1, <2>1 DEF Placed, Linked
    <3>2. Link(p)' = Link(p)
      BY <1>1, <1>3, <1>4, <2>1 DEF HomeOK
    <3> QED BY <3>1, <3>2
  <2> QED BY <1>1, <2>1 DEF Linked
<1> QED BY <1>5, <1>6, <1>7 DEF Homed

LEMMA PlacedNext == Placed /\ [Next]_vars => Placed'
<1> SUFFICES ASSUME Placed, [Next]_vars PROVE Homed' /\ Apart' /\ Linked'
  BY TypedNext DEF Placed
<1>1. Typed
  BY DEF Placed
<1>2. ASSUME NEW key \in Key, NEW rowid \in RowId, InsertInPage(key, rowid)
      PROVE  Homed' /\ Apart' /\ Linked'
  <2>1. PICK c \in ToSet(Chain(key)) :
          /\ c \in DOMAIN pages
          /\ Store(Rewritten(c, Append(pages[c].entries, <<key, rowid>>)))
    BY <1>1, <1>2, InsertInPageEffect
  <2>2. PICK entries : entries = Append(pages[c].entries, <<key, rowid>>)
    OBVIOUS
  <2>3. pages[c].entries \in Seq(Key \X RowId) /\ <<key, rowid>> \in Key \X RowId
    BY <1>1, <2>1, PageType
  <2>4. ASSUME NEW i \in DOMAIN entries
        PROVE  \/ entries[i][1] = key
               \/ \E j \in DOMAIN pages[c].entries : entries[i] = pages[c].entries[j]
    BY <2>2, <2>3, <2>4
  <2>5. UNCHANGED <<num_buckets, meta, grown, hurt>>
    BY <1>2 DEF InsertInPage
  <2>6. c \in DOMAIN pages /\ Store(Rewritten(c, entries))
    BY <2>1, <2>2
  <2> QED BY <2>4, <2>5, <2>6, RewrittenPlaced
<1>3. ASSUME NEW key \in Key, NEW rowid \in RowId, InsertInOverflow(key, rowid)
      PROVE  Homed' /\ Apart' /\ Linked'
  BY <1>3, OverflowPlaced
<1>4. ASSUME NEW key \in Key, NEW rowid \in RowId, Delete(key, rowid)
      PROVE  Homed' /\ Apart' /\ Linked'
  <2>1. UNCHANGED <<num_buckets, meta, grown, hurt>>
    BY <1>4 DEF Delete
  <2>2. CASE UNCHANGED <<pages, cand>>
    BY <2>1, <2>2 DEF Placed, Homed, HomeOK, Apart, Linked, Link, Heads, BucketHead
  <2>3. CASE \E c \in ToSet(Chain(key)) : \E n \in 1 .. Len(pages[c].entries) :
               c \in DOMAIN pages /\ Store(Rewritten(c, RemoveAt(pages[c].entries, n)))
    <3>1. PICK c \in ToSet(Chain(key)) : \E n \in 1 .. Len(pages[c].entries) :
               c \in DOMAIN pages /\ Store(Rewritten(c, RemoveAt(pages[c].entries, n)))
      BY <2>3
    <3>2. PICK n \in 1 .. Len(pages[c].entries) :
               c \in DOMAIN pages /\ Store(Rewritten(c, RemoveAt(pages[c].entries, n)))
      BY <3>1
    <3> DEFINE s == pages[c].entries
               entries == RemoveAt(s, n)
    <3>3. ASSUME NEW i \in DOMAIN entries
          PROVE  \E j \in DOMAIN s : entries[i] = s[j]
      <4>1. s \in Seq(Key \X RowId) /\ Len(s) \in Nat
        BY <1>1, <3>2, PageType
      <4>2. /\ entries \in Seq(Key \X RowId) /\ Len(entries) = Len(s) - 1
            /\ \A k \in 1 .. Len(s) - 1 : entries[k] = IF k < n THEN s[k] ELSE s[k + 1]
        BY <4>1, RemoveAtType, RemoveAtElements
      <4> HIDE DEF s, entries
      <4>3. i \in 1 .. Len(s) - 1 /\ DOMAIN s = 1 .. Len(s)
        BY <3>3, <4>1, <4>2
      <4>4. i \in 1 .. Len(s) /\ i + 1 \in 1 .. Len(s)
        BY <4>1, <4>3
      <4> QED BY <4>2, <4>3, <4>4
    <3> QED BY <2>1, <3>2, <3>3, RewrittenPlaced
  <2> QED BY <1>1, <1>4, <2>2, <2>3, DeleteEffect
<1>5. CASE Flush
  <2>1. /\ UNCHANGED <<pages, num_buckets, meta, hurt>>
        /\ cand' = [p \in DOMAIN pages |-> {pages[p]}] /\ grown' = {}
    BY <1>5 DEF Flush
  <2>2. \A p \in DOMAIN pages : pages[p] \in cand[p]
    BY <1>1 DEF Typed, Versions
  <2>3. Heads' = Heads /\ (\A k : BucketHead(k)' = BucketHead(k))
        /\ \A p : Link(p)' = Link(p)
    BY <2>1, SameBuckets DEF Heads, Link
  <2>4. PICK home : HomeOK(home)
    BY DEF Placed, Homed
  <2>5. HomeOK(home)'
    BY <2>1, <2>2, <2>3, <2>4 DEF HomeOK, Link
  <2>6. Apart' /\ Linked'
    BY <2>1, <2>2, <2>3 DEF Placed, Apart, Linked
  <2> QED BY <2>5, <2>6 DEF Homed
<1>6. CASE Reopen
  BY <1>6, ReopenPlaced
<1>7. CASE UNCHANGED vars
  BY <1>7 DEF vars, Placed, Homed, HomeOK, Apart, Linked, Link, Heads, BucketHead
<1> QED BY <1>2, <1>3, <1>4, <1>5, <1>6, <1>7 DEF Next

-----------------------------------------------------------------------------
(* What the invariant is for.                                              *)

(* ChainsApart: no two pages link to the same one, a page no chain leads   *)
(* to was lost by a kill while its chain grew, and a chain holds entries   *)
(* of its bucket (hash_index.py, insert and delete), for every number of   *)
(* pages below 4096: in a longer file a page never written links to one of *)
(* another bucket.                                                         *)
THEOREM ChainsStayApart == ShortFile => (Spec => []ChainsApart)
<1>1. Placed => ChainsApart
  <2> SUFFICES ASSUME Placed PROVE ChainsApart
    OBVIOUS
  <2>1. Typed /\ \A p \in DOMAIN pages : pages[p] \in cand[p]
    BY DEF Placed, Typed, Versions
  <2>2. ASSUME NEW p \in DOMAIN pages, NEW q \in DOMAIN pages, p # q,
               pages[p].next_overflow = pages[q].next_overflow
        PROVE  pages[p].next_overflow \in {0, EmptyLink}
    BY <2>1, <2>2 DEF Placed, Apart
  <2>3. PICK home : HomeOK(home)
    BY DEF Placed, Homed
  <2>4. ASSUME NEW h \in Heads, NEW p \in ToSet(ChainFrom(h)),
               NEW entry \in ToSet(pages[p].entries)
        PROVE  BucketHead(entry[1]) = h
    <3>1. p \in DOMAIN pages /\ home[p] = h
      BY <2>1, <2>3, ChainHome
    <3>2. PICK i \in DOMAIN pages[p].entries : entry = pages[p].entries[i]
      BY DEF ToSet
    <3> QED BY <2>1, <2>3, <3>1, <3>2 DEF HomeOK
  <2>5. ASSUME hurt = {}
        PROVE  DOMAIN pages = UNION {ToSet(ChainFrom(h)) : h \in Heads}
    <3> DEFINE InChains == UNION {ToSet(ChainFrom(h)) : h \in Heads}
               Others == DOMAIN pages \ InChains
    <3>1. PICK last \in Nat : DOMAIN pages = 2 .. last
      BY <2>1, PageNumbers DEF Typed
    <3>2. \A h \in Heads : h \in DOMAIN pages /\ h \in ToSet(ChainFrom(h))
      BY <2>1, <2>3, ChainHome, ChainPages
    <3>3. InChains \subseteq DOMAIN pages
      BY <2>1, <2>3, ChainHome
    <3>4. Others = {}
      <4> SUFFICES ASSUME Others # {} PROVE FALSE
        OBVIOUS
      <4>1. PICK q \in Others : \A p \in Others : q <= p
        <5>1. Others \in SUBSET Nat
          BY <3>1
        <5> HIDE DEF Others
        <5> QED BY <5>1, LeastNumber
      <4>2. q \in DOMAIN pages \ Heads
        BY <3>2
      <4>3. PICK p \in DOMAIN pages : Link(p) = q
        BY <2>5, <4>2 DEF Placed, Linked
      <4>4. p \in Nat /\ q \in Nat /\ p < q
        BY <2>1, <3>1, <4>2, <4>3, LinksForward
      <4>5. p \notin Others
        <5> HIDE DEF Others
        <5> QED BY <4>1, <4>4
      <4>6. PICK h \in Heads : p \in ToSet(ChainFrom(h))
        BY <4>5
      <4>7. q \in ToSet(ChainFrom(h))
        BY <2>1, <3>2, <4>2, <4>3, <4>6, ChainClosed
      <4> QED BY <4>7
    <3> QED BY <3>3, <3>4
  <2> QED BY <2>2, <2>4, <2>5 DEF ChainsApart
<1> QED BY <1>1, PlacedInit, PlacedNext, PTL DEF Spec

(* BreaksOnlyGrowing: a chain can be read to its end unless its bucket had *)
(* a page added between the last flush and a kill (insert, search).        *)
THEOREM OnlyGrowingBreaks == ShortFile => (Spec => []BreaksOnlyGrowing)
<1>1. Placed => BreaksOnlyGrowing
  <2> SUFFICES ASSUME Placed, NEW h \in Heads, Broken(ChainFrom(h)) PROVE h \in hurt
    BY DEF BreaksOnlyGrowing
  <2>1. Typed
    BY DEF Placed
  <2>2. PICK home : HomeOK(home)
    BY DEF Placed, Homed
  <2>3. PICK p \in DOMAIN pages :
          p = Last(ChainFrom(h)) /\ home[p] = h /\ Link(p) \notin DOMAIN pages
    BY <2>1, <2>2, ChainHome, ChainProperties
  <2>4. Link(p) = EmptyLink
    BY <2>1, <2>3, LinksForward DEF Broken, Link
  <2> QED BY <2>2, <2>3, <2>4 DEF HomeOK
<1> QED BY <1>1, PlacedInit, PlacedNext, PTL DEF Spec
-----------------------------------------------------------------------------
(* The entries on the pages of the chains.                                 *)

Entry == Key \X RowId
Held == [p \in DOMAIN pages |-> pages[p].entries]
OnChains == UNION {ToSet(ChainFrom(h)) : h \in Heads}

EntriesKnown ==
  /\ OnChains \subseteq DOMAIN pages /\ IsFiniteSet(DOMAIN pages) /\ IsFiniteSet(OnChains)
  /\ SeqsOn(Held, DOMAIN pages, Entry) /\ SeqsOn(Held, OnChains, Entry)
  /\ Entries = BagOn(Held, OnChains)

LEMMA EntriesOnChains == Typed => EntriesKnown
<1> SUFFICES ASSUME Typed PROVE EntriesKnown
  OBVIOUS
<1>1. Numbered
  BY DEF Typed
<1>2. IsFiniteSet(DOMAIN pages) /\ Heads \subseteq DOMAIN pages
  <2>1. PICK last \in Nat : DOMAIN pages = 2 .. last /\ Heads \subseteq 2 .. last
    <3>1. PICK last \in Nat : /\ DOMAIN pages = 2 .. last /\ 2 + meta - 1 <= last
                              /\ Heads = 2 .. 2 + meta - 1 /\ meta \in Nat
      BY <1>1, PageNumbers
    <3>2. 2 .. 2 + meta - 1 \subseteq 2 .. last
      BY <3>1
    <3> QED BY <3>1, <3>2
  <2> QED BY <2>1, FS_Interval
<1>3. OnChains \subseteq DOMAIN pages
  BY <1>2, ChainProperties DEF OnChains
<1>4. IsFiniteSet(OnChains)
  BY <1>2, <1>3, FS_Subset
<1>5. \A p \in DOMAIN pages : Held[p] = pages[p].entries /\ pages[p].entries \in Seq(Entry)
  BY PageType DEF Held, Entry
<1>6. SeqsOn(Held, DOMAIN pages, Entry) /\ SeqsOn(Held, OnChains, Entry)
  BY <1>3, <1>5 DEF SeqsOn
<1>7. Places = PlacesOf(Held, OnChains)
  <2>1. Places = UNION {{p} \X DOMAIN pages[p].entries : p \in OnChains}
    BY DEF Places, OnChains
  <2>2. \A p \in OnChains : Held[p] = pages[p].entries
    BY <1>3, <1>5
  <2> QED BY <2>1, <2>2 DEF PlacesOf
<1>8. \A at \in Places : EntryAt(at) = Held[at[1]][at[2]]
  <2>1. \A at \in Places : at[1] \in OnChains
    BY <1>7 DEF PlacesOf
  <2> QED BY <1>3, <1>5, <2>1 DEF EntryAt
<1>9. {EntryAt(at) : at \in Places} = {Held[at[1]][at[2]] : at \in PlacesOf(Held, OnChains)}
  BY <1>7, <1>8
<1>10. ASSUME NEW e
       PROVE  Cardinality({at \in Places : EntryAt(at) = e}) = Total(Held, OnChains, e)
  <2>1. {at \in Places : EntryAt(at) = e} = Spots(Held, OnChains, e)
    BY <1>7, <1>8 DEF Spots
  <2> QED BY <2>1 DEF Total
<1>11. Entries = BagOn(Held, OnChains)
  BY <1>9, <1>10 DEF Entries, BagOn
<1> QED BY <1>2, <1>3, <1>4, <1>6, <1>11 DEF EntriesKnown

(* The pages of the chains are the smallest set with the heads and, with a *)
(* page, the one it links to.                                              *)
Closed(S) ==
  /\ Heads \subseteq S
  /\ \A p \in S \cap DOMAIN pages : Link(p) \in DOMAIN pages => Link(p) \in S
ChainsKnown == Closed(OnChains) /\ \A S \in SUBSET DOMAIN pages : Closed(S) => OnChains \subseteq S

LEMMA ChainsClosed == Typed => ChainsKnown
<1> SUFFICES ASSUME Typed PROVE ChainsKnown
  OBVIOUS
<1>1. Heads \subseteq DOMAIN pages
  <2>1. Numbered
    BY DEF Typed
  <2>2. PICK last \in Nat : /\ DOMAIN pages = 2 .. last /\ 2 + meta - 1 <= last
                            /\ Heads = 2 .. 2 + meta - 1 /\ meta \in Nat
    BY <2>1, PageNumbers
  <2> QED BY <2>2
<1>2. Heads \subseteq OnChains
  BY <1>1, ChainPages DEF OnChains
<1>3. ASSUME NEW p \in OnChains \cap DOMAIN pages, Link(p) \in DOMAIN pages
      PROVE  Link(p) \in OnChains
  <2>1. PICK h \in Heads : p \in ToSet(ChainFrom(h))
    BY DEF OnChains
  <2>2. Link(p) \in ToSet(ChainFrom(h))
    BY <1>1, <1>3, <2>1, ChainClosed
  <2> QED BY <2>2 DEF OnChains
<1>4. ASSUME NEW S \in SUBSET DOMAIN pages, Closed(S) PROVE OnChains \subseteq S
  <2>1. ASSUME NEW h \in Heads PROVE ToSet(ChainFrom(h)) \subseteq S
    <3>1. /\ h \in DOMAIN pages /\ h \in S
          /\ \A p \in S \cap DOMAIN pages : Link(p) \in DOMAIN pages => Link(p) \in S
      BY <1>1, <1>4 DEF Closed
    <3> QED BY ONLY Typed, <3>1, ChainInside
  <2> QED BY <2>1 DEF OnChains
<1> QED BY <1>2, <1>3, <1>4 DEF ChainsKnown, Closed

(* A chain visits no page twice.                                           *)
LEMMA ChainDistinct ==
  ASSUME Typed, NEW h \in DOMAIN pages
  PROVE  NoRepeats(ChainFrom(h))
<1> DEFINE Good(p) == /\ NoRepeats(ChainFrom(p))
                      /\ \A q \in ToSet(ChainFrom(p)) : p <= q
           T == {p \in DOMAIN pages : Good(p)}
<1>1. ASSUME NEW p \in DOMAIN pages, Link(p) \in DOMAIN pages => Link(p) \in T
      PROVE  p \in T
  <2>1. p \in Nat /\ Link(p) \in Nat
    BY LinksForward
  <2>2. CASE Link(p) \notin DOMAIN pages
    <3>1. ChainFrom(p) = <<p>> \o << >>
      BY <2>2, ChainEquation
    <3>2. ChainFrom(p) = <<p>>
      BY <3>1
    <3>3. NoRepeats(<<p>>) /\ ToSet(<<p>>) = {p}
      BY DEF NoRepeats, ToSet
    <3> QED BY <2>1, <3>2, <3>3
  <2>3. CASE Link(p) \in DOMAIN pages
    <3>1. PICK n, r : n = Link(p) /\ r = ChainFrom(n)
      OBVIOUS
    <3>2. n \in DOMAIN pages /\ p < n /\ n \in Nat
      BY <2>1, <2>3, <3>1, LinksForward
    <3>3. Good(n)
      <4> HIDE DEF Good
      <4> QED BY <1>1, <2>3, <3>1
    <3>4. r \in Seq(DOMAIN pages) /\ ToSet(r) \subseteq DOMAIN pages
      BY <3>1, <3>2, ChainProperties
    <3>5. \A i \in DOMAIN r : r[i] \in DOMAIN pages /\ n <= r[i]
      BY <3>1, <3>3, <3>4 DEF ToSet
    <3>6. DOMAIN pages \subseteq Nat
      BY LinksForward
    <3>7. \A i \in DOMAIN r : p < r[i] /\ p # r[i]
      BY <2>1, <3>2, <3>5, <3>6
    <3>8. \A i, j \in DOMAIN r : r[i] = r[j] => i = j
      BY <3>1, <3>3 DEF NoRepeats
    <3>9. PICK c : c = ChainFrom(p)
      OBVIOUS
    <3>10. c = <<p>> \o r
      BY <2>3, <3>1, <3>9, ChainEquation
    <3>11. /\ DOMAIN c = 1 .. Len(r) + 1 /\ c[1] = p
           /\ \A i \in 2 .. Len(r) + 1 : c[i] = r[i - 1] /\ i - 1 \in DOMAIN r
      BY <3>4, <3>10
    <3>12. ASSUME NEW i \in DOMAIN c, NEW j \in DOMAIN c, c[i] = c[j] PROVE i = j
      <4>1. CASE i = 1 /\ j = 1
        BY <4>1
      <4>2. CASE i = 1 /\ j # 1
        <5>1. j \in 2 .. Len(r) + 1
          BY <3>4, <3>11, <4>2
        <5> QED BY <3>7, <3>11, <3>12, <4>2, <5>1
      <4>3. CASE i # 1 /\ j = 1
        <5>1. i \in 2 .. Len(r) + 1
          BY <3>4, <3>11, <4>3
        <5> QED BY <3>7, <3>11, <3>12, <4>3, <5>1
      <4>4. CASE i # 1 /\ j # 1
        <5>1. i \in 2 .. Len(r) + 1 /\ j \in 2 .. Len(r) + 1
          BY <3>4, <3>11, <4>4
        <5>2. i - 1 = j - 1
          BY <3>8, <3>11, <3>12, <5>1
        <5> QED BY <5>1, <5>2
      <4> QED BY <4>1, <4>2, <4>3, <4>4
    <3>13. ASSUME NEW q \in ToSet(c) PROVE p <= q
      <4>1. PICK i \in DOMAIN c : c[i] = q
        BY DEF ToSet
      <4>2. CASE i = 1
        BY <2>1, <3>11, <4>1, <4>2
      <4>3. CASE i # 1
        <5>1. i \in 2 .. Len(r) + 1
          BY <3>4, <3>11, <4>1, <4>3
        <5>2. q = r[i - 1] /\ i - 1 \in DOMAIN r
          BY <3>11, <4>1, <5>1
        <5>3. p < q /\ q \in Nat
          BY <3>5, <3>6, <3>7, <5>2
        <5> QED BY <2>1, <5>3
      <4> QED BY <4>2, <4>3
    <3> QED BY <3>9, <3>12, <3>13 DEF NoRepeats
  <2> QED BY <2>2, <2>3
<1>2. T = DOMAIN pages
  <2>1. T \in SUBSET DOMAIN pages
    OBVIOUS
  <2> HIDE DEF T
  <2> QED BY <1>1, <2>1, FromTheEnd
<1> QED BY <1>2

-----------------------------------------------------------------------------
(* Searching.                                                              *)

UpTo(f, s, key, i) ==
  IF i = 0 THEN << >> ELSE IF s[i][1] = key THEN Append(f[i - 1], s[i]) ELSE f[i - 1]

LEMMA UpToExists ==
  ASSUME NEW s, NEW key, NEW last \in Nat
  PROVE  \E f : f = [i \in 0 .. last |-> UpTo(f, s, key, i)]
<1> DEFINE Made == {n \in Nat : \E f : f = [i \in 0 .. n |-> UpTo(f, s, key, i)]}
<1>1. 0 \in Made
  <2> DEFINE f == [i \in 0 .. 0 |-> << >>]
  <2>1. f = [i \in 0 .. 0 |-> UpTo(f, s, key, i)]
    BY DEF UpTo
  <2> HIDE DEF f
  <2> QED BY <2>1
<1>2. ASSUME NEW n \in Nat, n \in Made PROVE n + 1 \in Made
  <2>1. PICK f : f = [i \in 0 .. n |-> UpTo(f, s, key, i)]
    BY <1>2
  <2> DEFINE g == [i \in 0 .. n + 1 |-> IF i = n + 1 THEN UpTo(f, s, key, i) ELSE f[i]]
  <2>2. ASSUME NEW i \in 0 .. n + 1 PROVE g[i] = UpTo(g, s, key, i)
    <3>1. i \in Nat /\ i - 1 # n + 1 /\ (i # 0 => i - 1 \in 0 .. n + 1)
      OBVIOUS
    <3>2. i # 0 => g[i - 1] = f[i - 1]
      BY <3>1
    <3>3. g[i] = UpTo(f, s, key, i)
      <4>1. CASE i = n + 1
        BY <4>1
      <4>2. CASE i \in 0 .. n
        <5>1. f[i] = UpTo(f, s, key, i)
          BY <2>1, <4>2
        <5> QED BY <4>2, <5>1
      <4> QED BY <4>1, <4>2
    <3> HIDE DEF g
    <3> QED BY <3>1, <3>2, <3>3 DEF UpTo
  <2>3. g = [i \in 0 .. n + 1 |-> g[i]]
    OBVIOUS
  <2> HIDE DEF g
  <2>4. g = [i \in 0 .. n + 1 |-> UpTo(g, s, key, i)]
    BY <2>2, <2>3
  <2>5. n + 1 \in Nat
    OBVIOUS
  <2> QED BY <2>4, <2>5
<1>3. Nat \subseteq Made
  <2> HIDE DEF Made
  <2> QED BY <1>1, <1>2, AllNumbers
<1>4. last \in Made
  BY <1>3
<1> QED BY <1>4

LEMMA MatchingTimes ==
  ASSUME NEW s \in Seq(Entry), NEW key
  PROVE  /\ Matching(s, key) \in Seq(Entry)
         /\ \A x : Times(Matching(s, key), x) = IF x[1] = key THEN Times(s, x) ELSE 0
<1>1. PICK last \in Nat : last = Len(s) /\ DOMAIN s = 1 .. last
  OBVIOUS
<1> DEFINE upTo == CHOOSE f : f = [i \in 0 .. last |-> UpTo(f, s, key, i)]
<1>2. upTo = [i \in 0 .. last |-> UpTo(upTo, s, key, i)]
  BY UpToExists
<1>3. Matching(s, key) = upTo[last]
  BY <1>1 DEF Matching, UpTo
<1> HIDE DEF upTo
<1> DEFINE Right(n) == /\ upTo[n] \in Seq(Entry)
                       /\ \A x : Times(upTo[n], x)
                                   = IF x[1] = key THEN Times(SubSeq(s, 1, n), x) ELSE 0
           T == {n \in Nat : n <= last => Right(n)}
<1>4. 0 \in T
  <2>1. upTo[0] = << >> /\ << >> \in Seq(Entry)
    BY <1>2 DEF UpTo
  <2>2. SubSeq(s, 1, 0) = << >>
    OBVIOUS
  <2>3. \A x : Times(<< >>, x) = 0
    BY TimesEmpty
  <2>4. Right(0)
    BY <2>1, <2>2, <2>3
  <2> HIDE DEF Right
  <2> QED BY <2>4
<1>5. ASSUME NEW n \in Nat, n \in T PROVE n + 1 \in T
  <2>1. PICK k \in Nat : k = n + 1
    OBVIOUS
  <2>2. ASSUME k <= last PROVE Right(k)
    <3>1. k \in 0 .. last /\ k # 0 /\ k - 1 = n /\ n <= last /\ k \in 1 .. last
      BY <2>1, <2>2
    <3>2. Right(n)
      <4> HIDE DEF Right
      <4> QED BY <1>5, <3>1
    <3>3. PICK u, e, a, b : u = upTo[n] /\ e = s[k] /\ a = SubSeq(s, 1, n) /\ b = SubSeq(s, 1, k)
      OBVIOUS
    <3>4. u \in Seq(Entry) /\ e \in Entry /\ a \in Seq(Entry)
      BY <1>1, <3>1, <3>2, <3>3
    <3>5. upTo[k] = IF e[1] = key THEN Append(u, e) ELSE u
      BY <1>2, <3>1, <3>3 DEF UpTo
    <3>6. b = Append(a, e)
      BY <1>1, <2>1, <3>1, <3>3
    <3>7. ASSUME NEW x
          PROVE  Times(upTo[k], x) = IF x[1] = key THEN Times(b, x) ELSE 0
      <4>1. Times(u, x) = IF x[1] = key THEN Times(a, x) ELSE 0
        BY <3>2, <3>3
      <4>2. Times(Append(a, e), x) = Times(a, x) + (IF e = x THEN 1 ELSE 0)
        BY <3>4, TimesAppend
      <4>3. Times(Append(u, e), x) = Times(u, x) + (IF e = x THEN 1 ELSE 0)
        BY <3>4, TimesAppend
      <4>4. Times(u, x) \in Nat /\ Times(a, x) \in Nat
        BY <3>4, TimesType
      <4>5. CASE e = x
        BY <3>5, <3>6, <4>1, <4>2, <4>3, <4>5
      <4>6. CASE e # x
        BY <3>5, <3>6, <4>1, <4>2, <4>3, <4>4, <4>6
      <4> QED BY <4>5, <4>6
    <3>8. upTo[k] \in Seq(Entry)
      BY <3>4, <3>5
    <3> QED BY <3>3, <3>7, <3>8
  <2> HIDE DEF Right
  <2> QED BY <2>1, <2>2
<1>6. Right(last)
  <2>1. last \in T
    <3> HIDE DEF T
    <3> QED BY <1>4, <1>5, AllNumbers
  <2> HIDE DEF Right
  <2> QED BY <2>1
<1>7. SubSeq(s, 1, last) = s
  BY <1>1
<1> QED BY <1>3, <1>6, <1>7

(* A key's entries are all in its chain.                                   *)
LEMMA KeyInChain ==
  ASSUME Placed, NEW key \in Key, NEW x \in Entry, x[1] = key,
         NEW p \in OnChains, Times(Held[p], x) # 0
  PROVE  p \in ToSet(Chain(key))
<1>1. Typed
  BY DEF Placed
<1>2. PICK home : HomeOK(home)
  BY DEF Placed, Homed
<1>3. p \in DOMAIN pages /\ pages[p].entries \in Seq(Entry)
  BY <1>1, EntriesOnChains, PageType DEF EntriesKnown, Entry
<1>4. PICK i \in DOMAIN pages[p].entries : pages[p].entries[i] = x
  <2>1. Held[p] = pages[p].entries
    BY <1>3 DEF Held
  <2> QED BY <1>3, <2>1, TimesType
<1>5. BucketHead(key) = home[p]
  <2>1. pages[p] \in cand[p]
    BY <1>1, <1>3 DEF Typed, Versions
  <2> QED BY <1>2, <1>3, <1>4, <2>1 DEF HomeOK
<1>6. PICK h \in Heads : p \in ToSet(ChainFrom(h))
  BY DEF OnChains
<1>7. home[p] = h
  BY <1>1, <1>2, <1>6, ChainHome
<1> QED BY <1>5, <1>6, <1>7 DEF Chain

LEMMA SearchIsComplete == Placed => SearchFindsAll
<1> SUFFICES ASSUME Placed PROVE SearchFindsAll
  OBVIOUS
<1>1. Typed
  BY DEF Placed
<1>2. EntriesKnown
  BY <1>1, EntriesOnChains
<1>3. ASSUME NEW key \in Key
      PROVE  ToBag(Search(key)) = [e \in {d \in BagToSet(Entries) : d[1] = key} |-> Entries[e]]
  <2>1. PICK c : c = Chain(key)
    OBVIOUS
  <2>2. /\ c \in Seq(DOMAIN pages) /\ Len(c) # 0 /\ NoRepeats(c)
        /\ \A i \in DOMAIN c : c[i] \in DOMAIN pages
    BY <1>1, <2>1, BucketOfKey, ChainProperties, ChainDistinct DEF Chain
  <2>3. ToSet(c) \subseteq OnChains
    BY <1>1, <2>1, BucketOfKey DEF Chain, OnChains
  <2>4. PICK s, m : s = FlattenSeq([i \in DOMAIN c |-> Held[c[i]]]) /\ m = Matching(s, key)
    OBVIOUS
  <2>5. s \in Seq(Entry) /\ \A x : Times(s, x) = Total(Held, ToSet(c), x)
    BY <1>2, <2>2, <2>4, Flattened DEF EntriesKnown
  <2>6. Search(key) = m
    <3>1. [i \in DOMAIN c |-> Held[c[i]]] = [i \in DOMAIN c |-> pages[c[i]].entries]
      BY <2>2 DEF Held
    <3> QED BY <2>1, <2>4, <3>1 DEF Search
  <2>7. m \in Seq(Entry) /\ \A x : Times(m, x) = IF x[1] = key THEN Times(s, x) ELSE 0
    BY <2>4, <2>5, MatchingTimes
  <2>8. ASSUME NEW x \in Entry, x[1] = key
        PROVE  Total(Held, ToSet(c), x) = Total(Held, OnChains, x)
    <3>1. \A p \in OnChains \ ToSet(c) : Times(Held[p], x) = 0
      BY <2>1, <2>8, KeyInChain
    <3>2. SeqsOn(Held, OnChains, Entry)
      BY <1>2 DEF EntriesKnown
    <3> QED BY <2>3, <3>1, <3>2, TotalOfMore
  <2>9. \A x : /\ x \in DOMAIN Entries <=> Total(Held, OnChains, x) # 0
               /\ x \in DOMAIN Entries => Entries[x] = Total(Held, OnChains, x) /\ x \in Entry
    BY <1>2, BagOnIs DEF EntriesKnown
  <2>10. /\ ToBag(m) = [x \in DOMAIN ToBag(m) |-> Times(m, x)]
         /\ \A x : x \in DOMAIN ToBag(m) <=> Times(m, x) # 0
    BY <2>7, ToBagIs
  <2>11. \A x : Times(m, x) # 0 => x \in Entry
    BY <2>7, TimesType
  <2>12. ASSUME NEW x
         PROVE  /\ x \in DOMAIN ToBag(m) <=> x \in DOMAIN Entries /\ x[1] = key
                /\ x \in DOMAIN ToBag(m) => Times(m, x) = Entries[x]
    <3>1. CASE x \in Entry /\ x[1] = key
      BY <2>5, <2>7, <2>8, <2>9, <2>10, <3>1
    <3>2. CASE ~(x \in Entry /\ x[1] = key)
      BY <2>7, <2>9, <2>10, <2>11, <3>2
    <3> QED BY <3>1, <3>2
  <2>13. DOMAIN ToBag(m) = {d \in BagToSet(Entries) : d[1] = key}
    BY <2>12 DEF BagToSet
  <2> QED BY <2>6, <2>10, <2>12, <2>13
<1> QED BY <1>3 DEF SearchFindsAll

(* SearchFindsAll: a search returns all of its key's entries, on whichever *)
(* pages of the chain they are and however many entries before them were   *)
(* deleted (hash_index.py, search).                                        *)
THEOREM SearchesComplete == ShortFile => (Spec => []SearchFindsAll)
<1>1. ShortFile => (Spec => []Placed)
  BY PlacedInit, PlacedNext, PTL DEF Spec
<1> QED BY <1>1, SearchIsComplete, PTL

-----------------------------------------------------------------------------
(* What a kill may leave of a page.                                        *)

(* Each version of a page holds what the page holds but for the entries    *)
(* touched since the last flush; a version with another link than the page *)
(* leads nowhere, and the page linked to is one never flushed.             *)
SettledPage(p, version) ==
  /\ \A x \in Entry \ touched : Times(version.entries, x) = Times(pages[p].entries, x)
  /\ version.next_overflow # Link(p) =>
       /\ version.next_overflow \notin DOMAIN pages
       /\ Link(p) \in DOMAIN pages => Unwritten \in cand[Link(p)]
Settled == \A p \in DOMAIN pages : \A version \in cand[p] : SettledPage(p, version)

LEMMA SettledInit == ShortFile /\ Init => Settled
<1> SUFFICES ASSUME ShortFile, Init PROVE Settled
  OBVIOUS
<1>1. /\ DOMAIN pages = FirstBucket .. FirstBucket + NumBuckets - 1
      /\ \A p \in DOMAIN pages : pages[p] = Bucket(<< >>, 0)
      /\ \A p \in DOMAIN pages : cand[p] = {Unwritten, pages[p]}
  BY DEF Init
<1>2. 0 \notin DOMAIN pages /\ EmptyLink \notin DOMAIN pages
  BY <1>1, HashAssumption DEF FirstBucket, ShortFile
<1>3. ASSUME NEW p \in DOMAIN pages, NEW version \in cand[p] PROVE SettledPage(p, version)
  <2>1. version.entries = << >> /\ pages[p].entries = << >> /\ Link(p) = 0
        /\ version.next_overflow \in {0, EmptyLink}
    BY <1>1 DEF Unwritten, Bucket, Link
  <2> QED BY <1>2, <2>1 DEF SettledPage
<1> QED BY <1>3 DEF Settled

LEMMA RewrittenSettled ==
  ASSUME Typed, Settled, NEW c \in DOMAIN pages, NEW entries, Store(Rewritten(c, entries)),
         NEW e, touched = {}, touched' = {e},
         \A x \in Entry \ {e} : Times(entries, x) = Times(pages[c].entries, x)
  PROVE  Settled'
<1>1. /\ DOMAIN pages' = DOMAIN pages
      /\ pages' = [p \in DOMAIN pages |->
           IF p = c THEN Bucket(entries, Link(c)) ELSE pages[p]]
      /\ cand' = [p \in DOMAIN pages |-> cand[p] \cup {pages'[p]}]
  BY Rewriting
<1>2. ASSUME NEW p \in DOMAIN pages
      PROVE  /\ pages'[p].next_overflow = Link(p) /\ pages[p].next_overflow = Link(p)
             /\ \A x \in Entry \ {e} : Times(pages'[p].entries, x) = Times(pages[p].entries, x)
  <2>1. CASE p = c
    <3>1. pages'[p] = Bucket(entries, Link(p))
      BY <1>1, <2>1
    <3> QED BY <2>1, <3>1 DEF Bucket, Link
  <2>2. CASE p # c
    <3>1. pages'[p] = pages[p]
      BY <1>1, <2>2
    <3> QED BY <3>1 DEF Link
  <2> QED BY <2>1, <2>2
<1>3. \A p : Link(p)' = pages'[p].next_overflow
  BY DEF Link
<1>4. ASSUME NEW p \in DOMAIN pages, NEW version \in cand'[p]
      PROVE  SettledPage(p, version)'
  <2>1. CASE version \in cand[p]
    <3>1. SettledPage(p, version)
      BY <2>1 DEF Settled
    <3>2. \A x \in Entry \ {e} : Times(version.entries, x) = Times(pages'[p].entries, x)
      BY <1>2, <3>1 DEF SettledPage
    <3>3. ASSUME version.next_overflow # Link(p)
          PROVE  /\ version.next_overflow \notin DOMAIN pages
                 /\ Link(p) \in DOMAIN pages => Unwritten \in cand'[Link(p)]
      BY <1>1, <3>1, <3>3 DEF SettledPage
    <3> QED BY <1>1, <1>2, <1>3, <3>2, <3>3 DEF SettledPage
  <2>2. CASE version = pages'[p]
    BY <1>2, <1>3, <2>2 DEF SettledPage
  <2> QED BY <1>1, <2>1, <2>2
<1> QED BY <1>1, <1>4 DEF Settled

LEMMA OverflowSettled ==
  ASSUME Typed, Settled, NEW key \in Key, NEW rowid \in RowId, InsertInOverflow(key, rowid)
  PROVE  Settled'
<1>1. PICK n, e : n = NewPage /\ e = <<key, rowid>>
  OBVIOUS
<1>10. PICK c \in ToSet(Chain(key)) :
        /\ NewPage \in Nat /\ NewPage <= MaxPage /\ NewPage \notin DOMAIN pages
        /\ c \in DOMAIN pages /\ Link(c) = 0
        /\ DOMAIN pages' = DOMAIN pages \cup {NewPage}
        /\ pages' = [p \in DOMAIN pages \cup {NewPage} |->
             IF p = NewPage THEN Bucket(<<<<key, rowid>>>>, 0)
             ELSE IF p = c THEN Bucket(pages[c].entries, NewPage) ELSE pages[p]]
        /\ cand' = [p \in DOMAIN pages \cup {NewPage} |->
             (IF p = NewPage THEN {Unwritten} ELSE cand[p]) \cup {pages'[p]}]
  BY InsertInOverflowEffect
<1>2. /\ n \in Nat /\ n <= MaxPage /\ n \notin DOMAIN pages
      /\ c \in DOMAIN pages /\ Link(c) = 0
      /\ DOMAIN pages' = DOMAIN pages \cup {n}
      /\ pages' = [p \in DOMAIN pages \cup {n} |->
           IF p = n THEN Bucket(<<e>>, 0)
           ELSE IF p = c THEN Bucket(pages[c].entries, n) ELSE pages[p]]
      /\ cand' = [p \in DOMAIN pages \cup {n} |->
           (IF p = n THEN {Unwritten} ELSE cand[p]) \cup {pages'[p]}]
  BY <1>1, <1>10
<1>3. touched = {} /\ touched' = {e}
  BY <1>1 DEF InsertInOverflow, Touch
<1>4. 0 \notin DOMAIN pages' /\ EmptyLink \notin DOMAIN pages' /\ n # 0
  <2>1. \E last \in Nat : DOMAIN pages' = 2 .. last + 1 /\ n = last + 1
    BY <1>1, InsertInOverflowEffect
  <2>2. n < EmptyLink /\ EmptyLink \in Nat
    BY <1>2, HashAssumption DEF Typed, Numbered, ShortFile
  <2> QED BY <2>1, <2>2
<1>5. \A p : Link(p)' = pages'[p].next_overflow
  BY DEF Link
<1>6. \A x \in Entry \ {e} : Times(<< >>, x) = 0 /\ Times(<<e>>, x) = 0
  BY TimesEmpty, TimesOne
<1>7. ASSUME NEW version \in cand'[n] PROVE SettledPage(n, version)'
  <2>1. /\ version.entries \in {<< >>, <<e>>} /\ version.next_overflow \in {0, EmptyLink}
        /\ pages'[n].entries = <<e>> /\ Link(n)' = 0
    <3>1. n \in DOMAIN pages \cup {n}
      OBVIOUS
    <3>2. pages'[n] = Bucket(<<e>>, 0)
      BY <1>2, <3>1
    <3>3. cand'[n] = {Unwritten} \cup {pages'[n]}
      BY <1>2, <3>1
    <3>4. version = Unwritten \/ version = Bucket(<<e>>, 0)
      BY <3>2, <3>3
    <3> QED BY <1>5, <3>2, <3>4 DEF Unwritten, Bucket
  <2>2. \A x \in Entry \ touched' : Times(version.entries, x) = Times(pages'[n].entries, x)
    BY <1>3, <1>6, <2>1
  <2> QED BY <1>4, <2>1, <2>2 DEF SettledPage
<1>8. ASSUME NEW p \in DOMAIN pages
      PROVE  /\ p # n /\ cand'[p] = cand[p] \cup {pages'[p]}
             /\ pages'[p].entries = pages[p].entries
             /\ Link(p)' = IF p = c THEN n ELSE Link(p)
  BY <1>2, <1>5 DEF Bucket, Link
<1>9. ASSUME NEW p \in DOMAIN pages, NEW version \in cand'[p]
      PROVE  SettledPage(p, version)'
  <2>1. CASE version \in cand[p]
    <3>1. SettledPage(p, version)
      BY <2>1 DEF Settled
    <3>2. \A x \in Entry \ touched' : Times(version.entries, x) = Times(pages'[p].entries, x)
      BY <1>3, <1>8, <3>1 DEF SettledPage
    <3>3. version.next_overflow \in {0, EmptyLink} \cup DOMAIN pages
      BY <2>1 DEF Typed, Versions, LinkOK
    <3>4. version.next_overflow \notin DOMAIN pages => version.next_overflow \notin DOMAIN pages'
      BY <1>4, <3>3
    <3>5. CASE p = c
      <4>1. version.next_overflow \notin DOMAIN pages'
        <5>1. version.next_overflow = 0 \/ version.next_overflow # Link(p)
          BY <1>2, <3>5
        <5> QED BY <1>4, <3>1, <3>4, <5>1 DEF SettledPage
      <4>2. Unwritten \in cand'[n] /\ Link(p)' = n
        BY <1>2, <1>8, <3>5
      <4> QED BY <3>2, <4>1, <4>2 DEF SettledPage
    <3>6. CASE p # c
      <4>1. Link(p)' = Link(p)
        BY <1>8, <3>6
      <4>2. ASSUME version.next_overflow # Link(p), Link(p) \in DOMAIN pages'
            PROVE  Unwritten \in cand'[Link(p)]
        <5>1. Link(p) \in {0, EmptyLink} \cup DOMAIN pages
          BY LinksForward
        <5>2. Link(p) \in DOMAIN pages
          BY <1>4, <4>2, <5>1
        <5> QED BY <1>8, <3>1, <4>2, <5>2 DEF SettledPage
      <4> QED BY <3>1, <3>2, <3>4, <4>1, <4>2 DEF SettledPage
    <3> QED BY <3>5, <3>6
  <2>2. CASE version = pages'[p]
    <3>1. version.next_overflow = Link(p)'
      BY <1>5, <2>2
    <3> QED BY <2>2, <3>1 DEF SettledPage
  <2> QED BY <1>8, <2>1, <2>2
<1> QED BY <1>2, <1>7, <1>9 DEF Settled

(* The file as it is, and no other version of a page.                      *)
LEMMA FlushedSettled ==
  ASSUME \A p \in DOMAIN pages' : cand'[p] = {pages'[p]}
  PROVE  Settled'
BY DEF Settled, SettledPage, Link

LEMMA SettledNext == Typed /\ Settled /\ [Next]_vars => Settled'
<1> SUFFICES ASSUME Typed, Settled, [Next]_vars PROVE Settled'
  OBVIOUS
<1>1. ASSUME NEW key \in Key, NEW rowid \in RowId, InsertInPage(key, rowid) PROVE Settled'
  <2>1. PICK e, c : /\ e = <<key, rowid>> /\ c \in DOMAIN pages
                    /\ Store(Rewritten(c, Append(pages[c].entries, e)))
    BY <1>1, InsertInPageEffect
  <2>2. PICK s, t : s = pages[c].entries /\ t = Append(pages[c].entries, e)
    OBVIOUS
  <2>3. s \in Seq(Entry) /\ e \in Entry
    BY <2>1, <2>2, PageType DEF Entry
  <2>4. \A x \in Entry \ {e} : Times(t, x) = Times(s, x)
    <3> SUFFICES ASSUME NEW x \in Entry \ {e} PROVE Times(t, x) = Times(s, x)
      OBVIOUS
    <3>1. Times(t, x) = Times(s, x) + (IF e = x THEN 1 ELSE 0)
      BY <2>2, <2>3, TimesAppend
    <3>2. Times(s, x) \in Nat /\ e # x
      BY <2>3, TimesType
    <3> QED BY <3>1, <3>2
  <2>5. touched = {} /\ touched' = {e}
    BY <1>1, <2>1 DEF InsertInPage, Touch
  <2>6. c \in DOMAIN pages /\ Store(Rewritten(c, t))
    BY <2>1, <2>2
  <2>7. \A x \in Entry \ {e} : Times(t, x) = Times(pages[c].entries, x)
    BY <2>2, <2>4
  <2> QED BY ONLY Typed, Settled, <2>5, <2>6, <2>7, RewrittenSettled
<1>2. ASSUME NEW key \in Key, NEW rowid \in RowId, InsertInOverflow(key, rowid) PROVE Settled'
  BY <1>2, OverflowSettled
<1>3. ASSUME NEW key \in Key, NEW rowid \in RowId, Delete(key, rowid) PROVE Settled'
  <2>1. CASE UNCHANGED <<pages, cand, touched>>
    BY <2>1 DEF Settled, SettledPage, Link
  <2>2. ASSUME NEW c \in DOMAIN pages, NEW n \in 1 .. Len(pages[c].entries),
               pages[c].entries[n] = <<key, rowid>>, Touch(key, rowid),
               Store(Rewritten(c, RemoveAt(pages[c].entries, n)))
        PROVE  Settled'
    <3>1. PICK e, s, t : e = <<key, rowid>> /\ s = pages[c].entries /\ t = RemoveAt(s, n)
      OBVIOUS
    <3>2. s \in Seq(Entry) /\ n \in 1 .. Len(s) /\ s[n] = e
      BY <2>2, <3>1, PageType DEF Entry
    <3>3. \A x \in Entry \ {e} : Times(t, x) = Times(s, x)
      <4> SUFFICES ASSUME NEW x \in Entry \ {e} PROVE Times(t, x) = Times(s, x)
        OBVIOUS
      <4>1. Times(s, x) = Times(t, x) + (IF s[n] = x THEN 1 ELSE 0)
        BY <3>1, <3>2, TimesRemoveAt
      <4>2. t \in Seq(Entry) /\ s[n] # x
        BY <3>1, <3>2, RemoveAtType
      <4>3. Times(t, x) \in Nat
        BY <4>2, TimesType
      <4> QED BY <4>1, <4>2, <4>3
    <3>4. touched = {} /\ touched' = {e}
      BY <2>2, <3>1 DEF Touch
    <3> QED BY SMTT(30), <2>2, <3>1, <3>3, <3>4, RewrittenSettled
  <2>3. \/ UNCHANGED <<pages, cand, touched>>
        \/ \E c \in ToSet(Chain(key)) : \E n \in 1 .. Len(pages[c].entries) :
             /\ c \in DOMAIN pages /\ pages[c].entries[n] = <<key, rowid>>
             /\ Store(Rewritten(c, RemoveAt(pages[c].entries, n)))
             /\ Touch(key, rowid)
    BY <1>3, DeleteEffect
  <2> QED BY <2>1, <2>2, <2>3
<1>4. CASE Flush
  <2>1. \A p \in DOMAIN pages' : cand'[p] = {pages'[p]}
    BY <1>4 DEF Flush
  <2> QED BY <2>1, FlushedSettled
<1>5. CASE Reopen
  <2>1. \A p \in DOMAIN pages' : cand'[p] = {pages'[p]}
    BY <1>5, ReopenEffect
  <2> QED BY <2>1, FlushedSettled
<1>6. CASE UNCHANGED vars
  BY <1>6 DEF vars, Settled, SettledPage, Link
<1> QED BY <1>1, <1>2, <1>3, <1>4, <1>5, <1>6 DEF Next

-----------------------------------------------------------------------------
(* Every step is one of KeyIndex.                                          *)

Known == EntriesKnown /\ ChainsKnown

LEMMA KnownAlways == Typed => Known
BY EntriesOnChains, ChainsClosed DEF Known

(* The bags of KeyIndex, taken apart.                                      *)
LEMMA InsertsOne ==
  ASSUME NEW e, Entries' = PlusOne(Entries, e),
         touched' = touched \cup {e}, answer' = << >>
  PROVE  Index!Insert(e)
<1>1. Entries' = [x \in DOMAIN Entries \cup {e} |->
                    (IF x \in DOMAIN Entries THEN Entries[x] ELSE 0)
                      + (IF x \in {e} THEN 1 ELSE 0)]
  BY DEF Copy, One, PlusOne
<1> QED BY <1>1 DEF Index!Insert, Index!(+), Index!SetToBag

LEMMA DeletesOne ==
  ASSUME NEW e, e \in DOMAIN Entries, \A d \in DOMAIN Entries : Entries[d] \in Nat,
         Entries' = MinusOne(Entries, e),
         touched' = touched \cup {e}, answer' = Append(e, TRUE)
  PROVE  Index!Delete(e)
<1> DEFINE less == [d \in DOMAIN Entries |->
                      IF d \in DOMAIN Index!SetToBag({e})
                        THEN Entries[d] - Index!SetToBag({e})[d] ELSE Entries[d]]
<1>1. \A x \in DOMAIN Entries : less[x] = IF x = e THEN Entries[x] - 1 ELSE Entries[x]
  BY DEF Index!SetToBag
<1>2. DOMAIN less = DOMAIN Entries
  OBVIOUS
<1>3. Index!(-)(Entries, Index!SetToBag({e})) = [x \in {d \in DOMAIN less : less[d] > 0} |-> less[x]]
  BY DEF Index!(-)
<1> HIDE DEF less
<1>4. \A x \in DOMAIN Entries : Entries[x] - One(e, x) = less[x]
  BY <1>1 DEF One
<1>5. Entries' = Index!(-)(Entries, Index!SetToBag({e}))
  BY <1>2, <1>3, <1>4 DEF MinusOne
<1> QED BY <1>5 DEF Index!Delete, Index!BagIn, Index!BagToSet

LEMMA SameChains ==
  ASSUME Known, Known', Heads' = Heads, DOMAIN pages' = DOMAIN pages,
         \A p \in DOMAIN pages : Link(p)' = Link(p)
  PROVE  OnChains' = OnChains
<1>1. PICK C, D : C = OnChains /\ D = OnChains'
  OBVIOUS
<1>2. /\ C \in SUBSET DOMAIN pages /\ Closed(C)
      /\ \A S \in SUBSET DOMAIN pages : Closed(S) => C \subseteq S
  BY <1>1 DEF Known, EntriesKnown, ChainsKnown
<1>3. /\ D \in SUBSET DOMAIN pages' /\ Closed(D)'
      /\ \A S \in SUBSET DOMAIN pages' : Closed(S)' => D \subseteq S
  BY <1>1 DEF Known, EntriesKnown, ChainsKnown, Closed
<1>4. \A S \in SUBSET DOMAIN pages : Closed(S) <=> Closed(S)'
  BY DEF Closed
<1> QED BY <1>1, <1>2, <1>3, <1>4

(* The entries of page c are replaced.                                     *)
LEMMA RewrittenTotals ==
  ASSUME Typed, Known, Known', NEW c \in OnChains, c \in DOMAIN pages,
         NEW t \in Seq(Entry), Store(Rewritten(c, t)), UNCHANGED meta
  PROVE  /\ OnChains' = OnChains
         /\ \A x : Total(Held, OnChains, x) + Times(t, x)
                     = Total(Held', OnChains', x) + Times(pages[c].entries, x)
<1>1. /\ DOMAIN pages' = DOMAIN pages
      /\ pages' = [p \in DOMAIN pages |->
           IF p = c THEN Bucket(t, Link(c)) ELSE pages[p]]
  BY Rewriting
<1>2. ASSUME NEW p \in DOMAIN pages
      PROVE  /\ pages'[p].next_overflow = Link(p)
             /\ pages'[p].entries = IF p = c THEN t ELSE pages[p].entries
  <2>1. CASE p = c
    <3>1. pages'[p] = Bucket(t, Link(p))
      BY <1>1, <2>1
    <3> QED BY <2>1, <3>1 DEF Bucket
  <2>2. CASE p # c
    <3>1. pages'[p] = pages[p]
      BY <1>1, <2>2
    <3> QED BY <2>2, <3>1 DEF Link
  <2> QED BY <2>1, <2>2
<1>3. OnChains' = OnChains
  <2>1. Heads' = Heads
    BY DEF Heads
  <2>2. \A p \in DOMAIN pages : Link(p)' = Link(p)
    BY <1>2 DEF Link
  <2> QED BY <1>1, <2>1, <2>2, SameChains
<1>4. PICK f, g, C, s : f = Held /\ g = Held' /\ C = OnChains /\ s = pages[c].entries
  OBVIOUS
<1>5. IsFiniteSet(C) /\ SeqsOn(f, C, Entry) /\ SeqsOn(g, C, Entry) /\ C \subseteq DOMAIN pages
  BY <1>3, <1>4 DEF Known, EntriesKnown
<1>6. \A p \in DOMAIN pages : f[p] = pages[p].entries /\ g[p] = pages'[p].entries
  BY <1>1, <1>4 DEF Held
<1>7. \A x : OneDiffers(f, g, C, c, s, t, x)
  BY <1>2, <1>4, <1>5, <1>6 DEF OneDiffers
<1>8. \A x : Total(f, C, x) + Times(t, x) = Total(g, C, x) + Times(s, x)
  BY <1>5, <1>7, TotalChanged
<1> QED BY <1>3, <1>4, <1>8

LEMMA InsertInPageStep ==
  ASSUME Typed, Known, Known', NEW key \in Key, NEW rowid \in RowId, InsertInPage(key, rowid)
  PROVE  Index!Insert(<<key, rowid>>)
<1>1. PICK c \in ToSet(Chain(key)) :
        /\ c \in DOMAIN pages
        /\ Store(Rewritten(c, Append(pages[c].entries, <<key, rowid>>)))
  BY InsertInPageEffect
<1>2. PICK e, s, t : /\ e = <<key, rowid>> /\ s = pages[c].entries
                     /\ t = Append(pages[c].entries, <<key, rowid>>)
  OBVIOUS
<1>3. s \in Seq(Entry) /\ e \in Entry /\ t = Append(s, e) /\ t \in Seq(Entry)
  BY <1>1, <1>2, PageType DEF Entry
<1>4. /\ UNCHANGED meta /\ Store(Rewritten(c, t)) /\ answer' = << >>
      /\ touched' = touched \cup {e}
  BY <1>1, <1>2 DEF InsertInPage, Touch
<1>5. c \in OnChains
  BY <1>1, BucketOfKey DEF Chain, OnChains
<1>6. PICK f, g, C, D : f = Held /\ g = Held' /\ C = OnChains /\ D = OnChains'
  OBVIOUS
<1>7. /\ IsFiniteSet(C) /\ SeqsOn(f, C, Entry) /\ IsFiniteSet(D) /\ SeqsOn(g, D, Entry)
      /\ Entries = BagOn(f, C) /\ Entries' = BagOn(g, D)
  BY <1>6 DEF Known, EntriesKnown
<1>8. \A x : Total(f, C, x) + Times(t, x) = Total(g, D, x) + Times(s, x)
  BY <1>1, <1>2, <1>3, <1>4, <1>5, <1>6, RewrittenTotals
<1>9. ASSUME NEW x \in Entry PROVE Total(g, D, x) = Total(f, C, x) + One(e, x)
  <2>1. Times(t, x) = Times(s, x) + (IF e = x THEN 1 ELSE 0)
    BY <1>3, TimesAppend
  <2>2. Times(s, x) \in Nat /\ Total(f, C, x) \in Nat /\ Total(g, D, x) \in Nat
    BY <1>3, <1>7, TimesType, TotalType
  <2>3. Total(f, C, x) + Times(t, x) = Total(g, D, x) + Times(s, x)
    BY <1>8
  <2> QED BY <2>1, <2>2, <2>3 DEF One
<1>10. BagOn(g, D) = PlusOne(BagOn(f, C), e)
  <2>1. OneMore(f, C, g, D, Entry, e)
    BY <1>9 DEF OneMore
  <2> QED BY ONLY <1>3, <1>7, <2>1, BagPlusOne
<1> QED BY <1>2, <1>4, <1>7, <1>10, InsertsOne

LEMMA DeleteStep ==
  ASSUME Placed, Known, Known', NEW key \in Key, NEW rowid \in RowId, Delete(key, rowid)
  PROVE  Index!Delete(<<key, rowid>>)
<1>1. PICK e : e = <<key, rowid>> /\ e \in Entry
  <2>1. <<key, rowid>> \in Entry
    BY DEF Entry
  <2> QED BY <2>1
<1>2. PICK f, g, C, D : f = Held /\ g = Held' /\ C = OnChains /\ D = OnChains'
  OBVIOUS
<1>3. IsFiniteSet(C) /\ SeqsOn(f, C, Entry) /\ IsFiniteSet(D) /\ SeqsOn(g, D, Entry)
  BY <1>2 DEF Known, EntriesKnown
<1>4. Entries = BagOn(f, C) /\ Entries' = BagOn(g, D) /\ C \subseteq DOMAIN pages
  BY <1>2 DEF Known, EntriesKnown
<1>5. Typed
  BY DEF Placed
<1>6. CASE /\ UNCHANGED <<pages, cand, touched>> /\ answer' = <<key, rowid, FALSE>>
           /\ \A c \in ToSet(Chain(key)) : \A n \in DOMAIN pages[c].entries :
                pages[c].entries[n] # <<key, rowid>>
  <2>1. UNCHANGED meta
    BY DEF Delete
  <2>2. UNCHANGED Entries
    BY <1>6, <2>1 DEF Entries, Places, EntryAt, ChainFrom, Heads
  <2>3. e \notin DOMAIN Entries
    <3>1. ASSUME NEW p \in C PROVE Times(f[p], e) = 0
      <4>1. SUFFICES ASSUME Times(f[p], e) # 0 PROVE FALSE
        OBVIOUS
      <4>2. p \in ToSet(Chain(key)) /\ p \in DOMAIN pages
        BY <1>1, <1>2, <1>4, <4>1, KeyInChain
      <4>3. f[p] = pages[p].entries /\ f[p] \in Seq(Entry)
        BY <1>2, <1>3, <4>2 DEF Held, SeqsOn
      <4>4. PICK i \in DOMAIN f[p] : f[p][i] = e
        BY <4>1, <4>3, TimesType
      <4> QED BY <1>1, <1>6, <4>2, <4>3, <4>4
    <3>2. Total(f, C, e) = 0
      BY <1>3, <3>1, TotalZero
    <3> QED BY <1>3, <1>4, <3>2, BagOnIs
  <2>4. answer' = Append(e, FALSE)
    BY <1>1, <1>6, AppendedThird
  <2> QED BY <1>1, <1>6, <2>2, <2>3, <2>4 DEF Index!Delete, Index!BagIn, Index!BagToSet
<1>7. ASSUME NEW c \in ToSet(Chain(key)), c \in DOMAIN pages,
             NEW n \in 1 .. Len(pages[c].entries), pages[c].entries[n] = <<key, rowid>>,
             Store(Rewritten(c, RemoveAt(pages[c].entries, n))),
             Touch(key, rowid), answer' = <<key, rowid, TRUE>>
      PROVE  Index!Delete(e)
  <2>1. PICK s, t : s = pages[c].entries /\ t = RemoveAt(s, n)
    OBVIOUS
  <2>2. s \in Seq(Entry) /\ n \in 1 .. Len(s) /\ s[n] = e
    BY <1>1, <1>5, <1>7, <2>1, PageType DEF Entry
  <2>3. t \in Seq(Entry) /\ \A x : Times(s, x) = Times(t, x) + (IF s[n] = x THEN 1 ELSE 0)
    BY <2>1, <2>2, RemoveAtType, TimesRemoveAt
  <2>4. UNCHANGED meta /\ Store(Rewritten(c, t)) /\ touched' = touched \cup {e}
    BY <1>1, <1>7, <2>1 DEF Delete, Touch
  <2>5. c \in OnChains
    BY <1>5, <1>7, BucketOfKey DEF Chain, OnChains
  <2>6. \A x : Total(f, C, x) + Times(t, x) = Total(g, D, x) + Times(s, x)
    BY <1>2, <1>5, <1>7, <2>1, <2>3, <2>4, <2>5, RewrittenTotals
  <2>7. ASSUME NEW x \in Entry PROVE Total(f, C, x) = Total(g, D, x) + One(e, x)
    <3>1. Times(s, x) = Times(t, x) + (IF e = x THEN 1 ELSE 0)
      BY <2>2, <2>3
    <3>2. Times(t, x) \in Nat /\ Total(f, C, x) \in Nat /\ Total(g, D, x) \in Nat
      BY <1>3, <2>3, TimesType, TotalType
    <3>3. Total(f, C, x) + Times(t, x) = Total(g, D, x) + Times(s, x)
      BY <2>6
    <3> QED BY <3>1, <3>2, <3>3 DEF One
  <2>8. OneMore(g, D, f, C, Entry, e)
    BY <2>7 DEF OneMore
  <2>9. e \in DOMAIN BagOn(f, C) /\ BagOn(g, D) = MinusOne(BagOn(f, C), e)
    BY ONLY <1>1, <1>3, <2>8, BagMinusOne
  <2>10. \A d \in DOMAIN Entries : Entries[d] \in Nat
    <3>1. \A d \in DOMAIN BagOn(f, C) : BagOn(f, C)[d] = Total(f, C, d) /\ Total(f, C, d) \in Nat
      BY <1>3, BagOnIs, TotalType
    <3> QED BY <1>4, <3>1
  <2>11. answer' = Append(e, TRUE)
    BY <1>1, <1>7, AppendedThird
  <2> QED BY <1>4, <2>4, <2>9, <2>10, <2>11, DeletesOne
<1> QED BY <1>1, <1>5, <1>6, <1>7, DeleteEffect

LEMMA FlushStep == Flush => Index!Flush
<1> SUFFICES ASSUME Flush PROVE Index!Flush
  OBVIOUS
<1>1. UNCHANGED <<pages, meta>> /\ touched' = {} /\ answer' = << >>
  BY DEF Flush
<1>2. UNCHANGED Entries
  BY <1>1 DEF Entries, Places, EntryAt, ChainFrom, Heads
<1> QED BY <1>1, <1>2 DEF Index!Flush

(* A new page behind page c of a chain.                                    *)
LEMMA LongerChain ==
  ASSUME Known, Known', Heads' = Heads, NEW c \in OnChains, NEW n, n \notin DOMAIN pages,
         DOMAIN pages' = DOMAIN pages \cup {n}, Link(c) \notin DOMAIN pages,
         Link(c)' = n, Link(n)' \notin DOMAIN pages',
         \A p \in DOMAIN pages \ {c} : Link(p)' = Link(p) /\ Link(p) # n
  PROVE  OnChains' = OnChains \cup {n}
<1>1. PICK C, D : C = OnChains /\ D = OnChains'
  OBVIOUS
<1>2. /\ C \in SUBSET DOMAIN pages /\ Closed(C) /\ c \in C
      /\ \A S \in SUBSET DOMAIN pages : Closed(S) => C \subseteq S
  BY <1>1 DEF Known, EntriesKnown, ChainsKnown
<1>3. /\ D \in SUBSET DOMAIN pages' /\ Closed(D)'
      /\ \A S \in SUBSET DOMAIN pages' : Closed(S)' => D \subseteq S
  BY <1>1 DEF Known, EntriesKnown, ChainsKnown, Closed
<1>4. \A p : Link(p)' = pages'[p].next_overflow
  BY DEF Link
<1>5. D \subseteq C \cup {n}
  <2>1. PICK S : S = C \cup {n}
    OBVIOUS
  <2>2. Closed(S)'
    <3>1. Heads' \subseteq S
      BY <1>2, <2>1 DEF Closed
    <3>2. ASSUME NEW p \in S \cap DOMAIN pages', Link(p)' \in DOMAIN pages' PROVE Link(p)' \in S
      <4>1. CASE p = c
        BY <2>1, <4>1
      <4>2. CASE p = n
        BY <3>2, <4>2
      <4>3. CASE p # c /\ p # n
        <5>1. p \in C \cap DOMAIN pages /\ Link(p)' = Link(p) /\ Link(p) \in DOMAIN pages
          BY <1>2, <2>1, <3>2, <4>3
        <5> QED BY <1>2, <2>1, <5>1 DEF Closed
      <4> QED BY <4>1, <4>2, <4>3
    <3> QED BY <3>1, <3>2 DEF Closed
  <2>3. S \in SUBSET DOMAIN pages'
    BY <1>2, <2>1
  <2> QED BY <1>3, <2>1, <2>2, <2>3
<1>6. C \subseteq D
  <2>1. PICK S : S = D \cap DOMAIN pages
    OBVIOUS
  <2>2. Closed(S)
    <3>1. Heads \subseteq S
      BY <1>2, <1>3, <2>1 DEF Closed
    <3>2. ASSUME NEW p \in S, Link(p) \in DOMAIN pages PROVE Link(p) \in S
      <4>1. p # c /\ p \in DOMAIN pages /\ p \in D
        BY <2>1, <3>2
      <4>2. Link(p)' = Link(p)
        BY <4>1
      <4>3. Link(p)' \in D
        BY <1>3, <3>2, <4>1, <4>2 DEF Closed
      <4> QED BY <2>1, <3>2, <4>2, <4>3
    <3> QED BY <2>1, <3>1, <3>2 DEF Closed
  <2> QED BY <1>2, <2>1, <2>2
<1>7. n \in D
  <2>1. c \in D \cap DOMAIN pages' /\ Link(c)' \in DOMAIN pages'
    BY <1>2, <1>6
  <2> QED BY <1>3, <2>1 DEF Closed
<1> QED BY <1>1, <1>5, <1>6, <1>7

LEMMA InsertInOverflowStep ==
  ASSUME Typed, Typed', Known, Known', NEW key \in Key, NEW rowid \in RowId,
         InsertInOverflow(key, rowid)
  PROVE  Index!Insert(<<key, rowid>>)
<1>1. PICK e, n : e = <<key, rowid>> /\ n = NewPage
  OBVIOUS
<1>2. PICK c \in ToSet(Chain(key)) :
        /\ NewPage \in Nat /\ NewPage <= MaxPage /\ NewPage \notin DOMAIN pages
        /\ c \in DOMAIN pages /\ Link(c) = 0
        /\ DOMAIN pages' = DOMAIN pages \cup {NewPage}
        /\ pages' = [p \in DOMAIN pages \cup {NewPage} |->
             IF p = NewPage THEN Bucket(<<<<key, rowid>>>>, 0)
             ELSE IF p = c THEN Bucket(pages[c].entries, NewPage) ELSE pages[p]]
        /\ cand' = [p \in DOMAIN pages \cup {NewPage} |->
             (IF p = NewPage THEN {Unwritten} ELSE cand[p]) \cup {pages'[p]}]
  BY InsertInOverflowEffect
<1>3. /\ n \in Nat /\ n <= MaxPage /\ n \notin DOMAIN pages
      /\ c \in DOMAIN pages /\ Link(c) = 0
      /\ DOMAIN pages' = DOMAIN pages \cup {n}
      /\ pages' = [p \in DOMAIN pages \cup {n} |->
           IF p = n THEN Bucket(<<e>>, 0)
           ELSE IF p = c THEN Bucket(pages[c].entries, n) ELSE pages[p]]
  BY <1>1, <1>2
<1>4. 0 \notin DOMAIN pages' /\ EmptyLink \notin DOMAIN pages' /\ n # 0 /\ n # EmptyLink
  <2>1. \E last \in Nat : DOMAIN pages' = 2 .. last + 1 /\ n = last + 1
    BY <1>1, InsertInOverflowEffect
  <2>2. n < EmptyLink /\ EmptyLink \in Nat
    BY <1>3, HashAssumption DEF Typed, Numbered, ShortFile
  <2> QED BY <2>1, <2>2
<1>5. \A p : Link(p)' = pages'[p].next_overflow
  BY DEF Link
<1>6. pages'[n].entries = <<e>> /\ Link(n)' = 0
  <2>1. pages'[n] = Bucket(<<e>>, 0)
    BY <1>3
  <2> QED BY <1>5, <2>1 DEF Bucket
<1>7. ASSUME NEW p \in DOMAIN pages
      PROVE  /\ p # n /\ pages'[p].entries = pages[p].entries
             /\ Link(p)' = IF p = c THEN n ELSE Link(p)
  BY <1>3, <1>5 DEF Bucket, Link
<1>8. UNCHANGED meta /\ answer' = << >> /\ touched' = touched \cup {e}
  BY <1>1 DEF InsertInOverflow, Touch
<1>9. OnChains' = OnChains \cup {n}
  <2>1. c \in OnChains
    BY <1>2, BucketOfKey DEF Chain, OnChains
  <2>2. \A p \in DOMAIN pages \ {c} : Link(p)' = Link(p) /\ Link(p) # n
    <3>1. \A p \in DOMAIN pages : Link(p) \in {0, EmptyLink} \cup DOMAIN pages
      BY LinksForward
    <3> QED BY <1>3, <1>4, <1>7, <3>1
  <2>3. Heads' = Heads /\ Link(c) \notin DOMAIN pages /\ Link(c)' = n
        /\ Link(n)' \notin DOMAIN pages'
    BY <1>3, <1>4, <1>6, <1>7, <1>8 DEF Heads
  <2> QED BY <1>3, <2>1, <2>2, <2>3, LongerChain
<1>10. PICK f, g, C, D, s : f = Held /\ g = Held' /\ C = OnChains /\ D = OnChains' /\ s = <<e>>
  OBVIOUS
<1>11. /\ IsFiniteSet(C) /\ SeqsOn(f, C, Entry) /\ IsFiniteSet(D) /\ SeqsOn(g, D, Entry)
       /\ C \subseteq DOMAIN pages
  BY <1>10 DEF Known, EntriesKnown
<1>12. Entries = BagOn(f, C) /\ Entries' = BagOn(g, D)
  BY <1>10 DEF Known, EntriesKnown
<1>13. \A p \in C : f[p] = pages[p].entries /\ g[p] = f[p]
  BY <1>3, <1>7, <1>10, <1>11 DEF Held
<1>14. e \in Entry /\ s \in Seq(Entry) /\ SeqsOn(g, C, Entry)
  BY <1>1, <1>9, <1>10, <1>11 DEF Entry, SeqsOn
<1>15. Joins(g, n, s, C, D)
  <2>1. g[n] = s
    BY <1>3, <1>6, <1>10 DEF Held
  <2> QED BY <1>3, <1>9, <1>10, <1>11, <1>14, <2>1 DEF Joins
<1>16. ASSUME NEW x \in Entry PROVE Total(g, D, x) = Total(f, C, x) + One(e, x)
  <2>1. Total(g, D, x) = Total(g, C, x) + Times(s, x)
    BY ONLY <1>11, <1>14, <1>15, TotalOnePageMore
  <2>2. /\ IsFiniteSet(C) /\ SeqsOn(f, C, Entry) /\ SeqsOn(g, C, Entry)
        /\ \A p \in C : Times(f[p], x) = Times(g[p], x)
    BY <1>11, <1>13, <1>14
  <2>3. Total(f, C, x) = Total(g, C, x)
    BY ONLY <2>2, TotalSame
  <2>4. Times(s, x) = One(e, x)
    BY <1>10, TimesOne DEF One
  <2> QED BY <2>1, <2>3, <2>4
<1>17. OneMore(f, C, g, D, Entry, e)
  BY <1>16 DEF OneMore
<1>18. BagOn(g, D) = PlusOne(BagOn(f, C), e)
  BY ONLY <1>11, <1>14, <1>17, BagPlusOne
<1> QED BY <1>1, <1>8, <1>12, <1>18, InsertsOne

LEMMA ReopenStep ==
  ASSUME Typed, Settled, Known, Known', Reopen
  PROVE  Index!Reopen
<1>1. /\ DOMAIN pages' = DOMAIN pages /\ \A p \in DOMAIN pages : pages'[p] \in cand[p]
      /\ Heads' = Heads /\ answer' = << >> /\ touched' = {}
  BY ReopenEffect
<1>2. PICK f, g, C, D : f = Held /\ g = Held' /\ C = OnChains /\ D = OnChains'
  OBVIOUS
<1>3. /\ IsFiniteSet(C) /\ SeqsOn(f, C, Entry) /\ IsFiniteSet(D) /\ SeqsOn(g, D, Entry)
      /\ SeqsOn(g, DOMAIN pages, Entry) /\ C \subseteq DOMAIN pages /\ D \subseteq DOMAIN pages
  BY <1>1, <1>2 DEF Known, EntriesKnown
<1>4. Entries = BagOn(f, C) /\ Entries' = BagOn(g, D)
  BY <1>2 DEF Known, EntriesKnown
<1>5. \A p \in DOMAIN pages : f[p] = pages[p].entries /\ g[p] = pages'[p].entries
  BY <1>1, <1>2 DEF Held
<1>6. \A p : Link(p)' = pages'[p].next_overflow
  BY DEF Link
<1>7. ASSUME NEW p \in DOMAIN pages
      PROVE  /\ \A x \in Entry \ touched : Times(f[p], x) = Times(g[p], x)
             /\ Link(p)' # Link(p) =>
                  /\ Link(p)' \notin DOMAIN pages
                  /\ Link(p) \in DOMAIN pages => Unwritten \in cand[Link(p)]
  <2>1. SettledPage(p, pages'[p])
    BY <1>1 DEF Settled
  <2> QED BY <1>5, <1>6, <2>1 DEF SettledPage
<1>8. ASSUME NEW p \in DOMAIN pages, Unwritten \in cand[p]
      PROVE  /\ \A x \in Entry \ touched : Times(f[p], x) = 0
             /\ Link(p) \in DOMAIN pages => Unwritten \in cand[Link(p)]
  <2>1. SettledPage(p, Unwritten)
    BY <1>8 DEF Settled
  <2>2. Unwritten.entries = << >> /\ Unwritten.next_overflow = EmptyLink
    BY DEF Unwritten, Bucket
  <2>3. EmptyLink \notin DOMAIN pages
    BY PageNumbers, HashAssumption DEF Typed
  <2> QED BY <1>5, <2>1, <2>2, <2>3, TimesEmpty DEF SettledPage
<1>9. /\ Closed(C) /\ \A S \in SUBSET DOMAIN pages : Closed(S) => C \subseteq S
  BY <1>2 DEF Known, ChainsKnown
<1>10. /\ Closed(D)' /\ \A S \in SUBSET DOMAIN pages : Closed(S)' => D \subseteq S
  BY <1>1, <1>2 DEF Known, ChainsKnown, Closed
<1>11. D \subseteq C
  <2>1. Closed(C)'
    BY <1>1, <1>7, <1>9 DEF Closed
  <2> QED BY <1>3, <1>10, <2>1
<1>12. C \subseteq D \cup {q \in DOMAIN pages : Unwritten \in cand[q]}
  <2>1. PICK S : S = D \cup {q \in DOMAIN pages : Unwritten \in cand[q]}
    OBVIOUS
  <2>2. ASSUME NEW p \in S, Link(p) \in DOMAIN pages PROVE Link(p) \in S
    <3>1. p \in DOMAIN pages
      BY <1>3, <2>1
    <3>2. CASE Unwritten \in cand[p]
      BY <1>8, <2>1, <2>2, <3>1, <3>2
    <3>3. CASE p \in D /\ Link(p)' = Link(p)
      BY <1>1, <1>10, <2>1, <2>2, <3>1, <3>3 DEF Closed
    <3>4. CASE Link(p)' # Link(p)
      BY <1>7, <2>1, <2>2, <3>1, <3>4
    <3> QED BY <2>1, <3>2, <3>3, <3>4
  <2>3. Closed(S) /\ S \in SUBSET DOMAIN pages
    BY <1>1, <1>3, <1>10, <2>1, <2>2 DEF Closed
  <2> QED BY <1>9, <2>1, <2>3
<1>13. ASSUME NEW x \in Entry \ touched PROVE Index!Copies(x, Entries') = Index!Copies(x, Entries)
  <2>1. \A p \in C \ D : Times(f[p], x) = 0
    BY <1>3, <1>8, <1>12
  <2>2. Total(f, C, x) = Total(f, D, x)
    BY <1>3, <1>11, <2>1, TotalOfMore
  <2>3. SeqsOn(f, D, Entry)
    BY <1>3, <1>11 DEF SeqsOn
  <2>4. \A p \in D : Times(f[p], x) = Times(g[p], x)
    BY <1>3, <1>7
  <2>5. Total(f, D, x) = Total(g, D, x)
    BY ONLY <1>3, <2>3, <2>4, TotalSame
  <2>6. Copy(BagOn(f, C), x) = Total(f, C, x) /\ Copy(BagOn(g, D), x) = Total(g, D, x)
    BY <1>3, BagOnCopies
  <2>7. Copy(Entries', x) = Copy(Entries, x)
    BY <1>4, <2>2, <2>5, <2>6
  <2> QED BY <2>7 DEF Copy, Index!Copies, Index!BagIn, Index!BagToSet
<1> QED BY <1>1, <1>13 DEF Index!Reopen, Entry

LEMMA EveryStep ==
  ASSUME Placed, Settled, Known, Typed', Known', [Next]_vars
  PROVE  [Index!Next]_<<Entries, touched, answer>>
<1>1. Typed
  BY DEF Placed
<1>2. ASSUME NEW key \in Key, NEW rowid \in RowId,
             InsertInPage(key, rowid) \/ InsertInOverflow(key, rowid) \/ Delete(key, rowid)
      PROVE  Index!Next
  <2>1. Index!Insert(<<key, rowid>>) \/ Index!Delete(<<key, rowid>>)
    BY <1>1, <1>2, InsertInPageStep, InsertInOverflowStep, DeleteStep
  <2>2. <<key, rowid>> \in Key \X RowId
    OBVIOUS
  <2> QED BY <2>1, <2>2 DEF Index!Next
<1>3. CASE Flush
  BY <1>3, FlushStep DEF Index!Next
<1>4. CASE Reopen
  BY <1>1, <1>4, ReopenStep DEF Index!Next
<1>5. CASE UNCHANGED vars
  BY <1>5 DEF vars, Entries, Places, EntryAt, ChainFrom, Heads
<1> QED BY <1>2, <1>3, <1>4, <1>5 DEF Next

LEMMA StartsEmpty == ShortFile /\ Init => Index!Initially
<1> SUFFICES ASSUME ShortFile, Init PROVE Index!Initially
  OBVIOUS
<1>1. Typed
  BY TypedInit
<1>2. PICK f, C : f = Held /\ C = OnChains
  OBVIOUS
<1>3. /\ IsFiniteSet(C) /\ SeqsOn(f, C, Entry) /\ Entries = BagOn(f, C) /\ C \subseteq DOMAIN pages
  BY <1>1, <1>2, EntriesOnChains DEF EntriesKnown
<1>4. \A p \in C : f[p] = << >>
  BY <1>2, <1>3 DEF Init, Bucket, Held
<1>5. PlacesOf(f, C) = {}
  BY <1>4 DEF PlacesOf
<1>6. DOMAIN Entries = {}
  BY <1>3, <1>5 DEF BagOn
<1>7. Entries = [x \in DOMAIN Entries |-> Entries[x]]
  BY <1>3 DEF BagOn
<1>8. Entries = Index!EmptyBag
  BY <1>6, <1>7 DEF Index!EmptyBag, Index!SetToBag
<1> QED BY <1>8 DEF Index!Initially, Init

(* KeepsEntries: the index is the bag that KeyIndex promises.  An insert   *)
(* adds its entry, wherever in the chain there is room; a delete removes   *)
(* one such entry if there is one and says so; a flush changes nothing;    *)
(* and a kill, whatever it leaves of each page, takes no entry but those   *)
(* touched since the last flush (insert, delete, flush of hash_index.py).  *)
THEOREM EntriesAreKept == ShortFile => (Spec => KeepsEntries)
<1>1. ShortFile /\ Init => Placed /\ Settled
  BY PlacedInit, SettledInit
<1>2. Placed /\ Settled /\ [Next]_vars => (Placed /\ Settled)'
  <2>1. Placed => Typed
    BY DEF Placed
  <2> QED BY <2>1, PlacedNext, SettledNext
<1>3. Placed => Typed /\ Known
  BY KnownAlways DEF Placed
<1>4. Placed' => Typed' /\ Known'
  BY <1>3, PTL
<1>5. Placed /\ Settled /\ Placed' /\ [Next]_vars => [Index!Next]_<<Entries, touched, answer>>
  BY <1>3, <1>4, EveryStep
<1>6. [Index!Next]_<<Entries, touched, answer>> =>
        [TRUE => Index!Next]_<<Entries, touched, TRUE, answer>>
  OBVIOUS
<1> QED BY <1>1, <1>2, <1>5, <1>6, StartsEmpty, PTL DEF Spec, KeepsEntries, Index!Spec

=============================================================================
