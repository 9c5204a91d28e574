----------------------------- MODULE MinRPCProofs -----------------------------
(***************************************************************************)
(* The RPC server and its arena, for every page size, number of pages and  *)
(* set of requests, with any number of arguments.                          *)
(***************************************************************************)
EXTENDS MinRPC, FiniteSetTheorems, SequenceTheorems, WellFoundedInduction, TLAPS

USE PageAssumption
-----------------------------------------------------------------------------
(* Numbers: the least of a set, and induction over a set. *)
LEMMA LeastNumber ==
  ASSUME NEW T, T \subseteq Nat, T # {}
  PROVE  \E x \in T : \A y \in T : x <= y
<1> DEFINE R == OpToRel(<, Nat)
<1>1. IsWellFoundedOn(R, Nat)
  BY NatLessThanWellFounded
<1>2. \A x, y \in Nat : x < y => <<x, y>> \in R
  BY DEF OpToRel
<1> HIDE DEF R
<1>3. PICK x \in T : \A y \in T : ~(<<y, x>> \in R)
  BY <1>1, WFMin
<1>4. \A y \in T : x \in Nat /\ y \in Nat /\ ~(y < x)
  BY <1>2, <1>3
<1> QED  BY <1>4

LEMMA SetInduction ==
  ASSUME NEW P, 0 \in P, \A n \in Nat : n \in P => n + 1 \in P
  PROVE  \A n \in Nat : n \in P
<1> SUFFICES ASSUME Nat \ P # {} PROVE FALSE
  OBVIOUS
<1>1. PICK x \in Nat \ P : \A y \in Nat \ P : x <= y
  BY LeastNumber
<1>2. x - 1 \in Nat /\ ~(x <= x - 1) /\ (x - 1) + 1 = x
  BY <1>1
<1> QED  BY <1>1, <1>2

(* Rounding up: to whole pages, and to an alignment. *)
LEMMA PageBytesHold ==
  ASSUME NEW n \in Nat
  PROVE  PageBytes(n) \in Nat /\ n <= PageBytes(n) /\ (PageBytes(n) = PageSize => n <= PageSize)
<1> DEFINE x == n + PageSize - 1
           q == x \div PageSize
           r == x % PageSize
<1>1. x \in Nat /\ q \in Int /\ r \in 0 .. PageSize - 1 /\ x = PageSize * q + r
  OBVIOUS
<1>2. PageBytes(n) = PageSize * q
  BY <1>1 DEF PageBytes
<1> HIDE DEF q, r
<1>3. PageSize * q \in Int
  BY <1>1
<1> QED
  BY <1>1, <1>2, <1>3

LEMMA AlignHolds ==
  ASSUME NEW offset \in Nat, NEW align \in Nat \ {0}
  PROVE  UpperAlign(offset, align) \in Nat /\ offset <= UpperAlign(offset, align)
BY DEF UpperAlign

-----------------------------------------------------------------------------
(* A sequence of distinct pages, each linked to the next one, the first of  *)
(* which is p and the last of which is linked to none.                      *)
Chain(p, s) ==
  /\ \A i \in 1 .. Len(s) : s[i] \in DOMAIN pages
  /\ \A i, j \in 1 .. Len(s) : s[i] = s[j] => i = j
  /\ p = IF Len(s) = 0 THEN NULL ELSE s[1]
  /\ \A i \in 1 .. Len(s) : pages[s[i]].next = IF i = Len(s) THEN NULL ELSE s[i + 1]

Elements(s) == {s[i] : i \in 1 .. Len(s)}

WalkFrom(p, w) ==
  w = [n \in 0 .. MaxPages |->
         IF n = 0 THEN p
         ELSE IF w[n - 1] \in DOMAIN pages THEN pages[w[n - 1]].next ELSE NULL]

(* Distinct pages are no more than there are. *)
LEMMA ChainLength ==
  ASSUME NEW s \in Seq(PageId), \A i, j \in 1 .. Len(s) : s[i] = s[j] => i = j
  PROVE  Len(s) <= MaxPages
<1>1. MaxPages \in Nat /\ Len(s) \in Nat /\ s \in [1 .. Len(s) -> 1 .. MaxPages]
  BY DEF PageId
<1>2. /\ IsFiniteSet(1 .. MaxPages) /\ Cardinality(1 .. MaxPages) = MaxPages
      /\ IsFiniteSet(1 .. Len(s)) /\ Cardinality(1 .. Len(s)) = Len(s)
  <2>1. 1 \in Int /\ MaxPages \in Int /\ Len(s) \in Int
    BY <1>1
  <2>2. IsFiniteSet(1 .. MaxPages) /\ Cardinality(1 .. MaxPages) = IF 1 > MaxPages THEN 0 ELSE MaxPages - 1 + 1
    BY <2>1, FS_Interval
  <2>3. IsFiniteSet(1 .. Len(s)) /\ Cardinality(1 .. Len(s)) = IF 1 > Len(s) THEN 0 ELSE Len(s) - 1 + 1
    BY <2>1, FS_Interval
  <2> QED
    BY <1>1, <2>2, <2>3
<1>3. ASSUME Len(s) > MaxPages PROVE FALSE
  <2>1. \E x, y \in 1 .. Len(s) : x # y /\ s[x] = s[y]
    BY <1>1, <1>2, <1>3, FS_PigeonHole
  <2> QED
    BY <2>1
<1> QED
  BY <1>1, <1>3

(* Following next from the first page of a chain meets its pages, in order, *)
(* and comes to the end.                                                    *)
LEMMA WalkMeets ==
  ASSUME DOMAIN pages \subseteq PageId, NEW p, NEW s \in Seq(PageId), Chain(p, s)
  PROVE  List(p) = Elements(s) /\ Ends(p)
<1> DEFINE w == [n \in 0 .. MaxPages |-> IF n < Len(s) THEN s[n + 1] ELSE NULL]
<1>0. /\ Len(s) \in Nat /\ MaxPages \in Nat /\ Len(s) <= MaxPages /\ NULL \notin DOMAIN pages
      /\ \A i \in 1 .. Len(s) : s[i] \in PageId /\ s[i] # NULL
  BY ChainLength DEF Chain, PageId, NULL
<1>1. WalkFrom(p, w)
  <2> DEFINE next(n) == IF n = 0 THEN p
                        ELSE IF w[n - 1] \in DOMAIN pages THEN pages[w[n - 1]].next ELSE NULL
  <2>1. ASSUME NEW n \in 0 .. MaxPages PROVE w[n] = next(n)
    <3>1. CASE n = 0
      BY <1>0, <3>1 DEF Chain
    <3>2. CASE n # 0 /\ n - 1 < Len(s)
      <4>1. n \in 1 .. Len(s) /\ n - 1 \in 0 .. MaxPages /\ (n - 1) + 1 = n
        BY <1>0, <3>2
      <4>2. w[n - 1] = s[n] /\ s[n] \in DOMAIN pages
        BY <3>2, <4>1 DEF Chain
      <4>3. pages[s[n]].next = IF n = Len(s) THEN NULL ELSE s[n + 1]
        BY <4>1 DEF Chain
      <4> HIDE DEF w
      <4>4. next(n) = IF n = Len(s) THEN NULL ELSE s[n + 1]
        BY <3>2, <4>2, <4>3
      <4>5. w[n] = IF n < Len(s) THEN s[n + 1] ELSE NULL
        BY DEF w
      <4> QED
        BY <1>0, <4>1, <4>4, <4>5
    <3>3. CASE n # 0 /\ ~(n - 1 < Len(s))
      <4>1. n - 1 \in 0 .. MaxPages /\ ~(n < Len(s))
        BY <1>0, <3>3
      <4>2. w[n - 1] = NULL /\ w[n] = NULL
        BY <3>3, <4>1
      <4> QED
        BY <1>0, <3>3, <4>2
    <3> QED
      BY <3>1, <3>2, <3>3
  <2> HIDE DEF next
  <2>2. w = [n \in 0 .. MaxPages |-> next(n)]
    BY <2>1
  <2> QED
    BY <2>2 DEF WalkFrom, next
<1>2. WalkFrom(p, Walk(p))
  <2>1. Walk(p) = CHOOSE v : WalkFrom(p, v)
    BY DEF Walk, WalkFrom
  <2> HIDE DEF w
  <2> QED
    BY <1>1, <2>1
<1>3. \A n \in 0 .. MaxPages : Walk(p)[n] = w[n]
  <2> DEFINE v == Walk(p)
             P == {n \in Nat : n <= MaxPages => v[n] = w[n]}
  <2>1. \A n \in 0 .. MaxPages :
          /\ v[n] = IF n = 0 THEN p
                    ELSE IF v[n - 1] \in DOMAIN pages THEN pages[v[n - 1]].next ELSE NULL
          /\ w[n] = IF n = 0 THEN p
                    ELSE IF w[n - 1] \in DOMAIN pages THEN pages[w[n - 1]].next ELSE NULL
    <3> HIDE DEF v, w
    <3> QED
      BY <1>1, <1>2 DEF WalkFrom, v
  <2> HIDE DEF v, w
  <2>2. 0 \in P
    BY <1>0, <2>1
  <2>3. ASSUME NEW n \in Nat, n \in P PROVE n + 1 \in P
    <3>1. ASSUME n + 1 <= MaxPages PROVE v[n + 1] = w[n + 1]
      <4>1. n + 1 \in 0 .. MaxPages /\ n + 1 # 0 /\ (n + 1) - 1 = n /\ n <= MaxPages
        BY <1>0, <3>1
      <4>2. v[n] = w[n]
        BY <2>3, <4>1
      <4> QED
        BY <2>1, <4>1, <4>2
    <3> QED
      BY <3>1
  <2> HIDE DEF P
  <2>4. \A n \in Nat : n \in P
    BY <2>2, <2>3, SetInduction
  <2> QED
    BY <1>0, <2>4 DEF P, v
<1>4. List(p) = {w[n] : n \in 0 .. MaxPages} \ {NULL}
  <2> HIDE DEF w
  <2> QED
    BY <1>3 DEF List
<1>5. \A n \in 0 .. MaxPages : w[n] # NULL => n + 1 \in 1 .. Len(s) /\ w[n] = s[n + 1]
  BY <1>0
<1>6. \A i \in 1 .. Len(s) : i - 1 \in 0 .. MaxPages /\ w[i - 1] = s[i] /\ s[i] # NULL
  BY <1>0
<1>7. w[MaxPages] = NULL
  BY <1>0
<1> HIDE DEF w
<1>8. List(p) = Elements(s)
  BY <1>4, <1>5, <1>6 DEF Elements
<1> QED
  BY <1>0, <1>3, <1>7, <1>8 DEF Ends

-----------------------------------------------------------------------------
(* The arena's invariant.  While it is open, its pages are cut into two     *)
(* chains, the objects of the current request lie in front of the offset of *)
(* a page in use, and no page was taken while a free one would have done.   *)
TwoLists(a, f) ==
  /\ Chain(head, a) /\ Chain(freeList, f)
  /\ Len(a) > 0 /\ tail = a[Len(a)]
  /\ \A i \in 1 .. Len(a), j \in 1 .. Len(f) : a[i] # f[j]
  /\ DOMAIN pages = Elements(a) \cup Elements(f)

ObjectIn(a, o) ==
  /\ o.page \in Elements(a)
  /\ HeaderSize <= o.first /\ EndOf(o) <= pages[o.page].offset
Apart(x, y) == x.page = y.page => EndOf(x) <= y.first \/ EndOf(y) <= x.first
ObjectsIn(a) ==
  /\ \A k \in 1 .. Len(objects) : ObjectIn(a, objects[k])
  /\ \A i, j \in 1 .. Len(objects) : i < j => Apart(objects[i], objects[j])

Numbered == \E n \in 1 .. MaxPages : DOMAIN pages = 1 .. n

ArenaInv ==
  /\ ArenaTypeOK
  /\ open => /\ Numbered /\ GrowsOnlyWhenNeeded
             /\ \E a, f \in Seq(PageId) : TwoLists(a, f) /\ ObjectsIn(a)
  /\ ~open => DOMAIN pages = {} /\ objects = <<>>

ObjectType == [page : PageId, first : Nat, size : Nat]

(* What the invariant says of the arena. *)
LEMMA ArenaHolds ==
  ASSUME ArenaInv
  PROVE  /\ PagesOnOneList /\ ObjectsIntact /\ GrowsOnlyWhenNeeded /\ ShutdownReturnsAll
<1>1. CASE open
  <2>1. DOMAIN pages \subseteq PageId /\ objects \in Seq(ObjectType)
    BY DEF ArenaInv, ArenaTypeOK, ObjectType
  <2>2. PICK a, f \in Seq(PageId) : TwoLists(a, f) /\ ObjectsIn(a)
    BY <1>1 DEF ArenaInv
  <2>3. List(head) = Elements(a) /\ Ends(head) /\ List(freeList) = Elements(f) /\ Ends(freeList)
    BY <2>1, <2>2, WalkMeets DEF TwoLists
  <2>4. /\ Elements(a) \cap Elements(f) = {} /\ tail \in Elements(a) /\ pages[tail].next = NULL
        /\ Elements(a) \cup Elements(f) = DOMAIN pages
    <3>1. Len(a) \in Nat /\ Len(a) \in 1 .. Len(a)
      BY <2>2 DEF TwoLists
    <3> QED
      BY <2>2, <3>1 DEF TwoLists, Elements, Chain
  <2>5. PagesOnOneList
    BY <2>3, <2>4 DEF PagesOnOneList
  <2>6. ObjectsIntact
    <3>1. ASSUME NEW k \in DOMAIN objects
          PROVE  /\ objects[k].page \in List(head) /\ HeaderSize <= objects[k].first
                 /\ EndOf(objects[k]) <= pages[objects[k].page].size
      <4>1. ObjectIn(a, objects[k]) /\ objects[k] \in ObjectType
        BY <2>1, <2>2 DEF ObjectsIn
      <4>2. objects[k].page \in DOMAIN pages
        BY <4>1, <2>4 DEF ObjectIn
      <4>3. /\ pages[objects[k].page].offset \in Nat /\ pages[objects[k].page].size \in Nat
            /\ pages[objects[k].page].offset <= pages[objects[k].page].size
        BY <4>2 DEF ArenaInv, ArenaTypeOK
      <4>4. EndOf(objects[k]) \in Nat
        BY <4>1 DEF EndOf, ObjectType
      <4> QED
        BY <2>3, <4>1, <4>3, <4>4 DEF ObjectIn
    <3>2. ASSUME NEW i \in DOMAIN objects, NEW j \in DOMAIN objects, i < j, objects[i].page = objects[j].page
          PROVE  EndOf(objects[i]) <= objects[j].first \/ EndOf(objects[j]) <= objects[i].first
      BY <2>1, <2>2, <3>2 DEF ObjectsIn, Apart
    <3> QED
      BY <3>1, <3>2 DEF ObjectsIntact
  <2> QED
    BY <1>1, <2>5, <2>6 DEF ArenaInv, ShutdownReturnsAll
<1>2. CASE ~open
  <2>1. DOMAIN pages = {} /\ objects = <<>> /\ peak \in Nat
    BY <1>2 DEF ArenaInv, ArenaTypeOK
  <2>2. Cardinality(DOMAIN pages) = 0
    BY <2>1, FS_EmptySet
  <2>3. PagesOnOneList /\ GrowsOnlyWhenNeeded /\ ShutdownReturnsAll
    BY <1>2, <2>1, <2>2 DEF PagesOnOneList, GrowsOnlyWhenNeeded, ShutdownReturnsAll
  <2>4. ObjectsIntact
    BY <2>1 DEF ObjectsIntact
  <2> QED
    BY <2>3, <2>4
<1> QED
  BY <1>1, <1>2

-----------------------------------------------------------------------------
(* How the chains change.  b is a with p in front; g is f without its first *)
(* page; g is what follows the first page of a, and then f.                 *)
Pushed(a, p, b)   == Len(b) = Len(a) + 1 /\ b[1] = p /\ \A i \in 1 .. Len(a) : b[i + 1] = a[i]
Popped(f, g)      == Len(f) = Len(g) + 1 /\ \A i \in 1 .. Len(g) : g[i] = f[i + 1]
Recycled(a, f, g) == /\ Len(g) = Len(a) - 1 + Len(f)
                     /\ \A i \in 1 .. Len(a) - 1 : g[i] = a[i + 1]
                     /\ \A j \in 1 .. Len(f) : g[Len(a) - 1 + j] = f[j]

LEMMA PushedElements ==
  ASSUME NEW a \in Seq(PageId), NEW b \in Seq(PageId), NEW p \in PageId, Pushed(a, p, b)
  PROVE  Elements(b) = Elements(a) \cup {p}
<1>1. \A i \in 1 .. Len(b) : i = 1 \/ (i - 1 \in 1 .. Len(a) /\ (i - 1) + 1 = i)
  BY DEF Pushed
<1>2. \A i \in 1 .. Len(a) : i + 1 \in 1 .. Len(b)
  BY DEF Pushed
<1>3. 1 \in 1 .. Len(b)
  BY DEF Pushed
<1>4. \A i \in 1 .. Len(b) : b[i] = p \/ \E k \in 1 .. Len(a) : b[i] = a[k]
  BY <1>1 DEF Pushed
<1>5. \A i \in 1 .. Len(a) : \E k \in 1 .. Len(b) : a[i] = b[k]
  BY <1>2 DEF Pushed
<1> QED
  BY <1>3, <1>4, <1>5 DEF Elements, Pushed

LEMMA PoppedElements ==
  ASSUME NEW f \in Seq(PageId), NEW g \in Seq(PageId), Popped(f, g)
  PROVE  Elements(f) = Elements(g) \cup {f[1]}
<1>1. Pushed(g, f[1], f) /\ 1 \in 1 .. Len(f)
  BY DEF Pushed, Popped
<1> QED
  BY <1>1, PushedElements

LEMMA PushedChain ==
  ASSUME NEW a \in Seq(PageId), NEW b \in Seq(PageId), NEW p \in PageId, Chain(head, a),
         Pushed(a, p, b), p \notin Elements(a),
         head' = p, DOMAIN pages' = DOMAIN pages \cup {p}, pages'[p].next = head,
         \A q \in DOMAIN pages : q # p => pages'[q].next = pages[q].next
  PROVE  Chain(head, b)' /\ b[Len(b)] = IF Len(a) = 0 THEN p ELSE a[Len(a)]
<1>1. /\ Len(a) \in Nat /\ Len(b) = Len(a) + 1
      /\ \A i \in 1 .. Len(b) : i = 1 \/ (i - 1 \in 1 .. Len(a) /\ (i - 1) + 1 = i)
  BY DEF Pushed
<1>2. b[1] = p /\ \A i \in 1 .. Len(b) : i # 1 => b[i] = a[i - 1] /\ a[i - 1] # p /\ a[i - 1] \in DOMAIN pages
  BY <1>1 DEF Pushed, Elements, Chain
<1>3. \A i \in 1 .. Len(b) : b[i] \in DOMAIN pages'
  BY <1>1, <1>2
<1>4. ASSUME NEW i \in 1 .. Len(b), NEW j \in 1 .. Len(b), b[i] = b[j] PROVE i = j
  <2>1. CASE i = 1 \/ j = 1
    BY <1>2, <1>4, <2>1
  <2>2. CASE i # 1 /\ j # 1
    <3>1. /\ i - 1 \in 1 .. Len(a) /\ (i - 1) + 1 = i
          /\ j - 1 \in 1 .. Len(a) /\ (j - 1) + 1 = j
      BY <1>1, <2>2
    <3>2. a[i - 1] = a[j - 1]
      BY <1>2, <1>4, <2>2
    <3>3. i - 1 = j - 1
      BY <3>1, <3>2 DEF Chain
    <3> QED
      BY <3>1, <3>3
  <2> QED
    BY <2>1, <2>2
<1>5. ASSUME NEW i \in 1 .. Len(b)
      PROVE  pages'[b[i]].next = IF i = Len(b) THEN NULL ELSE b[i + 1]
  <2>1. CASE i = 1
    <3>1. pages'[b[i]].next = head
      BY <1>2, <2>1
    <3>2. CASE Len(a) = 0
      BY <1>1, <2>1, <3>1, <3>2 DEF Chain
    <3>3. CASE Len(a) # 0
      <4>1. 2 \in 1 .. Len(b) /\ i # Len(b) /\ i + 1 = 2 /\ 2 - 1 = 1
        BY <1>1, <2>1, <3>3
      <4>2. b[i + 1] = a[1]
        BY <1>2, <4>1
      <4> QED
        BY <3>1, <3>3, <4>1, <4>2 DEF Chain
    <3> QED
      BY <3>2, <3>3
  <2>2. CASE i # 1
    <3>1. i - 1 \in 1 .. Len(a) /\ (i - 1) + 1 = i /\ (i = Len(b) <=> i - 1 = Len(a))
      BY <1>1, <2>2
    <3>2. b[i] = a[i - 1] /\ pages'[b[i]].next = pages[a[i - 1]].next
      BY <1>2, <2>2
    <3>3. pages[a[i - 1]].next = IF i - 1 = Len(a) THEN NULL ELSE a[(i - 1) + 1]
      BY <3>1 DEF Chain
    <3>4. i - 1 # Len(a) => i + 1 \in 1 .. Len(b) /\ i + 1 # 1 /\ (i + 1) - 1 = i
      BY <1>1, <3>1
    <3>5. i - 1 # Len(a) => b[i + 1] = a[i]
      BY <1>2, <3>4
    <3> QED
      BY <3>1, <3>2, <3>3, <3>5
  <2> QED
    BY <2>1, <2>2
<1>6. head' = IF Len(b) = 0 THEN NULL ELSE b[1]
  BY <1>1, <1>2
<1>7. Chain(head, b)'
  BY <1>3, <1>4, <1>5, <1>6 DEF Chain
<1>8. b[Len(b)] = IF Len(a) = 0 THEN p ELSE a[Len(a)]
  BY <1>1, <1>2
<1> QED
  BY <1>7, <1>8

LEMMA ChainKept ==
  ASSUME NEW f \in Seq(PageId), Chain(freeList, f), freeList' = freeList,
         \A q \in Elements(f) : q \in DOMAIN pages' /\ pages'[q].next = pages[q].next
  PROVE  Chain(freeList, f)'
BY DEF Chain, Elements

LEMMA PoppedChain ==
  ASSUME NEW f \in Seq(PageId), NEW g \in Seq(PageId), Popped(f, g), Chain(freeList, f),
         freeList' = pages[freeList].next,
         \A q \in DOMAIN pages : q # freeList => q \in DOMAIN pages' /\ pages'[q].next = pages[q].next
  PROVE  Chain(freeList, g)'
<1>1. /\ Len(f) \in Nat /\ Len(g) \in Nat /\ Len(f) = Len(g) + 1 /\ freeList = f[1]
      /\ \A i \in 1 .. Len(g) : /\ i + 1 \in 1 .. Len(f) /\ i \in 1 .. Len(f)
                                /\ g[i] = f[i + 1]
                                /\ (i + 1 = Len(f) <=> i = Len(g))
  BY DEF Popped, Chain
<1>2. \A i \in 1 .. Len(g) : g[i] # freeList
  <2>1. 1 \in 1 .. Len(f)
    BY <1>1
  <2>2. \A i \in 1 .. Len(g) : i + 1 # 1
    OBVIOUS
  <2> QED
    BY <1>1, <2>1, <2>2 DEF Chain
<1>3. \A i \in 1 .. Len(g) : g[i] \in DOMAIN pages /\ g[i] \in DOMAIN pages' /\ pages'[g[i]].next = pages[g[i]].next
  BY <1>1, <1>2 DEF Chain
<1>4. ASSUME NEW i \in 1 .. Len(g), NEW j \in 1 .. Len(g), g[i] = g[j] PROVE i = j
  <2>1. i + 1 = j + 1
    BY <1>1, <1>4 DEF Chain
  <2> QED
    BY <2>1
<1>5. ASSUME NEW i \in 1 .. Len(g) PROVE pages'[g[i]].next = IF i = Len(g) THEN NULL ELSE g[i + 1]
  <2>1. pages[f[i + 1]].next = IF i + 1 = Len(f) THEN NULL ELSE f[(i + 1) + 1]
    BY <1>1 DEF Chain
  <2>2. i # Len(g) => i + 1 \in 1 .. Len(g)
    BY <1>1
  <2>3. i # Len(g) => g[i + 1] = f[(i + 1) + 1]
    BY <1>1, <2>2
  <2> QED
    BY <1>1, <1>3, <2>1, <2>3
<1>6. freeList' = IF Len(g) = 0 THEN NULL ELSE g[1]
  <2>1. 1 \in 1 .. Len(f) /\ pages[f[1]].next = IF 1 = Len(f) THEN NULL ELSE f[1 + 1]
    BY <1>1 DEF Chain
  <2>2. Len(g) # 0 => 1 \in 1 .. Len(g)
    BY <1>1
  <2> QED
    BY <1>1, <2>1, <2>2
<1> QED
  BY <1>3, <1>4, <1>5, <1>6 DEF Chain

(* RecycleAll, whether or not the head is the tail. *)
LEMMA RecycledChain ==
  ASSUME NEW a \in Seq(PageId), NEW f \in Seq(PageId), NEW g \in Seq(PageId), NEW c \in Seq(PageId),
         TwoLists(a, f), Recycled(a, f, g), Len(c) = 1, c[1] = head,
         head' = head, tail' = head, DOMAIN pages' = DOMAIN pages,
         freeList' = (IF head = tail THEN freeList ELSE pages[head].next),
         \A q \in DOMAIN pages :
           pages'[q].next = IF q = head THEN NULL
                            ELSE IF q = tail THEN freeList ELSE pages[q].next
  PROVE  TwoLists(c, g)'
<1> DEFINE l == Len(a)
<1>1. /\ l \in Nat /\ l > 0 /\ Len(f) \in Nat /\ Len(g) \in Nat /\ Len(g) = l - 1 + Len(f)
      /\ head = a[1] /\ tail = a[l] /\ 1 \in 1 .. l /\ l \in 1 .. l
  BY DEF TwoLists, Recycled, Chain
<1>2. \A i \in 1 .. Len(g) :
        \/ i \in 1 .. l - 1 /\ i + 1 \in 1 .. l /\ i + 1 # 1 /\ g[i] = a[i + 1]
        \/ ~(i \in 1 .. l - 1) /\ i - (l - 1) \in 1 .. Len(f) /\ g[i] = f[i - (l - 1)]
  <2> SUFFICES ASSUME NEW i \in 1 .. Len(g)
               PROVE  \/ i \in 1 .. l - 1 /\ i + 1 \in 1 .. l /\ i + 1 # 1 /\ g[i] = a[i + 1]
                      \/ ~(i \in 1 .. l - 1) /\ i - (l - 1) \in 1 .. Len(f) /\ g[i] = f[i - (l - 1)]
    OBVIOUS
  <2>1. CASE i \in 1 .. l - 1
    BY <1>1, <2>1 DEF Recycled
  <2>2. CASE ~(i \in 1 .. l - 1)
    <3>1. i - (l - 1) \in 1 .. Len(f) /\ l - 1 + (i - (l - 1)) = i
      BY <1>1, <2>2
    <3>2. g[l - 1 + (i - (l - 1))] = f[i - (l - 1)]
      BY <3>1 DEF Recycled
    <3> QED
      BY <2>2, <3>1, <3>2
  <2> QED
    BY <2>1, <2>2
<1> HIDE DEF l
<1>3. /\ \A i, j \in 1 .. l : a[i] = a[j] => i = j
      /\ \A i \in 1 .. l : a[i] \in DOMAIN pages /\ pages[a[i]].next = IF i = l THEN NULL ELSE a[i + 1]
      /\ \A i \in 1 .. l, j \in 1 .. Len(f) : a[i] # f[j]
  BY DEF TwoLists, Chain, l
<1>4. /\ \A i, j \in 1 .. Len(f) : f[i] = f[j] => i = j
      /\ freeList = IF Len(f) = 0 THEN NULL ELSE f[1]
      /\ \A i \in 1 .. Len(f) : /\ f[i] \in DOMAIN pages
                                /\ pages[f[i]].next = IF i = Len(f) THEN NULL ELSE f[i + 1]
  BY DEF TwoLists, Chain
<1>5. \A i \in 1 .. Len(g) : g[i] \in DOMAIN pages /\ g[i] # head
  BY <1>1, <1>2, <1>3, <1>4
<1>6. ASSUME NEW i \in 1 .. Len(g), NEW j \in 1 .. Len(g), g[i] = g[j] PROVE i = j
  <2>1. CASE i \in 1 .. l - 1 /\ j \in 1 .. l - 1
    <3>1. i + 1 = j + 1
      BY <1>2, <1>3, <1>6, <2>1
    <3> QED
      BY <3>1
  <2>2. CASE ~(i \in 1 .. l - 1) /\ ~(j \in 1 .. l - 1)
    <3>1. i - (l - 1) = j - (l - 1)
      BY <1>2, <1>4, <1>6, <2>2
    <3> QED
      BY <1>1, <3>1
  <2>3. CASE (i \in 1 .. l - 1) # (j \in 1 .. l - 1)
    BY <1>2, <1>3, <1>6, <2>3
  <2> QED
    BY <2>1, <2>2, <2>3
<1>7. ASSUME NEW i \in 1 .. Len(g)
      PROVE  pages'[g[i]].next = IF i = Len(g) THEN NULL ELSE g[i + 1]
  <2>1. pages'[g[i]].next = IF g[i] = tail THEN freeList ELSE pages[g[i]].next
    BY <1>5
  <2>2. CASE i \in 1 .. l - 1 /\ i # l - 1
    <3>1. i + 1 \in 1 .. l /\ i + 1 # l /\ i + 1 \in 1 .. l - 1 /\ i + 1 \in 1 .. Len(g) /\ i # Len(g)
      <4>1. i \in Nat /\ i >= 1 /\ i + 1 < l
        BY <1>1, <2>2
      <4>2. PICK k \in Nat, m \in Nat, n \in Nat : k = l /\ m = Len(g) /\ n = Len(f)
        BY <1>1
      <4>3. m = k - 1 + n
        BY <1>1, <4>2
      <4>4. i + 1 < k /\ i + 1 <= m
        BY <4>1, <4>2, <4>3
      <4> QED
        BY <4>1, <4>2, <4>4
    <3>2. g[i] = a[i + 1] /\ g[i + 1] = a[(i + 1) + 1]
      <4>1. g[i] = a[i + 1]
        BY <1>2, <2>2
      <4>2. PICK j \in 1 .. Len(g) : j = i + 1 /\ j \in 1 .. l - 1
        BY <3>1
      <4>3. g[j] = a[j + 1]
        BY <1>2, <4>2
      <4> QED
        BY <4>1, <4>2, <4>3
    <3>3. g[i] # tail
      BY <1>1, <1>3, <3>1, <3>2
    <3> QED
      BY <1>3, <2>1, <3>1, <3>2, <3>3
  <2>3. CASE i = l - 1
    <3>1. i \in 1 .. l - 1 /\ i + 1 = l /\ g[i] = tail
      BY <1>1, <1>2, <2>3
    <3>2. pages'[g[i]].next = freeList
      BY <2>1, <3>1
    <3>3. CASE Len(f) = 0
      BY <1>1, <1>4, <2>3, <3>2, <3>3
    <3>4. CASE Len(f) # 0
      <4>1. /\ i # Len(g) /\ i + 1 \in 1 .. Len(g) /\ ~(i + 1 \in 1 .. l - 1) /\ (i + 1) - (l - 1) = 1
        BY <1>1, <2>3, <3>4
      <4>2. g[i + 1] = f[1]
        BY <1>2, <4>1
      <4> QED
        BY <1>4, <3>2, <3>4, <4>1, <4>2
    <3> QED
      BY <3>3, <3>4
  <2>4. CASE ~(i \in 1 .. l - 1)
    <3> DEFINE j == i - (l - 1)
    <3>1. j \in 1 .. Len(f) /\ g[i] = f[j]
      BY <1>2, <2>4
    <3>2. /\ (i = Len(g) <=> j = Len(f)) /\ (i + 1) - (l - 1) = j + 1
          /\ (i # Len(g) => i + 1 \in 1 .. Len(g) /\ ~(i + 1 \in 1 .. l - 1))
      BY <1>1, <2>4
    <3> HIDE DEF j
    <3>3. i # Len(g) => g[i + 1] = f[j + 1]
      BY <1>2, <3>2
    <3>4. g[i] # tail
      BY <1>1, <1>3, <3>1
    <3> QED
      BY <1>4, <2>1, <3>1, <3>2, <3>3, <3>4
  <2> QED
    BY <2>2, <2>3, <2>4
<1>8. freeList' = IF Len(g) = 0 THEN NULL ELSE g[1]
  <2>1. CASE l = 1
    <3>1. head = tail /\ Len(g) = Len(f) /\ (Len(g) # 0 => 1 \in 1 .. Len(g))
      BY <1>1, <2>1
    <3>2. ~(1 \in 1 .. l - 1) /\ 1 - (l - 1) = 1
      BY <2>1
    <3>3. Len(g) # 0 => g[1] = f[1]
      BY <1>2, <3>1, <3>2
    <3> QED
      BY <1>4, <3>1, <3>3
  <2>2. CASE l # 1
    <3>1. 1 \in 1 .. l - 1 /\ 1 \in 1 .. Len(g) /\ Len(g) # 0 /\ 1 # l
      BY <1>1, <2>2
    <3>2. g[1] = a[1 + 1] /\ head # tail
      BY <1>1, <1>2, <1>3, <2>2, <3>1
    <3> QED
      BY <1>1, <1>3, <3>1, <3>2
  <2> QED
    BY <2>1, <2>2
<1>9. Chain(freeList, g)'
  BY <1>5, <1>6, <1>7, <1>8 DEF Chain
<1>10. Chain(head, c)'
  <2>1. \A i \in 1 .. Len(c) : i = 1 /\ i = Len(c)
    OBVIOUS
  <2>2. head \in DOMAIN pages
    BY <1>1, <1>3
  <2>3. pages'[head].next = NULL
    BY <2>2
  <2> QED
    BY <2>1, <2>2, <2>3 DEF Chain
<1>11. \A i \in 1 .. Len(c), j \in 1 .. Len(g) : c[i] # g[j]
  <2>1. \A i \in 1 .. Len(c) : c[i] = head
    OBVIOUS
  <2> QED
    BY <1>5, <2>1
<1>12. DOMAIN pages' = Elements(c) \cup Elements(g)
  <2>1. \A q \in DOMAIN pages : (\E i \in 1 .. l : q = a[i]) \/ (\E i \in 1 .. Len(f) : q = f[i])
    BY DEF TwoLists, Elements, l
  <2>2. ASSUME NEW i \in 1 .. l PROVE a[i] = c[1] \/ \E k \in 1 .. Len(g) : a[i] = g[k]
    <3>1. CASE i = 1
      BY <1>1, <3>1
    <3>2. CASE i # 1
      <4>1. i - 1 \in 1 .. l - 1 /\ i - 1 \in 1 .. Len(g) /\ (i - 1) + 1 = i
        BY <1>1, <3>2
      <4> QED
        BY <1>2, <4>1
    <3> QED
      BY <3>1, <3>2
  <2>3. ASSUME NEW i \in 1 .. Len(f) PROVE \E k \in 1 .. Len(g) : f[i] = g[k]
    <3>1. l - 1 + i \in 1 .. Len(g) /\ g[l - 1 + i] = f[i]
      BY <1>1 DEF Recycled, l
    <3> QED
      BY <3>1
  <2>4. 1 \in 1 .. Len(c) /\ \A i \in 1 .. Len(c) : c[i] = head
    OBVIOUS
  <2>5. head \in DOMAIN pages
    BY <1>1, <1>3
  <2>6. head \in Elements(c) /\ \A q \in Elements(c) : q \in DOMAIN pages
    BY <2>4, <2>5 DEF Elements
  <2>7. \A q \in Elements(g) : q \in DOMAIN pages
    BY <1>5 DEF Elements
  <2>8. \A i \in 1 .. Len(g) : g[i] \in Elements(g)
    BY DEF Elements
  <2>9. \A q \in DOMAIN pages : q = head \/ q \in Elements(g)
    <3>1. \A i \in 1 .. l : a[i] = c[1] \/ a[i] \in Elements(g)
      BY <2>2, <2>8
    <3>2. \A i \in 1 .. Len(f) : f[i] \in Elements(g)
      BY <2>3, <2>8
    <3>3. c[1] = head
      OBVIOUS
    <3> QED
      BY <2>1, <3>1, <3>2, <3>3
  <2> QED
    BY <2>6, <2>7, <2>9
<1> QED
  BY <1>9, <1>10, <1>11, <1>12 DEF TwoLists

-----------------------------------------------------------------------------
(* Only the links of the pages matter to the lists. *)
LEMMA ListsKept ==
  ASSUME NEW a \in Seq(PageId), NEW f \in Seq(PageId), TwoLists(a, f),
         UNCHANGED <<head, tail, freeList>>, DOMAIN pages' = DOMAIN pages,
         \A q \in DOMAIN pages : pages'[q].next = pages[q].next /\ pages'[q].size = pages[q].size
  PROVE  TwoLists(a, f)'
<1>1. Chain(head, a)'
  BY DEF TwoLists, Chain
<1>2. Chain(freeList, f)'
  BY DEF TwoLists, Chain
<1> QED
  BY <1>1, <1>2 DEF TwoLists

(* A new object, behind everything on its page. *)
LEMMA GivenApart ==
  ASSUME ArenaTypeOK, NEW a \in Seq(PageId), NEW b \in Seq(PageId), ObjectsIn(a),
         Elements(a) \subseteq Elements(b), Elements(b) \subseteq DOMAIN pages',
         NEW p \in PageId, NEW first \in Nat, NEW size \in Nat, Give(p, first, size),
         HeaderSize <= first, p \in Elements(b), first + size <= pages'[p].offset,
         p \in Elements(a) => pages[p].offset <= first,
         \A q \in Elements(a) : /\ pages[q].offset \in Nat /\ pages'[q].offset \in Nat
                                /\ pages[q].offset <= pages'[q].offset
  PROVE  ObjectsIn(b)' /\ objects' \in Seq(ObjectType)
<1> DEFINE new == [page |-> p, first |-> first, size |-> size]
           l == Len(objects)
<1>1. objects \in Seq(ObjectType) /\ new \in ObjectType /\ l \in Nat
  BY DEF ArenaTypeOK, ObjectType
<1>2. objects' = Append(objects, new)
  BY DEF Give
<1>3. new.page = p /\ new.first = first /\ new.size = size
  OBVIOUS
<1> HIDE DEF new
<1>4. /\ objects' \in Seq(ObjectType) /\ Len(objects') = l + 1 /\ objects'[l + 1] = new
      /\ \A k \in 1 .. l : objects'[k] = objects[k]
  BY <1>1, <1>2
<1>5. \A k \in 1 .. l : /\ objects[k].page \in Elements(a) /\ HeaderSize <= objects[k].first
                        /\ EndOf(objects[k]) <= pages[objects[k].page].offset
                        /\ EndOf(objects[k]) \in Nat
  <2>1. \A k \in 1 .. l : objects[k] \in ObjectType
    BY <1>1
  <2>2. \A k \in 1 .. l : ObjectIn(a, objects[k])
    BY DEF ObjectsIn
  <2> QED
    BY <2>1, <2>2 DEF ObjectIn, ObjectType, EndOf
<1>6. \A i, j \in 1 .. l : i < j => Apart(objects[i], objects[j])
  BY DEF ObjectsIn
<1> HIDE DEF l
<1>7. \A k \in 1 .. l : EndOf(objects[k]) <= pages'[objects[k].page].offset
  BY <1>5
<1>8. EndOf(new) <= pages'[new.page].offset
  BY <1>3 DEF EndOf
<1>9. ASSUME NEW k \in 1 .. l PROVE Apart(objects[k], new)
  <2> SUFFICES ASSUME objects[k].page = p PROVE EndOf(objects[k]) <= first
    BY <1>3 DEF Apart
  <2> QED
    BY <1>5
<1>10. \A k \in 1 .. l + 1 : k \in 1 .. l \/ k = l + 1
  BY <1>1
<1>11. ASSUME NEW k \in 1 .. l + 1
       PROVE  /\ objects'[k].page \in Elements(b) /\ HeaderSize <= objects'[k].first
              /\ EndOf(objects'[k]) <= pages'[objects'[k].page].offset
  <2>1. CASE k = l + 1
    BY <1>3, <1>4, <1>8, <2>1
  <2>2. CASE k \in 1 .. l
    BY <1>4, <1>5, <1>7, <2>2
  <2> QED
    BY <1>10, <2>1, <2>2
<1>12. ASSUME NEW i \in 1 .. l + 1, NEW j \in 1 .. l + 1, i < j PROVE Apart(objects'[i], objects'[j])
  <2>1. i \in 1 .. l
    BY <1>1, <1>12
  <2>2. CASE j = l + 1
    BY <1>4, <1>9, <2>1, <2>2
  <2>3. CASE j \in 1 .. l
    BY <1>4, <1>6, <1>12, <2>1, <2>3
  <2> QED
    BY <1>10, <2>2, <2>3
<1>13. ObjectsIn(b)'
  BY <1>4, <1>11, <1>12 DEF ObjectsIn, ObjectIn, Apart, EndOf
<1> QED
  BY <1>4, <1>13

(* The pages of an open arena. *)
LEMMA HeadPage ==
  ASSUME ArenaInv, open, NEW a \in Seq(PageId), NEW f \in Seq(PageId), TwoLists(a, f)
  PROVE  /\ head \in DOMAIN pages /\ head \in PageId /\ head \in Elements(a) /\ head # NULL
         /\ freeList # NULL => /\ Len(f) > 0 /\ freeList = f[1] /\ freeList \in DOMAIN pages
                               /\ freeList \in PageId /\ freeList \notin Elements(a)
         /\ DOMAIN pages \subseteq PageId /\ Elements(a) \subseteq DOMAIN pages
         /\ Elements(f) \subseteq DOMAIN pages
         /\ \A p \in DOMAIN pages :
              /\ pages[p] \in [next : Link, size : Nat, offset : Nat]
              /\ HeaderSize <= pages[p].offset /\ pages[p].offset <= pages[p].size
<1>1. 1 \in 1 .. Len(a) /\ head = a[1] /\ head \in DOMAIN pages
  BY DEF TwoLists, Chain
<1>2. DOMAIN pages \subseteq PageId /\ NULL \notin PageId
  BY DEF ArenaInv, ArenaTypeOK, PageId, NULL
<1>3. ASSUME freeList # NULL PROVE /\ 1 \in 1 .. Len(f) /\ freeList = f[1] /\ freeList \in DOMAIN pages
                                   /\ freeList \notin Elements(a)
  <2>1. Len(f) # 0 /\ Len(f) \in Nat /\ freeList = f[1]
    BY <1>3 DEF TwoLists, Chain
  <2>2. 1 \in 1 .. Len(f)
    BY <2>1
  <2> QED
    BY <2>1, <2>2 DEF TwoLists, Chain, Elements
<1>4. head \in Elements(a) /\ Elements(a) \subseteq DOMAIN pages /\ Elements(f) \subseteq DOMAIN pages
  BY <1>1 DEF TwoLists, Elements
<1>5. \A p \in DOMAIN pages :
              /\ pages[p] \in [next : Link, size : Nat, offset : Nat]
              /\ HeaderSize <= pages[p].offset /\ pages[p].offset <= pages[p].size
  BY DEF ArenaInv, ArenaTypeOK
<1> QED
  BY <1>1, <1>2, <1>3, <1>4, <1>5

LEMMA AllocInHeadKeeps ==
  ASSUME ArenaInv, open, NEW size \in Nat, NEW align \in Nat \ {0},
         AllocInHead(size, align), open' = open
  PROVE  ArenaInv'
<1>1. PICK a, f \in Seq(PageId) : TwoLists(a, f) /\ ObjectsIn(a)
  BY DEF ArenaInv
<1>2. /\ head \in DOMAIN pages /\ head \in PageId /\ head \in Elements(a)
      /\ DOMAIN pages \subseteq PageId /\ Elements(a) \subseteq DOMAIN pages
      /\ \A p \in DOMAIN pages :
              /\ pages[p] \in [next : Link, size : Nat, offset : Nat]
              /\ HeaderSize <= pages[p].offset /\ pages[p].offset <= pages[p].size
  BY <1>1, HeadPage
<1>3. PICK first : first = UpperAlign(pages[head].offset, align)
  OBVIOUS
<1>4. first \in Nat /\ pages[head].offset <= first
  BY <1>2, <1>3, AlignHolds
<1>5. /\ first + size <= pages[head].size
      /\ pages' = [pages EXCEPT ![head].offset = first + size]
      /\ Give(head, first, size)
      /\ UNCHANGED <<head, tail, freeList, running, peak>>
  BY <1>3 DEF AllocInHead, Fits
<1>6. PICK p \in PageId : p = head
  BY <1>2
<1>7. /\ DOMAIN pages' = DOMAIN pages
      /\ \A q \in DOMAIN pages : pages'[q].next = pages[q].next /\ pages'[q].size = pages[q].size
      /\ \A q \in DOMAIN pages : pages'[q].offset = IF q = p THEN first + size ELSE pages[q].offset
      /\ \A q \in DOMAIN pages : pages'[q] \in [next : Link, size : Nat, offset : Nat]
  <2> DEFINE h == [pages[head] EXCEPT !.offset = first + size]
  <2>1. h \in [next : Link, size : Nat, offset : Nat]
    <3>1. PICK x \in [next : Link, size : Nat, offset : Nat] : x = pages[head]
      BY <1>2
    <3>2. PICK n \in Nat : n = first + size
      BY <1>4
    <3>3. [x EXCEPT !.offset = n] \in [next : Link, size : Nat, offset : Nat]
      OBVIOUS
    <3> QED
      BY <3>1, <3>2, <3>3
  <2>2. h.next = pages[head].next /\ h.size = pages[head].size /\ h.offset = first + size
    BY <1>2
  <2>3. DOMAIN pages' = DOMAIN pages /\ \A q \in DOMAIN pages : pages'[q] = IF q = head THEN h ELSE pages[q]
    BY <1>2, <1>5
  <2> HIDE DEF h
  <2> QED
    BY <1>2, <1>6, <2>1, <2>2, <2>3
<1>8. TwoLists(a, f)'
  BY <1>1, <1>5, <1>7, ListsKept
<1>9. ObjectsIn(a)' /\ objects' \in Seq(ObjectType)
  <2>1. \A q \in Elements(a) : /\ pages[q].offset \in Nat /\ pages'[q].offset \in Nat
                               /\ pages[q].offset <= pages'[q].offset
    BY <1>2, <1>4, <1>6, <1>7
  <2>2. ArenaTypeOK /\ Elements(a) \subseteq DOMAIN pages' /\ Give(p, first, size) /\ p \in Elements(a)
    BY <1>2, <1>5, <1>6, <1>7 DEF ArenaInv
  <2>3. HeaderSize <= first /\ first + size <= pages'[p].offset /\ pages[p].offset <= first
    BY <1>2, <1>4, <1>6, <1>7
  <2> QED
    BY <1>1, <1>4, <2>1, <2>2, <2>3, GivenApart
<1>10. ArenaTypeOK'
  <2>1. \A q \in DOMAIN pages : HeaderSize <= pages'[q].offset /\ pages'[q].offset <= pages'[q].size
    BY <1>2, <1>4, <1>5, <1>6, <1>7
  <2> QED
    BY <1>2, <1>5, <1>7, <1>9, <2>1 DEF ArenaInv, ArenaTypeOK, ObjectType
<1>11. Numbered' /\ GrowsOnlyWhenNeeded'
  <2>1. Numbered /\ GrowsOnlyWhenNeeded
    BY DEF ArenaInv
  <2> QED
    BY <1>5, <1>7, <2>1 DEF Numbered, GrowsOnlyWhenNeeded
<1> QED
  BY <1>8, <1>9, <1>10, <1>11 DEF ArenaInv

LEMMA PushedExists ==
  ASSUME NEW a \in Seq(PageId), NEW p \in PageId
  PROVE  \E b \in Seq(PageId) : Pushed(a, p, b)
<1> DEFINE b == <<p>> \o a
<1>1. b \in Seq(PageId) /\ Len(b) = Len(a) + 1 /\ b[1] = p
  OBVIOUS
<1>2. \A i \in 1 .. Len(a) : b[i + 1] = a[i]
  OBVIOUS
<1> QED
  BY <1>1, <1>2 DEF Pushed

LEMMA PoppedExists ==
  ASSUME NEW f \in Seq(PageId), Len(f) > 0
  PROVE  \E g \in Seq(PageId) : Popped(f, g)
<1>1. Tail(f) \in Seq(PageId) /\ Len(f) = Len(Tail(f)) + 1 /\ \A i \in 1 .. Len(Tail(f)) : Tail(f)[i] = f[i + 1]
  OBVIOUS
<1> QED
  BY <1>1 DEF Popped

LEMMA RecycledExists ==
  ASSUME NEW a \in Seq(PageId), NEW f \in Seq(PageId), Len(a) > 0
  PROVE  \E g \in Seq(PageId) : Recycled(a, f, g)
<1>1. PICK t \in Seq(PageId) : Popped(a, t)
  BY PoppedExists
<1>2. t \o f \in Seq(PageId) /\ Len(t \o f) = Len(a) - 1 + Len(f)
  BY <1>1 DEF Popped
<1>3. \A i \in 1 .. Len(a) - 1 : i \in 1 .. Len(t) /\ (t \o f)[i] = a[i + 1]
  BY <1>1 DEF Popped
<1>4. \A j \in 1 .. Len(f) : (t \o f)[Len(a) - 1 + j] = f[j]
  BY <1>1 DEF Popped
<1> QED
  BY <1>2, <1>3, <1>4 DEF Recycled

(* A page becomes the head: what is left is the free list g. *)
HeadTaken(p, g, bytes) ==
  /\ ArenaTypeOK' /\ \E b \in Seq(PageId) : TwoLists(b, g)' /\ ObjectsIn(b)'
  /\ Cardinality(List(head)) \in Nat /\ peak' >= Cardinality(List(head)) + 1 /\ peak' >= peak
  /\ DOMAIN pages' = DOMAIN pages \cup {p}
  /\ pages'[p].size = bytes /\ \A q \in DOMAIN pages : q # p => pages'[q].size = pages[q].size

LEMMA NewHeadKeeps ==
  ASSUME ArenaInv, open, open' \in BOOLEAN, running' \in BOOLEAN, freeList' \in Link,
         NEW a \in Seq(PageId), NEW f \in Seq(PageId), NEW g \in Seq(PageId),
         TwoLists(a, f), ObjectsIn(a), Chain(freeList, g)',
         NEW p \in PageId, p \notin Elements(a), p \notin Elements(g),
         Elements(f) \cup {p} = Elements(g) \cup {p}, Elements(g) \subseteq Elements(f),
         NEW bytes \in Nat, NEW first \in Nat, NEW size \in Nat,
         HeaderSize <= first, first + size <= bytes,
         NewHead(p, bytes, first, size)
  PROVE  HeadTaken(p, g, bytes)
<1>1. PICK b \in Seq(PageId) : Pushed(a, p, b)
  BY PushedExists
<1>2. Elements(b) = Elements(a) \cup {p}
  BY <1>1, PushedElements
<1>3. /\ head \in PageId /\ DOMAIN pages \subseteq PageId /\ Elements(a) \subseteq DOMAIN pages
      /\ Elements(f) \subseteq DOMAIN pages /\ DOMAIN pages = Elements(a) \cup Elements(f)
      /\ \A q \in DOMAIN pages :
              /\ pages[q] \in [next : Link, size : Nat, offset : Nat]
              /\ HeaderSize <= pages[q].offset /\ pages[q].offset <= pages[q].size
      /\ tail \in Link /\ peak \in Nat
  BY HeadPage DEF TwoLists, ArenaInv, ArenaTypeOK
<1>4. /\ DOMAIN pages' = DOMAIN pages \cup {p}
      /\ pages'[p] = Header(head, bytes, first + size)
      /\ \A q \in DOMAIN pages : q # p => pages'[q] = pages[q]
      /\ head' = p /\ tail' = tail /\ Give(p, first, size)
  BY DEF NewHead
<1>5. pages'[p] \in [next : Link, size : Nat, offset : Nat] /\ pages'[p].next = head /\ pages'[p].size = bytes
      /\ pages'[p].offset = first + size
  BY <1>3, <1>4 DEF Header, Link
<1>6. Chain(head, b)' /\ b[Len(b)] = a[Len(a)] /\ Len(b) > 0
  <2>1. Chain(head, a) /\ Len(a) > 0 /\ Len(b) = Len(a) + 1 /\ Len(a) \in Nat
    BY <1>1 DEF TwoLists, Pushed
  <2>2. \A q \in DOMAIN pages : q # p => pages'[q].next = pages[q].next
    BY <1>4
  <2> QED
    BY <1>1, <1>4, <1>5, <2>1, <2>2, PushedChain
<1>7. TwoLists(b, g)'
  <2>1. tail' = b[Len(b)]
    BY <1>4, <1>6 DEF TwoLists
  <2>2. \A i \in 1 .. Len(b), j \in 1 .. Len(g) : b[i] # g[j]
    <3>1. Elements(b) \cap Elements(g) = {}
      <4>1. Elements(a) \cap Elements(f) = {}
        BY DEF TwoLists, Elements
      <4> QED
        BY <1>2, <4>1
    <3> QED
      BY <3>1 DEF Elements
  <2>3. DOMAIN pages' = Elements(b) \cup Elements(g)
    BY <1>2, <1>3, <1>4
  <2> QED
    BY <1>6, <2>1, <2>2, <2>3 DEF TwoLists
<1>8. ObjectsIn(b)' /\ objects' \in Seq(ObjectType)
  <2>1. \A q \in Elements(a) : /\ pages[q].offset \in Nat /\ pages'[q].offset \in Nat
                               /\ pages[q].offset <= pages'[q].offset
    BY <1>3, <1>4
  <2>2. /\ ArenaTypeOK /\ Elements(b) \subseteq DOMAIN pages' /\ Elements(a) \subseteq Elements(b)
        /\ p \in Elements(b)
    BY <1>2, <1>3, <1>4 DEF ArenaInv
  <2>3. first + size <= pages'[p].offset /\ (p \in Elements(a) => pages[p].offset <= first)
    BY <1>5
  <2> QED
    BY <1>4, <2>1, <2>2, <2>3, GivenApart
<1>9. Cardinality(List(head)) \in Nat
  <2>1. List(head) = Elements(a)
    BY <1>3, WalkMeets DEF TwoLists
  <2>2. IsFiniteSet(PageId)
    BY FS_Interval DEF PageId
  <2>3. IsFiniteSet(Elements(a))
    BY <1>3, <2>2, FS_Subset
  <2> QED
    BY <2>1, <2>3, FS_CardinalityType
<1>10. peak' \in Nat /\ peak' >= Cardinality(List(head)) + 1 /\ peak' >= peak
  <2>1. peak' = IF Cardinality(List(head)) + 1 > peak THEN Cardinality(List(head)) + 1 ELSE peak
    BY DEF NewHead
  <2> QED
    BY <1>3, <1>9, <2>1
<1>11. ArenaTypeOK'
  <2>1. \A q \in DOMAIN pages' : /\ pages'[q] \in [next : Link, size : Nat, offset : Nat]
                                 /\ HeaderSize <= pages'[q].offset /\ pages'[q].offset <= pages'[q].size
    BY <1>3, <1>4, <1>5
  <2>2. DOMAIN pages' \subseteq PageId
    BY <1>3, <1>4
  <2>3. head' \in Link /\ tail' \in Link
    BY <1>3, <1>4 DEF Link
  <2> QED
    BY <1>8, <1>10, <2>1, <2>2, <2>3 DEF ArenaTypeOK, ObjectType
<1> QED
  BY <1>4, <1>5, <1>7, <1>8, <1>9, <1>10, <1>11 DEF HeadTaken

LEMMA AllocFromFreeListKeeps ==
  ASSUME ArenaInv, open, NEW size \in Nat, NEW align \in Nat \ {0},
         AllocFromFreeList(size, align), open' = open
  PROVE  ArenaInv'
<1>1. PICK a, f \in Seq(PageId) : TwoLists(a, f) /\ ObjectsIn(a)
  BY DEF ArenaInv
<1>2. PICK first : first = UpperAlign(HeaderSize, align)
  OBVIOUS
<1>3. first \in Nat /\ HeaderSize <= first
  BY <1>2, AlignHolds
<1>4. PICK p, bytes : p = freeList /\ bytes = pages[freeList].size
  OBVIOUS
<1>5. /\ p # NULL /\ first + size <= bytes
      /\ NewHead(p, bytes, first, size)
      /\ freeList' = pages[freeList].next
      /\ UNCHANGED running
  BY <1>2, <1>4 DEF AllocFromFreeList, FirstFreeFits, Fits
<1>6. /\ Len(f) > 0 /\ p = f[1] /\ p \in DOMAIN pages /\ p \in PageId /\ p \notin Elements(a)
      /\ pages[p] \in [next : Link, size : Nat, offset : Nat]
  BY <1>1, <1>4, <1>5, HeadPage
<1>7. bytes \in Nat /\ freeList' \in Link
  BY <1>4, <1>5, <1>6
<1>8. PICK g \in Seq(PageId) : Popped(f, g)
  BY <1>6, PoppedExists
<1>9. Elements(f) = Elements(g) \cup {p}
  BY <1>6, <1>8, PoppedElements
<1>10. p \notin Elements(g)
  <2>1. \A i \in 1 .. Len(g) : g[i] = f[i + 1] /\ i + 1 \in 1 .. Len(f) /\ 1 \in 1 .. Len(f) /\ i + 1 # 1
    BY <1>8 DEF Popped
  <2>2. \A i, j \in 1 .. Len(f) : f[i] = f[j] => i = j
    BY <1>1 DEF TwoLists, Chain
  <2> QED
    BY <1>6, <2>1, <2>2 DEF Elements
<1>11. DOMAIN pages' = DOMAIN pages \cup {p} /\ \A q \in DOMAIN pages : q # p => pages'[q] = pages[q]
  BY <1>5 DEF NewHead
<1>12. Chain(freeList, g)'
  <2>1. \A q \in DOMAIN pages : q # freeList => q \in DOMAIN pages' /\ pages'[q].next = pages[q].next
    BY <1>4, <1>11
  <2> QED
    BY <1>1, <1>5, <1>8, <2>1, PoppedChain DEF TwoLists
<1>13. open' \in BOOLEAN /\ running' \in BOOLEAN
  BY <1>5 DEF ArenaInv, ArenaTypeOK
<1>14. /\ ArenaTypeOK' /\ \E b \in Seq(PageId) : TwoLists(b, g)' /\ ObjectsIn(b)'
       /\ peak' >= peak
       /\ pages'[p].size = bytes /\ \A q \in DOMAIN pages : q # p => pages'[q].size = pages[q].size
  <2>1. Elements(f) \cup {p} = Elements(g) \cup {p} /\ Elements(g) \subseteq Elements(f)
    BY <1>9
  <2>2. p \in PageId /\ p \notin Elements(a) /\ first + size <= bytes /\ NewHead(p, bytes, first, size)
    BY <1>5, <1>6
  <2>3. HeadTaken(p, g, bytes)
    BY <1>1, <1>3, <1>7, <1>10, <1>12, <1>13, <2>1, <2>2, NewHeadKeeps
  <2> QED
    BY <2>3 DEF HeadTaken
<1>15. DOMAIN pages' = DOMAIN pages /\ \A q \in DOMAIN pages : pages'[q].size = pages[q].size
  BY <1>4, <1>6, <1>11, <1>14
<1>16. Numbered' /\ GrowsOnlyWhenNeeded'
  <2>1. Numbered /\ GrowsOnlyWhenNeeded /\ peak \in Nat
    BY DEF ArenaInv, ArenaTypeOK
  <2>2. peak' \in Nat /\ Cardinality(DOMAIN pages) \in Nat
    <3>1. IsFiniteSet(PageId) /\ DOMAIN pages \subseteq PageId
      BY FS_Interval DEF PageId, ArenaInv, ArenaTypeOK
    <3> QED
      BY <1>14, <3>1, FS_Subset, FS_CardinalityType DEF ArenaTypeOK
  <2> QED
    BY <1>14, <1>15, <2>1, <2>2 DEF Numbered, GrowsOnlyWhenNeeded
<1> QED
  BY <1>14, <1>16 DEF ArenaInv

LEMMA AllocNewPageKeeps ==
  ASSUME ArenaInv, open, NEW size \in Nat, NEW align \in Nat \ {0},
         AllocNewPage(size, align), open' = open
  PROVE  ArenaInv'
<1>1. CASE running' = FALSE /\ UNCHANGED <<pages, head, tail, freeList, objects, peak>>
  <2>1. PICK a, f \in Seq(PageId) : TwoLists(a, f) /\ ObjectsIn(a)
    BY DEF ArenaInv
  <2>2. TwoLists(a, f)' /\ ObjectsIn(a)'
    BY <1>1, <2>1 DEF TwoLists, Chain, ObjectsIn, ObjectIn, Apart
  <2>3. ArenaTypeOK' /\ Numbered' /\ GrowsOnlyWhenNeeded'
    BY <1>1 DEF ArenaInv, ArenaTypeOK, Numbered, GrowsOnlyWhenNeeded
  <2> QED
    BY <2>2, <2>3 DEF ArenaInv
<1>2. CASE ~(running' = FALSE /\ UNCHANGED <<pages, head, tail, freeList, objects, peak>>)
  <2>1. PICK a, f \in Seq(PageId) : TwoLists(a, f) /\ ObjectsIn(a)
    BY DEF ArenaInv
  <2>2. PICK first : first = UpperAlign(HeaderSize, align)
    OBVIOUS
  <2>3. first \in Nat /\ HeaderSize <= first
    BY <2>2, AlignHolds
  <2>4. PICK p, bytes : p = Cardinality(DOMAIN pages) + 1 /\ bytes = PageBytes(first + size)
    OBVIOUS
  <2>5. /\ Cardinality(DOMAIN pages) < MaxPages
        /\ NewHead(p, bytes, first, size)
        /\ UNCHANGED <<freeList, running>>
        /\ freeList # NULL => ~(first + size <= pages[freeList].size)
    BY <1>2, <2>2, <2>4 DEF AllocNewPage, FirstFreeFits, Fits
  <2>6. bytes \in Nat /\ first + size <= bytes /\ (bytes = PageSize => first + size <= PageSize)
    <3>1. first + size \in Nat
      BY <2>3
    <3> QED
      BY <2>4, <3>1, PageBytesHold
  <2>7. PICK n \in 1 .. MaxPages : DOMAIN pages = 1 .. n
    BY DEF ArenaInv, Numbered
  <2>8. Cardinality(DOMAIN pages) = n /\ p = n + 1 /\ p \in PageId /\ p \notin DOMAIN pages
    <3>1. Cardinality(1 .. n) = IF 1 > n THEN 0 ELSE n - 1 + 1
      BY FS_Interval
    <3> QED
      BY <2>4, <2>5, <2>7, <3>1 DEF PageId
  <2>9. DOMAIN pages' = DOMAIN pages \cup {p} /\ \A q \in DOMAIN pages : pages'[q] = pages[q]
    BY <2>5, <2>8 DEF NewHead
  <2>10. p \notin Elements(a) /\ p \notin Elements(f)
    BY <2>1, <2>8 DEF TwoLists
  <2>11. Chain(freeList, f)'
    <3>1. \A q \in Elements(f) : q \in DOMAIN pages' /\ pages'[q].next = pages[q].next
      BY <2>1, <2>9 DEF TwoLists
    <3> QED
      BY <2>1, <2>5, <3>1, ChainKept DEF TwoLists
  <2>12. open' \in BOOLEAN /\ running' \in BOOLEAN /\ freeList' \in Link
    BY <2>5 DEF ArenaInv, ArenaTypeOK
  <2>13. /\ ArenaTypeOK' /\ \E b \in Seq(PageId) : TwoLists(b, f)' /\ ObjectsIn(b)'
         /\ Cardinality(List(head)) \in Nat /\ peak' >= Cardinality(List(head)) + 1
         /\ pages'[p].size = bytes /\ \A q \in DOMAIN pages : q # p => pages'[q].size = pages[q].size
    <3>1. Elements(f) \cup {p} = Elements(f) \cup {p} /\ Elements(f) \subseteq Elements(f)
      OBVIOUS
    <3>2. p \in PageId /\ first + size <= bytes /\ NewHead(p, bytes, first, size)
      BY <2>5, <2>6, <2>8
    <3>3. HeadTaken(p, f, bytes)
      BY <2>1, <2>3, <2>6, <2>10, <2>11, <2>12, <3>1, <3>2, NewHeadKeeps
    <3> QED
      BY <3>3 DEF HeadTaken
  <2>14. DOMAIN pages' = 1 .. n + 1 /\ n + 1 \in 1 .. MaxPages
    BY <2>5, <2>7, <2>8, <2>9
  <2>15. Cardinality(DOMAIN pages') = n + 1
    <3>1. 1 \in Int /\ n + 1 \in Int
      OBVIOUS
    <3>2. Cardinality(1 .. n + 1) = IF 1 > n + 1 THEN 0 ELSE n + 1 - 1 + 1
      BY <3>1, FS_Interval
    <3> QED
      BY <2>14, <3>2
  <2>16. ASSUME \A q \in DOMAIN pages' : pages'[q].size = PageSize
         PROVE  Cardinality(DOMAIN pages') <= peak'
    <3>1. first + size <= PageSize
      BY <2>6, <2>9, <2>13, <2>16
    <3>2. freeList = NULL
      <4> SUFFICES ASSUME freeList # NULL PROVE FALSE
        OBVIOUS
      <4>1. freeList \in DOMAIN pages
        BY <2>1, HeadPage
      <4>2. pages[freeList].size = PageSize
        BY <2>9, <2>16, <4>1
      <4> QED
        BY <2>5, <3>1, <4>2
    <3>3. Elements(f) = {}
      <4>1. Len(f) = 0
        <5>1. Len(f) \in Nat /\ (Len(f) # 0 => 1 \in 1 .. Len(f) /\ freeList = f[1])
          BY <2>1 DEF TwoLists, Chain
        <5>2. \A i \in 1 .. Len(f) : f[i] # NULL
          BY DEF PageId, NULL
        <5> QED
          BY <3>2, <5>1, <5>2
      <4> QED
        BY <4>1 DEF Elements
    <3>4. List(head) = DOMAIN pages
      <4>1. DOMAIN pages \subseteq PageId
        BY DEF ArenaInv, ArenaTypeOK
      <4>2. List(head) = Elements(a)
        BY <2>1, <4>1, WalkMeets DEF TwoLists
      <4> QED
        BY <2>1, <3>3, <4>2 DEF TwoLists
    <3>5. Cardinality(List(head)) = n /\ peak' \in Nat
      BY <2>8, <2>13, <3>4 DEF ArenaTypeOK
    <3> QED
      BY <2>13, <2>15, <3>5
  <2>17. Numbered' /\ GrowsOnlyWhenNeeded'
    BY <2>14, <2>16 DEF Numbered, GrowsOnlyWhenNeeded
  <2> QED
    BY <2>13, <2>17 DEF ArenaInv
<1> QED
  BY <1>1, <1>2

LEMMA AllocKeeps ==
  ASSUME ArenaInv, open, NEW size \in Nat, NEW align \in Nat \ {0}, Alloc(size, align)
  PROVE  ArenaInv'
BY AllocInHeadKeeps, AllocFromFreeListKeeps, AllocNewPageKeeps DEF Alloc

LEMMA RecycleAllKeeps ==
  ASSUME ArenaInv, open, RecycleAll
  PROVE  ArenaInv' /\ objects' = <<>>
<1>1. PICK a, f \in Seq(PageId) : TwoLists(a, f)
  BY DEF ArenaInv
<1>2. /\ head \in DOMAIN pages /\ head \in PageId /\ Len(a) > 0
      /\ DOMAIN pages \subseteq PageId
      /\ \A p \in DOMAIN pages :
              /\ pages[p] \in [next : Link, size : Nat, offset : Nat]
              /\ HeaderSize <= pages[p].offset /\ pages[p].offset <= pages[p].size
      /\ freeList \in Link /\ tail \in DOMAIN pages
  <2>1. Len(a) \in 1 .. Len(a) /\ Len(a) > 0
    BY <1>1 DEF TwoLists
  <2> QED
    BY <1>1, <2>1, HeadPage DEF ArenaInv, ArenaTypeOK, TwoLists, Chain
<1>3. PICK linked : linked = TailLinked
  OBVIOUS
<1>4. /\ freeList' = linked[head].next
      /\ pages' = [linked EXCEPT ![head].next = NULL, ![head].offset = HeaderSize]
      /\ tail' = head /\ objects' = <<>> /\ UNCHANGED <<head, open, running, peak>>
  BY <1>3 DEF RecycleAll
<1>5. /\ DOMAIN linked = DOMAIN pages
      /\ \A q \in DOMAIN pages : /\ linked[q] \in [next : Link, size : Nat, offset : Nat]
                                 /\ linked[q].next = IF q = tail THEN freeList ELSE pages[q].next
                                 /\ linked[q].size = pages[q].size
                                 /\ linked[q].offset = pages[q].offset
  <2> DEFINE h == [pages[tail] EXCEPT !.next = freeList]
  <2>1. /\ h \in [next : Link, size : Nat, offset : Nat]
        /\ h.next = freeList /\ h.size = pages[tail].size /\ h.offset = pages[tail].offset
    BY <1>2
  <2>2. DOMAIN linked = DOMAIN pages /\ \A q \in DOMAIN pages : linked[q] = IF q = tail THEN h ELSE pages[q]
    BY <1>2, <1>3 DEF TailLinked
  <2> HIDE DEF h
  <2> QED
    BY <1>2, <2>1, <2>2
<1>6. /\ DOMAIN pages' = DOMAIN pages
      /\ \A q \in DOMAIN pages : /\ pages'[q] \in [next : Link, size : Nat, offset : Nat]
                                 /\ pages'[q].next = IF q = head THEN NULL ELSE linked[q].next
                                 /\ pages'[q].size = linked[q].size
                                 /\ pages'[q].offset = IF q = head THEN HeaderSize ELSE linked[q].offset
  <2> DEFINE h == [[linked[head] EXCEPT !.next = NULL] EXCEPT !.offset = HeaderSize]
  <2>1. /\ h \in [next : Link, size : Nat, offset : Nat]
        /\ h.next = NULL /\ h.size = linked[head].size /\ h.offset = HeaderSize
    BY <1>2, <1>5 DEF Link
  <2>2. DOMAIN pages' = DOMAIN linked /\ \A q \in DOMAIN linked : pages'[q] = IF q = head THEN h ELSE linked[q]
    BY <1>2, <1>4, <1>5
  <2> HIDE DEF h
  <2> QED
    BY <1>2, <1>5, <2>1, <2>2
<1>7. PICK g \in Seq(PageId) : Recycled(a, f, g)
  BY <1>2, RecycledExists
<1>8. PICK c \in Seq(PageId) : Len(c) = 1 /\ c[1] = head
  <2>1. <<head>> \in Seq(PageId) /\ Len(<<head>>) = 1 /\ <<head>>[1] = head
    BY <1>2
  <2> QED
    BY <2>1
<1>9. TwoLists(c, g)'
  <2>1. freeList' = IF head = tail THEN freeList ELSE pages[head].next
    BY <1>2, <1>4, <1>5
  <2>2. \A q \in DOMAIN pages :
           pages'[q].next = IF q = head THEN NULL
                            ELSE IF q = tail THEN freeList ELSE pages[q].next
    BY <1>5, <1>6
  <2> QED
    BY <1>1, <1>4, <1>6, <1>7, <1>8, <2>1, <2>2, RecycledChain
<1>10. ArenaTypeOK'
  <2>1. \A q \in DOMAIN pages : HeaderSize <= pages'[q].offset /\ pages'[q].offset <= pages'[q].size
    BY <1>2, <1>5, <1>6
  <2>2. freeList' \in Link /\ head' \in Link /\ tail' \in Link
    BY <1>2, <1>4, <1>5 DEF Link
  <2>3. objects' \in Seq([page : PageId, first : Nat, size : Nat])
    BY <1>4
  <2> QED
    BY <1>2, <1>4, <1>6, <2>1, <2>2, <2>3 DEF ArenaInv, ArenaTypeOK
<1>11. Numbered' /\ GrowsOnlyWhenNeeded'
  <2>1. \A q \in DOMAIN pages : pages'[q].size = pages[q].size
    BY <1>5, <1>6
  <2> QED
    BY <1>4, <1>6, <2>1 DEF ArenaInv, Numbered, GrowsOnlyWhenNeeded
<1>12. ObjectsIn(c)'
  BY <1>4 DEF ObjectsIn
<1> QED
  BY <1>4, <1>9, <1>10, <1>11, <1>12 DEF ArenaInv

LEMMA FreeAllKeeps ==
  ASSUME ArenaInv, open, FreeAll, open' = FALSE, running' \in BOOLEAN
  PROVE  ArenaInv' /\ objects' = <<>>
<1>1. PICK a, f \in Seq(PageId) : TwoLists(a, f)
  BY DEF ArenaInv
<1>2. Freed = DOMAIN pages
  <2>1. DOMAIN pages \subseteq PageId
    BY DEF ArenaInv, ArenaTypeOK
  <2>2. List(head) = Elements(a) /\ List(freeList) = Elements(f)
    BY <1>1, <2>1, WalkMeets DEF TwoLists
  <2> QED
    BY <1>1, <2>2 DEF TwoLists, Freed
<1>3. DOMAIN pages' = {} /\ head' = NULL /\ freeList' = NULL /\ objects' = <<>> /\ UNCHANGED <<tail, peak>>
  BY <1>2 DEF FreeAll
<1>4. ArenaTypeOK'
  <2>1. objects' \in Seq([page : PageId, first : Nat, size : Nat])
    BY <1>3
  <2> QED
    BY <1>3, <2>1 DEF ArenaInv, ArenaTypeOK, Link
<1> QED
  BY <1>3, <1>4 DEF ArenaInv

LEMMA ArenaStarts ==
  ASSUME ArenaInit PROVE ArenaInv
<1>1. /\ DOMAIN pages = 1 .. 1 /\ pages[1] = Header(NULL, PageBytes(1), HeaderSize)
      /\ head = 1 /\ tail = 1 /\ freeList = NULL /\ open = TRUE /\ running = TRUE
      /\ objects = <<>> /\ peak = 1
  BY DEF ArenaInit
<1>2. PageBytes(1) \in Nat /\ HeaderSize <= PageBytes(1)
  <2>1. PageSize \in Nat /\ PageSize - 1 >= 1
    OBVIOUS
  <2>2. 1 + PageSize - 1 = PageSize /\ PageSize \div PageSize = 1
    BY <2>1
  <2> QED
    BY <2>1, <2>2 DEF PageBytes
<1>3. /\ pages[1] \in [next : Link, size : Nat, offset : Nat]
      /\ pages[1].next = NULL /\ pages[1].size = PageBytes(1) /\ pages[1].offset = HeaderSize
  BY <1>1, <1>2 DEF Header, Link
<1>4. ArenaTypeOK
  BY <1>1, <1>2, <1>3 DEF ArenaTypeOK, PageId, Link
<1>5. Numbered
  BY <1>1 DEF Numbered
<1>6. GrowsOnlyWhenNeeded
  <2>1. Cardinality(1 .. 1) = 1
    <3>1. 1 \in Int
      OBVIOUS
    <3>2. Cardinality(1 .. 1) = IF 1 > 1 THEN 0 ELSE 1 - 1 + 1
      BY <3>1, FS_Interval
    <3> QED
      BY <3>2
  <2> QED
    BY <1>1, <2>1 DEF GrowsOnlyWhenNeeded
<1>7. \E a, f \in Seq(PageId) : TwoLists(a, f) /\ ObjectsIn(a)
  <2>1. PICK a \in Seq(PageId) : Len(a) = 1 /\ a[1] = 1
    <3>1. <<1>> \in Seq(PageId) /\ Len(<<1>>) = 1 /\ <<1>>[1] = 1
      BY DEF PageId
    <3> QED
      BY <3>1
  <2>2. PICK f \in Seq(PageId) : Len(f) = 0
    <3>1. <<>> \in Seq(PageId) /\ Len(<<>>) = 0
      OBVIOUS
    <3> QED
      BY <3>1
  <2>3. Chain(head, a) /\ Chain(freeList, f)
    BY <1>1, <1>3, <2>1, <2>2 DEF Chain
  <2>4. DOMAIN pages = Elements(a) \cup Elements(f)
    BY <1>1, <2>1, <2>2 DEF Elements
  <2>5. \A i \in 1 .. Len(a), j \in 1 .. Len(f) : a[i] # f[j]
    BY <2>2
  <2>6. TwoLists(a, f)
    BY <1>1, <2>1, <2>3, <2>4, <2>5 DEF TwoLists
  <2>7. ObjectsIn(a)
    BY <1>1 DEF ObjectsIn
  <2> QED
    BY <2>6, <2>7
<1> QED
  BY <1>1, <1>4, <1>5, <1>6, <1>7 DEF ArenaInv

-----------------------------------------------------------------------------
(* What the steps do, without pages: the sizes of the objects there are,    *)
(* the bytes of the message that have not been read, and whether it is what *)
(* the host sends.                                                          *)
StepType ==
  [op : {"head", "read"}, bytes : Nat]
  \cup [op : {"fill", "write"}, bytes : Nat, object : Int, offset : Nat]
  \cup [op : {"alloc"}, bytes : Nat, align : Nat \ {0}]
  \cup {ThrowError}

State == [sizes : Seq(Nat), unread : Nat, sent : BOOLEAN]

Index(s, o) == IF o > 0 THEN o ELSE Len(s.sizes) + o
Inside(s, step) ==
  /\ Index(s, step.object) \in 1 .. Len(s.sizes)
  /\ step.offset + step.bytes <= s.sizes[Index(s, step.object)]

StepTaken(s, step, t) ==
  /\ t.sent = s.sent
  /\ step.op \in {"head", "read"} => t.sizes = s.sizes /\ s.unread = t.unread + step.bytes
  /\ step.op = "fill"  => t.sizes = s.sizes /\ s.unread = t.unread + step.bytes /\ Inside(s, step)
  /\ step.op = "write" => t = s /\ Inside(s, step)
  /\ step.op = "alloc" => t.sizes = Append(s.sizes, step.bytes) /\ t.unread = s.unread
  /\ step.op = "throw" => ~s.sent

(* The steps lead from s to t. *)
Run(s, steps, t, run) ==
  /\ run \in [1 .. Len(steps) + 1 -> State]
  /\ run[1] = s /\ run[Len(steps) + 1] = t
  /\ \A i \in 1 .. Len(steps) : StepTaken(run[i], steps[i], run[i + 1])
Executes(s, steps, t) == steps \in Seq(StepType) /\ \E run : Run(s, steps, t, run)

LEMMA StepTypes ==
  ASSUME NEW n \in Nat
  PROVE  /\ ReadHead(n) \in StepType /\ Read(n) \in StepType /\ ThrowError \in StepType
         /\ \A a \in Nat \ {0} : ArenaAlloc(n, a) \in StepType
         /\ \A o \in Int, f \in Nat : ReadInto(o, f, n) \in StepType /\ Write(o, f, n) \in StepType
<1>1. ReadHead(n) \in StepType /\ Read(n) \in StepType /\ ThrowError \in StepType
  BY DEF StepType, ReadHead, Read
<1>2. \A a \in Nat \ {0} : ArenaAlloc(n, a) \in StepType
  BY DEF StepType, ArenaAlloc
<1>3. \A o \in Int, f \in Nat : ReadInto(o, f, n) \in StepType /\ Write(o, f, n) \in StepType
  BY DEF StepType, ReadInto, Write
<1> QED
  BY <1>1, <1>2, <1>3

LEMMA NothingExecutes ==
  ASSUME NEW s \in State
  PROVE  Executes(s, <<>>, s)
<1> DEFINE run == [i \in 1 .. 1 |-> s]
<1>1. <<>> \in Seq(StepType) /\ Len(<<>>) = 0
  OBVIOUS
<1>2. Run(s, <<>>, s, run)
  BY <1>1 DEF Run
<1> QED
  BY <1>1, <1>2 DEF Executes

LEMMA ExecutedState ==
  ASSUME NEW s, NEW t, NEW steps, Executes(s, steps, t)
  PROVE  s \in State /\ t \in State /\ steps \in Seq(StepType)
<1>1. PICK run : Run(s, steps, t, run)
  BY DEF Executes
<1>2. steps \in Seq(StepType) /\ Len(steps) \in Nat
  BY DEF Executes
<1>3. 1 \in 1 .. Len(steps) + 1 /\ Len(steps) + 1 \in 1 .. Len(steps) + 1
  BY <1>2
<1> QED
  BY <1>1, <1>2, <1>3 DEF Run

LEMMA OneExecutes ==
  ASSUME NEW s \in State, NEW t \in State, NEW step \in StepType, StepTaken(s, step, t)
  PROVE  Executes(s, <<step>>, t)
<1> DEFINE run == [i \in 1 .. 2 |-> IF i = 1 THEN s ELSE t]
<1>1. <<step>> \in Seq(StepType) /\ Len(<<step>>) = 1 /\ <<step>>[1] = step
  OBVIOUS
<1>2. run \in [1 .. 2 -> State] /\ run[1] = s /\ run[2] = t
  OBVIOUS
<1> HIDE DEF run
<1>3. PICK steps : steps = <<step>>
  OBVIOUS
<1>4. /\ 1 .. Len(steps) + 1 = 1 .. 2 /\ Len(steps) + 1 = 2
      /\ \A i \in 1 .. Len(steps) : i = 1 /\ i + 1 = 2
  BY <1>1, <1>3
<1>5. Run(s, steps, t, run)
  BY <1>1, <1>2, <1>3, <1>4 DEF Run
<1> QED
  BY <1>1, <1>3, <1>5 DEF Executes

LEMMA ThenExecutes ==
  ASSUME NEW s, NEW u, NEW t, NEW p, NEW q, Executes(s, p, u), Executes(u, q, t)
  PROVE  Executes(s, p \o q, t)
<1>1. PICK r1 : Run(s, p, u, r1)
  BY DEF Executes
<1>2. PICK r2 : Run(u, q, t, r2)
  BY DEF Executes
<1>3. PICK m, n, pq : m = Len(p) /\ n = Len(q) /\ pq = p \o q
  OBVIOUS
<1>4. /\ m \in Nat /\ n \in Nat /\ pq \in Seq(StepType) /\ Len(pq) = m + n
      /\ \A i \in 1 .. m : pq[i] = p[i]
      /\ \A i \in 1 .. n : pq[m + i] = q[i]
  <2>1. p \in Seq(StepType) /\ q \in Seq(StepType)
    BY DEF Executes
  <2> QED
    BY <1>3, <2>1
<1>5. /\ r1 \in [1 .. m + 1 -> State] /\ r1[1] = s /\ r1[m + 1] = u
      /\ \A i \in 1 .. m : StepTaken(r1[i], p[i], r1[i + 1])
  BY <1>1, <1>3 DEF Run
<1>6. /\ r2 \in [1 .. n + 1 -> State] /\ r2[1] = u /\ r2[n + 1] = t
      /\ \A i \in 1 .. n : StepTaken(r2[i], q[i], r2[i + 1])
  BY <1>2, <1>3 DEF Run
<1> DEFINE run == [i \in 1 .. m + n + 1 |-> IF i <= m THEN r1[i] ELSE r2[i - m]]
<1>7. /\ \A i \in 1 .. m : i \in 1 .. m + n + 1 /\ run[i] = r1[i]
      /\ \A j \in 1 .. n + 1 : m + j \in 1 .. m + n + 1 /\ (m + j) - m = j /\ run[m + j] = r2[j]
  BY <1>4
<1>8. run \in [1 .. m + n + 1 -> State]
  BY <1>4, <1>5, <1>6
<1> HIDE DEF run
<1>9. \A i \in 1 .. m + 1 : run[i] = r1[i]
  <2>1. \A i \in 1 .. m + 1 : i \in 1 .. m \/ i = m + 1
    BY <1>4
  <2>2. 1 \in 1 .. n + 1 /\ run[m + 1] = r2[1]
    BY <1>4, <1>7
  <2> QED
    BY <1>5, <1>6, <1>7, <2>1, <2>2
<1>10. run[1] = s /\ run[m + n + 1] = t
  <2>1. 1 \in 1 .. m + 1 /\ n + 1 \in 1 .. n + 1 /\ m + (n + 1) = m + n + 1
    BY <1>4
  <2>2. run[m + (n + 1)] = r2[n + 1]
    BY <1>7, <2>1
  <2> QED
    BY <1>5, <1>6, <1>9, <2>1, <2>2
<1>11. ASSUME NEW i \in 1 .. m + n PROVE StepTaken(run[i], pq[i], run[i + 1])
  <2>1. CASE i <= m
    <3>1. i \in 1 .. m /\ i \in 1 .. m + 1 /\ i + 1 \in 1 .. m + 1
      BY <1>4, <2>1
    <3>2. run[i] = r1[i] /\ run[i + 1] = r1[i + 1] /\ pq[i] = p[i]
      BY <1>4, <1>9, <3>1
    <3> QED
      BY <1>5, <3>1, <3>2
  <2>2. CASE ~(i <= m)
    <3>1. PICK j : j = i - m
      OBVIOUS
    <3>2. /\ j \in 1 .. n /\ j \in 1 .. n + 1 /\ j + 1 \in 1 .. n + 1
          /\ i = m + j /\ i + 1 = m + (j + 1)
      BY <1>4, <2>2, <3>1
    <3>3. run[i] = r2[j] /\ run[i + 1] = r2[j + 1] /\ pq[i] = q[j]
      BY <1>4, <1>7, <3>2
    <3> QED
      BY <1>6, <3>2, <3>3
  <2> QED
    BY <2>1, <2>2
<1>12. Run(s, pq, t, run)
  BY <1>4, <1>8, <1>10, <1>11 DEF Run
<1> QED
  BY <1>3, <1>4, <1>12 DEF Executes

(* The first of the steps. *)
LEMMA FirstExecutes ==
  ASSUME NEW s, NEW t, NEW steps, Executes(s, steps, t), steps # <<>>
  PROVE  /\ steps[1] \in StepType
         /\ \E u \in State : StepTaken(s, steps[1], u) /\ Executes(u, Tail(steps), t)
<1>1. PICK run : Run(s, steps, t, run)
  BY DEF Executes
<1>2. PICK n : n = Len(steps) - 1
  OBVIOUS
<1>3. PICK rest : rest = Tail(steps)
  OBVIOUS
<1>4. /\ n \in Nat /\ Len(steps) = n + 1 /\ rest \in Seq(StepType) /\ Len(rest) = n
      /\ \A i \in 1 .. n : rest[i] = steps[i + 1] /\ i + 1 \in 1 .. Len(steps)
      /\ 1 \in 1 .. Len(steps) /\ steps[1] \in StepType
  <2>1. steps \in Seq(StepType) /\ Len(steps) # 0
    BY DEF Executes
  <2> QED
    BY <1>2, <1>3, <2>1
<1>5. /\ run \in [1 .. (n + 1) + 1 -> State] /\ run[1] = s /\ run[(n + 1) + 1] = t
      /\ \A i \in 1 .. n + 1 : StepTaken(run[i], steps[i], run[i + 1])
  BY <1>1, <1>4 DEF Run
<1> DEFINE later == [i \in 1 .. n + 1 |-> run[i + 1]]
<1>6. /\ later \in [1 .. n + 1 -> State] /\ later[1] = run[1 + 1] /\ later[n + 1] = t
      /\ \A i \in 1 .. n : later[i] = run[i + 1] /\ later[i + 1] = run[(i + 1) + 1]
  BY <1>4, <1>5
<1> HIDE DEF later
<1>7. \A i \in 1 .. n : StepTaken(later[i], rest[i], later[i + 1])
  <2>1. \A i \in 1 .. n : i + 1 \in 1 .. n + 1
    BY <1>4
  <2> QED
    BY <1>4, <1>5, <1>6, <2>1
<1>8. Run(later[1], rest, t, later)
  BY <1>4, <1>6, <1>7 DEF Run
<1>9. Executes(later[1], rest, t)
  BY <1>4, <1>8 DEF Executes
<1>10. later[1] \in State /\ StepTaken(s, steps[1], later[1])
  BY <1>4, <1>5, <1>6
<1> QED
  BY <1>3, <1>4, <1>9, <1>10

LEMMA NothingLeft ==
  ASSUME NEW s, NEW t, Executes(s, <<>>, t)
  PROVE  s = t
<1>1. PICK run : Run(s, <<>>, t, run)
  BY DEF Executes
<1>2. Len(<<>>) + 1 = 1
  OBVIOUS
<1> QED
  BY <1>1, <1>2 DEF Run

LEMMA StepThen ==
  ASSUME NEW s, NEW u, NEW t, NEW a, NEW b, NEW c, NEW d, NEW e, NEW f,
         Executes(s, <<a>>, u)
  PROVE  /\ Executes(u, <<b>>, t) => Executes(s, <<a, b>>, t)
         /\ Executes(u, <<b, c>>, t) => Executes(s, <<a, b, c>>, t)
         /\ Executes(u, <<b, c, d>>, t) => Executes(s, <<a, b, c, d>>, t)
         /\ Executes(u, <<b, c, d, e>>, t) => Executes(s, <<a, b, c, d, e>>, t)
         /\ Executes(u, <<b, c, d, e, f>>, t) => Executes(s, <<a, b, c, d, e, f>>, t)
<1>1. <<a, b>> = <<a>> \o <<b>>
  <2> DEFINE x == <<a, b>>  y == <<a>> \o <<b>>
  <2>1. /\ Len(x) = 2 /\ x[1] = a /\ x[2] = b /\ x \in Seq({a, b})
        /\ Len(y) = 2 /\ y[1] = a /\ y[2] = b /\ y \in Seq({a, b})
    OBVIOUS
  <2> HIDE DEF x, y
  <2>2. \A i \in 1 .. Len(x) : x[i] = y[i]
    BY <2>1
  <2>3. x = y
    BY <2>1, <2>2, SeqEqual
  <2> QED
    BY <2>3 DEF x, y
<1>2. <<a, b, c>> = <<a>> \o <<b, c>>
  OBVIOUS
<1>3. <<a, b, c, d>> = <<a>> \o <<b, c, d>>
  OBVIOUS
<1>4. <<a, b, c, d, e>> = <<a>> \o <<b, c, d, e>>
  OBVIOUS
<1>5. <<a, b, c, d, e, f>> = <<a>> \o <<b, c, d, e, f>>
  OBVIOUS
<1> QED
  BY <1>1, <1>2, <1>3, <1>4, <1>5, ThenExecutes

LEMMA FiveSteps ==
  ASSUME NEW s1, NEW s2, NEW s3, NEW s4, NEW s5, NEW s6,
         NEW a, NEW b, NEW c, NEW d, NEW e,
         Executes(s1, <<a>>, s2), Executes(s2, <<b>>, s3), Executes(s3, <<c>>, s4),
         Executes(s4, <<d>>, s5), Executes(s5, <<e>>, s6)
  PROVE  Executes(s1, <<a, b, c, d, e>>, s6)
<1>1. Executes(s4, <<d, e>>, s6)
  BY StepThen
<1>2. Executes(s3, <<c, d, e>>, s6)
  BY <1>1, StepThen
<1>3. Executes(s2, <<b, c, d, e>>, s6)
  BY <1>2, StepThen
<1> QED
  BY <1>3, StepThen

LEMMA SevenSteps ==
  ASSUME NEW s1, NEW s2, NEW s3, NEW s4, NEW s5, NEW s6, NEW s7, NEW s8,
         NEW a, NEW b, NEW c, NEW d, NEW e, NEW f, NEW g,
         Executes(s1, <<a>>, s2), Executes(s2, <<b>>, s3), Executes(s3, <<c>>, s4),
         Executes(s4, <<d>>, s5), Executes(s5, <<e>>, s6), Executes(s6, <<f>>, s7),
         Executes(s7, <<g>>, s8)
  PROVE  Executes(s1, <<a, b, c, d, e, f, g>>, s8)
<1>1. Executes(s6, <<f, g>>, s8)
  BY StepThen
<1>2. Executes(s5, <<e, f, g>>, s8)
  BY <1>1, StepThen
<1>3. Executes(s4, <<d, e, f, g>>, s8)
  BY <1>2, StepThen
<1>4. Executes(s3, <<c, d, e, f, g>>, s8)
  BY <1>3, StepThen
<1>5. Executes(s2, <<b, c, d, e, f, g>>, s8)
  BY <1>4, StepThen
<1>6. <<a, b, c, d, e, f, g>> = <<a>> \o <<b, c, d, e, f, g>>
  OBVIOUS
<1> QED
  BY <1>5, <1>6, ThenExecutes

-----------------------------------------------------------------------------
(* The state with objects of the sizes z and k bytes left; w: the message   *)
(* is what the host sends.  Each step on its own.                           *)
St(z, k, w) == [sizes |-> z, unread |-> k, sent |-> w]
Place(z, o) == IF o > 0 THEN o ELSE Len(z) + o

LEMMA StState ==
  ASSUME NEW z \in Seq(Nat), NEW k \in Nat, NEW w \in BOOLEAN
  PROVE  /\ St(z, k, w) \in State /\ St(z, k, w).sizes = z /\ St(z, k, w).unread = k
         /\ St(z, k, w).sent = w
BY DEF St, State

LEMMA ReadExecutes ==
  ASSUME NEW z \in Seq(Nat), NEW m \in Nat, NEW k \in Nat, NEW w \in BOOLEAN, NEW n \in Nat, m = k + n
  PROVE  /\ Executes(St(z, m, w), <<Read(n)>>, St(z, k, w))
         /\ Executes(St(z, m, w), <<ReadHead(n)>>, St(z, k, w))
<1>1. /\ St(z, k, w) \in State /\ St(z, k, w).sizes = z /\ St(z, k, w).unread = k
      /\ St(z, k, w).sent = w
      /\ St(z, m, w) \in State /\ St(z, m, w).sizes = z /\ St(z, m, w).unread = m
      /\ St(z, m, w).sent = w
  BY StState
<1>2. StepTaken(St(z, m, w), Read(n), St(z, k, w)) /\ StepTaken(St(z, m, w), ReadHead(n), St(z, k, w))
  BY <1>1 DEF StepTaken, Read, ReadHead
<1>3. Read(n) \in StepType /\ ReadHead(n) \in StepType
  BY StepTypes
<1> QED
  BY <1>1, <1>2, <1>3, OneExecutes

(* Bytes that are in the object they are meant for. *)
Holds(z, o, x, n) == Place(z, o) \in 1 .. Len(z) /\ x + n <= z[Place(z, o)]

LEMMA FillExecutes ==
  ASSUME NEW z \in Seq(Nat), NEW m \in Nat, NEW k \in Nat, NEW w \in BOOLEAN, NEW n \in Nat,
         NEW o \in Int, NEW x \in Nat, Holds(z, o, x, n), m = k + n
  PROVE  Executes(St(z, m, w), <<ReadInto(o, x, n)>>, St(z, k, w))
<1>1. /\ St(z, k, w) \in State /\ St(z, k, w).sizes = z /\ St(z, k, w).unread = k
      /\ St(z, k, w).sent = w
      /\ St(z, m, w) \in State /\ St(z, m, w).sizes = z /\ St(z, m, w).unread = m
      /\ St(z, m, w).sent = w
  BY StState
<1>2. Index(St(z, m, w), o) = Place(z, o)
  BY <1>1 DEF Index, Place
<1>3. Inside(St(z, m, w), ReadInto(o, x, n))
  BY <1>1, <1>2 DEF Inside, ReadInto, Holds
<1>4. StepTaken(St(z, m, w), ReadInto(o, x, n), St(z, k, w))
  BY <1>1, <1>3 DEF StepTaken, ReadInto
<1>5. ReadInto(o, x, n) \in StepType
  BY StepTypes
<1> QED
  BY <1>1, <1>4, <1>5, OneExecutes

LEMMA WriteExecutes ==
  ASSUME NEW z \in Seq(Nat), NEW k \in Nat, NEW w \in BOOLEAN, NEW n \in Nat,
         NEW o \in Int, NEW x \in Nat, Holds(z, o, x, n)
  PROVE  Executes(St(z, k, w), <<Write(o, x, n)>>, St(z, k, w))
<1>1. /\ St(z, k, w) \in State /\ St(z, k, w).sizes = z /\ St(z, k, w).unread = k
      /\ St(z, k, w).sent = w
  BY StState
<1>2. Index(St(z, k, w), o) = Place(z, o)
  BY <1>1 DEF Index, Place
<1>3. Inside(St(z, k, w), Write(o, x, n))
  BY <1>1, <1>2 DEF Inside, Write, Holds
<1>4. StepTaken(St(z, k, w), Write(o, x, n), St(z, k, w))
  BY <1>1, <1>3 DEF StepTaken, Write
<1>5. Write(o, x, n) \in StepType
  BY StepTypes
<1> QED
  BY <1>1, <1>4, <1>5, OneExecutes

LEMMA AllocExecutes ==
  ASSUME NEW z \in Seq(Nat), NEW k \in Nat, NEW w \in BOOLEAN, NEW n \in Nat, NEW a \in Nat \ {0}
  PROVE  Executes(St(z, k, w), <<ArenaAlloc(n, a)>>, St(Append(z, n), k, w))
<1>1. PICK y \in Seq(Nat) : y = Append(z, n)
  <2>1. Append(z, n) \in Seq(Nat)
    OBVIOUS
  <2> QED
    BY <2>1
<1>2. /\ St(z, k, w) \in State /\ St(z, k, w).sizes = z /\ St(z, k, w).unread = k
      /\ St(z, k, w).sent = w
      /\ St(y, k, w) \in State /\ St(y, k, w).sizes = y /\ St(y, k, w).unread = k
      /\ St(y, k, w).sent = w
  BY StState
<1>3. StepTaken(St(z, k, w), ArenaAlloc(n, a), St(y, k, w))
  BY <1>1, <1>2 DEF StepTaken, ArenaAlloc
<1>4. ArenaAlloc(n, a) \in StepType
  BY StepTypes
<1> QED
  BY <1>1, <1>2, <1>3, <1>4, OneExecutes

LEMMA ThrowExecutes ==
  ASSUME NEW z \in Seq(Nat), NEW k \in Nat, NEW m \in Nat, NEW w \in BOOLEAN, ~w
  PROVE  Executes(St(z, k, w), <<ThrowError>>, St(z, m, w))
<1>1. /\ St(z, k, w) \in State /\ St(z, k, w).sent = w
      /\ St(z, m, w) \in State /\ St(z, m, w).sent = w
  BY StState
<1>2. StepTaken(St(z, k, w), ThrowError, St(z, m, w))
  BY <1>1 DEF StepTaken, ThrowError
<1>3. ThrowError \in StepType
  BY StepTypes
<1> QED
  BY <1>1, <1>2, <1>3, OneExecutes

(* The fields of a tensor, whose object is the latest. *)
LEMMA TensorExecutes ==
  ASSUME NEW z \in Seq(Nat), NEW k \in Nat, NEW w \in BOOLEAN, NEW n \in Nat,
         Len(z) > 0, z[Len(z)] = 40
  PROVE  Executes(St(z, k + 8 + 8 * n + 16, w), TensorFields(n), St(Append(z, 8 * n), k, w))
<1>1. PICK b \in Nat : b = 8 * n
  OBVIOUS
<1>2. PICK y \in Seq(Nat) : y = Append(z, b)
  <2>1. Append(z, b) \in Seq(Nat)
    OBVIOUS
  <2> QED
    BY <2>1
<1>3. PICK l \in Nat : l = Len(z)
  OBVIOUS
<1>4. /\ l \in 1 .. l /\ z[l] = 40 /\ Len(y) = l + 1 /\ y[l] = 40 /\ y[l + 1] = b
  BY <1>2, <1>3
<1>5. Place(z, 0) = l /\ Place(y, 0) = l + 1 /\ Place(y, -1) = l
  BY <1>3, <1>4 DEF Place
<1>6. /\ Holds(z, 0, 0, 4) /\ Holds(z, 0, 4, 16)
      /\ Holds(y, -1, 20, 4) /\ Holds(y, 0, 0, b) /\ Holds(y, -1, 24, 4) /\ Holds(y, -1, 32, 8)
  BY <1>3, <1>4, <1>5 DEF Holds
<1>7. PICK k1 \in Nat : k1 = k + 8
  OBVIOUS
<1>8. PICK k2 \in Nat : k2 = k1 + b
  OBVIOUS
<1>9. PICK k3 \in Nat : k3 = k2 + 16
  OBVIOUS
<1>10. k3 = k + 8 + 8 * n + 16
  BY <1>1, <1>7, <1>8, <1>9
<1>11. /\ 0 \in Int /\ -1 \in Int /\ 0 \in Nat /\ 4 \in Nat /\ 16 \in Nat /\ 20 \in Nat /\ 24 \in Nat
       /\ 32 \in Nat /\ 8 \in Nat /\ 8 \in Nat \ {0}
  OBVIOUS
<1>12. /\ Executes(St(z, k3, w), <<Write(0, 0, 4)>>, St(z, k3, w))
       /\ Executes(St(y, k2, w), <<Write(-1, 20, 4)>>, St(y, k2, w))
       /\ Executes(St(y, k1, w), <<Write(-1, 24, 4)>>, St(y, k1, w))
  BY <1>6, <1>11, WriteExecutes
<1>13. /\ Executes(St(z, k3, w), <<ReadInto(0, 4, 16)>>, St(z, k2, w))
       /\ Executes(St(y, k2, w), <<ReadInto(0, 0, b)>>, St(y, k1, w))
       /\ Executes(St(y, k1, w), <<ReadInto(-1, 32, 8)>>, St(y, k, w))
  BY <1>6, <1>7, <1>8, <1>9, <1>11, FillExecutes
<1>14. Executes(St(z, k2, w), <<ArenaAlloc(b, 8)>>, St(y, k2, w))
  BY <1>2, <1>11, AllocExecutes
<1>15. Executes(St(z, k3, w),
                <<Write(0, 0, 4), ReadInto(0, 4, 16), ArenaAlloc(b, 8), Write(-1, 20, 4),
                  ReadInto(0, 0, b), Write(-1, 24, 4), ReadInto(-1, 32, 8)>>, St(y, k, w))
  BY <1>12, <1>13, <1>14, SevenSteps
<1> QED
  BY <1>1, <1>2, <1>10, <1>15 DEF TensorFields

-----------------------------------------------------------------------------
(* RecvPackedSeq.  The steps for a value read what was sent of it, and find *)
(* the array that is object o as it was.                                    *)
ArgType == [type : ValueType, length : Nat]
Grown(z, y, o) == y \in Seq(Nat) /\ Len(z) <= Len(y) /\ y[o] = z[o]

LEMMA AppendGrows ==
  ASSUME NEW z \in Seq(Nat), NEW n \in Nat, NEW o \in 1 .. Len(z)
  PROVE  /\ Append(z, n) \in Seq(Nat) /\ Len(Append(z, n)) = Len(z) + 1
         /\ Append(z, n)[Len(z) + 1] = n /\ \A i \in 1 .. Len(z) : Append(z, n)[i] = z[i]
         /\ Grown(z, Append(z, n), o)
<1>1. /\ Append(z, n) \in Seq(Nat) /\ Len(Append(z, n)) = Len(z) + 1
      /\ Append(z, n)[Len(z) + 1] = n /\ \A i \in 1 .. Len(z) : Append(z, n)[i] = z[i]
  OBVIOUS
<1> QED
  BY <1>1 DEF Grown

LEMMA ValueExecutes ==
  ASSUME NEW z \in Seq(Nat), NEW k \in Nat, NEW w \in BOOLEAN,
         NEW o \in 1 .. Len(z), NEW i \in Nat \ {0}, 8 * i <= z[o],
         NEW v \in ArgType, v.type = "unknown" => ~w
  PROVE  /\ ValueBytes(v) \in Nat
         /\ \E y \in Seq(Nat) : /\ Grown(z, y, o)
                                /\ Executes(St(z, k + ValueBytes(v), w), ReceiveValue(v, i, o), St(y, k, w))
<1> DEFINE offset == 8 * (i - 1)
           pointer == <<Write(o, offset, 4)>>
<1>1. offset \in Nat /\ o \in Int /\ o > 0 /\ Grown(z, z, o) /\ v.length \in Nat /\ v.type \in ValueType
  BY DEF Grown, ArgType
<1>2. ASSUME NEW y \in Seq(Nat), Grown(z, y, o)
      PROVE  Executes(St(y, k, w), pointer, St(y, k, w))
  <2>1. Holds(y, o, offset, 4)
    BY <1>1, <1>2 DEF Holds, Place, Grown
  <2> HIDE DEF offset
  <2> QED
    BY <1>1, <2>1, WriteExecutes
<1>3. PICK m \in Nat : m = k + 8
  OBVIOUS
<1>4. Executes(St(z, m, w), <<Read(8)>>, St(z, k, w))
  BY <1>3, ReadExecutes
<1>5. CASE v.type \in Numbers \ {"datatype"}
  <2>1. ValueBytes(v) = 8 /\ ReceiveValue(v, i, o) = <<ReadInto(o, offset, 8)>>
    BY <1>5 DEF ValueBytes, ReceiveValue, Numbers, Handles, Texts
  <2>2. Holds(z, o, offset, 8)
    BY <1>1 DEF Holds, Place
  <2> HIDE DEF offset, pointer
  <2>3. Executes(St(z, m, w), <<ReadInto(o, offset, 8)>>, St(z, k, w))
    BY <1>1, <1>3, <2>2, FillExecutes
  <2> QED
    BY <1>1, <1>3, <2>1, <2>3
<1>6. CASE v.type = "datatype"
  <2>1. ValueBytes(v) = 8 /\ ReceiveValue(v, i, o) = <<ReadInto(o, offset, 4), Read(4)>>
    BY <1>6 DEF ValueBytes, ReceiveValue, Numbers, Handles, Texts
  <2>2. Holds(z, o, offset, 4)
    BY <1>1 DEF Holds, Place
  <2> HIDE DEF offset, pointer
  <2>3. PICK l \in Nat : l = k + 4 /\ m = l + 4
    BY <1>3
  <2>4. Executes(St(z, m, w), <<ReadInto(o, offset, 4)>>, St(z, l, w))
    BY <1>1, <2>2, <2>3, FillExecutes
  <2>5. Executes(St(z, l, w), <<Read(4)>>, St(z, k, w))
    BY <2>3, ReadExecutes
  <2>6. Executes(St(z, m, w), <<ReadInto(o, offset, 4), Read(4)>>, St(z, k, w))
    BY <2>4, <2>5, StepThen
  <2> QED
    BY <1>1, <1>3, <2>1, <2>6
<1>7. CASE v.type \in Handles
  <2>1. ValueBytes(v) = 8 /\ ReceiveValue(v, i, o) = <<Read(8)>> \o pointer
    BY <1>7 DEF ValueBytes, ReceiveValue, Numbers, Handles, Texts
  <2>2. Executes(St(z, k, w), pointer, St(z, k, w))
    BY <1>1, <1>2
  <2> HIDE DEF offset, pointer
  <2>3. Executes(St(z, m, w), <<Read(8)>> \o pointer, St(z, k, w))
    BY <1>4, <2>2, ThenExecutes
  <2> QED
    BY <1>1, <1>3, <2>1, <2>3
<1>8. CASE v.type = "null"
  <2>1. ValueBytes(v) = 0 /\ ReceiveValue(v, i, o) = pointer
    BY <1>8 DEF ValueBytes, ReceiveValue, Handles, Numbers, Texts
  <2>2. Executes(St(z, k, w), pointer, St(z, k, w))
    BY <1>1, <1>2
  <2> HIDE DEF offset, pointer
  <2> QED
    BY <1>1, <2>1, <2>2
<1>9. CASE v.type = "str"
  <2>1. PICK n \in Nat : n = v.length
    BY <1>1
  <2>0. PICK b \in Nat : b = n + 1
    OBVIOUS
  <2>2. /\ ValueBytes(v) = 8 + n
        /\ ReceiveValue(v, i, o) = <<Read(8), ArenaAlloc(b, 1), Write(0, n, 1), ReadInto(0, 0, n)>> \o pointer
    BY <1>9, <2>0, <2>1 DEF ValueBytes, ReceiveValue, Handles, Numbers, Texts, StringSize
  <2>3. PICK l \in Nat, j \in Nat : l = k + n /\ j = l + 8
    BY <2>1
  <2>4. PICK y \in Seq(Nat) : y = Append(z, b)
    BY AppendGrows
  <2>5. Grown(z, y, o) /\ Len(y) = Len(z) + 1 /\ y[Len(z) + 1] = n + 1
    BY <2>0, <2>4, AppendGrows
  <2>6. Holds(y, 0, n, 1) /\ Holds(y, 0, 0, n)
    BY <2>5 DEF Holds, Place
  <2>7. Executes(St(y, k, w), pointer, St(y, k, w))
    BY <1>2, <2>5
  <2> HIDE DEF offset, pointer
  <2>8. Executes(St(z, j, w), <<Read(8)>>, St(z, l, w))
    BY <2>3, ReadExecutes
  <2>9. Executes(St(z, l, w), <<ArenaAlloc(b, 1)>>, St(y, l, w))
    BY <2>4, AllocExecutes
  <2>10. Executes(St(y, l, w), <<Write(0, n, 1)>>, St(y, l, w))
    BY <2>6, WriteExecutes
  <2>11. Executes(St(y, l, w), <<ReadInto(0, 0, n)>>, St(y, k, w))
    BY <2>3, <2>6, FillExecutes
  <2>12. Executes(St(y, l, w), <<Write(0, n, 1), ReadInto(0, 0, n)>>, St(y, k, w))
    BY <2>10, <2>11, StepThen
  <2>13. Executes(St(z, l, w), <<ArenaAlloc(b, 1), Write(0, n, 1), ReadInto(0, 0, n)>>, St(y, k, w))
    BY <2>9, <2>12, StepThen
  <2>14. Executes(St(z, j, w), <<Read(8), ArenaAlloc(b, 1), Write(0, n, 1), ReadInto(0, 0, n)>>, St(y, k, w))
    <3>1. <<Read(8), ArenaAlloc(b, 1), Write(0, n, 1), ReadInto(0, 0, n)>>
          = <<Read(8)>> \o <<ArenaAlloc(b, 1), Write(0, n, 1), ReadInto(0, 0, n)>>
      OBVIOUS
    <3> QED
      BY <2>8, <2>13, <3>1, ThenExecutes
  <2>15. Executes(St(z, j, w), ReceiveValue(v, i, o), St(y, k, w))
    BY <2>2, <2>7, <2>14, ThenExecutes
  <2>16. k + ValueBytes(v) = j /\ ValueBytes(v) \in Nat
    BY <2>2, <2>3
  <2> QED
    BY <2>5, <2>15, <2>16
<1>10. CASE v.type = "bytes"
  <2>1. PICK n \in Nat : n = v.length
    BY <1>1
  <2>2. /\ ValueBytes(v) = 8 + n
        /\ ReceiveValue(v, i, o) = <<Read(8), ArenaAlloc(8, 4), ArenaAlloc(n, 1),
                                     Write(-1, 0, 8), ReadInto(0, 0, n)>> \o pointer
    BY <1>10, <2>1 DEF ValueBytes, ReceiveValue, Handles, Numbers, Texts
  <2>3. PICK l \in Nat, j \in Nat : l = k + n /\ j = l + 8
    BY <2>1
  <2>4. PICK x \in Seq(Nat) : x = Append(z, 8)
    BY AppendGrows
  <2>5. Grown(z, x, o) /\ Len(x) = Len(z) + 1 /\ x[Len(z) + 1] = 8 /\ o \in 1 .. Len(x)
    BY <2>4, AppendGrows
  <2>6. PICK y \in Seq(Nat) : y = Append(x, n)
    BY <2>5, AppendGrows
  <2>7. Grown(x, y, o) /\ Len(y) = Len(x) + 1 /\ y[Len(x) + 1] = n /\ \A e \in 1 .. Len(x) : y[e] = x[e]
    <3>1. o \in 1 .. Len(x) /\ x \in Seq(Nat)
      BY <2>5
    <3> QED
      BY <2>6, <3>1, AppendGrows
  <2>8. Grown(z, y, o)
    BY <2>5, <2>7 DEF Grown
  <2>9. Holds(y, -1, 0, 8) /\ Holds(y, 0, 0, n)
    <3>1. PICK e \in Nat : e = Len(z) + 1
      OBVIOUS
    <3>2. Len(x) = e /\ e \in 1 .. Len(x) /\ Len(y) = e + 1 /\ y[e] = 8 /\ y[e + 1] = n
      <4>1. Len(x) = e /\ x[e] = 8
        BY <2>5, <3>1
      <4>2. e \in 1 .. Len(x)
        BY <3>1, <4>1
      <4>3. y[e] = x[e] /\ Len(y) = e + 1 /\ y[e + 1] = n
        BY <2>7, <4>1, <4>2
      <4> QED
        BY <4>1, <4>2, <4>3
    <3>3. Place(y, -1) = e /\ Place(y, 0) = e + 1
      BY <3>2 DEF Place
    <3> QED
      BY <3>2, <3>3 DEF Holds
  <2>10. Executes(St(y, k, w), pointer, St(y, k, w))
    BY <1>2, <2>8
  <2> HIDE DEF offset, pointer
  <2>11. Executes(St(z, j, w), <<Read(8)>>, St(z, l, w))
    BY <2>3, ReadExecutes
  <2>12. Executes(St(z, l, w), <<ArenaAlloc(8, 4)>>, St(x, l, w))
    BY <2>4, AllocExecutes
  <2>13. Executes(St(x, l, w), <<ArenaAlloc(n, 1)>>, St(y, l, w))
    BY <2>6, AllocExecutes
  <2>14. Executes(St(y, l, w), <<Write(-1, 0, 8)>>, St(y, l, w))
    BY <2>9, WriteExecutes
  <2>15. Executes(St(y, l, w), <<ReadInto(0, 0, n)>>, St(y, k, w))
    BY <2>3, <2>9, FillExecutes
  <2>19. Executes(St(z, j, w), <<Read(8), ArenaAlloc(8, 4), ArenaAlloc(n, 1), Write(-1, 0, 8),
                                 ReadInto(0, 0, n)>>, St(y, k, w))
    BY <2>11, <2>12, <2>13, <2>14, <2>15, FiveSteps
  <2>20. Executes(St(z, j, w), ReceiveValue(v, i, o), St(y, k, w))
    BY <2>2, <2>10, <2>19, ThenExecutes
  <2>21. k + ValueBytes(v) = j /\ ValueBytes(v) \in Nat
    BY <2>2, <2>3
  <2> QED
    BY <2>8, <2>20, <2>21
<1>11. CASE v.type = "tensor"
  <2>1. PICK n \in Nat : n = v.length
    BY <1>1
  <2>2. /\ ValueBytes(v) = 8 + 16 + (8 * n) + 8
        /\ ReceiveValue(v, i, o) = <<Read(8), ArenaAlloc(40, 8)>> \o TensorFields(n) \o pointer
    BY <1>11, <2>1 DEF ValueBytes, ReceiveValue, Handles, Numbers, Texts, TensorBytes
  <2>3. PICK l \in Nat, j \in Nat : l = k + 8 + 8 * n + 16 /\ j = l + 8
    <3>1. PICK c \in Nat : c = 8 * n
      BY <2>1
    <3> QED
      BY <3>1
  <2>4. PICK x \in Seq(Nat) : x = Append(z, 40)
    BY AppendGrows
  <2>5. Grown(z, x, o) /\ Len(x) = Len(z) + 1 /\ x[Len(z) + 1] = 40 /\ o \in 1 .. Len(x)
    BY <2>4, AppendGrows
  <2>6. PICK b \in Nat, y \in Seq(Nat) : b = 8 * n /\ y = Append(x, b)
    <3>1. PICK b \in Nat : b = 8 * n
      OBVIOUS
    <3>2. Append(x, b) \in Seq(Nat)
      BY <2>5, AppendGrows
    <3> QED
      BY <3>1, <3>2
  <2>7. Grown(x, y, o)
    BY <2>5, <2>6, AppendGrows
  <2>8. Grown(z, y, o)
    BY <2>5, <2>7 DEF Grown
  <2>9. Executes(St(y, k, w), pointer, St(y, k, w))
    BY <1>2, <2>8
  <2> HIDE DEF offset, pointer
  <2>10. Executes(St(z, j, w), <<Read(8)>>, St(z, l, w))
    BY <2>3, ReadExecutes
  <2>11. Executes(St(z, l, w), <<ArenaAlloc(40, 8)>>, St(x, l, w))
    BY <2>4, AllocExecutes
  <2>12. Executes(St(z, j, w), <<Read(8), ArenaAlloc(40, 8)>>, St(x, l, w))
    BY <2>10, <2>11, StepThen
  <2>13. Executes(St(x, l, w), TensorFields(n), St(y, k, w))
    <3>1. Len(x) > 0 /\ x[Len(x)] = 40
      BY <2>5
    <3> QED
      BY <2>3, <2>6, <3>1, TensorExecutes
  <2>14. Executes(St(z, j, w), <<Read(8), ArenaAlloc(40, 8)>> \o TensorFields(n), St(y, k, w))
    BY <2>12, <2>13, ThenExecutes
  <2>15. Executes(St(z, j, w), ReceiveValue(v, i, o), St(y, k, w))
    BY <2>2, <2>9, <2>14, ThenExecutes
  <2>16. k + ValueBytes(v) = j /\ ValueBytes(v) \in Nat
    BY <2>2, <2>3
  <2> QED
    BY <2>8, <2>15, <2>16
<1>12. CASE v.type = "unknown"
  <2>1. ValueBytes(v) = 0 /\ ReceiveValue(v, i, o) = <<ThrowError>>
    BY <1>12 DEF ValueBytes, ReceiveValue, Handles, Numbers, Texts
  <2>2. Executes(St(z, k, w), <<ThrowError>>, St(z, k, w))
    BY <1>12, ThrowExecutes
  <2> QED
    BY <1>1, <2>1, <2>2
<1> QED
  <2>1. \/ v.type \in Numbers \ {"datatype"} \/ v.type = "datatype" \/ v.type \in Handles
        \/ v.type = "null" \/ v.type = "str" \/ v.type = "bytes" \/ v.type = "tensor"
        \/ v.type = "unknown"
    BY <1>1 DEF ValueType, Numbers, Handles, Texts
  <2> QED
    BY <1>5, <1>6, <1>7, <1>8, <1>9, <1>10, <1>11, <1>12, <2>1

(* BytesUpTo and StepsUpTo obey their definitions. *)
BytesRule(values, f, n) == IF n = 0 THEN 4 ELSE f[n - 1] + 4 + ValueBytes(values[n])
BytesDefine(values, f, m) == f = [n \in 0 .. m |-> BytesRule(values, f, n)]

LEMMA BytesUpToDefined ==
  ASSUME NEW values \in Seq(ArgType)
  PROVE  \A n \in 0 .. Len(values) : BytesUpTo(values)[n] = BytesRule(values, BytesUpTo(values), n)
<1> DEFINE P == {m \in Nat : \E f : BytesDefine(values, f, m)}
<1>1. 0 \in P
  <2> DEFINE f == [n \in 0 .. 0 |-> 4]
  <2>1. \A n \in 0 .. 0 : f[n] = BytesRule(values, f, n)
    BY DEF BytesRule
  <2> HIDE DEF f
  <2>2. f = [n \in 0 .. 0 |-> BytesRule(values, f, n)]
    BY <2>1 DEF f
  <2> QED
    BY <2>2 DEF BytesDefine
<1>2. ASSUME NEW m \in Nat, m \in P PROVE m + 1 \in P
  <2>1. PICK g : BytesDefine(values, g, m)
    BY <1>2
  <2> DEFINE f == [n \in 0 .. m + 1 |-> IF n <= m THEN g[n] ELSE BytesRule(values, g, m + 1)]
  <2>2. \A n \in 0 .. m : g[n] = BytesRule(values, g, n)
    <3>1. g = [n \in 0 .. m |-> BytesRule(values, g, n)]
      BY <2>1 DEF BytesDefine
    <3> QED
      BY <3>1
  <2>3. \A n \in 0 .. m : f[n] = g[n]
    OBVIOUS
  <2>4. f[m + 1] = BytesRule(values, g, m + 1)
    OBVIOUS
  <2> HIDE DEF f
  <2>5. ASSUME NEW n \in 0 .. m + 1 PROVE f[n] = BytesRule(values, f, n)
    <3>1. CASE n = 0
      BY <2>2, <2>3, <3>1 DEF BytesRule
    <3>2. CASE n # 0
      <4>1. n - 1 \in 0 .. m /\ (n = m + 1 \/ n \in 0 .. m)
        BY <3>2
      <4>2. f[n - 1] = g[n - 1]
        BY <2>3, <4>1
      <4>3. BytesRule(values, f, n) = BytesRule(values, g, n)
        BY <3>2, <4>2 DEF BytesRule
      <4> QED
        BY <2>2, <2>3, <2>4, <4>1, <4>3
    <3> QED
      BY <3>1, <3>2
  <2>6. f = [n \in 0 .. m + 1 |-> BytesRule(values, f, n)]
    BY <2>5 DEF f
  <2> QED
    BY <2>6 DEF BytesDefine
<1> HIDE DEF P
<1>3. Len(values) \in P
  BY <1>1, <1>2, SetInduction
<1>4. BytesUpTo(values) = CHOOSE f : BytesDefine(values, f, Len(values))
  BY DEF BytesUpTo, BytesDefine, BytesRule
<1>5. BytesDefine(values, BytesUpTo(values), Len(values))
  BY <1>3, <1>4 DEF P
<1>6. PICK f : f = BytesUpTo(values)
  OBVIOUS
<1>7. f = [n \in 0 .. Len(values) |-> BytesRule(values, f, n)]
  BY <1>5, <1>6 DEF BytesDefine
<1> QED
  BY <1>6, <1>7


StepsRule(values, o, f, n) == IF n = 0 THEN <<>> ELSE f[n - 1] \o ReceiveValue(values[n], n, o)
StepsDefine(values, o, f, m) == f = [n \in 0 .. m |-> StepsRule(values, o, f, n)]

LEMMA StepsUpToDefined ==
  ASSUME NEW values \in Seq(ArgType), NEW o
  PROVE  \A n \in 0 .. Len(values) : StepsUpTo(values, o)[n] = StepsRule(values, o, StepsUpTo(values, o), n)
<1> DEFINE P == {m \in Nat : \E f : StepsDefine(values, o, f, m)}
<1>1. 0 \in P
  <2> DEFINE f == [n \in 0 .. 0 |-> <<>>]
  <2>1. \A n \in 0 .. 0 : f[n] = StepsRule(values, o, f, n)
    BY DEF StepsRule
  <2> HIDE DEF f
  <2>2. f = [n \in 0 .. 0 |-> StepsRule(values, o, f, n)]
    BY <2>1 DEF f
  <2> QED
    BY <2>2 DEF StepsDefine
<1>2. ASSUME NEW m \in Nat, m \in P PROVE m + 1 \in P
  <2>1. PICK g : StepsDefine(values, o, g, m)
    BY <1>2
  <2> DEFINE f == [n \in 0 .. m + 1 |-> IF n <= m THEN g[n] ELSE StepsRule(values, o, g, m + 1)]
  <2>2. \A n \in 0 .. m : g[n] = StepsRule(values, o, g, n)
    <3>1. g = [n \in 0 .. m |-> StepsRule(values, o, g, n)]
      BY <2>1 DEF StepsDefine
    <3> QED
      BY <3>1
  <2>3. \A n \in 0 .. m : f[n] = g[n]
    OBVIOUS
  <2>4. f[m + 1] = StepsRule(values, o, g, m + 1)
    OBVIOUS
  <2> HIDE DEF f
  <2>5. ASSUME NEW n \in 0 .. m + 1 PROVE f[n] = StepsRule(values, o, f, n)
    <3>1. CASE n = 0
      BY <2>2, <2>3, <3>1 DEF StepsRule
    <3>2. CASE n # 0
      <4>1. n - 1 \in 0 .. m /\ (n = m + 1 \/ n \in 0 .. m)
        BY <3>2
      <4>2. f[n - 1] = g[n - 1]
        BY <2>3, <4>1
      <4>3. StepsRule(values, o, f, n) = StepsRule(values, o, g, n)
        BY <3>2, <4>2 DEF StepsRule
      <4> QED
        BY <2>2, <2>3, <2>4, <4>1, <4>3
    <3> QED
      BY <3>1, <3>2
  <2>6. f = [n \in 0 .. m + 1 |-> StepsRule(values, o, f, n)]
    BY <2>5 DEF f
  <2> QED
    BY <2>6 DEF StepsDefine
<1> HIDE DEF P
<1>3. Len(values) \in P
  BY <1>1, <1>2, SetInduction
<1>4. StepsUpTo(values, o) = CHOOSE f : StepsDefine(values, o, f, Len(values))
  BY DEF StepsUpTo, StepsDefine, StepsRule
<1>5. StepsDefine(values, o, StepsUpTo(values, o), Len(values))
  BY <1>3, <1>4 DEF P
<1>6. PICK f : f = StepsUpTo(values, o)
  OBVIOUS
<1>7. f = [n \in 0 .. Len(values) |-> StepsRule(values, o, f, n)]
  BY <1>5, <1>6 DEF StepsDefine
<1> QED
  BY <1>6, <1>7

(* The steps read c bytes. *)
Reads(z, w, steps, c) ==
  \A k \in Nat : \E y \in Seq(Nat) : Executes(St(z, k + c, w), steps, St(y, k, w))
ReadsBeside(z, o, w, steps, c) ==
  \A k \in Nat : \E y \in Seq(Nat) : Grown(z, y, o) /\ Executes(St(z, k + c, w), steps, St(y, k, w))

Known(values, w) == \A i \in 1 .. Len(values) : values[i].type = "unknown" => ~w

Array(z, o, values) == z[o] = 8 * Len(values)

ValuesRead(values, z, o, w) ==
  \E c \in Nat : /\ SendPackedSeq(values) = 4 + 4 * Len(values) + c
                 /\ ReadsBeside(z, o, w, StepsUpTo(values, o)[Len(values)], c)

LEMMA ValuesExecute ==
  ASSUME NEW values \in Seq(ArgType), NEW z \in Seq(Nat), NEW o \in 1 .. Len(z),
         Array(z, o, values), NEW w \in BOOLEAN,
         Known(values, w)
  PROVE  ValuesRead(values, z, o, w)
<1>1. PICK l \in Nat : l = Len(values)
  OBVIOUS
<1>2. PICK b, s : b = BytesUpTo(values) /\ s = StepsUpTo(values, o)
  OBVIOUS
<1>3. \A n \in 0 .. l : /\ b[n] = IF n = 0 THEN 4 ELSE b[n - 1] + 4 + ValueBytes(values[n])
                        /\ s[n] = IF n = 0 THEN <<>> ELSE s[n - 1] \o ReceiveValue(values[n], n, o)
  <2>1. \A n \in 0 .. l : b[n] = BytesRule(values, b, n)
    BY <1>1, <1>2, BytesUpToDefined
  <2>2. \A n \in 0 .. l : s[n] = StepsRule(values, o, s, n)
    BY <1>1, <1>2, StepsUpToDefined
  <2> QED
    BY <2>1, <2>2 DEF BytesRule, StepsRule
<1> DEFINE P == {n \in Nat : n <= l => \E c \in Nat : /\ b[n] = 4 + 4 * n + c
                                                     /\ ReadsBeside(z, o, w, s[n], c)}
<1>4. 0 \in P
  <2>1. b[0] = 4 /\ s[0] = <<>>
    BY <1>3
  <2>2. ReadsBeside(z, o, w, <<>>, 0)
    <3>1. ASSUME NEW k \in Nat PROVE Grown(z, z, o) /\ Executes(St(z, k + 0, w), <<>>, St(z, k, w))
      <4>1. St(z, k, w) \in State
        BY StState
      <4>2. Executes(St(z, k, w), <<>>, St(z, k, w))
        BY <4>1, NothingExecutes
      <4>3. k + 0 = k
        OBVIOUS
      <4> QED
        BY <4>2, <4>3 DEF Grown
    <3> QED
      BY <3>1 DEF ReadsBeside
  <2> QED
    BY <2>1, <2>2
<1>5. ASSUME NEW n \in Nat, n \in P PROVE n + 1 \in P
  <2> SUFFICES ASSUME n + 1 <= l
               PROVE  \E c \in Nat : b[n + 1] = 4 + 4 * (n + 1) + c /\ ReadsBeside(z, o, w, s[n + 1], c)
    OBVIOUS
  <2>1. PICK c \in Nat : b[n] = 4 + 4 * n + c /\ ReadsBeside(z, o, w, s[n], c)
    BY <1>1, <1>5
  <2>2. PICK i \in Nat \ {0} : i = n + 1
    OBVIOUS
  <2>3. PICK v : v = values[i]
    OBVIOUS
  <2>4. /\ i \in 1 .. l /\ i \in 0 .. l /\ i # 0 /\ i - 1 = n /\ v \in ArgType
        /\ (v.type = "unknown" => ~w) /\ 8 * i <= 8 * l
    <3>1. i \in 1 .. l /\ i \in 0 .. l /\ i # 0 /\ i - 1 = n /\ 8 * i <= 8 * l
      BY <2>2
    <3>2. v \in ArgType /\ (v.type = "unknown" => ~w)
      BY <1>1, <2>3, <3>1 DEF Known
    <3> QED
      BY <3>1, <3>2
  <2>5. b[i] = b[n] + 4 + ValueBytes(v) /\ s[i] = s[n] \o ReceiveValue(v, i, o)
    BY <1>3, <2>3, <2>4
  <2>6. ValueBytes(v) \in Nat
    <3>1. 8 * i <= z[o]
      BY <1>1, <2>4 DEF Array
    <3> QED
      BY <2>4, <3>1, ValueExecutes
  <2>7. PICK d \in Nat : d = c + ValueBytes(v)
    BY <2>6
  <2>8. b[i] = 4 + 4 * (n + 1) + d
    BY <2>1, <2>5, <2>6, <2>7
  <2>9. ASSUME NEW k \in Nat
        PROVE  \E y \in Seq(Nat) : Grown(z, y, o) /\ Executes(St(z, k + d, w), s[i], St(y, k, w))
    <3>1. PICK j \in Nat : j = k + ValueBytes(v)
      BY <2>6
    <3>2. PICK x \in Seq(Nat) : Grown(z, x, o) /\ Executes(St(z, j + c, w), s[n], St(x, j, w))
      BY <2>1 DEF ReadsBeside
    <3>3. o \in 1 .. Len(x) /\ 8 * i <= x[o]
      BY <1>1, <2>4, <3>2 DEF Grown, Array
    <3>4. PICK y \in Seq(Nat) : Grown(x, y, o) /\ Executes(St(x, k + ValueBytes(v), w), ReceiveValue(v, i, o), St(y, k, w))
      BY <2>4, <3>3, ValueExecutes
    <3>5. Grown(z, y, o)
      BY <3>2, <3>4 DEF Grown
    <3>6. j + c = k + d
      BY <2>6, <2>7, <3>1
    <3>7. Executes(St(z, k + d, w), s[i], St(y, k, w))
      BY <2>5, <3>1, <3>2, <3>4, <3>6, ThenExecutes
    <3> QED
      BY <3>5, <3>7
  <2>10. ReadsBeside(z, o, w, s[i], d)
    BY <2>9 DEF ReadsBeside
  <2> QED
    BY <2>2, <2>8, <2>10
<1> HIDE DEF P
<1>6. l \in P
  BY <1>4, <1>5, SetInduction
<1> QED
  BY <1>1, <1>2, <1>6 DEF P, SendPackedSeq, ValuesRead

LEMMA RecvExecutes ==
  ASSUME NEW values \in Seq(ArgType), NEW z \in Seq(Nat), NEW o \in Nat, o = Len(z) + 1, NEW w \in BOOLEAN,
         Known(values, w)
  PROVE  SendPackedSeq(values) \in Nat /\ Reads(z, w, RecvPackedSeq(values, o), SendPackedSeq(values))
<1>1. PICK l \in Nat : l = Len(values)
  OBVIOUS
<1>2. CASE values = <<>>
  <2>1. RecvPackedSeq(values, o) = <<Read(4)>>
    BY <1>2 DEF RecvPackedSeq
  <2>2. SendPackedSeq(values) = 4
    <3>1. 0 \in 0 .. Len(values) /\ Len(values) = 0
      BY <1>2
    <3>2. BytesUpTo(values)[0] = BytesRule(values, BytesUpTo(values), 0)
      BY <3>1, BytesUpToDefined
    <3> QED
      BY <3>1, <3>2 DEF BytesRule, SendPackedSeq
  <2>3. ASSUME NEW k \in Nat
        PROVE  \E y \in Seq(Nat) : Executes(St(z, k + 4, w), <<Read(4)>>, St(y, k, w))
    <3>1. PICK m \in Nat : m = k + 4
      OBVIOUS
    <3>2. Executes(St(z, m, w), <<Read(4)>>, St(z, k, w))
      BY <3>1, ReadExecutes
    <3> QED
      BY <3>1, <3>2
  <2>4. Reads(z, w, <<Read(4)>>, 4)
    BY <2>3 DEF Reads
  <2> QED
    BY <2>1, <2>2, <2>4
<1>3. CASE values # <<>>
  <2>1. PICK a \in Nat, b \in Nat : a = 8 * l /\ b = 4 * l
    <3>1. 8 * l \in Nat /\ 4 * l \in Nat
      OBVIOUS
    <3> QED
      BY <3>1
  <2>2. RecvPackedSeq(values, o) = <<Read(4)>> \o (<<ArenaAlloc(a, 8), ArenaAlloc(b, 4), ReadInto(0, 0, b)>>
                                                  \o StepsUpTo(values, o)[l])
    BY <1>1, <1>3, <2>1 DEF RecvPackedSeq
  <2>3. PICK x \in Seq(Nat) : x = Append(z, a)
    <3>1. Append(z, a) \in Seq(Nat)
      OBVIOUS
    <3> QED
      BY <3>1
  <2>4. Len(x) = o /\ x[o] = a /\ o \in 1 .. Len(x)
    BY <2>3
  <2>5. PICK y \in Seq(Nat) : y = Append(x, b)
    BY <2>4, AppendGrows
  <2>6. Len(y) = o + 1 /\ y[o] = a /\ y[o + 1] = b /\ o \in 1 .. Len(y)
    BY <2>4, <2>5, AppendGrows
  <2>7. Holds(y, 0, 0, b)
    BY <2>1, <2>6 DEF Holds, Place
  <2>8. PICK c \in Nat : /\ SendPackedSeq(values) = 4 + 4 * l + c
                         /\ ReadsBeside(y, o, w, StepsUpTo(values, o)[l], c)
    <3>1. Array(y, o, values)
      BY <1>1, <2>1, <2>6 DEF Array
    <3>2. o \in 1 .. Len(y)
      BY <2>6
    <3>3. ValuesRead(values, y, o, w)
      BY <3>1, <3>2, ValuesExecute
    <3> QED
      BY <1>1, <3>3 DEF ValuesRead
  <2>9. PICK d \in Nat : d = 4 + b + c
    OBVIOUS
  <2>10. ASSUME NEW k \in Nat
         PROVE  \E u \in Seq(Nat) : Executes(St(z, k + d, w), RecvPackedSeq(values, o), St(u, k, w))
    <3>1. PICK j1 \in Nat, j2 \in Nat, j3 \in Nat : j1 = k + c /\ j2 = j1 + b /\ j3 = j2 + 4
      <4>1. k + c \in Nat /\ k + c + b \in Nat /\ k + c + b + 4 \in Nat
        OBVIOUS
      <4> QED
        BY <4>1
    <3>2. PICK u \in Seq(Nat) : Executes(St(y, j1, w), StepsUpTo(values, o)[l], St(u, k, w))
      BY <2>8, <3>1 DEF ReadsBeside
    <3>3. Executes(St(y, j2, w), <<ReadInto(0, 0, b)>>, St(y, j1, w))
      BY <2>7, <3>1, FillExecutes
    <3>4. Executes(St(x, j2, w), <<ArenaAlloc(b, 4)>>, St(y, j2, w))
      BY <2>5, AllocExecutes
    <3>5. Executes(St(z, j2, w), <<ArenaAlloc(a, 8)>>, St(x, j2, w))
      BY <2>3, AllocExecutes
    <3>6. Executes(St(z, j3, w), <<Read(4)>>, St(z, j2, w))
      BY <3>1, ReadExecutes
    <3>7. Executes(St(x, j2, w), <<ArenaAlloc(b, 4), ReadInto(0, 0, b)>>, St(y, j1, w))
      BY <3>3, <3>4, StepThen
    <3>8. Executes(St(z, j2, w), <<ArenaAlloc(a, 8), ArenaAlloc(b, 4), ReadInto(0, 0, b)>>, St(y, j1, w))
      BY <3>5, <3>7, StepThen
    <3>9. Executes(St(z, j2, w), <<ArenaAlloc(a, 8), ArenaAlloc(b, 4), ReadInto(0, 0, b)>>
                                 \o StepsUpTo(values, o)[l], St(u, k, w))
      BY <3>2, <3>8, ThenExecutes
    <3>10. Executes(St(z, j3, w), RecvPackedSeq(values, o), St(u, k, w))
      BY <2>2, <3>6, <3>9, ThenExecutes
    <3>11. j3 = k + d
      BY <2>1, <2>9, <3>1
    <3> QED
      BY <3>10, <3>11
  <2>11. SendPackedSeq(values) = d
    BY <2>1, <2>8, <2>9
  <2> QED
    BY <2>10, <2>11 DEF Reads
<1> QED
  BY <1>2, <1>3

-----------------------------------------------------------------------------
(* ProcessOnePacket.  The steps for a request read its last byte last. *)
LEMMA SyscallNames ==
  DOMAIN Syscall =
    {"kGetGlobalFunc", "kFreeHandle", "kDevAllocData", "kDevAllocDataWithScope", "kDevFreeData",
     "kDevCreateStream", "kDevFreeStream", "kDevStreamSync", "kDevSetStream", "kCopyAmongRemote"}
BY DEF Syscall

LEMMA CheckExecutes ==
  ASSUME NEW z \in Seq(Nat), NEW k \in Nat, NEW w \in BOOLEAN, NEW holds \in BOOLEAN, w => holds
  PROVE  Executes(St(z, k, w), MINRPC_CHECK(holds), St(z, k, w))
<1>1. CASE holds
  <2>1. St(z, k, w) \in State
    BY StState
  <2> QED
    BY <1>1, <2>1, NothingExecutes DEF MINRPC_CHECK
<1>2. CASE ~holds
  BY <1>2, ThrowExecutes DEF MINRPC_CHECK
<1> QED
  BY <1>1, <1>2

(* From no objects and n bytes to none left. *)
Whole(w, n, steps) == \E y \in Seq(Nat) : Executes(St(<<>>, n, w), steps, St(y, 0, w))

LEMMA CopyExecutes ==
  ASSUME NEW k \in Nat, NEW w \in BOOLEAN, NEW r, r.length \in Nat, r.cpu \in BOOLEAN
  PROVE  \E z \in Seq(Nat) : /\ Executes(St(<<>>, k + TensorBytes(1) + 8, w), Copy(r), St(z, k, w))
                             /\ ~r.cpu => Holds(z, 0, 0, r.length)
<1>1. PICK e \in Seq(Nat) : e = <<>>
  <2>1. <<>> \in Seq(Nat)
    OBVIOUS
  <2> QED
    BY <2>1
<1>2. PICK x \in Seq(Nat) : x = Append(e, 40)
  <2>1. Append(e, 40) \in Seq(Nat)
    OBVIOUS
  <2> QED
    BY <2>1
<1>3. Len(x) = 1 /\ Len(x) > 0 /\ x[Len(x)] = 40
  BY <1>1, <1>2
<1>4. PICK y \in Seq(Nat) : y = Append(x, 8 * 1)
  <2>1. Append(x, 8 * 1) \in Seq(Nat)
    OBVIOUS
  <2> QED
    BY <2>1
<1>5. PICK j1 \in Nat, j2 \in Nat, j3 \in Nat : j1 = k + 8 /\ j2 = j1 + 8 + 8 * 1 + 16 /\ j3 = j2 + 8
  <2>1. k + 8 \in Nat /\ k + 8 + 8 + 8 * 1 + 16 \in Nat /\ k + 8 + 8 + 8 * 1 + 16 + 8 \in Nat
    OBVIOUS
  <2> QED
    BY <2>1
<1>6. j3 = k + TensorBytes(1) + 8
  BY <1>5 DEF TensorBytes
<1>7. Executes(St(e, j3, w), <<ArenaAlloc(40, 8)>>, St(x, j3, w))
  BY <1>2, AllocExecutes
<1>8. Executes(St(x, j3, w), <<Read(8)>>, St(x, j2, w))
  BY <1>5, ReadExecutes
<1>9. Executes(St(x, j2, w), TensorFields(1), St(y, j1, w))
  BY <1>3, <1>4, <1>5, TensorExecutes
<1>10. Executes(St(y, j1, w), <<Read(8)>>, St(y, k, w))
  BY <1>5, ReadExecutes
<1>11. Executes(St(e, j3, w), <<ArenaAlloc(40, 8), Read(8)>>, St(x, j2, w))
  BY <1>7, <1>8, StepThen
<1>12. Executes(St(e, j3, w), <<ArenaAlloc(40, 8), Read(8)>> \o TensorFields(1), St(y, j1, w))
  BY <1>9, <1>11, ThenExecutes
<1>13. Executes(St(e, j3, w), <<ArenaAlloc(40, 8), Read(8)>> \o TensorFields(1) \o <<Read(8)>>, St(y, k, w))
  BY <1>10, <1>12, ThenExecutes
<1>14. CASE r.cpu
  <2>1. Executes(St(y, k, w), <<>>, St(y, k, w))
    BY StState, NothingExecutes
  <2>2. Copy(r) = <<ArenaAlloc(40, 8), Read(8)>> \o TensorFields(1) \o <<Read(8)>> \o <<>>
    BY <1>14 DEF Copy
  <2>3. Executes(St(e, j3, w), Copy(r), St(y, k, w))
    BY <1>13, <2>1, <2>2, ThenExecutes
  <2> QED
    BY <1>1, <1>6, <1>14, <2>3
<1>15. CASE ~r.cpu
  <2>1. PICK n \in Nat : n = r.length
    OBVIOUS
  <2>2. PICK z \in Seq(Nat) : z = Append(y, n)
    <3>1. Append(y, n) \in Seq(Nat)
      OBVIOUS
    <3> QED
      BY <3>1
  <2>3. Executes(St(y, k, w), <<ArenaAlloc(n, 1)>>, St(z, k, w))
    BY <2>2, AllocExecutes
  <2>4. Copy(r) = <<ArenaAlloc(40, 8), Read(8)>> \o TensorFields(1) \o <<Read(8)>> \o <<ArenaAlloc(n, 1)>>
    BY <1>15, <2>1 DEF Copy
  <2>5. Executes(St(e, j3, w), Copy(r), St(z, k, w))
    BY <1>13, <2>3, <2>4, ThenExecutes
  <2>6. Holds(z, 0, 0, n)
    BY <2>2 DEF Holds, Place
  <2> QED
    BY <1>1, <1>6, <2>1, <2>5, <2>6
<1> QED
  BY <1>14, <1>15

LEMMA PlanExecutes ==
  ASSUME NEW r \in Requests, NEW w \in BOOLEAN, w <=> AsTheHostSends(r)
  PROVE  RequestBytes(r) \in Nat /\ Whole(w, RequestBytes(r), ProcessOnePacket(r))
<1> DEFINE H == <<ReadHead(8), ReadHead(4)>>
<1>1. /\ r.code \in RequestCode /\ r.length \in Nat /\ r.cpu \in BOOLEAN
      /\ r.args \in Seq(ArgType) /\ r.available \in Nat
  BY RequestAssumption DEF ArgType
<1>2. PICK e \in Seq(Nat) : e = <<>> /\ Len(e) = 0
  <2>1. <<>> \in Seq(Nat) /\ Len(<<>>) = 0
    OBVIOUS
  <2> QED
    BY <2>1
<1>3. Known(r.args, w)
  BY DEF Known, AsTheHostSends
<1>4. SendPackedSeq(r.args) \in Nat /\ \A k \in Nat : 
        \E y \in Seq(Nat) : Executes(St(e, k + SendPackedSeq(r.args), w), RecvPackedSeq(r.args, 1), St(y, k, w))
  <2>1. 1 \in Nat /\ 1 = Len(e) + 1
    BY <1>2
  <2> QED
    BY <1>1, <1>3, <2>1, RecvExecutes DEF Reads
<1>5. PICK c \in Nat : c = SendPackedSeq(r.args)
  BY <1>4
<1>6. PICK ra \in Seq(Nat) : Executes(St(e, c, w), RecvPackedSeq(r.args, 1), St(ra, 0, w))
  <2>1. 0 + SendPackedSeq(r.args) = c
    BY <1>5
  <2> QED
    BY <1>4, <2>1
<1>7. ASSUME NEW n \in Nat, NEW body, NEW y \in Seq(Nat), Executes(St(e, n, w), body, St(y, 0, w)),
             RequestBytes(r) = 12 + n, ProcessOnePacket(r) = H \o body
      PROVE  RequestBytes(r) \in Nat /\ Whole(w, RequestBytes(r), ProcessOnePacket(r))
  <2>1. PICK j1 \in Nat, j2 \in Nat : j1 = n + 4 /\ j2 = j1 + 8
    <3>1. n + 4 \in Nat /\ n + 4 + 8 \in Nat
      OBVIOUS
    <3> QED
      BY <3>1
  <2>2. Executes(St(e, j2, w), <<ReadHead(8)>>, St(e, j1, w)) /\ Executes(St(e, j1, w), <<ReadHead(4)>>, St(e, n, w))
    BY <2>1, ReadExecutes
  <2>3. Executes(St(e, j2, w), H, St(e, n, w))
    BY <2>2, StepThen
  <2>4. RequestBytes(r) = j2
    BY <1>7, <2>1
  <2> HIDE DEF H
  <2>5. Executes(St(e, j2, w), ProcessOnePacket(r), St(y, 0, w))
    BY <1>7, <2>3, ThenExecutes
  <2> QED
    BY <1>2, <2>4, <2>5 DEF Whole
<1>8. CASE r.code = "empty"
  <2>1. RequestBytes(r) = 8 /\ ProcessOnePacket(r) = <<ReadHead(8)>>
    BY <1>8, SyscallNames DEF RequestBytes, ProcessOnePacket
  <2>2. Executes(St(e, 8, w), <<ReadHead(8)>>, St(e, 0, w))
    <3>1. 8 \in Nat /\ 0 \in Nat /\ 8 = 0 + 8
      OBVIOUS
    <3> QED
      BY <3>1, ReadExecutes
  <2>3. \E y \in Seq(Nat) : Executes(St(<<>>, 8, w), <<ReadHead(8)>>, St(y, 0, w))
    BY <1>2, <2>2
  <2>4. PICK n, steps : n = RequestBytes(r) /\ steps = ProcessOnePacket(r)
    OBVIOUS
  <2>5. Whole(w, n, steps)
    BY <2>1, <2>3, <2>4 DEF Whole
  <2> QED
    BY <2>1, <2>4, <2>5
<1>9. CASE r.code \in DOMAIN Syscall
  <2>1. PICK holds \in BOOLEAN : holds = TypesMatch(r.args, Syscall[r.code])
    <3>1. TypesMatch(r.args, Syscall[r.code]) \in BOOLEAN
      BY DEF TypesMatch
    <3> QED
      BY <3>1
  <2>2. RequestBytes(r) = 12 + c
    BY <1>5, <1>9, SyscallNames DEF RequestBytes
  <2>3. ProcessOnePacket(r) = H \o (RecvPackedSeq(r.args, 1) \o MINRPC_CHECK(holds))
    BY <1>9, <2>1, SyscallNames DEF ProcessOnePacket, RefusedSyscall
  <2>4. w => holds
    BY <1>9, <2>1 DEF AsTheHostSends
  <2>5. Executes(St(ra, 0, w), MINRPC_CHECK(holds), St(ra, 0, w))
    BY <2>4, CheckExecutes
  <2>6. Executes(St(e, c, w), RecvPackedSeq(r.args, 1) \o MINRPC_CHECK(holds), St(ra, 0, w))
    BY <1>6, <2>5, ThenExecutes
  <2> HIDE DEF H
  <2> QED
    BY <1>7, <2>2, <2>3, <2>6
<1>10. CASE r.code \in RefusedSyscall
  <2>1. RequestBytes(r) = 12 + c
    BY <1>5, <1>10, SyscallNames DEF RequestBytes, RefusedSyscall
  <2>2. ProcessOnePacket(r) = H \o RecvPackedSeq(r.args, 1)
    BY <1>10, SyscallNames DEF ProcessOnePacket, RefusedSyscall
  <2> HIDE DEF H
  <2> QED
    BY <1>6, <1>7, <2>1, <2>2
<1>11. CASE r.code = "kCallFunc"
  <2>1. PICK n \in Nat : n = c + 8
    OBVIOUS
  <2>2. RequestBytes(r) = 12 + n
    BY <1>5, <1>11, <2>1 DEF RequestBytes
  <2>3. ProcessOnePacket(r) = H \o (<<Read(8)>> \o RecvPackedSeq(r.args, 1))
    BY <1>11, SyscallNames DEF ProcessOnePacket, RefusedSyscall
  <2>4. Executes(St(e, n, w), <<Read(8)>>, St(e, c, w))
    BY <2>1, ReadExecutes
  <2>5. Executes(St(e, n, w), <<Read(8)>> \o RecvPackedSeq(r.args, 1), St(ra, 0, w))
    BY <1>6, <2>4, ThenExecutes
  <2> HIDE DEF H
  <2> QED
    BY <1>7, <2>2, <2>3, <2>5
<1>12. CASE r.code = "kInitServer"
  <2>1. PICK l \in Nat, b \in Nat : l = r.length /\ b = l + 1
    <3>1. r.length \in Nat /\ r.length + 1 \in Nat
      BY <1>1
    <3> QED
      BY <3>1
  <2>2. PICK j \in Nat, n \in Nat : j = c + l /\ n = j + 8
    <3>1. c + l \in Nat /\ c + l + 8 \in Nat
      OBVIOUS
    <3> QED
      BY <3>1
  <2>3. PICK holds \in BOOLEAN : holds = (r.args = <<>>)
    OBVIOUS
  <2>4. RequestBytes(r) = 12 + n
    <3>1. RequestBytes(r) = 12 + 8 + l + c
      BY <1>5, <1>12, <2>1 DEF RequestBytes
    <3> QED
      BY <2>2, <3>1
  <2>5. ProcessOnePacket(r) = H \o (<<Read(8), ArenaAlloc(b, 1), ReadInto(0, 0, l)>>
                                    \o RecvPackedSeq(r.args, 2) \o MINRPC_CHECK(holds))
    BY <1>12, <2>1, <2>3, SyscallNames DEF ProcessOnePacket, RefusedSyscall
  <2>6. w => holds
    BY <1>12, <2>3 DEF AsTheHostSends
  <2>7. PICK z \in Seq(Nat) : z = Append(e, b)
    <3>1. Append(e, b) \in Seq(Nat)
      OBVIOUS
    <3> QED
      BY <3>1
  <2>8. Len(z) = 1 /\ z[1] = b /\ 2 \in Nat /\ 2 = Len(z) + 1
    BY <1>2, <2>7
  <2>9. Holds(z, 0, 0, l)
    BY <2>1, <2>8 DEF Holds, Place
  <2>10. PICK y \in Seq(Nat) : Executes(St(z, c, w), RecvPackedSeq(r.args, 2), St(y, 0, w))
    <3>1. Reads(z, w, RecvPackedSeq(r.args, 2), SendPackedSeq(r.args))
      BY <1>1, <1>3, <2>8, RecvExecutes
    <3>2. 0 \in Nat /\ 0 + SendPackedSeq(r.args) = c
      BY <1>5
    <3> QED
      BY <3>1, <3>2 DEF Reads
  <2>11. Executes(St(e, n, w), <<Read(8)>>, St(e, j, w))
    BY <2>2, ReadExecutes
  <2>12. Executes(St(e, j, w), <<ArenaAlloc(b, 1)>>, St(z, j, w))
    BY <2>7, AllocExecutes
  <2>13. Executes(St(z, j, w), <<ReadInto(0, 0, l)>>, St(z, c, w))
    BY <2>2, <2>9, FillExecutes
  <2>14. Executes(St(e, j, w), <<ArenaAlloc(b, 1), ReadInto(0, 0, l)>>, St(z, c, w))
    BY <2>12, <2>13, StepThen
  <2>15. Executes(St(e, n, w), <<Read(8), ArenaAlloc(b, 1), ReadInto(0, 0, l)>>, St(z, c, w))
    BY <2>11, <2>14, StepThen
  <2>16. Executes(St(e, n, w), <<Read(8), ArenaAlloc(b, 1), ReadInto(0, 0, l)>>
                              \o RecvPackedSeq(r.args, 2), St(y, 0, w))
    BY <2>10, <2>15, ThenExecutes
  <2>17. Executes(St(y, 0, w), MINRPC_CHECK(holds), St(y, 0, w))
    BY <2>6, CheckExecutes
  <2>18. Executes(St(e, n, w), <<Read(8), ArenaAlloc(b, 1), ReadInto(0, 0, l)>>
                              \o RecvPackedSeq(r.args, 2) \o MINRPC_CHECK(holds), St(y, 0, w))
    BY <2>16, <2>17, ThenExecutes
  <2> HIDE DEF H
  <2> QED
    BY <1>7, <2>4, <2>5, <2>18
<1>13. CASE r.code = "kCopyFromRemote"
  <2>1. PICK n \in Nat : n = 0 + TensorBytes(1) + 8
    <3>1. 0 + TensorBytes(1) + 8 \in Nat
      BY DEF TensorBytes
    <3> QED
      BY <3>1
  <2>2. RequestBytes(r) = 12 + n
    BY <1>13, <2>1 DEF RequestBytes, TensorBytes
  <2>3. ProcessOnePacket(r) = H \o Copy(r)
    BY <1>13, SyscallNames DEF ProcessOnePacket, RefusedSyscall
  <2>4. PICK z \in Seq(Nat) : Executes(St(e, n, w), Copy(r), St(z, 0, w))
    <3>1. 0 \in Nat
      OBVIOUS
    <3> QED
      BY <1>1, <1>2, <2>1, <3>1, CopyExecutes
  <2> HIDE DEF H
  <2> QED
    BY <1>7, <2>2, <2>3, <2>4
<1>14. CASE r.code = "kCopyToRemote"
  <2>1. PICK l \in Nat : l = r.length
    BY <1>1
  <2>2. PICK n \in Nat : n = l + TensorBytes(1) + 8
    <3>1. l + TensorBytes(1) + 8 \in Nat
      BY DEF TensorBytes
    <3> QED
      BY <3>1
  <2>3. RequestBytes(r) = 12 + n
    <3>1. RequestBytes(r) = 12 + TensorBytes(1) + 8 + l
      BY <1>14, <2>1 DEF RequestBytes
    <3>2. PICK x \in Nat : x = TensorBytes(1)
      BY DEF TensorBytes
    <3> QED
      BY <2>2, <3>1, <3>2
  <2>4. PICK last : last = IF r.cpu THEN <<Read(l)>> ELSE <<ReadInto(0, 0, l)>>
    OBVIOUS
  <2>5. ProcessOnePacket(r) = H \o (Copy(r) \o last)
    BY <1>14, <2>1, <2>4, SyscallNames DEF ProcessOnePacket, RefusedSyscall
  <2>6. PICK z \in Seq(Nat) : Executes(St(e, n, w), Copy(r), St(z, l, w)) /\ (~r.cpu => Holds(z, 0, 0, l))
    BY <1>1, <1>2, <2>1, <2>2, CopyExecutes
  <2>7. l = 0 + l
    OBVIOUS
  <2>8. Executes(St(z, l, w), last, St(z, 0, w))
    <3>1. CASE r.cpu
      BY <2>4, <2>7, <3>1, ReadExecutes
    <3>2. CASE ~r.cpu
      BY <2>4, <2>6, <2>7, <3>2, FillExecutes
    <3> QED
      BY <3>1, <3>2
  <2>9. Executes(St(e, n, w), Copy(r) \o last, St(z, 0, w))
    BY <2>6, <2>8, ThenExecutes
  <2> HIDE DEF H
  <2> QED
    BY <1>7, <2>3, <2>5, <2>9
<1>15. CASE r.code = "kShutdown"
  <2>1. RequestBytes(r) = 12 + 0
    BY <1>15 DEF RequestBytes
  <2>2. ProcessOnePacket(r) = H \o <<>>
    BY <1>15, SyscallNames DEF ProcessOnePacket, RefusedSyscall
  <2>3. Executes(St(e, 0, w), <<>>, St(e, 0, w))
    BY StState, NothingExecutes
  <2> HIDE DEF H
  <2> QED
    BY <1>7, <2>1, <2>2, <2>3
<1>16. CASE r.code = "garbage"
  <2>1. RequestBytes(r) = 12 + c
    BY <1>5, <1>16, SyscallNames DEF RequestBytes
  <2>2. ProcessOnePacket(r) = H \o <<ThrowError>>
    BY <1>16, SyscallNames DEF ProcessOnePacket, RefusedSyscall
  <2>3. Executes(St(e, c, w), <<ThrowError>>, St(e, 0, w))
    <3>1. ~w
      BY <1>16 DEF AsTheHostSends
    <3> QED
      BY <3>1, ThrowExecutes
  <2> HIDE DEF H
  <2> QED
    BY <1>7, <2>1, <2>2, <2>3
<1> QED
  BY <1>1, <1>8, <1>9, <1>10, <1>11, <1>12, <1>13, <1>14, <1>15, <1>16 DEF RequestCode

-----------------------------------------------------------------------------
(* The server.  While it reads, the steps that are left fit the objects the *)
(* arena holds, and read what is left of the message to its end; a message  *)
(* of no known kind is refused when they are done.                          *)
SizesOf(given) == [i \in 1 .. Len(given) |-> given[i].size]
Sizes == SizesOf(objects)
Missing(r) == RequestBytes(r) - r.available
Unread == available + Missing(request)
Refused(steps) == Len(steps) > 0 /\ steps[Len(steps)].op = "throw"

Planned ==
  /\ request.code = "garbage" => Refused(todo)
  /\ \E w \in BOOLEAN, end \in State :
       /\ w <=> AsTheHostSends(request)
       /\ Executes(St(Sizes, Unread, w), todo, end) /\ end.unread = 0

ServerInv ==
  /\ ArenaInv /\ TypeOK /\ ~astray
  /\ ~open => ~running \/ at = "shut down"
  /\ at = "read" => request \in Requests /\ replies = 0
  /\ at = "read" /\ running => Planned
  /\ AnsweredOnce

LEMMA SizesOfType ==
  ASSUME NEW given \in Seq(ObjectType)
  PROVE  /\ SizesOf(given) \in Seq(Nat) /\ Len(SizesOf(given)) = Len(given)
         /\ \A i \in 1 .. Len(given) : SizesOf(given)[i] = given[i].size
<1>1. PICK n \in Nat : n = Len(given)
  OBVIOUS
<1>2. \A i \in 1 .. n : given[i].size \in Nat
  <2>1. \A i \in 1 .. n : given[i] \in ObjectType
    BY <1>1
  <2> QED
    BY <2>1 DEF ObjectType
<1>3. PICK z : z = [i \in 1 .. n |-> given[i].size]
  OBVIOUS
<1>4. z \in [1 .. n -> Nat] /\ \A i \in 1 .. n : z[i] = given[i].size
  BY <1>2, <1>3
<1>5. z \in Seq(Nat) /\ Len(z) = n
  BY <1>4
<1> QED
  BY <1>1, <1>3, <1>4, <1>5 DEF SizesOf

LEMMA SizesType ==
  ASSUME ArenaTypeOK
  PROVE  Sizes \in Seq(Nat) /\ Len(Sizes) = Len(objects)
BY SizesOfType DEF ArenaTypeOK, ObjectType, Sizes

LEMMA ArenaKept ==
  ASSUME ArenaInv, UNCHANGED <<pages, head, tail, freeList, open, objects, peak>>, running' \in BOOLEAN
  PROVE  ArenaInv' /\ Sizes' = Sizes
<1>1. ArenaTypeOK'
  BY DEF ArenaInv, ArenaTypeOK
<1>2. Numbered' <=> Numbered
  BY DEF Numbered
<1>3. GrowsOnlyWhenNeeded' <=> GrowsOnlyWhenNeeded
  BY DEF GrowsOnlyWhenNeeded
<1>4. ASSUME NEW a \in Seq(PageId), NEW f \in Seq(PageId), TwoLists(a, f), ObjectsIn(a)
      PROVE  TwoLists(a, f)' /\ ObjectsIn(a)'
  BY <1>4 DEF TwoLists, Chain, ObjectsIn, ObjectIn, Apart
<1> QED
  BY <1>1, <1>2, <1>3, <1>4 DEF ArenaInv, Sizes, SizesOf

LEMMA BytesOfRequest ==
  ASSUME NEW r \in Requests
  PROVE  r.available \in Nat /\ RequestBytes(r) \in Nat
<1>1. PICK w \in BOOLEAN : w <=> AsTheHostSends(r)
  <2>1. CASE AsTheHostSends(r)
    BY <2>1
  <2>2. CASE ~AsTheHostSends(r)
    BY <2>2
  <2> QED
    BY <2>1, <2>2
<1> QED
  BY <1>1, PlanExecutes, RequestAssumption

LEMMA MissingType ==
  ASSUME NEW r \in Requests
  PROVE  Missing(r) \in Int
<1>1. \A m, n \in Nat : m - n \in Int
  OBVIOUS
<1> QED
  BY <1>1, BytesOfRequest DEF Missing

(* The first step that is left. *)
LEMMA StepPlanned ==
  ASSUME ServerInv, at = "read", running, todo # <<>>
  PROVE  /\ todo[1] \in StepType /\ todo \in Seq(StepType)
         /\ \E w \in BOOLEAN, end \in State, u \in State :
              /\ w <=> AsTheHostSends(request)
              /\ StepTaken(St(Sizes, Unread, w), todo[1], u)
              /\ Executes(u, Tail(todo), end) /\ end.unread = 0
         /\ Sizes \in Seq(Nat) /\ available \in Nat /\ Missing(request) \in Int /\ Unread \in Nat
         /\ request \in Requests /\ open
<1>1. /\ Planned /\ request \in Requests /\ available \in Nat /\ ArenaTypeOK /\ open
  BY DEF ServerInv, TypeOK
<1>2. PICK w \in BOOLEAN, end \in State : /\ w <=> AsTheHostSends(request)
                                          /\ Executes(St(Sizes, Unread, w), todo, end)
                                          /\ end.unread = 0
  BY <1>1 DEF Planned
<1>3. /\ todo[1] \in StepType
      /\ \E u \in State : StepTaken(St(Sizes, Unread, w), todo[1], u) /\ Executes(u, Tail(todo), end)
  BY <1>2, FirstExecutes
<1>4. Missing(request) \in Int
  BY <1>1, MissingType
<1>5. todo \in Seq(StepType)
  BY <1>2, ExecutedState
<1>6. Unread \in Nat
  <2>1. St(Sizes, Unread, w) \in State /\ St(Sizes, Unread, w).unread = Unread
    BY <1>2, ExecutedState DEF St
  <2> QED
    BY <2>1 DEF State
<1> QED
  BY <1>1, <1>2, <1>3, <1>4, <1>5, <1>6, SizesType

LEMMA NextPlanned ==
  ASSUME request.code = "garbage" => Refused(todo), NEW w \in BOOLEAN, NEW end \in State, NEW u \in State,
         w <=> AsTheHostSends(request), Executes(u, Tail(todo), end), end.unread = 0,
         todo \in Seq(StepType), todo # <<>>, todo[1].op # "throw", todo' = Tail(todo), request' = request,
         u.sizes = Sizes', u.unread = Unread', u.sent = w
  PROVE  Planned'
<1>1. PICK z, k : z = Sizes' /\ k = Unread'
  OBVIOUS
<1>2. u = St(z, k, w)
  BY <1>1 DEF State, St
<1>3. request.code = "garbage" => Refused(Tail(todo))
  <2> SUFFICES ASSUME Refused(todo) PROVE Refused(Tail(todo))
    OBVIOUS
  <2>1. PICK t : t = Tail(todo)
    OBVIOUS
  <2>2. PICK n \in Nat : n = Len(todo)
    OBVIOUS
  <2>3. n # 0 /\ n # 1
    BY <2>2 DEF Refused
  <2>4. Len(t) = n - 1 /\ n - 1 > 0 /\ t[n - 1] = todo[n]
    BY <2>1, <2>2, <2>3
  <2> QED
    BY <2>1, <2>2, <2>4 DEF Refused
<1>4. PICK t, q : t = todo' /\ q = request'
  OBVIOUS
<1>5. /\ q.code = "garbage" => Refused(t)
      /\ w <=> AsTheHostSends(q)
      /\ Executes(St(z, k, w), t, end)
  BY <1>2, <1>3, <1>4
<1> QED
  BY <1>1, <1>4, <1>5 DEF Planned

(* What an allocation does: an object more, or the server is caught. *)
LEMMA AllocGives ==
  ASSUME ArenaInv, open, running, NEW size \in Nat, NEW align \in Nat \ {0}, Alloc(size, align)
  PROVE  /\ ArenaInv' /\ open' = open /\ running' \in BOOLEAN
         /\ running' => Sizes' = Append(Sizes, size)
<1>1. ArenaInv' /\ open' = open
  BY AllocKeeps DEF Alloc
<1>2. running' => \E p, first : objects' = Append(objects, [page |-> p, first |-> first, size |-> size])
  <2>1. CASE AllocInHead(size, align)
    BY <2>1 DEF AllocInHead, Give
  <2>2. CASE AllocFromFreeList(size, align)
    BY <2>2 DEF AllocFromFreeList, NewHead, Give
  <2>3. CASE AllocNewPage(size, align)
    BY <2>3 DEF AllocNewPage, NewHead, Give
  <2> QED
    BY <2>1, <2>2, <2>3 DEF Alloc
<1>3. running' \in BOOLEAN
  BY <1>1 DEF ArenaInv, ArenaTypeOK
<1>4. ASSUME running' PROVE Sizes' = Append(Sizes, size)
  <2>1. PICK p, first : objects' = Append(objects, [page |-> p, first |-> first, size |-> size])
    BY <1>2, <1>4
  <2>2. PICK o : o = [page |-> p, first |-> first, size |-> size]
    OBVIOUS
  <2>3. o.size = size /\ objects' = Append(objects, o)
    BY <2>1, <2>2
  <2>4. objects \in Seq(ObjectType) /\ objects' \in Seq(ObjectType)
    BY <1>1 DEF ArenaInv, ArenaTypeOK, ObjectType
  <2>5. PICK n \in Nat : n = Len(objects)
    BY <2>4
  <2>6. Len(objects') = n + 1 /\ objects'[n + 1] = o /\ \A i \in 1 .. n : objects'[i] = objects[i]
    BY <2>3, <2>4, <2>5
  <2>7. PICK z, y : z = SizesOf(objects) /\ y = SizesOf(objects')
    OBVIOUS
  <2>8. z \in Seq(Nat) /\ y \in Seq(Nat) /\ Len(z) = n /\ Len(y) = n + 1
    BY <2>4, <2>5, <2>6, <2>7, SizesOfType
  <2>9. /\ \A i \in 1 .. n : z[i] = objects[i].size
        /\ \A i \in 1 .. n + 1 : y[i] = objects'[i].size
    BY <2>4, <2>5, <2>6, <2>7, SizesOfType
  <2>10. \A i \in 1 .. n : y[i] = z[i]
    BY <2>6, <2>9
  <2>11. y[n + 1] = size
    BY <2>3, <2>6, <2>9
  <2>12. /\ Append(z, size) \in Seq(Nat) /\ Len(Append(z, size)) = n + 1 /\ Append(z, size)[n + 1] = size
         /\ \A i \in 1 .. n : Append(z, size)[i] = z[i]
    BY <2>8
  <2>13. \A i \in 1 .. Len(y) : y[i] = Append(z, size)[i]
    <3>1. \A i \in 1 .. Len(y) : i = n + 1 \/ i \in 1 .. n
      BY <2>8
    <3> QED
      BY <2>10, <2>11, <2>12, <3>1
  <2>14. y = Append(z, size)
    BY <2>8, <2>12, <2>13, SeqEqual
  <2> QED
    BY <2>7, <2>14 DEF Sizes
<1> QED
  BY <1>1, <1>3, <1>4

(* Bytes that are inside according to the sizes are inside the object. *)
LEMMA InsideObject ==
  ASSUME ArenaTypeOK, NEW k, NEW w, NEW step, step.offset \in Nat, step.bytes \in Nat,
         Inside(St(Sizes, k, w), step), WriteInside(step), ~astray
  PROVE  ~astray'
<1>1. Len(Sizes) = Len(objects)
  BY SizesType
<1>2. St(Sizes, k, w).sizes = Sizes
  BY DEF St
<1>3. /\ Place(Sizes, step.object) \in 1 .. Len(objects)
      /\ step.offset + step.bytes <= Sizes[Place(Sizes, step.object)]
  BY <1>1, <1>2 DEF Inside, Index, Place
<1>4. Object(step.object) = objects[Place(Sizes, step.object)]
  BY <1>1 DEF Object, Place
<1>5. Sizes[Place(Sizes, step.object)] = objects[Place(Sizes, step.object)].size
  BY <1>3, SizesOfType DEF Sizes, ArenaTypeOK, ObjectType
<1>6. step.offset + step.bytes <= Object(step.object).size
  BY <1>3, <1>4, <1>5
<1>7. ~(step.offset + step.bytes > Object(step.object).size)
  <2>1. Object(step.object).size \in Nat
    BY <1>1, <1>3, <1>4, <1>5, SizesType
  <2> QED
    BY <1>6, <2>1
<1> QED
  BY <1>7 DEF WriteInside

(* Every reply is as long as it says. *)
LEMMA RepliesAsAnnounced ==
  ASSUME NEW r \in Requests, r.code \notin {"empty", "kShutdown", "garbage"}, NEW reply \in ReplyTo(r)
  PROVE  reply.announced = reply.written
<1>1. r.code \in RequestCode
  BY RequestAssumption
<1> DEFINE Exact(x) == x.announced = x.written
<1>2. /\ Exact(ReturnVoid) /\ Exact(ReturnHandle) /\ Exact(ReturnException) /\ \A n : Exact(ReturnCopy(n))
      /\ \A v : Exact(ReturnValue(v))
  BY DEF ReturnVoid, ReturnHandle, ReturnException, ReturnCopy, ReturnValue, ReturnPackedSeq, Reply
<1> HIDE DEF Exact
<1>3. CASE r.code = "kCallFunc"
  <2>1. ReplyTo(r) = {ReturnValue(v) : v \in Results} \cup {ReturnException}
    BY <1>3, SyscallNames DEF ReplyTo, GivesHandle, RefusedSyscall
  <2> QED
    BY <1>2, <2>1 DEF Exact
<1> QED
  BY <1>1, <1>2, <1>3, SyscallNames DEF ReplyTo, RequestCode, GivesHandle, RefusedSyscall, Exact

-----------------------------------------------------------------------------
(* The actions. *)
LEMMA HandleCompleteMessageKeeps ==
  ASSUME ServerInv, NEW r \in Requests, HandleCompleteMessage(r)
  PROVE  ServerInv'
<1>1. /\ at = "wait" /\ running /\ RecycleAll /\ at' = "read" /\ request' = r
      /\ todo' = ProcessOnePacket(r) /\ available' = r.available
      /\ replies' = 0 /\ UNCHANGED <<open, astray>>
  BY DEF HandleCompleteMessage
<1>2. ArenaInv /\ open /\ ~astray
  BY <1>1 DEF ServerInv
<1>3. ArenaInv' /\ objects' = <<>>
  BY <1>1, <1>2, RecycleAllKeeps
<1>4. running' = running
  BY <1>1 DEF RecycleAll
<1>5. PICK w \in BOOLEAN : w <=> AsTheHostSends(r)
  <2>1. CASE AsTheHostSends(r)
    BY <2>1
  <2>2. CASE ~AsTheHostSends(r)
    BY <2>2
  <2> QED
    BY <2>1, <2>2
<1>6. RequestBytes(r) \in Nat /\ Whole(w, RequestBytes(r), ProcessOnePacket(r))
  BY <1>5, PlanExecutes
<1>7. r.available \in Nat
  BY RequestAssumption
<1>8. available' \in Nat /\ Unread' = RequestBytes(r)
  <2>1. \A m, n \in Nat : m + (n - m) = n
    OBVIOUS
  <2>2. PICK q : q = request'
    OBVIOUS
  <2>3. Unread' = available' + (RequestBytes(q) - q.available)
    BY <2>2 DEF Unread, Missing
  <2> QED
    BY <1>1, <1>6, <1>7, <2>1, <2>2, <2>3
<1>9. Sizes' = <<>>
  <2>1. SizesOf(objects') = <<>>
    BY <1>3 DEF SizesOf
  <2> QED
    BY <2>1 DEF Sizes
<1>10. Planned'
  <2>1. PICK y \in Seq(Nat) : Executes(St(<<>>, RequestBytes(r), w), ProcessOnePacket(r), St(y, 0, w))
    BY <1>6 DEF Whole
  <2>2. PICK z, k, t, q : z = Sizes' /\ k = Unread' /\ t = todo' /\ q = request'
    OBVIOUS
  <2>3. Executes(St(z, k, w), t, St(y, 0, w)) /\ St(y, 0, w) \in State /\ St(y, 0, w).unread = 0
    BY <1>1, <1>8, <1>9, <2>1, <2>2, StState
  <2>4. w <=> AsTheHostSends(q)
    BY <1>1, <1>5, <2>2
  <2>5. q.code = "garbage" => Refused(t)
    <3> SUFFICES ASSUME r.code = "garbage" PROVE Refused(t)
      BY <1>1, <2>2
    <3>1. ProcessOnePacket(r) = <<ReadHead(8), ReadHead(4)>> \o <<ThrowError>>
      BY SyscallNames DEF ProcessOnePacket, RefusedSyscall
    <3>2. PICK a, b, c : a = ReadHead(8) /\ b = ReadHead(4) /\ c = ThrowError
      OBVIOUS
    <3>3. Len(<<a, b>> \o <<c>>) = 3 /\ (<<a, b>> \o <<c>>)[3] = c
      OBVIOUS
    <3>4. Len(t) = 3 /\ t[3] = ThrowError
      BY <1>1, <2>2, <3>1, <3>2, <3>3
    <3> QED
      BY <3>4 DEF Refused, ThrowError
  <2> QED
    BY <2>2, <2>3, <2>4, <2>5 DEF Planned
<1>11. TypeOK' /\ AnsweredOnce'
  <2>1. ArenaTypeOK' /\ astray \in BOOLEAN
    BY <1>3 DEF ArenaInv, ServerInv, TypeOK
  <2>2. TypeOK'
    BY <1>1, <1>8, <2>1 DEF TypeOK
  <2>3. running'
    BY <1>1, <1>4
  <2> QED
    BY <1>1, <2>2, <2>3 DEF AnsweredOnce
<1> QED
  BY <1>1, <1>2, <1>3, <1>10, <1>11 DEF ServerInv

(* What reading a field leaves of the plan. *)
LEMMA FieldPlanned ==
  ASSUME ServerInv, at = "read", running, todo # <<>>, todo[1].op \in {"head", "read", "fill", "write"},
         todo' = Tail(todo), request' = request, Sizes' = Sizes,
         available' = available - (IF todo[1].op = "write" THEN 0 ELSE todo[1].bytes)
  PROVE  Planned'
<1>1. PICK w \in BOOLEAN, end \in State, u \in State :
              /\ w <=> AsTheHostSends(request)
              /\ StepTaken(St(Sizes, Unread, w), todo[1], u)
              /\ Executes(u, Tail(todo), end) /\ end.unread = 0
  BY StepPlanned
<1>2. /\ todo[1] \in StepType /\ todo \in Seq(StepType) /\ Sizes \in Seq(Nat) /\ available \in Nat
      /\ Missing(request) \in Int /\ Unread \in Nat
  BY StepPlanned
<1>3. request.code = "garbage" => Refused(todo)
  BY DEF ServerInv, Planned
<1>4. PICK s : s = St(Sizes, Unread, w)
  OBVIOUS
<1>5. s.sizes = Sizes /\ s.unread = Unread /\ s.sent = w
  BY <1>2, <1>4, StState
<1>6. u.sizes = Sizes /\ u.sent = w /\ u.unread = Unread - (IF todo[1].op = "write" THEN 0 ELSE todo[1].bytes)
  <2>1. u.unread \in Nat
    BY DEF State
  <2>2. CASE todo[1].op = "write"
    BY <1>1, <1>2, <1>4, <1>5, <2>1, <2>2 DEF StepTaken
  <2>3. CASE todo[1].op \in {"head", "read", "fill"}
    <3>1. todo[1].bytes \in Nat
      BY <1>2, <2>3 DEF StepType, ThrowError
    <3>2. u.sizes = Sizes /\ u.sent = w /\ Unread = u.unread + todo[1].bytes
      BY <1>1, <1>4, <1>5, <2>3 DEF StepTaken
    <3> QED
      BY <1>2, <2>1, <2>3, <3>1, <3>2
  <2> QED
    BY <2>2, <2>3
<1>7. u.unread = Unread'
  <2>1. todo[1].op # "write" => todo[1].bytes \in Nat
    BY <1>2 DEF StepType, ThrowError
  <2> QED
    BY <1>2, <1>6, <2>1 DEF Unread
<1>8. todo[1].op # "throw"
  OBVIOUS
<1> QED
  BY <1>1, <1>2, <1>3, <1>6, <1>7, <1>8, NextPlanned

LEMMA FieldInside ==
  ASSUME ServerInv, at = "read", running, todo # <<>>, todo[1].op \in {"fill", "write"},
         WriteInside(todo[1])
  PROVE  ~astray'
<1>1. PICK w \in BOOLEAN, u \in State : StepTaken(St(Sizes, Unread, w), todo[1], u)
  BY StepPlanned
<1>2. Inside(St(Sizes, Unread, w), todo[1])
  BY <1>1 DEF StepTaken
<1>3. todo[1].offset \in Nat /\ todo[1].bytes \in Nat
  <2>1. todo[1] \in StepType
    BY StepPlanned
  <2> QED
    BY <2>1 DEF StepType, ThrowError
<1>4. ArenaTypeOK /\ ~astray
  BY DEF ServerInv, TypeOK
<1> QED
  BY <1>2, <1>3, <1>4, InsideObject

(* A field is read: the buffer has all of it. *)
LEMMA ReadBytesKeeps ==
  ASSUME ServerInv, ReadBytes
  PROVE  ServerInv'
<1>1. /\ at = "read" /\ running /\ todo # <<>> /\ todo[1].op \in {"head", "read", "fill"}
      /\ todo[1].bytes <= available /\ available' = available - todo[1].bytes
      /\ todo' = Tail(todo) /\ at' = at /\ request' = request /\ replies' = replies
      /\ UNCHANGED <<pages, head, tail, freeList, open, objects, peak>> /\ running' = running
  BY DEF ReadBytes, Reading, Done, arenaVars, requestVars
<1>2. ArenaInv /\ TypeOK /\ ~astray /\ request \in Requests /\ replies = 0 /\ open
  BY <1>1 DEF ServerInv
<1>3. running' \in BOOLEAN
  BY <1>1, <1>2 DEF TypeOK, ArenaTypeOK
<1>4. ArenaInv' /\ Sizes' = Sizes
  BY <1>1, <1>2, <1>3, ArenaKept
<1>5. available' \in Nat
  <2>1. todo[1] \in StepType /\ available \in Nat
    BY <1>1, StepPlanned
  <2>2. todo[1].bytes \in Nat
    BY <1>1, <2>1 DEF StepType, ThrowError
  <2> QED
    BY <1>1, <2>1, <2>2
<1>6. Planned'
  BY <1>1, <1>4, FieldPlanned
<1>7. ~astray' /\ astray' \in BOOLEAN
  <2>1. CASE todo[1].op = "fill"
    <3>1. WriteInside(todo[1])
      BY <2>1 DEF ReadBytes
    <3>2. ~astray'
      BY <1>1, <2>1, <3>1, FieldInside
    <3> QED
      BY <3>1, <3>2 DEF WriteInside
  <2>2. CASE todo[1].op # "fill"
    BY <1>2, <2>2 DEF ReadBytes, TypeOK
  <2> QED
    BY <2>1, <2>2
<1>8. TypeOK' /\ AnsweredOnce'
  <2>1. ArenaTypeOK'
    BY <1>4 DEF ArenaInv
  <2>2. TypeOK'
    BY <1>1, <1>2, <1>5, <1>7, <2>1 DEF TypeOK
  <2> QED
    BY <1>1, <2>2 DEF AnsweredOnce
<1> QED
  BY <1>1, <1>2, <1>4, <1>6, <1>7, <1>8 DEF ServerInv

LEMMA WriteBytesKeeps ==
  ASSUME ServerInv, WriteBytes
  PROVE  ServerInv'
<1>1. /\ at = "read" /\ running /\ todo # <<>> /\ todo[1].op = "write" /\ WriteInside(todo[1])
      /\ todo' = Tail(todo) /\ at' = at /\ request' = request /\ replies' = replies
      /\ UNCHANGED <<pages, head, tail, freeList, open, objects, peak>> /\ running' = running
      /\ available' = available
  BY DEF WriteBytes, Reading, Done, arenaVars, requestVars
<1>2. ArenaInv /\ TypeOK /\ ~astray /\ request \in Requests /\ replies = 0 /\ open
  BY <1>1 DEF ServerInv
<1>3. running' \in BOOLEAN
  BY <1>1, <1>2 DEF TypeOK, ArenaTypeOK
<1>4. ArenaInv' /\ Sizes' = Sizes
  BY <1>1, <1>2, <1>3, ArenaKept
<1>5. available' \in Nat /\ available' = available - 0
  BY <1>1, <1>2 DEF TypeOK
<1>6. Planned'
  BY <1>1, <1>4, <1>5, FieldPlanned
<1>7. ~astray' /\ astray' \in BOOLEAN
  <2>1. ~astray'
    BY <1>1, FieldInside
  <2> QED
    BY <1>1, <2>1 DEF WriteInside
<1>8. TypeOK' /\ AnsweredOnce'
  <2>1. ArenaTypeOK'
    BY <1>4 DEF ArenaInv
  <2>2. TypeOK'
    BY <1>1, <1>2, <1>5, <1>7, <2>1 DEF TypeOK
  <2> QED
    BY <1>1, <2>2 DEF AnsweredOnce
<1> QED
  BY <1>1, <1>2, <1>4, <1>6, <1>7, <1>8 DEF ServerInv

(* The buffer has not all of a field: then the message had not either. *)
LEMMA ShortIsNotSent ==
  ASSUME ServerInv, at = "read", running, todo # <<>>, todo[1].op \in {"head", "read", "fill"},
         todo[1].bytes > available
  PROVE  ~AsTheHostSends(request)
<1>1. PICK w \in BOOLEAN, u \in State : StepTaken(St(Sizes, Unread, w), todo[1], u)
  BY StepPlanned
<1>2. /\ todo[1] \in StepType /\ Sizes \in Seq(Nat) /\ available \in Nat /\ Missing(request) \in Int
      /\ Unread \in Nat
  BY StepPlanned
<1>3. todo[1].bytes \in Nat /\ u.unread \in Nat
  BY <1>2 DEF StepType, ThrowError, State
<1>4. Unread = u.unread + todo[1].bytes
  <2>1. PICK s : s = St(Sizes, Unread, w)
    OBVIOUS
  <2>2. s.unread = Unread
    BY <2>1 DEF St
  <2> QED
    BY <1>1, <2>1, <2>2 DEF StepTaken
<1>5. Missing(request) # 0
  BY <1>2, <1>3, <1>4 DEF Unread
<1>6. ASSUME AsTheHostSends(request) PROVE Missing(request) = 0
  <2>1. request.available \in Nat /\ request.available = RequestBytes(request)
    BY <1>6, StepPlanned, RequestAssumption DEF AsTheHostSends
  <2> QED
    BY <2>1 DEF Missing
<1> QED
  BY <1>5, <1>6

LEMMA ReadShortKeeps ==
  ASSUME ServerInv, ReadShort
  PROVE  ServerInv'
<1>1. /\ at = "read" /\ running /\ todo # <<>> /\ todo[1].op \in {"head", "read", "fill"}
      /\ todo[1].bytes > available /\ running' = FALSE /\ available' = 0
      /\ at' = at /\ request' = request /\ replies' = replies /\ todo' = todo /\ astray' = astray
  BY DEF ReadShort, Reading, requestVars
<1>2. ArenaInv /\ TypeOK /\ ~astray /\ request \in Requests /\ replies = 0 /\ open
  BY <1>1 DEF ServerInv
<1>3. ~AsTheHostSends(request)
  BY <1>1, ShortIsNotSent
<1>4. ArenaInv'
  <2>1. CASE todo[1].op = "head"
    BY <1>1, <1>2, <2>1, FreeAllKeeps DEF ReadShort
  <2>2. CASE todo[1].op # "head"
    BY <1>1, <1>2, <2>2, ArenaKept DEF ReadShort
  <2> QED
    BY <2>1, <2>2
<1>5. TypeOK'
  <2>1. ArenaTypeOK'
    BY <1>4 DEF ArenaInv
  <2> QED
    BY <1>1, <1>2, <2>1 DEF TypeOK
<1>6. AnsweredOnce'
  <2>1. PICK q : q = request'
    OBVIOUS
  <2>2. ~AsTheHostSends(q)
    BY <1>1, <1>3, <2>1
  <2> QED
    BY <1>1, <2>1, <2>2 DEF AnsweredOnce
<1> QED
  BY <1>1, <1>2, <1>4, <1>5, <1>6 DEF ServerInv

(* An object is allocated, or the platform has no page for it. *)
LEMMA AllocateKeeps ==
  ASSUME ServerInv, Allocate
  PROVE  ServerInv'
<1>1. /\ at = "read" /\ running /\ todo # <<>> /\ todo[1].op = "alloc"
      /\ Alloc(todo[1].bytes, todo[1].align)
      /\ at' = at /\ request' = request /\ replies' = replies /\ available' = available
      /\ astray' = astray
      /\ IF running' THEN todo' = Tail(todo) ELSE todo' = todo
  BY DEF Allocate, Reading, Done, requestVars
<1>2. ArenaInv /\ TypeOK /\ ~astray /\ request \in Requests /\ replies = 0 /\ open
  BY <1>1 DEF ServerInv
<1>3. todo[1].bytes \in Nat /\ todo[1].align \in Nat \ {0}
  <2>1. todo[1] \in StepType
    BY <1>1, StepPlanned
  <2> QED
    BY <1>1, <2>1 DEF StepType, ThrowError
<1>4. /\ ArenaInv' /\ open' = open /\ running' \in BOOLEAN
      /\ running' => Sizes' = Append(Sizes, todo[1].bytes)
  BY <1>1, <1>2, <1>3, AllocGives
<1>5. ASSUME running' PROVE Planned'
  <2>1. PICK w \in BOOLEAN, end \in State, u \in State :
              /\ w <=> AsTheHostSends(request)
              /\ StepTaken(St(Sizes, Unread, w), todo[1], u)
              /\ Executes(u, Tail(todo), end) /\ end.unread = 0
    BY <1>1, StepPlanned
  <2>2. /\ todo \in Seq(StepType) /\ Sizes \in Seq(Nat) /\ Unread \in Nat
    BY <1>1, StepPlanned
  <2>3. PICK s : s = St(Sizes, Unread, w)
    OBVIOUS
  <2>4. s.sizes = Sizes /\ s.unread = Unread /\ s.sent = w
    BY <2>2, <2>3, StState
  <2>5. u.sizes = Append(Sizes, todo[1].bytes) /\ u.unread = Unread /\ u.sent = w
    BY <1>1, <2>1, <2>3, <2>4 DEF StepTaken
  <2>6. u.sizes = Sizes' /\ u.unread = Unread'
    BY <1>1, <1>4, <1>5, <2>5 DEF Unread
  <2>7. request.code = "garbage" => Refused(todo)
    BY <1>1 DEF ServerInv, Planned
  <2> QED
    BY <1>1, <1>5, <2>1, <2>2, <2>5, <2>6, <2>7, NextPlanned
<1>6. TypeOK'
  <2>1. ArenaTypeOK'
    BY <1>4 DEF ArenaInv
  <2> QED
    BY <1>1, <1>2, <2>1 DEF TypeOK
<1>7. AnsweredOnce'
  BY <1>1 DEF AnsweredOnce
<1> QED
  BY <1>1, <1>2, <1>4, <1>5, <1>6, <1>7 DEF ServerInv

(* MinRPCServer refuses: the host did not send this. *)
LEMMA ExitKeeps ==
  ASSUME ServerInv, Exit
  PROVE  ServerInv'
<1>1. /\ at = "read" /\ running /\ todo # <<>> /\ todo[1].op = "throw" /\ running' = FALSE
      /\ UNCHANGED <<pages, head, tail, freeList, open, objects, peak>>
      /\ at' = at /\ request' = request /\ replies' = replies /\ todo' = todo
      /\ available' = available /\ astray' = astray
  BY DEF Exit, Reading, requestVars
<1>2. ArenaInv /\ TypeOK /\ ~astray /\ request \in Requests /\ replies = 0 /\ open
  BY <1>1 DEF ServerInv
<1>3. ~AsTheHostSends(request)
  <2>1. PICK w \in BOOLEAN, u \in State : /\ w <=> AsTheHostSends(request)
                                          /\ StepTaken(St(Sizes, Unread, w), todo[1], u)
    BY <1>1, StepPlanned
  <2>2. St(Sizes, Unread, w).sent = w
    BY DEF St
  <2> QED
    BY <1>1, <2>1, <2>2 DEF StepTaken
<1>4. ArenaInv'
  BY <1>1, <1>2, ArenaKept
<1>5. TypeOK'
  <2>1. ArenaTypeOK'
    BY <1>4 DEF ArenaInv
  <2> QED
    BY <1>1, <1>2, <2>1 DEF TypeOK
<1>6. AnsweredOnce'
  <2>1. PICK q : q = request'
    OBVIOUS
  <2>2. ~AsTheHostSends(q)
    BY <1>1, <1>3, <2>1
  <2> QED
    BY <1>1, <2>1, <2>2 DEF AnsweredOnce
<1> QED
  BY <1>1, <1>2, <1>4, <1>5, <1>6 DEF ServerInv

(* Nothing is left to read, so that it is a request of a known kind. *)
LEMMA AnswerKeeps ==
  ASSUME ServerInv, Answer
  PROVE  ServerInv'
<1>1. /\ at = "read" /\ running /\ todo = <<>> /\ request.code \notin {"empty", "kShutdown"}
      /\ UNCHANGED <<pages, head, tail, freeList, open, objects, peak, request, todo, astray>>
  BY DEF Answer
<1>2. ArenaInv /\ TypeOK /\ ~astray /\ request \in Requests /\ replies = 0 /\ open
  BY <1>1 DEF ServerInv
<1>3. request.code # "garbage"
  <2>1. request.code = "garbage" => Refused(todo)
    BY <1>1 DEF ServerInv, Planned
  <2>2. ~Refused(<<>>)
    BY DEF Refused
  <2> QED
    BY <1>1, <2>1, <2>2
<1>4. \A reply \in ReplyTo(request) : reply.announced = reply.written
  BY <1>1, <1>2, <1>3, RepliesAsAnnounced
<1>5. at' = "wait" /\ replies' = replies + 1 /\ available' = 0 /\ running' = running
  BY <1>4 DEF Answer
<1>6. running' \in BOOLEAN /\ running'
  BY <1>1, <1>2, <1>5 DEF TypeOK, ArenaTypeOK
<1>7. ArenaInv'
  BY <1>1, <1>2, <1>6, ArenaKept
<1>8. TypeOK'
  <2>1. ArenaTypeOK'
    BY <1>7 DEF ArenaInv
  <2> QED
    BY <1>1, <1>2, <1>5, <2>1 DEF TypeOK
<1>9. AnsweredOnce'
  BY <1>1, <1>2, <1>5, <1>6 DEF AnsweredOnce
<1> QED
  BY <1>1, <1>2, <1>5, <1>6, <1>7, <1>8, <1>9 DEF ServerInv

LEMMA IgnoreKeeps ==
  ASSUME ServerInv, Ignore
  PROVE  ServerInv'
<1>1. /\ at = "read" /\ running /\ request.code = "empty" /\ at' = "wait" /\ available' = 0
      /\ UNCHANGED <<pages, head, tail, freeList, open, objects, peak, request, replies, todo, astray>>
      /\ running' = running
  BY DEF Ignore, arenaVars
<1>2. ArenaInv /\ TypeOK /\ ~astray /\ request \in Requests /\ replies = 0 /\ open
  BY <1>1 DEF ServerInv
<1>3. running' \in BOOLEAN /\ running'
  BY <1>1, <1>2 DEF TypeOK, ArenaTypeOK
<1>4. ArenaInv'
  BY <1>1, <1>2, <1>3, ArenaKept
<1>5. TypeOK'
  <2>1. ArenaTypeOK'
    BY <1>4 DEF ArenaInv
  <2> QED
    BY <1>1, <1>2, <2>1 DEF TypeOK
<1>6. AnsweredOnce'
  BY <1>1, <1>2, <1>3 DEF AnsweredOnce
<1> QED
  BY <1>1, <1>2, <1>3, <1>4, <1>5, <1>6 DEF ServerInv

LEMMA ShutdownKeeps ==
  ASSUME ServerInv, Shutdown
  PROVE  ServerInv'
<1>1. /\ at = "read" /\ running /\ FreeAll /\ open' = FALSE /\ at' = "shut down" /\ available' = 0
      /\ UNCHANGED <<request, replies, todo, astray>> /\ running' = running
  BY DEF Shutdown
<1>2. ArenaInv /\ TypeOK /\ ~astray /\ request \in Requests /\ replies = 0 /\ open
  BY <1>1 DEF ServerInv
<1>3. running' \in BOOLEAN /\ running'
  BY <1>1, <1>2 DEF TypeOK, ArenaTypeOK
<1>4. ArenaInv'
  BY <1>1, <1>2, <1>3, FreeAllKeeps
<1>5. TypeOK'
  <2>1. ArenaTypeOK'
    BY <1>4 DEF ArenaInv
  <2> QED
    BY <1>1, <1>2, <2>1 DEF TypeOK
<1>6. AnsweredOnce'
  BY <1>1, <1>3 DEF AnsweredOnce
<1> QED
  BY <1>1, <1>2, <1>3, <1>4, <1>5, <1>6 DEF ServerInv

LEMMA StutterKeeps ==
  ASSUME ServerInv, UNCHANGED vars
  PROVE  ServerInv'
<1>1. /\ UNCHANGED <<pages, head, tail, freeList, open, objects, peak>> /\ running' = running
      /\ UNCHANGED <<at, request, replies, todo, available, astray>>
  BY DEF vars, arenaVars, requestVars
<1>2. ArenaInv /\ TypeOK /\ ~astray
  BY DEF ServerInv
<1>3. running' \in BOOLEAN
  BY <1>1, <1>2 DEF TypeOK, ArenaTypeOK
<1>4. ArenaInv' /\ Sizes' = Sizes
  BY <1>1, <1>2, <1>3, ArenaKept
<1>5. Planned' <=> Planned
  BY <1>1, <1>4 DEF Planned, Unread
<1>6. TypeOK' /\ (AnsweredOnce' <=> AnsweredOnce)
  <2>1. ArenaTypeOK'
    BY <1>4 DEF ArenaInv
  <2> QED
    BY <1>1, <1>2, <2>1 DEF TypeOK, AnsweredOnce
<1> QED
  BY <1>1, <1>2, <1>4, <1>5, <1>6 DEF ServerInv

LEMMA ServerStarts ==
  ASSUME Init
  PROVE  ServerInv
<1>1. /\ ArenaInit /\ at = "wait" /\ request = None /\ available = 0 /\ replies = 0 /\ astray = FALSE
  BY DEF Init
<1>2. ArenaInv /\ open /\ running
  BY <1>1, ArenaStarts DEF ArenaInit
<1>3. ArenaTypeOK
  BY <1>2 DEF ArenaInv
<1>4. TypeOK
  BY <1>1, <1>3 DEF TypeOK
<1>5. AnsweredOnce
  BY <1>1, <1>2 DEF AnsweredOnce, None
<1> QED
  BY <1>1, <1>2, <1>4, <1>5 DEF ServerInv

LEMMA ServerStep ==
  ASSUME ServerInv, [Next]_vars
  PROVE  ServerInv'
BY HandleCompleteMessageKeeps, ReadBytesKeeps, ReadShortKeeps, WriteBytesKeeps, AllocateKeeps,
   ExitKeeps, AnswerKeeps, IgnoreKeeps, ShutdownKeeps, StutterKeeps DEF Next

(* The plan at its end has read the whole message. *)
LEMMA ReadToTheEnd ==
  ASSUME ServerInv
  PROVE  ArgumentsAsSent
<1>1. ObjectsIntact /\ ~astray
  BY ArenaHolds DEF ServerInv
<1>2. ASSUME at = "read", running, todo = <<>> PROVE  available = request.available - RequestBytes(request)
  <2>1. Planned /\ request \in Requests /\ available \in Nat /\ ArenaTypeOK
    BY <1>2 DEF ServerInv, TypeOK
  <2>2. PICK w \in BOOLEAN, end \in State : Executes(St(Sizes, Unread, w), todo, end) /\ end.unread = 0
    BY <2>1 DEF Planned
  <2>3. St(Sizes, Unread, w) = end
    BY <1>2, <2>2, NothingLeft
  <2>4. St(Sizes, Unread, w).unread = Unread
    BY DEF St
  <2>5. Unread = 0
    BY <2>2, <2>3, <2>4
  <2>6. request.available \in Nat /\ RequestBytes(request) \in Nat
    BY <2>1, BytesOfRequest
  <2>7. \A a, b, c \in Nat : a + (c - b) = 0 => a = b - c
    OBVIOUS
  <2> QED
    BY <2>1, <2>5, <2>6, <2>7 DEF Unread, Missing
<1> QED
  BY <1>1, <1>2 DEF ArgumentsAsSent

-----------------------------------------------------------------------------
(* The invariant holds of every run of the server (MinRPCServer,            *)
(* GenericArena), whatever requests arrive and however the platform's pages *)
(* run out.                                                                 *)
THEOREM ServerAlways == Spec => []ServerInv
<1>1. Init => ServerInv
  BY ServerStarts
<1>2. ServerInv /\ [Next]_vars => ServerInv'
  BY ServerStep
<1> QED
  BY <1>1, <1>2, PTL DEF Spec

(* Every variable of the server and its arena keeps its type.               *)
THEOREM TypeCorrect == Spec => []TypeOK
<1>1. ServerInv => TypeOK
  BY DEF ServerInv
<1> QED
  BY <1>1, ServerAlways, PTL

(* Every page of the arena is on one of its lists, whichever pages were     *)
(* recycled in which order; it grows only to hold one request; a shutdown   *)
(* gives all of it back (Alloc, RecycleAll, FreeAll).                       *)
THEOREM ArenaSafe == Spec => [](PagesOnOneList /\ GrowsOnlyWhenNeeded /\ ShutdownReturnsAll)
<1>1. ServerInv => PagesOnOneList /\ GrowsOnlyWhenNeeded /\ ShutdownReturnsAll
  BY ArenaHolds DEF ServerInv
<1> QED
  BY <1>1, ServerAlways, PTL

(* A call gets the arguments its message spells: the server reads the       *)
(* fields that SendPackedSeq writes, to the last byte, each into the object *)
(* it was allocated for (RecvPackedSeq, Alloc), for every list of arguments *)
(* and however many bytes the buffer holds.                                 *)
THEOREM CallGetsItsArguments == Spec => []ArgumentsAsSent
<1>1. ServerInv => ArgumentsAsSent
  BY ReadToTheEnd
<1> QED
  BY <1>1, ServerAlways, PTL

(* Every request is answered once before the next is taken, and only a      *)
(* message the host does not send, or the lack of a page, stops the server  *)
(* (ProcessOnePacket, MicroIOHandler).                                      *)
THEOREM RequestsAnswered == Spec => []AnsweredOnce
<1>1. ServerInv => AnsweredOnce
  BY DEF ServerInv
<1> QED
  BY <1>1, ServerAlways, PTL
=============================================================================
