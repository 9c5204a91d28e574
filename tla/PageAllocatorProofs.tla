------------------------- MODULE PageAllocatorProofs -------------------------
(***************************************************************************)
(* For every pool, every number of callers and requests of any sizes, none  *)
(* included: the manager loses no page, hands none out twice and fails no   *)
(* CHECK, until an address that was cut without pages is freed, or one of   *)
(* the two edges is met that the history ordinary names.                   *)
(***************************************************************************)
EXTENDS PageAllocator, FiniteSetTheorems, TLAPS

USE PoolAssumption, SizeAssumption

(***************************************************************************)
(* The inductive invariant.  The look-aside buffer cuts the used pages into *)
(* blocks; a holder or a free entry stands for each, and never two of them. *)
(* An entry without pages is where the next block will begin, and only bare *)
(* owners have its address.                                                *)
(***************************************************************************)
Cut == {a \in DOMAIN pmap : pmap[a] >= 1}

BlocksCutPool ==
  /\ \A a \in DOMAIN pmap : a < MaxPages /\ (a \in Cut \/ a = num_pages)
  /\ \A a \in Cut : a + pmap[a] <= num_pages
  /\ \A a, b \in Cut : a < b => a + pmap[a] <= b
  /\ \A p \in 0 .. num_pages - 1 : \E a \in Cut : p \in Pages(a, pmap[a])

OwnersHaveBlocks == \A h \in Holders :
  /\ ptr[h] \in Cut
  /\ pmap[ptr[h]] >= PagesFor(bytes[h])
  /\ ~Wraps(bytes[h])

BareAskedNothing == \A h \in bare : PagesFor(bytes[h]) = 0 /\ ~Wraps(bytes[h])

Used == 1 .. num_entries

EntriesAreBlocks == \A i \in Used :
  entries[i].data \in Cut /\ entries[i].num_pages = pmap[entries[i].data]

HeldOnce ==
  /\ \A g, h \in Holders : g # h => ptr[g] # ptr[h]
  /\ \A i, j \in Used : i # j => entries[i].data # entries[j].data
  /\ \A h \in Holders, i \in Used : ptr[h] # entries[i].data

NoneLost == \A a \in Cut :
  (\E h \in Holders : ptr[h] = a) \/ (\E i \in Used : entries[i].data = a)

IInv ==
  /\ TypeOK
  /\ running
  /\ BlocksCutPool
  /\ OwnersHaveBlocks
  /\ BareAskedNothing
  /\ EntriesAreBlocks
  /\ HeldOnce
  /\ NoneLost

Inv == TypeOK /\ (ordinary => IInv)
-----------------------------------------------------------------------------
(* A quotient by the page size rounds down. *)
LEMMA QuotientOfPages ==
  ASSUME NEW n \in Nat
  PROVE  n \div PageSize \in Nat /\ (n < PageSize => n \div PageSize = 0)
OBVIOUS

LEMMA PagesForIsNat ==
  ASSUME NEW n \in Sizes
  PROVE  PagesFor(n) \in Nat
<1>1. n \in Nat /\ n <= WordSize - 1 /\ WordSize \in Nat \ {0}
  OBVIOUS
<1>2. n + PageSize - 1 \in Nat
  BY <1>1
<1>3. (n + PageSize - 1) % WordSize \in Nat
  BY <1>1, <1>2
<1> QED
  BY <1>3, QuotientOfPages DEF PagesFor

(* What does not wrap is rounded up. *)
LEMMA PagesForOrdinary ==
  ASSUME NEW n \in Sizes, ~Wraps(n)
  PROVE  PagesFor(n) = (n + PageSize - 1) \div PageSize
<1>1. n \in Nat /\ n + PageSize - 1 < WordSize /\ n + PageSize - 1 \in Nat
  BY DEF Wraps
<1>2. (n + PageSize - 1) % WordSize = n + PageSize - 1
  BY <1>1
<1> QED
  BY <1>2 DEF PagesFor

(* What wraps is a request for no pages. *)
LEMMA WrapsToNothing ==
  ASSUME NEW n \in Sizes, Wraps(n)
  PROVE  PagesFor(n) = 0
<1> DEFINE sum == n + PageSize - 1
           rest == sum % WordSize
<1>1. /\ n \in Nat /\ n <= WordSize - 1 /\ WordSize \in Nat \ {0}
      /\ sum \in Nat /\ sum >= WordSize /\ sum <= WordSize + PageSize - 2
  BY DEF Wraps
<1>2. rest \in Nat /\ rest < WordSize
  BY <1>1
<1>3. rest < PageSize
  <2>1. CASE WordSize <= PageSize
    BY <1>2, <2>1
  <2>2. CASE WordSize > PageSize
    <3>1. sum - WordSize \in 0 .. WordSize - 1
      BY <1>1, <2>2
    <3>2. rest = sum - WordSize
      <4>1. \A w \in Nat \ {0}, x \in Nat : x < w => (x + w) % w = x
        OBVIOUS
      <4> QED
        BY <1>1, <3>1, <4>1
    <3> QED
      BY <1>1, <3>2
  <2> QED
    BY <1>1, <2>1, <2>2
<1>4. PagesFor(n) = rest \div PageSize
  BY DEF PagesFor
<1> HIDE DEF rest
<1> QED
  BY <1>2, <1>3, <1>4, QuotientOfPages

(* What is in the entries once one of them is erased. *)
LEMMA ErasedEntries ==
  ASSUME TypeOK, NEW i \in Used
  PROVE  /\ Erased(i) \in [Slot -> Page]
         /\ \A j \in 1 .. num_entries - 1 :
              \E k \in Used \ {i} :
                Erased(i)[j] = entries[k] /\ k = IF i <= j THEN j + 1 ELSE j
         /\ \A k \in Used \ {i} :
              \E j \in 1 .. num_entries - 1 : Erased(i)[j] = entries[k]
<1>1. num_entries \in 0 .. MaxPages /\ entries \in [Slot -> Page] /\ i \in 1 .. num_entries
  BY DEF TypeOK, Used
<1>2. Used \subseteq Slot
  BY <1>1 DEF Used, Slot
<1>3. Erased(i) \in [Slot -> Page]
  BY <1>1 DEF Erased, Slot
<1>4. ASSUME NEW j \in 1 .. num_entries - 1
      PROVE  \E k \in Used \ {i} :
               Erased(i)[j] = entries[k] /\ k = IF i <= j THEN j + 1 ELSE j
  <2>1. (IF i <= j THEN j + 1 ELSE j) \in Used \ {i} /\ j \in Slot
    BY <1>1 DEF Used, Slot
  <2>2. Erased(i)[j] = entries[IF i <= j THEN j + 1 ELSE j]
    BY <1>1, <2>1 DEF Erased
  <2> QED
    BY <2>1, <2>2
<1>5. ASSUME NEW k \in Used \ {i}
      PROVE  \E j \in 1 .. num_entries - 1 : Erased(i)[j] = entries[k]
  <2>1. CASE k < i
    <3>1. k \in 1 .. num_entries - 1 /\ k \in Slot /\ ~(i <= k)
      BY <1>1, <2>1 DEF Used, Slot
    <3> QED
      BY <3>1 DEF Erased
  <2>2. CASE k > i
    <3>1. k - 1 \in 1 .. num_entries - 1 /\ k - 1 \in Slot /\ i <= k - 1 /\ (k - 1) + 1 = k
      BY <1>1, <2>2 DEF Used, Slot
    <3>2. k - 1 < num_entries
      BY <1>1, <3>1
    <3>3. Erased(i)[k - 1] = entries[(k - 1) + 1]
      BY <3>1, <3>2 DEF Erased
    <3> QED
      BY <3>1, <3>3
  <2> QED
    BY <1>1, <2>1, <2>2 DEF Used
<1> QED
  BY <1>3, <1>4, <1>5

(* A block an owner holds can be freed: the pool has more pages than there  *)
(* are free blocks, so the free map has a slot left.                       *)
LEMMA OwnerCanFree ==
  ASSUME IInv, NEW h \in Holders
  PROVE  CanFree(ptr[h])
<1>1. num_entries \in 0 .. MaxPages /\ num_pages \in 0 .. MaxPages
  BY DEF IInv, TypeOK
<1>2. ASSUME num_entries + 1 > MaxPages
      PROVE  FALSE
  <2> DEFINE f == [i \in 0 .. num_entries |-> IF i = 0 THEN ptr[h] ELSE entries[i].data]
  <2>1. \A i \in 0 .. num_entries : i # 0 => i \in Used
    BY <1>1 DEF Used
  <2>2. \A a \in DOMAIN pmap : a \in 0 .. MaxPages - 1
    <3>1. \A a \in DOMAIN pmap : a \in Nat /\ a < MaxPages
      BY DEF IInv, TypeOK, BlocksCutPool, Address
    <3> QED
      BY <3>1
  <2>3. f \in [0 .. num_entries -> 0 .. MaxPages - 1]
    BY <2>1, <2>2 DEF IInv, OwnersHaveBlocks, EntriesAreBlocks, Cut
  <2>4. /\ IsFiniteSet(0 .. num_entries) /\ Cardinality(0 .. num_entries) = num_entries + 1
        /\ IsFiniteSet(0 .. MaxPages - 1) /\ Cardinality(0 .. MaxPages - 1) = MaxPages
    <3>1. num_entries \in Int /\ 0 \in Int /\ MaxPages - 1 \in Int /\ ~(0 > num_entries)
      BY <1>1
    <3>2. IsFiniteSet(0 .. num_entries) /\ Cardinality(0 .. num_entries) = num_entries + 1
      BY <1>1, <3>1, FS_Interval
    <3>3. /\ IsFiniteSet(0 .. MaxPages - 1)
          /\ Cardinality(0 .. MaxPages - 1) = IF 0 > MaxPages - 1 THEN 0 ELSE (MaxPages - 1) - 0 + 1
      BY <3>1, FS_Interval
    <3> QED
      BY <3>2, <3>3
  <2>5. PICK i, j \in 0 .. num_entries : i # j /\ f[i] = f[j]
    <3> HIDE DEF f
    <3> QED
      BY <1>1, <1>2, <2>3, <2>4, FS_PigeonHole
  <2>6. CASE i = 0
    BY <2>1, <2>5, <2>6 DEF IInv, HeldOnce
  <2>7. CASE j = 0
    BY <2>1, <2>5, <2>7 DEF IInv, HeldOnce
  <2>8. CASE i # 0 /\ j # 0
    BY <2>1, <2>5, <2>8 DEF IInv, HeldOnce
  <2> QED
    BY <2>6, <2>7, <2>8
<1>3. ptr[h] \in DOMAIN pmap
  BY DEF IInv, OwnersHaveBlocks, Cut
<1> QED
  BY <1>1, <1>2, <1>3 DEF CanFree
-----------------------------------------------------------------------------
LEMMA InitInv == Init => Inv
<1> SUFFICES ASSUME Init PROVE Inv
  OBVIOUS
<1>1. /\ Owners = {} /\ Holders = {} /\ bare = {} /\ Used = {}
      /\ DOMAIN pmap = {} /\ Cut = {} /\ 0 .. num_pages - 1 = {}
  BY DEF Init, Owners, Holders, Used, Cut
<1>2. TypeOK
  <2>1. ZeroPage \in Page
    BY DEF ZeroPage, Page
  <2> QED
    BY <1>1, <2>1 DEF Init, TypeOK
<1>3. running
  BY DEF Init
<1> QED
  BY <1>1, <1>2, <1>3 DEF Inv, IInv, BlocksCutPool, OwnersHaveBlocks, BareAskedNothing, EntriesAreBlocks,
                          HeldOnce, NoneLost

(* A caller becomes an owner; the others stay what they were. *)
LEMMA GrantOwners ==
  ASSUME TypeOK, NEW h \in Handles, h \notin Owners, NEW n \in Sizes,
         NEW data \in Address \cup {NULL}, Grant(h, n, data)
  PROVE  /\ Owners' = Owners \cup {h}
         /\ ptr'[h] = data /\ bytes'[h] = n
         /\ \A g \in Owners : g # h /\ ptr'[g] = ptr[g] /\ bytes'[g] = bytes[g]
         /\ vleak_size' \in Int
         /\ ptr' \in [Handles -> Address \cup {NULL, Unset}]
         /\ bytes' \in [Handles -> Sizes \cup {NULL}]
<1>1. n # NULL
  BY DEF NULL
<1>2. /\ ptr \in [Handles -> Address \cup {NULL, Unset}]
      /\ bytes \in [Handles -> Sizes \cup {NULL}]
      /\ vleak_size \in Int
  BY DEF TypeOK
<1>3. ptr' = [ptr EXCEPT ![h] = data] /\ bytes' = [bytes EXCEPT ![h] = n] /\ vleak_size' = vleak_size + 1
  BY DEF Grant
<1>4. \A g \in Handles : g # h => ptr'[g] = ptr[g] /\ bytes'[g] = bytes[g]
  BY <1>2, <1>3
<1>5. ptr'[h] = data /\ bytes'[h] = n
  BY <1>2, <1>3
<1>6. Owners' = Owners \cup {h}
  BY <1>1, <1>4, <1>5 DEF Owners
<1> QED
  BY <1>2, <1>3, <1>4, <1>5, <1>6 DEF Owners

(* It holds a block unless it is bare. *)
LEMMA GrantHolders ==
  ASSUME TypeOK, NEW h \in Handles, h \notin Owners, Owners' = Owners \cup {h}
  PROVE  /\ bare' = bare => Holders' = Holders \cup {h}
         /\ bare' = bare \cup {h} => Holders' = Holders
         /\ Holders \subseteq Owners /\ h \notin Holders
BY DEF TypeOK, Holders

(* PageMemoryManager_Allocate from the free map. *)
LEMMA AllocateFreeKeepsIInv ==
  ASSUME IInv, ordinary', NEW h \in Handles, h \notin Owners, NEW n \in Sizes,
         AllocateFree(h, n)
  PROVE  IInv'
<1>1. PICK i \in Slot : /\ LowerBound(i, PagesFor(n))
                        /\ entries' = Erased(i) /\ num_entries' = num_entries - 1
                        /\ Grant(h, n, entries[i].data)
                        /\ UNCHANGED <<num_pages, pmap, bare>>
  BY DEF AllocateFree, EntriesLeft
<1>size. ~Wraps(n) /\ ordinary' \in BOOLEAN
  BY DEF AllocateFree, IInv, TypeOK
<1>2. num_entries \in 0 .. MaxPages /\ i \in Used /\ entries[i].num_pages >= PagesFor(n)
  BY <1>1 DEF LowerBound, LargeEnough, IInv, TypeOK, Used, Slot
<1>3. entries[i].data \in Cut /\ pmap[entries[i].data] >= PagesFor(n)
  BY <1>2 DEF IInv, EntriesAreBlocks
<1>4. entries[i].data \in Address
  BY <1>3 DEF IInv, TypeOK, Cut
<1>5. /\ Owners' = Owners \cup {h}
      /\ ptr'[h] = entries[i].data /\ bytes'[h] = n
      /\ \A g \in Owners : g # h /\ ptr'[g] = ptr[g] /\ bytes'[g] = bytes[g]
      /\ vleak_size' \in Int
      /\ ptr' \in [Handles -> Address \cup {NULL, Unset}]
      /\ bytes' \in [Handles -> Sizes \cup {NULL}]
  BY <1>1, <1>4, GrantOwners DEF IInv
<1>holders.
       /\ Holders' = Holders \cup {h} /\ bare' = bare /\ bare' \subseteq Owners'
       /\ Cut' = Cut
       /\ \A g \in Holders : g # h /\ ptr'[g] = ptr[g] /\ bytes'[g] = bytes[g]
       /\ \A g \in bare : bytes'[g] = bytes[g]
  BY <1>1, <1>5, GrantHolders DEF IInv, TypeOK, Cut
<1>6. /\ entries' \in [Slot -> Page]
      /\ \A j \in Used' : \E k \in Used \ {i} :
           entries'[j] = entries[k] /\ k = IF i <= j THEN j + 1 ELSE j
      /\ \A k \in Used \ {i} : \E j \in Used' : entries'[j] = entries[k]
  <2>1. Used' = 1 .. num_entries - 1
    BY <1>1 DEF Used
  <2>2. /\ Erased(i) \in [Slot -> Page]
        /\ \A j \in 1 .. num_entries - 1 :
             \E k \in Used \ {i} :
               Erased(i)[j] = entries[k] /\ k = IF i <= j THEN j + 1 ELSE j
        /\ \A k \in Used \ {i} :
             \E j \in 1 .. num_entries - 1 : Erased(i)[j] = entries[k]
    <3> HIDE DEF Used
    <3> QED
      BY <1>2, ErasedEntries DEF IInv
  <2>3. entries' = Erased(i)
    BY <1>1
  <2> QED
    BY <2>1, <2>2, <2>3
<1>7. TypeOK'
  BY <1>size, <1>holders, <1>1, <1>2, <1>5, <1>6 DEF IInv, TypeOK, Grant, Used
<1>8. running' /\ BlocksCutPool'
  BY <1>holders, <1>1 DEF IInv, Grant, BlocksCutPool, Pages
<1>9. OwnersHaveBlocks' /\ BareAskedNothing'
  BY <1>size, <1>holders, <1>1, <1>3, <1>5 DEF IInv, OwnersHaveBlocks, BareAskedNothing, PagesFor, Wraps
<1>10. EntriesAreBlocks'
  BY <1>holders, <1>1, <1>6 DEF IInv, EntriesAreBlocks
<1>11. HeldOnce'
  <2>1. \A j, k \in Used' : j # k => entries'[j].data # entries'[k].data
    <3> SUFFICES ASSUME NEW j \in Used', NEW k \in Used', j # k
                 PROVE  entries'[j].data # entries'[k].data
      OBVIOUS
    <3>1. PICK s \in Used \ {i} : entries'[j] = entries[s] /\ s = IF i <= j THEN j + 1 ELSE j
      BY <1>6
    <3>2. PICK t \in Used \ {i} : entries'[k] = entries[t] /\ t = IF i <= k THEN k + 1 ELSE k
      BY <1>6
    <3>3. j \in Int /\ k \in Int /\ i \in Int
      BY <1>1, <1>2 DEF Used
    <3>4. s # t
      BY <3>1, <3>2, <3>3
    <3> QED
      BY <3>1, <3>2, <3>4 DEF IInv, HeldOnce
  <2>2. \A g \in Holders' : \A j \in Used' : ptr'[g] # entries'[j].data
    BY <1>holders, <1>2, <1>5, <1>6 DEF IInv, HeldOnce
  <2>3. \A f, g \in Holders' : f # g => ptr'[f] # ptr'[g]
    BY <1>holders, <1>2, <1>5 DEF IInv, HeldOnce
  <2> QED
    BY <2>1, <2>2, <2>3 DEF HeldOnce
<1>12. NoneLost'
  <2> SUFFICES ASSUME NEW a \in Cut
               PROVE  (\E g \in Holders' : ptr'[g] = a) \/ (\E j \in Used' : entries'[j].data = a)
    BY <1>holders DEF NoneLost
  <2>1. CASE \E g \in Holders : ptr[g] = a
    BY <1>holders, <2>1
  <2>2. CASE \E k \in Used : entries[k].data = a
    BY <1>holders, <1>5, <1>6, <2>2
  <2> QED
    BY <2>1, <2>2 DEF IInv, NoneLost
<1> QED
  BY <1>7, <1>8, <1>9, <1>10, <1>11, <1>12 DEF IInv

(* PageMemoryManager_Allocate from the pages that were never used. *)
LEMMA AllocateFreshKeepsIInv ==
  ASSUME IInv, ordinary', NEW h \in Handles, h \notin Owners, NEW n \in Sizes,
         PagesFor(n) # 0, AllocateFresh(h, n)
  PROVE  IInv'
<1> DEFINE m == PagesFor(n)
<1>1. m \in Nat /\ m >= 1 /\ ~Wraps(n) /\ ordinary' \in BOOLEAN
  <2>1. m # 0 /\ ordinary' \in BOOLEAN /\ m \in Nat
    BY PagesForIsNat DEF AllocateFresh, IInv, TypeOK
  <2> HIDE DEF m
  <2>2. m >= 1
    BY <2>1
  <2> QED
    BY <2>1, <2>2, WrapsToNothing DEF m
<1>2. /\ RoomFor(m)
      /\ num_pages' = num_pages + m
      /\ pmap' = [a \in DOMAIN pmap \cup {num_pages} |-> IF a = num_pages THEN m ELSE pmap[a]]
      /\ Grant(h, n, num_pages)
      /\ bare' = bare
      /\ UNCHANGED <<entries, num_entries>>
  BY DEF AllocateFresh, TLBSet
<1> HIDE DEF m
<1>3. num_pages \in Nat /\ num_pages + m <= MaxPages /\ num_pages \in Address
  BY <1>1, <1>2 DEF RoomFor, IInv, TypeOK, Address
<1>4. /\ \A a \in DOMAIN pmap : a \in Nat /\ pmap[a] \in Nat /\ a < MaxPages
      /\ \A a \in Cut : /\ a \in Nat /\ pmap[a] \in Nat
                        /\ pmap[a] >= 1 /\ a + pmap[a] <= num_pages
                        /\ a # num_pages
  <2>1. \A a \in DOMAIN pmap : a \in Nat /\ pmap[a] \in Nat /\ a < MaxPages
    BY DEF IInv, TypeOK, BlocksCutPool, Address
  <2>2. \A a \in Cut : a \in DOMAIN pmap /\ pmap[a] >= 1 /\ a + pmap[a] <= num_pages
    BY DEF IInv, BlocksCutPool, Cut
  <2> QED
    BY <1>3, <2>1, <2>2
<1>5. /\ DOMAIN pmap' = DOMAIN pmap \cup {num_pages}
      /\ pmap'[num_pages] = m
      /\ \A a \in DOMAIN pmap : a # num_pages => pmap'[a] = pmap[a]
  BY <1>2
<1>6. /\ Cut' = Cut \cup {num_pages}
      /\ \A a \in Cut : pmap'[a] = pmap[a]
      /\ \A a \in DOMAIN pmap : a # num_pages => a \in Cut
  BY <1>1, <1>4, <1>5 DEF Cut, IInv, BlocksCutPool
<1>7. /\ Owners' = Owners \cup {h}
      /\ ptr'[h] = num_pages /\ bytes'[h] = n
      /\ \A g \in Owners : g # h /\ ptr'[g] = ptr[g] /\ bytes'[g] = bytes[g]
      /\ vleak_size' \in Int
      /\ ptr' \in [Handles -> Address \cup {NULL, Unset}]
      /\ bytes' \in [Handles -> Sizes \cup {NULL}]
  BY <1>2, <1>3, GrantOwners DEF IInv
<1>8. /\ Holders' = Holders \cup {h} /\ bare' = bare /\ bare' \subseteq Owners'
      /\ \A g \in Holders : g # h /\ ptr'[g] = ptr[g] /\ bytes'[g] = bytes[g]
      /\ \A g \in bare : bytes'[g] = bytes[g]
  BY <1>2, <1>7, GrantHolders DEF IInv, TypeOK
<1>9. TypeOK'
  <2>1. \A a \in DOMAIN pmap' : a \in Address /\ pmap'[a] \in 0 .. MaxPages
    BY <1>1, <1>3, <1>5 DEF IInv, TypeOK
  <2> QED
    BY <1>1, <1>2, <1>3, <1>7, <1>8, <2>1 DEF IInv, TypeOK, Grant
<1>10. running'
  BY <1>2 DEF IInv, Grant
<1>11. BlocksCutPool'
  <2>1. \A a \in DOMAIN pmap' : a < MaxPages /\ (a \in Cut' \/ a = num_pages')
    BY <1>1, <1>3, <1>4, <1>5, <1>6
  <2>2. \A a \in Cut' : a + pmap'[a] <= num_pages'
    BY <1>1, <1>2, <1>3, <1>4, <1>5, <1>6
  <2>3. \A a, b \in Cut' : a < b => a + pmap'[a] <= b
    BY <1>3, <1>4, <1>5, <1>6 DEF IInv, BlocksCutPool
  <2>4. ASSUME NEW p \in 0 .. num_pages' - 1
        PROVE  \E a \in Cut' : p \in (Pages(a, pmap[a]))'
    <3>1. CASE p < num_pages
      <4>1. PICK a \in Cut : p \in Pages(a, pmap[a])
        BY <1>2, <1>3, <2>4, <3>1 DEF IInv, BlocksCutPool
      <4> QED
        BY <1>6, <4>1 DEF Pages
    <3>2. CASE p >= num_pages
      BY <1>1, <1>2, <1>3, <1>5, <1>6, <3>2 DEF Pages
    <3>3. p \in Int
      BY <1>1, <1>2, <1>3, <2>4
    <3> QED
      BY <1>3, <3>1, <3>2, <3>3
  <2> QED
    BY <2>1, <2>2, <2>3, <2>4 DEF BlocksCutPool, Pages
<1>12. OwnersHaveBlocks' /\ BareAskedNothing'
  <2>1. \A g \in Holders' : ptr'[g] \in Cut' /\ pmap'[ptr'[g]] >= PagesFor(bytes'[g])
    BY <1>1, <1>5, <1>6, <1>7, <1>8 DEF IInv, OwnersHaveBlocks, m
  <2>2. \A g \in Holders' : ~Wraps(bytes'[g])
    BY <1>1, <1>7, <1>8 DEF IInv, OwnersHaveBlocks
  <2>3. BareAskedNothing'
    BY <1>8 DEF IInv, BareAskedNothing, PagesFor, Wraps
  <2> QED
    BY <2>1, <2>2, <2>3 DEF OwnersHaveBlocks, PagesFor, Wraps
<1>13. EntriesAreBlocks'
  BY <1>2, <1>6 DEF IInv, EntriesAreBlocks, Used
<1>14. HeldOnce'
  <2>1. \A g \in Holders : ptr[g] # num_pages
    BY <1>4 DEF IInv, OwnersHaveBlocks
  <2>2. \A i \in Used : entries[i].data # num_pages
    BY <1>4 DEF IInv, EntriesAreBlocks
  <2> QED
    BY <1>2, <1>7, <1>8, <2>1, <2>2 DEF IInv, HeldOnce, Used
<1>15. NoneLost'
  BY <1>2, <1>6, <1>7, <1>8 DEF IInv, NoneLost, Used
<1> QED
  BY <1>9, <1>10, <1>11, <1>12, <1>13, <1>14, <1>15 DEF IInv

(* PageMemoryManager_Allocate of no pages: an address without a block. *)
LEMMA AllocateBareKeepsIInv ==
  ASSUME IInv, ordinary', NEW h \in Handles, h \notin Owners, NEW n \in Sizes,
         PagesFor(n) = 0, AllocateFresh(h, n)
  PROVE  IInv'
<1>1. num_pages \in Nat /\ num_pages \in Address /\ num_pages \in 0 .. MaxPages
  BY DEF IInv, TypeOK, Address
<1>2. /\ num_pages' = num_pages
      /\ pmap' = [a \in DOMAIN pmap \cup {num_pages} |-> IF a = num_pages THEN 0 ELSE pmap[a]]
      /\ Grant(h, n, num_pages)
      /\ bare' = bare \cup {h}
      /\ ~Wraps(n) /\ num_pages < MaxPages /\ ordinary' \in BOOLEAN
      /\ UNCHANGED <<entries, num_entries>>
  <2>1. /\ num_pages' = num_pages + 0
        /\ TLBSet(num_pages, 0)
        /\ Grant(h, n, num_pages)
        /\ bare' = bare \cup {h}
        /\ ordinary' = (ordinary /\ ~Wraps(n) /\ num_pages < MaxPages)
        /\ UNCHANGED <<entries, num_entries>>
    BY DEF AllocateFresh
  <2>2. num_pages' = num_pages
    BY <1>1, <2>1
  <2>3. ~Wraps(n) /\ num_pages < MaxPages /\ ordinary' \in BOOLEAN
    BY <2>1
  <2> QED
    BY <2>1, <2>2, <2>3 DEF TLBSet
<1>3. /\ DOMAIN pmap' = DOMAIN pmap \cup {num_pages}
      /\ pmap'[num_pages] = 0
      /\ \A a \in DOMAIN pmap : a # num_pages => pmap'[a] = pmap[a]
  BY <1>2
<1>4. \A a \in Cut : a \in DOMAIN pmap /\ a # num_pages
  <2>1. \A a \in Cut : /\ a \in DOMAIN pmap /\ a \in Nat /\ pmap[a] \in Nat
                       /\ pmap[a] >= 1 /\ a + pmap[a] <= num_pages
    BY DEF IInv, TypeOK, BlocksCutPool, Address, Cut
  <2> QED
    BY <1>1, <2>1
<1>5. Cut' = Cut /\ \A a \in Cut : pmap'[a] = pmap[a]
  BY <1>3, <1>4 DEF Cut
<1>6. /\ Owners' = Owners \cup {h}
      /\ ptr'[h] = num_pages /\ bytes'[h] = n
      /\ \A g \in Owners : g # h /\ ptr'[g] = ptr[g] /\ bytes'[g] = bytes[g]
      /\ vleak_size' \in Int
      /\ ptr' \in [Handles -> Address \cup {NULL, Unset}]
      /\ bytes' \in [Handles -> Sizes \cup {NULL}]
  BY <1>1, <1>2, GrantOwners DEF IInv
<1>7. /\ Holders' = Holders /\ bare' \subseteq Owners'
      /\ \A g \in Holders : ptr'[g] = ptr[g] /\ bytes'[g] = bytes[g]
      /\ \A g \in bare : bytes'[g] = bytes[g]
  BY <1>2, <1>6, GrantHolders DEF IInv, TypeOK
<1>8. TypeOK'
  <2>1. \A a \in DOMAIN pmap' : a \in Address /\ pmap'[a] \in 0 .. MaxPages
    BY <1>1, <1>3 DEF IInv, TypeOK
  <2> QED
    BY <1>2, <1>6, <1>7, <2>1 DEF IInv, TypeOK, Grant
<1>9. running'
  BY <1>2 DEF IInv, Grant
<1>10. BlocksCutPool'
  <2>1. \A a \in DOMAIN pmap' : a < MaxPages /\ (a \in Cut' \/ a = num_pages')
    BY <1>2, <1>3, <1>5 DEF IInv, BlocksCutPool
  <2> QED
    BY <1>2, <1>5, <2>1 DEF IInv, BlocksCutPool, Pages
<1>11. OwnersHaveBlocks' /\ BareAskedNothing'
  BY <1>2, <1>5, <1>6, <1>7 DEF IInv, OwnersHaveBlocks, BareAskedNothing, PagesFor, Wraps
<1>12. EntriesAreBlocks'
  BY <1>2, <1>5 DEF IInv, EntriesAreBlocks, Used
<1>13. HeldOnce'
  BY <1>2, <1>7 DEF IInv, HeldOnce, Used
<1>14. NoneLost'
  BY <1>2, <1>5, <1>7 DEF IInv, NoneLost, Used
<1> QED
  BY <1>8, <1>9, <1>10, <1>11, <1>12, <1>13, <1>14 DEF IInv

(* PageMemoryManager_Allocate without memory. *)
LEMMA AllocateFailsKeepsIInv ==
  ASSUME IInv, NEW h \in Handles, h \notin Owners, NEW n \in Sizes, AllocateFails(h, n)
  PROVE  IInv'
<1>1. ptr' = [ptr EXCEPT ![h] = NULL] /\ UNCHANGED <<manager, running, bytes, bare, ordinary>>
  BY DEF AllocateFails
<1>2. /\ Owners' = Owners /\ Holders' = Holders /\ Used' = Used /\ Cut' = Cut
      /\ \A g \in Owners : ptr'[g] = ptr[g]
      /\ Holders \subseteq Owners
  BY <1>1 DEF Owners, Holders, Cut, Used, manager, IInv, TypeOK
<1>3. TypeOK'
  BY <1>1, <1>2 DEF manager, IInv, TypeOK
<1> QED
  BY <1>1, <1>2, <1>3 DEF manager, IInv, BlocksCutPool, Pages, OwnersHaveBlocks, BareAskedNothing,
                          PagesFor, Wraps,
                          EntriesAreBlocks, HeldOnce, NoneLost

(* PageMemoryManager_Free. *)
LEMMA FreeKeepsIInv ==
  ASSUME IInv, ordinary', NEW h \in Handles, Free(h)
  PROVE  IInv'
<1> DEFINE page == [data |-> ptr[h], num_pages |-> pmap[ptr[h]]]
           last == num_entries + 1
<1>1. /\ h \in Holders /\ CanFree(ptr[h])
      /\ entries' = Inserted(page) /\ num_entries' = last
      /\ vleak_size' = vleak_size - 1
      /\ ptr' = [ptr EXCEPT ![h] = Unset]
      /\ bytes' = [bytes EXCEPT ![h] = NULL]
      /\ bare' = bare /\ ordinary' \in BOOLEAN
      /\ UNCHANGED <<num_pages, pmap, running>>
  <2>1. h \in Holders /\ h \notin bare /\ ordinary' \in BOOLEAN
    BY DEF Free, Holders, IInv, TypeOK
  <2>2. CanFree(ptr[h])
    BY <2>1, OwnerCanFree
  <2> QED
    BY <2>1, <2>2 DEF Free, Release
<1>2. ptr[h] \in Cut /\ ptr[h] \in DOMAIN pmap /\ ptr[h] \in Address /\ pmap[ptr[h]] \in 1 .. MaxPages
  BY <1>1 DEF IInv, TypeOK, OwnersHaveBlocks, Cut
<1>3. num_entries \in 0 .. MaxPages /\ last \in Slot
  BY <1>1 DEF CanFree, IInv, TypeOK, Slot
<1>4. page \in Page /\ entries \in [Slot -> Page]
  BY <1>2 DEF Page, IInv, TypeOK
<1>5. entries' = [entries EXCEPT ![last] = page]
  BY <1>1, <1>2 DEF Inserted
<1>6. Used' = Used \cup {last} /\ last \notin Used /\ Used \subseteq Slot
  BY <1>1, <1>3 DEF Used, Slot
<1>7. /\ Holders' = Holders \ {h} /\ Cut' = Cut
      /\ \A g \in Holders' : g # h /\ ptr'[g] = ptr[g] /\ bytes'[g] = bytes[g]
      /\ \A g \in bare : bytes'[g] = bytes[g]
      /\ bare' \subseteq Owners'
  <2>1. Owners' = Owners \ {h} /\ h \notin bare
    BY <1>1 DEF Owners, Holders, IInv, TypeOK
  <2>2. \A g \in Owners : g # h => ptr'[g] = ptr[g] /\ bytes'[g] = bytes[g]
    BY <1>1 DEF Owners, IInv, TypeOK
  <2> QED
    BY <1>1, <2>1, <2>2 DEF Holders, Cut, IInv, TypeOK
<1>8. entries'[last] = page /\ \A i \in Used : entries'[i] = entries[i]
  BY <1>3, <1>4, <1>5, <1>6
<1>9. TypeOK'
  <2>1. entries' \in [Slot -> Page]
    BY <1>4, <1>5
  <2> QED
    BY <1>1, <1>3, <1>7, <2>1 DEF IInv, TypeOK, Slot
<1>10. running' /\ BlocksCutPool'
  BY <1>1, <1>7 DEF IInv, BlocksCutPool, Pages
<1>11. OwnersHaveBlocks' /\ BareAskedNothing'
  BY <1>1, <1>7 DEF IInv, OwnersHaveBlocks, BareAskedNothing, PagesFor, Wraps
<1>12. EntriesAreBlocks'
  BY <1>1, <1>2, <1>6, <1>7, <1>8 DEF IInv, EntriesAreBlocks
<1>13. HeldOnce'
  <2>1. \A i \in Used : entries'[i].data # ptr[h]
    BY <1>1, <1>8 DEF IInv, HeldOnce
  <2>2. \A g \in Holders' : ptr'[g] # ptr[h]
    BY <1>1, <1>7 DEF IInv, HeldOnce
  <2> QED
    BY <1>6, <1>7, <1>8, <2>1, <2>2 DEF IInv, HeldOnce
<1>14. NoneLost'
  <2> SUFFICES ASSUME NEW a \in Cut
               PROVE  (\E g \in Holders' : ptr'[g] = a) \/ (\E i \in Used' : entries'[i].data = a)
    BY <1>7 DEF NoneLost
  <2>1. CASE a = ptr[h]
    BY <1>6, <1>8, <2>1
  <2>2. CASE a # ptr[h] /\ \E g \in Holders : ptr[g] = a
    BY <1>7, <2>2
  <2>3. CASE \E i \in Used : entries[i].data = a
    BY <1>6, <1>8, <2>3
  <2> QED
    BY <2>1, <2>2, <2>3 DEF IInv, NoneLost
<1> QED
  BY <1>9, <1>10, <1>11, <1>12, <1>13, <1>14 DEF IInv

LEMMA StepKeepsIInv ==
  ASSUME IInv, ordinary', [Next]_vars
  PROVE  IInv'
<1>1. ASSUME NEW h \in Handles, NEW n \in Sizes, Allocate(h, n)
      PROVE  IInv'
  BY <1>1, AllocateFreeKeepsIInv, AllocateFreshKeepsIInv, AllocateBareKeepsIInv,
     AllocateFailsKeepsIInv DEF Allocate
<1>2. ASSUME NEW h \in Handles, Free(h)
      PROVE  IInv'
  BY <1>2, FreeKeepsIInv
<1>3. CASE UNCHANGED vars
  <2>1. UNCHANGED <<num_pages, pmap, entries, num_entries, vleak_size, running, ptr, bytes,
                  bare, ordinary>>
    BY <1>3 DEF vars, manager
  <2> QED
    BY <2>1 DEF IInv, TypeOK, BlocksCutPool, Pages, OwnersHaveBlocks, BareAskedNothing,
                PagesFor, Wraps, EntriesAreBlocks, HeldOnce, NoneLost, Owners, Holders, Used, Cut
<1> QED
  BY <1>1, <1>2, <1>3 DEF Next

(* The types hold whatever is asked for. *)
LEMMA GrantKeepsType ==
  ASSUME TypeOK, NEW h \in Handles, h \notin Owners, NEW n \in Sizes,
         NEW data \in Address \cup {NULL}, Grant(h, n, data),
         num_pages' \in 0 .. MaxPages, num_entries' \in 0 .. MaxPages,
         DOMAIN pmap' \subseteq Address,
         \A a \in DOMAIN pmap' : pmap'[a] \in 0 .. MaxPages,
         entries' \in [Slot -> Page], ordinary' \in BOOLEAN,
         bare' \subseteq bare \cup {h}
  PROVE  TypeOK'
<1>1. /\ Owners' = Owners \cup {h}
      /\ vleak_size' \in Int
      /\ ptr' \in [Handles -> Address \cup {NULL, Unset}]
      /\ bytes' \in [Handles -> Sizes \cup {NULL}]
  BY GrantOwners
<1>2. bare' \subseteq Owners'
  BY <1>1 DEF TypeOK
<1>3. running' \in BOOLEAN
  BY DEF Grant, TypeOK
<1> QED
  BY <1>1, <1>2, <1>3 DEF TypeOK

LEMMA AllocateKeepsType ==
  ASSUME TypeOK, NEW h \in Handles, NEW n \in Sizes, Allocate(h, n)
  PROVE  TypeOK'
<1>0. h \notin Owners
  BY DEF Allocate
<1>1. CASE AllocateFree(h, n)
  <2>1. PICK i \in Slot : /\ LowerBound(i, PagesFor(n))
                          /\ entries' = Erased(i) /\ num_entries' = num_entries - 1
                          /\ Grant(h, n, entries[i].data)
                          /\ UNCHANGED <<num_pages, pmap, bare>>
                          /\ ordinary' \in BOOLEAN
    BY <1>1 DEF AllocateFree, EntriesLeft
  <2>2. num_entries \in 0 .. MaxPages /\ i \in Used
    BY <2>1 DEF LowerBound, LargeEnough, TypeOK, Used, Slot
  <2>3. entries' \in [Slot -> Page]
    <3> HIDE DEF Used
    <3> QED
      BY <2>1, <2>2, ErasedEntries
  <2>4. entries[i].data \in Address \cup {NULL}
    BY <2>1 DEF TypeOK, Page
  <2>5. num_entries' \in 0 .. MaxPages
    BY <2>1, <2>2 DEF Used
  <2>6. /\ num_pages' \in 0 .. MaxPages /\ DOMAIN pmap' \subseteq Address
        /\ \A a \in DOMAIN pmap' : pmap'[a] \in 0 .. MaxPages
    BY <2>1 DEF TypeOK
  <2> QED
    BY <1>0, <2>1, <2>3, <2>4, <2>5, <2>6, GrantKeepsType
<1>2. CASE AllocateFresh(h, n)
  <2> DEFINE m == PagesFor(n)
  <2>1. m \in Nat
    BY PagesForIsNat
  <2>2. /\ RoomFor(m)
        /\ num_pages' = num_pages + m
        /\ pmap' = [a \in DOMAIN pmap \cup {num_pages} |-> IF a = num_pages THEN m ELSE pmap[a]]
        /\ Grant(h, n, num_pages)
        /\ UNCHANGED <<entries, num_entries>>
        /\ ordinary' \in BOOLEAN /\ bare' \subseteq bare \cup {h}
    BY <1>2 DEF AllocateFresh, TLBSet
  <2> HIDE DEF m
  <2>3. num_pages \in Nat /\ num_pages + m <= MaxPages /\ num_pages \in Address
    BY <2>1, <2>2 DEF RoomFor, TypeOK, Address
  <2>4. /\ DOMAIN pmap' = DOMAIN pmap \cup {num_pages}
        /\ \A a \in DOMAIN pmap' : pmap'[a] = IF a = num_pages THEN m ELSE pmap[a]
    BY <2>2
  <2>5. /\ DOMAIN pmap' \subseteq Address
        /\ \A a \in DOMAIN pmap' : pmap'[a] \in 0 .. MaxPages
    BY <2>1, <2>3, <2>4 DEF TypeOK
  <2>6. /\ num_pages' \in 0 .. MaxPages /\ num_entries' \in 0 .. MaxPages
        /\ entries' \in [Slot -> Page] /\ num_pages \in Address \cup {NULL}
    BY <2>1, <2>2, <2>3 DEF TypeOK
  <2> QED
    BY <1>0, <2>2, <2>5, <2>6, GrantKeepsType
<1>3. CASE AllocateFails(h, n)
  BY <1>3 DEF AllocateFails, manager, TypeOK, Owners
<1> QED
  BY <1>1, <1>2, <1>3 DEF Allocate

LEMMA FreeKeepsType ==
  ASSUME TypeOK, NEW h \in Handles, Free(h)
  PROVE  TypeOK'
<1>1. CASE CanFree(ptr[h])
  <2>1. Release(h) /\ ptr[h] \in DOMAIN pmap /\ num_entries + 1 <= MaxPages
    BY <1>1 DEF Free, CanFree
  <2>2. [data |-> ptr[h], num_pages |-> pmap[ptr[h]]] \in Page
    BY <2>1 DEF TypeOK, Page
  <2>3. entries' \in [Slot -> Page]
    BY <2>1, <2>2 DEF Release, Inserted, TypeOK
  <2>4. bare' \subseteq Owners' /\ ordinary' \in BOOLEAN
    BY <2>1 DEF Free, Release, Owners, TypeOK
  <2> QED
    BY <2>1, <2>3, <2>4 DEF Release, TypeOK
<1>2. CASE ~CanFree(ptr[h])
  BY <1>2 DEF Free, manager, TypeOK, Owners
<1> QED
  BY <1>1, <1>2

(* What is no longer ordinary stays so. *)
LEMMA OrdinaryBefore ==
  ASSUME [Next]_vars, ordinary'
  PROVE  ordinary
BY DEF Next, Allocate, AllocateFree, AllocateFresh, AllocateFails, Free, Release, vars

LEMMA StepKeepsInv == Inv /\ [Next]_vars => Inv'
<1> SUFFICES ASSUME Inv, [Next]_vars PROVE Inv'
  OBVIOUS
<1>1. TypeOK'
  <2>1. CASE UNCHANGED vars
    BY <2>1 DEF vars, manager, Inv, TypeOK, Owners
  <2> QED
    BY <2>1, AllocateKeepsType, FreeKeepsType DEF Next, Inv
<1>2. ASSUME ordinary'
      PROVE  IInv'
  BY <1>2, OrdinaryBefore, StepKeepsIInv DEF Inv
<1> QED
  BY <1>1, <1>2 DEF Inv
-----------------------------------------------------------------------------
(* What the invariant says of the properties the runs check. *)
LEMMA BlockIsInterval ==
  ASSUME IInv, NEW a \in Cut
  PROVE  /\ a \in Nat /\ pmap[a] \in Nat /\ pmap[a] >= 1
         /\ a + pmap[a] <= num_pages /\ num_pages \in 0 .. MaxPages
BY DEF IInv, TypeOK, BlocksCutPool, Address, Cut

LEMMA BlocksDisjoint ==
  ASSUME IInv, NEW a \in Cut, NEW b \in Cut, a # b
  PROVE  Pages(a, pmap[a]) \cap Pages(b, pmap[b]) = {}
<1>1. a \in Nat /\ pmap[a] \in Nat /\ b \in Nat /\ pmap[b] \in Nat
  BY BlockIsInterval
<1>2. (a < b => a + pmap[a] <= b) /\ (b < a => b + pmap[b] <= a)
  BY DEF IInv, BlocksCutPool
<1> QED
  BY <1>1, <1>2 DEF Pages

LEMMA IInvPartition ==
  ASSUME IInv
  PROVE  Partition
<1>1. \A h \in Holders : ptr[h] \in Cut /\ Block(h) = Pages(ptr[h], pmap[ptr[h]])
  BY DEF IInv, OwnersHaveBlocks, Block
<1>2. \A i \in Used : /\ entries[i].data \in Cut
                      /\ FreeBlock(i) = Pages(entries[i].data, pmap[entries[i].data])
  BY DEF IInv, EntriesAreBlocks, FreeBlock
<1>3. \A g, h \in Holders : g # h => Block(g) \cap Block(h) = {}
  BY <1>1, BlocksDisjoint DEF IInv, HeldOnce
<1>4. \A i, j \in Used : i # j => FreeBlock(i) \cap FreeBlock(j) = {}
  BY <1>2, BlocksDisjoint DEF IInv, HeldOnce
<1>5. \A h \in Holders, i \in Used : Block(h) \cap FreeBlock(i) = {}
  BY <1>1, <1>2, BlocksDisjoint DEF IInv, HeldOnce
<1> DEFINE covered == UNION ({Block(h) : h \in Holders} \cup {FreeBlock(i) : i \in Used})
<1>6. ASSUME NEW p \in 0 .. num_pages - 1
      PROVE  p \in covered
  <2>1. PICK a \in Cut : p \in Pages(a, pmap[a])
    BY DEF IInv, BlocksCutPool
  <2>2. (\E h \in Holders : p \in Block(h)) \/ (\E i \in Used : p \in FreeBlock(i))
    BY <1>1, <1>2, <2>1 DEF IInv, NoneLost
  <2> QED
    BY <2>2
<1>7. ASSUME NEW a \in Cut, NEW p \in Pages(a, pmap[a])
      PROVE  p \in 0 .. num_pages - 1
  BY BlockIsInterval DEF Pages
<1>8. ASSUME NEW p \in covered
      PROVE  p \in 0 .. num_pages - 1
  BY <1>1, <1>2, <1>7, <1>8
<1>9. 0 .. num_pages - 1 = covered
  <2> HIDE DEF covered
  <2> QED
    BY <1>6, <1>8
<1> QED
  BY <1>3, <1>4, <1>5, <1>9 DEF Partition, Used

LEMMA IInvGrantFits ==
  ASSUME IInv
  PROVE  GrantFits
<1> SUFFICES ASSUME NEW h \in Owners, NEW p \in Asked(h)
             PROVE  p \in 0 .. MaxPages - 1
  BY DEF GrantFits
<1>1. bytes[h] \in Sizes /\ ~Wraps(bytes[h])
  BY DEF Owners, Holders, IInv, TypeOK, OwnersHaveBlocks, BareAskedNothing
<1>2. PagesFor(bytes[h]) \in Nat /\ Asked(h) = Pages(ptr[h], PagesFor(bytes[h]))
  BY <1>1, PagesForIsNat, PagesForOrdinary DEF Asked
<1>3. CASE h \in bare
  <2>1. Asked(h) = ptr[h] .. ptr[h] + 0 - 1 /\ ptr[h] \in Int
    BY <1>2, <1>3 DEF IInv, TypeOK, BareAskedNothing, Pages, Owners, Address, NULL, Unset
  <2> QED
    BY <2>1
<1>4. CASE h \in Holders
  <2>1. ptr[h] \in Cut /\ pmap[ptr[h]] >= PagesFor(bytes[h])
    BY <1>4 DEF IInv, OwnersHaveBlocks
  <2>2. /\ ptr[h] \in Nat /\ pmap[ptr[h]] \in Nat
        /\ ptr[h] + pmap[ptr[h]] <= num_pages /\ num_pages \in 0 .. MaxPages
    BY <2>1, BlockIsInterval
  <2> QED
    BY <1>2, <2>1, <2>2 DEF Pages
<1> QED
  BY <1>3, <1>4 DEF Holders

LEMMA IInvTLBHasRoom ==
  ASSUME IInv
  PROVE  TLBHasRoom
<1>1. \A a \in DOMAIN pmap : a \in 0 .. MaxPages - 1
  BY DEF IInv, TypeOK, BlocksCutPool, Address
<1>2. IsFiniteSet(0 .. MaxPages - 1) /\ Cardinality(0 .. MaxPages - 1) = MaxPages
  BY FS_Interval
<1>3. Cardinality(DOMAIN pmap) <= Cardinality(0 .. MaxPages - 1)
  BY <1>1, <1>2, FS_Subset
<1> QED
  BY <1>2, <1>3 DEF TLBHasRoom, InTLB

(* However callers allocate and free, and whatever sizes they ask for: until *)
(* an address without pages is freed, every page that was cut from the pool  *)
(* is in one block of one holder or of the free map, each owner has the      *)
(* pages it asked for inside the pool, the look-aside buffer has room, and   *)
(* no CHECK fails.  An address without pages is what the executor gets for   *)
(* the inputs of a null node; having it, and handing out more, is harmless.  *)
THEOREM PoolSafe ==
  Spec => [](TypeOK /\ PagesPartitioned /\ GrantFits /\ TLBHasRoom /\ OwnersNeverAbort)
<1>1. Inv => TypeOK /\ PagesPartitioned /\ GrantFits /\ TLBHasRoom /\ OwnersNeverAbort
  BY IInvPartition, IInvGrantFits, IInvTLBHasRoom
     DEF Inv, IInv, PagesPartitioned, GrantFits, TLBHasRoom, OwnersNeverAbort
<1> QED
  BY InitInv, StepKeepsInv, <1>1, PTL DEF Spec
-----------------------------------------------------------------------------
(* Refinement: a caller becomes the owner of a block no other owner has.    *)
LEMMA GrantMaps ==
  ASSUME IInv, NEW h \in Handles, h \notin Holders, NEW a \in Nat, NEW m \in Nat \ {0},
         a + m <= MaxPages,
         \A g \in Holders : Block(g) \cap Pages(a, m) = {},
         Holders' = Holders \cup {h},
         Block(h)' = Pages(a, m),
         \A g \in Holders : Block(g)' = Block(g)
  PROVE  Promise!Allocate(h)
<1>1. HeldBlocks[h] = {}
  BY DEF HeldBlocks
<1>2. HeldBlocks' = [HeldBlocks EXCEPT ![h] = Pages(a, m)]
  <2>1. HeldBlocks' = [g \in Handles |-> IF g = h THEN Pages(a, m) ELSE HeldBlocks[g]]
    BY DEF HeldBlocks
  <2> QED
    BY <2>1 DEF HeldBlocks
<1>3. \A g \in Handles : HeldBlocks[g] \cap Pages(a, m) = {}
  BY DEF HeldBlocks
<1>4. a \in 0 .. MaxPages - 1 /\ m \in 1 .. MaxPages - a
  OBVIOUS
<1>5. Promise!Interval(a, m) = Pages(a, m)
  BY DEF Promise!Interval, Pages
<1> QED
  BY <1>1, <1>2, <1>3, <1>4, <1>5 DEF Promise!Allocate

LEMMA AllocateMaps ==
  ASSUME IInv, ordinary', NEW h \in Handles, NEW n \in Sizes, Allocate(h, n)
  PROVE  Promise!Allocate(h) \/ UNCHANGED HeldBlocks
<1>0. h \notin Owners /\ h \notin Holders /\ Holders \subseteq Owners
  BY DEF Allocate, Holders
<1>1. CASE AllocateFree(h, n)
  <2>1. PICK i \in Slot : /\ LowerBound(i, PagesFor(n))
                          /\ Grant(h, n, entries[i].data)
                          /\ UNCHANGED <<num_pages, pmap, bare>>
    BY <1>1 DEF AllocateFree
  <2> DEFINE a == entries[i].data
  <2>2. i \in Used
    BY <2>1 DEF LowerBound, LargeEnough, IInv, TypeOK, Used, Slot
  <2>3. a \in Cut /\ a \in Address
    BY <2>2 DEF IInv, TypeOK, EntriesAreBlocks, Cut
  <2>4. a \in Nat /\ pmap[a] \in Nat \ {0} /\ a + pmap[a] <= MaxPages
    BY <2>3, BlockIsInterval
  <2>5. /\ Owners' = Owners \cup {h}
        /\ ptr'[h] = a
        /\ \A g \in Owners : g # h /\ ptr'[g] = ptr[g]
    BY <1>0, <2>1, <2>3, GrantOwners DEF IInv
  <2>6. Holders' = Holders \cup {h}
    BY <1>0, <2>1, <2>5, GrantHolders DEF IInv
  <2>7. Block(h)' = Pages(a, pmap[a]) /\ \A g \in Holders : Block(g)' = Block(g)
    BY <1>0, <2>1, <2>5 DEF Block, Pages
  <2>8. \A g \in Holders : Block(g) \cap Pages(a, pmap[a]) = {}
    BY <2>2, <2>3, BlocksDisjoint DEF IInv, OwnersHaveBlocks, HeldOnce, Block
  <2> HIDE DEF a
  <2> QED
    BY <1>0, <2>4, <2>6, <2>7, <2>8, GrantMaps
<1>2. CASE AllocateFresh(h, n)
  <2> DEFINE m == PagesFor(n)
  <2>1. /\ num_pages + m <= MaxPages
        /\ pmap' = [a \in DOMAIN pmap \cup {num_pages} |-> IF a = num_pages THEN m ELSE pmap[a]]
        /\ Grant(h, n, num_pages)
        /\ bare' = IF m = 0 THEN bare \cup {h} ELSE bare
    BY <1>2 DEF AllocateFresh, RoomFor, TLBSet
  <2>2. m \in Nat
    BY PagesForIsNat
  <2> HIDE DEF m
  <2>3. num_pages \in Nat /\ num_pages \in Address
    BY DEF IInv, TypeOK, Address
  <2>4. /\ Owners' = Owners \cup {h}
        /\ ptr'[h] = num_pages
        /\ \A g \in Owners : g # h /\ ptr'[g] = ptr[g]
    BY <1>0, <2>1, <2>3, GrantOwners DEF IInv
  <2>5. \A g \in Holders : ptr[g] \in Cut /\ ptr[g] \in DOMAIN pmap /\ ptr[g] # num_pages
    <3>1. \A a \in Cut : a \in DOMAIN pmap /\ a # num_pages
      <4>1. \A a \in Cut : /\ a \in Nat /\ pmap[a] \in Nat /\ pmap[a] >= 1
                           /\ a + pmap[a] <= num_pages
        BY BlockIsInterval
      <4> QED
        BY <2>3, <4>1 DEF Cut
    <3> QED
      BY <3>1 DEF IInv, OwnersHaveBlocks
  <2>6. \A g \in Holders : Block(g)' = Block(g)
    BY <1>0, <2>1, <2>4, <2>5 DEF Block, Pages
  <2>7. CASE m = 0
    <3>1. Holders' = Holders
      BY <1>0, <2>1, <2>4, <2>7, GrantHolders DEF IInv
    <3> QED
      BY <2>6, <3>1 DEF HeldBlocks
  <2>8. CASE m # 0
    <3>1. Holders' = Holders \cup {h}
      BY <1>0, <2>1, <2>4, <2>8, GrantHolders DEF IInv
    <3>2. Block(h)' = Pages(num_pages, m)
      BY <2>1, <2>4 DEF Block, Pages
    <3>3. ASSUME NEW g \in Holders
          PROVE  Block(g) \cap Pages(num_pages, m) = {}
      BY <2>2, <2>3, <2>5, BlockIsInterval DEF Block, Pages
    <3>4. m \in Nat \ {0}
      BY <2>2, <2>8
    <3> QED
      BY <1>0, <2>1, <2>3, <2>6, <3>1, <3>2, <3>3, <3>4, GrantMaps
  <2> QED
    BY <2>7, <2>8
<1>3. CASE AllocateFails(h, n)
  <2>1. Holders' = Holders /\ \A g \in Holders : Block(g)' = Block(g)
    BY <1>0, <1>3 DEF AllocateFails, manager, Owners, Holders, Block, Pages, IInv, TypeOK
  <2> QED
    BY <2>1 DEF HeldBlocks
<1> QED
  BY <1>1, <1>2, <1>3 DEF Allocate

LEMMA FreeMaps ==
  ASSUME IInv, ordinary', NEW h \in Handles, Free(h)
  PROVE  Promise!Free(h)
<1>1. h \in Holders /\ Release(h) /\ bare' = bare /\ UNCHANGED pmap
  <2>1. h \in Holders /\ h \notin bare
    BY DEF Free, Holders, IInv, TypeOK
  <2> QED
    BY <2>1, OwnerCanFree DEF Free, Release
<1>2. /\ Holders' = Holders \ {h}
      /\ \A g \in Holders' : g # h /\ ptr'[g] = ptr[g]
  <2>1. /\ Owners' = Owners \ {h}
        /\ \A g \in Owners : g # h => ptr'[g] = ptr[g]
    BY <1>1 DEF Release, Owners, Holders, IInv, TypeOK
  <2> QED
    BY <1>1, <2>1 DEF Holders
<1>3. \A g \in Holders' : Block(g)' = Block(g)
  BY <1>1, <1>2 DEF Block, Pages
<1>4. HeldBlocks' = [HeldBlocks EXCEPT ![h] = {}]
  <2>1. HeldBlocks' = [g \in Handles |-> IF g = h THEN {} ELSE HeldBlocks[g]]
    BY <1>1, <1>2, <1>3 DEF HeldBlocks
  <2> QED
    BY <2>1 DEF HeldBlocks
<1>5. HeldBlocks[h] # {}
  <2>1. ptr[h] \in Block(h)
    BY <1>1, BlockIsInterval DEF IInv, OwnersHaveBlocks, Block, Pages
  <2> QED
    BY <1>1, <2>1 DEF HeldBlocks
<1> QED
  BY <1>4, <1>5 DEF Promise!Free

(* The page memory manager keeps the promise of TVMPlatformMemoryAllocate   *)
(* and TVMPlatformMemoryFree that module BlockAllocator states, until an    *)
(* address without pages is freed.  To hand one out changes no block.       *)
THEOREM ManagerKeepsPromise == Spec => KeepsPromise
<1>1. Init => Promise!Init
  BY DEF Init, Promise!Init, HeldBlocks, Holders, Owners
<1>2. Inv /\ [Next]_vars => [ordinary' => Promise!Next]_HeldBlocks
  <2> SUFFICES ASSUME Inv, [Next]_vars, ordinary' PROVE [Promise!Next]_HeldBlocks
    OBVIOUS
  <2>0. IInv
    BY OrdinaryBefore DEF Inv
  <2>1. ASSUME NEW h \in Handles, NEW n \in Sizes, Allocate(h, n)
        PROVE  [Promise!Next]_HeldBlocks
    BY <2>0, <2>1, AllocateMaps DEF Promise!Next
  <2>2. ASSUME NEW h \in Handles, Free(h)
        PROVE  [Promise!Next]_HeldBlocks
    BY <2>0, <2>2, FreeMaps DEF Promise!Next
  <2>3. CASE UNCHANGED vars
    BY <2>3 DEF vars, manager, HeldBlocks, Holders, Owners, Block, Pages
  <2> QED
    BY <2>1, <2>2, <2>3 DEF Next
<1> QED
  BY InitInv, StepKeepsInv, <1>1, <1>2, PTL DEF Spec, KeepsPromise
=============================================================================
