---------------------------- MODULE PageAllocator ----------------------------
(***************************************************************************)
(* The page memory manager (memory/page_allocator.c) behind                *)
(* TVMPlatformMemoryAllocate and TVMPlatformMemoryFree.  A block is taken  *)
(* from the list of free blocks, whole, or cut from the pages of the pool  *)
(* that were never used; the translation look-aside buffer remembers the   *)
(* page count of the block at an address.  An address is the number of a   *)
(* page of the pool.  The table ptable.page is written and never read, so  *)
(* only its length is kept.                                                *)
(***************************************************************************)
EXTENDS Integers, FiniteSets

CONSTANTS
  Handles,   \* the callers' pointer variables
  MaxPages,  \* pages in the pool, and slots in each of the manager's tables
  PageSize,  \* bytes in a page: 256
  WordSize,  \* 2^w, w the width of size_t: 2^32
  Sizes      \* the numbers of bytes that are asked for

ASSUME PoolAssumption == MaxPages \in Nat /\ PageSize \in Nat \ {0}
ASSUME SizeAssumption == WordSize \in Nat /\ Sizes \subseteq 0 .. WordSize - 1

NULL  == -1  \* the null pointer, and the data of a slot never written
Unset == -2  \* what a pointer variable holds before it is passed

Address   == 0 .. MaxPages
Page      == [data : Address \cup {NULL}, num_pages : 0 .. MaxPages]
ZeroPage  == [data |-> NULL, num_pages |-> 0]

VARIABLES
  num_pages,    \* ptable.num_pages: pages of the pool in use or free again
  pmap,         \* the look-aside buffer: page counts by address
  entries,      \* free_map.entries, the slots past num_entries included
  num_entries,  \* free_map.num_entries
  vleak_size,   \* interface.vleak_size
  running,      \* no CHECK has failed
  ptr,          \* the callers' pointer variables
  bytes,        \* the size of the block a variable owns, NULL: it owns none
  bare,         \* history: owners of an address that was cut without pages
  ordinary      \* history: no bare owner has freed its address, none got the
                \* one behind the pool, and no rounding wrapped in a grant

manager == <<num_pages, pmap, entries, num_entries, vleak_size>>
vars == <<manager, running, ptr, bytes, bare, ordinary>>

Slot == 1 .. MaxPages
Owners == {h \in Handles : bytes[h] # NULL}
Holders == Owners \ bare

(* PageMemoryManagerCreate: the pool and the tables are cleared. *)
Init ==
  /\ num_pages = 0
  /\ pmap = [a \in {} |-> 0]
  /\ entries = [i \in Slot |-> ZeroPage]
  /\ num_entries = 0
  /\ vleak_size = 0
  /\ running = TRUE
  /\ ptr = [h \in Handles |-> Unset]
  /\ bytes = [h \in Handles |-> NULL]
  /\ bare = {}
  /\ ordinary = TRUE

(* The pages for a request.  The sum is taken in a size_t, and a request    *)
(* for no bytes, or for so many that the sum wraps, is one for no pages.    *)
PagesFor(num_bytes) == ((num_bytes + PageSize - 1) % WordSize) \div PageSize
Wraps(num_bytes) == num_bytes + PageSize - 1 >= WordSize

(* MultiMap_LowerBound: the first entry with enough pages; the entries are  *)
(* in the order of the frees, not by size.                                 *)
AnyEntry(i, npage) == i <= num_entries                           \* mutant
LargeEnough(i, npage) == i <= num_entries /\ entries[i].num_pages >= npage
LowerBound(i, npage) ==
  LargeEnough(i, npage) /\ \A j \in 1 .. i - 1 : ~LargeEnough(j, npage)

(* MultiMap_Erase: the entries behind it move down; the last slot keeps its *)
(* old value.                                                              *)
EraseShort(i) ==                                                 \* mutant
  [j \in Slot |-> IF i < j /\ j < num_entries THEN entries[j + 1] ELSE entries[j]]
Erased(i) ==
  [j \in Slot |-> IF i <= j /\ j < num_entries THEN entries[j + 1] ELSE entries[j]]
StillCounted == num_entries                                      \* mutant
EntriesLeft  == num_entries - 1

(* MultiMap_Insert: a block of no pages is counted but not written, its     *)
(* loop runs num_pages times over the same slot.                           *)
Inserted(page) ==
  IF page.num_pages = 0 THEN entries
                        ELSE [entries EXCEPT ![num_entries + 1] = page]

Grant(h, num_bytes, data) ==
  /\ ptr' = [ptr EXCEPT ![h] = data]
  /\ bytes' = [bytes EXCEPT ![h] = num_bytes]
  /\ vleak_size' = vleak_size + 1
  /\ UNCHANGED running

(* PageMemoryManager_Allocate, its branches. *)
AllocateFree(h, num_bytes) == \E i \in Slot :
  /\ LowerBound(i, PagesFor(num_bytes))
  /\ entries' = Erased(i)
  /\ num_entries' = EntriesLeft
  /\ Grant(h, num_bytes, entries[i].data)
  /\ ordinary' = (ordinary /\ ~Wraps(num_bytes))
  /\ UNCHANGED <<num_pages, pmap, bare>>

(* TLB_Set: one entry for an address, which replaces that of a block        *)
(* without pages there.                                                    *)
FirstKept(data, npage) ==                                        \* mutant
  pmap' = [a \in DOMAIN pmap \cup {data} |-> IF a \in DOMAIN pmap THEN pmap[a] ELSE npage]
TLBSet(data, npage) ==
  pmap' = [a \in DOMAIN pmap \cup {data} |-> IF a = data THEN npage ELSE pmap[a]]

NoneFree(npage) == \A i \in Slot : ~LargeEnough(i, npage)
RoomForOneMore(npage) == num_pages + npage <= MaxPages + 1       \* mutant
RoomUnchecked(npage)  == TRUE                                    \* mutant
RoomFor(npage) == num_pages + npage <= MaxPages

AllocateFresh(h, num_bytes) ==
  LET npage == PagesFor(num_bytes) IN
  /\ NoneFree(npage)
  /\ RoomFor(npage)
  /\ num_pages' = num_pages + npage
  /\ TLBSet(num_pages, npage)
  /\ Grant(h, num_bytes, num_pages)
  /\ bare' = IF npage = 0 THEN bare \cup {h} ELSE bare
  /\ ordinary' = (ordinary /\ ~Wraps(num_bytes) /\ (npage = 0 => num_pages < MaxPages))
  /\ UNCHANGED <<entries, num_entries>>

(* kTvmErrorPlatformNoMemory: *out_ptr was cleared on entry. *)
AllocateFails(h, num_bytes) ==
  LET npage == PagesFor(num_bytes) IN
  /\ NoneFree(npage)
  /\ ~RoomFor(npage)
  /\ ptr' = [ptr EXCEPT ![h] = NULL]
  /\ UNCHANGED <<manager, running, bytes, bare, ordinary>>

Allocate(h, num_bytes) ==
  /\ running
  /\ h \notin Owners
  /\ \/ AllocateFree(h, num_bytes)
     \/ AllocateFresh(h, num_bytes)
     \/ AllocateFails(h, num_bytes)

(* The CHECKs of PageMemoryManager_Free and MultiMap_Insert. *)
CanFree(data) == data \in DOMAIN pmap /\ num_entries + 1 <= MaxPages

Release(h) ==
  /\ entries' = Inserted([data |-> ptr[h], num_pages |-> pmap[ptr[h]]])
  /\ num_entries' = num_entries + 1
  /\ vleak_size' = vleak_size - 1
  /\ ptr' = [ptr EXCEPT ![h] = Unset]
  /\ bytes' = [bytes EXCEPT ![h] = NULL]
  /\ bare' = bare \ {h}
  /\ UNCHANGED <<num_pages, pmap, running>>

(* PageMemoryManager_Free by the owner of a block, once.  A CHECK that fails *)
(* ends the program.                                                       *)
Free(h) ==
  /\ running
  /\ h \in Owners
  /\ IF CanFree(ptr[h])
       THEN Release(h)
       ELSE running' = FALSE /\ UNCHANGED <<manager, ptr, bytes, bare>>
  /\ ordinary' = (ordinary /\ h \notin bare)

(* A slot past the end of pmap.entries is memory of the free map: once it   *)
(* was written to, no more steps are modelled.                             *)
InTLB == Cardinality(DOMAIN pmap) <= MaxPages

Next == InTLB /\ \E h \in Handles :
  \/ \E num_bytes \in Sizes : Allocate(h, num_bytes)
  \/ Free(h)

Spec == Init /\ [][Next]_vars
-----------------------------------------------------------------------------

TypeOK ==
  /\ num_pages \in 0 .. MaxPages
  /\ DOMAIN pmap \subseteq Address
  /\ \A a \in DOMAIN pmap : pmap[a] \in 0 .. MaxPages
  /\ entries \in [Slot -> Page]
  /\ num_entries \in 0 .. MaxPages
  /\ vleak_size \in Int
  /\ running \in BOOLEAN
  /\ ptr \in [Handles -> Address \cup {NULL, Unset}]
  /\ bytes \in [Handles -> Sizes \cup {NULL}]
  /\ bare \subseteq Owners
  /\ ordinary \in BOOLEAN

Pages(first, count) == first .. first + count - 1
(* the block at an owner's address, and the part of it that was asked for *)
Block(h) == Pages(ptr[h], pmap[ptr[h]])
Asked(h) == Pages(ptr[h], (bytes[h] + PageSize - 1) \div PageSize)
FreeBlock(i) == Pages(entries[i].data, entries[i].num_pages)

(***************************************************************************)
(* Requests may be for any number of bytes, none included: the executor    *)
(* asks for none for the inputs of every null node.  When no block is free *)
(* such a request gets the address where the next block will begin, and    *)
(* shares it from then on.  All that follows holds with such bare owners,  *)
(* until one frees its address: that puts the block of another on the free *)
(* map, or counts an entry that was not written.                           *)
(***************************************************************************)

(* The memory an owner asked for lies in the pool, whatever was freed and   *)
(* reused before (PageMemoryManager_Allocate, whole blocks handed out       *)
(* again).                                                                 *)
GrantFits == ordinary => \A h \in Owners : Asked(h) \subseteq 0 .. MaxPages - 1

(* The look-aside buffer has a slot for every entry; entries are only ever  *)
(* added to it, and TLB_Set does not look.                                  *)
TLBHasRoom == ordinary => InTLB

(* Every page that was ever cut from the pool is in one holder's block or   *)
(* in one free block, and in no other: nothing is lost and nothing is free  *)
(* and in use (Erase, Insert, the stale slots behind num_entries, and the   *)
(* entry without pages that the next block's replaces in TLB_Set).          *)
Partition ==
  /\ \A g, h \in Holders : g # h => Block(g) \cap Block(h) = {}
  /\ \A i, j \in 1 .. num_entries : i # j => FreeBlock(i) \cap FreeBlock(j) = {}
  /\ \A h \in Holders, i \in 1 .. num_entries : Block(h) \cap FreeBlock(i) = {}
  /\ 0 .. num_pages - 1 = UNION ({Block(h) : h \in Holders}
                                 \cup {FreeBlock(i) : i \in 1 .. num_entries})
PagesPartitioned == ordinary => Partition

(* An owner that is not bare and frees its block once never makes a CHECK   *)
(* fail (Free, MultiMap_Insert), however often blocks go round.             *)
OwnersNeverAbort == ordinary => running

(* The manager keeps the promise of BlockAllocator: what it hands out is    *)
(* free, and it takes back all of it and nothing else; a bare owner holds   *)
(* nothing.                                                                *)
HeldBlocks == [h \in Handles |-> IF h \in Holders THEN Block(h) ELSE {}]

Promise == INSTANCE BlockAllocator WITH PoolSize <- MaxPages, block <- HeldBlocks

KeepsPromise == Promise!Init /\ [][ordinary' => Promise!Next]_HeldBlocks
=============================================================================
