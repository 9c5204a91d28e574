-------------------------------- MODULE Arena --------------------------------
(***************************************************************************)
(* The arena (support/generic_arena.h) that holds the arguments of one RPC *)
(* request: objects are cut from the page at the head of the active list   *)
(* and never freed one by one.  When the next request arrives all pages    *)
(* but the head go to the front of the free list, linked there through the *)
(* tail pointer.  Pages come from TVMDeviceAllocDataSpace and go back only *)
(* when the server shuts down.                                             *)
(***************************************************************************)
EXTENDS Integers, Sequences, FiniteSets

CONSTANTS
  HeaderSize,  \* sizeof(ArenaPageHeader): 12
  PageSize,    \* kPageSize: 2048
  MaxPages     \* bound: pages the platform has

ASSUME PageAssumption ==
  /\ HeaderSize \in Nat \ {0} /\ PageSize \in Nat /\ HeaderSize < PageSize
  /\ MaxPages \in Nat \ {0}

NULL == 0
PageId == 1 .. MaxPages
Link == PageId \cup {NULL}

VARIABLES
  pages,      \* the headers of the pages the arena has, by address
  head,       \* head_
  tail,       \* tail_
  freeList,   \* free_list_
  open,       \* the server has not shut down
  running,    \* the program is not caught in MicroIOHandler::Exit
  (* history *)
  objects,    \* what the current request was given, in order: page, first byte, size
  peak        \* the most pages the active list ever had

arenaVars == <<pages, head, tail, freeList, open, running, objects, peak>>

Header(next, size, offset) == [next |-> next, size |-> size, offset |-> offset]

(* detail::PageAllocator::allocate rounds up to whole pages. *)
PageBytes(min_size) == ((min_size + PageSize - 1) \div PageSize) * PageSize

(* The constructor allocates the first page; without one main does not get  *)
(* past Exit.                                                               *)
ArenaInit ==
  /\ pages = [p \in {1} |-> Header(NULL, PageBytes(1), HeaderSize)]
  /\ head = 1 /\ tail = 1 /\ freeList = NULL
  /\ open = TRUE /\ running = TRUE
  /\ objects = <<>> /\ peak = 1

-----------------------------------------------------------------------------
UpperAlign(offset, align) == offset + ((align - (offset % align)) % align)

(* The pages met from p on by following next, and whether that comes to an  *)
(* end.                                                                     *)
Walk(p) ==
  LET f[n \in 0 .. MaxPages] ==
        IF n = 0 THEN p
        ELSE IF f[n - 1] \in DOMAIN pages THEN pages[f[n - 1]].next ELSE NULL
  IN  f
List(p) == {Walk(p)[n] : n \in 0 .. MaxPages} \ {NULL}
Ends(p) == Walk(p)[MaxPages] = NULL

Give(p, first, size) ==
  objects' = Append(objects, [page |-> p, first |-> first, size |-> size])

(* The object ends within the page.  Mutant: only its first byte does.      *)
FitsStart(p, offset, size) == offset <= pages[p].size
Fits(p, offset, size)      == offset + size <= pages[p].size

(* Alloc from the page at the head. *)
AllocInHead(size, align) ==
  LET offset == UpperAlign(pages[head].offset, align) IN
  /\ Fits(head, offset, size)
  /\ pages' = [pages EXCEPT ![head].offset = offset + size]
  /\ Give(head, offset, size)
  /\ UNCHANGED <<head, tail, freeList, running, peak>>

HeadFull(size, align) == ~Fits(head, UpperAlign(pages[head].offset, align), size)

(* Only the first free page is considered.  Mutant: none is.                *)
FirstNever(size, offset)    == FALSE
FirstFreeFits(size, offset) == freeList # NULL /\ Fits(freeList, offset, size)

(* A page becomes the head, in front of the pages in use. *)
NewHead(p, bytes, offset, size) ==
  /\ pages' = [q \in DOMAIN pages \cup {p} |->
                 IF q = p THEN Header(head, bytes, offset + size)
                          ELSE pages[q]]
  /\ head' = p
  /\ Give(p, offset, size)
  /\ LET n == Cardinality(List(head)) + 1 IN peak' = IF n > peak THEN n ELSE peak
  /\ UNCHANGED tail

AllocFromFreeList(size, align) ==
  LET offset == UpperAlign(HeaderSize, align) IN
  /\ HeadFull(size, align)
  /\ FirstFreeFits(size, offset)
  /\ NewHead(freeList, pages[freeList].size, offset, size)
  /\ freeList' = pages[freeList].next
  /\ UNCHANGED running

(* The pages of the platform are shared with everything else, so that       *)
(* TVMDeviceAllocDataSpace may fail at any time.                            *)
AllocNewPage(size, align) ==
  LET offset == UpperAlign(HeaderSize, align) IN
  /\ HeadFull(size, align)
  /\ ~FirstFreeFits(size, offset)
  /\ \/ /\ Cardinality(DOMAIN pages) < MaxPages
        /\ NewHead(Cardinality(DOMAIN pages) + 1, PageBytes(offset + size), offset, size)
        /\ UNCHANGED <<freeList, running>>
     \/ /\ running' = FALSE
        /\ UNCHANGED <<pages, head, tail, freeList, objects, peak>>

Alloc(size, align) ==
  /\ \/ AllocInHead(size, align)
     \/ AllocFromFreeList(size, align)
     \/ AllocNewPage(size, align)
  /\ UNCHANGED open

(* RecycleAll, the first thing ProcessOnePacket does.  What tail_->next is  *)
(* set to; head_->next is read after it, and they may be the same page.     *)
(* Mutant: the free list is not linked behind the tail.                     *)
TailNotLinked == pages
TailLinked    == [pages EXCEPT ![tail].next = freeList]

RecycleAll ==
  /\ freeList' = TailLinked[head].next
  /\ pages' = [TailLinked EXCEPT ![head].next = NULL, ![head].offset = HeaderSize]
  /\ tail' = head
  /\ objects' = <<>>
  /\ UNCHANGED <<head, open, running, peak>>

(* The pages FreeAll deallocates.  Mutant: only those in use.               *)
FreedActive == List(head)
Freed       == List(head) \cup List(freeList)

(* Freeing a page that was allocated never fails (OwnersNeverAbort of       *)
(* PageAllocator); tail_ keeps its value.                                   *)
FreeAll ==
  /\ pages' = [p \in DOMAIN pages \ Freed |-> pages[p]]
  /\ head' = NULL /\ freeList' = NULL
  /\ objects' = <<>>
  /\ UNCHANGED <<tail, peak>>

-----------------------------------------------------------------------------
ArenaTypeOK ==
  /\ DOMAIN pages \subseteq PageId
  /\ \A p \in DOMAIN pages :
       /\ pages[p] \in [next : Link, size : Nat, offset : Nat]
       /\ HeaderSize <= pages[p].offset /\ pages[p].offset <= pages[p].size
  /\ head \in Link /\ tail \in Link /\ freeList \in Link
  /\ open \in BOOLEAN /\ running \in BOOLEAN
  /\ objects \in Seq([page : PageId, first : Nat, size : Nat])
  /\ peak \in Nat

(* The arguments of a request stay intact until the next one: each object   *)
(* lies behind the header of a page in use, and no two share a byte,        *)
(* whichever pages were recycled in which order (Alloc, RecycleAll).        *)
EndOf(o) == o.first + o.size
ObjectsIntact ==
  /\ \A i \in DOMAIN objects :
       LET o == objects[i] IN
       o.page \in List(head) /\ HeaderSize <= o.first /\ EndOf(o) <= pages[o.page].size
  /\ \A i, j \in DOMAIN objects :
       LET a == objects[i]  b == objects[j] IN
       i < j /\ a.page = b.page => EndOf(a) <= b.first \/ EndOf(b) <= a.first

(* Every page is on the active list or on the free list, once; both lists   *)
(* end, and the tail is the last active page, which is what RecycleAll      *)
(* relies on to link them.                                                  *)
PagesOnOneList ==
  open => /\ Ends(head) /\ Ends(freeList)
          /\ List(head) \cup List(freeList) = DOMAIN pages
          /\ List(head) \cap List(freeList) = {}
          /\ tail \in List(head) /\ pages[tail].next = NULL

(* As long as every object fits a single page, the arena grows only to hold *)
(* one request: it never takes a page while one is free, however many       *)
(* requests there are.  Larger pages break this: only the first free page   *)
(* is tried, and one behind it is not found again.                          *)
GrowsOnlyWhenNeeded ==
  (\A p \in DOMAIN pages : pages[p].size = PageSize) => Cardinality(DOMAIN pages) <= peak

(* A shutdown gives every page back to the platform (FreeAll).              *)
ShutdownReturnsAll == ~open => DOMAIN pages = {}
=============================================================================
