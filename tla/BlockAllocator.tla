--------------------------- MODULE BlockAllocator ---------------------------
(***************************************************************************)
(* What TVMPlatformMemoryAllocate and TVMPlatformMemoryFree promise: a     *)
(* block that is newly allocated shares no unit of the pool with a block   *)
(* that is still held.  Nothing is promised on which block it is, or that  *)
(* there is one.                                                           *)
(***************************************************************************)
EXTENDS Integers

CONSTANTS
  Handles,  \* the pointers in which the callers keep what they are given
  PoolSize  \* units in the pool

VARIABLE block  \* the units a handle holds, the empty set when it holds none

Interval(first, count) == first .. first + count - 1

Init == block = [h \in Handles |-> {}]

(* A free interval of the pool becomes a handle's block. *)
Allocate(h) ==
  /\ block[h] = {}
  /\ \E first \in 0 .. PoolSize - 1 : \E count \in 1 .. PoolSize - first :
       /\ \A other \in Handles : block[other] \cap Interval(first, count) = {}
       /\ block' = [block EXCEPT ![h] = Interval(first, count)]

Free(h) ==
  /\ block[h] # {}
  /\ block' = [block EXCEPT ![h] = {}]

Next == \E h \in Handles : Allocate(h) \/ Free(h)

Spec == Init /\ [][Next]_block
=============================================================================
