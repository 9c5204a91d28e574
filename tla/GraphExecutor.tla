---------------------------- MODULE GraphExecutor ----------------------------
(***************************************************************************)
(* The graph executor and its module (graph_executor.c,                    *)
(* graph_executor_module.c) with the NDArrays it is made of (ndarray.c):   *)
(* a pool of arrays that own the storage, and one view of a pool array for *)
(* each entry of the graph.  The host gets handles to the views, and what  *)
(* it frees is counted.  There is one executor, and it is never released   *)
(* but when its module finds no slot.                                      *)
(*                                                                         *)
(* A pointer is a block of platform memory, named by what it was allocated *)
(* for, so that a block that is freed and allocated again is the same.     *)
(***************************************************************************)
EXTENDS Integers, Sequences

CONSTANTS
  Entry,       \* the entries of data_entry
  Storage,     \* the storage ids
  StorageOf,   \* attrs.storage_id of each entry
  LinkedParam, \* the storages whose data is linked into the program
  Inputs,      \* the entries of input_nodes, in order
  Outputs,     \* the entries of outputs
  MaxHandles   \* bound: handles of one entry that the host has at a time

ASSUME GraphAssumption ==
  /\ StorageOf \in [Entry -> Storage] /\ LinkedParam \subseteq Storage
  /\ Inputs \in Seq(Entry) /\ Outputs \subseteq Entry
  /\ MaxHandles \in Nat

Null  == <<"null", 0>>
Flash == <<"flash", 0>>   \* a linked parameter

PoolShape(s) == <<"pool shape", s>>
PoolData(s)  == <<"pool data", s>>
Shape(e)     == <<"shape", e>>
ParamData(e) == <<"param data", e>>
(* What Init reads of the JSON graph, and the arrays of the executor. *)
Graph   == {<<"executor", 0>>, <<"graph", 0>>}
Vtype   == {<<"vtype", 0>>}
Entries == {<<"pool entry", 0>>}
Arrays(storages) == {PoolShape(s) : s \in storages} \cup {PoolData(s) : s \in storages}
Pool    == {<<"storage pool", 0>>} \cup Arrays(Storage \ LinkedParam)
Views   == {<<"data entry", 0>>} \cup {Shape(e) : e \in Entry}
OpExecs == {<<"op execs", 0>>}

Data(e) == IF StorageOf[e] \in LinkedParam THEN Flash ELSE PoolData(StorageOf[e])
DataPointer == {Null, Flash} \cup {PoolData(s) : s \in Storage} \cup {ParamData(e) : e \in Entry}
ShapePointer == {Null} \cup {Shape(e) : e \in Entry}
Block == Graph \cup Vtype \cup Entries \cup Pool \cup Views \cup OpExecs
         \cup {ParamData(e) : e \in Entry}

VARIABLES
  executor,    \* graph_executor.executor: NULL, set, or set and released
  module,      \* the host holds the handle of the executor's module
  entry,       \* data_entry: the data and shape pointers and the count
  flagged,     \* the pool entries whose is_linked_param is not 0
  live,        \* the blocks allocated
  running,     \* no CHECK failed
  (* history *)
  handles,     \* the handles of each entry the host has
  seen,        \* the data pointers it was given with them
  loaded,      \* entries LoadParams has replaced
  freedTwice   \* a block was freed that was not allocated

vars == <<executor, module, entry, flagged, live, running, handles, seen, loaded, freedTwice>>
hostVars == <<handles, seen>>

NoView  == [data |-> Null, shape |-> Null, count |-> 0]

Init ==
  /\ executor = "none" /\ module = FALSE
  /\ entry = [e \in Entry |-> NoView]
  /\ flagged = {} /\ live = {} /\ running = TRUE
  /\ handles = [e \in Entry |-> 0] /\ seen = [e \in Entry |-> {}]
  /\ loaded = {} /\ freedTwice = FALSE

-----------------------------------------------------------------------------
(* The reference SetupStorage takes of each view.  Mutant: none.            *)
CountZero  == 0
FirstCount == 1

(* TVMNDArray_CreateView of the entry's pool array. *)
View(e) == [data |-> Data(e), shape |-> Shape(e), count |-> FirstCount]

(* What a Create that returns an error leaves allocated: up to the          *)
(* allocation that failed, or everything when an operator is not supported. *)
(* What SetupStorage needs only itself is freed at its end, so that a       *)
(* failure in the middle leaves that too.                                   *)
LeftBehind ==
  {Graph,
   Graph \cup Vtype,
   Graph \cup Vtype \cup Entries,
   Graph \cup Vtype \cup Entries \cup Pool,
   Graph \cup Pool \cup Views,
   Graph \cup Pool \cup Views \cup OpExecs}

(* The first allocation, of the executor itself, may fail without a trace.  *)
CreateFails ==
  /\ executor = "none" /\ running
  /\ executor' = "partial"
  /\ live' \in LeftBehind
  /\ UNCHANGED <<module, entry, flagged, running, hostVars, loaded, freedTwice>>

(* Arrays that cannot be allocated end in a CHECK or in a memset of NULL,   *)
(* and a graph that could not be read in a NULL node_row_ptr.               *)
CreateStops ==
  /\ executor = "none" /\ running
  /\ running' = FALSE
  /\ UNCHANGED <<executor, module, entry, flagged, live, hostVars, loaded, freedTwice>>

(* The pool is not cleared: is_linked_param is written only when it is set, *)
(* and keeps what the memory held otherwise.                                *)
Flags(flags) == LinkedParam \subseteq flags /\ flags \subseteq Storage

(* TVMGraphExecutorModule_Create *)
CreateReady ==
  /\ executor = "none" /\ running
  /\ executor' = "ready" /\ module' = TRUE
  /\ entry' = [e \in Entry |-> View(e)]
  /\ \E flags \in SUBSET Storage : Flags(flags) /\ flagged' = flags
  /\ live' = Graph \cup Pool \cup Views \cup OpExecs
  /\ UNCHANGED <<running, hostVars, loaded, freedTwice>>

(* The views do not own their data.  Mutant: Release forgets their shapes.  *)
ReleasedPoolOnly == Graph \cup {<<"storage pool", 0>>, <<"data entry", 0>>} \cup OpExecs
                    \cup Arrays(Storage \ flagged')
Released         == ReleasedPoolOnly \cup {Shape(e) : e \in Entry}

(* TVMModCreateFromCModule finds no slot: the executor is released, and     *)
(* still set.                                                               *)
CreateReleases ==
  /\ executor = "none" /\ running
  /\ executor' = "dangling"
  /\ \E flags \in SUBSET Storage : Flags(flags) /\ flagged' = flags
  /\ live' = (Graph \cup Pool \cup Views \cup OpExecs) \ Released
  /\ UNCHANGED <<module, entry, running, hostVars, loaded, freedTwice>>

(* TVMModFree, after which the executor stays as it is. *)
FreeModule ==
  /\ module /\ running
  /\ module' = FALSE
  /\ UNCHANGED <<executor, entry, flagged, live, running, hostVars, loaded, freedTwice>>

-----------------------------------------------------------------------------
(* The rest of the module's functions.  set_input and share_params are      *)
(* behind the number of functions the registry gives, and are not reached.  *)

(* TVMGraphExecutorModule_GetInput and GetOutput.  An input by a name that  *)
(* there is not ends in a CHECK.                                            *)
Get(e) ==
  /\ module /\ running /\ handles[e] < MaxHandles
  /\ entry' = [entry EXCEPT ![e].count = @ + 1]
  /\ handles' = [handles EXCEPT ![e] = @ + 1]
  /\ seen' = [seen EXCEPT ![e] = @ \cup {entry[e].data}]
  /\ UNCHANGED <<executor, module, flagged, live, running, loaded, freedTwice>>

GetUnknownInput ==
  /\ module /\ running
  /\ running' = FALSE
  /\ UNCHANGED <<executor, module, entry, flagged, live, hostVars, loaded, freedTwice>>

(* TVMNDArray_DecrementReference.  Mutant: it skips a count. *)
DecrementTwo(count) == IF count > 1 THEN count - 2 ELSE 0
Decrement(count)    == IF count > 0 THEN count - 1 ELSE 0

(* The page manager aborts on an address that is none of its own, and does  *)
(* not notice one that it has freed.                                        *)
Owned(pointer) == pointer \notin {Null, Flash}

(* TVMNDArray_Release *)
ReleaseView(e) ==
  LET view == entry[e]  count == Decrement(view.count) IN
  \/ /\ count # 0
     /\ entry' = [entry EXCEPT ![e].count = count]
     /\ UNCHANGED <<live, running, freedTwice>>
  \/ /\ count = 0 /\ Owned(view.data) /\ Owned(view.shape)
     /\ entry' = [entry EXCEPT ![e] = NoView]
     /\ live' = live \ {view.data, view.shape}
     /\ freedTwice' = (freedTwice \/ ~({view.data, view.shape} \subseteq live))
     /\ UNCHANGED running
  \/ /\ count = 0 /\ ~(Owned(view.data) /\ Owned(view.shape))
     /\ running' = FALSE
     /\ UNCHANGED <<entry, live, freedTwice>>

(* The host frees a handle it has. *)
FreeHandle(e) ==
  /\ running /\ handles[e] > 0
  /\ ReleaseView(e)
  /\ handles' = [handles EXCEPT ![e] = @ - 1]
  /\ seen' = [seen EXCEPT ![e] = IF handles[e] = 1 THEN {} ELSE @]
  /\ UNCHANGED <<executor, module, flagged, loaded>>

(* TVMNDArray_Load into an entry, which clears its count.                   *)
FreedStorage(params) ==
  ({entry[e].shape : e \in params} \cup {entry[e].data : e \in params}) \ {Null}
NewStorage(params) == {ParamData(e) : e \in params} \cup {Shape(e) : e \in params}
Param(e) == [data |-> ParamData(e), shape |-> Shape(e), count |-> 0]

(* TVMGraphExecutor_LoadParams.  The first input is taken for one that does *)
(* not exist.                                                               *)
IsParam(e) == \E i \in DOMAIN Inputs : i > 1 /\ Inputs[i] = e
LoadParams(params) ==
  /\ module /\ running
  /\ \A e \in params : IsParam(e) /\ entry[e].data # Flash
  /\ entry' = [e \in Entry |-> IF e \in params THEN Param(e) ELSE entry[e]]
  /\ live' = (live \ FreedStorage(params)) \cup NewStorage(params)
  /\ loaded' = loaded \cup params
  /\ freedTwice' = (freedTwice \/ ~(FreedStorage(params) \subseteq live)
                     \/ \E a, b \in params : a # b /\ entry[a].data = entry[b].data
                                                   /\ entry[a].data # Null)
  /\ UNCHANGED <<executor, module, flagged, running, hostVars>>

(* A CHECK, memory that a parameter does not get, or a linked parameter,    *)
(* which the page manager cannot free.                                      *)
LoadParamsStops ==
  /\ module /\ running
  /\ running' = FALSE
  /\ UNCHANGED <<executor, module, entry, flagged, live, hostVars, loaded, freedTwice>>

Next ==
  \/ CreateFails \/ CreateStops \/ CreateReady \/ CreateReleases
  \/ FreeModule
  \/ \E e \in {Inputs[i] : i \in DOMAIN Inputs} \cup Outputs : Get(e)
  \/ GetUnknownInput
  \/ \E e \in Entry : FreeHandle(e)
  \/ \E params \in SUBSET Entry : LoadParams(params)
  \/ LoadParamsStops

Spec == Init /\ [][Next]_vars

-----------------------------------------------------------------------------
TypeOK ==
  /\ executor \in {"none", "partial", "ready", "dangling"}
  /\ module \in BOOLEAN /\ running \in BOOLEAN /\ freedTwice \in BOOLEAN
  /\ entry \in [Entry -> [data : DataPointer, shape : ShapePointer, count : Nat]]
  /\ flagged \subseteq Storage /\ live \subseteq Block
  /\ handles \in [Entry -> Nat] /\ loaded \subseteq Entry
  /\ seen \in [Entry -> SUBSET DataPointer]

(* A view is counted once for the executor and once for each handle of the  *)
(* host, so that no order of gets and frees takes it away from either       *)
(* (TVMNDArray_IncrementReference, Release).  LoadParams starts the count   *)
(* of an entry anew at zero.                                                *)
HandlesCounted ==
  executor = "ready" => \A e \in Entry \ loaded : entry[e].count = 1 + handles[e]

(* The storage of a view lives as long as the executor, and so does every   *)
(* address of it that the host was given: what is read and written by run   *)
(* and by the host's copies is allocated memory.  Loading a parameter takes *)
(* it away from the views of the same storage.                              *)
Untouched(e) == \A l \in loaded : StorageOf[l] # StorageOf[e]
StorageLives ==
  executor = "ready" =>
    \A e \in Entry : Untouched(e) =>
      /\ entry[e].data = Data(e) /\ seen[e] \subseteq {Data(e)}
      /\ entry[e].data \in live \cup {Flash}
      /\ entry[e].shape \in live

(* No block is lost and none is freed twice: all that is allocated belongs  *)
(* to the executor, or to an entry of it, whatever is loaded and freed.     *)
(* When the executor is released, only the pool entries stay whose flag was *)
(* never written.  A Create that fails is excepted: all it made is lost.    *)
Owning == Graph \cup Pool \cup {<<"data entry", 0>>} \cup OpExecs
          \cup {entry[e].data : e \in Entry} \cup {entry[e].shape : e \in Entry}
NothingLost ==
  /\ executor = "none" => live = {}
  /\ executor = "ready" => live \subseteq Owning
  /\ executor = "dangling" =>
       live = Arrays(flagged \ LinkedParam)
  /\ (\A a, b \in loaded : a # b => StorageOf[a] # StorageOf[b]) => ~freedTwice

(* ndarray.h says of reference_count: "count of references to TVMNDArray to *)
(* avoid early freeing by host".  After LoadParams a get and a free of an   *)
(* input take its data away from the executor.                              *)
DataKept == executor = "ready" => \A e \in Entry : entry[e].data # Null
=============================================================================
