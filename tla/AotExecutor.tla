----------------------------- MODULE AotExecutor -----------------------------
(***************************************************************************)
(* The ahead-of-time executor and its module (aot_executor.c,              *)
(* aot_executor_module.c), the other executor a host can create on the     *)
(* device: a list of arrays, one for each input, output and workspace pool *)
(* of the compiled model.  The executor holds a reference to the inputs    *)
(* and outputs, which the host can get, and none to the pools.             *)
(*                                                                         *)
(* Between two boots the host uses one of the two executors (bound): they  *)
(* share nothing but the page memory and the module table.                 *)
(***************************************************************************)
EXTENDS GraphExecutor

CONSTANTS
  Arguments, \* "input", "output" or "pool", in the order of executor->args
  Leftovers  \* what memory that was not cleared may hold for a count

ASSUME ArgumentsAssumption ==
  /\ Arguments \in Seq({"input", "output", "pool"})
  /\ Leftovers \subseteq Nat

Argument == DOMAIN Arguments

AotBlock    == {<<"aot executor", 0>>}
List        == {<<"args", 0>>}
Array(a)    == {<<"arg shape", a>>, <<"arg data", a>>}
ArraysOf(S) == UNION {Array(a) : a \in S}

VARIABLES
  aot,        \* aot_executor.executor, as for the graph executor
  aotModule,  \* the host holds the handle of its module
  made,       \* how many of the arrays TVMNDArray_Empty has made, from the first
  count,      \* reference_count of each argument
  aotLive,    \* the blocks allocated
  (* history *)
  aotHandles, \* the handles of each argument the host has
  stray       \* an array that was never written was released

aotVars == <<aot, aotModule, made, count, aotLive, aotHandles, stray>>
allVars == <<vars, aotVars>>

AotInit ==
  /\ aot = "none" /\ aotModule = FALSE /\ made = 0 /\ stray = FALSE
  /\ count = [a \in Argument |-> 0] /\ aotLive = {}
  /\ aotHandles = [a \in Argument |-> 0]

-----------------------------------------------------------------------------
(* The references TVMAotExecutor_Init takes.  Mutant: none to an output.    *)
OwnedInputs(a)      == IF Arguments[a] = "input" THEN 1 ELSE 0
OwnedByExecutor(a)  == IF Arguments[a] \in {"input", "output"} THEN 1 ELSE 0

AotCreateReady ==
  /\ aot = "none"
  /\ aot' = "ready" /\ aotModule' = TRUE /\ made' = Len(Arguments)
  /\ count' = [a \in Argument |-> OwnedByExecutor(a)]
  /\ aotLive' = aotLive \cup AotBlock \cup List \cup ArraysOf(Argument)
  /\ UNCHANGED <<aotHandles, stray, running>>

(* TVMAotExecutorModule_Create does not look at what TVMAotExecutor_Create  *)
(* returned, and the host gets a module all the same.  Memory ran out at    *)
(* the shape of an array: that one is cleared, those behind it hold what    *)
(* was in their memory before.                                             *)
AotCreateHalf ==
  /\ aot = "none"
  /\ aot' = "half" /\ aotModule' = TRUE
  /\ \E a \in Argument : \E left \in [Argument -> Leftovers] :
       /\ made' = a - 1
       /\ count' = [b \in Argument |-> IF b < a THEN OwnedByExecutor(b)
                                       ELSE IF b = a THEN 0 ELSE left[b]]
       /\ aotLive' = aotLive \cup AotBlock \cup List \cup ArraysOf(1 .. a - 1)
  /\ UNCHANGED <<aotHandles, stray, running>>

(* The model has no metadata, or memory ran out at the list of arrays.      *)
AotCreateBare ==
  /\ aot = "none"
  /\ aot' = "bare" /\ aotModule' = TRUE
  /\ aotLive' = aotLive \cup AotBlock
  /\ UNCHANGED <<made, count, aotHandles, stray, running>>

(* Without memory for the executor itself, Create may also be tried again.  *)
AotCreateNothing ==
  /\ aot = "none"
  /\ aotModule' = TRUE
  /\ UNCHANGED <<aot, made, count, aotLive, aotHandles, stray, running>>

(* There is no slot for the module: TVMAotExecutor_Release frees the arrays *)
(* whose count comes to zero, and the executor stays set.                   *)
AotCreateReleases ==
  /\ aot = "none"
  /\ aot' = "dangling"
  /\ aotLive' = aotLive \cup ArraysOf({a \in Argument : Decrement(OwnedByExecutor(a)) # 0})
  /\ UNCHANGED <<aotModule, made, count, aotHandles, stray, running>>

(* A name that is too long, constant pools, an array without memory for its *)
(* data, or the release of arguments that were never made.                  *)
AotCreateStops ==
  /\ aot = "none"
  /\ running' = FALSE /\ UNCHANGED aotVars

AotFreeModule ==
  /\ aotModule
  /\ aotModule' = FALSE
  /\ UNCHANGED <<aot, made, count, aotLive, aotHandles, stray, running>>

(* TVMAotExecutorModule_GetInput and GetOutput, for an index below the      *)
(* number of inputs or outputs (bound: the code accepts one more).  They    *)
(* look at the metadata only, and hand out arrays that were never made.     *)
AotGet(a) ==
  /\ aotModule /\ aot \in {"ready", "half"}
  /\ Arguments[a] \in {"input", "output"} /\ aotHandles[a] < MaxHandles
  /\ count' = [count EXCEPT ![a] = @ + 1]
  /\ aotHandles' = [aotHandles EXCEPT ![a] = @ + 1]
  /\ UNCHANGED <<aot, aotModule, made, aotLive, stray, running>>

(* The pointers of an array that was not made are NULL, which the page      *)
(* manager does not take, or, behind the one that failed, anything: they    *)
(* may be addresses of blocks, which it then frees.                         *)
ReleaseUnmade(a) ==
  \/ running' = FALSE /\ UNCHANGED <<aotLive, stray>>
  \/ /\ a > made + 1
     /\ aotLive' \in SUBSET aotLive /\ stray' = TRUE
     /\ UNCHANGED running

(* TVMNDArray_Release of a handle the host has. *)
AotFreeHandle(a) ==
  /\ aotHandles[a] > 0
  /\ aotHandles' = [aotHandles EXCEPT ![a] = @ - 1]
  /\ count' = [count EXCEPT ![a] = Decrement(@)]
  /\ IF Decrement(count[a]) = 0 /\ a > made
       THEN ReleaseUnmade(a)
       ELSE /\ aotLive' = IF Decrement(count[a]) = 0 THEN aotLive \ Array(a) ELSE aotLive
            /\ UNCHANGED <<stray, running>>
  /\ UNCHANGED <<aot, aotModule, made>>

(* An input by a name that there is not, a CHECK of run, a run with arrays  *)
(* that have no data, or any function that reads the metadata or the list   *)
(* of an executor that has none (bound: that is taken to stop the program). *)
AotStops ==
  /\ aotModule
  /\ running' = FALSE /\ UNCHANGED aotVars

AotNext ==
  \/ AotCreateReady \/ AotCreateHalf \/ AotCreateBare \/ AotCreateNothing
  \/ AotCreateReleases \/ AotCreateStops
  \/ AotFreeModule
  \/ \E a \in Argument : AotGet(a) \/ AotFreeHandle(a)
  \/ AotStops

ExecutorsInit == Init /\ AotInit

ExecutorsNext ==
  \/ aot = "none" /\ ~aotModule /\ Next /\ UNCHANGED aotVars
  \/ executor = "none" /\ running /\ AotNext
     /\ UNCHANGED <<executor, module, entry, flagged, live, hostVars, loaded, freedTwice>>

ExecutorsSpec == ExecutorsInit /\ [][ExecutorsNext]_allVars

-----------------------------------------------------------------------------
(* The arrays that were made keep their storage whatever the host gets and  *)
(* frees, because the references add up: one of the executor's for each     *)
(* input and output, one for each handle (TVMAotExecutor_Init,              *)
(* TVMNDArray_Release).  It is so in an executor whose Create failed at one *)
(* of its arrays as well, until the host releases an array that was never   *)
(* written.  When the module finds no slot nothing stays allocated.         *)
ArgsKept ==
  /\ aot \in {"ready", "half"} =>
       /\ \A a \in 1 .. made : count[a] = OwnedByExecutor(a) + aotHandles[a]
       /\ ~stray => AotBlock \cup List \cup ArraysOf(1 .. made) \subseteq aotLive
  /\ aot = "dangling" => aotLive = {}
=============================================================================
