---------------------------- MODULE ExecutorProofs ----------------------------
(***************************************************************************)
(* For every graph, storage plan and number of handles: the views of the   *)
(* graph executor are counted right, their storage lives, and no block is  *)
(* lost.  For every list of arguments: the references of the ahead-of-time *)
(* executor and of the host add up, and next to the other executor nothing *)
(* changes for the graph executor, whose theorems carry over.              *)
(***************************************************************************)
EXTENDS AotExecutor, TLAPS

USE GraphAssumption

(***************************************************************************)
(* The inductive invariant.  Before there is an executor, or when there is *)
(* none that works, the host has no handle; an entry that no parameter was *)
(* loaded into is the view that Create made, and one that a parameter was  *)
(* loaded into owns its data, or has lost both its pointers.               *)
(***************************************************************************)
Idle ==
  executor # "ready" => /\ ~module /\ loaded = {}
                        /\ \A e \in Entry : handles[e] = 0 /\ seen[e] = {}

ViewAsMade(e) ==
  /\ entry[e].data = Data(e) /\ entry[e].shape = Shape(e)
  /\ Shape(e) \in live
  /\ entry[e].count = 1 + handles[e]

ParamAsLoaded(e) ==
  \/ entry[e].data = ParamData(e) /\ entry[e].shape = Shape(e)
     /\ ParamData(e) \in live /\ Shape(e) \in live
  \/ entry[e].data = Null /\ entry[e].shape = Null

(* The pool's data is only taken away by a parameter that is loaded. *)
PoolKept(e) ==
  Untouched(e) => Data(e) \in live \cup {Flash} /\ seen[e] \subseteq {Data(e)}

EntriesHold ==
  executor = "ready" =>
    \A e \in Entry : /\ e \notin loaded => ViewAsMade(e)
                     /\ e \in loaded => ParamAsLoaded(e)
                     /\ PoolKept(e)

IInv == TypeOK /\ Idle /\ EntriesHold /\ NothingLost
-----------------------------------------------------------------------------
(* Blocks that were allocated for different things are different.          *)
LEMMA BlocksDiffer ==
  /\ Null # Flash
  /\ \A e \in Entry : /\ Shape(e) \notin {Null, Flash} /\ ParamData(e) \notin {Null, Flash}
  /\ \A a, b \in Entry : Shape(a) # ParamData(b) /\ Shape(a) # Data(b) /\ Data(a) # ParamData(b)
                         /\ (a # b => Shape(a) # Shape(b) /\ ParamData(a) # ParamData(b))
  /\ \A e \in Entry : Data(e) # Null
  /\ \A a, b \in Entry : Data(a) = Data(b) /\ Data(a) # Flash => StorageOf[a] = StorageOf[b]
BY DEF Null, Flash, Shape, ParamData, Data, PoolData

(* Every pointer of an entry names a block, or is NULL or in flash. *)
LEMMA BlocksTyped ==
  /\ \A e \in Entry : /\ Shape(e) \in Block /\ Shape(e) \in ShapePointer
                      /\ ParamData(e) \in Block /\ ParamData(e) \in DataPointer
                      /\ Data(e) \in DataPointer
                      /\ Data(e) # Flash => Data(e) \in Pool
  /\ Null \notin Block /\ Null \in DataPointer /\ Null \in ShapePointer
  /\ Pool \subseteq Block
BY DEF Block, Graph, Vtype, Entries, Pool, Views, OpExecs, Arrays, Shape, ParamData, Data,
       DataPointer, ShapePointer, Null, Flash, PoolData, PoolShape

(* What a step leaves as it was. *)
LEMMA Stuttering ==
  ASSUME IInv, UNCHANGED <<entry, live, handles, seen, loaded, flagged, freedTwice>>,
         executor' = executor,
         module' \in {FALSE, module}, running' \in BOOLEAN
  PROVE  IInv'
<1>1. TypeOK'
  BY DEF IInv, TypeOK
<1>2. Idle'
  BY DEF IInv, Idle, TypeOK
<1>3. EntriesHold'
  BY DEF IInv, EntriesHold, ViewAsMade, ParamAsLoaded, PoolKept, Untouched
<1>4. NothingLost'
  BY DEF IInv, NothingLost, Owning
<1> QED  BY <1>1, <1>2, <1>3, <1>4 DEF IInv
-----------------------------------------------------------------------------
(* Create makes a view with one reference for each entry. *)
LEMMA CreateReadyStep == IInv /\ CreateReady => IInv'
<1> SUFFICES ASSUME IInv, CreateReady PROVE IInv'
  OBVIOUS
<1>0. /\ executor = "none" /\ executor' = "ready" /\ module' = TRUE
      /\ entry' = [e \in Entry |-> View(e)]
      /\ flagged' \subseteq Storage
      /\ live' = Graph \cup Pool \cup Views \cup OpExecs
      /\ UNCHANGED <<running, handles, seen, loaded, freedTwice>>
  BY DEF CreateReady, hostVars, Flags
<1>1. \A e \in Entry : entry'[e] = [data |-> Data(e), shape |-> Shape(e), count |-> 1]
  BY <1>0 DEF View, FirstCount
<1>2. loaded = {} /\ \A e \in Entry : handles[e] = 0 /\ seen[e] = {}
  BY <1>0 DEF IInv, Idle
<1>3. TypeOK'
  <2>1. entry' \in [Entry -> [data : DataPointer, shape : ShapePointer, count : Nat]]
    BY <1>0, BlocksTyped DEF View, FirstCount
  <2>2. live' \subseteq Block
    BY <1>0 DEF Block
  <2> QED  BY <1>0, <2>1, <2>2 DEF IInv, TypeOK
<1>4. Idle'
  BY <1>0 DEF Idle
<1>5. \A e \in Entry : Data(e) \in live' \cup {Flash} /\ Shape(e) \in live'
  BY <1>0, BlocksTyped DEF Views
<1>6. EntriesHold'
  <2> SUFFICES ASSUME NEW e \in Entry PROVE ViewAsMade(e)' /\ PoolKept(e)'
    BY <1>0, <1>2 DEF EntriesHold
  <2>1. ViewAsMade(e)'
    BY <1>0, <1>1, <1>2, <1>5 DEF ViewAsMade
  <2>2. PoolKept(e)'
    BY <1>0, <1>2, <1>5 DEF PoolKept
  <2> QED  BY <2>1, <2>2
<1>7. NothingLost'
  <2>1. live' \subseteq Owning'
    <3>1. \A e \in Entry : entry'[e].shape = Shape(e)
      BY <1>0 DEF View
    <3> QED  BY <1>0, <3>1 DEF Owning, Views
  <2>2. ~freedTwice
    BY <1>2 DEF IInv, NothingLost
  <2> QED  BY <1>0, <2>1, <2>2 DEF NothingLost
<1> QED  BY <1>3, <1>4, <1>6, <1>7 DEF IInv

(* A Create that fails leaves blocks behind, and no handle. *)
LEMMA CreateFailsStep == IInv /\ CreateFails => IInv'
<1> SUFFICES ASSUME IInv, CreateFails PROVE IInv'
  OBVIOUS
<1>0. /\ executor = "none" /\ executor' = "partial" /\ live' \in LeftBehind
      /\ UNCHANGED <<module, entry, flagged, running, handles, seen, loaded, freedTwice>>
  BY DEF CreateFails, hostVars
<1>1. live' \subseteq Block
  BY <1>0 DEF LeftBehind, Block
<1>2. TypeOK'
  BY <1>0, <1>1 DEF IInv, TypeOK
<1>3. Idle'
  BY <1>0 DEF IInv, Idle
<1>4. NothingLost'
  BY <1>0 DEF IInv, NothingLost
<1> QED  BY <1>0, <1>2, <1>3, <1>4 DEF IInv, EntriesHold

(* What Release leaves is the arrays it takes for linked parameters. *)
LEMMA ReleaseLeaves ==
  ASSUME Flags(flagged')
  PROVE  (Graph \cup Pool \cup Views \cup OpExecs) \ Released = Arrays(flagged' \ LinkedParam)
<1>1. LinkedParam \subseteq flagged' /\ flagged' \subseteq Storage
  BY DEF Flags
<1>2. Arrays(flagged' \ LinkedParam) \cap Released = {}
  <2> SUFFICES ASSUME NEW s \in flagged', s \in Storage
               PROVE  PoolShape(s) \notin Released /\ PoolData(s) \notin Released
    BY <1>1 DEF Arrays
  <2>1. /\ PoolShape(s) \notin Arrays(Storage \ flagged')
        /\ PoolData(s) \notin Arrays(Storage \ flagged')
    BY DEF Arrays, PoolShape, PoolData
  <2>2. \A e \in Entry : PoolShape(s) # Shape(e) /\ PoolData(s) # Shape(e)
    BY DEF PoolShape, PoolData, Shape
  <2>3. /\ PoolShape(s) \notin Graph \cup {<<"storage pool", 0>>, <<"data entry", 0>>} \cup OpExecs
        /\ PoolData(s) \notin Graph \cup {<<"storage pool", 0>>, <<"data entry", 0>>} \cup OpExecs
    BY DEF PoolShape, PoolData, Graph, OpExecs
  <2> QED  BY <2>1, <2>2, <2>3 DEF Released, ReleasedPoolOnly
<1>3. Arrays(Storage \ LinkedParam)
        = Arrays(Storage \ flagged') \cup Arrays(flagged' \ LinkedParam)
  BY <1>1 DEF Arrays
<1> QED  BY <1>2, <1>3 DEF Released, ReleasedPoolOnly, Pool, Views

(* A Create whose module finds no slot. *)
LEMMA CreateReleasesStep == IInv /\ CreateReleases => IInv'
<1> SUFFICES ASSUME IInv, CreateReleases PROVE IInv'
  OBVIOUS
<1>0. /\ executor = "none" /\ executor' = "dangling"
      /\ Flags(flagged') /\ flagged' \subseteq Storage
      /\ live' = (Graph \cup Pool \cup Views \cup OpExecs) \ Released
      /\ UNCHANGED <<module, entry, running, handles, seen, loaded, freedTwice>>
  BY DEF CreateReleases, hostVars, Flags
<1>1. live' \subseteq Block
  BY <1>0 DEF Block
<1>2. TypeOK'
  BY <1>0, <1>1 DEF IInv, TypeOK
<1>3. Idle'
  BY <1>0 DEF IInv, Idle
<1>4. live' = Arrays(flagged' \ LinkedParam)
  BY <1>0, ReleaseLeaves
<1>5. NothingLost'
  BY <1>0, <1>4 DEF IInv, NothingLost
<1> QED  BY <1>0, <1>2, <1>3, <1>5 DEF IInv, EntriesHold
-----------------------------------------------------------------------------
(* The host has a handle, or the module, only of an executor that is ready. *)
LEMMA HandlesOfReady ==
  IInv /\ (module \/ \E e \in Entry : handles[e] > 0) => executor = "ready"
BY DEF IInv, Idle

(* An entry whose pool data is untouched is a view as it was made. *)
LEMMA UntouchedIsView ==
  ASSUME NEW e \in Entry, Untouched(e)
  PROVE  e \notin loaded
BY DEF Untouched

(* GetInput and GetOutput count the handle they give. *)
LEMMA GetStep == \A e \in Entry : IInv /\ Get(e) => IInv'
<1> SUFFICES ASSUME NEW e \in Entry, IInv, Get(e) PROVE IInv'
  OBVIOUS
<1>0. /\ entry' = [entry EXCEPT ![e].count = @ + 1]
      /\ handles' = [handles EXCEPT ![e] = @ + 1]
      /\ seen' = [seen EXCEPT ![e] = @ \cup {entry[e].data}]
      /\ UNCHANGED <<executor, module, flagged, live, running, loaded, freedTwice>>
  BY DEF Get
<1>1. executor = "ready" /\ executor' = "ready"
  BY <1>0, HandlesOfReady DEF Get
<1>2. /\ entry \in [Entry -> [data : DataPointer, shape : ShapePointer, count : Nat]]
      /\ handles \in [Entry -> Nat] /\ seen \in [Entry -> SUBSET DataPointer]
  BY DEF IInv, TypeOK
<1>3. \A x \in Entry : /\ entry'[x].data = entry[x].data /\ entry'[x].shape = entry[x].shape
                       /\ entry'[x].count = IF x = e THEN entry[x].count + 1 ELSE entry[x].count
                       /\ handles'[x] = IF x = e THEN handles[x] + 1 ELSE handles[x]
                       /\ seen'[x] \subseteq seen[x] \cup {entry[x].data}
  BY <1>0, <1>2
<1>4. TypeOK'
  <2>1. entry' \in [Entry -> [data : DataPointer, shape : ShapePointer, count : Nat]]
    BY <1>0, <1>2
  <2>2. handles' \in [Entry -> Nat]
    BY <1>0, <1>2
  <2>3. seen' \in [Entry -> SUBSET DataPointer]
    <3>1. entry[e].data \in DataPointer
      BY <1>2
    <3> QED  BY <1>0, <1>2, <3>1
  <2> QED  BY <1>0, <2>1, <2>2, <2>3 DEF IInv, TypeOK
<1>5. Idle'
  BY <1>1 DEF Idle
<1>6. EntriesHold'
  <2> SUFFICES ASSUME NEW x \in Entry
               PROVE  /\ x \notin loaded => ViewAsMade(x)'
                      /\ x \in loaded => ParamAsLoaded(x)'
                      /\ PoolKept(x)'
    BY <1>0 DEF EntriesHold
  <2>0. /\ x \notin loaded => ViewAsMade(x)
        /\ x \in loaded => ParamAsLoaded(x)
        /\ PoolKept(x)
    BY <1>1 DEF IInv, EntriesHold
  <2>1. ASSUME x \notin loaded PROVE ViewAsMade(x)'
    <3>1. entry[x].count = 1 + handles[x] /\ handles[x] \in Nat
      BY <2>0, <2>1, <1>2 DEF ViewAsMade
    <3>2. entry'[x].count = 1 + handles'[x]
      BY <3>1, <1>3
    <3> QED  BY <3>2, <1>0, <1>3, <2>0, <2>1 DEF ViewAsMade
  <2>2. ASSUME x \in loaded PROVE ParamAsLoaded(x)'
    BY <2>0, <2>2, <1>0, <1>3 DEF ParamAsLoaded
  <2>3. PoolKept(x)'
    <3> SUFFICES ASSUME Untouched(x)
                 PROVE  Data(x) \in live \cup {Flash} /\ seen'[x] \subseteq {Data(x)}
      BY <1>0 DEF PoolKept, Untouched
    <3>1. entry[x].data = Data(x)
      BY <2>0, UntouchedIsView DEF ViewAsMade
    <3> QED  BY <2>0, <3>1, <1>3 DEF PoolKept
  <2> QED  BY <2>1, <2>2, <2>3
<1>7. NothingLost'
  <2>1. Owning' = Owning
    <3>1. \A x \in Entry : entry'[x].data = entry[x].data /\ entry'[x].shape = entry[x].shape
      BY <1>3
    <3>2. /\ {entry'[x].data : x \in Entry} = {entry[x].data : x \in Entry}
          /\ {entry'[x].shape : x \in Entry} = {entry[x].shape : x \in Entry}
      BY <3>1
    <3> QED  BY <3>2 DEF Owning
  <2> QED  BY <1>0, <1>1, <2>1 DEF IInv, NothingLost
<1> QED  BY <1>4, <1>5, <1>6, <1>7 DEF IInv

(* The count of an entry that no parameter was loaded into does not get to  *)
(* zero, so that only such a parameter is freed.                            *)
LEMMA FreeHandleStep == \A e \in Entry : IInv /\ FreeHandle(e) => IInv'
<1> SUFFICES ASSUME NEW e \in Entry, IInv, FreeHandle(e) PROVE IInv'
  OBVIOUS
<1> DEFINE left == Decrement(entry[e].count)
           Kept  == entry' = [entry EXCEPT ![e].count = left]
           Freed == {entry[e].data, entry[e].shape}
<1>0. /\ handles[e] > 0
      /\ handles' = [handles EXCEPT ![e] = @ - 1]
      /\ seen' = [seen EXCEPT ![e] = IF handles[e] = 1 THEN {} ELSE @]
      /\ UNCHANGED <<executor, module, flagged, loaded>>
      /\ ReleaseView(e)
  BY DEF FreeHandle
<1>1. executor = "ready" /\ executor' = "ready"
  BY <1>0, HandlesOfReady
<1>2. /\ entry \in [Entry -> [data : DataPointer, shape : ShapePointer, count : Nat]]
      /\ handles \in [Entry -> Nat] /\ seen \in [Entry -> SUBSET DataPointer]
  BY DEF IInv, TypeOK
<1>3. entry[e].count \in Nat /\ handles[e] \in Nat
  BY <1>2
<1>4. left \in Nat /\ (entry[e].count > 1 => left = entry[e].count - 1 /\ left # 0)
  BY <1>3 DEF Decrement
<1>5. \A x \in Entry : /\ handles'[x] = IF x = e THEN handles[x] - 1 ELSE handles[x]
                       /\ seen'[x] \subseteq seen[x]
  BY <1>0, <1>2
<1>6. /\ handles' \in [Entry -> Nat]
      /\ seen' \in [Entry -> SUBSET DataPointer]
  <2>1. handles[e] - 1 \in Nat
    BY <1>0, <1>3
  <2>2. handles' \in [Entry -> Nat]
    BY <1>0, <1>2, <2>1
  <2>3. seen' \in [Entry -> SUBSET DataPointer]
    BY <1>0, <1>2
  <2> QED  BY <2>2, <2>3
<1>7. Idle'
  BY <1>1 DEF Idle
<1>8. \A x \in Entry : /\ x \notin loaded => ViewAsMade(x)
                       /\ x \in loaded => ParamAsLoaded(x)
                       /\ PoolKept(x)
  BY <1>1 DEF IInv, EntriesHold
<1>9. live \subseteq Owning /\ live \subseteq Block
  BY <1>1 DEF IInv, NothingLost, TypeOK
<1>10. CASE left # 0 /\ Kept /\ UNCHANGED <<live, running, freedTwice>>
  <2>1. \A x \in Entry : /\ entry'[x].data = entry[x].data /\ entry'[x].shape = entry[x].shape
                         /\ entry'[x].count = IF x = e THEN left ELSE entry[x].count
    BY <1>10, <1>2, <1>4
  <2>2. TypeOK'
    <3>1. entry' \in [Entry -> [data : DataPointer, shape : ShapePointer, count : Nat]]
      BY <1>10, <1>2, <1>4
    <3> QED  BY <1>0, <1>6, <1>10, <3>1 DEF IInv, TypeOK
  <2>3. ASSUME NEW x \in Entry PROVE x \notin loaded => ViewAsMade(x)'
    <3> SUFFICES ASSUME x \notin loaded PROVE ViewAsMade(x)'
      OBVIOUS
    <3>1. entry[x].count = 1 + handles[x] /\ handles[x] \in Nat
      BY <1>8, <1>2 DEF ViewAsMade
    <3>2. entry'[x].count = 1 + handles'[x]
      <4>1. CASE x = e
        <5>1. entry[e].count > 1
          BY <3>1, <4>1, <1>0
        <5> QED  BY <5>1, <4>1, <3>1, <2>1, <1>4, <1>5
      <4>2. CASE x # e
        BY <4>2, <3>1, <2>1, <1>5
      <4> QED  BY <4>1, <4>2
    <3> QED  BY <3>2, <1>8, <1>10, <2>1 DEF ViewAsMade
  <2>4. ASSUME NEW x \in Entry PROVE x \in loaded => ParamAsLoaded(x)'
    BY <1>8, <1>10, <2>1 DEF ParamAsLoaded
  <2>5. ASSUME NEW x \in Entry PROVE PoolKept(x)'
    BY <1>8, <1>0, <1>5, <1>10 DEF PoolKept, Untouched
  <2>6. EntriesHold'
    BY <1>0, <2>3, <2>4, <2>5 DEF EntriesHold
  <2>7. NothingLost'
    <3>1. /\ {entry'[x].data : x \in Entry} = {entry[x].data : x \in Entry}
          /\ {entry'[x].shape : x \in Entry} = {entry[x].shape : x \in Entry}
      BY <2>1
    <3>2. Owning' = Owning
      BY <3>1 DEF Owning
    <3> QED  BY <1>0, <1>1, <1>10, <3>2 DEF IInv, NothingLost
  <2> QED  BY <2>2, <1>7, <2>6, <2>7 DEF IInv
<1>11. CASE /\ left = 0 /\ Owned(entry[e].data) /\ Owned(entry[e].shape)
            /\ entry' = [entry EXCEPT ![e] = NoView]
            /\ live' = live \ Freed
            /\ freedTwice' = (freedTwice \/ ~(Freed \subseteq live))
            /\ UNCHANGED running
  <2>1. e \in loaded
    <3>1. e \notin loaded => entry[e].count > 1
      BY <1>8, <1>0, <1>3 DEF ViewAsMade
    <3> QED  BY <3>1, <1>4, <1>11
  <2>2. /\ entry[e].data = ParamData(e) /\ entry[e].shape = Shape(e)
        /\ Freed \subseteq live
    BY <2>1, <1>8, <1>11 DEF ParamAsLoaded, Owned
  <2>3. /\ \A x \in Entry : x # e => entry'[x] = entry[x]
        /\ entry'[e] = NoView
    BY <1>11, <1>2
  <2>4. \A x \in Entry : /\ Data(x) \notin Freed
                         /\ x # e => Shape(x) \notin Freed /\ ParamData(x) \notin Freed
    BY <2>2, BlocksDiffer
  <2>5. TypeOK'
    <3>1. entry' \in [Entry -> [data : DataPointer, shape : ShapePointer, count : Nat]]
      BY <1>11, <1>2, BlocksTyped DEF NoView
    <3>2. live' \subseteq Block
      BY <1>11, <1>9
    <3>3. freedTwice' \in BOOLEAN
      BY <1>11
    <3> QED  BY <1>0, <1>6, <1>11, <3>1, <3>2, <3>3 DEF IInv, TypeOK
  <2>6. ASSUME NEW x \in Entry PROVE x \notin loaded => ViewAsMade(x)'
    <3> SUFFICES ASSUME x \notin loaded PROVE ViewAsMade(x)'
      OBVIOUS
    <3>1. x # e /\ handles'[x] = handles[x]
      BY <2>1, <1>5
    <3> QED  BY <3>1, <2>3, <2>4, <1>8, <1>11 DEF ViewAsMade
  <2>7. ASSUME NEW x \in Entry PROVE x \in loaded => ParamAsLoaded(x)'
    <3>1. CASE x = e
      BY <3>1, <2>3 DEF ParamAsLoaded, NoView
    <3>2. CASE x # e
      BY <3>2, <2>3, <2>4, <1>8, <1>11 DEF ParamAsLoaded
    <3> QED  BY <3>1, <3>2
  <2>8. ASSUME NEW x \in Entry PROVE PoolKept(x)'
    BY <1>8, <1>0, <1>5, <1>11, <2>4 DEF PoolKept, Untouched
  <2>9. EntriesHold'
    BY <1>0, <2>6, <2>7, <2>8 DEF EntriesHold
  <2>10. NothingLost'
    <3>1. live' \subseteq Owning'
      <4> SUFFICES ASSUME NEW b \in live, b \notin Freed PROVE b \in Owning'
        BY <1>11
      <4>1. CASE \E x \in Entry : b = entry[x].data \/ b = entry[x].shape
        <5>1. PICK x \in Entry : b = entry[x].data \/ b = entry[x].shape
          BY <4>1
        <5>2. x # e /\ entry'[x] = entry[x]
          BY <5>1, <2>3
        <5> QED  BY <5>1, <5>2 DEF Owning
      <4>2. CASE ~\E x \in Entry : b = entry[x].data \/ b = entry[x].shape
        BY <4>2, <1>9 DEF Owning
      <4> QED  BY <4>1, <4>2
    <3>2. freedTwice' = freedTwice
      BY <1>11, <2>2 DEF IInv, TypeOK
    <3> QED  BY <1>0, <1>1, <3>1, <3>2 DEF IInv, NothingLost
  <2> QED  BY <2>5, <1>7, <2>9, <2>10 DEF IInv
<1>12. CASE /\ left = 0 /\ ~(Owned(entry[e].data) /\ Owned(entry[e].shape))
            /\ running' = FALSE
            /\ UNCHANGED <<entry, live, freedTwice>>
  <2>1. e \in loaded
    <3>1. e \notin loaded => entry[e].count > 1
      BY <1>8, <1>0, <1>3 DEF ViewAsMade
    <3> QED  BY <3>1, <1>4, <1>12
  <2>2. TypeOK'
    BY <1>0, <1>6, <1>12 DEF IInv, TypeOK
  <2>3. ASSUME NEW x \in Entry PROVE x \notin loaded => ViewAsMade(x)'
    <3> SUFFICES ASSUME x \notin loaded PROVE ViewAsMade(x)'
      OBVIOUS
    <3>1. x # e /\ handles'[x] = handles[x]
      BY <2>1, <1>5
    <3> QED  BY <3>1, <1>8, <1>12 DEF ViewAsMade
  <2>4. ASSUME NEW x \in Entry PROVE (x \in loaded => ParamAsLoaded(x)') /\ PoolKept(x)'
    BY <1>8, <1>0, <1>5, <1>12 DEF ParamAsLoaded, PoolKept, Untouched
  <2>5. EntriesHold'
    BY <1>0, <2>3, <2>4 DEF EntriesHold
  <2>6. NothingLost'
    BY <1>0, <1>1, <1>12 DEF IInv, NothingLost, Owning
  <2> QED  BY <2>2, <1>7, <2>5, <2>6 DEF IInv
<1> QED  BY <1>0, <1>10, <1>11, <1>12 DEF ReleaseView

(* The data that a parameter replaces is allocated, and its own, unless     *)
(* another parameter of the same storage was loaded before.                 *)
LEMMA LoadParamsStep == \A params \in SUBSET Entry : IInv /\ LoadParams(params) => IInv'
<1> SUFFICES ASSUME NEW params \in SUBSET Entry, IInv, LoadParams(params) PROVE IInv'
  OBVIOUS
<1>0. /\ \A e \in params : entry[e].data # Flash
      /\ entry' = [e \in Entry |-> IF e \in params THEN Param(e) ELSE entry[e]]
      /\ live' = (live \ FreedStorage(params)) \cup NewStorage(params)
      /\ loaded' = loaded \cup params
      /\ freedTwice' = (freedTwice \/ ~(FreedStorage(params) \subseteq live)
                          \/ \E a, b \in params : a # b /\ entry[a].data = entry[b].data
                                                        /\ entry[a].data # Null)
      /\ UNCHANGED <<executor, module, flagged, running, handles, seen>>
  BY DEF LoadParams, hostVars
<1>1. executor = "ready" /\ executor' = "ready"
  BY <1>0, HandlesOfReady DEF LoadParams
<1>2. /\ entry \in [Entry -> [data : DataPointer, shape : ShapePointer, count : Nat]]
      /\ live \subseteq Block /\ loaded \subseteq Entry
  BY DEF IInv, TypeOK
<1>3. \A e \in Entry : /\ e \in params => /\ entry'[e].data = ParamData(e)
                                          /\ entry'[e].shape = Shape(e)
                       /\ e \notin params => entry'[e] = entry[e]
  BY <1>0 DEF Param
<1>4. \A x \in Entry : /\ x \notin loaded => ViewAsMade(x)
                       /\ x \in loaded => ParamAsLoaded(x)
                       /\ PoolKept(x)
  BY <1>1 DEF IInv, EntriesHold
<1>5. \A e \in params : ParamData(e) \in live' /\ Shape(e) \in live'
  BY <1>0 DEF NewStorage
<1>6. TypeOK'
  <2>1. \A e \in params : Param(e) \in [data : DataPointer, shape : ShapePointer, count : Nat]
    BY BlocksTyped DEF Param
  <2>2. entry' \in [Entry -> [data : DataPointer, shape : ShapePointer, count : Nat]]
    BY <1>0, <1>2, <2>1
  <2>3. live' \subseteq Block
    BY <1>0, <1>2, BlocksTyped DEF NewStorage
  <2>4. freedTwice' \in BOOLEAN
    BY <1>0
  <2> QED  BY <1>0, <1>2, <2>2, <2>3, <2>4 DEF IInv, TypeOK
<1>7. Idle'
  BY <1>1 DEF Idle
<1>8. \A x \in Entry : x \notin params => /\ Shape(x) \notin FreedStorage(params)
                                          /\ ParamData(x) \notin FreedStorage(params)
  <2> SUFFICES ASSUME NEW x \in Entry, x \notin params, NEW e \in params
               PROVE  /\ Shape(x) \notin {entry[e].data, entry[e].shape}
                      /\ ParamData(x) \notin {entry[e].data, entry[e].shape}
    BY DEF FreedStorage
  <2>1. x # e
    OBVIOUS
  <2>2. /\ entry[e].data \in {Data(e), ParamData(e), Null}
        /\ entry[e].shape \in {Shape(e), Null}
    BY <1>4 DEF ViewAsMade, ParamAsLoaded
  <2> QED  BY <2>1, <2>2, BlocksDiffer
<1>9. ASSUME NEW x \in Entry PROVE x \notin loaded' => ViewAsMade(x)'
  <2> SUFFICES ASSUME x \notin loaded, x \notin params PROVE ViewAsMade(x)'
    BY <1>0
  <2> QED  BY <1>0, <1>3, <1>4, <1>8 DEF ViewAsMade
<1>10. ASSUME NEW x \in Entry PROVE x \in loaded' => ParamAsLoaded(x)'
  <2>1. CASE x \in params
    BY <2>1, <1>3, <1>5 DEF ParamAsLoaded
  <2>2. CASE x \in loaded /\ x \notin params
    BY <2>2, <1>0, <1>3, <1>4, <1>8 DEF ParamAsLoaded
  <2> QED  BY <2>1, <2>2, <1>0
<1>11. ASSUME NEW x \in Entry PROVE PoolKept(x)'
  <2> SUFFICES ASSUME \A l \in loaded \cup params : StorageOf[l] # StorageOf[x]
               PROVE  Data(x) \in live' \cup {Flash} /\ seen[x] \subseteq {Data(x)}
    BY <1>0 DEF PoolKept, Untouched
  <2>1. Data(x) \in live \cup {Flash} /\ seen[x] \subseteq {Data(x)}
    BY <1>4 DEF PoolKept, Untouched
  <2>2. Data(x) # Flash => Data(x) \notin FreedStorage(params)
    <3> SUFFICES ASSUME Data(x) # Flash, NEW e \in params
                 PROVE  Data(x) \notin {entry[e].data, entry[e].shape}
      BY DEF FreedStorage
    <3>1. /\ entry[e].data \in {Data(e), ParamData(e), Null}
          /\ entry[e].shape \in {Shape(e), Null}
      BY <1>4 DEF ViewAsMade, ParamAsLoaded
    <3>2. StorageOf[e] # StorageOf[x]
      OBVIOUS
    <3> QED  BY <3>1, <3>2, BlocksDiffer
  <2> QED  BY <2>1, <2>2, <1>0
<1>12. EntriesHold'
  BY <1>9, <1>10, <1>11 DEF EntriesHold
<1>13. live' \subseteq Owning'
  <2>0. live \subseteq Owning
    BY <1>1 DEF IInv, NothingLost
  <2> SUFFICES ASSUME NEW b \in live' PROVE b \in Owning'
    OBVIOUS
  <2>1. CASE b \in NewStorage(params)
    <3>1. PICK e \in params : b = ParamData(e) \/ b = Shape(e)
      BY <2>1 DEF NewStorage
    <3>2. b = entry'[e].data \/ b = entry'[e].shape
      BY <3>1, <1>3
    <3> QED  BY <3>2 DEF Owning
  <2>2. CASE b \in live /\ b \notin FreedStorage(params)
    <3>1. CASE \E x \in Entry : b = entry[x].data \/ b = entry[x].shape
      <4>1. PICK x \in Entry : b = entry[x].data \/ b = entry[x].shape
        BY <3>1
      <4>2. b # Null
        BY <2>2, <1>2, BlocksTyped
      <4>3. x \notin params
        BY <4>1, <4>2, <2>2 DEF FreedStorage
      <4> QED  BY <4>1, <4>3, <1>3 DEF Owning
    <3>2. CASE ~\E x \in Entry : b = entry[x].data \/ b = entry[x].shape
      BY <3>2, <2>2, <2>0 DEF Owning
    <3> QED  BY <3>1, <3>2
  <2> QED  BY <2>1, <2>2, <1>0
<1>14. ASSUME \A a, b \in loaded' : a # b => StorageOf[a] # StorageOf[b]
       PROVE  ~freedTwice'
  <2>1. ~freedTwice
    BY <1>0, <1>14 DEF IInv, NothingLost
  <2>2. FreedStorage(params) \subseteq live
    <3> SUFFICES ASSUME NEW e \in params
                 PROVE  {entry[e].data, entry[e].shape} \ {Null} \subseteq live
      BY DEF FreedStorage
    <3>1. CASE e \in loaded
      BY <3>1, <1>4 DEF ParamAsLoaded
    <3>2. CASE e \notin loaded
      <4>1. Untouched(e)
        BY <3>2, <1>0, <1>14 DEF Untouched
      <4>2. entry[e].data = Data(e) /\ entry[e].shape = Shape(e) /\ Shape(e) \in live
        BY <3>2, <1>4 DEF ViewAsMade
      <4>3. Data(e) \in live
        BY <4>1, <4>2, <1>0, <1>4 DEF PoolKept
      <4> QED  BY <4>2, <4>3
    <3> QED  BY <3>1, <3>2
  <2>3. ~\E a, b \in params : a # b /\ entry[a].data = entry[b].data /\ entry[a].data # Null
    <3> SUFFICES ASSUME NEW a \in params, NEW b \in params, a # b,
                        entry[a].data = entry[b].data, entry[a].data # Null
                 PROVE  FALSE
      OBVIOUS
    <3>1. /\ entry[a].data \in {Data(a), ParamData(a)}
          /\ entry[b].data \in {Data(b), ParamData(b)}
      BY <1>4 DEF ViewAsMade, ParamAsLoaded
    <3>2. entry[a].data # Flash
      BY <1>0
    <3>3. StorageOf[a] # StorageOf[b]
      BY <1>0, <1>14
    <3> QED  BY <3>1, <3>2, <3>3, BlocksDiffer
  <2> QED  BY <2>1, <2>2, <2>3, <1>0
<1>15. NothingLost'
  BY <1>1, <1>13, <1>14 DEF NothingLost
<1> QED  BY <1>6, <1>7, <1>12, <1>15 DEF IInv
-----------------------------------------------------------------------------
(* Before anything is created the invariant holds, and every step keeps it. *)
LEMMA InitInv == Init => IInv
<1> SUFFICES ASSUME Init PROVE IInv
  OBVIOUS
<1>1. TypeOK
  <2>1. NoView \in [data : DataPointer, shape : ShapePointer, count : Nat]
    BY BlocksTyped DEF NoView
  <2> QED  BY <2>1 DEF Init, TypeOK
<1> QED  BY <1>1 DEF Init, IInv, Idle, EntriesHold, NothingLost

(* One case for each action of the module, and the stuttering step. *)
LEMMA NextInv == IInv /\ [Next]_vars => IInv'
<1> SUFFICES ASSUME IInv, [Next]_vars PROVE IInv'
  OBVIOUS
<1>1. CASE CreateStops \/ GetUnknownInput \/ LoadParamsStops
  BY <1>1, Stuttering DEF CreateStops, GetUnknownInput, LoadParamsStops, hostVars
<1>2. CASE FreeModule
  BY <1>2, Stuttering DEF FreeModule, hostVars, IInv, TypeOK
<1>3. CASE UNCHANGED vars
  BY <1>3, Stuttering DEF vars, IInv, TypeOK
<1>4. \A e \in {Inputs[i] : i \in DOMAIN Inputs} \cup Outputs : e \in Entry
  OBVIOUS
<1>5. CASE \E e \in {Inputs[i] : i \in DOMAIN Inputs} \cup Outputs : Get(e)
  BY <1>4, <1>5, GetStep
<1>6. CASE \E e \in Entry : FreeHandle(e)
  BY <1>6, FreeHandleStep
<1>7. CASE \E params \in SUBSET Entry : LoadParams(params)
  BY <1>7, LoadParamsStep
<1>8. CASE CreateFails \/ CreateReady \/ CreateReleases
  BY <1>8, CreateFailsStep, CreateReadyStep, CreateReleasesStep
<1> QED  BY <1>1, <1>2, <1>3, <1>5, <1>6, <1>7, <1>8 DEF Next

(* The invariant holds of every behaviour. *)
LEMMA SpecInv == Spec => []IInv
BY InitInv, NextInv, PTL DEF Spec

(* Every entry that no parameter was loaded into is counted once for the    *)
(* executor and once for each handle of the host, so that no order of gets  *)
(* and frees takes it away (TVMNDArray_IncrementReference and Release).     *)
THEOREM CountsHold == Spec => []HandlesCounted
<1>1. IInv => HandlesCounted
  BY DEF IInv, EntriesHold, ViewAsMade, HandlesCounted
<1> QED  BY <1>1, SpecInv, PTL

(* What the host was given and what run works on is allocated, as long as   *)
(* no parameter of the same storage was loaded.                             *)
THEOREM StorageHolds == Spec => []StorageLives
<1>1. IInv => StorageLives
  <2> SUFFICES ASSUME IInv, executor = "ready", NEW e \in Entry, Untouched(e)
               PROVE  /\ entry[e].data = Data(e) /\ seen[e] \subseteq {Data(e)}
                      /\ entry[e].data \in live \cup {Flash}
                      /\ entry[e].shape \in live
    BY DEF StorageLives
  <2>1. ViewAsMade(e) /\ PoolKept(e)
    BY UntouchedIsView DEF IInv, EntriesHold
  <2> QED  BY <2>1 DEF ViewAsMade, PoolKept
<1> QED  BY <1>1, SpecInv, PTL

(* No block of the executor is lost and none is freed twice, as long as the *)
(* parameters that are loaded have storages of their own.                   *)
THEOREM NoneLost == Spec => []NothingLost
<1>1. IInv => NothingLost
  BY DEF IInv
<1> QED  BY <1>1, SpecInv, PTL

(* Every variable keeps its type. *)
THEOREM TypesHold == Spec => []TypeOK
<1>1. IInv => TypeOK
  BY DEF IInv
<1> QED  BY <1>1, SpecInv, PTL
-----------------------------------------------------------------------------

HIDE GraphAssumption

(* Before there is an executor nothing is allocated, and only one with a    *)
(* list hands out arrays: those of the inputs and outputs.                  *)
AotTypeOK ==
  /\ made \in 0 .. Len(Arguments)
  /\ count \in [Argument -> Nat] /\ aotHandles \in [Argument -> Nat]
  /\ running \in BOOLEAN
AotIdle ==
  /\ aot = "none" => aotLive = {}
  /\ aot \notin {"ready", "half"} => \A a \in Argument : aotHandles[a] = 0
  /\ \A a \in Argument : OwnedByExecutor(a) = 0 => aotHandles[a] = 0
AotInv == AotTypeOK /\ AotIdle /\ ArgsKept

LEMMA ArgumentsInOrder ==
  /\ Len(Arguments) \in Nat /\ Argument = 1 .. Len(Arguments)
  /\ Leftovers \subseteq Nat
BY ArgumentsAssumption DEF Argument

LEMMA Owned01 ==
  \A a \in Argument : /\ OwnedByExecutor(a) \in {0, 1}
                      /\ Decrement(OwnedByExecutor(a)) = 0
BY DEF OwnedByExecutor, Decrement

LEMMA AotInitInv == ExecutorsInit => AotInv
BY ArgumentsInOrder DEF ExecutorsInit, AotInit, Init, AotInv, AotTypeOK, AotIdle, ArgsKept

(* What a step leaves as it was. *)
LEMMA AotStuttering ==
  ASSUME AotInv, UNCHANGED <<aot, made, count, aotLive, aotHandles, stray>>
  PROVE  /\ AotIdle' /\ ArgsKept' /\ made' \in 0 .. Len(Arguments)
         /\ count' \in [Argument -> Nat] /\ aotHandles' \in [Argument -> Nat]
BY DEF AotInv, AotTypeOK, AotIdle, ArgsKept

LEMMA AotCreateStep ==
  ASSUME AotInv,
         AotCreateReady \/ AotCreateHalf \/ AotCreateBare \/ AotCreateReleases
  PROVE  AotInv'
<1>1. CASE AotCreateReady
  <2>1. \A a \in Argument : OwnedByExecutor(a) \in Nat /\ aotHandles[a] = 0
    BY <1>1, Owned01 DEF AotCreateReady, AotInv, AotIdle
  <2>2. AotTypeOK' /\ AotIdle'
    BY <1>1, <2>1, ArgumentsInOrder DEF AotCreateReady, AotInv, AotTypeOK, AotIdle
  <2>3. \A a \in 1 .. made' : count'[a] = OwnedByExecutor(a) + aotHandles'[a]
    BY <1>1, <2>1, ArgumentsInOrder DEF AotCreateReady
  <2>4. AotBlock \cup List \cup ArraysOf(1 .. made') \subseteq aotLive' /\ aot' = "ready"
    BY <1>1, ArgumentsInOrder DEF AotCreateReady
  <2> QED  BY <2>2, <2>3, <2>4 DEF AotInv, ArgsKept
<1>2. CASE AotCreateHalf
  <2>1. PICK a \in Argument, left \in [Argument -> Leftovers] :
          /\ made' = a - 1
          /\ count' = [b \in Argument |-> IF b < a THEN OwnedByExecutor(b)
                                          ELSE IF b = a THEN 0 ELSE left[b]]
          /\ aotLive' = aotLive \cup AotBlock \cup List \cup ArraysOf(1 .. a - 1)
    BY <1>2 DEF AotCreateHalf
  <2>2. /\ \A b \in Argument : OwnedByExecutor(b) \in Nat /\ aotHandles[b] = 0
        /\ aot' = "half" /\ UNCHANGED <<aotHandles, stray, running>>
    BY <1>2, Owned01 DEF AotCreateHalf, AotInv, AotIdle
  <2>3. /\ a \in 1 .. Len(Arguments) /\ made' \in 0 .. Len(Arguments)
        /\ \A b \in 1 .. made' : b \in Argument /\ b < a
    BY <2>1, ArgumentsInOrder
  <2>4. \A b \in Argument : left[b] \in Nat
    BY ArgumentsInOrder
  <2>5. AotTypeOK' /\ AotIdle'
    <3>1. count' \in [Argument -> Nat]
      BY <2>1, <2>2, <2>4
    <3> QED  BY <2>2, <2>3, <3>1 DEF AotInv, AotTypeOK, AotIdle
  <2>6. \A b \in 1 .. made' : count'[b] = OwnedByExecutor(b) + aotHandles'[b]
    BY <2>1, <2>2, <2>3
  <2> QED  BY <2>1, <2>2, <2>5, <2>6 DEF AotInv, ArgsKept
<1>3. CASE AotCreateBare
  BY <1>3 DEF AotCreateBare, AotInv, AotTypeOK, AotIdle, ArgsKept
<1>4. CASE AotCreateReleases
  <2>1. {a \in Argument : Decrement(OwnedByExecutor(a)) # 0} = {}
    BY Owned01
  <2>2. aotLive = {} /\ aotLive' = aotLive \cup ArraysOf({})
    BY <1>4, <2>1 DEF AotCreateReleases, AotInv, AotIdle
  <2>3. ArraysOf({}) = {}
    BY DEF ArraysOf
  <2> QED
    BY <1>4, <2>2, <2>3 DEF AotCreateReleases, AotInv, AotTypeOK, AotIdle, ArgsKept
<1> QED  BY <1>1, <1>2, <1>3, <1>4

LEMMA AotGetStep ==
  ASSUME AotInv, NEW a \in Argument, AotGet(a)
  PROVE  AotInv'
<1>1. \A b \in Argument : /\ count'[b] = IF b = a THEN count[b] + 1 ELSE count[b]
                          /\ aotHandles'[b] = IF b = a THEN aotHandles[b] + 1 ELSE aotHandles[b]
  BY DEF AotGet, AotInv, AotTypeOK
<1>2. AotTypeOK'
  BY DEF AotGet, AotInv, AotTypeOK
<1>3. AotIdle'
  <2>1. OwnedByExecutor(a) # 0
    BY DEF AotGet, OwnedByExecutor
  <2> QED  BY <1>1, <2>1 DEF AotGet, AotInv, AotIdle
<1>4. \A b \in 1 .. made : b \in Argument
  BY ArgumentsInOrder DEF AotInv, AotTypeOK
<1>5. \A b \in 1 .. made : count'[b] = OwnedByExecutor(b) + aotHandles'[b]
  <2> SUFFICES ASSUME NEW b \in 1 .. made
               PROVE  count'[b] = OwnedByExecutor(b) + aotHandles'[b]
    OBVIOUS
  <2>1. /\ b \in Argument /\ count[b] = OwnedByExecutor(b) + aotHandles[b]
        /\ OwnedByExecutor(b) \in Nat /\ aotHandles[b] \in Nat
    BY <1>4, Owned01 DEF AotGet, AotInv, AotTypeOK, ArgsKept
  <2> QED  BY <1>1, <2>1
<1>6. ArgsKept'
  BY <1>5 DEF AotGet, AotInv, ArgsKept
<1> QED  BY <1>2, <1>3, <1>6 DEF AotInv

(* An array that was made and that the host can free has a reference of the *)
(* executor's as well, so that its count does not come to zero.             *)
LEMMA AotFreeHandleStep ==
  ASSUME AotInv, NEW a \in Argument, AotFreeHandle(a)
  PROVE  AotInv'
<1>1. /\ aot \in {"ready", "half"} /\ OwnedByExecutor(a) = 1
      /\ count[a] \in Nat /\ aotHandles[a] \in Nat /\ aotHandles[a] > 0
      /\ made \in 0 .. Len(Arguments) /\ a \in 1 .. Len(Arguments)
  BY Owned01, ArgumentsInOrder DEF AotFreeHandle, AotInv, AotTypeOK, AotIdle
<1>2. ASSUME a <= made
      PROVE  count[a] = 1 + aotHandles[a] /\ Decrement(count[a]) = count[a] - 1 /\ Decrement(count[a]) # 0
  <2>1. a \in 1 .. made
    BY <1>1, <1>2
  <2>2. count[a] = 1 + aotHandles[a]
    BY <1>1, <2>1 DEF AotInv, ArgsKept
  <2> QED  BY <1>1, <2>2 DEF Decrement
<1>3. Decrement(count[a]) \in Nat
  BY <1>1 DEF Decrement
<1>4. /\ count' = [count EXCEPT ![a] = Decrement(count[a])]
      /\ aotHandles' = [aotHandles EXCEPT ![a] = aotHandles[a] - 1]
      /\ UNCHANGED <<aot, aotModule, made>>
  BY DEF AotFreeHandle
<1>5. \A b \in Argument :
        /\ count'[b] = IF b = a THEN Decrement(count[a]) ELSE count[b]
        /\ aotHandles'[b] = IF b = a THEN aotHandles[a] - 1 ELSE aotHandles[b]
  BY <1>4 DEF AotInv, AotTypeOK
<1>6. running' \in BOOLEAN /\ (UNCHANGED <<aotLive, stray>> \/ stray' = TRUE)
  <2>1. running \in BOOLEAN
    BY DEF AotInv, AotTypeOK
  <2>2. CASE Decrement(count[a]) = 0 /\ a > made
    BY <2>1, <2>2 DEF AotFreeHandle, ReleaseUnmade
  <2>3. CASE ~(Decrement(count[a]) = 0 /\ a > made)
    <3>1. Decrement(count[a]) # 0
      BY <1>1, <1>2, <2>3
    <3> QED  BY <2>1, <2>3, <3>1 DEF AotFreeHandle
  <2> QED  BY <2>2, <2>3
<1>7. AotTypeOK'
  BY <1>1, <1>3, <1>4, <1>6 DEF AotInv, AotTypeOK
<1>8. AotIdle'
  BY <1>1, <1>4, <1>5 DEF AotInv, AotIdle
<1>9. \A b \in 1 .. made : count'[b] = OwnedByExecutor(b) + aotHandles'[b]
  <2> SUFFICES ASSUME NEW b \in 1 .. made
               PROVE  count'[b] = OwnedByExecutor(b) + aotHandles'[b]
    OBVIOUS
  <2>1. b \in Argument /\ count[b] = OwnedByExecutor(b) + aotHandles[b]
    BY <1>1, ArgumentsInOrder DEF AotInv, ArgsKept
  <2>2. CASE b = a
    BY <1>1, <1>2, <1>5, <2>1, <2>2
  <2>3. CASE b # a
    BY <1>5, <2>1, <2>3
  <2> QED  BY <2>2, <2>3
<1>10. ArgsKept'
  BY <1>1, <1>4, <1>6, <1>9 DEF AotInv, ArgsKept
<1> QED  BY <1>7, <1>8, <1>10 DEF AotInv

LEMMA AotNextInv == AotInv /\ [ExecutorsNext]_allVars => AotInv'
<1> SUFFICES ASSUME AotInv, [ExecutorsNext]_allVars PROVE AotInv'
  OBVIOUS
<1>1. CASE UNCHANGED aotVars /\ running' \in BOOLEAN
  BY <1>1, AotStuttering DEF aotVars, AotInv, AotTypeOK
<1>2. CASE Next /\ UNCHANGED aotVars
  <2>1. running' \in BOOLEAN
    BY <1>2 DEF Next, AotInv, AotTypeOK, CreateFails, CreateStops, CreateReady,
      CreateReleases, FreeModule, Get, GetUnknownInput, FreeHandle, ReleaseView, LoadParams,
      LoadParamsStops
  <2> QED  BY <1>1, <1>2, <2>1
<1>3. CASE AotCreateNothing \/ AotFreeModule
  BY <1>3, AotStuttering DEF AotCreateNothing, AotFreeModule, AotInv, AotTypeOK
<1>4. CASE AotCreateStops \/ AotStops
  BY <1>1, <1>4 DEF AotCreateStops, AotStops
<1>5. CASE AotNext
  BY <1>3, <1>4, <1>5, AotCreateStep, AotGetStep, AotFreeHandleStep DEF AotNext
<1>6. CASE UNCHANGED allVars
  BY <1>1, <1>6 DEF allVars, vars, AotInv, AotTypeOK
<1> QED  BY <1>2, <1>5, <1>6 DEF ExecutorsNext

(* The arrays of the ahead-of-time executor keep their storage whatever the *)
(* host gets and frees, those of an executor whose Create failed at one of  *)
(* them too, until one that was never written is released; and a Create     *)
(* that finds no slot leaves nothing allocated (TVMAotExecutor_Init,        *)
(* TVMNDArray_Release).                                                    *)
THEOREM ArgumentsHold == ExecutorsSpec => []ArgsKept
<1>1. AotInv => ArgsKept
  BY DEF AotInv
<1> QED  BY <1>1, AotInitInv, AotNextInv, PTL DEF ExecutorsSpec

-----------------------------------------------------------------------------
(* A step of the other executor changes nothing of this one, or stops the   *)
(* program as a Create can.                                                 *)
LEMMA AotStepIsGraphStep ==
  ASSUME executor = "none" /\ running, AotNext,
         UNCHANGED <<executor, module, entry, flagged, live, hostVars, loaded, freedTwice>>
  PROVE  [Next]_vars
<1>1. UNCHANGED running \/ running' = FALSE
  BY DEF AotNext, AotCreateReady, AotCreateHalf, AotCreateBare, AotCreateNothing,
    AotCreateReleases, AotCreateStops, AotFreeModule, AotGet, AotFreeHandle, ReleaseUnmade,
    AotStops
<1>2. CASE UNCHANGED running
  BY <1>2 DEF vars, hostVars
<1>3. CASE running' = FALSE
  BY <1>3 DEF Next, CreateStops
<1> QED  BY <1>1, <1>2, <1>3

(* A device that has both executors registered behaves, as far as the graph *)
(* executor goes, like one that has no other.                               *)
LEMMA ExecutorsImplementGraph == ExecutorsSpec => Spec
<1>1. ExecutorsInit => Init
  BY DEF ExecutorsInit
<1>2. [ExecutorsNext]_allVars => [Next]_vars
  BY AotStepIsGraphStep DEF ExecutorsNext, allVars
<1> QED  BY <1>1, <1>2, PTL DEF ExecutorsSpec, Spec

(* What is proved of the graph executor alone holds next to the other one:  *)
(* its handles are counted, its storage lives, and nothing is lost          *)
(* (TVMNDArray_Release, TVMGraphExecutor_Release, LoadParams).              *)
THEOREM BothExecutorsHold == ExecutorsSpec => [](HandlesCounted /\ StorageLives /\ NothingLost)
BY ExecutorsImplementGraph, CountsHold, StorageHolds, NoneLost, PTL
=============================================================================
