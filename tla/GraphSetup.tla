----------------------------- MODULE GraphSetup -----------------------------
(***************************************************************************)
(* How a graph that was loaded becomes an executor: SetupStorage sizes the *)
(* storage pool and makes a view of it for each entry, SetupOpExecs binds  *)
(* an operator to each node (graph_executor.c).  What TVMGraphExecutor_Load*)
(* makes of a document is here what it promises; GraphLoader has how it    *)
(* comes about, and GraphExecutor what becomes of the executor afterwards. *)
(***************************************************************************)
EXTENDS Integers, SequencesExt

CONSTANTS
  Documents,  \* texts by name, with the graphs they were written for
  Bits,       \* bits * lanes of each dltype
  Functions,  \* the functions of the module the operators come from
  MaxNdim,    \* TVM_CRT_MAX_NDIM: 6
  MaxArgs,    \* TVM_CRT_MAX_ARGS: 10
  WordSize,   \* 2^w, w the width of a size: 2^32
  Garbage     \* stands for memory that was not written

(* Bytes of an element, and the product of the dimensions up to the first   *)
(* that is zero.                                                            *)
TypeBytes(type) == (Bits[type] + 7) \div 8
AccumulatedDims(shape) ==
  LET accum[i \in 0 .. Len(shape)] ==
        IF i = 0 THEN 1
        ELSE IF \E j \in 1 .. i : shape[j] = 0 THEN accum[i - 1] ELSE accum[i - 1] * shape[i]
  IN  accum[Len(shape)]

(* What the compiler writes: nodes, whose inputs are outputs of nodes, and  *)
(* an entry for each output, in the order of the nodes.  node_row_ptr has   *)
(* the number of the first entry of each node, and of all of them.          *)
(* pool_entry has as many elements as there are nodes (bound: so there are  *)
(* no more storage ids), and an entry fits the memory there is (bound: its  *)
(* bytes, rounded up to floats, can be counted).                            *)
NodeEntry == [node_id : Nat, index : Nat, version : Nat]
GraphNode == [op : STRING, name : STRING, func : STRING, inputs : Seq(NodeEntry),
              outputs : Nat, flatten : Nat]
NodesWritten(nodes) ==
  /\ nodes \in Seq(GraphNode)
  /\ \A n \in DOMAIN nodes :
       \A i \in DOMAIN nodes[n].inputs :
         LET entry == nodes[n].inputs[i] IN
         entry.node_id < Len(nodes) /\ entry.index < nodes[entry.node_id + 1].outputs
RowsWritten(nodes, row) ==
  /\ row \in Seq(Nat) /\ Len(row) = Len(nodes) + 1
  /\ row[1] = 0 /\ \A n \in DOMAIN nodes : row[n + 1] = row[n] + nodes[n].outputs
EntriesWritten(graph) ==
  LET entries == 1 .. Last(graph.node_row_ptr) IN
  /\ graph.dltype \in [entries -> DOMAIN Bits]
  /\ graph.storage_id \in [entries -> 0 .. Len(graph.nodes) - 1]
  /\ graph.shape \in [entries -> Seq(Nat)]
  /\ \A e \in entries :
       /\ Len(graph.shape[e]) <= MaxNdim
       /\ TypeBytes(graph.dltype[e]) * AccumulatedDims(graph.shape[e]) + 3 < WordSize

(* long: a string of the document leaves less than two bytes of its buffer. *)
(* refused: it has a key, an operator or an attribute that is not known, or *)
(* too many arguments.                                                      *)
Acceptable(graph) ==
  \A n \in DOMAIN graph.nodes :
    LET node == graph.nodes[n] IN
    node.op # "null" => node.op = "tvm_op" /\ Len(node.inputs) + node.outputs < MaxArgs

ASSUME DocumentAssumption ==
  \A d \in DOMAIN Documents :
    LET graph == Documents[d].graph IN
    /\ {Documents[d].long, Documents[d].refused} \subseteq BOOLEAN
    /\ NodesWritten(graph.nodes) /\ RowsWritten(graph.nodes, graph.node_row_ptr)
    /\ EntriesWritten(graph)
    /\ Documents[d].refused \/ Acceptable(graph)

ASSUME SizesAssumption ==
  /\ \A type \in DOMAIN Bits : Bits[type] \in Nat \ {0}
  /\ MaxNdim \in Nat /\ MaxArgs \in Nat /\ WordSize \in Nat

VARIABLES
  document,    \* the name of the document
  at,          \* "load", "storage", "operators", "ready", or how it ended
  executor,    \* what Load has read, by key: its domain is the bitmask
  pool,        \* bytes of each storage pool entry
  data_entry,  \* the views: storage, shape and dltype
  op_execs     \* the operators bound so far: function and entries

vars == <<document, at, executor, pool, data_entry, op_execs>>

written == Documents[document].graph

Init ==
  /\ document \in DOMAIN Documents
  /\ at = "load" /\ executor = <<>>
  /\ pool = <<>> /\ data_entry = <<>> /\ op_execs = <<>>

-----------------------------------------------------------------------------
(* What is loaded is what the compiler wrote, but that a shape without      *)
(* dimensions is read as a single zero.  The nodes are not cleared first,   *)
(* and one without an operator has no parameters to read.                   *)
NodeAsWritten(loaded, node) ==
  /\ loaded.op = node.op /\ loaded.name = node.name /\ loaded.inputs = node.inputs
  /\ node.op # "null" =>
       loaded.param = [func_name |-> node.func, num_inputs |-> Len(node.inputs),
                       num_outputs |-> node.outputs, flatten_data |-> node.flatten]
AsWritten(loaded) ==
  /\ loaded.arg_nodes = written.arg_nodes /\ loaded.heads = written.heads
  /\ loaded.node_row_ptr = written.node_row_ptr
  /\ Len(loaded.nodes) = Len(written.nodes)
  /\ \A i \in DOMAIN written.nodes : NodeAsWritten(loaded.nodes[i], written.nodes[i])
  /\ loaded.attrs.dltype = written.dltype /\ loaded.attrs.storage_id = written.storage_id
  /\ loaded.attrs.shape =
       [i \in DOMAIN written.shape |-> IF written.shape[i] = <<>> THEN <<0>> ELSE written.shape[i]]

(* A step of TVMGraphExecutor_Load: whatever the order of keys and with     *)
(* every optional field there or not, a document is misread just when a     *)
(* string does not fit, and refused only for what the executor has no use   *)
(* for.  What Load returns is ignored: Init goes on with what was read, and *)
(* is not followed here (bound).                                            *)
Loading ==
  /\ at = "load"
  /\ at' \in {"load", "storage", "misread", "failed"}
  /\ at' = "misread" => Documents[document].long
  /\ at' = "failed"  => Documents[document].refused /\ ~Documents[document].long
  /\ at' = "storage" => AsWritten(executor') /\ ~Documents[document].long
  /\ UNCHANGED <<document, pool, data_entry, op_execs>>

(* Memory that an array does not get, in Load, SetupStorage or SetupOpExecs. *)
NoMemory ==
  /\ at \in {"load", "storage", "operators"}
  /\ at = "operators" => op_execs = <<>>
  /\ at' = "no memory"
  /\ UNCHANGED <<document, executor, pool, data_entry, op_execs>>

-----------------------------------------------------------------------------
Shape_Accumulate(shape) == AccumulatedDims(shape) % WordSize

EntryBytes(i) ==
  (TypeBytes(executor.attrs.dltype[i]) * Shape_Accumulate(executor.attrs.shape[i])) % WordSize

(* The size of a pool entry: the largest of the entries that share it, in   *)
(* whole floats.  Mutant: that of the last of them.                         *)
Sharing(s) == {i \in DOMAIN executor.attrs.storage_id : executor.attrs.storage_id[i] = s}
LastSize(s) == IF Sharing(s) = {} THEN 0 ELSE EntryBytes(Max(Sharing(s)))
PoolSize(s) == Max({0} \cup {EntryBytes(i) : i \in Sharing(s)})
Floats(size) == ((size + 3) % WordSize) \div 4

PoolEntryCount ==
  Max({0} \cup {executor.attrs.storage_id[i] + 1 : i \in DOMAIN executor.attrs.storage_id})

(* TVMGraphExecutor_SetupStorage.  An entry whose storage is a parameter    *)
(* linked into the program gets no memory of the pool; its data is as large *)
(* as the compiler made it, and it is left out here (bound).                *)
SetupStorage ==
  LET attrs == executor.attrs IN
  /\ at = "storage"
  /\ pool' = [s \in 0 .. PoolEntryCount - 1 |-> 4 * Floats(PoolSize(s))]
  /\ data_entry' = [e \in 0 .. Last(executor.node_row_ptr) - 1 |->
                      [storage |-> attrs.storage_id[e + 1], shape |-> attrs.shape[e + 1],
                       dltype |-> attrs.dltype[e + 1]]]
  /\ at' = "operators"
  /\ UNCHANGED <<document, executor, op_execs>>

(* Mutant: the first output of the node, whichever is meant. *)
FirstEntryId(nid, index) == executor.node_row_ptr[nid + 1]
GetEntryId(nid, index)   == executor.node_row_ptr[nid + 1] + index

Args(nid) ==
  LET node == executor.nodes[nid + 1] IN
  [i \in DOMAIN node.inputs |-> GetEntryId(node.inputs[i].node_id, node.inputs[i].index)]
  \o [i \in 1 .. node.param.num_outputs |-> GetEntryId(nid, i - 1)]

NoOperator == [func |-> "null", args |-> <<>>]

(* CreateTVMOp.  What it returns is ignored: when the module has no such    *)
(* function the operator keeps the function, the number of arguments and    *)
(* the pointers that the local variable happened to hold, those of an       *)
(* operator before or any others, and run calls it.  With flatten_data it   *)
(* writes through NULL.                                                     *)
Uninitialized == [func |-> Garbage, args |-> Garbage]

CreateTVMOp(nid) ==
  LET param == executor.nodes[nid + 1].param IN
  IF param.func_name \in Functions
  THEN {[func |-> param.func_name, args |-> Args(nid)]}
  ELSE ({op_execs[i] : i \in DOMAIN op_execs} \ {NoOperator}) \cup {Uninitialized}

Flattens(nid) == executor.nodes[nid + 1].param.flatten_data # 0 /\ Args(nid) # <<>>

(* One turn of the loop of TVMGraphExecutor_SetupOpExecs: the operator of   *)
(* a node that has one and not too many arguments.                          *)
Takes(nid) == executor.nodes[nid + 1].op = "tvm_op" /\ Len(Args(nid)) < MaxArgs

SetupOpExec ==
  LET nid == Len(op_execs)  op == executor.nodes[nid + 1].op IN
  /\ at = "operators" /\ nid < Len(executor.nodes)
  /\ \/ op = "null" /\ op_execs' = Append(op_execs, NoOperator) /\ UNCHANGED at
     \/ op # "null" /\ Takes(nid) /\ ~Flattens(nid) /\ UNCHANGED at
        /\ \E pf \in CreateTVMOp(nid) : op_execs' = Append(op_execs, pf)
     \/ op # "null" /\ Takes(nid) /\ Flattens(nid) /\ at' = "stopped" /\ UNCHANGED op_execs
     \/ op # "null" /\ ~Takes(nid) /\ at' = "failed" /\ UNCHANGED op_execs
  /\ UNCHANGED <<document, executor, pool, data_entry>>

SetupEnds ==
  /\ at = "operators" /\ Len(op_execs) = Len(executor.nodes)
  /\ at' = "ready"
  /\ UNCHANGED <<document, executor, pool, data_entry, op_execs>>

SetupNext == NoMemory \/ SetupStorage \/ SetupOpExec \/ SetupEnds

Next == Loading \/ SetupNext

Spec == Init /\ [][Next]_vars

-----------------------------------------------------------------------------
(* Every entry has a view whose storage is large enough for it, whichever   *)
(* entries of other sizes and types share it (SetupStorage).                *)
Elements(shape) ==
  LET product[i \in 0 .. Len(shape)] == IF i = 0 THEN 1 ELSE product[i - 1] * shape[i]
  IN  product[Len(shape)]
TensorBytes(i) == TypeBytes(written.dltype[i]) * Elements(written.shape[i])
ViewsFit ==
  at \in {"operators", "ready"} =>
    /\ DOMAIN data_entry = 0 .. Len(written.shape) - 1
    /\ \A e \in DOMAIN data_entry :
         data_entry[e].storage \in DOMAIN pool /\ TensorBytes(e + 1) <= pool[data_entry[e].storage]

(* An executor that is ready runs, for each node whose function the module  *)
(* has, that function on the entries of the node's inputs and its outputs,  *)
(* counted over the outputs of all nodes before, and each of those has a    *)
(* view.  Nothing is said of a function the module does not have, "__nop"   *)
(* of a reshape among them: whatever runs for it is uninitialized.  Only a  *)
(* node the executor has no use for ends the setup (SetupOpExecs,           *)
(* TVMGraphExecutor_GetEntryId).                                            *)
NumberOf(n, index) ==
  Cardinality(UNION {{k} \X (1 .. written.nodes[k].outputs) : k \in 1 .. n}) + index
OperatorOf(n) ==
  LET node == written.nodes[n] IN
  [func |-> node.func,
   args |-> [i \in DOMAIN node.inputs |->
               NumberOf(node.inputs[i].node_id, node.inputs[i].index)]
            \o [i \in 1 .. node.outputs |-> NumberOf(n - 1, i - 1)]]
OperatorsAsWritten ==
  /\ at = "failed" => Documents[document].refused
  /\ at = "ready" =>
       \A n \in DOMAIN written.nodes :
         LET node == written.nodes[n] IN
         /\ node.op = "null" => op_execs[n] = NoOperator
         /\ node.op # "null" /\ node.func \in Functions =>
              /\ op_execs[n] = OperatorOf(n)
              /\ \A a \in DOMAIN op_execs[n].args : op_execs[n].args[a] \in DOMAIN data_entry
=============================================================================
