---------------------------- MODULE GraphLoader ----------------------------
(***************************************************************************)
(* How TVMGraphExecutor_Load reads the JSON document the compiler wrote,   *)
(* key by key (graph_executor.c).  GraphSetup has what is made of it.      *)
(***************************************************************************)
EXTENDS JSONReader, GraphSetup

VARIABLE reader  \* the JSONReader

(* JSONReader_Create, and BeginObject of Load. *)
LoaderInit == Init /\ reader = Begin(Create(Documents[document].text))

-----------------------------------------------------------------------------
Loaded(r, value, ok) == [reader |-> r, value |-> value, ok |-> ok]

(* The array is read to its end also when there are as many dimensions as   *)
(* there may be.  Mutant: it is not.                                        *)
ShapeNotEnded(r, dims) == Loaded(r, dims, TRUE)
ShapeEnd(r, dims)      == Loaded(NextArrayItem(r).reader, dims, TRUE)

(* The dimensions after the first. *)
RECURSIVE Dims(_, _)
DimOf(next, dims) ==
  IF next.has THEN Dims(ReadInteger(next.reader).reader,
                        Append(dims, ReadInteger(next.reader).value))
              ELSE Loaded(next.reader, dims, TRUE)
Dims(r, dims) == IF Len(dims) = MaxNdim THEN ShapeEnd(r, dims)
                 ELSE DimOf(NextArrayItem(r), dims)

(* The first number is read before the reader is asked for an item, so that *)
(* an empty shape is one of a single zero.                                  *)
OneDim(first, second) ==
  IF second.has THEN Dims(second.reader, <<first>>) ELSE Loaded(second.reader, <<first>>, TRUE)
Shape_Load(r) ==
  LET first == ReadInteger(Begin(r)) IN OneDim(first.value, NextArrayItem(first.reader))

(* TVMGraphExecutorNode_LoadAttrs: keys it does not know are skipped. *)
RECURSIVE LoadAttrs(_, _)
LoadAttrs(next, param) ==
  LET value == ReadString(next.reader, 120) IN
  IF ~next.has THEN Loaded(next.reader, param, TRUE)
  ELSE LoadAttrs(NextObjectItem(value.reader, 20),
                 IF next.key \in DOMAIN param
                 THEN [param EXCEPT ![next.key] = value.value] ELSE param)

NoParam == [func_name |-> "", num_inputs |-> 0, num_outputs |-> 0, flatten_data |-> 0]

-----------------------------------------------------------------------------
(* An array is allocated for the items counted ahead; one item more is an   *)
(* error.                                                                   *)
RECURSIVE LoadItem(_, _), LoadItems(_, _, _, _), NodeKeys(_, _, _)

Collect(kind, item, length, items) ==
  IF item.ok THEN LoadItems(kind, NextArrayItem(item.reader), length, Append(items, item.value))
             ELSE Loaded(item.reader, items, FALSE)

LoadItems(kind, next, length, items) ==
  IF ~next.has THEN Loaded(next.reader, items, TRUE)
  ELSE IF Len(items) = length THEN Loaded(next.reader, items, FALSE)
  ELSE Collect(kind, LoadItem(kind, next.reader), length, items)

LoadCounted(kind, array) == LoadItems(kind, NextArrayItem(array.reader), array.length, <<>>)
LoadArray(kind, r)       == LoadCounted(kind, ArrayLength(Begin(r)))

(* NodeEntry_Load, and the same loop in Node_Load: two numbers or three. *)
EntryOf(numbers) ==
  Loaded(numbers.reader,
         [node_id |-> numbers.value[1], index |-> numbers.value[2],
          version |-> IF Len(numbers.value) = 3 THEN numbers.value[3] ELSE 0],
         numbers.ok /\ Len(numbers.value) >= 2)
NodeEntry_Load(r) == EntryOf(LoadItems("number", NextArrayItem(Begin(r)), 3, <<>>))

(* TVMGraphExecutorNode_Load.  The nodes are not cleared first. *)
NodeField(next) ==
  CASE next.key = "op"     -> ReadString(next.reader, 16)
    [] next.key = "name"   -> ReadString(next.reader, 120)
    [] next.key = "inputs" -> LoadArray("entry", next.reader)
    [] next.key \in {"attr", "attrs"} ->
         LoadAttrs(NextObjectItem(Begin(next.reader), 20), NoParam)
    [] OTHER -> Loaded(next.reader, Garbage, FALSE)

NodeWith(field, loaded, node, mask) ==
  IF loaded.ok THEN NodeKeys(NextObjectItem(loaded.reader, 20),
                             [node EXCEPT ![field] = loaded.value], mask \cup {field})
               ELSE Loaded(loaded.reader, node, FALSE)

NodeKeys(next, node, mask) ==
  IF next.has
  THEN NodeWith(IF next.key \in {"attr", "attrs"} THEN "param" ELSE next.key,
                NodeField(next), node, mask)
  ELSE Loaded(next.reader, node, {"op", "name", "inputs"} \subseteq mask)

Node_Load(r) ==
  NodeKeys(NextObjectItem(Begin(r), 20),
           [op |-> Garbage, name |-> Garbage, param |-> Garbage, inputs |-> <<>>], {})

LoadItem(kind, r) ==
  CASE kind = "node"   -> Node_Load(r)
    [] kind = "entry"  -> NodeEntry_Load(r)
    [] kind = "shape"  -> Shape_Load(r)
    [] kind = "dltype" -> ReadString(r, 10)
    [] kind = "number" -> ReadInteger(r)

-----------------------------------------------------------------------------
(* An attribute is an array of a type's name and a value of that type. *)
AttrTypes ==
  [dltype |-> {"list_str"}, storage_id |-> {"list_int"}, shape |-> {"list_shape"},
   device_index |-> {"list_int"}]
TypesOf(key) == IF key \in DOMAIN AttrTypes THEN AttrTypes[key] ELSE {"list_int", "size_t"}
ItemOf == [list_str |-> "dltype", list_int |-> "number", list_shape |-> "shape"]

AttrEnd(loaded, last) == Loaded(last.reader, loaded.value, loaded.ok /\ ~last.has)
AttrValue(loaded)     == AttrEnd(loaded, NextArrayItem(loaded.reader))

AttrOfType(key, type, next) ==
  IF type \notin TypesOf(key) \/ ~next.has THEN Loaded(next.reader, <<>>, FALSE)
  ELSE IF type = "size_t" THEN AttrValue(ReadInteger(next.reader))
  ELSE AttrValue(LoadArray(ItemOf[type], next.reader))

Attr_Load(key, first) ==
  LET type == ReadString(first.reader, 16) IN
  IF first.has THEN AttrOfType(key, type.value, NextArrayItem(type.reader))
               ELSE Loaded(first.reader, <<>>, FALSE)

(* TVMGraphExecutorGraphAttr_Load; device_index is read and not used. *)
RECURSIVE AttrKeys(_, _)
AttrWith(key, loaded, attrs) ==
  IF loaded.ok THEN AttrKeys(NextObjectItem(loaded.reader, 16), (key :> loaded.value) @@ attrs)
               ELSE Loaded(loaded.reader, attrs, FALSE)

AttrKeys(next, attrs) ==
  IF next.has
  THEN AttrWith(next.key, Attr_Load(next.key, NextArrayItem(Begin(next.reader))), attrs)
  ELSE Loaded(next.reader, attrs, {"dltype", "storage_id", "shape"} \subseteq DOMAIN attrs)

-----------------------------------------------------------------------------
(* TVMGraphExecutor_Load *)
Arrays ==
  [nodes |-> "node", arg_nodes |-> "number", node_row_ptr |-> "number", heads |-> "entry"]
NextKey == NextObjectItem(reader, 20)

ValueOf(next) ==
  IF next.key \in DOMAIN Arrays THEN LoadArray(Arrays[next.key], next.reader)
                                ELSE AttrKeys(NextObjectItem(Begin(next.reader), 16), <<>>)

LoadKey ==
  /\ at = "load" /\ NextKey.has /\ NextKey.key \in DOMAIN Arrays \cup {"attrs"}
  /\ \E loaded \in {ValueOf(NextKey)} :
       /\ reader' = loaded.reader
       /\ executor' = (NextKey.key :> loaded.value) @@ executor
       /\ at' = IF loaded.reader.lost THEN "misread"
                ELSE IF loaded.ok THEN "load" ELSE "failed"
  /\ UNCHANGED <<document, pool, data_entry, op_execs>>

(* Reading ends with the object, or at the metadata behind the graph. *)
LoadEnds ==
  /\ at = "load" /\ (~NextKey.has \/ NextKey.key = "metadata")
  /\ reader' = NextKey.reader
  /\ at' = IF DOMAIN executor = DOMAIN Arrays \cup {"attrs"} THEN "storage" ELSE "failed"
  /\ UNCHANGED <<document, executor, pool, data_entry, op_execs>>

(* A key that is not known. *)
UnknownKey ==
  /\ at = "load" /\ NextKey.has
  /\ NextKey.key \notin DOMAIN Arrays \cup {"attrs", "metadata"}
  /\ at' = "failed" /\ UNCHANGED <<document, reader, executor, pool, data_entry, op_execs>>

LoaderNext == LoadKey \/ LoadEnds \/ UnknownKey \/ (SetupNext /\ UNCHANGED reader)

LoaderSpec == LoaderInit /\ [][LoaderNext]_<<vars, reader>>

-----------------------------------------------------------------------------
(* The loader keeps the promise GraphSetup relies on: what is loaded is     *)
(* what the compiler wrote, whatever the order of keys and with every       *)
(* optional field there or not.  The reader's scopes are closed when it     *)
(* ends, no array is too short for its items, and reading goes wrong only   *)
(* on a string that does not fit (JSONReader, TVMGraphExecutor_Load).       *)
LoadsAsWritten == Spec
=============================================================================
