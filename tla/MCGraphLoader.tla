--------------------------- MODULE MCGraphLoader ----------------------------
(***************************************************************************)
(* Documents like template_project/model/executor-config/graph/            *)
(* default.graph: each graph is written with its keys in every order, and  *)
(* with or without what is optional.                                       *)
(***************************************************************************)
EXTENDS GraphLoader

MCBits == [float32 |-> 32, int8 |-> 8, bool |-> 1, int16x2 |-> 32, float64x4 |-> 256]
MCFunctions == {"dense", "split", "add"}

Entry(node, index, version) == [node_id |-> node, index |-> index, version |-> version]
Input == [op |-> "null", name |-> "input", func |-> "", outputs |-> 1, flatten |-> 0,
          inputs |-> <<>>]
Op(func, outputs, inputs) ==
  [op |-> "tvm_op", name |-> func, func |-> func, outputs |-> outputs, flatten |-> 0,
   inputs |-> [i \in DOMAIN inputs |-> Entry(inputs[i][1], inputs[i][2], i - 1)]]

(* dltype, storage id and shape of each entry. *)
Graph(nodes, entries) ==
  [nodes |-> nodes, arg_nodes |-> <<0>>, heads |-> <<Entry(Len(nodes) - 1, 0, 0)>>,
   node_row_ptr |-> [i \in 1 .. Len(nodes) + 1 |->
      FoldLeft(LAMBDA sum, n : sum + n.outputs, 0, SubSeq(nodes, 1, i - 1))],
   dltype |-> [i \in DOMAIN entries |-> entries[i][1]],
   storage_id |-> [i \in DOMAIN entries |-> entries[i][2]],
   shape |-> [i \in DOMAIN entries |-> entries[i][3]]]

(* A chain with a reshape, as in default.graph; the largest entry of a      *)
(* storage is not the last one; a scalar; a shape of MaxNdim dimensions.    *)
Chain ==
  Graph(<<Input, Op("__nop", 1, << <<0, 0>> >>), Op("dense", 1, << <<1, 0>> >>)>>,
        << <<"float32", 0, <<2, 2, 2>> >>, <<"float32", 0, <<>> >>, <<"int8", 1, <<3>> >> >>)

(* The second output of an operator is used, an operator has one argument   *)
(* less than the limit, and entries of different types share a storage.     *)
Split ==
  Graph(<<Input, Op("split", 2, << <<0, 0>> >>), Op("add", 1, << <<1, 1>>, <<1, 0>> >>)>>,
        << <<"int8", 0, <<5>> >>, <<"bool", 1, <<1, 3>> >>, <<"int16x2", 2, <<2, 2>> >>,
           <<"int8", 2, <<1, 2>> >> >>)

Crowded ==
  Graph(<<Input, Op("split", 2, << <<0, 0>> >>),
          Op("add", 1, << <<1, 1>>, <<1, 0>>, <<0, 0>> >>)>>, 
        << <<"int8", 0, <<5>> >>, <<"int8", 1, <<3>> >>, <<"int8", 1, <<3>> >>,
           <<"int8", 2, <<1>> >> >>)

Flat     == [Chain EXCEPT !.nodes[3].flatten = 1]
Unknown  == [Chain EXCEPT !.nodes[3].op = "other"]
Wide     == [Chain EXCEPT !.dltype[3] = "float64x4"]  \* 9 characters of 10
LongName == [Chain EXCEPT !.nodes[2].name = "long"]

-----------------------------------------------------------------------------
Length(string) == IF string = "long" THEN 119 ELSE Len(string)

Sign(sign)     == << [is |-> sign] >>
Str(string)    == << [is |-> "string", of |-> string, len |-> Length(string)] >>
Digits(n)      == << [is |-> "string", of |-> n, len |-> 1] >>
Num(n)         == << [is |-> "number", of |-> n] >>

Items(texts) ==
  FlattenSeq([i \in DOMAIN texts |-> IF i = 1 THEN texts[1] ELSE Sign(",") \o texts[i]])
Each(F(_), s) == [i \in DOMAIN s |-> F(s[i])]
Array(texts)  == Sign("[") \o Items(texts) \o Sign("]")
Object(texts) == Sign("{") \o Items(texts) \o Sign("}")
Key(key, text) == Str(key) \o Sign(":") \o text

(* full: with everything that is optional. *)
EntryText(entry, full) ==
  Array(<<Num(entry.node_id), Num(entry.index)>>
        \o IF full \/ entry.version # 0 THEN <<Num(entry.version)>> ELSE <<>>)

NodeText(node, full) ==
  LET Of(entry) == EntryText(entry, full)
      inputs == Key("inputs", Array(Each(Of, node.inputs)))
      names  == <<Key("op", Str(node.op)), Key("name", Str(node.name))>>
      attrs  == Key(IF full THEN "attrs" ELSE "attr", Object(
                  <<Key("num_outputs", Digits(node.outputs)),
                    Key("num_inputs", Digits(Len(node.inputs))),
                    Key("flatten_data", Digits(node.flatten)),
                    Key("func_name", Str(node.func))>>
                  \o IF full THEN <<Key("hash", Str("6a8c"))>> ELSE <<>>))
  IN  Object(IF node.op = "null" THEN names \o <<inputs>>
             ELSE IF full THEN names \o <<attrs, inputs>> ELSE <<inputs, attrs>> \o names)

AttrText(type, text) == Array(<<Str(type), text>>)
AttrsText(graph, full) ==
  LET Dim(dims) == Array(Each(Num, dims))
      attrs == <<Key("dltype", AttrText("list_str", Array(Each(Str, graph.dltype)))),
                 Key("storage_id", AttrText("list_int", Array(Each(Num, graph.storage_id)))),
                 Key("shape", AttrText("list_shape", Array(Each(Dim, graph.shape))))>>
  IN  Object(IF full
             THEN <<Key("device_index", AttrText("list_int", Array(<<Num(1), Num(1)>>)))>>
                  \o attrs \o
                  <<Key("layers", AttrText("size_t", Num(3))),
                    Key("groups", AttrText("list_int", Array(<<Num(1), Num(2)>>)))>>
             ELSE Reverse(attrs))

GraphText(graph, order, full, more) ==
  LET Node(node) == NodeText(node, full)
      Head0(entry) == EntryText(entry, full)
      texts == [nodes |-> Array(Each(Node, graph.nodes)),
                arg_nodes |-> Array(Each(Num, graph.arg_nodes)),
                heads |-> Array(Each(Head0, graph.heads)),
                node_row_ptr |-> Array(Each(Num, graph.node_row_ptr)),
                attrs |-> AttrsText(graph, full)]
  IN  Object([i \in DOMAIN order |-> Key(order[i], texts[order[i]])]
             \o IF more = "" THEN <<>> ELSE <<Key(more, Object(<<>>))>>)

-----------------------------------------------------------------------------
Keys == {"nodes", "arg_nodes", "heads", "node_row_ptr", "attrs"}
Orders == {order \in [1 .. 5 -> Keys] : Cardinality({order[i] : i \in 1 .. 5}) = 5}
Graphs == [chain |-> Chain, split |-> Split, crowded |-> Crowded, flat |-> Flat,
           unknown |-> Unknown, wide |-> Wide, name |-> LongName]

InOrder == <<"nodes", "arg_nodes", "heads", "attrs", "node_row_ptr">>

Names == {d \in [graph : DOMAIN Graphs, order : Orders, full : BOOLEAN,
                 more : {"", "metadata", "version"}] :
            d.graph \in {"chain", "split"} \/ d.order \in {InOrder, Reverse(InOrder)}}

MCDocuments ==
  [d \in Names |->
     [graph |-> Graphs[d.graph], long |-> d.graph \in {"wide", "name"},
      refused |-> d.graph \in {"crowded", "unknown"} \/ d.more = "version",
      text |-> GraphText(Graphs[d.graph], d.order, d.full, d.more)]]
=============================================================================
