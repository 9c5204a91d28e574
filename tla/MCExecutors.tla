---------------------------- MODULE MCExecutors ----------------------------
(***************************************************************************)
(* The executors for TLC: a graph with an input, three parameters, one of  *)
(* them linked, and an operator that writes its result over the input; and *)
(* a compiled model with two inputs, an output and a workspace pool.       *)
(***************************************************************************)
EXTENDS AotExecutor

(* entries: 0 input, 1 to 3 parameters, the last linked, 4 the operator *)
MCEntry == 0 .. 4
MCStorageOf == [e \in MCEntry |-> IF e = 4 THEN 0 ELSE e]
MCInputs == <<0, 1, 2, 3>>
MCArguments == <<"input", "input", "output", "pool">>
=============================================================================
