--------------------------- MODULE MCTimeEvaluator ---------------------------
(***************************************************************************)
(* TimeEvaluator for TLC: a table of two slots, the system library and one *)
(* executor, whose registry says it has one function less than it lists,   *)
(* as the graph executor's does.                                           *)
(***************************************************************************)
EXTENDS TimeEvaluator

MCModule == {"lib", "exec"}
MCFunctionsOf == [m \in MCModule |-> IF m = "lib" THEN <<"run">> ELSE <<"set", "run">>]
MCCountOf == [m \in MCModule |-> 1]
MCName == {"run", "set", "create"}
MCBuiltins == <<"create">>
MCNameLength == [n \in MCName |-> CASE n = "create" -> 2 [] n = "run" -> 1 [] n = "set" -> 3]

Asked(number, repeat, min, cooldown) ==
  [number |-> number, repeat |-> repeat, min |-> min, zeros |-> 2, cooldown |-> cooldown]
MCSettings == {Asked(1, 2, 2, FALSE), Asked(1, 1, 0, TRUE)}
=============================================================================
