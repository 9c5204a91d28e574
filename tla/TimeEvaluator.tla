---------------------------- MODULE TimeEvaluator ----------------------------
(***************************************************************************)
(* The time evaluator of the C runtime (RPCTimeEvaluator, RunTimeEvaluator *)
(* in common/crt_runtime_api.c) on the module table, with the timer of     *)
(* main.cc.  There is one evaluator: the host sets it up for a function of *)
(* a module and is given a handle, and calling the handle runs the         *)
(* function again and again between timer start and timer stop, with more  *)
(* calls each time until they take long enough.                            *)
(***************************************************************************)
EXTENDS ModuleTable

CONSTANTS
  Settings,      \* what the host asks for, see SettingsAssumption
  Pace,          \* how long a call may take, in parts of a tick
  Parts,         \* the parts of a tick
  ClockTop,      \* the values of the cycle counter: 2^32
  StartTime,     \* what the counter may show when the timer is started
  Block,         \* the blocks of platform memory
  NoBlock,       \* stands for a NULL pointer
  MaxEvaluators, \* bound: evaluators created
  MaxRuns        \* bound: runs of an evaluator

(* number, repeat, min_repeat_ms (in ticks), limit_zero_time_iterations and *)
(* whether a cooldown is asked for after the first repeat.                  *)
ASSUME SettingsAssumption ==
  Settings \subseteq [number : Nat \ {0}, repeat : Nat \ {0}, min : Nat, zeros : Nat,
                      cooldown : BOOLEAN]
ASSUME ClockAssumption ==
  /\ Pace \subseteq Nat \ {0} /\ Parts \in Nat \ {0} /\ ClockTop \in Nat \ {0}
  /\ StartTime \subseteq 0 .. ClockTop - 1
  /\ MaxEvaluators \in Nat /\ MaxRuns \in Nat /\ NoBlock \notin Block

VARIABLES
  evaluator,  \* g_time_evaluator_state
  at,         \* where RunTimeEvaluator is
  i,          \* its loop variable
  curr,       \* curr_res_seconds, in ticks
  zeros,      \* absolute_zero_times
  arr, data,  \* result_byte_arr and its data
  timer,      \* g_utvm_timer_running, and g_utvm_start_time_micros while it is
  allocated,  \* the blocks in use
  pace,       \* how long the function timed takes
  (* history *)
  created,    \* evaluators created
  made,       \* each handle given out, with the function it is for
  settings,   \* what the last evaluator was created with
  disturbed,  \* a failed RPCTimeEvaluator came after it
  runs,       \* runs begun
  before,     \* the blocks in use when the run began
  failed,     \* the last run was released
  spent       \* the time that has passed since the timer was started

evaluatorVars == <<evaluator, created, made, settings, disturbed>>
memoryVars == <<arr, data, allocated, before>>
locals == <<i, curr, zeros, pace, spent>>
vars == <<tableVars, evaluatorVars, memoryVars, locals, at, timer, runs, failed>>

(* The evaluator is a static variable: all zeros. *)
Initially == [number |-> 0, repeat |-> 0, min |-> 0, zeros |-> 0, cooldown |-> FALSE]

Init ==
  /\ TableInit
  /\ evaluator = [index |-> 0, func |-> 0, set |-> Initially]
  /\ at = "idle" /\ i = 0 /\ curr = 0 /\ zeros = 0
  /\ arr = NoBlock /\ data = NoBlock
  /\ timer = [running |-> FALSE, start |-> 0]
  /\ allocated = {} /\ pace = 0
  /\ created = 0 /\ made = {} /\ settings = Initially /\ disturbed = FALSE
  /\ runs = 0 /\ before = {} /\ failed = FALSE /\ spent = 0

-----------------------------------------------------------------------------
(* function_index++ of a uint16_t.  Mutant: the index of the evaluator      *)
(* before is used again.                                                    *)
IndexKept(index) == index
IndexNext(index) == (index + 1) % Word

(* RPCTimeEvaluator: the settings are overwritten first, then the function  *)
(* is looked up in its module.                                              *)
RPCTimeEvaluator(handle, name, set) ==
  /\ at = "idle" /\ handle \in held /\ created < MaxEvaluators
  /\ LET slot == DecodeModuleHandle(handle)
         registry == FunctionsOf[registered[slot]]
         index == IndexNext(evaluator.index)
         fn == EncodeFunctionHandle(slot, Lookup(registry, name))
     IN
     \/ /\ IsModule(handle) /\ Indices(registry, name) # {}
        /\ evaluator' = [index |-> index, func |-> fn, set |-> set]
        /\ made' = made \cup
             {[handle |-> EncodeFunctionHandle(kTimeEvaluatorModuleIndex, index),
               nr |-> created + 1, func |-> fn]}
        /\ created' = created + 1 /\ settings' = set /\ disturbed' = FALSE
     \/ /\ ~IsModule(handle) \/ Indices(registry, name) = {}
        /\ evaluator' = [evaluator EXCEPT !.set = set]
        /\ disturbed' = TRUE
        /\ UNCHANGED <<made, created, settings>>
  /\ UNCHANGED <<tableVars, memoryVars, locals, at, timer, runs, failed>>

(* The check at the start of RunTimeEvaluator. *)
IsCurrent(handle) ==
  /\ HandleModule(handle) = kTimeEvaluatorModuleIndex
  /\ HandleFunction(handle) = evaluator.index

AnyOf(blocks) == CHOOSE b \in blocks : TRUE

(* The two allocations, which may fail at any time, as the memory is shared *)
(* with everything else.  Without memory for the first, the release reads   *)
(* through a NULL pointer, and without memory for the second it frees one,  *)
(* which the page manager answers with a failed CHECK: the program stops.   *)
Begin(handle) ==
  /\ at = "idle" /\ runs < MaxRuns
  /\ IsCurrent(handle)
  /\ runs' = runs + 1 /\ before' = allocated /\ pace' \in Pace
  /\ i' = 0 /\ curr' = 0 /\ zeros' = 0 /\ spent' = 0 /\ failed' = FALSE
  /\ \/ /\ Cardinality(Block \ allocated) >= 2
        /\ arr' = AnyOf(Block \ allocated)
        /\ data' = AnyOf(Block \ (allocated \cup {arr'}))
        /\ allocated' = allocated \cup {arr', data'}
        /\ at' = "warmup"
     \/ /\ at' = "stopped"
        /\ UNCHANGED <<arr, data, allocated>>
  /\ UNCHANGED <<tableVars, evaluatorVars, timer>>

(* release_and_return: the data is freed, and the array only if that        *)
(* failed, which it does not.                                               *)
LocalsEnd == i' = 0 /\ curr' = 0 /\ zeros' = 0 /\ pace' = 0 /\ spent' = 0

Release ==
  /\ at' = "idle" /\ LocalsEnd
  /\ allocated' = allocated \ {data}
  /\ arr' = NoBlock /\ data' = NoBlock
  /\ failed' = TRUE

(* A call of the function may always fail; it must when its module is gone. *)
Callable == Accepted(evaluator.func) /\ InRegistry(evaluator.func)

(* The first call is not timed. *)
WarmUp ==
  /\ at = "warmup"
  /\ \/ Callable /\ at' = (IF evaluator.set.repeat > 0 THEN "start" ELSE "reply")
        /\ UNCHANGED <<arr, data, allocated, failed, locals>>
     \/ Release
  /\ UNCHANGED <<tableVars, evaluatorVars, before, runs, timer>>

(* The larger of min / (curr / number) + 1 and number * 1.618, cut to an    *)
(* int.  Mutant: the number stays.                                          *)
NumberKept(number, min) == number
NumberGrown(number, min) ==
  LET a == ((min * number) \div curr) + 1  b == (number * 1618) \div 1000
  IN  IF a > b THEN a ELSE b

TimerStart ==
  /\ at = "start"
  /\ evaluator' = IF curr > 0
                  THEN [evaluator EXCEPT !.set.number = NumberGrown(@, evaluator.set.min)]
                  ELSE evaluator
  /\ \/ /\ ~timer.running
        /\ \E t \in StartTime : timer' = [running |-> TRUE, start |-> t]
        /\ at' = "calls"
        /\ UNCHANGED <<arr, data, allocated, failed, locals>>
     \/ timer.running /\ Release /\ UNCHANGED timer
  /\ UNCHANGED <<tableVars, created, made, settings, disturbed, before, runs>>

(* number calls take a time the counter shows rounded down or up. *)
Elapsed(number) == LET t == (number * pace) \div Parts IN {t, t + 1}

TimedCalls ==
  /\ at = "calls"
  /\ \/ /\ Callable /\ at' = "stop"
        /\ \E t \in Elapsed(evaluator.set.number) : spent' = t
        /\ UNCHANGED <<arr, data, allocated, failed, i, curr, zeros, pace>>
     \/ Release
  /\ UNCHANGED <<tableVars, evaluatorVars, before, runs, timer>>

(* What TVMPlatformTimerStop makes of the counter; an int on one side is    *)
(* converted to unsigned.  Mutant: without the case that it wrapped.        *)
Counter == (timer.start + spent) % ClockTop
PlainDifference == Counter - timer.start
TicksSinceStart == IF Counter < timer.start THEN ClockTop - (timer.start - Counter)
                                            ELSE Counter - timer.start

(* TVMPlatformTimerStop (the timer is running here) and what follows it in  *)
(* the loops.  A cooldown has no support on this platform: the function     *)
(* returns without an error and without the result.                         *)
TimerStop ==
  LET ticks == TicksSinceStart
      zero  == IF ticks = 0 THEN zeros + 1 ELSE zeros
      again == ticks < evaluator.set.min /\ zero < evaluator.set.zeros
  IN
  /\ at = "stop"
  /\ timer' = [running |-> FALSE, start |-> 0]
  /\ \/ /\ again
        /\ at' = "start" /\ curr' = ticks /\ zeros' = zero
        /\ UNCHANGED <<i, pace, spent, arr, data, allocated, failed>>
     \/ /\ ~again /\ evaluator.set.cooldown /\ i = 0
        /\ Release
     \/ /\ ~again /\ ~(evaluator.set.cooldown /\ i = 0)
        /\ i' = i + 1
        /\ \/ i' < evaluator.set.repeat
              /\ at' = "start" /\ curr' = 0 /\ zeros' = 0 /\ spent' = 0
           \/ i' >= evaluator.set.repeat
              /\ at' = "reply" /\ curr' = ticks /\ zeros' = zero /\ UNCHANGED spent
        /\ UNCHANGED <<pace, arr, data, allocated, failed>>
  /\ UNCHANGED <<tableVars, evaluatorVars, before, runs>>

(* TVMByteArrayFree, after the result is sent.  Mutant: the array stays.    *)
FreedData   == {data}
FreedResult == {data, arr}

Reply ==
  /\ at = "reply"
  /\ at' = "idle" /\ LocalsEnd
  /\ allocated' = allocated \ FreedResult
  /\ arr' = NoBlock /\ data' = NoBlock
  /\ UNCHANGED <<tableVars, evaluatorVars, before, runs, timer, failed>>

Step == WarmUp \/ TimerStart \/ TimedCalls \/ TimerStop \/ Reply

Table == at = "idle" /\ TableNext
         /\ UNCHANGED <<evaluatorVars, memoryVars, locals, at, timer, runs, failed>>

Next ==
  \/ Table
  \/ \E h \in held, n \in Name, s \in Settings : RPCTimeEvaluator(h, n, s)
  \/ \E m \in made : Begin(m.handle)
  \/ Step

(* The loops run to their end once they are entered. *)
Spec == Init /\ [][Next]_vars /\ WF_vars(Step)

-----------------------------------------------------------------------------
TypeOK ==
  /\ TableTypeOK
  /\ evaluator.index \in 0 .. Word - 1 /\ evaluator.func \in Nat
  /\ evaluator.set.number \in Nat
  /\ at \in {"idle", "warmup", "start", "calls", "stop", "reply", "stopped"}
  /\ i \in Nat /\ curr \in Nat /\ zeros \in Nat /\ spent \in Nat
  /\ timer.start \in 0 .. ClockTop - 1
  /\ allocated \subseteq Block

(* A handle of an evaluator is accepted only while it is the last one made, *)
(* and then times the function it was made for with the settings it was     *)
(* made with, the number of calls grown at most; the last one is accepted.  *)
(* This is true of the first 2^15 - 1 evaluators, and the settings may be   *)
(* those of a later call of RPCTimeEvaluator that failed.                   *)
EvaluatorAsMade ==
  created < Top =>
    \A m \in made :
      /\ IsCurrent(m.handle) <=> m.nr = created
      /\ m.nr = created =>
           /\ m.func = evaluator.func
           /\ ~disturbed => /\ [evaluator.set EXCEPT !.number = 0] = [settings EXCEPT !.number = 0]
                            /\ evaluator.set.number >= settings.number

(* The time that is reported is the time the calls took, also when the      *)
(* cycle counter wraps between TVMPlatformTimerStart and Stop, as long as   *)
(* they take less than the counter's range.                                 *)
MeasuredIsElapsed == at \in {"start", "reply"} /\ spent < ClockTop => curr = spent

(* A run that returns leaves the platform's memory as it was, but for the   *)
(* array of a run that failed or asked for a cooldown; while it runs its    *)
(* two blocks are its own, so that no free of it aborts.  A run that        *)
(* succeeds leaves the timer stopped, for the next one; a function that     *)
(* fails while it is timed leaves it running, and every later run fails     *)
(* (RunTimeEvaluator, TVMByteArrayFree, TVMPlatformTimerStart).             *)
NothingElseLost ==
  /\ at = "idle" => /\ before \subseteq allocated
                    /\ Cardinality(allocated \ before) = IF failed THEN 1 ELSE 0
                    /\ ~failed => ~timer.running
  /\ at \notin {"idle", "stopped"} =>
       /\ allocated \ before = {arr, data} /\ arr # data /\ before \subseteq allocated

(* An evaluation comes to an end, however fast the function is: the number  *)
(* of calls grows until they take long enough, or the calls that took no    *)
(* time at all reach their limit.                                           *)
EvaluationEnds == at = "warmup" ~> at = "idle"
=============================================================================
