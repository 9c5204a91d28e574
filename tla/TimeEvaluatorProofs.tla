------------------------- MODULE TimeEvaluatorProofs -------------------------
(***************************************************************************)
(* Proofs about TimeEvaluator, for every clock, every pool of blocks, every *)
(* index width and any number of evaluators and runs: what a run does to   *)
(* the memory and the timer, which handle an evaluator answers to, and     *)
(* that the time reported is the time that passed; and, for every table    *)
(* and registry, that a function handle reaches its function.              *)
(***************************************************************************)
EXTENDS TimeEvaluator, FiniteSetTheorems, WellFoundedInduction, TLAPS

(* Division and remainder are those of school. *)
LEMMA DivMod ==
  ASSUME NEW w \in Nat \ {0}, NEW a \in Nat, NEW b \in 0 .. w - 1
  PROVE  (a * w + b) \div w = a /\ (a * w + b) % w = b
<1> DEFINE x == a * w + b
           q == x \div w
           r == x % w
<1>1. x \in Nat /\ q \in Int /\ r \in 0 .. w - 1 /\ x = w * q + r
  OBVIOUS
<1>2. w * (q - a) = b - r
  BY <1>1
<1>3. ASSUME q - a >= 1 PROVE FALSE
  <2>1. w * (q - a) >= w
    BY <1>1, <1>3
  <2> QED  BY <1>1, <1>2, <2>1
<1>4. ASSUME q - a <= -1 PROVE FALSE
  <2>1. w * (q - a) <= -w
    BY <1>1, <1>4
  <2> QED  BY <1>1, <1>2, <2>1
<1>5. q = a
  BY <1>1, <1>3, <1>4
<1> QED  BY <1>1, <1>2, <1>5

LEMMA SmallMod ==
  ASSUME NEW w \in Nat \ {0}, NEW x \in Nat
  PROVE  /\ x < w => x % w = x
         /\ w <= x /\ x < 2 * w => x % w = x - w
<1>1. CASE x < w
  <2>1. (0 * w + x) % w = x
    BY <1>1, DivMod
  <2> QED  BY <1>1, <2>1
<1>2. CASE w <= x /\ x < 2 * w
  <2>1. (1 * w + (x - w)) % w = x - w
    BY <1>2, DivMod
  <2> QED  BY <1>2, <2>1
<1> QED  BY <1>1, <1>2

(* The indices in a handle are the ones that were put into it. *)
LEMMA HandleParts ==
  ASSUME NEW m \in 0 .. Top - 1, NEW f \in 0 .. Top - 1
  PROVE  /\ HandleModule(EncodeFunctionHandle(m, f)) = m
         /\ HandleFunction(EncodeFunctionHandle(m, f)) = f
<1> DEFINE handle == EncodeFunctionHandle(m, f)
<1>1. Top \in Nat \ {0} /\ Word \in Nat \ {0} /\ Word = 2 * Top
  BY IndexAssumption DEF Word
<1>2. handle = (m + Top) * Word + (f + Top)
  BY <1>1 DEF EncodeFunctionHandle, SetTop
<1>3. m + Top \in 0 .. Word - 1 /\ f + Top \in 0 .. Word - 1 /\ m + Top \in Nat /\ f + Top \in Nat
  BY <1>1
<1> HIDE DEF handle
<1>4. handle \div Word = m + Top /\ handle % Word = f + Top
  <2>1. \A w \in Nat \ {0}, a \in Nat : \A b \in 0 .. w - 1 :
          (a * w + b) \div w = a /\ (a * w + b) % w = b
    <3> SUFFICES ASSUME NEW w \in Nat \ {0}, NEW a \in Nat, NEW b \in 0 .. w - 1
                 PROVE  (a * w + b) \div w = a /\ (a * w + b) % w = b
      OBVIOUS
    <3> QED  BY DivMod, Zenon
  <2>2. /\ ((m + Top) * Word + (f + Top)) \div Word = m + Top
        /\ ((m + Top) * Word + (f + Top)) % Word = f + Top
    BY <1>1, <1>3, <2>1, Zenon
  <2> QED  BY <1>2, <2>2, Zenon
<1>5. (m + Top) % Word = m + Top
  <2>1. m + Top < Word
    BY <1>1
  <2> QED  BY <1>1, <1>3, <2>1, SmallMod
<1>6. \A k \in 0 .. Top - 1 : (k + Top) % Top = k
  <2> SUFFICES ASSUME NEW k \in 0 .. Top - 1 PROVE (k + Top) % Top = k
    OBVIOUS
  <2>1. k + Top \in Nat /\ Top <= k + Top /\ k + Top < 2 * Top /\ (k + Top) - Top = k
    BY <1>1
  <2> QED  BY <1>1, <2>1, SmallMod
<1>7. HandleModule(handle) = m /\ HandleFunction(handle) = f
  BY <1>4, <1>5, <1>6 DEF HandleModule, HandleFunction, ClearTop
<1> QED  BY <1>7 DEF handle

-----------------------------------------------------------------------------
Busy  == {"warmup", "start", "calls", "stop", "reply"}
Place == Busy \cup {"idle", "stopped"}
Setting == [number : Nat, repeat : Nat, min : Nat, zeros : Nat, cooldown : BOOLEAN]

ClockTypeOK ==
  /\ timer \in [running : BOOLEAN, start : 0 .. ClockTop - 1]
  /\ curr \in Int /\ spent \in Nat /\ pace \in Nat
EvaluatorTypeOK ==
  /\ evaluator.set \in Setting /\ settings \in Setting
  /\ evaluator = [index |-> evaluator.index, func |-> evaluator.func, set |-> evaluator.set]
  /\ evaluator.index \in Int /\ created \in Nat
TypeInv == at \in Place /\ failed \in BOOLEAN /\ ClockTypeOK /\ EvaluatorTypeOK

(* A run begins only for an evaluator that was made, which asks for at      *)
(* least one measurement; then the timer was stopped when the reply goes.   *)
RunInv ==
  /\ at \in Busy => ~failed
  /\ at \in Busy \/ made # {} => evaluator.set.repeat > 0
  /\ at = "reply" => ~timer.running
  /\ at = "warmup" => curr = spent

(* The evaluators have the numbers from 1 on, as long as these fit a        *)
(* handle, and the state is that of the last.                               *)
MadeInv ==
  /\ created < Top => evaluator.index = created
  /\ \A m \in made :
       /\ m.nr \in 1 .. created
       /\ created < Top => m.handle = EncodeFunctionHandle(kTimeEvaluatorModuleIndex, m.nr)
       /\ m.nr = created =>
            /\ m.func = evaluator.func
            /\ ~disturbed => /\ [evaluator.set EXCEPT !.number = 0] = [settings EXCEPT !.number = 0]
                             /\ evaluator.set.number >= settings.number

IInv == TypeInv /\ RunInv /\ NothingElseLost /\ MadeInv /\ MeasuredIsElapsed

LEMMA InitIInv == Init => IInv
<1> SUFFICES ASSUME Init PROVE IInv
  OBVIOUS
<1>1. TypeInv
  <2>1. ClockTypeOK
    BY ClockAssumption DEF Init, ClockTypeOK
  <2>2. Initially \in Setting
    BY DEF Initially, Setting
  <2>3. EvaluatorTypeOK
    BY <2>2 DEF Init, EvaluatorTypeOK
  <2> QED  BY <2>1, <2>3 DEF Init, TypeInv, Place
<1>2. RunInv /\ MadeInv /\ MeasuredIsElapsed
  BY DEF Init, RunInv, MadeInv, MeasuredIsElapsed, Busy
<1>3. NothingElseLost
  BY FS_EmptySet DEF Init, NothingElseLost
<1> QED  BY <1>1, <1>2, <1>3 DEF IInv

(* What a step that has nothing to do with a run leaves as it was. *)
LEMMA RunUntouched ==
  ASSUME IInv, UNCHANGED <<memoryVars, locals, at, timer, runs, failed>>
  PROVE  /\ ClockTypeOK' /\ NothingElseLost' /\ MeasuredIsElapsed'
         /\ at' \in Place /\ failed' \in BOOLEAN
BY DEF IInv, TypeInv, ClockTypeOK, NothingElseLost, MeasuredIsElapsed, memoryVars, locals

LEMMA EvaluatorUntouched ==
  ASSUME IInv, UNCHANGED evaluatorVars
  PROVE  EvaluatorTypeOK' /\ MadeInv'
BY DEF IInv, TypeInv, EvaluatorTypeOK, MadeInv, evaluatorVars

LEMMA TableStep ==
  ASSUME IInv, UNCHANGED <<evaluatorVars, memoryVars, locals, at, timer, runs, failed>>
  PROVE  IInv'
<1>1. RunInv'
  BY DEF IInv, RunInv, evaluatorVars, locals
<1> QED  BY <1>1, RunUntouched, EvaluatorUntouched DEF IInv, TypeInv

LEMMA RPCTimeEvaluatorStep ==
  ASSUME IInv, NEW handle \in held, NEW name \in Name, NEW set \in Settings,
         RPCTimeEvaluator(handle, name, set)
  PROVE  IInv'
<1> DEFINE slot == DecodeModuleHandle(handle)
           registry == FunctionsOf[registered[slot]]
           index == IndexNext(evaluator.index)
           fn == EncodeFunctionHandle(slot, Lookup(registry, name))
           Made == /\ evaluator' = [index |-> index, func |-> fn, set |-> set]
                   /\ made' = made \cup
                        {[handle |-> EncodeFunctionHandle(kTimeEvaluatorModuleIndex, index),
                          nr |-> created + 1, func |-> fn]}
                   /\ created' = created + 1 /\ settings' = set
           Missed == /\ evaluator' = [evaluator EXCEPT !.set = set]
                     /\ disturbed' = TRUE
                     /\ UNCHANGED <<made, created, settings>>
<1>1. /\ at = "idle" /\ UNCHANGED <<memoryVars, locals, at, timer, runs, failed>>
      /\ Made \/ Missed
  BY DEF RPCTimeEvaluator
<1> HIDE DEF fn, registry, slot
<1>2. set \in Setting /\ set.repeat > 0
  BY SettingsAssumption DEF Setting
<1>3. Top \in Nat \ {0} /\ Word = 2 * Top /\ Word \in Nat \ {0}
  BY IndexAssumption DEF Word
<1>4. index \in Int /\ (created + 1 < Top => index = created + 1)
  <2>1. index \in Int
    BY <1>3 DEF IInv, TypeInv, EvaluatorTypeOK, IndexNext
  <2>2. ASSUME created + 1 < Top PROVE index = created + 1
    <3>1. evaluator.index = created /\ created + 1 \in Nat /\ created + 1 < Word
      BY <1>3, <2>2 DEF IInv, MadeInv, TypeInv, EvaluatorTypeOK
    <3> QED  BY <1>3, <3>1, SmallMod DEF IndexNext
  <2> QED  BY <2>1, <2>2
<1> HIDE DEF index
<1>5. TypeInv'
  <2>1. EvaluatorTypeOK'
    BY <1>1, <1>2, <1>4 DEF IInv, TypeInv, EvaluatorTypeOK
  <2> QED  BY <1>1, <2>1, RunUntouched DEF TypeInv
<1>6. RunInv'
  BY <1>1, <1>2 DEF IInv, TypeInv, EvaluatorTypeOK, RunInv, Busy
<1>7. MadeInv'
  <2>1. CASE Missed
    BY <2>1 DEF IInv, TypeInv, EvaluatorTypeOK, MadeInv
  <2>2. CASE Made
    <3>1. /\ evaluator'.index = index /\ evaluator'.func = fn /\ evaluator'.set = set
          /\ settings' = set /\ created' = created + 1
      BY <2>2
    <3>2. ASSUME NEW m \in made
          PROVE  /\ m.nr \in 1 .. created' /\ m.nr # created'
                 /\ created' < Top =>
                      m.handle = EncodeFunctionHandle(kTimeEvaluatorModuleIndex, m.nr)
      <4>1. created \in Nat /\ m.nr \in 1 .. created
        BY DEF IInv, MadeInv, TypeInv, EvaluatorTypeOK
      <4>2. m.nr \in 1 .. created' /\ m.nr # created' /\ (created' < Top => created < Top)
        BY <1>3, <3>1, <4>1
      <4> QED  BY <4>2 DEF IInv, MadeInv
    <3>3. set.number \in Nat /\ created + 1 \in 1 .. created'
      BY <1>2, <3>1 DEF Setting, IInv, TypeInv, EvaluatorTypeOK
    <3> DEFINE new == [handle |-> EncodeFunctionHandle(kTimeEvaluatorModuleIndex, index),
                      nr |-> created + 1, func |-> fn]
    <3>5. /\ new.nr = created' /\ new.func = evaluator'.func /\ new.nr \in 1 .. created'
          /\ created' < Top =>
               new.handle = EncodeFunctionHandle(kTimeEvaluatorModuleIndex, new.nr)
      BY <1>4, <3>1, <3>3
    <3>6. made' = made \cup {new}
      BY <2>2
    <3> HIDE DEF new
    <3>7. /\ [evaluator'.set EXCEPT !.number = 0] = [settings' EXCEPT !.number = 0]
          /\ evaluator'.set.number >= settings'.number
      BY <3>1, <3>3
    <3>8. created' < Top => evaluator'.index = created'
      BY <1>4, <3>1
    <3>9. \A m \in made' : m \in made \/ m = new
      BY <3>6
    <3> QED
      BY <3>2, <3>5, <3>7, <3>8, <3>9 DEF MadeInv
  <2> QED  BY <1>1, <2>1, <2>2
<1> QED  BY <1>1, <1>5, <1>6, <1>7, RunUntouched DEF IInv

-----------------------------------------------------------------------------
(* The two blocks a run gets are not in use and not the same. *)
LEMMA TwoBlocks ==
  ASSUME NEW S, Cardinality(S) >= 2
  PROVE  /\ AnyOf(S) \in S
         /\ AnyOf(S \ {AnyOf(S)}) \in S \ {AnyOf(S)}
<1>1. S # {}
  BY FS_EmptySet
<1>2. AnyOf(S) \in S
  BY <1>1 DEF AnyOf
<1>3. S # {AnyOf(S)}
  <2>1. Cardinality({AnyOf(S)}) = 1
    BY FS_Singleton
  <2> QED  BY <2>1
<1>4. S \ {AnyOf(S)} # {}
  BY <1>2, <1>3
<1>5. AnyOf(S \ {AnyOf(S)}) \in S \ {AnyOf(S)}
  BY <1>4 DEF AnyOf
<1> QED  BY <1>2, <1>5

LEMMA BeginStep ==
  ASSUME IInv, NEW m \in made, Begin(m.handle)
  PROVE  IInv'
<1>1. /\ at = "idle" /\ UNCHANGED <<evaluatorVars, timer>>
      /\ before' = allocated /\ pace' \in Pace
      /\ curr' = 0 /\ spent' = 0 /\ failed' = FALSE
  BY DEF Begin
<1>2. ClockTypeOK' /\ failed' \in BOOLEAN
  <2>1. timer' = timer /\ timer \in [running : BOOLEAN, start : 0 .. ClockTop - 1]
    BY <1>1 DEF IInv, TypeInv, ClockTypeOK
  <2>2. pace' \in Nat
    BY <1>1, ClockAssumption
  <2>3. ClockTypeOK'
    BY <1>1, <2>1, <2>2 DEF ClockTypeOK
  <2>4. failed' \in BOOLEAN
    BY <1>1
  <2> QED  BY <2>3, <2>4
<1>3. EvaluatorTypeOK' /\ MadeInv'
  BY <1>1, EvaluatorUntouched
<1>4. \/ /\ Cardinality(Block \ allocated) >= 2
         /\ arr' = AnyOf(Block \ allocated)
         /\ data' = AnyOf(Block \ (allocated \cup {arr'}))
         /\ allocated' = allocated \cup {arr', data'}
         /\ at' = "warmup"
      \/ at' = "stopped"
  BY DEF Begin
<1>5. at' \in Place /\ at' \notin {"idle", "start", "reply"}
  BY <1>4 DEF Place, Busy
<1>6. RunInv' /\ MeasuredIsElapsed'
  BY <1>1, <1>5 DEF IInv, RunInv, MeasuredIsElapsed, evaluatorVars
<1>7. NothingElseLost'
  <2>1. CASE at' = "stopped"
    BY <2>1 DEF NothingElseLost
  <2>2. CASE at' # "stopped"
    <3>1. Block \ (allocated \cup {arr'}) = (Block \ allocated) \ {arr'}
      OBVIOUS
    <3>2. arr' \in Block \ allocated /\ data' \in (Block \ allocated) \ {arr'}
      BY <1>4, <2>2, <3>1, TwoBlocks
    <3>3. allocated' \ before' = {arr', data'} /\ arr' # data' /\ before' \subseteq allocated'
      BY <1>1, <1>4, <2>2, <3>2
    <3> QED  BY <1>5, <3>3 DEF NothingElseLost
  <2> QED  BY <2>1, <2>2
<1> QED  BY <1>2, <1>3, <1>5, <1>6, <1>7 DEF IInv, TypeInv

(* A run that is released has lost the array and nothing else. *)
LEMMA ReleaseStep ==
  ASSUME IInv, at \in Busy, Release, UNCHANGED <<tableVars, before>>,
         timer' \in [running : BOOLEAN, start : 0 .. ClockTop - 1],
         EvaluatorTypeOK', MadeInv', UNCHANGED made, evaluator'.set.repeat = evaluator.set.repeat
  PROVE  IInv'
<1>1. /\ at' = "idle" /\ curr' = 0 /\ pace' = 0 /\ spent' = 0
      /\ allocated' = allocated \ {data} /\ failed' = TRUE
  BY DEF Release, LocalsEnd
<1>2. allocated \ before = {arr, data} /\ arr # data /\ before \subseteq allocated
  BY DEF IInv, NothingElseLost, Busy
<1>3. allocated' \ before' = {arr} /\ before' \subseteq allocated'
  BY <1>1, <1>2
<1>4. NothingElseLost'
  BY <1>1, <1>3, FS_Singleton DEF NothingElseLost
<1>5. TypeInv'
  BY <1>1 DEF TypeInv, ClockTypeOK, Place
<1>6. RunInv'
  BY <1>1 DEF IInv, RunInv, Busy
<1>7. MeasuredIsElapsed'
  BY <1>1 DEF MeasuredIsElapsed
<1> QED  BY <1>4, <1>5, <1>6, <1>7 DEF IInv

LEMMA WarmUpStep == IInv /\ WarmUp => IInv'
<1> SUFFICES ASSUME IInv, WarmUp PROVE IInv'
  OBVIOUS
<1>1. /\ at = "warmup" /\ at \in Busy /\ UNCHANGED <<tableVars, evaluatorVars, before, timer>>
  BY DEF WarmUp, Busy
<1>2. EvaluatorTypeOK' /\ MadeInv' /\ UNCHANGED made /\ evaluator' = evaluator
  BY <1>1, EvaluatorUntouched DEF evaluatorVars
<1>3. CASE Release
  <2>1. timer' \in [running : BOOLEAN, start : 0 .. ClockTop - 1]
    BY <1>1 DEF IInv, TypeInv, ClockTypeOK
  <2> QED  BY <1>1, <1>2, <1>3, <2>1, ReleaseStep
<1>4. CASE at' = "start" /\ UNCHANGED <<arr, data, allocated, failed, locals>>
  <2>1. TypeInv'
    BY <1>1, <1>2, <1>4 DEF IInv, TypeInv, ClockTypeOK, Place, Busy, locals
  <2>2. RunInv' /\ NothingElseLost'
    BY <1>1, <1>2, <1>4 DEF IInv, RunInv, NothingElseLost, Busy
  <2>3. MeasuredIsElapsed'
    BY <1>1, <1>4 DEF IInv, RunInv, MeasuredIsElapsed, locals
  <2> QED  BY <1>2, <2>1, <2>2, <2>3 DEF IInv
<1> QED
  BY <1>1, <1>3, <1>4 DEF WarmUp, IInv, RunInv

(* The number of calls never shrinks. *)
LEMMA NumberGrows ==
  ASSUME IInv, curr > 0, NEW number \in Nat, NEW min \in Nat
  PROVE  NumberGrown(number, min) \in Nat /\ NumberGrown(number, min) >= number
<1> DEFINE a == ((min * number) \div curr) + 1
           b == (number * 1618) \div 1000
<1>1. a \in Int
  BY DEF IInv, TypeInv, ClockTypeOK
<1>2. b \in Int /\ b >= number
  OBVIOUS
<1>3. NumberGrown(number, min) = IF a > b THEN a ELSE b
  BY DEF NumberGrown
<1> HIDE DEF a, b
<1> QED  BY <1>1, <1>2, <1>3

LEMMA TimerStartStep == IInv /\ TimerStart => IInv'
<1> SUFFICES ASSUME IInv, TimerStart PROVE IInv'
  OBVIOUS
<1> DEFINE number == IF curr > 0 THEN NumberGrown(evaluator.set.number, evaluator.set.min)
                                 ELSE evaluator.set.number
<1>1. /\ at = "start" /\ at \in Busy
      /\ UNCHANGED <<tableVars, created, made, settings, disturbed, before, runs>>
  BY DEF TimerStart, Busy
<1>2. evaluator.set \in Setting /\ evaluator.set.number \in Nat /\ evaluator.set.min \in Nat
  BY DEF IInv, TypeInv, EvaluatorTypeOK, Setting
<1>3. number \in Nat /\ number >= evaluator.set.number
  <2>1. CASE curr > 0
    <3>1. /\ NumberGrown(evaluator.set.number, evaluator.set.min) \in Nat
          /\ NumberGrown(evaluator.set.number, evaluator.set.min) >= evaluator.set.number
      BY <1>2, <2>1, NumberGrows
    <3>2. number = NumberGrown(evaluator.set.number, evaluator.set.min)
      BY <2>1
    <3> HIDE DEF number
    <3> QED  BY <3>1, <3>2
  <2>2. CASE ~(curr > 0)
    <3>1. number = evaluator.set.number
      BY <2>2
    <3> HIDE DEF number
    <3> QED  BY <1>2, <3>1
  <2> QED  BY <2>1, <2>2
<1>4. /\ evaluator'.index = evaluator.index /\ evaluator'.func = evaluator.func
      /\ evaluator'.set = [evaluator.set EXCEPT !.number = number]
      /\ evaluator' = [index |-> evaluator'.index, func |-> evaluator'.func, set |-> evaluator'.set]
  <2>1. evaluator = [index |-> evaluator.index, func |-> evaluator.func, set |-> evaluator.set]
    BY DEF IInv, TypeInv, EvaluatorTypeOK
  <2>2. CASE curr > 0
    <3>1. evaluator' = [evaluator EXCEPT !.set = [evaluator.set EXCEPT !.number = number]]
      BY <2>2 DEF TimerStart
    <3> HIDE DEF number
    <3> QED  BY <2>1, <3>1
  <2>3. CASE ~(curr > 0)
    <3>1. evaluator' = evaluator /\ number = evaluator.set.number
      BY <2>3 DEF TimerStart
    <3>2. evaluator.set = [evaluator.set EXCEPT !.number = evaluator.set.number]
      BY <1>2 DEF Setting
    <3> HIDE DEF number
    <3> QED  BY <2>1, <3>1, <3>2
  <2> QED  BY <2>2, <2>3
<1> HIDE DEF number
<1>5. /\ evaluator'.set \in Setting /\ evaluator'.set.repeat = evaluator.set.repeat
      /\ evaluator'.set.number = number
      /\ [evaluator'.set EXCEPT !.number = 0] = [evaluator.set EXCEPT !.number = 0]
  BY <1>2, <1>3, <1>4 DEF Setting
<1>6. EvaluatorTypeOK'
  <2>1. settings' \in Setting /\ created' \in Nat /\ evaluator'.index \in Int
    BY <1>1, <1>4 DEF IInv, TypeInv, EvaluatorTypeOK
  <2> QED  BY <1>4, <1>5, <2>1 DEF EvaluatorTypeOK
<1>7. MadeInv'
  <2>1. settings.number \in Nat
    BY DEF IInv, TypeInv, EvaluatorTypeOK, Setting
  <2>2. ASSUME evaluator.set.number >= settings.number
        PROVE  evaluator'.set.number >= settings'.number
    BY <1>1, <1>2, <1>3, <1>5, <2>1, <2>2
  <2> QED  BY <1>1, <1>4, <1>5, <2>2 DEF IInv, MadeInv
<1>8. CASE Release /\ UNCHANGED timer
  <2>1. timer' \in [running : BOOLEAN, start : 0 .. ClockTop - 1]
    BY <1>8 DEF IInv, TypeInv, ClockTypeOK
  <2> QED  BY <1>1, <1>5, <1>6, <1>7, <1>8, <2>1, ReleaseStep
<1>9. CASE /\ \E t \in StartTime : timer' = [running |-> TRUE, start |-> t]
           /\ at' = "calls"
           /\ UNCHANGED <<arr, data, allocated, failed, locals>>
  <2>1. ClockTypeOK' /\ at' \in Place
    BY <1>9, ClockAssumption DEF IInv, TypeInv, ClockTypeOK, locals, Place, Busy
  <2>2. TypeInv'
    BY <1>6, <1>9, <2>1 DEF IInv, TypeInv
  <2>3. RunInv'
    BY <1>1, <1>5, <1>9 DEF IInv, RunInv, Busy
  <2>4. NothingElseLost' /\ MeasuredIsElapsed'
    BY <1>1, <1>9 DEF IInv, NothingElseLost, MeasuredIsElapsed
  <2> QED  BY <1>7, <2>2, <2>3, <2>4 DEF IInv
<1> QED  BY <1>8, <1>9 DEF TimerStart

LEMMA TimedCallsStep == IInv /\ TimedCalls => IInv'
<1> SUFFICES ASSUME IInv, TimedCalls PROVE IInv'
  OBVIOUS
<1>1. /\ at = "calls" /\ at \in Busy /\ UNCHANGED <<tableVars, evaluatorVars, before, timer>>
  BY DEF TimedCalls, Busy
<1>2. EvaluatorTypeOK' /\ MadeInv' /\ UNCHANGED made /\ evaluator' = evaluator
  BY <1>1, EvaluatorUntouched DEF evaluatorVars
<1>3. timer' = timer /\ timer \in [running : BOOLEAN, start : 0 .. ClockTop - 1]
  BY <1>1 DEF IInv, TypeInv, ClockTypeOK
<1>4. CASE Release
  BY <1>1, <1>2, <1>3, <1>4, ReleaseStep
<1>5. CASE /\ at' = "stop" /\ \E t \in Elapsed(evaluator.set.number) : spent' = t
           /\ UNCHANGED <<arr, data, allocated, failed, i, curr, zeros, pace>>
  <2>1. spent' \in Nat
    <3>1. evaluator.set.number \in Nat /\ pace \in Nat /\ Parts \in Nat \ {0}
      BY ClockAssumption DEF IInv, TypeInv, EvaluatorTypeOK, ClockTypeOK, Setting
    <3>2. evaluator.set.number * pace \in Nat
      BY <3>1
    <3>3. \A x \in Nat : x \div Parts \in Nat
      BY <3>1
    <3> QED  BY <1>5, <3>2, <3>3 DEF Elapsed
  <2>2. ClockTypeOK' /\ at' \in Place
    BY <1>3, <1>5, <2>1 DEF IInv, TypeInv, ClockTypeOK, Place, Busy
  <2>3. TypeInv'
    BY <1>2, <1>5, <2>2 DEF IInv, TypeInv
  <2>4. RunInv' /\ NothingElseLost' /\ MeasuredIsElapsed'
    BY <1>1, <1>2, <1>5 DEF IInv, RunInv, NothingElseLost, MeasuredIsElapsed, Busy
  <2> QED  BY <1>2, <2>3, <2>4 DEF IInv
<1> QED  BY <1>4, <1>5 DEF TimedCalls

(* What the counter shows after less than its range has passed.             *)
LEMMA TicksAreElapsed ==
  ASSUME IInv
  PROVE  TicksSinceStart \in Int /\ (spent < ClockTop => TicksSinceStart = spent)
<1>1. timer.start \in 0 .. ClockTop - 1 /\ spent \in Nat /\ ClockTop \in Nat \ {0}
  BY ClockAssumption DEF IInv, TypeInv, ClockTypeOK
<1>2. Counter \in Int
  BY <1>1 DEF Counter
<1>3. ASSUME spent < ClockTop
      PROVE  /\ timer.start + spent < ClockTop => Counter = timer.start + spent
             /\ ~(timer.start + spent < ClockTop) => Counter = timer.start + spent - ClockTop
  <2>1. timer.start + spent \in Nat /\ timer.start + spent < 2 * ClockTop
    BY <1>1, <1>3
  <2>2. PICK x : x = timer.start + spent
    OBVIOUS
  <2>3. x \in Nat /\ x < 2 * ClockTop /\ (ClockTop <= x <=> ~(x < ClockTop))
    BY <1>1, <2>1, <2>2
  <2>4. /\ x < ClockTop => x % ClockTop = x
        /\ ClockTop <= x /\ x < 2 * ClockTop => x % ClockTop = x - ClockTop
    BY <1>1, <2>3, SmallMod, Zenon
  <2>5. Counter = x % ClockTop
    BY <2>2 DEF Counter
  <2>6. /\ x < ClockTop => Counter = x
        /\ ~(x < ClockTop) => Counter = x - ClockTop
    BY <2>3, <2>4, <2>5, Zenon
  <2> QED  BY <1>1, <2>2, <2>3, <2>6
<1>4. TicksSinceStart \in Int
  BY <1>1, <1>2 DEF TicksSinceStart
<1>5. ASSUME spent < ClockTop
      PROVE  TicksSinceStart = spent
  <2>1. CASE timer.start + spent < ClockTop
    <3>1. Counter = timer.start + spent
      BY <1>3, <1>5, <2>1
    <3> QED  BY <1>1, <3>1 DEF TicksSinceStart
  <2>2. CASE ~(timer.start + spent < ClockTop)
    <3>1. Counter = timer.start + spent - ClockTop
      BY <1>3, <1>5, <2>2
    <3>2. Counter < timer.start
      BY <1>1, <1>5, <3>1
    <3> QED  BY <1>1, <3>1, <3>2 DEF TicksSinceStart
  <2> QED  BY <2>1, <2>2
<1> QED  BY <1>4, <1>5

LEMMA TimerStopStep == IInv /\ TimerStop => IInv'
<1> SUFFICES ASSUME IInv, TimerStop PROVE IInv'
  OBVIOUS
<1>1. /\ at = "stop" /\ at \in Busy /\ UNCHANGED <<tableVars, evaluatorVars, before, runs>>
      /\ timer' = [running |-> FALSE, start |-> 0]
  BY DEF TimerStop, Busy
<1>2. EvaluatorTypeOK' /\ MadeInv' /\ UNCHANGED made /\ evaluator' = evaluator
  BY <1>1, EvaluatorUntouched DEF evaluatorVars
<1>3. timer' \in [running : BOOLEAN, start : 0 .. ClockTop - 1]
  BY <1>1, ClockAssumption
<1>4. CASE Release
  BY <1>1, <1>2, <1>3, <1>4, ReleaseStep
<1>5. CASE /\ at' \in {"start", "reply"} /\ UNCHANGED <<pace, arr, data, allocated, failed>>
           /\ \/ curr' = TicksSinceStart /\ UNCHANGED spent
              \/ curr' = 0 /\ spent' = 0
  <2>1. curr' \in Int /\ spent' \in Nat
    BY <1>5, TicksAreElapsed DEF IInv, TypeInv, ClockTypeOK
  <2>2. ClockTypeOK' /\ at' \in Place
    BY <1>3, <1>5, <2>1 DEF IInv, TypeInv, ClockTypeOK, Place, Busy
  <2>3. TypeInv'
    BY <1>2, <1>5, <2>2 DEF IInv, TypeInv
  <2>4. RunInv'
    BY <1>1, <1>2, <1>5 DEF IInv, RunInv, Busy
  <2>5. NothingElseLost'
    BY <1>1, <1>5 DEF IInv, NothingElseLost
  <2>6. MeasuredIsElapsed'
    BY <1>5, TicksAreElapsed DEF MeasuredIsElapsed
  <2> QED  BY <1>2, <2>3, <2>4, <2>5, <2>6 DEF IInv
<1> QED
  BY <1>4, <1>5 DEF TimerStop

(* After the reply the memory is what it was before the run.                *)
LEMMA ReplyStep == IInv /\ Reply => IInv'
<1> SUFFICES ASSUME IInv, Reply PROVE IInv'
  OBVIOUS
<1>1. /\ at = "reply" /\ at \in Busy /\ at' = "idle"
      /\ curr' = 0 /\ pace' = 0 /\ spent' = 0
      /\ UNCHANGED <<tableVars, evaluatorVars, before, runs, timer, failed>>
      /\ allocated' = allocated \ {data, arr}
  BY DEF Reply, LocalsEnd, Busy, FreedResult
<1>2. EvaluatorTypeOK' /\ MadeInv' /\ UNCHANGED made /\ evaluator' = evaluator
  BY <1>1, EvaluatorUntouched DEF evaluatorVars
<1>3. ClockTypeOK' /\ at' \in Place
  BY <1>1 DEF IInv, TypeInv, ClockTypeOK, Place
<1>4. TypeInv'
  BY <1>1, <1>2, <1>3 DEF IInv, TypeInv
<1>5. RunInv' /\ MeasuredIsElapsed'
  BY <1>1, <1>2 DEF IInv, RunInv, MeasuredIsElapsed, Busy
<1>6. NothingElseLost'
  <2>1. allocated \ before = {arr, data} /\ before \subseteq allocated
    BY <1>1 DEF IInv, NothingElseLost
  <2>2. allocated' \ before' = {} /\ before' \subseteq allocated'
    BY <1>1, <2>1
  <2>3. ~failed' /\ ~timer'.running
    BY <1>1 DEF IInv, RunInv
  <2> QED  BY <1>1, <2>2, <2>3, FS_EmptySet DEF NothingElseLost
<1> QED  BY <1>2, <1>4, <1>5, <1>6 DEF IInv

-----------------------------------------------------------------------------
LEMMA StepKeepsIInv == IInv /\ [Next]_vars => IInv'
<1> SUFFICES ASSUME IInv, [Next]_vars PROVE IInv'
  OBVIOUS
<1>1. CASE UNCHANGED vars
  BY <1>1, TableStep DEF vars
<1>2. CASE Table
  BY <1>2, TableStep DEF Table
<1>3. CASE \E h \in held, n \in Name, s \in Settings : RPCTimeEvaluator(h, n, s)
  BY <1>3, RPCTimeEvaluatorStep
<1>4. CASE \E m \in made : Begin(m.handle)
  BY <1>4, BeginStep
<1>5. CASE Step
  BY <1>5, WarmUpStep, TimerStartStep, TimedCallsStep, TimerStopStep, ReplyStep DEF Step
<1> QED  BY <1>1, <1>2, <1>3, <1>4, <1>5 DEF Next

LEMMA SpecIInv == Spec => []IInv
BY InitIInv, StepKeepsIInv, PTL DEF Spec

(* A run that succeeds leaves memory and timer as it found them, one that   *)
(* does not loses the array, and a run's blocks are its own while it goes   *)
(* (RunTimeEvaluator, TVMByteArrayFree).                                    *)
THEOREM MemoryKept == Spec => []NothingElseLost
<1>1. IInv => NothingElseLost
  BY DEF IInv
<1> QED  BY <1>1, SpecIInv, PTL

(* The handle of the last evaluator made is the only one that is accepted,  *)
(* and times the function it was made for as it was asked to                *)
(* (RPCTimeEvaluator, EncodeFunctionHandle, DecodeFunctionHandle).          *)
THEOREM EvaluatorFound == Spec => []EvaluatorAsMade
<1>1. IInv => EvaluatorAsMade
  <2> SUFFICES ASSUME IInv, created < Top, NEW m \in made
               PROVE  /\ IsCurrent(m.handle) <=> m.nr = created
                      /\ m.nr = created =>
                           /\ m.func = evaluator.func
                           /\ ~disturbed =>
                                /\ [evaluator.set EXCEPT !.number = 0] = [settings EXCEPT !.number = 0]
                                /\ evaluator.set.number >= settings.number
    BY DEF EvaluatorAsMade
  <2>1. /\ m.nr \in 1 .. created /\ created \in Nat /\ evaluator.index = created
        /\ m.handle = EncodeFunctionHandle(kTimeEvaluatorModuleIndex, m.nr)
    BY DEF IInv, MadeInv, TypeInv, EvaluatorTypeOK
  <2>2. kTimeEvaluatorModuleIndex \in 0 .. Top - 1 /\ m.nr \in 0 .. Top - 1
    BY <2>1, IndexAssumption DEF kTimeEvaluatorModuleIndex
  <2>3. /\ HandleModule(m.handle) = kTimeEvaluatorModuleIndex
        /\ HandleFunction(m.handle) = m.nr
    BY <2>1, <2>2, HandleParts
  <2>4. IsCurrent(m.handle) <=> m.nr = created
    BY <2>1, <2>3 DEF IsCurrent
  <2> QED  BY <2>4 DEF IInv, MadeInv
<1> QED  BY <1>1, SpecIInv, PTL

(* The time that is reported is the time the calls took, whatever the       *)
(* counter shows when the timer is started (TVMPlatformTimerStop).          *)
THEOREM TimeMeasured == Spec => []MeasuredIsElapsed
<1>1. IInv => MeasuredIsElapsed
  BY DEF IInv
<1> QED  BY <1>1, SpecIInv, PTL

-----------------------------------------------------------------------------
(* Numbers: the least of a set, and induction over a set. *)
LEMMA LeastNumber ==
  ASSUME NEW T, T \subseteq Nat, T # {}
  PROVE  \E x \in T : \A y \in T : x <= y
<1> DEFINE R == OpToRel(<, Nat)
<1>1. IsWellFoundedOn(R, Nat)
  BY NatLessThanWellFounded
<1>2. \A x, y \in Nat : x < y => <<x, y>> \in R
  BY DEF OpToRel
<1> HIDE DEF R
<1>3. PICK x \in T : \A y \in T : ~(<<y, x>> \in R)
  BY <1>1, WFMin
<1>4. \A y \in T : x \in Nat /\ y \in Nat /\ ~(y < x)
  BY <1>2, <1>3
<1> QED  BY <1>4

LEMMA SetInduction ==
  ASSUME NEW P, 0 \in P, \A n \in Nat : n \in P => n + 1 \in P
  PROVE  \A n \in Nat : n \in P
<1> SUFFICES ASSUME Nat \ P # {} PROVE FALSE
  OBVIOUS
<1>1. PICK x \in Nat \ P : \A y \in Nat \ P : x <= y
  BY LeastNumber
<1>2. x - 1 \in Nat /\ ~(x <= x - 1) /\ (x - 1) + 1 = x
  BY <1>1
<1> QED  BY <1>1, <1>2

(* TVMFuncRegistry_Lookup finds the first of the indices a name has. *)
LEMMA FirstFound ==
  ASSUME NEW S, S \subseteq Nat, S # {}
  PROVE  First(S) \in S /\ \A j \in S : First(S) <= j
BY LeastNumber DEF First

LEMMA LookupFinds ==
  ASSUME NEW s \in Seq(Name), NEW name, Indices(s, name) # {}
  PROVE  /\ First(Indices(s, name)) \in DOMAIN s
         /\ s[First(Indices(s, name))] = name
         /\ Lookup(s, name) + 1 = First(Indices(s, name))
         /\ Lookup(s, name) \in 0 .. Len(s) - 1
<1>1. Indices(s, name) \subseteq DOMAIN s /\ DOMAIN s = 1 .. Len(s) /\ Len(s) \in Nat
  BY DEF Indices
<1>2. First(Indices(s, name)) \in Indices(s, name)
  BY <1>1, FirstFound
<1> QED  BY <1>1, <1>2 DEF Indices, Lookup

(* What the names take up grows by the length of a name and a terminator.   *)
BytesOf(s) ==
  LET f[j \in 0 .. Len(s)] == IF j = 0 THEN 0 ELSE f[j - 1] + NameLength[s[j]] + 1
  IN  f[Len(s)]
Sums(f, s, n) ==
  f = [j \in 0 .. n |-> IF j = 0 THEN 0 ELSE f[j - 1] + NameLength[s[j]] + 1]

LEMMA SumsExist ==
  ASSUME NEW s \in Seq(Name)
  PROVE  \E f : Sums(f, s, Len(s))
<1> DEFINE P == {n \in Nat : n <= Len(s) => \E f : Sums(f, s, n)}
<1>1. 0 \in P
  <2>1. Sums([j \in 0 .. 0 |-> 0], s, 0)
    BY DEF Sums
  <2> QED  BY <2>1
<1>2. ASSUME NEW n \in Nat, n \in P PROVE n + 1 \in P
  <2> SUFFICES ASSUME n + 1 <= Len(s) PROVE \E f : Sums(f, s, n + 1)
    OBVIOUS
  <2>1. Len(s) \in Nat /\ n <= Len(s)
    OBVIOUS
  <2>2. PICK f : Sums(f, s, n)
    BY <1>2, <2>1
  <2> DEFINE g == [j \in 0 .. n + 1 |-> IF j = n + 1 THEN f[n] + NameLength[s[n + 1]] + 1 ELSE f[j]]
  <2>3. Sums(g, s, n + 1)
    <3>1. \A j \in 0 .. n : f[j] = IF j = 0 THEN 0 ELSE f[j - 1] + NameLength[s[j]] + 1
      BY <2>2 DEF Sums
    <3>2. \A j \in 0 .. n : g[j] = f[j]
      OBVIOUS
    <3>3. g[n + 1] = g[n] + NameLength[s[n + 1]] + 1
      BY <3>2
    <3> HIDE DEF g
    <3>4. \A j \in 0 .. n + 1 : g[j] = IF j = 0 THEN 0 ELSE g[j - 1] + NameLength[s[j]] + 1
      <4> TAKE j \in 0 .. n + 1
      <4>1. CASE j = n + 1
        BY <3>3, <4>1
      <4>2. CASE j # n + 1
        <5>1. j \in 0 .. n /\ (j # 0 => j - 1 \in 0 .. n)
          BY <4>2
        <5> QED  BY <3>1, <3>2, <5>1
      <4> QED  BY <4>1, <4>2
    <3>5. g = [j \in 0 .. n + 1 |-> g[j]]
      BY DEF g
    <3> QED  BY <3>4, <3>5 DEF Sums
  <2> QED  BY <2>3
<1>3. Len(s) \in P
  <2> HIDE DEF P
  <2> QED  BY <1>1, <1>2, SetInduction
<1> QED  BY <1>3

LEMMA BytesSummed ==
  ASSUME NEW s \in Seq(Name)
  PROVE  \E f : Sums(f, s, Len(s)) /\ BytesOf(s) = f[Len(s)]
<1> DEFINE f[j \in 0 .. Len(s)] == IF j = 0 THEN 0 ELSE f[j - 1] + NameLength[s[j]] + 1
<1>1. BytesOf(s) = f[Len(s)]
  BY DEF BytesOf
<1>2. f = CHOOSE g : Sums(g, s, Len(s))
  BY DEF Sums
<1> HIDE DEF f
<1>3. Sums(f, s, Len(s))
  BY <1>2, SumsExist
<1> QED  BY <1>1, <1>3

LEMMA BytesType ==
  ASSUME NEW s \in Seq(Name)
  PROVE  BytesOf(s) \in Nat
<1>1. PICK f : Sums(f, s, Len(s)) /\ BytesOf(s) = f[Len(s)]
  BY BytesSummed
<1>2. \A j \in 0 .. Len(s) : f[j] = IF j = 0 THEN 0 ELSE f[j - 1] + NameLength[s[j]] + 1
  BY <1>1 DEF Sums
<1> DEFINE P == {k \in Nat : k <= Len(s) => f[k] \in Nat}
<1>3. 0 \in P
  BY <1>2
<1>4. ASSUME NEW k \in Nat, k \in P PROVE k + 1 \in P
  <2> SUFFICES ASSUME k + 1 <= Len(s) PROVE f[k + 1] \in Nat
    OBVIOUS
  <2>1. f[k] \in Nat /\ k + 1 \in 1 .. Len(s) /\ k + 1 \in 0 .. Len(s) /\ (k + 1) - 1 = k
    BY <1>4
  <2>2. NameLength[s[k + 1]] \in Nat
    BY <2>1, RegistryAssumption
  <2>3. f[k + 1] = f[k] + NameLength[s[k + 1]] + 1
    BY <1>2, <2>1
  <2> QED  BY <2>1, <2>2, <2>3
<1>5. Len(s) \in P
  <2> HIDE DEF P
  <2> QED  BY <1>3, <1>4, SetInduction
<1> QED  BY <1>1, <1>5

LEMMA BytesAppended ==
  ASSUME NEW s \in Seq(Name), NEW name \in Name
  PROVE  BytesOf(Append(s, name)) = BytesOf(s) + NameLength[name] + 1
<1> DEFINE t == Append(s, name)
           n == Len(s)
<1>1. t \in Seq(Name) /\ Len(t) = n + 1 /\ t[n + 1] = name /\ n \in Nat
      /\ \A j \in 1 .. n : t[j] = s[j]
  OBVIOUS
<1>2. PICK f : Sums(f, s, n) /\ BytesOf(s) = f[n]
  BY BytesSummed
<1>3. PICK g : Sums(g, t, n + 1) /\ BytesOf(t) = g[n + 1]
  BY <1>1, BytesSummed
<1> HIDE DEF t, n
<1>4. /\ \A j \in 0 .. n : f[j] = IF j = 0 THEN 0 ELSE f[j - 1] + NameLength[s[j]] + 1
      /\ \A j \in 0 .. n + 1 : g[j] = IF j = 0 THEN 0 ELSE g[j - 1] + NameLength[t[j]] + 1
  BY <1>2, <1>3 DEF Sums
<1> DEFINE P == {k \in Nat : k <= n => g[k] = f[k]}
<1>5. 0 \in P
  <2>1. 0 \in 0 .. n /\ 0 \in 0 .. n + 1
    BY <1>1
  <2>2. g[0] = 0 /\ f[0] = 0
    BY <1>4, <2>1
  <2> QED  BY <2>2
<1>6. ASSUME NEW k \in Nat, k \in P PROVE k + 1 \in P
  <2> SUFFICES ASSUME k + 1 <= n PROVE g[k + 1] = f[k + 1]
    OBVIOUS
  <2>1. g[k] = f[k] /\ k + 1 \in 1 .. n /\ k + 1 \in 0 .. n + 1 /\ k + 1 \in 0 .. n /\ (k + 1) - 1 = k
    BY <1>1, <1>6
  <2> QED  BY <1>1, <1>4, <2>1
<1>7. n \in P
  <2> HIDE DEF P
  <2> QED  BY <1>1, <1>5, <1>6, SetInduction
<1>8. g[n + 1] = g[n] + NameLength[t[n + 1]] + 1
  BY <1>1, <1>4
<1> QED  BY <1>1, <1>2, <1>3, <1>7, <1>8 DEF t

-----------------------------------------------------------------------------
(* What a handle was looked up for is where it was, and every name has the  *)
(* function registered last.                                                *)
InNames(r) ==
  /\ r.slot = kGlobalFuncModuleIndex /\ Indices(names, r.name) # {}
  /\ r.handle = EncodeFunctionHandle(kGlobalFuncModuleIndex, Lookup(names, r.name))
InModule(r) ==
  /\ r.slot \in Slot /\ r.owner \in Module /\ registered[r.slot] = r.owner
  /\ Indices(FunctionsOf[r.owner], r.name) # {}
  /\ r.handle = EncodeFunctionHandle(r.slot, Lookup(FunctionsOf[r.owner], r.name))

NamesInv ==
  /\ names \in Seq(Name) /\ Len(names) <= MaxFunctions
  /\ funcs \in Seq(Impl \cup {Damaged}) /\ Len(funcs) = Len(names)
  /\ DOMAIN latest = {names[k] : k \in DOMAIN names}
  /\ NamesBytes < NamesSpace =>
       \A name \in DOMAIN latest : funcs[First(Indices(names, name))] = latest[name]
TableInv ==
  /\ registered \in [Slot -> Module \cup {None}]
  /\ NamesInv
  /\ \A r \in handed : InNames(r) \/ InModule(r)

LEMMA InitTable == TableInit => TableInv
<1> SUFFICES ASSUME TableInit PROVE TableInv
  OBVIOUS
<1>1. registered \in [Slot -> Module \cup {None}] /\ handed = {}
  BY DEF TableInit
<1>2. /\ names \in Seq(Name) /\ Len(names) <= MaxFunctions
      /\ funcs \in Seq(Impl \cup {Damaged}) /\ Len(funcs) = Len(names)
      /\ DOMAIN latest = {names[k] : k \in DOMAIN names}
  BY RegistryAssumption DEF TableInit
<1>3. \A name \in DOMAIN latest : funcs[First(Indices(names, name))] = latest[name]
  <2> TAKE name \in DOMAIN latest
  <2>1. Indices(names, name) # {}
    BY <1>2 DEF Indices
  <2>2. First(Indices(names, name)) \in DOMAIN names
    BY <1>2, <2>1, LookupFinds
  <2> QED  BY <2>2 DEF TableInit
<1> QED  BY <1>1, <1>2, <1>3 DEF TableInv, NamesInv

(* A new module takes an empty slot. *)
LEMMA FreeSlotFound ==
  ASSUME FreeSlots # {}
  PROVE  First(FreeSlots) \in Slot /\ registered[First(FreeSlots)] = None
<1>1. FreeSlots \subseteq Nat
  BY IndexAssumption DEF FreeSlots, Slot
<1>2. First(FreeSlots) \in FreeSlots
  BY <1>1, FirstFound
<1> QED  BY <1>2 DEF FreeSlots

LEMMA CreateKeepsTable ==
  ASSUME TableInv, NEW module \in Module, TVMModCreateFromCModule(module)
  PROVE  TableInv'
<1> DEFINE slot == First(FreeSlots)
<1>1. /\ slot \in Slot /\ registered[slot] = None
      /\ registered' = [registered EXCEPT ![slot] = module]
      /\ UNCHANGED <<handed, names, funcs, latest>>
  BY FreeSlotFound DEF TVMModCreateFromCModule, registryVars
<1> HIDE DEF slot
<1>2. registered' \in [Slot -> Module \cup {None}]
  BY <1>1 DEF TableInv
<1>3. NamesInv'
  BY <1>1 DEF TableInv, NamesInv, NamesBytes, Indices
<1>4. ASSUME NEW r \in handed' PROVE InNames(r)' \/ InModule(r)'
  <2>1. InNames(r) \/ InModule(r)
    BY <1>1 DEF TableInv
  <2>2. CASE InNames(r)
    BY <1>1, <2>2 DEF InNames
  <2>3. CASE InModule(r)
    <3>1. r.slot # slot
      BY <1>1, <2>3, NoneAssumption DEF InModule
    <3> QED  BY <1>1, <2>3, <3>1 DEF InModule, TableInv
  <2> QED  BY <2>1, <2>2, <2>3
<1> QED  BY <1>2, <1>3, <1>4 DEF TableInv

LEMMA FreeKeepsTable ==
  ASSUME TableInv, NEW handle \in held, TVMModFree(handle)
  PROVE  TableInv'
<1> DEFINE slot == DecodeModuleHandle(handle)
<1>1. /\ slot \in Slot
      /\ registered' = [registered EXCEPT ![slot] = None]
      /\ handed' = {r \in handed : r.slot # slot}
      /\ UNCHANGED <<names, funcs, latest>>
  BY DEF TVMModFree, IsModule, registryVars
<1> HIDE DEF slot
<1>2. registered' \in [Slot -> Module \cup {None}]
  BY <1>1 DEF TableInv
<1>3. NamesInv'
  BY <1>1 DEF TableInv, NamesInv, NamesBytes, Indices
<1>4. ASSUME NEW r \in handed' PROVE InNames(r)' \/ InModule(r)'
  <2>1. (InNames(r) \/ InModule(r)) /\ r.slot # slot
    BY <1>1 DEF TableInv
  <2>2. CASE InNames(r)
    BY <1>1, <2>2 DEF InNames
  <2>3. CASE InModule(r)
    BY <1>1, <2>1, <2>3 DEF InModule, TableInv
  <2> QED  BY <2>1, <2>2, <2>3
<1> QED  BY <1>2, <1>3, <1>4 DEF TableInv

LEMMA GetFunctionKeepsTable ==
  ASSUME TableInv, NEW handle \in held, NEW name \in Name, TVMModGetFunction(handle, name)
  PROVE  TableInv'
<1> DEFINE slot == DecodeModuleHandle(handle)
           owner == registered[slot]
           new == [handle |-> EncodeFunctionHandle(slot, Lookup(FunctionsOf[owner], name)),
                   slot |-> slot, owner |-> owner, name |-> name]
<1>1. /\ slot \in Slot /\ owner # None /\ Indices(FunctionsOf[owner], name) # {}
      /\ handed' = handed \cup {new}
      /\ UNCHANGED <<registered, names, funcs, latest>>
  BY DEF TVMModGetFunction, IsModule, registryVars, slotVars
<1>2. InModule(new)
  <2>1. owner \in Module
    BY <1>1 DEF TableInv
  <2> HIDE DEF slot
  <2> QED  BY <1>1, <2>1 DEF InModule
<1> HIDE DEF new, owner, slot
<1>3. NamesInv'
  BY <1>1 DEF TableInv, NamesInv, NamesBytes, Indices
<1>4. \A r : (InNames(r)' <=> InNames(r)) /\ (InModule(r)' <=> InModule(r))
  BY <1>1 DEF InNames, InModule
<1> QED  BY <1>1, <1>2, <1>3, <1>4 DEF TableInv

LEMMA GetGlobalKeepsTable ==
  ASSUME TableInv, NEW name \in Name, TVMFuncGetGlobal(name)
  PROVE  TableInv'
<1> DEFINE new == [handle |-> EncodeFunctionHandle(kGlobalFuncModuleIndex, Lookup(names, name)),
                   slot |-> kGlobalFuncModuleIndex, owner |-> None, name |-> name]
<1>1. /\ Indices(names, name) # {} /\ handed' = handed \cup {new}
      /\ UNCHANGED <<registered, names, funcs, latest>>
  BY DEF TVMFuncGetGlobal, registryVars, slotVars
<1>2. InNames(new)
  BY <1>1 DEF InNames
<1> HIDE DEF new
<1>3. NamesInv'
  BY <1>1 DEF TableInv, NamesInv, NamesBytes, Indices
<1>4. \A r : (InNames(r)' <=> InNames(r)) /\ (InModule(r)' <=> InModule(r))
  BY <1>1 DEF InNames, InModule
<1> QED  BY <1>1, <1>2, <1>3, <1>4 DEF TableInv

LEMMA OverrideKeepsTable ==
  ASSUME TableInv, NEW name \in Name, NEW impl \in Impl, Override(name, impl),
         NamesBytes < NamesSpace
  PROVE  TableInv'
<1> DEFINE k == First(Indices(names, name))
<1>1. /\ k \in DOMAIN names /\ names[k] = name /\ Lookup(names, name) + 1 = k
      /\ Indices(names, name) # {}
  BY LookupFinds DEF Override, TableInv, NamesInv
<1>2. /\ funcs' = [funcs EXCEPT ![k] = impl] /\ latest' = [latest EXCEPT ![name] = impl]
      /\ UNCHANGED <<names, handed, registered>>
  BY <1>1 DEF Override, slotVars
<1> HIDE DEF k
<1>3. \A n \in DOMAIN latest : /\ First(Indices(names, n)) \in DOMAIN names
                               /\ names[First(Indices(names, n))] = n
  <2> TAKE n \in DOMAIN latest
  <2>1. Indices(names, n) # {}
    BY DEF TableInv, NamesInv, Indices
  <2> QED  BY <2>1, LookupFinds DEF TableInv, NamesInv
<1>4. NamesInv'
  <2>1. ASSUME NEW n \in DOMAIN latest' PROVE funcs'[First(Indices(names, n))] = latest'[n]
    <3>1. n \in DOMAIN latest /\ funcs[First(Indices(names, n))] = latest[n]
      BY <1>2, <2>1 DEF TableInv, NamesInv
    <3>2. First(Indices(names, n)) = k <=> n = name
      BY <1>1, <1>3, <3>1 DEF k
    <3>3. k \in DOMAIN funcs
      BY <1>1 DEF TableInv, NamesInv
    <3> QED  BY <1>2, <3>1, <3>2, <3>3
  <2>2. funcs' \in Seq(Impl \cup {Damaged}) /\ Len(funcs') = Len(names)
    <3>1. funcs \in Seq(Impl \cup {Damaged}) /\ k \in 1 .. Len(funcs) /\ impl \in Impl \cup {Damaged}
          /\ Len(funcs) = Len(names)
      BY <1>1 DEF TableInv, NamesInv
    <3> QED  BY <1>2, <3>1
  <2>3. DOMAIN latest' = DOMAIN latest
    BY <1>2
  <2>4. /\ names' \in Seq(Name) /\ Len(names') <= MaxFunctions
        /\ DOMAIN latest' = {names'[j] : j \in DOMAIN names'}
    BY <1>2, <2>3 DEF TableInv, NamesInv
  <2> QED  BY <1>2, <2>1, <2>2, <2>4 DEF NamesInv
<1>5. \A r : (InNames(r)' <=> InNames(r)) /\ (InModule(r)' <=> InModule(r))
  BY <1>2 DEF InNames, InModule
<1> QED  BY <1>2, <1>4, <1>5 DEF TableInv

LEMMA AddKeepsTable ==
  ASSUME TableInv, NEW name \in Name, NEW impl \in Impl, AddName(name, impl),
         NamesBytes < NamesSpace
  PROVE  TableInv'
<1>1. /\ names \in Seq(Name) /\ Len(names) \in Nat /\ Indices(names, name) = {}
      /\ Len(names) < MaxFunctions /\ MaxFunctions \in Nat
      /\ names' = Append(names, name) /\ UNCHANGED <<handed, registered>>
  BY RegistryAssumption, IndexAssumption DEF TableInv, NamesInv, AddName, slotVars
<1>2. /\ names' \in Seq(Name) /\ Len(names') = Len(names) + 1 /\ names'[Len(names) + 1] = name
      /\ \A k \in DOMAIN names : names'[k] = names[k]
      /\ DOMAIN names = 1 .. Len(names) /\ DOMAIN names' = 1 .. Len(names) + 1
  BY <1>1
<1>3. \A n : n # name => Indices(names', n) = Indices(names, n)
  BY <1>2 DEF Indices
<1>4. Indices(names', name) = {Len(names) + 1}
  BY <1>1, <1>2 DEF Indices
<1>5. First(Indices(names', name)) = Len(names) + 1
  <2>1. {Len(names) + 1} \subseteq Nat /\ {Len(names) + 1} # {}
    BY <1>1
  <2>2. First({Len(names) + 1}) \in {Len(names) + 1}
    BY <2>1, FirstFound
  <2> QED  BY <1>4, <2>2
<1>6. DOMAIN latest' = {names'[k] : k \in DOMAIN names'}
  <2>1. DOMAIN latest' = DOMAIN latest \cup {name} /\ DOMAIN latest = {names[k] : k \in DOMAIN names}
    BY DEF AddName, TableInv, NamesInv
  <2>2. {names'[k] : k \in DOMAIN names'} = {names'[k] : k \in 1 .. Len(names)} \cup {name}
    <3>1. 1 .. Len(names) + 1 = (1 .. Len(names)) \cup {Len(names) + 1}
      BY <1>1
    <3> QED  BY <1>2, <3>1
  <2>3. {names'[k] : k \in 1 .. Len(names)} = {names[k] : k \in DOMAIN names}
    BY <1>2
  <2> QED  BY <2>1, <2>2, <2>3
<1>7. /\ funcs' \in Seq(Impl \cup {Damaged}) /\ Len(funcs') = Len(names')
      /\ funcs'[Len(names) + 1] = impl
      /\ ~MarkerHitsFunctions(name) => \A k \in DOMAIN names : funcs'[k] = funcs[k]
  <2> DEFINE kept == [k \in DOMAIN funcs |->
                        IF k = 1 /\ MarkerHitsFunctions(name) THEN Damaged ELSE funcs[k]]
  <2>1. funcs \in Seq(Impl \cup {Damaged}) /\ Len(funcs) = Len(names) /\ DOMAIN funcs = 1 .. Len(names)
    BY DEF TableInv, NamesInv
  <2>2. /\ kept \in Seq(Impl \cup {Damaged}) /\ Len(kept) = Len(names)
        /\ ~MarkerHitsFunctions(name) => \A k \in DOMAIN names : kept[k] = funcs[k]
    BY <1>1, <1>2, <2>1
  <2>3. funcs' = Append(kept, impl)
    BY DEF AddName
  <2> HIDE DEF kept
  <2> QED  BY <1>1, <1>2, <2>1, <2>2, <2>3
<1>8. NamesBytes' < NamesSpace => ~MarkerHitsFunctions(name)
  <2>1. NamesBytes = BytesOf(names) /\ NamesBytes' = BytesOf(names')
    BY DEF NamesBytes, BytesOf
  <2>2. BytesOf(names') = BytesOf(names) + NameLength[name] + 1
    BY <1>1, BytesAppended
  <2>3. NamesBytes' = NamesBytes + NameLength[name] + 1
    BY <2>1, <2>2
  <2>4. NamesBytes' \in Nat
    BY <1>2, <2>1, BytesType
  <2>5. NamesBytes' < NamesSpace => ~(NamesBytes' >= NamesSpace)
    <3>1. ASSUME NEW x \in Int, NEW y \in Int, x < y PROVE ~(x >= y)
      BY <3>1
    <3> QED  BY <2>4, <3>1, RegistryAssumption
  <2> QED  BY <2>3, <2>5 DEF MarkerHitsFunctions
<1>9. NamesInv'
  <2>1. ASSUME NamesBytes' < NamesSpace, NEW n \in DOMAIN latest'
        PROVE  funcs'[First(Indices(names', n))] = latest'[n]
    <3>1. CASE n = name
      BY <1>5, <1>7, <2>1, <3>1 DEF AddName
    <3>2. CASE n # name
      <4>1. n \in DOMAIN latest /\ latest'[n] = latest[n] /\ Indices(names', n) = Indices(names, n)
        BY <1>3, <2>1, <3>2 DEF AddName
      <4>2. Indices(names, n) # {} /\ funcs[First(Indices(names, n))] = latest[n]
        BY <4>1 DEF TableInv, NamesInv, Indices
      <4>3. First(Indices(names, n)) \in DOMAIN names
        BY <1>1, <4>2, LookupFinds
      <4> QED  BY <1>7, <1>8, <2>1, <4>1, <4>2, <4>3
    <3> QED  BY <3>1, <3>2
  <2> QED  BY <1>1, <1>2, <1>6, <1>7, <2>1 DEF NamesInv
<1>10. ASSUME NEW r \in handed' PROVE InNames(r)' \/ InModule(r)'
  <2>1. InNames(r) \/ InModule(r)
    BY <1>1 DEF TableInv
  <2>2. CASE InNames(r)
    <3>1. r.name # name
      BY <1>1, <2>2 DEF InNames
    <3>2. Indices(names', r.name) = Indices(names, r.name)
      BY <1>3, <3>1
    <3> QED  BY <2>2, <3>2 DEF InNames, Lookup
  <2>3. CASE InModule(r)
    BY <1>1, <2>3 DEF InModule
  <2> QED  BY <2>1, <2>2, <2>3
<1> QED  BY <1>1, <1>9, <1>10 DEF TableInv

LEMMA StepKeepsTable ==
  ASSUME TableInv, [Next]_vars
  PROVE  TableInv'
<1>1. ASSUME UNCHANGED tableVars PROVE TableInv'
  BY <1>1 DEF tableVars, TableInv, NamesInv, NamesBytes, InNames, InModule
<1>2. CASE Table
  BY <1>2, CreateKeepsTable, FreeKeepsTable, GetFunctionKeepsTable, GetGlobalKeepsTable,
     OverrideKeepsTable, AddKeepsTable, ModuleAssumption
  DEF Table, TableNext, CreateModule, SystemLibraryCreate, TVMFuncRegisterGlobal
<1>3. ASSUME [Next]_vars, ~Table PROVE UNCHANGED tableVars
  BY <1>3 DEF Next, vars, RPCTimeEvaluator, Begin, Step, WarmUp, TimerStart, TimedCalls, TimerStop, Reply
<1> QED  BY <1>1, <1>2, <1>3

LEMMA TableReaches == TableInv => HandleReachesFunction
<1> SUFFICES ASSUME TableInv, NamesBytes < NamesSpace, NEW r \in handed PROVE ReachesTarget(r)
  BY DEF HandleReachesFunction
<1>1. kGlobalFuncModuleIndex \in 0 .. Top - 1 /\ Slot \subseteq 0 .. Top - 1
      /\ kGlobalFuncModuleIndex \notin Slot
  BY IndexAssumption DEF kGlobalFuncModuleIndex, Slot
<1>2. CASE InNames(r)
  <2> DEFINE fn == Lookup(names, r.name)
  <2>1. /\ fn \in 0 .. Len(names) - 1 /\ fn + 1 = First(Indices(names, r.name))
        /\ fn + 1 \in DOMAIN names /\ names[fn + 1] = r.name
    BY <1>2, LookupFinds DEF InNames, TableInv, NamesInv
  <2>2. Len(names) \in Nat /\ Len(names) <= Top /\ Top \in Nat
    BY RegistryAssumption, IndexAssumption DEF TableInv, NamesInv
  <2> HIDE DEF fn
  <2>3. fn \in 0 .. Top - 1
    BY <2>1, <2>2
  <2>4. r.handle = EncodeFunctionHandle(kGlobalFuncModuleIndex, fn)
    BY <1>2 DEF InNames, fn
  <2>5. HandleModule(r.handle) = kGlobalFuncModuleIndex /\ HandleFunction(r.handle) = fn
    BY <1>1, <2>3, <2>4, HandleParts
  <2>6. Accepted(r.handle) /\ InRegistry(r.handle)
    BY <2>1, <2>2, <2>5 DEF Accepted, InRegistry
  <2>7. r.name \in DOMAIN latest
    BY <2>1 DEF TableInv, NamesInv
  <2>8. funcs[fn + 1] = latest[r.name]
    BY <2>1, <2>7 DEF TableInv, NamesInv
  <2>9. Called(r.handle) = [owner |-> None, target |-> latest[r.name]]
    BY <2>5, <2>8 DEF Called
  <2> QED  BY <1>1, <1>2, <2>6, <2>9 DEF ReachesTarget, InNames
<1>3. CASE InModule(r)
  <2> DEFINE registry == FunctionsOf[r.owner]
             fn == Lookup(registry, r.name)
  <2>1. /\ r.slot \in Slot /\ r.owner \in Module /\ registered[r.slot] = r.owner
        /\ Indices(registry, r.name) # {} /\ r.handle = EncodeFunctionHandle(r.slot, fn)
    BY <1>3 DEF InModule
  <2>2. registry \in Seq(Name) /\ Len(registry) \in Nat /\ Len(registry) <= Top /\ Top \in Nat
    BY <2>1, ModuleAssumption, IndexAssumption
  <2> HIDE DEF registry
  <2>3. fn \in 0 .. Len(registry) - 1 /\ registry[fn + 1] = r.name
    BY <2>1, <2>2, LookupFinds
  <2> HIDE DEF fn
  <2>4. HandleModule(r.handle) = r.slot /\ HandleFunction(r.handle) = fn
    <3>1. r.slot \in 0 .. Top - 1
      BY <1>1, <2>1
    <3>2. fn \in 0 .. Top - 1
      BY <2>2, <2>3
    <3> QED  BY <2>1, <3>1, <3>2, HandleParts
  <2>5. Accepted(r.handle)
    BY <2>1, <2>4, NoneAssumption DEF Accepted
  <2>6. Called(r.handle) = [owner |-> r.owner, target |-> r.name]
    BY <1>1, <2>1, <2>3, <2>4 DEF Called, registry
  <2> QED  BY <1>1, <2>1, <2>5, <2>6 DEF ReachesTarget
<1> QED  BY <1>2, <1>3 DEF TableInv

(* A function handle reaches the function it was looked up for as long as   *)
(* its module was not freed, whatever else was created, freed, registered   *)
(* or overridden since (TVMModCreateFromCModule, DecodeFunctionHandle,      *)
(* TVMFuncRegistry_Lookup, TVMMutableFuncRegistry_Set).                     *)
THEOREM HandlesReach == Spec => []HandleReachesFunction
<1>1. Init => TableInv
  BY InitTable DEF Init
<1>2. TableInv /\ [Next]_vars => TableInv'
  BY StepKeepsTable
<1> QED  BY <1>1, <1>2, TableReaches, PTL DEF Spec
=============================================================================
