----------------------------- MODULE ModuleTable -----------------------------
(***************************************************************************)
(* The C runtime's table of modules and its registry of global functions   *)
(* (common/crt_runtime_api.c, func_registry.c), and the numbers the host   *)
(* holds for them: a module handle is an index with its top bit set, a     *)
(* function handle two of them, of the module and of the function.  A      *)
(* handle says nothing of what was in the slot when it was made, and the   *)
(* registry is a list of names that grows towards the functions.           *)
(***************************************************************************)
EXTENDS Integers, Sequences, FiniteSets

CONSTANTS
  MaxModules,   \* TVM_CRT_MAX_REGISTERED_MODULES: 6
  Top,          \* the top bit of a tvm_module_index_t and a tvm_function_index_t: 2^15
  Module,       \* the TVMModules of the program
  SystemLib,    \* what TVMSystemLibEntryPoint returns
  Name,         \* names of functions
  FunctionsOf,  \* the names in each module's registry, in order
  CountOf,      \* the number of functions each module's registry says it has
  Impl,         \* C functions that can be registered under a name
  Builtins,     \* the names TVMInitializeRuntime registers
  Builtin,      \* the C functions behind those
  NameLength,   \* strlen of each name
  NamesSpace,   \* bytes between the registry's count and its functions
  MaxFunctions, \* TVMMutableFuncRegistry.max_functions
  MaxHandles,   \* bound: function handles the host uses
  None,         \* stands for an empty slot
  Damaged       \* stands for a function pointer with a byte cleared

ASSUME IndexAssumption ==
  /\ Top \in Nat /\ MaxModules \in Nat \ {0} /\ MaxModules < Top - 1
ASSUME ModuleAssumption ==
  /\ SystemLib \in Module
  /\ FunctionsOf \in [Module -> Seq(Name)]
  /\ CountOf \in [Module -> 0 .. Top]
  /\ \A m \in Module : Len(FunctionsOf[m]) <= Top
ASSUME RegistryAssumption ==
  /\ NameLength \in [Name -> Nat \ {0}] /\ NamesSpace \in Nat
  /\ MaxFunctions \in 0 .. Top
  /\ Builtins \in Seq(Name) /\ Len(Builtins) <= MaxFunctions
  /\ Builtin \in Impl
ASSUME NoneAssumption == None \notin Module /\ Damaged \notin Impl

Word == 2 * Top                         \* the values of a 16-bit index
Slot == 0 .. MaxModules - 1
kGlobalFuncModuleIndex    == MaxModules
kTimeEvaluatorModuleIndex == Top - 1    \* 0x7fff
Uninitialized == -1                     \* kTVMModuleHandleUninitialized

VARIABLES
  registered,        \* registered_modules
  system_lib_handle,
  names,             \* the names in the global registry, in order
  funcs,             \* and their functions
  (* history *)
  held,     \* module handles the host has and has not freed
  handed,   \* function handles the host may use: what was looked up for them
  latest    \* the function registered last under each name of the registry

registryVars == <<names, funcs, latest>>
slotVars == <<registered, system_lib_handle, held>>
tableVars == <<registered, system_lib_handle, names, funcs, held, handed, latest>>

TableInit ==
  /\ registered = [s \in Slot |-> None]
  /\ system_lib_handle = Uninitialized
  /\ names = Builtins
  /\ funcs = [i \in DOMAIN Builtins |-> Builtin]
  /\ held = {} /\ handed = {}
  /\ latest = [n \in {Builtins[i] : i \in DOMAIN Builtins} |-> Builtin]

-----------------------------------------------------------------------------
(* index | 0x8000 and handle & ~0x8000 *)
SetTop(index)   == IF index < Top THEN index + Top ELSE index
ClearTop(index) == index % Top

EncodeModuleHandle(slot)   == SetTop(slot)
DecodeModuleHandle(handle) == ClearTop(handle % Word)

EncodeFunctionHandle(module, fn) == (SetTop(module) * Word) + SetTop(fn)

(* The tvm_module_index_t and the tvm_function_index_t that                 *)
(* DecodeFunctionHandle takes from a handle.                                *)
HandleModule(handle)   == ClearTop((handle \div Word) % Word)
HandleFunction(handle) == ClearTop(handle % Word)

(* DecodeModuleHandle for an index inside the table, the only ones that     *)
(* EncodeModuleHandle is given.                                             *)
IsModule(handle) ==
  LET slot == DecodeModuleHandle(handle) IN slot \in Slot /\ registered[slot] # None

(* DecodeFunctionHandle, for a handle that is not the time evaluator's.     *)
Accepted(handle) ==
  LET module == HandleModule(handle) IN
  \/ module = kGlobalFuncModuleIndex
  \/ module \in Slot /\ registered[module] # None

(* TVMFuncRegistry_GetByIndex, and the function TVMFuncCall calls.          *)
InRegistry(handle) ==
  LET module == HandleModule(handle) IN
  HandleFunction(handle) <
    (IF module = kGlobalFuncModuleIndex THEN Len(names) ELSE CountOf[registered[module]])

Called(handle) ==
  LET module == HandleModule(handle)  fn == HandleFunction(handle) IN
  IF module = kGlobalFuncModuleIndex
  THEN [owner |-> None, target |-> funcs[fn + 1]]
  ELSE [owner |-> registered[module], target |-> FunctionsOf[registered[module]][fn + 1]]

(* TVMFuncRegistry_Lookup: the indices at which a registry has a name; the  *)
(* first is the one found.                                                  *)
Indices(registry, name) == {i \in DOMAIN registry : registry[i] = name}
First(indices) == CHOOSE i \in indices : \A j \in indices : i <= j
Lookup(registry, name) == First(Indices(registry, name)) - 1

-----------------------------------------------------------------------------
(* The slots a new module may take: TVMModCreateFromCModule takes the first *)
(* empty one.  Mutant: the slot of a module that is in use as well.         *)
AnySlots  == Slot
FreeSlots == {s \in Slot : registered[s] = None}

TVMModCreateFromCModule(module) ==
  LET slot == First(FreeSlots)  handle == EncodeModuleHandle(slot) IN
  /\ FreeSlots # {}
  /\ registered' = [registered EXCEPT ![slot] = module]
  /\ held' = held \cup {handle}
  /\ UNCHANGED <<handed, registryVars>>

(* The executors register their modules. *)
CreateModule(module) ==
  /\ module # SystemLib
  /\ TVMModCreateFromCModule(module)
  /\ UNCHANGED system_lib_handle

(* SystemLibraryCreate; later calls return the handle of the first. *)
SystemLibraryCreate ==
  /\ system_lib_handle = Uninitialized
  /\ TVMModCreateFromCModule(SystemLib)
  /\ system_lib_handle' = EncodeModuleHandle(First(FreeSlots))

(* The host frees a handle it holds, which ends the promise of the function *)
(* handles that were looked up in the module.  The system library stays.    *)
IsSystemLib(handle) == handle = system_lib_handle

TVMModFree(handle) ==
  LET slot == DecodeModuleHandle(handle) IN
  /\ handle \in held
  /\ ~IsSystemLib(handle) /\ IsModule(handle)
  /\ registered' = [registered EXCEPT ![slot] = None]
  /\ held' = held \ {handle}
  /\ handed' = {r \in handed : r.slot # slot}
  /\ UNCHANGED <<system_lib_handle, registryVars>>

(* What TVMModGetFunction finds for the host, in a module it holds. *)
TVMModGetFunction(handle, name) ==
  LET slot == DecodeModuleHandle(handle)
      registry == FunctionsOf[registered[slot]]
      fn == Lookup(registry, name)
  IN  /\ handle \in held
      /\ IsModule(handle)
      /\ Indices(registry, name) # {}
      /\ Cardinality(handed) < MaxHandles
      /\ handed' = handed \cup
           {[handle |-> EncodeFunctionHandle(slot, fn), slot |-> slot,
             owner |-> registered[slot], name |-> name]}
      /\ UNCHANGED <<slotVars, registryVars>>

TVMFuncGetGlobal(name) ==
  /\ Indices(names, name) # {}
  /\ Cardinality(handed) < MaxHandles
  /\ handed' = handed \cup
       {[handle |-> EncodeFunctionHandle(kGlobalFuncModuleIndex, Lookup(names, name)),
         slot |-> kGlobalFuncModuleIndex, owner |-> None, name |-> name]}
  /\ UNCHANGED <<slotVars, registryVars>>

-----------------------------------------------------------------------------
(* The bytes of the names with their terminators: where the end marker is. *)
NamesBytes ==
  LET f[i \in 0 .. Len(names)] ==
        IF i = 0 THEN 0 ELSE f[i - 1] + NameLength[names[i]] + 1
  IN  f[Len(names)]

(* The space check of TVMMutableFuncRegistry_Set. *)
NameFits(name) == NamesBytes + NameLength[name] + 1 <= NamesSpace

(* The new end marker is written behind the last name.  When the names then *)
(* fill their space it falls on the first byte of the functions.            *)
MarkerHitsFunctions(name) == NamesBytes + NameLength[name] + 1 >= NamesSpace

(* A name that is known: the function is replaced, if that was asked for. *)
Override(name, impl) ==
  /\ Indices(names, name) # {}
  /\ funcs' = [funcs EXCEPT ![Lookup(names, name) + 1] = impl]
  /\ latest' = [latest EXCEPT ![name] = impl]
  /\ UNCHANGED <<names, handed, slotVars>>

AddName(name, impl) ==
  /\ Indices(names, name) = {}
  /\ Len(names) < MaxFunctions /\ NameFits(name)
  /\ names' = Append(names, name)
  /\ funcs' = Append([i \in DOMAIN funcs |->
                        IF i = 1 /\ MarkerHitsFunctions(name) THEN Damaged ELSE funcs[i]],
                     impl)
  /\ latest' = [n \in DOMAIN latest \cup {name} |-> IF n = name THEN impl ELSE latest[n]]
  /\ UNCHANGED <<handed, slotVars>>

(* TVMFuncRegisterGlobal, which the program calls before any module is      *)
(* created (bound).  A registry whose space is filled to the last byte has  *)
(* lost its first function, and is not followed further (bound).            *)
TVMFuncRegisterGlobal(name, impl) ==
  /\ FreeSlots = Slot
  /\ NamesBytes < NamesSpace
  /\ Override(name, impl) \/ AddName(name, impl)

TableNext ==
  \/ \E m \in Module : CreateModule(m)
  \/ SystemLibraryCreate
  \/ \E h \in held : TVMModFree(h) \/ \E n \in Name : TVMModGetFunction(h, n)
  \/ \E n \in Name : TVMFuncGetGlobal(n) \/ \E f \in Impl : TVMFuncRegisterGlobal(n, f)

-----------------------------------------------------------------------------
TableTypeOK ==
  /\ registered \in [Slot -> Module \cup {None}]
  /\ system_lib_handle \in Top .. Word - 1 \cup {Uninitialized}
  /\ names \in Seq(Name) /\ Len(names) <= MaxFunctions
  /\ DOMAIN funcs = DOMAIN names
  /\ \A i \in DOMAIN funcs : funcs[i] \in Impl \cup {Damaged}
  /\ held \subseteq Top .. Word - 1
  /\ handed \subseteq [handle : Nat, slot : Slot \cup {kGlobalFuncModuleIndex},
                       owner : Module \cup {None}, name : Name]

(* A function handle reaches the function it was looked up for, however     *)
(* many modules and functions were created, freed, registered or overridden *)
(* since, as long as its own module was not freed: a module keeps its slot, *)
(* the system library is never freed, a name keeps its index in the         *)
(* registry.  Excepted are functions behind the count their registry gives, *)
(* which GetByIndex refuses, and a registry filled to the last byte.        *)
ReachesTarget(r) ==
  /\ Accepted(r.handle)
  /\ r.slot = kGlobalFuncModuleIndex =>
       /\ InRegistry(r.handle)
       /\ Called(r.handle) = [owner |-> None, target |-> latest[r.name]]
  /\ r.slot \in Slot /\ InRegistry(r.handle) =>
       Called(r.handle) = [owner |-> r.owner, target |-> r.name]
HandleReachesFunction ==
  NamesBytes < NamesSpace => \A r \in handed : ReachesTarget(r)
=============================================================================
