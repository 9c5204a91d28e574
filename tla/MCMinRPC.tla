------------------------------ MODULE MCMinRPC ------------------------------
(***************************************************************************)
(* MinRPC for TLC: a request of each kind, with strings that fill a page   *)
(* together and one that needs a page of twice the size, and what a buffer *)
(* spells that begins with the bytes of a lost packet.                     *)
(***************************************************************************)
EXTENDS MinRPC

Arg(type) == Value(type, 0)
Spelled(code, args, length, cpu) ==
  [code |-> code, args |-> args, length |-> length, cpu |-> cpu, available |-> 0]
With(r, bytes) == [r EXCEPT !.available = bytes]
Whole(code, args, length, cpu) ==
  LET r == Spelled(code, args, length, cpu) IN With(r, RequestBytes(r))
Call(args) == Whole("kCallFunc", args, 0, TRUE)

System(code, args) == Whole(code, args, 0, TRUE)
MCSyscalls ==
  {System(code, <<Arg("device"), Arg("opaque")>>) :
     code \in {"kDevFreeData", "kDevFreeStream", "kDevStreamSync", "kDevSetStream"}}
  \cup {System("kDevAllocDataWithScope", <<Value("tensor", 2), scope>>) :
          scope \in {Arg("null"), Value("str", 6)}}
  \cup {System("kGetGlobalFunc", <<Value("str", 20)>>),
        System("kFreeHandle", <<Arg("opaque"), Arg("int")>>),
        System("kFreeHandle", <<Arg("int"), Arg("int")>>),
        System("kDevAllocData", <<Arg("device"), Arg("int"), Arg("int"), Arg("datatype")>>),
        System("kDevAllocData", <<Arg("device"), Arg("int")>>),
        System("kDevCreateStream", <<Arg("device")>>),
        System("kCopyAmongRemote", <<Value("tensor", 1), Value("tensor", 0), Arg("opaque")>>)}
  \cup {System(code, <<Arg("device")>>) : code \in RefusedSyscall}

(* The graph goes as a string that needs a page of its own. *)
MCCalls ==
  {Call(<<>>), Call(<<Value("str", 2100), Arg("module"), Arg("device")>>),
   Call(<<Value("str", 1000), Value("bytes", 1000), Arg("null")>>),
   Call(<<Value("bytes", 3), Value("str", 1990), Value("tensor", 2), Arg("float")>>),
   Call(<<Value("str", 2021)>>), Call(<<Value("str", 4067), Arg("uint"), Arg("func")>>)}

MCOthers ==
  {Whole("kInitServer", <<>>, 5, TRUE),
   Whole("kCopyFromRemote", <<>>, 64, TRUE), Whole("kCopyToRemote", <<>>, 64, TRUE),
   Whole("kCopyFromRemote", <<>>, 1990, FALSE), Whole("kCopyToRemote", <<>>, 1990, FALSE),
   Whole("kShutdown", <<>>, 0, TRUE),
   Whole("empty", <<>>, 0, TRUE), Whole("garbage", <<>>, 0, TRUE)}

(* Behind stale bytes: a call that lost its last field, one of which only   *)
(* the length is there, and less than that; a call, a copy and a shutdown   *)
(* of a lost packet in front of another message; and bytes that spell other *)
(* types, lengths and codes than any the host sends.                        *)
MCBehindStale ==
  {With(Call(<<Arg("int")>>), 32), With(Call(<<>>), 8), With(Call(<<>>), 5),
   With(Call(<<Value("str", 20)>>), 90),
   With(Whole("kCopyToRemote", <<>>, 1990, FALSE), 3000),
   With(Whole("kShutdown", <<>>, 0, TRUE), 40), With(Whole("empty", <<>>, 0, TRUE), 30),
   With(Call(<<Value("bytes", 5000), Arg("null")>>), 60),
   With(System("kGetGlobalFunc", <<Value("tensor", 9)>>), 200),
   With(Call(<<Arg("unknown"), Arg("int")>>), 44),
   With(Whole("kInitServer", <<Arg("int")>>, 3, TRUE), 70),
   With(Whole("garbage", <<>>, 0, TRUE), 64)}

MCRequests ==
  MCSyscalls \cup MCCalls \cup MCOthers \cup MCBehindStale

MCResults == {Arg("null"), Arg("module"), Value("ndarray", 2), Value("bytes", 16), Arg("int")}
=============================================================================
