------------------------------ MODULE MCSession ------------------------------
(***************************************************************************)
(* A host and a device.  The host's application is outside the repository: *)
(* it clears every message it is given.  The device's HandleCompleteMessage *)
(* clears only the requests it processes.                                  *)
(***************************************************************************)
EXTENDS Session

CONSTANTS host, device

MCEndpoint == {host, device}
MCHost     == {host}
MCBoth     == {host, device}
MCDevice   == {device}

MCAppClears ==
  [e \in MCEndpoint |-> IF e = host THEN {"kLog", "kNormal"} ELSE {"kNormal"}]

MCVersion == [e \in MCEndpoint |-> 1]

(* The host and the device are reset, the host with a new nonce each time,  *)
(* as session.h asks.  TVMPlatformGenerateRandom fills the device's nonce   *)
(* from an uninitialized variable: here every boot finds the same value.    *)
MCResets == [e \in MCEndpoint |-> IF e = host THEN <<17, 200>> ELSE <<5, 5>>]

(* Both take a new nonce at each boot.  The first ones are the same, so    *)
(* that two Inits may tie.                                                  *)
MCTyingResets == [e \in MCEndpoint |-> IF e = host THEN <<5, 200>> ELSE <<5, 90>>]
=============================================================================
