-------------------------------- MODULE Link --------------------------------
(***************************************************************************)
(* What the framing layer promises to the session layer: a link that gives *)
(* the receiver whole packets in the order they were started, each at most *)
(* once, and passes over none but those that were cut short.  A receiver   *)
(* that restarts may miss the packets that were on their way.              *)
(***************************************************************************)
EXTENDS Integers, Sequences

CONSTANT Payloads  \* what a packet may carry

VARIABLES
  sent,       \* the packets started, in order: payload, and whether finished
  delivered,  \* the payloads the receiver was given, in order
  mayMiss     \* packets with a number up to this one may be missed

vars == <<sent, delivered, mayMiss>>

Init == sent = <<>> /\ delivered = <<>> /\ mayMiss = 0

(* The sender starts a packet, perhaps before the one before is finished.   *)
Start(p) ==
  /\ \A k \in DOMAIN sent : sent[k].payload # p
  /\ sent' = Append(sent, [payload |-> p, finished |-> FALSE])
  /\ UNCHANGED <<delivered, mayMiss>>

(* All of the last packet is on its way.                                    *)
Finish ==
  /\ sent # <<>>
  /\ sent' = [sent EXCEPT ![Len(sent)].finished = TRUE]
  /\ UNCHANGED <<delivered, mayMiss>>

Delivered(k) == \E i \in DOMAIN delivered : delivered[i] = sent[k].payload

(* Packet k comes after all that were delivered and, of those before it,    *)
(* every one that is finished and not excused was delivered.                *)
Deliver(k) ==
  /\ \A l \in DOMAIN sent : Delivered(l) => l < k
  /\ \A l \in mayMiss + 1 .. k - 1 : sent[l].finished => Delivered(l)
  /\ delivered' = Append(delivered, sent[k].payload)
  /\ UNCHANGED <<sent, mayMiss>>

Restart == mayMiss' = Len(sent) /\ UNCHANGED <<sent, delivered>>

Next ==
  \/ \E p \in Payloads : Start(p)
  \/ Finish
  \/ \E k \in DOMAIN sent : Deliver(k)
  \/ Restart

Spec == Init /\ [][Next]_vars
=============================================================================
