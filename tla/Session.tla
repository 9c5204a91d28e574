------------------------------- MODULE Session -------------------------------
(***************************************************************************)
(* The session layer of the microTVM RPC transport: two endpoints that run *)
(* class Session over an in-order, reliable transport, agree on a session  *)
(* id made of a nonce of each, and exchange messages under it.  Either     *)
(* endpoint may be reset at any time, losing what it has not read.         *)
(*                                                                         *)
(* A step is one call of the public interface or one PacketDone(true): the *)
(* code is single threaded and runs each of them to the end.  The framing  *)
(* below is in Framing, the receive buffer in ReceivePath.                 *)
(***************************************************************************)
EXTENDS Integers, Sequences

CONSTANTS
  Endpoint,      \* the two ends of the link
  Starters,      \* the endpoints whose application calls StartSession
  Requesters,    \* the endpoints whose application sends normal messages first
  Loggers,       \* the endpoints that log
  AppClears,     \* for each endpoint, the message types after which its
                 \* MessageReceivedFunc calls ClearReceiveBuffer
  Version,       \* for each endpoint, the kVersion it was built with
  InitialNonce,  \* for each endpoint, the nonce Initialize is given at each boot
  LosesInput,    \* TRUE iff a reset may lose messages that were not read yet
  MaxStarts,     \* bound: calls of StartSession
  MaxTerminates, \* bound: calls of TerminateSession
  MaxRequests,   \* bound: requests
  MaxLogs        \* bound: log messages

Nonce == 0 .. 255
kInvalidNonce == 0

MessageType == {"kStartSessionInit", "kStartSessionReply", "kTerminateSession",
                "kLog", "kNormal"}

State == {"kReset", "kNoSessionEstablished", "kStartSessionSent",
          "kSessionEstablished"}

ASSUME EndpointAssumption ==
  /\ \E a, b \in Endpoint : a # b /\ Endpoint = {a, b}
  /\ Starters \subseteq Endpoint
  /\ Requesters \subseteq Endpoint
  /\ Loggers \subseteq Endpoint
ASSUME ApplicationAssumption ==
  /\ AppClears \in [Endpoint -> SUBSET MessageType]
  /\ Version \in [Endpoint -> Nat]
  /\ InitialNonce \in [Endpoint -> Seq(Nonce)]
ASSUME BoundsAssumption ==
  /\ LosesInput \in BOOLEAN
  /\ MaxStarts \in Nat
  /\ MaxTerminates \in Nat
  /\ MaxRequests \in Nat
  /\ MaxLogs \in Nat

Peer(e) == CHOOSE p \in Endpoint : p # e

(* Session::RegenerateNonce: rotate by five bits, add one, skip the invalid *)
(* value.  Mutants: only one half of the rotation; the nonce is kept.       *)
HalfRotated(n) == n \div 32
NonceKept(n)   == n
Rotated(n) == ((n % 8) * 32 + n \div 32 + 1) % 256
RegenerateNonce(n) == IF Rotated(n) = kInvalidNonce THEN 1 ELSE Rotated(n)

(* A session id is the initiator's nonce and the responder's. *)
SessionId == Nonce \X Nonce
InitiatorNonce(sid) == sid[1]
ResponderNonce(sid) == sid[2]

(* A message: the header, the version in the payload of the two start       *)
(* messages and, as history, which boot of the sender sent it to which boot *)
(* of the receiver, as far as the sender knew.                              *)
Message == [type : MessageType, sid : SessionId, version : Nat, from : Nat, to : Nat]

VARIABLES
  state,       \* Session::state_
  localNonce,  \* Session::local_nonce_
  sessionId,   \* Session::session_id_
  complete,    \* Session::receive_buffer_has_complete_message_
  running,     \* the endpoint has booted and has not aborted
  net,         \* the messages on their way to each endpoint
  (* history *)
  boots,       \* boots of each endpoint
  peerBoot,    \* the boot of the peer that the current session is with
  notified,    \* OnSessionEstablished callbacks since the session last changed
  accepted,    \* the last normal message given to the application, with the
               \* boots the receiver takes it to be from and to
  starts, terminates, requests, logs

sessionVars == <<state, localNonce, sessionId>>
ghostVars   == <<boots, peerBoot, notified, accepted>>
counters    == <<starts, terminates, requests, logs>>
vars == <<sessionVars, complete, running, net, ghostVars, counters>>

NoMessage == [from |-> 0, to |-> 0, wantFrom |-> 0, wantTo |-> 0]

Init ==
  /\ state = [e \in Endpoint |-> "kReset"]
  /\ localNonce = [e \in Endpoint |-> kInvalidNonce]
  /\ sessionId = [e \in Endpoint |-> <<0, 0>>]
  /\ complete = [e \in Endpoint |-> FALSE]
  /\ running = [e \in Endpoint |-> FALSE]
  /\ net = [e \in Endpoint |-> <<>>]
  /\ boots = [e \in Endpoint |-> 0]
  /\ peerBoot = [e \in Endpoint |-> 0]
  /\ notified = [e \in Endpoint |-> 0]
  /\ accepted = NoMessage
  /\ starts = 0 /\ terminates = 0 /\ requests = 0 /\ logs = 0

-----------------------------------------------------------------------------
(* Sending. *)

(* StartMessage: the header carries the session id the sender has by then,  *)
(* except for a log message.                                                *)
MessageOf(e, type, sid, peer) ==
  [type |-> type, sid |-> IF type = "kLog" THEN <<0, 0>> ELSE sid,
   version |-> Version[e], from |-> boots[e], to |-> peer]

(* The messages on the link once e received the first k of its own and sent *)
(* msgs.                                                                    *)
NetAfter(e, k, msgs) ==
  [net EXCEPT ![e] = SubSeq(@, k + 1, Len(@)), ![Peer(e)] = @ \o msgs]

(* An endpoint is reset: the constructor, then Session::Initialize, which   *)
(* terminates whatever session the remote may still have.  k is the number  *)
(* of messages lost in its input.                                           *)
Boot(e, k) ==
  /\ boots[e] < Len(InitialNonce[e])
  /\ k = 0 \/ LosesInput
  /\ boots' = [boots EXCEPT ![e] = @ + 1]
  /\ running' = [running EXCEPT ![e] = TRUE]
  /\ localNonce' = [localNonce EXCEPT ![e] = InitialNonce[e][boots'[e]]]
  /\ sessionId' = [sessionId EXCEPT ![e] = <<0, 0>>]
  /\ state' = [state EXCEPT ![e] = "kNoSessionEstablished"]
  /\ complete' = [complete EXCEPT ![e] = FALSE]
  /\ notified' = [notified EXCEPT ![e] = 0]
  /\ peerBoot' = [peerBoot EXCEPT ![e] = 0]
  /\ net' = NetAfter(e, k, <<[MessageOf(e, "kTerminateSession", <<0, 0>>, 0)
                                EXCEPT !.from = boots'[e]]>>)
  /\ UNCHANGED <<accepted, counters>>

(* What StartSession does from any state but kReset. *)
StartSessionEffect(e, k) ==
  LET nonce == RegenerateNonce(localNonce[e])
  IN  /\ localNonce' = [localNonce EXCEPT ![e] = nonce]
      /\ sessionId' = [sessionId EXCEPT ![e] = <<nonce, 0>>]
      /\ state' = [state EXCEPT ![e] = "kStartSessionSent"]
      /\ notified' = [notified EXCEPT ![e] = 0]
      /\ net' = NetAfter(e, k, <<MessageOf(e, "kStartSessionInit", <<nonce, 0>>, 0)>>)
      /\ UNCHANGED peerBoot

StartSession(e) ==
  /\ running[e] /\ e \in Starters
  /\ starts < MaxStarts
  /\ starts' = starts + 1
  /\ IF state[e] = "kReset"
       THEN \* CHECK_NE(state_, State::kReset)
            /\ running' = [running EXCEPT ![e] = FALSE]
            /\ UNCHANGED <<sessionVars, net, peerBoot, notified>>
       ELSE StartSessionEffect(e, 0) /\ UNCHANGED running
  /\ UNCHANGED <<complete, boots, accepted, terminates, requests, logs>>

TerminateSession(e) ==
  /\ running[e] /\ e \in Starters
  /\ terminates < MaxTerminates
  /\ terminates' = terminates + 1
  /\ sessionId' = [sessionId EXCEPT ![e] = <<0, 0>>]
  /\ state' = [state EXCEPT ![e] = "kNoSessionEstablished"]
  /\ notified' = [notified EXCEPT ![e] = 0]
  /\ net' = NetAfter(e, 0, <<MessageOf(e, "kTerminateSession", <<0, 0>>, 0)>>)
  /\ UNCHANGED <<localNonce, complete, running, boots, peerBoot, accepted,
                 starts, requests, logs>>

(* SendMessage refuses a normal message outside a session. *)
SendRequest(e) ==
  /\ running[e] /\ e \in Requesters
  /\ requests < MaxRequests
  /\ state[e] = "kSessionEstablished"
  /\ requests' = requests + 1
  /\ net' = NetAfter(e, 0, <<MessageOf(e, "kNormal", sessionId[e], peerBoot[e])>>)
  /\ UNCHANGED <<sessionVars, complete, running, ghostVars, starts, terminates, logs>>

(* TVMLogf: a log message needs no session. *)
SendLog(e) ==
  /\ running[e] /\ e \in Loggers
  /\ logs < MaxLogs
  /\ logs' = logs + 1
  /\ net' = NetAfter(e, 0, <<MessageOf(e, "kLog", <<0, 0>>, 0)>>)
  /\ UNCHANGED <<sessionVars, complete, running, ghostVars, starts, terminates, requests>>

-----------------------------------------------------------------------------
(* Receiving: SessionReceiver::PacketDone(true) for the first message. *)

Received(e, type) ==
  /\ running[e] /\ ~complete[e]
  /\ net[e] # <<>> /\ Head(net[e]).type = type

Ignore(e) ==
  /\ net' = NetAfter(e, 1, <<>>)
  /\ UNCHANGED <<sessionVars, peerBoot, notified>>

(* The message is dropped and the session with it, and the application is   *)
(* not told.                                                                *)
GoToReset(e) ==
  /\ net' = NetAfter(e, 1, <<>>)
  /\ state' = [state EXCEPT ![e] = "kReset"]
  /\ UNCHANGED <<localNonce, sessionId, peerBoot, notified>>

(* SendSessionStartReply; callbacks is how often OnSessionEstablished runs. *)
SendSessionStartReply(e, m, callbacks) ==
  LET nonce == RegenerateNonce(localNonce[e])
      sid == <<InitiatorNonce(m.sid), nonce>>
  IN  /\ localNonce' = [localNonce EXCEPT ![e] = nonce]
      /\ sessionId' = [sessionId EXCEPT ![e] = sid]
      /\ state' = [state EXCEPT ![e] = "kSessionEstablished"]
      /\ notified' = [notified EXCEPT ![e] = callbacks]
      /\ peerBoot' = [peerBoot EXCEPT ![e] = m.from]
      /\ net' = NetAfter(e, 1, <<MessageOf(e, "kStartSessionReply", sid, m.from)>>)

(* Two Inits crossed: the lowest nonce wins, a tie is tried again.  Mutant: *)
(* neither side gives in.                                                   *)
NeitherGivesIn(e, m) ==
  IF InitiatorNonce(m.sid) = localNonce[e] THEN StartSessionEffect(e, 1) ELSE Ignore(e)
CrossedInit(e, m) ==
  CASE InitiatorNonce(m.sid) < localNonce[e] /\ m.version = Version[e] ->
         SendSessionStartReply(e, m, 1)
    [] InitiatorNonce(m.sid) = localNonce[e] -> StartSessionEffect(e, 1)
    [] OTHER -> Ignore(e)

ProcessStartSessionInit(e) ==
  /\ Received(e, "kStartSessionInit")
  /\ LET m == Head(net[e])
     IN  IF InitiatorNonce(m.sid) = kInvalidNonce THEN Ignore(e)
         ELSE CASE state[e] = "kStartSessionSent" -> CrossedInit(e, m)
                [] state[e] = "kSessionEstablished" -> SendSessionStartReply(e, m, 2)
                [] OTHER -> SendSessionStartReply(e, m, 1)
  /\ UNCHANGED <<complete, running, boots, accepted, counters>>

(* The reply is for the Init this endpoint sent last.  Mutant: any reply.   *)
AnyReply(e, m)       == TRUE
ReplyMatches(e, m)   == InitiatorNonce(m.sid) = localNonce[e] /\ m.version = Version[e]

(* In a session every reply with a responder nonce goes to kReset: the      *)
(* branch that answers one without is behind the return for such a reply.   *)
ProcessStartSessionReply(e) ==
  /\ Received(e, "kStartSessionReply")
  /\ LET m == Head(net[e])
     IN  CASE ResponderNonce(m.sid) = kInvalidNonce -> Ignore(e)
           [] ResponderNonce(m.sid) # kInvalidNonce /\ state[e] = "kStartSessionSent"
              /\ ReplyMatches(e, m) ->
                /\ sessionId' = [sessionId EXCEPT ![e] = <<localNonce[e], ResponderNonce(m.sid)>>]
                /\ state' = [state EXCEPT ![e] = "kSessionEstablished"]
                /\ notified' = [notified EXCEPT ![e] = 1]
                /\ peerBoot' = [peerBoot EXCEPT ![e] = m.from]
                /\ net' = NetAfter(e, 1, <<>>)
                /\ UNCHANGED localNonce
           [] ResponderNonce(m.sid) # kInvalidNonce /\ state[e] = "kSessionEstablished" ->
                GoToReset(e)
           [] OTHER -> Ignore(e)
  /\ UNCHANGED <<complete, running, boots, accepted, counters>>

(* kTerminateSession is not compared with the session in place. *)
ProcessTerminateSession(e) ==
  /\ Received(e, "kTerminateSession")
  /\ net' = NetAfter(e, 1, <<>>)
  /\ IF state[e] = "kSessionEstablished"
       THEN /\ state' = [state EXCEPT ![e] = "kNoSessionEstablished"]
            /\ notified' = [notified EXCEPT ![e] = 0]
       ELSE UNCHANGED <<state, notified>>
  /\ UNCHANGED <<localNonce, sessionId, complete, running, boots, peerBoot,
                 accepted, counters>>

(* The message received function gets the buffer; a message it does not     *)
(* clear away stays there.                                                  *)
HandOver(e, type) ==
  complete' = [complete EXCEPT ![e] = type \notin AppClears[e]]

ProcessLog(e) ==
  /\ Received(e, "kLog")
  /\ HandOver(e, "kLog")
  /\ net' = NetAfter(e, 1, <<>>)
  /\ UNCHANGED <<sessionVars, running, ghostVars, counters>>

(* The message belongs to the session in place.  Mutant: every message does.*)
AnySession(e, m) == TRUE
InSession(e, m)  == state[e] = "kSessionEstablished" /\ m.sid = sessionId[e]

(* A normal message.  An endpoint that sends no requests is the server:     *)
(* HandleCompleteMessage processes the request and answers it.              *)
ProcessNormal(e) ==
  /\ Received(e, "kNormal")
  /\ LET m == Head(net[e])
     IN  IF InSession(e, m)
           THEN /\ HandOver(e, "kNormal")
                /\ accepted' = [from |-> m.from, to |-> m.to,
                                wantFrom |-> peerBoot[e], wantTo |-> boots[e]]
                /\ net' = NetAfter(e, 1,
                     IF e \in Requesters THEN <<>>
                     ELSE <<MessageOf(e, "kNormal", sessionId[e], peerBoot[e])>>)
           ELSE \* nobody is told, and nobody clears the buffer
                /\ complete' = [complete EXCEPT ![e] = TRUE]
                /\ net' = NetAfter(e, 1, <<>>)
                /\ UNCHANGED accepted
  /\ UNCHANGED <<sessionVars, running, boots, peerBoot, notified, counters>>

(* SessionReceiver::Write refuses the bytes of the next message: the error  *)
(* reaches main, which logs it and exits.                                   *)
ReceiveBusy(e) ==
  /\ running[e] /\ complete[e]
  /\ net[e] # <<>>
  /\ running' = [running EXCEPT ![e] = FALSE]
  /\ net' = NetAfter(e, 1, <<MessageOf(e, "kLog", <<0, 0>>, 0)>>)
  /\ UNCHANGED <<sessionVars, complete, ghostVars, counters>>

-----------------------------------------------------------------------------
Receive(e) ==
  \/ ProcessStartSessionInit(e)
  \/ ProcessStartSessionReply(e)
  \/ ProcessTerminateSession(e)
  \/ ProcessLog(e)
  \/ ProcessNormal(e)
  \/ ReceiveBusy(e)

Application(e) ==
  \/ StartSession(e)
  \/ TerminateSession(e)
  \/ SendRequest(e)
  \/ SendLog(e)

Next ==
  \E e \in Endpoint :
    \/ \E k \in 0 .. Len(net[e]) : Boot(e, k)
    \/ Application(e)
    \/ Receive(e)

Spec == Init /\ [][Next]_vars

(* Both endpoints are powered on, and read what arrives. *)
FairSpec ==
  /\ Spec
  /\ \A e \in Endpoint : WF_vars(Receive(e)) /\ WF_vars(boots[e] = 0 /\ Boot(e, 0))

-----------------------------------------------------------------------------
TypeOK ==
  /\ state \in [Endpoint -> State]
  /\ localNonce \in [Endpoint -> Nonce]
  /\ sessionId \in [Endpoint -> SessionId]
  /\ complete \in [Endpoint -> BOOLEAN]
  /\ running \in [Endpoint -> BOOLEAN]
  /\ net \in [Endpoint -> Seq(Message)]
  /\ boots \in [Endpoint -> Nat]
  /\ peerBoot \in [Endpoint -> Nat]
  /\ notified \in [Endpoint -> Nat]
  /\ accepted \in [from : Nat, to : Nat, wantFrom : Nat, wantTo : Nat]
  /\ starts \in Nat /\ terminates \in Nat /\ requests \in Nat /\ logs \in Nat

Established(e) == state[e] = "kSessionEstablished"

(* Everything sent was read, and nobody is off. *)
Quiet == \A e \in Endpoint : net[e] = <<>> /\ running[e]

(* No half-open session: once every message is read, an endpoint that is in *)
(* a session shares its id, whichever side was reset or started again while *)
(* messages crossed.                                                        *)
NoHalfOpenSession ==
  Quiet => \A e \in Endpoint :
             Established(e) => Established(Peer(e)) /\ sessionId[e] = sessionId[Peer(e)]

(* An endpoint in a session has a valid nonce of each side in its id, so it *)
(* never takes a message sent before there was a responder for its own.     *)
SessionIdValid ==
  \A e \in Endpoint :
    Established(e) => /\ InitiatorNonce(sessionId[e]) # kInvalidNonce
                      /\ ResponderNonce(sessionId[e]) # kInvalidNonce

(* A normal message reaches the application only in the session it was sent *)
(* in: it is from the boot of the peer this session is with, and was sent   *)
(* to this boot.  A request left over from before a reset is never executed.*)
NoStaleDelivery == accepted.from = accepted.wantFrom /\ accepted.to = accepted.wantTo

(* The application's last callback tells whether there is a session: an     *)
(* endpoint does not leave or enter one behind its application's back.      *)
ApplicationInformed == \A e \in Endpoint : Established(e) <=> notified[e] > 0

Places(e) == 1 .. Len(net[e])
IsInit(m, n)  == m.type = "kStartSessionInit" /\ InitiatorNonce(m.sid) = n

(* Nobody waits for a session for ever, also when both ask at once: an      *)
(* endpoint that asked for one gets it or is reset, unless one of the two   *)
(* programs exits (ReceiveBusy), which loses what it was sent, or ties go   *)
(* on for ever.  They can: "ties retry" (ProcessStartSessionInit), but both *)
(* ends then regenerate the same nonce, and their next Inits tie again.     *)
NobodyExits == \A e \in Endpoint : boots[e] > 0 => running[e]
Tied ==
  \E e \in Endpoint :
    state[e] = "kStartSessionSent" /\ \E i \in Places(e) : IsInit(net[e][i], localNonce[e])
NotLeftWaiting ==
  []NobodyExits /\ <>[]~Tied =>
    \A e \in Endpoint : state[e] = "kStartSessionSent" ~> state[e] # "kStartSessionSent"

(* No nonce is used again too early: the nonce a session is started with is *)
(* not in an Init or a Reply that is still on its way.  RegenerateNonce     *)
(* keeps it so between resets; at a reset "Callers should ensure this is    *)
(* different" of the nonce Initialize is given (session.h).                 *)
IsReply(m, n) == m.type = "kStartSessionReply" /\ InitiatorNonce(m.sid) = n
InTransit(e, n) ==
  \/ \E i \in Places(Peer(e)) : IsInit(net[Peer(e)][i], n)
  \/ \E i \in Places(e) : IsReply(net[e][i], n)
FreshStart ==
  \A e \in Endpoint : (\E k \in 0 .. 1 : StartSessionEffect(e, k)) => ~InTransit(e, localNonce'[e])
NoncesFresh == [][FreshStart]_vars
=============================================================================
