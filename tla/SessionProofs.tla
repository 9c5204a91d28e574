---------------------------- MODULE SessionProofs ----------------------------
(***************************************************************************)
(* Whatever nonces the endpoints start from, however often they are reset  *)
(* and whatever crosses on the link, an endpoint in a session has a valid  *)
(* nonce of each side in its session id (SessionSafe).  And what the       *)
(* session layer promises for every number of resets, of calls and of      *)
(* messages on the link, and every nonce:                                  *)
(*   NothingStale  a normal message is given to an application only in the *)
(*                 session, and between the boots, it was sent in;         *)
(*   BothInformed  an application knows whether it is in a session;        *)
(*   NoHalfOpen    once all is read, no endpoint is in a session alone.    *)
(*                                                                         *)
(* These three rest on one hypothesis about the nonces, NoncesFresh: a     *)
(* session is not started with a nonce that a message still on its way     *)
(* carries.  The invariant is about the two links, one at a time:          *)
(* LinkInv(p, e) relates the messages from p to e to what p and e are.  A  *)
(* step of an endpoint takes from one link and sends on the other; there   *)
(* are five kinds of step, and of each it is shown what it keeps of both   *)
(* links.                                                                  *)
(*                                                                         *)
(* The last two are for one side that starts sessions, as in the program,  *)
(* where only the host does.  OneSided says what cannot be on the links    *)
(* then, and WholeSession how the two ends of a session come together.     *)
(***************************************************************************)
EXTENDS Session, TLAPS

(* RegenerateNonce never yields kInvalidNonce; its last step, which skips   *)
(* it, is never needed: the rotated byte plus one is at most 232.           *)
THEOREM NonceValid ==
  ASSUME NEW n \in Nonce
  PROVE  Rotated(n) \in 1 .. 232 /\ RegenerateNonce(n) = Rotated(n)
<1>1. n \div 32 \in 0 .. 7 /\ n % 8 \in 0 .. 7
  BY DEF Nonce
<1>2. (n % 8) * 32 + n \div 32 + 1 \in 1 .. 232
  BY <1>1
<1>3. Rotated(n) \in 1 .. 232
  BY <1>2 DEF Rotated
<1> QED
  BY <1>3 DEF RegenerateNonce, kInvalidNonce

LEMMA NonceType ==
  ASSUME NEW n \in Nonce
  PROVE  RegenerateNonce(n) \in Nonce /\ RegenerateNonce(n) # kInvalidNonce
<1>1. RegenerateNonce(n) \in 1 .. 232
  BY NonceValid
<1> QED
  BY <1>1 DEF Nonce, kInvalidNonce

(* The peer of an endpoint is another endpoint. *)
LEMMA PeerType ==
  ASSUME NEW e \in Endpoint
  PROVE  Peer(e) \in Endpoint /\ Peer(e) # e
<1>1. \E p \in Endpoint : p # e
  BY EndpointAssumption
<1> QED
  BY <1>1 DEF Peer

(* What is sent is a message, and the link holds messages. *)
LEMMA MessageOfType ==
  ASSUME TypeOK, NEW e \in Endpoint, NEW type \in MessageType,
         NEW sid \in SessionId, NEW peer \in Nat
  PROVE  MessageOf(e, type, sid, peer) \in Message
<1>1. <<0, 0>> \in SessionId
  BY DEF SessionId, Nonce
<1>2. Version[e] \in Nat /\ boots[e] \in Nat
  BY ApplicationAssumption DEF TypeOK
<1> QED
  BY <1>1, <1>2 DEF MessageOf, Message

LEMMA NetAfterType ==
  ASSUME TypeOK, NEW e \in Endpoint, NEW k \in 0 .. Len(net[e]), NEW msgs \in Seq(Message)
  PROVE  NetAfter(e, k, msgs) \in [Endpoint -> Seq(Message)]
<1>1. net \in [Endpoint -> Seq(Message)]
  BY DEF TypeOK
<1>2. SubSeq(net[e], k + 1, Len(net[e])) \in Seq(Message)
  BY <1>1
<1>3. net[Peer(e)] \o msgs \in Seq(Message)
  BY <1>1, PeerType
<1> QED
  BY <1>1, <1>2, <1>3, PeerType DEF NetAfter

LEMMA FirstMessage ==
  ASSUME TypeOK, NEW e \in Endpoint, net[e] # <<>>
  PROVE  Head(net[e]) \in Message /\ 1 \in 0 .. Len(net[e])
<1>1. net[e] \in Seq(Message)
  BY DEF TypeOK
<1> QED
  BY <1>1
-----------------------------------------------------------------------------
(* An endpoint that waits for a reply has a nonce the reply can match: this *)
(* is what makes the initiator's half of the id valid.                      *)
WaitingHasNonce ==
  \A e \in Endpoint : state[e] = "kStartSessionSent" => localNonce[e] # kInvalidNonce

IInv == TypeOK /\ SessionIdValid /\ WaitingHasNonce

(* The part of the state the invariant says something about. *)
SessionTypeOK ==
  /\ state \in [Endpoint -> State]
  /\ localNonce \in [Endpoint -> Nonce]
  /\ sessionId \in [Endpoint -> SessionId]
SessionInv == SessionTypeOK /\ SessionIdValid /\ WaitingHasNonce

LEMMA InitIInv == Init => IInv
<1> SUFFICES ASSUME Init PROVE IInv
  OBVIOUS
<1>1. TypeOK
  <2>1. <<0, 0>> \in SessionId /\ kInvalidNonce \in Nonce /\ "kReset" \in State
    BY DEF SessionId, Nonce, kInvalidNonce, State
  <2>2. <<>> \in Seq(Message)
    OBVIOUS
  <2> QED
    BY <2>1, <2>2 DEF Init, TypeOK, NoMessage
<1>2. SessionIdValid /\ WaitingHasNonce
  BY DEF Init, SessionIdValid, Established, WaitingHasNonce
<1> QED
  BY <1>1, <1>2 DEF IInv

(* An endpoint takes a new state, nonce and session id. *)
LEMMA SessionStep ==
  ASSUME SessionInv, NEW e \in Endpoint,
         NEW s \in State, NEW n \in Nonce, NEW sid \in SessionId,
         state' = [state EXCEPT ![e] = s],
         localNonce' = [localNonce EXCEPT ![e] = n],
         sessionId' = [sessionId EXCEPT ![e] = sid],
         s = "kSessionEstablished" => sid[1] # kInvalidNonce /\ sid[2] # kInvalidNonce,
         s = "kStartSessionSent" => n # kInvalidNonce
  PROVE  SessionInv'
<1>1. SessionTypeOK'
  BY DEF SessionInv, SessionTypeOK
<1>2. SessionIdValid'
  BY DEF SessionInv, SessionTypeOK, SessionIdValid, Established, InitiatorNonce, ResponderNonce
<1>3. WaitingHasNonce'
  BY DEF SessionInv, SessionTypeOK, WaitingHasNonce
<1> QED
  BY <1>1, <1>2, <1>3 DEF SessionInv

LEMMA SessionUnchanged ==
  ASSUME SessionInv, UNCHANGED sessionVars
  PROVE  SessionInv'
BY DEF SessionInv, SessionTypeOK, SessionIdValid, Established, WaitingHasNonce, sessionVars

(* The rest of the state. *)
RestTypeOK ==
  /\ complete \in [Endpoint -> BOOLEAN]
  /\ running \in [Endpoint -> BOOLEAN]
  /\ net \in [Endpoint -> Seq(Message)]
  /\ boots \in [Endpoint -> Nat] /\ peerBoot \in [Endpoint -> Nat]
  /\ notified \in [Endpoint -> Nat]
  /\ accepted \in [from : Nat, to : Nat, wantFrom : Nat, wantTo : Nat]
  /\ starts \in Nat /\ terminates \in Nat /\ requests \in Nat /\ logs \in Nat

LEMMA TypeOKParts == TypeOK <=> SessionTypeOK /\ RestTypeOK
BY DEF TypeOK, SessionTypeOK, RestTypeOK

LEMMA IInvParts == IInv <=> SessionInv /\ RestTypeOK
BY TypeOKParts DEF IInv, SessionInv

LEMMA IInvNext ==
  ASSUME SessionInv', RestTypeOK'
  PROVE  IInv'
BY DEF IInv, TypeOK, SessionInv, SessionTypeOK, RestTypeOK

LEMMA BootKeeps ==
  ASSUME IInv, NEW e \in Endpoint, NEW k \in 0 .. Len(net[e]), Boot(e, k)
  PROVE  IInv'
<1> DEFINE msg == [MessageOf(e, "kTerminateSession", <<0, 0>>, 0) EXCEPT !.from = boots'[e]]
<1>0. TypeOK /\ SessionInv /\ RestTypeOK
  BY IInvParts DEF IInv
<1>1. boots'[e] \in Nat /\ boots' \in [Endpoint -> Nat] /\ InitialNonce[e][boots'[e]] \in Nonce
  <2>1. boots[e] \in Nat /\ boots'[e] = boots[e] + 1 /\ boots' \in [Endpoint -> Nat]
    BY <1>0 DEF Boot, RestTypeOK
  <2>2. InitialNonce[e] \in Seq(Nonce) /\ boots[e] < Len(InitialNonce[e])
    BY ApplicationAssumption DEF Boot
  <2> QED
    BY <2>1, <2>2
<1>2. <<0, 0>> \in SessionId /\ "kNoSessionEstablished" \in State
  BY DEF SessionId, Nonce, State
<1>3. SessionInv'
  BY <1>0, <1>1, <1>2, SessionStep DEF Boot
<1>4. msg \in Message
  <2>1. MessageOf(e, "kTerminateSession", <<0, 0>>, 0) \in Message
    BY <1>0, <1>2, MessageOfType DEF MessageType
  <2> QED
    BY <1>1, <2>1 DEF Message
<1>5. net' \in [Endpoint -> Seq(Message)]
  <2>1. net' = NetAfter(e, k, <<msg>>)
    BY DEF Boot
  <2> HIDE DEF msg
  <2>2. <<msg>> \in Seq(Message)
    BY <1>4
  <2> QED
    BY <1>0, <2>1, <2>2, NetAfterType
<1>6. RestTypeOK'
  BY <1>0, <1>1, <1>5 DEF Boot, RestTypeOK, counters
<1> QED
  BY <1>3, <1>6, IInvNext

LEMMA StartEffectKeeps ==
  ASSUME IInv, NEW e \in Endpoint, NEW k \in 0 .. Len(net[e]), StartSessionEffect(e, k)
  PROVE  /\ SessionInv' /\ net' \in [Endpoint -> Seq(Message)]
         /\ peerBoot' \in [Endpoint -> Nat] /\ notified' \in [Endpoint -> Nat]
<1> DEFINE nonce == RegenerateNonce(localNonce[e])
<1>0. TypeOK /\ SessionInv /\ RestTypeOK
  BY IInvParts DEF IInv
<1>1. nonce \in Nonce /\ nonce # kInvalidNonce
  BY <1>0, NonceType DEF TypeOK
<1>2. <<nonce, 0>> \in SessionId /\ "kStartSessionSent" \in State
  BY <1>1 DEF SessionId, Nonce, State
<1>3. SessionInv'
  <2> HIDE DEF nonce
  <2>1. /\ state' = [state EXCEPT ![e] = "kStartSessionSent"]
        /\ localNonce' = [localNonce EXCEPT ![e] = nonce]
        /\ sessionId' = [sessionId EXCEPT ![e] = <<nonce, 0>>]
    BY DEF StartSessionEffect, nonce
  <2> QED
    BY <1>0, <1>1, <1>2, <2>1, SessionStep
<1>4. MessageOf(e, "kStartSessionInit", <<nonce, 0>>, 0) \in Message
  BY <1>0, <1>2, MessageOfType DEF MessageType
<1>5. net' \in [Endpoint -> Seq(Message)]
  BY <1>0, <1>4, NetAfterType DEF StartSessionEffect
<1>6. peerBoot' \in [Endpoint -> Nat] /\ notified' \in [Endpoint -> Nat]
  BY <1>0 DEF StartSessionEffect, RestTypeOK
<1> QED
  BY <1>3, <1>5, <1>6

LEMMA ReplyKeeps ==
  ASSUME IInv, NEW e \in Endpoint, NEW m \in Message, NEW c \in Nat,
         1 \in 0 .. Len(net[e]), InitiatorNonce(m.sid) # kInvalidNonce,
         SendSessionStartReply(e, m, c)
  PROVE  /\ SessionInv' /\ net' \in [Endpoint -> Seq(Message)]
         /\ peerBoot' \in [Endpoint -> Nat] /\ notified' \in [Endpoint -> Nat]
<1> DEFINE nonce == RegenerateNonce(localNonce[e])
           sid   == <<InitiatorNonce(m.sid), nonce>>
<1>0. TypeOK /\ SessionInv /\ RestTypeOK
  BY IInvParts DEF IInv
<1>1. nonce \in Nonce /\ nonce # kInvalidNonce
  BY <1>0, NonceType DEF TypeOK
<1>2. sid \in SessionId /\ sid[1] # kInvalidNonce /\ sid[2] # kInvalidNonce
  <2>1. InitiatorNonce(m.sid) \in Nonce
    BY DEF Message, SessionId, InitiatorNonce
  <2> QED
    BY <1>1, <2>1 DEF SessionId
<1>3. SessionInv'
  <2>1. /\ state' = [state EXCEPT ![e] = "kSessionEstablished"]
        /\ localNonce' = [localNonce EXCEPT ![e] = nonce]
        /\ sessionId' = [sessionId EXCEPT ![e] = sid]
    BY DEF SendSessionStartReply
  <2>2. "kSessionEstablished" \in State
    BY DEF State
  <2> HIDE DEF nonce, sid
  <2> QED
    BY <1>0, <1>1, <1>2, <2>1, <2>2, SessionStep
<1>4. MessageOf(e, "kStartSessionReply", sid, m.from) \in Message
  BY <1>0, <1>2, MessageOfType DEF MessageType, Message
<1>5. net' \in [Endpoint -> Seq(Message)]
  BY <1>0, <1>4, NetAfterType DEF SendSessionStartReply
<1>6. peerBoot' \in [Endpoint -> Nat] /\ notified' \in [Endpoint -> Nat]
  BY <1>0 DEF SendSessionStartReply, RestTypeOK, Message
<1> QED
  BY <1>3, <1>5, <1>6

LEMMA IgnoreKeeps ==
  ASSUME IInv, NEW e \in Endpoint, 1 \in 0 .. Len(net[e]), Ignore(e) \/ GoToReset(e)
  PROVE  /\ SessionInv' /\ net' \in [Endpoint -> Seq(Message)]
         /\ peerBoot' \in [Endpoint -> Nat] /\ notified' \in [Endpoint -> Nat]
<1>0. TypeOK /\ SessionInv /\ RestTypeOK
  BY IInvParts DEF IInv
<1>1. net' \in [Endpoint -> Seq(Message)]
  <2>1. <<>> \in Seq(Message)
    OBVIOUS
  <2>2. net' = NetAfter(e, 1, <<>>)
    BY DEF Ignore, GoToReset
  <2>3. NetAfter(e, 1, <<>>) \in [Endpoint -> Seq(Message)]
    BY <1>0, <2>1, NetAfterType
  <2> QED
    BY <2>2, <2>3
<1>2. CASE Ignore(e)
  BY <1>0, <1>1, <1>2, SessionUnchanged DEF Ignore, RestTypeOK
<1>3. CASE GoToReset(e)
  <2>1. /\ state' = [state EXCEPT ![e] = "kReset"] /\ UNCHANGED <<localNonce, sessionId>>
        /\ "kReset" \in State
    BY <1>3 DEF GoToReset, State
  <2>2. SessionInv'
    BY <1>0, <2>1
    DEF SessionInv, SessionTypeOK, SessionIdValid, Established, WaitingHasNonce
  <2> QED
    BY <1>0, <1>1, <1>3, <2>2 DEF GoToReset, RestTypeOK
<1> QED
  BY <1>2, <1>3

(* One step of each kind. *)
LEMMA StartSessionKeeps ==
  ASSUME IInv, NEW e \in Endpoint, StartSession(e)
  PROVE  IInv'
<1>0. TypeOK /\ SessionInv /\ RestTypeOK
  BY IInvParts DEF IInv
<1>1. CASE state[e] = "kReset"
  <2>1. UNCHANGED sessionVars
    BY <1>1 DEF StartSession
  <2>2. starts' \in Nat
    BY <1>0 DEF StartSession, RestTypeOK
  <2>3. RestTypeOK'
    BY <1>0, <1>1, <2>2 DEF StartSession, RestTypeOK
  <2> QED
    BY <1>0, <2>1, <2>3, SessionUnchanged, IInvNext
<1>2. CASE state[e] # "kReset"
  <2>1. StartSessionEffect(e, 0) /\ UNCHANGED running
    BY <1>2 DEF StartSession
  <2>2. 0 \in 0 .. Len(net[e])
    <3>1. net[e] \in Seq(Message)
      BY <1>0 DEF RestTypeOK
    <3> QED
      BY <3>1
  <2>3. RestTypeOK'
    BY <1>0, <2>1, <2>2, StartEffectKeeps DEF StartSession, RestTypeOK
  <2> QED
    BY <2>1, <2>2, <2>3, StartEffectKeeps, IInvNext
<1> QED
  BY <1>1, <1>2

(* A step that sends one message and leaves the session alone. *)
LEMMA SendType ==
  ASSUME IInv, NEW e \in Endpoint, NEW type \in MessageType, NEW sid \in SessionId,
         NEW peer \in Nat
  PROVE  NetAfter(e, 0, <<MessageOf(e, type, sid, peer)>>) \in [Endpoint -> Seq(Message)]
<1> DEFINE msg == MessageOf(e, type, sid, peer)
<1>1. TypeOK
  BY DEF IInv
<1>2. msg \in Message
  BY <1>1, MessageOfType
<1>3. 0 \in 0 .. Len(net[e])
  <2>1. net[e] \in Seq(Message)
    BY <1>1 DEF TypeOK
  <2> QED
    BY <2>1
<1> HIDE DEF msg
<1>4. <<msg>> \in Seq(Message)
  BY <1>2
<1>5. NetAfter(e, 0, <<msg>>) \in [Endpoint -> Seq(Message)]
  BY <1>1, <1>3, <1>4, NetAfterType
<1> QED
  BY <1>5 DEF msg

LEMMA ApplicationKeeps ==
  ASSUME IInv, NEW e \in Endpoint, TerminateSession(e) \/ SendRequest(e) \/ SendLog(e)
  PROVE  IInv'
<1>0. TypeOK /\ SessionInv /\ RestTypeOK
  BY IInvParts DEF IInv
<1>1. <<0, 0>> \in SessionId /\ sessionId[e] \in SessionId /\ peerBoot[e] \in Nat
  BY <1>0 DEF SessionId, Nonce, TypeOK
<1>2. CASE TerminateSession(e)
  <2>1. net' \in [Endpoint -> Seq(Message)]
    BY <1>1, <1>2, SendType DEF TerminateSession, MessageType
  <2>2. localNonce' = [localNonce EXCEPT ![e] = localNonce[e]] /\ localNonce[e] \in Nonce
    BY <1>0, <1>2 DEF TerminateSession, TypeOK
  <2>3. SessionInv'
    BY <1>0, <1>1, <1>2, <2>2, SessionStep DEF TerminateSession, State
  <2>4. notified' \in [Endpoint -> Nat] /\ terminates' \in Nat
    BY <1>0, <1>2 DEF TerminateSession, RestTypeOK
  <2>5. RestTypeOK'
    BY <1>0, <1>2, <2>1, <2>4 DEF TerminateSession, RestTypeOK
  <2> QED
    BY <2>3, <2>5, IInvNext
<1>3. CASE SendRequest(e) \/ SendLog(e)
  <2>1. net' \in [Endpoint -> Seq(Message)]
    BY <1>1, <1>3, SendType DEF SendRequest, SendLog, MessageType
  <2>2. requests' \in Nat /\ logs' \in Nat
    <3>1. requests \in Nat /\ logs \in Nat
      BY <1>0 DEF RestTypeOK
    <3>2. requests' \in {requests, requests + 1}
      BY <1>3 DEF SendRequest, SendLog
    <3>3. logs' \in {logs, logs + 1}
      BY <1>3 DEF SendRequest, SendLog
    <3> QED
      BY <3>1, <3>2, <3>3
  <2>3. RestTypeOK'
    BY <1>0, <1>3, <2>1, <2>2 DEF SendRequest, SendLog, RestTypeOK, ghostVars
  <2> QED
    BY <1>0, <1>3, <2>3, SessionUnchanged, IInvNext DEF SendRequest, SendLog
<1> QED
  BY <1>2, <1>3

(* The two start messages change the session; the rest they leave alone.    *)
LEMMA RestKept ==
  ASSUME RestTypeOK, net' \in [Endpoint -> Seq(Message)],
         peerBoot' \in [Endpoint -> Nat], notified' \in [Endpoint -> Nat],
         UNCHANGED <<complete, running, boots, accepted, counters>>
  PROVE  RestTypeOK'
BY DEF RestTypeOK, counters

LEMMA InitMessageKeeps ==
  ASSUME IInv, NEW e \in Endpoint, ProcessStartSessionInit(e)
  PROVE  IInv'
<1> DEFINE m == Head(net[e])
<1>0. TypeOK /\ RestTypeOK
  BY IInvParts DEF IInv
<1>1. m \in Message /\ 1 \in 0 .. Len(net[e])
  BY <1>0, FirstMessage DEF ProcessStartSessionInit, Received
<1>2. \/ Ignore(e)
      \/ InitiatorNonce(m.sid) # kInvalidNonce /\ SendSessionStartReply(e, m, 1)
      \/ InitiatorNonce(m.sid) # kInvalidNonce /\ SendSessionStartReply(e, m, 2)
      \/ StartSessionEffect(e, 1)
  <2> HIDE DEF m
  <2>1. InitiatorNonce(m.sid) = kInvalidNonce => Ignore(e)
    BY DEF ProcessStartSessionInit, m
  <2>2. InitiatorNonce(m.sid) # kInvalidNonce =>
          \/ CrossedInit(e, m) \/ SendSessionStartReply(e, m, 2) \/ SendSessionStartReply(e, m, 1)
    BY DEF ProcessStartSessionInit, m
  <2>3. CrossedInit(e, m) =>
          SendSessionStartReply(e, m, 1) \/ StartSessionEffect(e, 1) \/ Ignore(e)
    BY DEF CrossedInit
  <2> QED
    BY <2>1, <2>2, <2>3
<1>3. /\ SessionInv' /\ net' \in [Endpoint -> Seq(Message)]
      /\ peerBoot' \in [Endpoint -> Nat] /\ notified' \in [Endpoint -> Nat]
  <2> HIDE DEF m
  <2>1. CASE Ignore(e)
    BY <1>1, <2>1, IgnoreKeeps
  <2>2. CASE InitiatorNonce(m.sid) # kInvalidNonce /\ SendSessionStartReply(e, m, 1)
    BY <1>1, <2>2, ReplyKeeps
  <2>3. CASE InitiatorNonce(m.sid) # kInvalidNonce /\ SendSessionStartReply(e, m, 2)
    BY <1>1, <2>3, ReplyKeeps
  <2>4. CASE StartSessionEffect(e, 1)
    BY <1>1, <2>4, StartEffectKeeps
  <2> QED
    BY <1>2, <2>1, <2>2, <2>3, <2>4
<1>4. RestTypeOK'
  BY <1>0, <1>3, RestKept DEF ProcessStartSessionInit
<1> QED
  BY <1>3, <1>4, IInvNext

LEMMA ReplyMessageKeeps ==
  ASSUME IInv, NEW e \in Endpoint, ProcessStartSessionReply(e)
  PROVE  IInv'
<1> DEFINE m == Head(net[e])
           Accept ==
             /\ ResponderNonce(m.sid) # kInvalidNonce /\ state[e] = "kStartSessionSent"
             /\ sessionId' = [sessionId EXCEPT ![e] = <<localNonce[e], ResponderNonce(m.sid)>>]
             /\ state' = [state EXCEPT ![e] = "kSessionEstablished"]
             /\ notified' = [notified EXCEPT ![e] = 1]
             /\ peerBoot' = [peerBoot EXCEPT ![e] = m.from]
             /\ net' = NetAfter(e, 1, <<>>)
             /\ UNCHANGED localNonce
<1>0. TypeOK /\ SessionInv /\ RestTypeOK
  BY IInvParts DEF IInv
<1>1. m \in Message /\ 1 \in 0 .. Len(net[e])
  BY <1>0, FirstMessage DEF ProcessStartSessionReply, Received
<1>2. Ignore(e) \/ GoToReset(e) \/ Accept
  BY DEF ProcessStartSessionReply
<1>3. CASE Accept
  <2>1. /\ state' = [state EXCEPT ![e] = "kSessionEstablished"]
        /\ localNonce' = [localNonce EXCEPT ![e] = localNonce[e]]
        /\ sessionId' = [sessionId EXCEPT ![e] = <<localNonce[e], ResponderNonce(m.sid)>>]
        /\ "kSessionEstablished" \in State
    BY <1>0, <1>3 DEF State, TypeOK
  <2>2. /\ localNonce[e] \in Nonce /\ localNonce[e] # kInvalidNonce
        /\ ResponderNonce(m.sid) \in Nonce /\ ResponderNonce(m.sid) # kInvalidNonce
    BY <1>0, <1>1, <1>3
    DEF SessionInv, SessionTypeOK, WaitingHasNonce, Message, SessionId, ResponderNonce
  <2>3. <<localNonce[e], ResponderNonce(m.sid)>> \in SessionId
    BY <2>2 DEF SessionId
  <2>4. SessionInv'
    <3> HIDE DEF m
    <3> QED
      BY <1>0, <2>1, <2>2, <2>3, SessionStep
  <2>5. net' \in [Endpoint -> Seq(Message)]
    <3>1. <<>> \in Seq(Message)
      OBVIOUS
    <3> QED
      BY <1>0, <1>1, <1>3, <3>1, NetAfterType
  <2>6. peerBoot' \in [Endpoint -> Nat] /\ notified' \in [Endpoint -> Nat]
    BY <1>0, <1>1, <1>3 DEF RestTypeOK, Message
  <2>7. RestTypeOK'
    BY <1>0, <2>5, <2>6, RestKept DEF ProcessStartSessionReply
  <2> QED
    BY <2>4, <2>7, IInvNext
<1>4. CASE Ignore(e) \/ GoToReset(e)
  <2>1. /\ SessionInv' /\ net' \in [Endpoint -> Seq(Message)]
        /\ peerBoot' \in [Endpoint -> Nat] /\ notified' \in [Endpoint -> Nat]
    BY <1>1, <1>4, IgnoreKeeps
  <2>2. RestTypeOK'
    BY <1>0, <2>1, RestKept DEF ProcessStartSessionReply
  <2> QED
    BY <2>1, <2>2, IInvNext
<1> QED
  BY <1>2, <1>3, <1>4

LEMMA TerminateMessageKeeps ==
  ASSUME IInv, NEW e \in Endpoint, ProcessTerminateSession(e)
  PROVE  IInv'
<1>0. TypeOK /\ SessionInv /\ RestTypeOK
  BY IInvParts DEF IInv
<1>1. net' \in [Endpoint -> Seq(Message)]
  <2>1. <<>> \in Seq(Message)
    OBVIOUS
  <2>2. 1 \in 0 .. Len(net[e])
    BY <1>0, FirstMessage DEF ProcessTerminateSession, Received
  <2> QED
    BY <1>0, <2>1, <2>2, NetAfterType DEF ProcessTerminateSession
<1>2. notified' \in [Endpoint -> Nat] /\ peerBoot' \in [Endpoint -> Nat]
  <2>1. notified' = notified \/ notified' = [notified EXCEPT ![e] = 0]
    BY DEF ProcessTerminateSession
  <2>2. notified \in [Endpoint -> Nat] /\ peerBoot' \in [Endpoint -> Nat]
    BY <1>0 DEF RestTypeOK, ProcessTerminateSession
  <2>3. [notified EXCEPT ![e] = 0] \in [Endpoint -> Nat]
    BY <2>2
  <2> QED
    BY <2>1, <2>2, <2>3
<1>3. RestTypeOK'
  BY <1>0, <1>1, <1>2, RestKept DEF ProcessTerminateSession
<1>4. SessionInv'
  <2>1. state' \in {state, [state EXCEPT ![e] = "kNoSessionEstablished"]}
    BY DEF ProcessTerminateSession
  <2>2. UNCHANGED <<localNonce, sessionId>>
    BY DEF ProcessTerminateSession
  <2> QED
    BY <1>0, <2>1, <2>2
    DEF SessionInv, SessionTypeOK, State, SessionIdValid, Established, WaitingHasNonce
<1> QED
  BY <1>3, <1>4, IInvNext

(* Logs, normal messages and refused ones do not touch the session. *)
LEMMA OtherMessageKeeps ==
  ASSUME IInv, NEW e \in Endpoint, ProcessLog(e) \/ ProcessNormal(e) \/ ReceiveBusy(e)
  PROVE  IInv'
<1>0. TypeOK /\ SessionInv /\ RestTypeOK
  BY IInvParts DEF IInv
<1>1. SessionInv'
  BY <1>0, SessionUnchanged DEF ProcessLog, ProcessNormal, ReceiveBusy
<1>2. Head(net[e]) \in Message /\ 1 \in 0 .. Len(net[e])
  BY <1>0, FirstMessage DEF ProcessLog, ProcessNormal, ReceiveBusy, Received
<1>3. /\ NetAfter(e, 1, <<>>) \in [Endpoint -> Seq(Message)]
      /\ \A type \in MessageType, sid \in SessionId, peer \in Nat :
           NetAfter(e, 1, <<MessageOf(e, type, sid, peer)>>) \in [Endpoint -> Seq(Message)]
  <2>1. <<>> \in Seq(Message)
    OBVIOUS
  <2>2. \A x \in Message : <<x>> \in Seq(Message)
    OBVIOUS
  <2>3. \A msgs \in Seq(Message) : NetAfter(e, 1, msgs) \in [Endpoint -> Seq(Message)]
    BY <1>0, <1>2, NetAfterType
  <2>4. \A type \in MessageType, sid \in SessionId, peer \in Nat :
          MessageOf(e, type, sid, peer) \in Message
    BY <1>0, MessageOfType
  <2> QED
    BY <2>1, <2>2, <2>3, <2>4
<1>4. /\ "kLog" \in MessageType /\ "kNormal" \in MessageType /\ <<0, 0>> \in SessionId
      /\ sessionId[e] \in SessionId /\ peerBoot[e] \in Nat /\ boots[e] \in Nat
  BY <1>0 DEF MessageType, SessionId, Nonce, TypeOK
<1>5. net' \in [Endpoint -> Seq(Message)]
  <2>1. CASE ProcessLog(e)
    BY <1>3, <2>1 DEF ProcessLog
  <2>2. CASE ReceiveBusy(e)
    BY <1>3, <1>4, <2>2 DEF ReceiveBusy
  <2>3. CASE ProcessNormal(e)
    <3>1. \/ net' = NetAfter(e, 1, <<>>)
          \/ net' = NetAfter(e, 1, <<MessageOf(e, "kNormal", sessionId[e], peerBoot[e])>>)
      BY <2>3 DEF ProcessNormal
    <3> QED
      BY <1>3, <1>4, <3>1
  <2> QED
    BY <2>1, <2>2, <2>3
<1>6. accepted' \in [from : Nat, to : Nat, wantFrom : Nat, wantTo : Nat]
  <2> DEFINE m == Head(net[e])
  <2>1. m.from \in Nat /\ m.to \in Nat
    BY <1>2 DEF Message
  <2>2. \/ accepted' = accepted
        \/ accepted' = [from |-> m.from, to |-> m.to, wantFrom |-> peerBoot[e], wantTo |-> boots[e]]
    BY DEF ProcessLog, ProcessNormal, ReceiveBusy, ghostVars
  <2> HIDE DEF m
  <2> QED
    BY <1>0, <1>4, <2>1, <2>2 DEF RestTypeOK
<1>7. /\ complete' \in [Endpoint -> BOOLEAN]
      /\ running' \in [Endpoint -> BOOLEAN]
  <2>1. \A f \in [Endpoint -> BOOLEAN], b \in BOOLEAN : [f EXCEPT ![e] = b] \in [Endpoint -> BOOLEAN]
    OBVIOUS
  <2> QED
    BY <1>0, <2>1 DEF ProcessLog, ProcessNormal, ReceiveBusy, HandOver, RestTypeOK
<1>8. UNCHANGED <<boots, peerBoot, notified, counters>>
  BY DEF ProcessLog, ProcessNormal, ReceiveBusy, ghostVars
<1>9. RestTypeOK'
  BY <1>0, <1>5, <1>6, <1>7, <1>8 DEF RestTypeOK, counters
<1> QED
  BY <1>1, <1>9, IInvNext

LEMMA StepKeepsIInv == IInv /\ [Next]_vars => IInv'
<1> SUFFICES ASSUME IInv, [Next]_vars PROVE IInv'
  OBVIOUS
<1>1. CASE UNCHANGED vars
  BY <1>1
  DEF IInv, TypeOK, SessionIdValid, Established, WaitingHasNonce, vars, sessionVars,
      ghostVars, counters
<1>2. CASE Next
  BY <1>2, BootKeeps, StartSessionKeeps, ApplicationKeeps, InitMessageKeeps, ReplyMessageKeeps,
     TerminateMessageKeeps, OtherMessageKeeps
  DEF Next, Application, Receive
<1> QED
  BY <1>1, <1>2

(* The session layer is type correct and, in a session, the id has a valid  *)
(* nonce of each side: the half of it that an endpoint leaves zero while it *)
(* waits never counts as agreed.                                            *)
THEOREM SessionSafe == Spec => [](TypeOK /\ SessionIdValid)
<1>1. IInv => TypeOK /\ SessionIdValid
  BY DEF IInv
<1> QED
  BY InitIInv, StepKeepsIInv, <1>1, PTL DEF Spec

-----------------------------------------------------------------------------
(* An endpoint that runs and is in a session, or waits for one. *)
InSessionNow(e) == running[e] /\ Established(e)
Waiting(e) == running[e] /\ state[e] = "kStartSessionSent"

(* The messages that change a session. *)
SessionType == {"kStartSessionInit", "kStartSessionReply", "kTerminateSession"}
IsSession(m) == m.type \in SessionType

(* i is the last of the messages to e that changes a session. *)
LastSession(e, i) == IsSession(net[e][i]) /\ \A j \in Places(e) : j > i => ~IsSession(net[e][j])
NoSessionBefore(e, j) == \A i \in Places(e) : i < j => ~IsSession(net[e][i])
NoSession(e) == \A i \in Places(e) : ~IsSession(net[e][i])

(* The nonce of an Init is valid, and so is the responder's of a Reply. *)
NoncesValid(p, e) ==
  \A i \in Places(e) :
    /\ net[e][i].type = "kStartSessionInit" => InitiatorNonce(net[e][i].sid) # kInvalidNonce
    /\ net[e][i].type = "kStartSessionReply" => ResponderNonce(net[e][i].sid) # kInvalidNonce

(* The messages of each boot of p begin with its kTerminateSession. *)
BootsInOrder(p, e) ==
  /\ \A i \in Places(e) : i + 1 \in Places(e) /\ net[e][i].from # net[e][i + 1].from
       => net[e][i + 1].type = "kTerminateSession"
  /\ Len(net[e]) > 0 => net[e][Len(net[e])].from = boots[p]

(* What e finds next is from the boot of p its session is with. *)
NextFromSession(p, e) ==
  InSessionNow(e) =>
    /\ Len(net[e]) > 0 => net[e][1].from = peerBoot[e] \/ net[e][1].type = "kTerminateSession"
    /\ Len(net[e]) = 0 => boots[p] = peerBoot[e]

LastSent(p, e) ==
  /\ Waiting(p) => \A i \in Places(e) : LastSession(e, i) => IsInit(net[e][i], localNonce[p])
  /\ InSessionNow(p) => \A i \in Places(e) : LastSession(e, i) =>
       net[e][i].type = "kStartSessionReply" /\ net[e][i].to = peerBoot[p]

OneInit(p, e) ==
  Waiting(p) => \A i \in Places(e) : IsInit(net[e][i], localNonce[p]) =>
    /\ net[e][i].from = boots[p]
    /\ LastSession(e, i)
    /\ \A j \in Places(p) : ~IsReply(net[p][j], localNonce[p])

ReplyToThis(p, e) ==
  Waiting(p) => \A j \in Places(p) : IsReply(net[p][j], localNonce[p]) => net[p][j].to = boots[p]

NormalAfterReply(p, e) ==
  \A i, j \in Places(e) :
    /\ i < j /\ IsSession(net[e][i]) /\ net[e][j].type = "kNormal"
    /\ \A h \in Places(e) : i < h /\ h < j => ~IsSession(net[e][h])
    => net[e][i].type = "kStartSessionReply" /\ net[e][j].to = net[e][i].to

Agreed(p, e) ==
  InSessionNow(e) /\ NoSession(e) =>
    /\ InSessionNow(p) => peerBoot[p] = boots[e]
    /\ Waiting(p) => \A j \in Places(p) : IsReply(net[p][j], localNonce[p]) => net[p][j].from = boots[e]

NormalForThis(p, e) ==
  InSessionNow(e) => \A j \in Places(e) : net[e][j].type = "kNormal" /\ NoSessionBefore(e, j)
    => net[e][j].to = boots[e]

LinkInv(p, e) ==
  /\ NoncesValid(p, e) /\ BootsInOrder(p, e) /\ NextFromSession(p, e) /\ LastSent(p, e)
  /\ OneInit(p, e) /\ ReplyToThis(p, e) /\ NormalAfterReply(p, e) /\ Agreed(p, e)
  /\ NormalForThis(p, e)
LinksInv == \A p \in Endpoint : LinkInv(p, Peer(p))


-----------------------------------------------------------------------------
(* A step of an endpoint a, seen from the two links: it takes the first k   *)
(* of its messages and sends at most one to its peer b, whose own state     *)
(* stays as it is.                                                          *)
Takes(a, k) ==
  /\ Len(net[a]) \in Nat /\ k \in 0 .. Len(net[a])
  /\ Len(net'[a]) = Len(net[a]) - k
  /\ \A i \in 1 .. Len(net[a]) - k : net'[a][i] = net[a][i + k]

Sends(b, m) ==
  /\ Len(net[b]) \in Nat
  /\ Len(net'[b]) = Len(net[b]) + 1
  /\ \A i \in 1 .. Len(net[b]) : net'[b][i] = net[b][i]
  /\ net'[b][Len(net[b]) + 1] = m

SendsNothing(b) == Len(net[b]) \in Nat /\ net'[b] = net[b]

PeerKept(b) ==
  /\ state'[b] = state[b] /\ sessionId'[b] = sessionId[b] /\ running'[b] = running[b]
  /\ InSessionNow(b)' <=> InSessionNow(b)
  /\ Waiting(b)' <=> Waiting(b)
  /\ localNonce'[b] = localNonce[b] /\ boots'[b] = boots[b] /\ peerBoot'[b] = peerBoot[b]

(* The kinds of step.  A quiet one leaves the session as it is, or leaves   *)
(* it; it sends nothing, or a log or normal message.  Who waits for a reply *)
(* and finds it takes it, or exits.                                         *)
QuietState(a, k) ==
  /\ running[a] /\ sessionId'[a] = sessionId[a]
  /\ \/ state'[a] = state[a]
     \/ /\ k = 1 /\ IsSession(net[a][1])
        /\ Established(a) /\ state'[a] \in {"kReset", "kNoSessionEstablished"}
  /\ k = 1 /\ Waiting(a) /\ IsReply(net[a][1], localNonce[a]) /\ net[a][1].version = Version[a]
       => ~running'[a]
QuietStep(a, b, k, m, sent) ==
  /\ QuietState(a, k)
  /\ Takes(a, k) /\ PeerKept(b) /\ IF sent THEN Sends(b, m) ELSE SendsNothing(b)
  /\ k \in 0 .. 1
  /\ boots'[a] = boots[a] /\ localNonce'[a] = localNonce[a]
  /\ InSessionNow(a)' => /\ InSessionNow(a) /\ peerBoot'[a] = peerBoot[a]
                         /\ k = 1 => ~IsSession(net[a][1])
  /\ Waiting(a)' => Waiting(a)
  /\ sent => /\ m.from = boots[a]
             /\ \/ m.type = "kLog"
                \/ m.type = "kNormal" /\ InSessionNow(a) /\ m.to = peerBoot[a]

(* A boot or a call of TerminateSession. *)
StopStep(a, b, k, m) ==
  /\ Takes(a, k) /\ PeerKept(b) /\ Sends(b, m)
  /\ ~InSessionNow(a)' /\ ~Waiting(a)' /\ state'[a] = "kNoSessionEstablished"
  /\ m.type = "kTerminateSession" /\ m.from = boots'[a]

StartStep(a, b, k, m) ==
  /\ Takes(a, k) /\ PeerKept(b) /\ Sends(b, m)
  /\ ~InSessionNow(a)' /\ Waiting(a)' /\ boots'[a] = boots[a]
  /\ IsInit(m, localNonce'[a]) /\ localNonce'[a] # kInvalidNonce /\ m.from = boots[a]
  /\ \A i \in Places(b) : ~IsInit(net[b][i], localNonce'[a])
  /\ \A i \in Places(a) : ~IsReply(net[a][i], localNonce'[a])

ReplyStep(a, b, m) ==
  /\ Takes(a, 1) /\ PeerKept(b) /\ Sends(b, m)
  /\ net[a][1].type = "kStartSessionInit"
  /\ ~Waiting(a)' /\ boots'[a] = boots[a] /\ peerBoot'[a] = net[a][1].from
  /\ IsReply(m, InitiatorNonce(net[a][1].sid)) /\ ResponderNonce(m.sid) # kInvalidNonce
  /\ m.from = boots[a] /\ m.to = net[a][1].from
  /\ InSessionNow(a)' /\ sessionId'[a] = m.sid /\ m.version = Version[a]

AcceptStep(a, b) ==
  /\ Takes(a, 1) /\ PeerKept(b) /\ SendsNothing(b)
  /\ IsReply(net[a][1], localNonce[a]) /\ Waiting(a)
  /\ ~Waiting(a)' /\ boots'[a] = boots[a] /\ peerBoot'[a] = net[a][1].from
  /\ InSessionNow(a)' /\ sessionId'[a] = net[a][1].sid

-----------------------------------------------------------------------------
(* What every step keeps of the link to a, from which it takes.             *)
LEMMA TakenLink ==
  ASSUME NEW a, NEW b, NEW k, Takes(a, k), PeerKept(b), LinkInv(b, a)
  PROVE  /\ NoncesValid(b, a)' /\ BootsInOrder(b, a)' /\ LastSent(b, a)' /\ NormalAfterReply(b, a)'
<1>0. /\ Len(net[a]) \in Nat /\ k \in Nat /\ Len(net'[a]) = Len(net[a]) - k
      /\ Places(a)' = 1 .. Len(net[a]) - k
      /\ \A i \in Places(a)' : i \in Nat /\ i + k \in Places(a) /\ net'[a][i] = net[a][i + k]
  BY DEF Takes, Places
<1>1. NoncesValid(b, a)'
  <2>1. \A i \in Places(a)' : i + k \in Places(a) /\ net'[a][i] = net[a][i + k]
    BY <1>0
  <2>2. NoncesValid(b, a)
    BY DEF LinkInv
  <2> QED
    BY <2>1, <2>2 DEF NoncesValid
<1>2. BootsInOrder(b, a)'
  <2>1. ASSUME NEW i \in Places(a)', i + 1 \in Places(a)', net'[a][i].from # net'[a][i + 1].from
        PROVE  net'[a][i + 1].type = "kTerminateSession"
    <3>1. (i + 1) + k = (i + k) + 1 /\ i + k \in Places(a) /\ (i + k) + 1 \in Places(a)
      BY <1>0, <2>1
    <3>2. net'[a][i] = net[a][i + k] /\ net'[a][i + 1] = net[a][(i + k) + 1]
      BY <1>0, <2>1, <3>1
    <3>3. net[a][i + k].from # net[a][(i + k) + 1].from
      BY <2>1, <3>2
    <3>4. BootsInOrder(b, a)
      BY DEF LinkInv
    <3>5. net[a][(i + k) + 1].type = "kTerminateSession"
      BY <3>1, <3>3, <3>4 DEF BootsInOrder
    <3> QED
      BY <3>2, <3>5
  <2>2. ASSUME Len(net'[a]) > 0
        PROVE  net'[a][Len(net'[a])].from = boots'[b]
    <3>1. Len(net'[a]) \in Places(a)' /\ Len(net'[a]) + k = Len(net[a]) /\ Len(net[a]) > 0
      <4>1. \A x \in Nat, y \in Nat, z \in Int : z = x - y /\ z > 0 => z \in 1 .. x - y /\ z + y = x /\ x > 0
        OBVIOUS
      <4> QED
        BY <1>0, <2>2, <4>1
    <3>2. net'[a][Len(net'[a])] = net[a][Len(net[a])] /\ Len(net[a]) > 0
      BY <1>0, <3>1
    <3> QED
      BY <3>2 DEF LinkInv, BootsInOrder, PeerKept
  <2> QED
    BY <2>1, <2>2 DEF BootsInOrder
<1>3. \A i \in Places(a)' : LastSession(a, i)' => i + k \in Places(a) /\ LastSession(a, i + k)
  <2> SUFFICES ASSUME NEW i \in Places(a)', LastSession(a, i)'
               PROVE  i + k \in Places(a) /\ LastSession(a, i + k)
    OBVIOUS
  <2>1. i + k \in Places(a) /\ IsSession(net[a][i + k])
    BY <1>0 DEF LastSession, IsSession
  <2>2. ASSUME NEW j \in Places(a), j > i + k
        PROVE  ~IsSession(net[a][j])
    <3>1. j - k \in Places(a)' /\ j - k > i /\ (j - k) + k = j
      BY <1>0, <2>2 DEF Places
    <3>2. net'[a][j - k] = net[a][j]
      BY <1>0, <3>1
    <3> QED
      BY <3>1, <3>2 DEF LastSession, IsSession
  <2> QED
    BY <2>1, <2>2 DEF LastSession
<1>4. LastSent(b, a)'
  BY <1>0, <1>3 DEF LinkInv, LastSent, PeerKept, IsInit
<1>5. NormalAfterReply(b, a)'
  <2> SUFFICES ASSUME NEW i \in Places(a)', NEW j \in Places(a)', i < j,
                      IsSession(net'[a][i]), net'[a][j].type = "kNormal",
                      \A h \in Places(a)' : i < h /\ h < j => ~IsSession(net'[a][h])
               PROVE  net'[a][i].type = "kStartSessionReply" /\ net'[a][j].to = net'[a][i].to
    BY DEF NormalAfterReply, IsSession
  <2>1. /\ i + k \in Places(a) /\ j + k \in Places(a) /\ i + k < j + k
        /\ net'[a][i] = net[a][i + k] /\ net'[a][j] = net[a][j + k]
    BY <1>0
  <2>2. ASSUME NEW h \in Places(a), i + k < h, h < j + k
        PROVE  ~IsSession(net[a][h])
    <3>1. h - k \in Places(a)' /\ i < h - k /\ h - k < j /\ (h - k) + k = h
      BY <1>0, <2>2 DEF Places
    <3> QED
      BY <1>0, <3>1
  <2> QED
    BY <2>1, <2>2 DEF LinkInv, NormalAfterReply
<1> QED
  BY <1>1, <1>2, <1>4, <1>5

(* The facts about the two queues the next lemmas use. *)
LEMMA TakenQueue ==
  ASSUME NEW a, NEW k, Takes(a, k)
  PROVE  /\ Len(net[a]) \in Nat /\ k \in Nat /\ Len(net'[a]) = Len(net[a]) - k
         /\ Places(a)' = 1 .. Len(net[a]) - k
         /\ \A i \in Places(a)' : i \in Nat /\ i + k \in Places(a) /\ net'[a][i] = net[a][i + k]
BY DEF Takes, Places

LEMMA SentQueue ==
  ASSUME NEW b, NEW m, Sends(b, m)
  PROVE  /\ Len(net[b]) \in Nat /\ Len(net'[b]) = Len(net[b]) + 1
         /\ Places(b)' = Places(b) \cup {Len(net'[b])}
         /\ Len(net'[b]) \notin Places(b)
         /\ \A i \in Places(b) : i \in Nat /\ i < Len(net'[b]) /\ net'[b][i] = net[b][i]
         /\ net'[b][Len(net'[b])] = m
BY DEF Sends, Places

(* What every step keeps of the link to b, on which it sends. *)
LEMMA SentLink ==
  ASSUME NEW a, NEW b, NEW m, Sends(b, m), PeerKept(b), LinkInv(a, b),
         m.type = "kStartSessionInit" => InitiatorNonce(m.sid) # kInvalidNonce,
         m.type = "kStartSessionReply" => ResponderNonce(m.sid) # kInvalidNonce,
         m.from = boots'[a],
         boots'[a] = boots[a] \/ m.type = "kTerminateSession"
  PROVE  NoncesValid(a, b)' /\ BootsInOrder(a, b)' /\ NextFromSession(a, b)'
<1>0. /\ Len(net[b]) \in Nat /\ Len(net'[b]) = Len(net[b]) + 1
      /\ Places(b)' = Places(b) \cup {Len(net'[b])}
      /\ \A i \in Places(b) : i \in Nat /\ i < Len(net'[b]) /\ net'[b][i] = net[b][i]
      /\ net'[b][Len(net'[b])] = m
      /\ Places(b) = 1 .. Len(net[b])
  BY SentQueue DEF Places
<1>1. NoncesValid(a, b)'
  BY <1>0 DEF LinkInv, NoncesValid
<1>2. BootsInOrder(a, b)'
  <2>1. ASSUME NEW i \in Places(b)', i + 1 \in Places(b)', net'[b][i].from # net'[b][i + 1].from
        PROVE  net'[b][i + 1].type = "kTerminateSession"
    <3>1. CASE i + 1 \in Places(b)
      <4>1. i \in Places(b) /\ net'[b][i] = net[b][i] /\ net'[b][i + 1] = net[b][i + 1]
        BY <1>0, <2>1, <3>1
      <4> QED
        BY <2>1, <3>1, <4>1 DEF LinkInv, BootsInOrder
    <3>2. CASE i + 1 = Len(net'[b])
      <4>1. i = Len(net[b]) /\ i \in Places(b) /\ Len(net[b]) > 0
        BY <1>0, <2>1, <3>2
      <4>2. net'[b][i].from = boots[a]
        BY <1>0, <4>1 DEF LinkInv, BootsInOrder
      <4> QED
        BY <1>0, <2>1, <3>2, <4>2
    <3> QED
      BY <1>0, <2>1, <3>1, <3>2
  <2>2. net'[b][Len(net'[b])].from = boots'[a]
    BY <1>0
  <2> QED
    BY <2>1, <2>2 DEF BootsInOrder
<1>3. NextFromSession(a, b)'
  <2> SUFFICES ASSUME InSessionNow(b), peerBoot'[b] = peerBoot[b]
               PROVE  net'[b][1].from = peerBoot[b] \/ net'[b][1].type = "kTerminateSession"
    BY <1>0 DEF NextFromSession, PeerKept
  <2>1. CASE Len(net[b]) > 0
    <3>1. net'[b][1] = net[b][1]
      BY <1>0, <2>1
    <3> QED
      BY <2>1, <3>1 DEF LinkInv, NextFromSession
  <2>2. CASE Len(net[b]) = 0
    <3>1. net'[b][1] = m /\ boots[a] = peerBoot[b]
      BY <1>0, <2>2 DEF LinkInv, NextFromSession
    <3> QED
      BY <3>1
  <2> QED
    BY <1>0, <2>1, <2>2
<1> QED
  BY <1>1, <1>2, <1>3

(* A session message that is sent is the last one; another leaves the last  *)
(* one as it was.                                                           *)
LEMMA SentLast ==
  ASSUME NEW b, NEW m, Sends(b, m)
  PROVE  /\ IsSession(m) => \A i \in Places(b)' : LastSession(b, i)' => net'[b][i] = m
         /\ ~IsSession(m) => \A i \in Places(b)' : LastSession(b, i)' => i \in Places(b) /\ LastSession(b, i)
         /\ ~IsSession(m) => \A i \in Places(b) : LastSession(b, i) => LastSession(b, i)'
         /\ NoSession(b)' <=> NoSession(b) /\ ~IsSession(m)
         /\ \A i \in Places(b) : NoSessionBefore(b, i)' => NoSessionBefore(b, i)
         /\ \A i \in Places(b)' : i \notin Places(b) /\ NoSessionBefore(b, i)' => NoSession(b)
<1>0. /\ Len(net'[b]) \in Nat
      /\ Places(b)' = Places(b) \cup {Len(net'[b])}
      /\ \A i \in Places(b) : i \in Nat /\ i < Len(net'[b]) /\ net'[b][i] = net[b][i]
      /\ net'[b][Len(net'[b])] = m
  BY SentQueue
<1>1. IsSession(m) => \A i \in Places(b)' : LastSession(b, i)' => net'[b][i] = m
  BY <1>0 DEF LastSession, IsSession
<1>2. ASSUME ~IsSession(m), NEW i \in Places(b)', LastSession(b, i)'
      PROVE  i \in Places(b) /\ LastSession(b, i)
  <2>1. i \in Places(b)
    BY <1>0, <1>2 DEF LastSession, IsSession
  <2> QED
    BY <1>0, <1>2, <2>1 DEF LastSession, IsSession
<1>3. ASSUME ~IsSession(m), NEW i \in Places(b), LastSession(b, i)
      PROVE  LastSession(b, i)'
  BY <1>0, <1>3 DEF LastSession, IsSession
<1>4. NoSession(b)' <=> NoSession(b) /\ ~IsSession(m)
  BY <1>0 DEF NoSession, IsSession
<1>5. ASSUME NEW i \in Places(b), NoSessionBefore(b, i)'
      PROVE  NoSessionBefore(b, i)
  BY <1>0, <1>5 DEF NoSessionBefore, IsSession
<1>6. ASSUME NEW j \in Places(b)', j \notin Places(b), NoSessionBefore(b, j)'
      PROVE  NoSession(b)
  <2>1. ASSUME NEW i \in Places(b)
        PROVE  ~IsSession(net[b][i])
    <3>1. i \in Places(b)' /\ i < j /\ net'[b][i] = net[b][i]
      BY <1>0, <1>6
    <3> QED
      BY <1>6, <3>1 DEF NoSessionBefore, IsSession
  <2> QED
    BY <2>1 DEF NoSession
<1> QED
  BY <1>1, <1>2, <1>3, <1>4, <1>5, <1>6

(* Once more for the messages that are taken. *)
LEMMA TakenLast ==
  ASSUME NEW a, NEW k, Takes(a, k), k \in 0 .. 1, k = 1 => ~IsSession(net[a][1])
  PROVE  /\ NoSession(a)' => NoSession(a)
         /\ \A i \in Places(a)' : NoSessionBefore(a, i)' => NoSessionBefore(a, i + k)
<1>0. /\ Len(net[a]) \in Nat /\ k \in Nat
      /\ Places(a) = 1 .. Len(net[a]) /\ Places(a)' = 1 .. Len(net[a]) - k
      /\ \A i \in Places(a)' : i \in Nat /\ i + k \in Places(a) /\ net'[a][i] = net[a][i + k]
  BY TakenQueue DEF Places
<1>1. ASSUME NEW j \in Places(a)
      PROVE  \/ j = 1 /\ k = 1
             \/ j - k \in Places(a)' /\ net'[a][j - k] = net[a][j]
  <2>1. CASE j = 1 /\ k = 1
    BY <2>1
  <2>2. CASE ~(j = 1 /\ k = 1)
    <3>1. j - k \in Places(a)' /\ (j - k) + k = j
      BY <1>0, <2>2
    <3> QED
      BY <1>0, <3>1
  <2> QED
    BY <2>1, <2>2
<1>2. NoSession(a)' => NoSession(a)
  BY <1>1 DEF NoSession, IsSession
<1>3. ASSUME NEW i \in Places(a)', NoSessionBefore(a, i)', NEW j \in Places(a), j < i + k
      PROVE  ~IsSession(net[a][j])
  <2>1. CASE j = 1 /\ k = 1
    BY <2>1
  <2>2. CASE j - k \in Places(a)' /\ net'[a][j - k] = net[a][j]
    <3>1. j - k < i
      BY <1>0, <1>3
    <3> QED
      BY <1>3, <2>2, <3>1 DEF NoSessionBefore, IsSession
  <2> QED
    BY <1>1, <2>1, <2>2
<1> QED
  BY <1>2, <1>3 DEF NoSessionBefore
(* Unless a replies, the replies on their way to b are those of before.     *)
LEMMA TakenInit ==
  ASSUME NEW a, NEW b, NEW k, Takes(a, k), PeerKept(b), LinkInv(b, a),
         \A n : \A j \in Places(b)' : IsReply(net'[b][j], n) => j \in Places(b) /\ net'[b][j] = net[b][j]
  PROVE  OneInit(b, a)' /\ ReplyToThis(b, a)'
<1>2. /\ Len(net[a]) \in Nat /\ k \in Nat /\ Len(net'[a]) = Len(net[a]) - k
      /\ Places(a) = 1 .. Len(net[a]) /\ Places(a)' = 1 .. Len(net[a]) - k
      /\ \A i \in Places(a)' : i \in Nat /\ i + k \in Places(a) /\ net'[a][i] = net[a][i + k]
  BY TakenQueue DEF Places
<1>7. OneInit(b, a)'
  <2> SUFFICES ASSUME Waiting(b), NEW i \in Places(a)', IsInit(net'[a][i], localNonce[b])
               PROVE  /\ net'[a][i].from = boots[b]
                      /\ LastSession(a, i)'
                      /\ \A j \in Places(b)' : ~IsReply(net'[b][j], localNonce[b])
    BY DEF OneInit, PeerKept, IsInit, IsReply
  <2>1. i + k \in Places(a) /\ IsInit(net[a][i + k], localNonce[b]) /\ net'[a][i] = net[a][i + k]
    BY <1>2
  <2>2. /\ net[a][i + k].from = boots[b] /\ LastSession(a, i + k)
        /\ \A j \in Places(b) : ~IsReply(net[b][j], localNonce[b])
    BY <2>1 DEF LinkInv, OneInit
  <2>3. LastSession(a, i)'
    <3>1. ASSUME NEW j \in Places(a)', j > i
          PROVE  ~IsSession(net'[a][j])
      <4>1. j + k \in Places(a) /\ j + k > i + k /\ net'[a][j] = net[a][j + k]
        BY <1>2, <3>1
      <4> QED
        BY <2>2, <4>1 DEF LastSession
    <3> QED
      BY <2>1, <2>2, <3>1 DEF LastSession, IsSession
  <2> QED
    BY <2>1, <2>2, <2>3
<1>8. ReplyToThis(b, a)'
  BY DEF LinkInv, ReplyToThis, PeerKept, IsReply
<1> QED
  BY <1>7, <1>8

-----------------------------------------------------------------------------
(* Quiet steps. *)
LEMMA QuietIn ==
  ASSUME NEW a, NEW b, NEW k, NEW m, NEW sent, QuietStep(a, b, k, m, sent),
         LinkInv(a, b), LinkInv(b, a)
  PROVE  LinkInv(b, a)'
<1>1. Takes(a, k) /\ PeerKept(b) /\ k \in 0 .. 1
  BY DEF QuietStep
<1>2. /\ Len(net[a]) \in Nat /\ k \in Nat /\ Len(net'[a]) = Len(net[a]) - k
      /\ Places(a) = 1 .. Len(net[a]) /\ Places(a)' = 1 .. Len(net[a]) - k
      /\ \A i \in Places(a)' : i \in Nat /\ i + k \in Places(a) /\ net'[a][i] = net[a][i + k]
  BY <1>1, TakenQueue DEF Places
<1>3. NoncesValid(b, a)' /\ BootsInOrder(b, a)' /\ LastSent(b, a)' /\ NormalAfterReply(b, a)'
  BY <1>1, TakenLink
<1>4. \A n : \A j \in Places(b)' : IsReply(net'[b][j], n) => j \in Places(b) /\ net'[b][j] = net[b][j]
  <2>1. CASE sent
    <3>1. Sends(b, m) /\ m.type # "kStartSessionReply"
      BY <2>1 DEF QuietStep
    <3> QED
      BY <3>1, SentQueue DEF IsReply
  <2>2. CASE ~sent
    BY <2>2 DEF QuietStep, SendsNothing, Places
  <2> QED
    BY <2>1, <2>2
<1>5. InSessionNow(a)' => /\ InSessionNow(a) /\ peerBoot'[a] = peerBoot[a]
                          /\ k = 1 => ~IsSession(net[a][1])
  BY DEF QuietStep
<1>6. NextFromSession(b, a)'
  <2> SUFFICES ASSUME InSessionNow(a)'
               PROVE  /\ Len(net'[a]) > 0 => \/ net'[a][1].from = peerBoot'[a]
                                             \/ net'[a][1].type = "kTerminateSession"
                      /\ Len(net'[a]) = 0 => boots'[b] = peerBoot'[a]
    BY DEF NextFromSession
  <2>1. peerBoot'[a] = peerBoot[a] /\ boots'[b] = boots[b] /\ NextFromSession(b, a) /\ InSessionNow(a)
    BY <1>1, <1>5 DEF PeerKept, LinkInv
  <2>2. CASE k = 0
    <3>1. Len(net'[a]) = Len(net[a]) /\ (Len(net[a]) > 0 => net'[a][1] = net[a][1])
      BY <1>2, <2>2
    <3> QED
      BY <2>1, <3>1 DEF NextFromSession
  <2>3. CASE k = 1
    <3>1. ~IsSession(net[a][1]) /\ Len(net[a]) > 0
      BY <1>1, <1>5, <2>3 DEF Takes
    <3>2. net[a][1].from = peerBoot[a]
      BY <2>1, <3>1 DEF NextFromSession, IsSession, SessionType
    <3>3. CASE ~(Len(net'[a]) > 0)
      <4>1. Len(net[a]) <= 1 /\ Len(net[a]) > 0 /\ Len(net[a]) \in Nat
        BY <1>1, <2>3, <3>1, <3>3 DEF Takes
      <4>2. boots[b] = net[a][1].from
        <5>1. net[a][Len(net[a])].from = boots[b]
          BY <4>1 DEF LinkInv, BootsInOrder
        <5> QED
          BY <4>1, <5>1
      <4> QED
        BY <2>1, <3>2, <3>3, <4>2
    <3>4. CASE Len(net'[a]) > 0
      <4>1. 1 \in Places(a) /\ 1 + 1 \in Places(a) /\ net'[a][1] = net[a][1 + 1]
        BY <1>2, <2>3, <3>4
      <4>2. net[a][1].from = net[a][1 + 1].from \/ net[a][1 + 1].type = "kTerminateSession"
        BY <4>1 DEF LinkInv, BootsInOrder
      <4> QED
        BY <2>1, <3>2, <3>4, <4>1, <4>2
    <3> QED
      BY <1>2, <3>3, <3>4
  <2> QED
    BY <1>1, <2>2, <2>3
<1>7. OneInit(b, a)' /\ ReplyToThis(b, a)'
  BY <1>1, <1>4, TakenInit
<1>9. Agreed(b, a)'
  <2> SUFFICES ASSUME InSessionNow(a)', NoSession(a)'
               PROVE  /\ InSessionNow(b) => peerBoot[b] = boots[a]
                      /\ Waiting(b) => \A j \in Places(b)' :
                           IsReply(net'[b][j], localNonce[b]) => net'[b][j].from = boots[a]
    BY <1>1 DEF Agreed, PeerKept, IsReply, QuietStep
  <2>1. InSessionNow(a) /\ NoSession(a)
    BY <1>1, <1>5, TakenLast
  <2> QED
    BY <1>4, <2>1 DEF LinkInv, Agreed
<1>10. NormalForThis(b, a)'
  <2> SUFFICES ASSUME InSessionNow(a)', NEW j \in Places(a)', net'[a][j].type = "kNormal",
                      NoSessionBefore(a, j)'
               PROVE  net'[a][j].to = boots[a]
    BY DEF NormalForThis, QuietStep
  <2>1. InSessionNow(a) /\ NoSessionBefore(a, j + k) /\ j + k \in Places(a) /\ net'[a][j] = net[a][j + k]
    BY <1>1, <1>2, <1>5, TakenLast
  <2> QED
    BY <2>1 DEF LinkInv, NormalForThis
<1> QED
  BY <1>3, <1>6, <1>7, <1>9, <1>10 DEF LinkInv

LEMMA QuietOut ==
  ASSUME NEW a, NEW b, NEW k, NEW m, NEW sent \in BOOLEAN, QuietStep(a, b, k, m, sent),
         LinkInv(a, b), LinkInv(b, a)
  PROVE  LinkInv(a, b)'
<1>1. /\ Takes(a, k) /\ PeerKept(b) /\ k \in 0 .. 1
      /\ boots'[a] = boots[a] /\ localNonce'[a] = localNonce[a]
      /\ InSessionNow(a)' => InSessionNow(a) /\ peerBoot'[a] = peerBoot[a]
      /\ Waiting(a)' => Waiting(a)
  BY DEF QuietStep
<1>2. \A i \in Places(a)' : i + k \in Places(a) /\ net'[a][i] = net[a][i + k]
  BY <1>1, TakenQueue
<1>3. CASE ~sent
  <2>1. net'[b] = net[b]
    BY <1>3 DEF QuietStep, SendsNothing
  <2>2. NoncesValid(a, b)' /\ BootsInOrder(a, b)' /\ NextFromSession(a, b)'
    BY <1>1, <2>1 DEF LinkInv, NoncesValid, BootsInOrder, NextFromSession, PeerKept, Places
  <2>3. LastSent(a, b)' /\ NormalAfterReply(a, b)' /\ NormalForThis(a, b)'
    BY <1>1, <2>1
    DEF LinkInv, LastSent, NormalAfterReply, NormalForThis, PeerKept, Places, LastSession,
        NoSessionBefore, IsSession, IsInit
  <2>4. OneInit(a, b)'
    <3> SUFFICES ASSUME Waiting(a), NEW i \in Places(b), IsInit(net[b][i], localNonce[a])
                 PROVE  /\ net[b][i].from = boots[a] /\ LastSession(b, i)
                        /\ \A j \in Places(a)' : ~IsReply(net'[a][j], localNonce[a])
      BY <1>1, <2>1 DEF OneInit, Places, LastSession, IsSession, IsInit, IsReply
    <3> QED
      BY <1>2 DEF LinkInv, OneInit
  <2>5. ReplyToThis(a, b)'
    BY <1>1, <1>2, <2>1 DEF LinkInv, ReplyToThis, IsReply
  <2>6. Agreed(a, b)'
    BY <1>1, <1>2, <2>1 DEF LinkInv, Agreed, PeerKept, NoSession, Places, IsSession, IsReply
  <2> QED
    BY <2>2, <2>3, <2>4, <2>5, <2>6 DEF LinkInv
<1>4. CASE sent
  <2>1. /\ Sends(b, m) /\ m.from = boots[a] /\ ~IsSession(m)
        /\ m.type # "kStartSessionInit" /\ m.type # "kStartSessionReply"
        /\ m.type = "kNormal" => InSessionNow(a) /\ m.to = peerBoot[a]
    BY <1>4 DEF QuietStep, IsSession, SessionType
  <2>2. /\ Places(b)' = Places(b) \cup {Len(net'[b])}
        /\ Len(net'[b]) \notin Places(b)
        /\ \A i \in Places(b) : i \in Nat /\ i < Len(net'[b]) /\ net'[b][i] = net[b][i]
        /\ net'[b][Len(net'[b])] = m
    BY <2>1, SentQueue
  <2>3. /\ \A i \in Places(b)' : LastSession(b, i)' => i \in Places(b) /\ LastSession(b, i)
        /\ \A i \in Places(b) : LastSession(b, i) => LastSession(b, i)'
        /\ NoSession(b)' <=> NoSession(b)
        /\ \A i \in Places(b) : NoSessionBefore(b, i)' => NoSessionBefore(b, i)
        /\ \A i \in Places(b)' : i \notin Places(b) /\ NoSessionBefore(b, i)' => NoSession(b)
    BY <2>1, SentLast
  <2>4. NoncesValid(a, b)' /\ BootsInOrder(a, b)' /\ NextFromSession(a, b)'
    BY <1>1, <2>1, SentLink
  <2>5. LastSent(a, b)'
    BY <1>1, <2>2, <2>3 DEF LinkInv, LastSent, IsInit
  <2>6. OneInit(a, b)'
    <3> SUFFICES ASSUME Waiting(a), NEW i \in Places(b)', IsInit(net'[b][i], localNonce[a])
                 PROVE  /\ net'[b][i].from = boots[a] /\ LastSession(b, i)'
                        /\ \A j \in Places(a)' : ~IsReply(net'[a][j], localNonce[a])
      BY <1>1 DEF OneInit, IsInit, IsReply
    <3>1. i \in Places(b) /\ net'[b][i] = net[b][i]
      BY <2>1, <2>2 DEF IsInit
    <3> QED
      BY <1>2, <2>3, <3>1 DEF LinkInv, OneInit
  <2>7. ReplyToThis(a, b)'
    BY <1>1, <1>2 DEF LinkInv, ReplyToThis, IsReply
  <2>8. NormalAfterReply(a, b)'
    <3> SUFFICES ASSUME NEW i \in Places(b)', NEW j \in Places(b)', i < j,
                        IsSession(net'[b][i]), net'[b][j].type = "kNormal",
                        \A h \in Places(b)' : i < h /\ h < j => ~IsSession(net'[b][h])
                 PROVE  net'[b][i].type = "kStartSessionReply" /\ net'[b][j].to = net'[b][i].to
      BY DEF NormalAfterReply, IsSession
    <3>1. i \in Places(b) /\ net'[b][i] = net[b][i]
      BY <2>1, <2>2
    <3>2. CASE j \in Places(b)
      <4>1. net'[b][j] = net[b][j] /\ \A h \in Places(b) : i < h /\ h < j => ~IsSession(net[b][h])
        BY <2>2, <3>2
      <4> QED
        BY <3>1, <3>2, <4>1 DEF LinkInv, NormalAfterReply
    <3>3. CASE j = Len(net'[b])
      <4>1. LastSession(b, i)
        BY <2>2, <3>1, <3>3 DEF LastSession
      <4>2. InSessionNow(a) /\ m.to = peerBoot[a] /\ net'[b][j] = m
        BY <2>1, <2>2, <3>3
      <4> QED
        BY <3>1, <4>1, <4>2 DEF LinkInv, LastSent
    <3> QED
      BY <2>2, <3>2, <3>3
  <2>9. Agreed(a, b)'
    BY <1>1, <1>2, <2>3 DEF LinkInv, Agreed, PeerKept, IsReply
  <2>10. NormalForThis(a, b)'
    <3> SUFFICES ASSUME InSessionNow(b), NEW j \in Places(b)', net'[b][j].type = "kNormal",
                        NoSessionBefore(b, j)'
                 PROVE  net'[b][j].to = boots[b]
      BY <1>1 DEF NormalForThis, PeerKept
    <3>1. CASE j \in Places(b)
      BY <2>2, <2>3, <3>1 DEF LinkInv, NormalForThis
    <3>2. CASE j \notin Places(b)
      <4>1. NoSession(b) /\ net'[b][j] = m
        BY <2>2, <2>3, <3>2
      <4> QED
        BY <2>1, <4>1 DEF LinkInv, Agreed
    <3> QED
      BY <3>1, <3>2
  <2> QED
    BY <2>4, <2>5, <2>6, <2>7, <2>8, <2>9, <2>10 DEF LinkInv
<1> QED
  BY <1>3, <1>4
-----------------------------------------------------------------------------
(* Boots and calls of TerminateSession. *)
LEMMA StopIn ==
  ASSUME NEW a, NEW b, NEW k, NEW m, StopStep(a, b, k, m), LinkInv(b, a)
  PROVE  LinkInv(b, a)'
<1>1. Takes(a, k) /\ PeerKept(b) /\ Sends(b, m) /\ m.type = "kTerminateSession" /\ ~InSessionNow(a)'
  BY DEF StopStep
<1>2. NoncesValid(b, a)' /\ BootsInOrder(b, a)' /\ LastSent(b, a)' /\ NormalAfterReply(b, a)'
  BY <1>1, TakenLink
<1>3. \A n : \A j \in Places(b)' : IsReply(net'[b][j], n) => j \in Places(b) /\ net'[b][j] = net[b][j]
  BY <1>1, SentQueue DEF IsReply
<1>4. OneInit(b, a)' /\ ReplyToThis(b, a)'
  BY <1>1, <1>3, TakenInit
<1>5. NextFromSession(b, a)' /\ Agreed(b, a)' /\ NormalForThis(b, a)'
  BY <1>1 DEF NextFromSession, Agreed, NormalForThis
<1> QED
  BY <1>2, <1>4, <1>5 DEF LinkInv

(* A message that changes the session and is no normal one is last.         *)
LEMMA SessionSent ==
  ASSUME NEW a, NEW b, NEW m, Sends(b, m), IsSession(m), PeerKept(b), LinkInv(a, b)
  PROVE  NormalAfterReply(a, b)' /\ Agreed(a, b)' /\ NormalForThis(a, b)'
<1>1. /\ Places(b)' = Places(b) \cup {Len(net'[b])}
      /\ Len(net'[b]) \notin Places(b)
      /\ \A i \in Places(b) : i \in Nat /\ i < Len(net'[b]) /\ net'[b][i] = net[b][i]
      /\ net'[b][Len(net'[b])] = m /\ m.type # "kNormal"
  BY SentQueue DEF IsSession, SessionType
<1>2. /\ ~(NoSession(b)')
      /\ \A i \in Places(b) : NoSessionBefore(b, i)' => NoSessionBefore(b, i)
  BY SentLast
<1>3. NormalAfterReply(a, b)'
  <2> SUFFICES ASSUME NEW i \in Places(b)', NEW j \in Places(b)', i < j,
                      IsSession(net'[b][i]), net'[b][j].type = "kNormal",
                      \A h \in Places(b)' : i < h /\ h < j => ~IsSession(net'[b][h])
               PROVE  net'[b][i].type = "kStartSessionReply" /\ net'[b][j].to = net'[b][i].to
    BY DEF NormalAfterReply, IsSession
  <2>1. j \in Places(b) /\ net'[b][j] = net[b][j]
    BY <1>1
  <2>2. i \in Places(b) /\ net'[b][i] = net[b][i]
    BY <1>1, <2>1
  <2>3. \A h \in Places(b) : i < h /\ h < j => ~IsSession(net[b][h])
    BY <1>1
  <2> QED
    BY <2>1, <2>2, <2>3 DEF LinkInv, NormalAfterReply
<1>4. Agreed(a, b)'
  BY <1>2 DEF Agreed
<1>5. NormalForThis(a, b)'
  BY <1>1, <1>2 DEF LinkInv, NormalForThis, PeerKept
<1> QED
  BY <1>3, <1>4, <1>5

LEMMA StopOut ==
  ASSUME NEW a, NEW b, NEW k, NEW m, StopStep(a, b, k, m), LinkInv(a, b)
  PROVE  LinkInv(a, b)'
<1>1. /\ Takes(a, k) /\ PeerKept(b) /\ Sends(b, m) /\ m.type = "kTerminateSession"
      /\ ~InSessionNow(a)' /\ ~Waiting(a)' /\ m.from = boots'[a]
  BY DEF StopStep
<1>2. NoncesValid(a, b)' /\ BootsInOrder(a, b)' /\ NextFromSession(a, b)'
  BY <1>1, SentLink
<1>3. IsSession(m)
  BY <1>1 DEF IsSession, SessionType
<1>4. NormalAfterReply(a, b)' /\ Agreed(a, b)' /\ NormalForThis(a, b)'
  BY <1>1, <1>3, SessionSent
<1>5. LastSent(a, b)' /\ OneInit(a, b)' /\ ReplyToThis(a, b)'
  BY <1>1 DEF LastSent, OneInit, ReplyToThis
<1> QED
  BY <1>2, <1>4, <1>5 DEF LinkInv

(* Starting a session. *)
LEMMA StartIn ==
  ASSUME NEW a, NEW b, NEW k, NEW m, StartStep(a, b, k, m), LinkInv(b, a)
  PROVE  LinkInv(b, a)'
<1>1. Takes(a, k) /\ PeerKept(b) /\ Sends(b, m) /\ m.type = "kStartSessionInit" /\ ~InSessionNow(a)'
  BY DEF StartStep, IsInit
<1>2. NoncesValid(b, a)' /\ BootsInOrder(b, a)' /\ LastSent(b, a)' /\ NormalAfterReply(b, a)'
  BY <1>1, TakenLink
<1>3. \A n : \A j \in Places(b)' : IsReply(net'[b][j], n) => j \in Places(b) /\ net'[b][j] = net[b][j]
  BY <1>1, SentQueue DEF IsReply
<1>4. OneInit(b, a)' /\ ReplyToThis(b, a)'
  BY <1>1, <1>3, TakenInit
<1>5. NextFromSession(b, a)' /\ Agreed(b, a)' /\ NormalForThis(b, a)'
  BY <1>1 DEF NextFromSession, Agreed, NormalForThis
<1> QED
  BY <1>2, <1>4, <1>5 DEF LinkInv

LEMMA StartOut ==
  ASSUME NEW a, NEW b, NEW k, NEW m, StartStep(a, b, k, m), LinkInv(a, b)
  PROVE  LinkInv(a, b)'
<1>1. /\ Takes(a, k) /\ PeerKept(b) /\ Sends(b, m)
      /\ IsInit(m, localNonce'[a]) /\ localNonce'[a] # kInvalidNonce
      /\ ~InSessionNow(a)' /\ m.from = boots'[a] /\ boots'[a] = boots[a]
  BY DEF StartStep
<1>2. m.type = "kStartSessionInit" /\ InitiatorNonce(m.sid) # kInvalidNonce
  BY <1>1 DEF IsInit
<1>3. NoncesValid(a, b)' /\ BootsInOrder(a, b)' /\ NextFromSession(a, b)'
  BY <1>1, <1>2, SentLink
<1>4. IsSession(m)
  BY <1>2 DEF IsSession, SessionType
<1>5. NormalAfterReply(a, b)' /\ Agreed(a, b)' /\ NormalForThis(a, b)'
  BY <1>1, <1>4, SessionSent
<1>6. \A i \in Places(b)' : LastSession(b, i)' => net'[b][i] = m
  BY <1>1, <1>4, SentLast
<1>7. LastSent(a, b)'
  BY <1>1, <1>6 DEF LastSent, IsInit
<1>8. \A j \in Places(a)' : ~IsReply(net'[a][j], localNonce'[a])
  <2>1. \A j \in Places(a)' : j + k \in Places(a) /\ net'[a][j] = net[a][j + k]
    BY <1>1, TakenQueue
  <2> QED
    BY <2>1 DEF StartStep
<1>9. OneInit(a, b)'
  <2>1. ASSUME NEW i \in Places(b)', IsInit(net'[b][i], localNonce'[a])
        PROVE  net'[b][i].from = boots'[a] /\ LastSession(b, i)'
    <3>1. /\ Places(b)' = Places(b) \cup {Len(net'[b])}
          /\ \A j \in Places(b) : j < Len(net'[b]) /\ j \in Nat /\ net'[b][j] = net[b][j]
          /\ net'[b][Len(net'[b])] = m /\ Len(net'[b]) \in Nat
      BY <1>1, SentQueue
    <3>2. i = Len(net'[b]) /\ net'[b][i] = m
      BY <2>1, <3>1 DEF StartStep
    <3>3. \A j \in Places(b)' : ~(j > i)
      BY <3>1, <3>2
    <3> QED
      BY <1>1, <1>4, <3>2, <3>3 DEF LastSession, IsSession
  <2> QED
    BY <1>8, <2>1 DEF OneInit, IsInit, IsReply
<1>10. ReplyToThis(a, b)'
  BY <1>8 DEF ReplyToThis, IsReply
<1> QED
  BY <1>3, <1>5, <1>7, <1>9, <1>10 DEF LinkInv
-----------------------------------------------------------------------------
(* Entering a session: with the boot the message is from.                   *)
LEMMA NextAfterHead ==
  ASSUME NEW a, NEW b, Takes(a, 1), PeerKept(b), LinkInv(b, a), peerBoot'[a] = net[a][1].from
  PROVE  NextFromSession(b, a)'
<1>1. /\ Len(net[a]) \in Nat /\ Len(net[a]) >= 1 /\ Len(net'[a]) = Len(net[a]) - 1
      /\ Places(a) = 1 .. Len(net[a])
      /\ \A i \in Places(a)' : net'[a][i] = net[a][i + 1]
      /\ Places(a)' = 1 .. Len(net[a]) - 1
  BY TakenQueue DEF Takes, Places
<1>2. CASE ~(Len(net'[a]) > 0)
  <2>1. Len(net[a]) <= 1
    BY <1>1, <1>2
  <2>2. net[a][Len(net[a])].from = boots[b]
    BY <1>1 DEF LinkInv, BootsInOrder
  <2>3. net[a][1].from = boots'[b]
    BY <1>1, <2>1, <2>2 DEF PeerKept
  <2> QED
    BY <1>2, <2>3 DEF NextFromSession
<1>3. CASE Len(net'[a]) > 0
  <2>1. 1 \in Places(a) /\ 1 + 1 \in Places(a) /\ net'[a][1] = net[a][1 + 1]
    BY <1>1, <1>3
  <2>2. net[a][1].from = net[a][1 + 1].from \/ net[a][1 + 1].type = "kTerminateSession"
    BY <2>1 DEF LinkInv, BootsInOrder
  <2> QED
    BY <1>3, <2>1, <2>2 DEF NextFromSession
<1> QED
  BY <1>1, <1>2, <1>3

(* If nothing that changes a session is left after the first message, it is *)
(* the last that does.                                                      *)
LEMMA HeadIsLast ==
  ASSUME NEW a, Takes(a, 1), IsSession(net[a][1]), NoSession(a)'
  PROVE  1 \in Places(a) /\ LastSession(a, 1)
<1>1. /\ Len(net[a]) \in Nat /\ Len(net[a]) >= 1
      /\ Places(a) = 1 .. Len(net[a])
      /\ \A i \in Places(a)' : net'[a][i] = net[a][i + 1]
      /\ Places(a)' = 1 .. Len(net[a]) - 1
  BY TakenQueue DEF Takes, Places
<1>2. ASSUME NEW j \in Places(a), j > 1
      PROVE  ~IsSession(net[a][j])
  <2>1. j - 1 \in Places(a)' /\ (j - 1) + 1 = j
    BY <1>1, <1>2
  <2>2. net'[a][j - 1] = net[a][j]
    BY <1>1, <2>1
  <2> QED
    BY <2>1, <2>2 DEF NoSession, IsSession
<1> QED
  BY <1>1, <1>2 DEF LastSession

(* A normal message that is next in the new session, before the session     *)
(* changes again, followed the reply directly.                              *)
LEMMA NormalAfterHead ==
  ASSUME NEW a, NEW b, Takes(a, 1), IsSession(net[a][1]), LinkInv(b, a),
         NEW j \in Places(a)', net'[a][j].type = "kNormal", NoSessionBefore(a, j)'
  PROVE  net[a][1].type = "kStartSessionReply" /\ net'[a][j].to = net[a][1].to
<1>1. /\ Len(net[a]) \in Nat /\ Len(net[a]) >= 1
      /\ Places(a) = 1 .. Len(net[a])
      /\ \A i \in Places(a)' : i \in Nat /\ i + 1 \in Places(a) /\ net'[a][i] = net[a][i + 1]
      /\ Places(a)' = 1 .. Len(net[a]) - 1
  BY TakenQueue DEF Takes, Places
<1>2. ASSUME NEW h \in Places(a), 1 < h, h < j + 1
      PROVE  ~IsSession(net[a][h])
  <2>1. h - 1 \in Places(a)' /\ h - 1 < j /\ (h - 1) + 1 = h
    BY <1>1, <1>2
  <2>2. net'[a][h - 1] = net[a][h]
    BY <1>1, <2>1
  <2> QED
    BY <2>1, <2>2 DEF NoSessionBefore, IsSession
<1>3. 1 \in Places(a) /\ j + 1 \in Places(a) /\ 1 < j + 1 /\ net'[a][j] = net[a][j + 1]
  BY <1>1
<1> QED
  BY <1>2, <1>3 DEF LinkInv, NormalAfterReply

LEMMA ReplyIn ==
  ASSUME NEW a, NEW b, NEW m, ReplyStep(a, b, m), LinkInv(a, b), LinkInv(b, a)
  PROVE  LinkInv(b, a)'
<1> DEFINE first == net[a][1]
<1>1. /\ Takes(a, 1) /\ PeerKept(b) /\ Sends(b, m)
      /\ first.type = "kStartSessionInit" /\ IsSession(first)
      /\ IsReply(m, InitiatorNonce(first.sid)) /\ m.from = boots[a] /\ m.to = first.from
      /\ boots'[a] = boots[a] /\ peerBoot'[a] = first.from
  BY DEF ReplyStep, IsSession, SessionType
<1>2. NoncesValid(b, a)' /\ BootsInOrder(b, a)' /\ LastSent(b, a)' /\ NormalAfterReply(b, a)'
  BY <1>1, TakenLink
<1>3. NextFromSession(b, a)'
  BY <1>1, NextAfterHead
<1>4. /\ Places(b)' = Places(b) \cup {Len(net'[b])}
      /\ \A j \in Places(b) : net'[b][j] = net[b][j]
      /\ net'[b][Len(net'[b])] = m
  BY <1>1, SentQueue
<1>5. /\ 1 \in Places(a)
      /\ \A i \in Places(a)' : i \in Nat /\ i > 0 /\ i + 1 \in Places(a) /\ net'[a][i] = net[a][i + 1]
  BY <1>1, TakenQueue DEF Takes, Places
<1>6. \A n : IsInit(first, n) <=> IsReply(m, n)
  BY <1>1 DEF IsInit, IsReply
<1>7. OneInit(b, a)'
  <2> SUFFICES ASSUME Waiting(b), NEW i \in Places(a)', IsInit(net'[a][i], localNonce[b])
               PROVE  /\ net'[a][i].from = boots[b]
                      /\ LastSession(a, i)'
                      /\ \A j \in Places(b)' : ~IsReply(net'[b][j], localNonce[b])
    BY <1>1 DEF OneInit, PeerKept, IsInit, IsReply
  <2>1. i + 1 \in Places(a) /\ IsInit(net[a][i + 1], localNonce[b]) /\ net'[a][i] = net[a][i + 1]
    BY <1>5
  <2>2. /\ net[a][i + 1].from = boots[b] /\ LastSession(a, i + 1)
        /\ \A j \in Places(b) : ~IsReply(net[b][j], localNonce[b])
    BY <2>1 DEF LinkInv, OneInit
  <2>3. LastSession(a, i)'
    <3>1. ASSUME NEW j \in Places(a)', j > i
          PROVE  ~IsSession(net'[a][j])
      <4>1. j + 1 \in Places(a) /\ j + 1 > i + 1 /\ net'[a][j] = net[a][j + 1]
        BY <1>5, <3>1
      <4> QED
        BY <2>2, <4>1 DEF LastSession
    <3> QED
      BY <2>1, <2>2, <3>1 DEF LastSession, IsSession
  <2>4. ~IsInit(first, localNonce[b])
    <3> SUFFICES ASSUME IsInit(first, localNonce[b]) PROVE FALSE
      OBVIOUS
    <3>1. LastSession(a, 1)
      BY <1>5 DEF LinkInv, OneInit
    <3>2. i + 1 > 1 /\ IsSession(net[a][i + 1])
      BY <1>5, <2>2 DEF LastSession
    <3> QED
      BY <2>1, <3>1, <3>2 DEF LastSession
  <2> QED
    BY <1>4, <1>6, <2>1, <2>2, <2>3, <2>4
<1>8. ReplyToThis(b, a)'
  <2> SUFFICES ASSUME Waiting(b), NEW j \in Places(b)', IsReply(net'[b][j], localNonce[b])
               PROVE  net'[b][j].to = boots[b]
    BY <1>1 DEF ReplyToThis, PeerKept, IsReply
  <2>1. CASE j \in Places(b)
    BY <1>4, <2>1 DEF LinkInv, ReplyToThis
  <2>2. CASE net'[b][j] = m
    <3>1. IsInit(first, localNonce[b])
      BY <1>6, <2>2
    <3>2. first.from = boots[b]
      BY <1>5, <3>1 DEF LinkInv, OneInit
    <3> QED
      BY <1>1, <2>2, <3>2
  <2> QED
    BY <1>4, <2>1, <2>2
<1>9. Agreed(b, a)'
  <2> SUFFICES ASSUME NoSession(a)'
               PROVE  /\ ~InSessionNow(b)
                      /\ Waiting(b) => \A j \in Places(b)' :
                           IsReply(net'[b][j], localNonce[b]) => net'[b][j].from = boots[a]
    BY <1>1 DEF Agreed, PeerKept, IsReply
  <2>1. 1 \in Places(a) /\ LastSession(a, 1)
    BY <1>1, HeadIsLast
  <2>2. ~InSessionNow(b)
    BY <1>1, <2>1 DEF LinkInv, LastSent
  <2>3. ASSUME Waiting(b), NEW j \in Places(b)', IsReply(net'[b][j], localNonce[b])
        PROVE  net'[b][j].from = boots[a]
    <3>1. IsInit(first, localNonce[b])
      BY <2>1, <2>3 DEF LinkInv, LastSent
    <3>2. j \notin Places(b)
      BY <1>4, <2>1, <2>3, <3>1 DEF LinkInv, OneInit
    <3> QED
      BY <1>1, <1>4, <3>2
  <2> QED
    BY <2>2, <2>3
<1>10. NormalForThis(b, a)'
  <2> SUFFICES ASSUME NEW j \in Places(a)', net'[a][j].type = "kNormal", NoSessionBefore(a, j)'
               PROVE  FALSE
    BY DEF NormalForThis
  <2>1. first.type = "kStartSessionReply"
    BY <1>1, NormalAfterHead
  <2> QED
    BY <1>1, <2>1
<1> QED
  BY <1>2, <1>3, <1>7, <1>8, <1>9, <1>10 DEF LinkInv

LEMMA ReplyOut ==
  ASSUME NEW a, NEW b, NEW m, ReplyStep(a, b, m), LinkInv(a, b)
  PROVE  LinkInv(a, b)'
<1>1. /\ PeerKept(b) /\ Sends(b, m) /\ ~Waiting(a)'
      /\ m.type = "kStartSessionReply" /\ ResponderNonce(m.sid) # kInvalidNonce
      /\ m.from = boots'[a] /\ boots'[a] = boots[a] /\ m.to = peerBoot'[a]
  BY DEF ReplyStep, IsReply
<1>2. NoncesValid(a, b)' /\ BootsInOrder(a, b)' /\ NextFromSession(a, b)'
  BY <1>1, SentLink
<1>3. IsSession(m)
  BY <1>1 DEF IsSession, SessionType
<1>4. NormalAfterReply(a, b)' /\ Agreed(a, b)' /\ NormalForThis(a, b)'
  BY <1>1, <1>3, SessionSent
<1>5. \A i \in Places(b)' : LastSession(b, i)' => net'[b][i] = m
  BY <1>1, <1>3, SentLast
<1>6. LastSent(a, b)' /\ OneInit(a, b)' /\ ReplyToThis(a, b)'
  BY <1>1, <1>5 DEF LastSent, OneInit, ReplyToThis
<1> QED
  BY <1>2, <1>4, <1>6 DEF LinkInv

LEMMA AcceptIn ==
  ASSUME NEW a, NEW b, AcceptStep(a, b), LinkInv(a, b), LinkInv(b, a)
  PROVE  LinkInv(b, a)'
<1> DEFINE first == net[a][1]
<1>1. /\ Takes(a, 1) /\ PeerKept(b) /\ net'[b] = net[b]
      /\ first.type = "kStartSessionReply" /\ IsSession(first)
      /\ Waiting(a) /\ IsReply(first, localNonce[a])
      /\ boots'[a] = boots[a] /\ peerBoot'[a] = first.from
  BY DEF AcceptStep, SendsNothing, IsReply, IsSession, SessionType
<1>2. NoncesValid(b, a)' /\ BootsInOrder(b, a)' /\ LastSent(b, a)' /\ NormalAfterReply(b, a)'
  BY <1>1, TakenLink
<1>3. NextFromSession(b, a)'
  BY <1>1, NextAfterHead
<1>4. \A n : \A j \in Places(b)' : IsReply(net'[b][j], n) => j \in Places(b) /\ net'[b][j] = net[b][j]
  BY <1>1 DEF Places
<1>5. OneInit(b, a)' /\ ReplyToThis(b, a)'
  BY <1>1, <1>4, TakenInit
<1>6. 1 \in Places(a) /\ first.to = boots[a]
  <2>1. 1 \in Places(a)
    BY <1>1 DEF Takes, Places
  <2> QED
    BY <1>1, <2>1 DEF LinkInv, ReplyToThis
<1>7. Agreed(b, a)'
  <2> SUFFICES ASSUME NoSession(a)'
               PROVE  ~Waiting(b) /\ (InSessionNow(b) => peerBoot[b] = boots[a])
    BY <1>1 DEF Agreed, PeerKept
  <2>1. LastSession(a, 1)
    BY <1>1, HeadIsLast
  <2> QED
    BY <1>1, <1>6, <2>1 DEF LinkInv, LastSent, IsInit
<1>8. NormalForThis(b, a)'
  <2> SUFFICES ASSUME NEW j \in Places(a)', net'[a][j].type = "kNormal", NoSessionBefore(a, j)'
               PROVE  net'[a][j].to = boots[a]
    BY <1>1 DEF NormalForThis
  <2>1. net'[a][j].to = first.to
    BY <1>1, NormalAfterHead
  <2> QED
    BY <1>6, <2>1
<1> QED
  BY <1>2, <1>3, <1>5, <1>7, <1>8 DEF LinkInv

LEMMA AcceptOut ==
  ASSUME NEW a, NEW b, AcceptStep(a, b), LinkInv(a, b)
  PROVE  LinkInv(a, b)'
<1> DEFINE first == net[a][1]
<1>1. /\ PeerKept(b) /\ net'[b] = net[b] /\ ~Waiting(a)'
      /\ Waiting(a) /\ IsReply(first, localNonce[a]) /\ 1 \in Places(a)
      /\ boots'[a] = boots[a] /\ peerBoot'[a] = first.from
  BY DEF AcceptStep, SendsNothing, Takes, Places
<1>2. NoncesValid(a, b)' /\ BootsInOrder(a, b)' /\ NextFromSession(a, b)'
  BY <1>1 DEF LinkInv, NoncesValid, BootsInOrder, NextFromSession, PeerKept, Places
<1>3. NormalAfterReply(a, b)' /\ NormalForThis(a, b)'
  BY <1>1
  DEF LinkInv, NormalAfterReply, NormalForThis, PeerKept, Places, NoSessionBefore, IsSession
<1>4. \A i \in Places(b) : ~LastSession(b, i)
  BY <1>1 DEF LinkInv, LastSent, OneInit
<1>5. LastSent(a, b)'
  BY <1>1, <1>4 DEF LastSent, LastSession, Places, IsSession
<1>6. OneInit(a, b)' /\ ReplyToThis(a, b)'
  BY <1>1 DEF OneInit, ReplyToThis
<1>7. Agreed(a, b)'
  BY <1>1 DEF LinkInv, Agreed, PeerKept, NoSession, Places, IsSession
<1> QED
  BY <1>2, <1>3, <1>5, <1>6, <1>7 DEF LinkInv
-----------------------------------------------------------------------------
(* The actions are such steps. *)
LEMMA TwoEndpoints ==
  ASSUME NEW e \in Endpoint
  PROVE  /\ Peer(e) \in Endpoint /\ Peer(e) # e /\ Peer(Peer(e)) = e
         /\ \A p \in Endpoint : p = e \/ p = Peer(e)
<1>1. PICK a, b \in Endpoint : a # b /\ Endpoint = {a, b}
  BY EndpointAssumption
<1>2. Peer(e) \in Endpoint /\ Peer(e) # e
  BY PeerType
<1>3. Peer(Peer(e)) \in Endpoint /\ Peer(Peer(e)) # Peer(e)
  BY <1>2, PeerType
<1> QED
  BY <1>1, <1>2, <1>3

LinkStep(a, b) ==
  \/ \E k, m : \E sent \in BOOLEAN : QuietStep(a, b, k, m, sent)
  \/ \E k, m : StopStep(a, b, k, m)
  \/ \E k, m : StartStep(a, b, k, m)
  \/ \E m : ReplyStep(a, b, m)
  \/ AcceptStep(a, b)

LEMMA LinkStepKeeps ==
  ASSUME LinksInv, NEW a \in Endpoint, LinkStep(a, Peer(a))
  PROVE  LinksInv'
<1> DEFINE b == Peer(a)
<1>1. b \in Endpoint /\ Peer(b) = a /\ \A p \in Endpoint : p = a \/ p = b
  BY TwoEndpoints
<1>2. LinkInv(a, b) /\ LinkInv(b, a)
  BY <1>1 DEF LinksInv
<1> HIDE DEF b
<1>3. LinkStep(a, b)
  BY DEF b
<1>4. LinkInv(b, a)'
  BY <1>2, <1>3, QuietIn, StopIn, StartIn, ReplyIn, AcceptIn DEF LinkStep
<1>5. LinkInv(a, b)'
  BY <1>2, <1>3, QuietOut, StopOut, StartOut, ReplyOut, AcceptOut DEF LinkStep
<1> QED
  BY <1>1, <1>4, <1>5 DEF LinksInv, b

LEMMA NetTaken ==
  ASSUME TypeOK, NEW e \in Endpoint, NEW k \in 0 .. Len(net[e]), NEW msgs, net' = NetAfter(e, k, msgs)
  PROVE  Takes(e, k)
<1>1. net \in [Endpoint -> Seq(Message)] /\ Peer(e) \in Endpoint /\ Peer(e) # e
  BY TwoEndpoints DEF TypeOK
<1>2. net'[e] = SubSeq(net[e], k + 1, Len(net[e]))
  BY <1>1 DEF NetAfter
<1>3. net[e] \in Seq(Message)
  BY <1>1
<1> QED
  BY <1>2, <1>3 DEF Takes

LEMMA NetTakesAndSends ==
  ASSUME TypeOK, NEW e \in Endpoint, NEW k \in 0 .. Len(net[e]), NEW m \in Message,
         net' = NetAfter(e, k, <<m>>)
  PROVE  Takes(e, k) /\ Sends(Peer(e), m)
<1>1. net \in [Endpoint -> Seq(Message)] /\ Peer(e) \in Endpoint /\ Peer(e) # e
  BY TwoEndpoints DEF TypeOK
<1>2. net'[Peer(e)] = net[Peer(e)] \o <<m>>
  BY <1>1 DEF NetAfter
<1>3. net[Peer(e)] \in Seq(Message)
  BY <1>1
<1>4. Sends(Peer(e), m)
  BY <1>2, <1>3 DEF Sends
<1> QED
  BY <1>4, NetTaken

LEMMA NetTakes ==
  ASSUME TypeOK, NEW e \in Endpoint, NEW k \in 0 .. Len(net[e]), net' = NetAfter(e, k, <<>>)
  PROVE  Takes(e, k) /\ SendsNothing(Peer(e))
<1>1. net \in [Endpoint -> Seq(Message)] /\ Peer(e) \in Endpoint /\ Peer(e) # e
  BY TwoEndpoints DEF TypeOK
<1>2. net'[Peer(e)] = net[Peer(e)] \o <<>>
  BY <1>1 DEF NetAfter
<1>3. net[Peer(e)] \in Seq(Message)
  BY <1>1
<1>4. SendsNothing(Peer(e))
  BY <1>2, <1>3 DEF SendsNothing
<1> QED
  BY <1>4, NetTaken

(* An endpoint's step leaves what the other keeps. *)
LEMMA OtherKept ==
  ASSUME NEW e \in Endpoint, NEW b \in Endpoint, b # e,
         state'[b] = state[b], sessionId'[b] = sessionId[b], running'[b] = running[b], localNonce'[b] = localNonce[b],
         boots'[b] = boots[b], peerBoot'[b] = peerBoot[b]
  PROVE  PeerKept(b)
BY DEF PeerKept, InSessionNow, Waiting, Established

LEMMA ZeroTaken ==
  ASSUME TypeOK, NEW e \in Endpoint
  PROVE  0 \in 0 .. Len(net[e])
<1>1. net[e] \in Seq(Message)
  BY DEF TypeOK
<1> QED
  BY <1>1

LEMMA BootLinks ==
  ASSUME IInv, NEW e \in Endpoint, NEW k \in 0 .. Len(net[e]), Boot(e, k)
  PROVE  LinkStep(e, Peer(e))
<1> DEFINE msg == [MessageOf(e, "kTerminateSession", <<0, 0>>, 0) EXCEPT !.from = boots'[e]]
           b == Peer(e)
<1>1. TypeOK /\ b \in Endpoint /\ b # e
  BY TwoEndpoints DEF IInv
<1>2. boots[e] \in Nat /\ boots'[e] = boots[e] + 1
  BY <1>1 DEF Boot, TypeOK
<1>3. msg \in Message /\ msg.type = "kTerminateSession" /\ msg.from = boots'[e]
  <2>1. MessageOf(e, "kTerminateSession", <<0, 0>>, 0) \in Message
    BY <1>1, MessageOfType DEF MessageType, SessionId, Nonce
  <2>2. MessageOf(e, "kTerminateSession", <<0, 0>>, 0).type = "kTerminateSession"
    BY DEF MessageOf
  <2> QED
    BY <1>2, <2>1, <2>2 DEF Message
<1>4. net' = NetAfter(e, k, <<msg>>)
  BY DEF Boot
<1> HIDE DEF msg
<1>5. Takes(e, k) /\ Sends(b, msg)
  BY <1>1, <1>3, <1>4, NetTakesAndSends
<1>6. PeerKept(b)
  BY <1>1, OtherKept DEF Boot, TypeOK
<1>7. state'[e] = "kNoSessionEstablished"
  BY <1>1 DEF Boot, TypeOK
<1>8. StopStep(e, b, k, msg)
  BY <1>3, <1>5, <1>6, <1>7 DEF StopStep, InSessionNow, Waiting, Established
<1> QED
  BY <1>8 DEF LinkStep

LEMMA TerminateLinks ==
  ASSUME IInv, NEW e \in Endpoint, TerminateSession(e)
  PROVE  LinkStep(e, Peer(e))
<1> DEFINE msg == MessageOf(e, "kTerminateSession", <<0, 0>>, 0)
           b == Peer(e)
<1>1. TypeOK /\ b \in Endpoint /\ b # e
  BY TwoEndpoints DEF IInv
<1>3. msg \in Message /\ msg.type = "kTerminateSession" /\ msg.from = boots'[e]
  <2>1. msg \in Message
    BY <1>1, MessageOfType DEF MessageType, SessionId, Nonce
  <2>2. boots' = boots
    BY DEF TerminateSession
  <2> QED
    BY <2>1, <2>2 DEF MessageOf
<1>4. net' = NetAfter(e, 0, <<msg>>)
  BY DEF TerminateSession
<1> HIDE DEF msg
<1>5. Takes(e, 0) /\ Sends(b, msg)
  BY <1>1, <1>3, <1>4, NetTakesAndSends, ZeroTaken
<1>6. PeerKept(b)
  BY <1>1, OtherKept DEF TerminateSession, TypeOK
<1>7. state'[e] = "kNoSessionEstablished"
  BY <1>1 DEF TerminateSession, TypeOK
<1>8. StopStep(e, b, 0, msg)
  BY <1>3, <1>5, <1>6, <1>7 DEF StopStep, InSessionNow, Waiting, Established
<1> QED
  BY <1>8 DEF LinkStep

(* A start is fresh: no message with its nonce is on the way.               *)
LEMMA StartEffectLinks ==
  ASSUME IInv, NEW e \in Endpoint, NEW k \in 0 .. Len(net[e]), StartSessionEffect(e, k),
         ~InTransit(e, localNonce'[e]), running[e], UNCHANGED <<running, boots>>
  PROVE  LinkStep(e, Peer(e))
<1> DEFINE nonce == RegenerateNonce(localNonce[e])
           msg == MessageOf(e, "kStartSessionInit", <<nonce, 0>>, 0)
           b == Peer(e)
<1>1. TypeOK /\ b \in Endpoint /\ b # e
  BY TwoEndpoints DEF IInv
<1>2. nonce \in Nonce /\ nonce # kInvalidNonce /\ localNonce'[e] = nonce
  BY <1>1, NonceType DEF StartSessionEffect, TypeOK
<1>3. msg \in Message /\ IsInit(msg, localNonce'[e]) /\ msg.from = boots[e]
  <2>1. msg \in Message
    BY <1>1, <1>2, MessageOfType DEF MessageType, SessionId, Nonce
  <2> QED
    BY <1>2, <2>1 DEF MessageOf, IsInit, InitiatorNonce
<1>4. net' = NetAfter(e, k, <<msg>>)
  BY DEF StartSessionEffect
<1> HIDE DEF msg, nonce
<1>5. Takes(e, k) /\ Sends(b, msg)
  BY <1>1, <1>3, <1>4, NetTakesAndSends
<1>6. PeerKept(b)
  BY <1>1, OtherKept DEF StartSessionEffect, TypeOK
<1>7. state'[e] = "kStartSessionSent" /\ running'[e]
  BY <1>1 DEF StartSessionEffect, TypeOK
<1>8. StartStep(e, b, k, msg)
  BY <1>2, <1>3, <1>5, <1>6, <1>7 DEF StartStep, InSessionNow, Waiting, Established, InTransit
<1> QED
  BY <1>8 DEF LinkStep

LEMMA ReplyLinks ==
  ASSUME IInv, NEW e \in Endpoint, NEW c, Received(e, "kStartSessionInit"),
         SendSessionStartReply(e, Head(net[e]), c), UNCHANGED <<running, boots>>
  PROVE  LinkStep(e, Peer(e))
<1> DEFINE m == Head(net[e])
           nonce == RegenerateNonce(localNonce[e])
           sid == <<InitiatorNonce(m.sid), nonce>>
           msg == MessageOf(e, "kStartSessionReply", sid, m.from)
           b == Peer(e)
<1>1. TypeOK /\ b \in Endpoint /\ b # e
  BY TwoEndpoints DEF IInv
<1>2. m \in Message /\ 1 \in 0 .. Len(net[e]) /\ m = net[e][1] /\ m.type = "kStartSessionInit"
  <2>1. net[e] \in Seq(Message) /\ net[e] # <<>>
    BY <1>1 DEF TypeOK, Received
  <2> QED
    BY <1>1, <2>1, FirstMessage DEF Received
<1>3. nonce \in Nonce /\ nonce # kInvalidNonce
  BY <1>1, NonceType DEF TypeOK
<1>4. /\ msg \in Message /\ IsReply(msg, InitiatorNonce(m.sid)) /\ ResponderNonce(msg.sid) # kInvalidNonce
      /\ msg.from = boots[e] /\ msg.to = m.from /\ msg.sid = sid /\ msg.version = Version[e]
  <2>1. sid \in SessionId /\ m.from \in Nat
    BY <1>2, <1>3 DEF Message, SessionId, InitiatorNonce
  <2>2. msg \in Message
    BY <1>1, <2>1, MessageOfType DEF MessageType
  <2> QED
    BY <1>3, <2>2 DEF MessageOf, IsReply, InitiatorNonce, ResponderNonce
<1>5. net' = NetAfter(e, 1, <<msg>>)
  BY DEF SendSessionStartReply
<1>6. /\ peerBoot'[e] = m.from /\ state'[e] = "kSessionEstablished" /\ sessionId'[e] = sid
      /\ PeerKept(b)
  BY <1>1, OtherKept DEF SendSessionStartReply, TypeOK
<1>9. InSessionNow(e)'
  BY <1>6 DEF Received, InSessionNow, Established
<1> HIDE DEF msg, nonce, m
<1>7. Takes(e, 1) /\ Sends(b, msg)
  BY <1>1, <1>2, <1>4, <1>5, NetTakesAndSends
<1>8. ReplyStep(e, b, msg)
  BY <1>2, <1>4, <1>6, <1>7, <1>9 DEF ReplyStep, Waiting
<1> QED
  BY <1>8 DEF LinkStep

(* A step that takes a message, changes no session and answers nothing.     *)
LEMMA SilentLinks ==
  ASSUME IInv, NEW e \in Endpoint, NEW k \in 0 .. 1, k \in 0 .. Len(net[e]),
         net' = NetAfter(e, k, <<>>), PeerKept(Peer(e)),
         UNCHANGED <<boots, localNonce, peerBoot>>,
         InSessionNow(e)' => InSessionNow(e) /\ (k = 1 => ~IsSession(net[e][1])),
         Waiting(e)' => Waiting(e), QuietState(e, k)
  PROVE  LinkStep(e, Peer(e))
<1>1. Takes(e, k) /\ SendsNothing(Peer(e))
  BY NetTakes DEF IInv
<1>2. QuietStep(e, Peer(e), k, 0, FALSE)
  BY <1>1 DEF QuietStep
<1> QED
  BY <1>2 DEF LinkStep

(* A step that sends a log message, or a normal one in a session.           *)
LEMMA LogLinks ==
  ASSUME IInv, NEW e \in Endpoint, NEW k \in 0 .. 1, k \in 0 .. Len(net[e]),
         NEW m \in Message, net' = NetAfter(e, k, <<m>>), PeerKept(Peer(e)),
         UNCHANGED <<boots, localNonce, peerBoot>>,
         InSessionNow(e)' => InSessionNow(e) /\ (k = 1 => ~IsSession(net[e][1])),
         Waiting(e)' => Waiting(e), QuietState(e, k),
         m.from = boots[e], m.type = "kLog"
  PROVE  LinkStep(e, Peer(e))
<1>1. Takes(e, k) /\ Sends(Peer(e), m)
  BY NetTakesAndSends DEF IInv
<1>2. QuietStep(e, Peer(e), k, m, TRUE)
  BY <1>1 DEF QuietStep
<1> QED
  BY <1>2 DEF LinkStep

LEMMA NormalLinks ==
  ASSUME IInv, NEW e \in Endpoint, NEW k \in 0 .. 1, k \in 0 .. Len(net[e]),
         NEW m \in Message, net' = NetAfter(e, k, <<m>>), PeerKept(Peer(e)),
         UNCHANGED <<boots, localNonce, peerBoot>>,
         InSessionNow(e)' => InSessionNow(e) /\ (k = 1 => ~IsSession(net[e][1])),
         Waiting(e)' => Waiting(e), QuietState(e, k),
         m.from = boots[e], m.type = "kNormal", InSessionNow(e), m.to = peerBoot[e]
  PROVE  LinkStep(e, Peer(e))
<1>1. Takes(e, k) /\ Sends(Peer(e), m)
  BY NetTakesAndSends DEF IInv
<1>2. QuietStep(e, Peer(e), k, m, TRUE)
  BY <1>1 DEF QuietStep
<1> QED
  BY <1>2 DEF LinkStep

LEMMA ApplicationLinks ==
  ASSUME IInv, LinksInv, FreshStart, NEW e \in Endpoint, Application(e)
  PROVE  LinkStep(e, Peer(e))
<1> DEFINE b == Peer(e)
<1>1. TypeOK /\ b \in Endpoint /\ b # e /\ 0 \in 0 .. Len(net[e])
  BY TwoEndpoints, ZeroTaken DEF IInv
<1>2. CASE StartSession(e) /\ state[e] = "kReset"
  <2>1. /\ UNCHANGED <<state, sessionId, localNonce, net, boots, peerBoot>> /\ running[e]
        /\ running' = [running EXCEPT ![e] = FALSE]
    BY <1>2 DEF StartSession, sessionVars
  <2>5. QuietState(e, 0)
    BY <2>1 DEF QuietState
  <2>2. PeerKept(b)
    BY <1>1, <2>1, OtherKept DEF TypeOK
  <2>3. ~InSessionNow(e)' /\ ~Waiting(e)'
    BY <1>1, <2>1 DEF InSessionNow, Waiting, TypeOK
  <2>4. net' = NetAfter(e, 0, <<>>)
    <3>1. net \in [Endpoint -> Seq(Message)]
      BY <1>1 DEF TypeOK
    <3>2. SubSeq(net[e], 0 + 1, Len(net[e])) = net[e] /\ net[b] \o <<>> = net[b]
      BY <1>1, <3>1
    <3> QED
      BY <1>1, <2>1, <3>1, <3>2 DEF NetAfter
  <2> QED
    BY <1>1, <2>1, <2>2, <2>3, <2>4, <2>5, SilentLinks
<1>3. CASE StartSession(e) /\ state[e] # "kReset"
  <2>1. StartSessionEffect(e, 0) /\ running[e] /\ UNCHANGED <<running, boots>>
    BY <1>3 DEF StartSession
  <2>2. ~InTransit(e, localNonce'[e])
    BY <2>1 DEF FreshStart
  <2> QED
    BY <1>1, <2>1, <2>2, StartEffectLinks
<1>4. CASE TerminateSession(e)
  BY <1>4, TerminateLinks
<1>5. CASE SendRequest(e)
  <2> DEFINE msg == MessageOf(e, "kNormal", sessionId[e], peerBoot[e])
  <2>1. msg \in Message /\ msg.from = boots[e] /\ msg.type = "kNormal" /\ msg.to = peerBoot[e]
    <3>1. sessionId[e] \in SessionId /\ peerBoot[e] \in Nat /\ "kNormal" \in MessageType
      BY <1>1 DEF TypeOK, MessageType
    <3> QED
      BY <1>1, <3>1, MessageOfType DEF MessageOf
  <2>2. /\ net' = NetAfter(e, 0, <<msg>>) /\ InSessionNow(e)
        /\ UNCHANGED <<state, sessionId, localNonce, running, boots, peerBoot>>
    BY <1>5 DEF SendRequest, InSessionNow, Established, sessionVars, ghostVars
  <2> HIDE DEF msg
  <2>3. PeerKept(b) /\ (InSessionNow(e)' <=> InSessionNow(e)) /\ (Waiting(e)' <=> Waiting(e))
    BY <1>1, <2>2, OtherKept DEF InSessionNow, Waiting, Established
  <2>4. QuietState(e, 0)
    BY <2>2 DEF QuietState, InSessionNow
  <2> QED
    BY <1>1, <2>1, <2>2, <2>3, <2>4, NormalLinks
<1>6. CASE SendLog(e)
  <2> DEFINE msg == MessageOf(e, "kLog", <<0, 0>>, 0)
  <2>1. msg \in Message /\ msg.from = boots[e] /\ msg.type = "kLog"
    <3>1. <<0, 0>> \in SessionId /\ "kLog" \in MessageType
      BY DEF MessageType, SessionId, Nonce
    <3> QED
      BY <1>1, <3>1, MessageOfType DEF MessageOf
  <2>2. /\ net' = NetAfter(e, 0, <<msg>>) /\ running[e]
        /\ UNCHANGED <<state, sessionId, localNonce, running, boots, peerBoot>>
    BY <1>6 DEF SendLog, sessionVars, ghostVars
  <2> HIDE DEF msg
  <2>3. PeerKept(b) /\ (InSessionNow(e)' <=> InSessionNow(e)) /\ (Waiting(e)' <=> Waiting(e))
    BY <1>1, <2>2, OtherKept DEF InSessionNow, Waiting, Established
  <2>4. QuietState(e, 0)
    BY <2>2 DEF QuietState
  <2> QED
    BY <1>1, <2>1, <2>2, <2>3, <2>4, LogLinks
<1> QED
  BY <1>2, <1>3, <1>4, <1>5, <1>6 DEF Application

LEMMA FirstIsHead ==
  ASSUME TypeOK, NEW e \in Endpoint, net[e] # <<>>
  PROVE  Head(net[e]) = net[e][1] /\ 1 \in 0 .. Len(net[e]) /\ 1 \in Places(e) /\ Head(net[e]) \in Message
<1>1. net[e] \in Seq(Message)
  BY DEF TypeOK
<1> QED
  BY <1>1, FirstMessage DEF Places

LEMMA InitMessageLinks ==
  ASSUME IInv, LinksInv, FreshStart, NEW e \in Endpoint, ProcessStartSessionInit(e)
  PROVE  LinkStep(e, Peer(e))
<1> DEFINE m == Head(net[e])
           b == Peer(e)
<1>1. TypeOK /\ b \in Endpoint /\ b # e /\ Received(e, "kStartSessionInit") /\ net[e] # <<>>
      /\ running[e] /\ UNCHANGED <<running, boots>> /\ m.type = "kStartSessionInit"
  BY TwoEndpoints DEF IInv, ProcessStartSessionInit, Received
<1>2. m = net[e][1] /\ 1 \in 0 .. Len(net[e]) /\ 1 \in Places(e)
  BY <1>1, FirstIsHead
<1>3. InitiatorNonce(m.sid) # kInvalidNonce
  <2>1. NoncesValid(b, e)
    BY <1>1, TwoEndpoints DEF LinksInv, LinkInv
  <2> QED
    BY <1>1, <1>2, <2>1 DEF NoncesValid
<1>4. \/ state[e] = "kStartSessionSent" /\ Ignore(e)
      \/ SendSessionStartReply(e, m, 1)
      \/ SendSessionStartReply(e, m, 2)
      \/ StartSessionEffect(e, 1)
  <2> HIDE DEF m
  <2>1. \/ state[e] = "kStartSessionSent" /\ CrossedInit(e, m)
        \/ SendSessionStartReply(e, m, 2)
        \/ SendSessionStartReply(e, m, 1)
    BY <1>3 DEF ProcessStartSessionInit, m
  <2>2. CrossedInit(e, m) => SendSessionStartReply(e, m, 1) \/ StartSessionEffect(e, 1) \/ Ignore(e)
    BY DEF CrossedInit
  <2> QED
    BY <2>1, <2>2
<1>5. CASE state[e] = "kStartSessionSent" /\ Ignore(e)
  <2>1. /\ net' = NetAfter(e, 1, <<>>)
        /\ UNCHANGED <<state, sessionId, localNonce, boots, peerBoot, running>>
    BY <1>1, <1>5 DEF Ignore, sessionVars
  <2>2. PeerKept(b) /\ ~InSessionNow(e)' /\ (Waiting(e)' <=> Waiting(e))
    BY <1>1, <1>5, <2>1, OtherKept DEF InSessionNow, Waiting, Established
  <2>3. QuietState(e, 1)
    BY <1>1, <1>2, <2>1 DEF QuietState, IsReply
  <2> QED
    BY <1>2, <2>1, <2>2, <2>3, SilentLinks
<1>6. CASE SendSessionStartReply(e, m, 1) \/ SendSessionStartReply(e, m, 2)
  BY <1>1, <1>6, ReplyLinks
<1>7. CASE StartSessionEffect(e, 1)
  <2>1. ~InTransit(e, localNonce'[e])
    BY <1>7 DEF FreshStart
  <2> QED
    BY <1>1, <1>2, <1>7, <2>1, StartEffectLinks
<1> QED
  BY <1>4, <1>5, <1>6, <1>7

LEMMA ReplyMessageLinks ==
  ASSUME IInv, LinksInv, NEW e \in Endpoint, ProcessStartSessionReply(e)
  PROVE  LinkStep(e, Peer(e))
<1> DEFINE m == Head(net[e])
           b == Peer(e)
           Accept ==
             /\ state[e] = "kStartSessionSent" /\ ReplyMatches(e, m)
             /\ state' = [state EXCEPT ![e] = "kSessionEstablished"]
             /\ sessionId' = [sessionId EXCEPT ![e] = <<localNonce[e], ResponderNonce(m.sid)>>]
             /\ peerBoot' = [peerBoot EXCEPT ![e] = m.from]
             /\ net' = NetAfter(e, 1, <<>>)
             /\ UNCHANGED localNonce
<1>1. TypeOK /\ b \in Endpoint /\ b # e /\ net[e] # <<>> /\ running[e]
      /\ UNCHANGED <<running, boots>> /\ m.type = "kStartSessionReply"
  BY TwoEndpoints DEF IInv, ProcessStartSessionReply, Received
<1>2. m = net[e][1] /\ 1 \in 0 .. Len(net[e]) /\ 1 \in Places(e)
  BY <1>1, FirstIsHead
<1>3. ResponderNonce(m.sid) # kInvalidNonce
  <2>1. NoncesValid(b, e)
    BY <1>1, TwoEndpoints DEF LinksInv, LinkInv
  <2> QED
    BY <1>1, <1>2, <2>1 DEF NoncesValid
<1>4. \/ Accept
      \/ GoToReset(e) /\ Established(e)
      \/ ~Established(e) /\ Ignore(e) /\ ~(state[e] = "kStartSessionSent" /\ ReplyMatches(e, m))
  BY <1>3 DEF ProcessStartSessionReply, Established
<1>5. CASE Accept
  <2>1. Takes(e, 1) /\ SendsNothing(b)
    BY <1>1, <1>2, <1>5, NetTakes
  <2>2. PeerKept(b)
    BY <1>1, <1>5, OtherKept DEF TypeOK
  <2>3. /\ state'[e] = "kSessionEstablished" /\ peerBoot'[e] = m.from
        /\ sessionId'[e] = <<localNonce[e], ResponderNonce(m.sid)>>
    BY <1>1, <1>5 DEF TypeOK
  <2>6. sessionId'[e] = m.sid
    <3>1. m.sid \in SessionId
      BY <1>1, FirstIsHead DEF Message
    <3>2. InitiatorNonce(m.sid) = localNonce[e]
      BY <1>5 DEF ReplyMatches
    <3> HIDE DEF m
    <3> QED
      BY <2>3, <3>1, <3>2 DEF SessionId, InitiatorNonce, ResponderNonce
  <2>7. InSessionNow(e)'
    BY <1>1, <2>3 DEF InSessionNow, Established
  <2>4. Waiting(e) /\ ~Waiting(e)' /\ IsReply(m, localNonce[e])
    BY <1>1, <1>5, <2>3 DEF Waiting, IsReply, ReplyMatches
  <2>5. AcceptStep(e, b)
    BY <1>1, <1>2, <2>1, <2>2, <2>3, <2>4, <2>6, <2>7 DEF AcceptStep
  <2> QED
    BY <2>5 DEF LinkStep
<1>6. CASE GoToReset(e) /\ Established(e)
  <2>1. net' = NetAfter(e, 1, <<>>) /\ UNCHANGED <<localNonce, sessionId, boots, peerBoot, running>>
        /\ state' = [state EXCEPT ![e] = "kReset"]
    BY <1>1, <1>6 DEF GoToReset
  <2>2. PeerKept(b) /\ ~InSessionNow(e)' /\ ~Waiting(e)'
    BY <1>1, <2>1, OtherKept DEF InSessionNow, Waiting, Established, TypeOK
  <2>3. QuietState(e, 1)
    <3>1. state'[e] = "kReset" /\ IsSession(net[e][1]) /\ ~Waiting(e)
      BY <1>1, <1>2, <1>6, <2>1 DEF IsSession, SessionType, Waiting, Established, TypeOK
    <3> QED
      BY <1>1, <1>6, <2>1, <3>1 DEF QuietState
  <2> QED
    BY <1>2, <2>1, <2>2, <2>3, SilentLinks
<1>7. CASE ~Established(e) /\ Ignore(e) /\ ~(state[e] = "kStartSessionSent" /\ ReplyMatches(e, m))
  <2>1. /\ net' = NetAfter(e, 1, <<>>)
        /\ UNCHANGED <<state, sessionId, localNonce, boots, peerBoot, running>>
    BY <1>1, <1>7 DEF Ignore, sessionVars
  <2>2. PeerKept(b) /\ ~InSessionNow(e)' /\ (Waiting(e)' <=> Waiting(e))
    BY <1>1, <1>7, <2>1, OtherKept DEF InSessionNow, Waiting, Established
  <2>3. QuietState(e, 1)
    BY <1>1, <1>2, <1>7, <2>1 DEF QuietState, Waiting, IsReply, ReplyMatches
  <2> QED
    BY <1>2, <2>1, <2>2, <2>3, SilentLinks
<1> QED
  BY <1>4, <1>5, <1>6, <1>7

LEMMA TerminateMessageLinks ==
  ASSUME IInv, NEW e \in Endpoint, ProcessTerminateSession(e)
  PROVE  LinkStep(e, Peer(e))
<1> DEFINE b == Peer(e)
<1>1. /\ TypeOK /\ b \in Endpoint /\ b # e /\ net[e] # <<>> /\ running[e]
      /\ Head(net[e]).type = "kTerminateSession"
      /\ net' = NetAfter(e, 1, <<>>) /\ UNCHANGED <<localNonce, sessionId, boots, peerBoot, running>>
      /\ \/ Established(e) /\ state' = [state EXCEPT ![e] = "kNoSessionEstablished"]
         \/ ~Established(e) /\ UNCHANGED state
  BY TwoEndpoints DEF IInv, ProcessTerminateSession, Received, Established
<1>2. 1 \in 0 .. Len(net[e]) /\ net[e][1].type = "kTerminateSession"
  BY <1>1, FirstIsHead
<1>5. QuietState(e, 1)
  BY <1>1, <1>2 DEF QuietState, IsReply, IsSession, SessionType, TypeOK
<1>3. PeerKept(b)
  BY <1>1, OtherKept DEF TypeOK
<1>4. ~InSessionNow(e)' /\ (Waiting(e)' => Waiting(e))
  BY <1>1 DEF InSessionNow, Waiting, Established, TypeOK
<1> QED
  BY <1>1, <1>2, <1>3, <1>4, <1>5, SilentLinks

LEMMA OtherMessageLinks ==
  ASSUME IInv, NEW e \in Endpoint, ProcessLog(e) \/ ProcessNormal(e) \/ ReceiveBusy(e)
  PROVE  LinkStep(e, Peer(e))
<1> DEFINE b == Peer(e)
<1>1. TypeOK /\ b \in Endpoint /\ b # e /\ net[e] # <<>>
      /\ running[e] /\ UNCHANGED <<state, sessionId, localNonce, boots, peerBoot>>
  BY TwoEndpoints
  DEF IInv, ProcessLog, ProcessNormal, ReceiveBusy, Received, sessionVars, ghostVars
<1>2. Head(net[e]) = net[e][1] /\ 1 \in 0 .. Len(net[e])
  BY <1>1, FirstIsHead
<1>3. CASE ProcessLog(e) \/ ProcessNormal(e)
  <2>1. UNCHANGED running /\ ~IsSession(net[e][1]) /\ running[e]
    BY <1>2, <1>3 DEF ProcessLog, ProcessNormal, Received, IsSession, SessionType
  <2>2. PeerKept(b) /\ (InSessionNow(e)' <=> InSessionNow(e)) /\ (Waiting(e)' <=> Waiting(e))
    BY <1>1, <2>1, OtherKept DEF InSessionNow, Waiting, Established
  <2>7. QuietState(e, 1)
    BY <1>1, <2>1 DEF QuietState, IsReply, IsSession, SessionType
  <2> DEFINE msg == MessageOf(e, "kNormal", sessionId[e], peerBoot[e])
  <2>3. msg \in Message /\ msg.from = boots[e] /\ msg.type = "kNormal" /\ msg.to = peerBoot[e]
    <3>1. sessionId[e] \in SessionId /\ peerBoot[e] \in Nat /\ "kNormal" \in MessageType
      BY <1>1 DEF TypeOK, MessageType
    <3> QED
      BY <1>1, <3>1, MessageOfType DEF MessageOf
  <2>4. \/ net' = NetAfter(e, 1, <<>>)
        \/ InSessionNow(e) /\ net' = NetAfter(e, 1, <<msg>>)
    <3>1. ProcessLog(e) => net' = NetAfter(e, 1, <<>>)
      BY DEF ProcessLog
    <3>2. CASE ProcessNormal(e) /\ InSession(e, Head(net[e]))
      <4>1. InSessionNow(e)
        BY <2>1, <3>2 DEF InSession, InSessionNow, Established
      <4>2. net' = NetAfter(e, 1, IF e \in Requesters THEN <<>> ELSE <<msg>>)
        BY <3>2 DEF ProcessNormal, msg
      <4> QED
        BY <4>1, <4>2
    <3>3. ProcessNormal(e) /\ ~InSession(e, Head(net[e])) => net' = NetAfter(e, 1, <<>>)
      BY DEF ProcessNormal
    <3> QED
      BY <1>3, <3>1, <3>2, <3>3
  <2> HIDE DEF msg
  <2>5. CASE net' = NetAfter(e, 1, <<>>)
    BY <1>1, <1>2, <2>1, <2>2, <2>5, <2>7, SilentLinks
  <2>6. CASE InSessionNow(e) /\ net' = NetAfter(e, 1, <<msg>>)
    BY <1>1, <1>2, <2>1, <2>2, <2>3, <2>6, <2>7, NormalLinks
  <2> QED
    BY <2>4, <2>5, <2>6
<1>4. CASE ReceiveBusy(e)
  <2> DEFINE msg == MessageOf(e, "kLog", <<0, 0>>, 0)
  <2>1. msg \in Message /\ msg.from = boots[e] /\ msg.type = "kLog"
    <3>1. <<0, 0>> \in SessionId /\ "kLog" \in MessageType
      BY DEF MessageType, SessionId, Nonce
    <3> QED
      BY <1>1, <3>1, MessageOfType DEF MessageOf
  <2>2. net' = NetAfter(e, 1, <<msg>>) /\ running' = [running EXCEPT ![e] = FALSE]
    BY <1>4 DEF ReceiveBusy
  <2> HIDE DEF msg
  <2>3. PeerKept(b) /\ ~InSessionNow(e)' /\ ~Waiting(e)'
    BY <1>1, <2>2, OtherKept DEF InSessionNow, Waiting, Established, TypeOK
  <2>4. QuietState(e, 1)
    BY <1>1, <2>2 DEF QuietState, TypeOK
  <2> QED
    BY <1>1, <1>2, <2>1, <2>2, <2>3, <2>4, LogLinks
<1> QED
  BY <1>3, <1>4
-----------------------------------------------------------------------------
LEMMA InitLinks == Init => LinksInv
<1> SUFFICES ASSUME Init, NEW p \in Endpoint PROVE LinkInv(p, Peer(p))
  BY DEF LinksInv
<1> DEFINE e == Peer(p)
<1>1. /\ e \in Endpoint /\ Places(e) = {} /\ Places(p) = {} /\ ~(Len(net[e]) > 0)
      /\ ~InSessionNow(p) /\ ~InSessionNow(e) /\ ~Waiting(p)
  BY TwoEndpoints DEF Init, Places, InSessionNow, Waiting
<1> HIDE DEF e
<1>2. NoncesValid(p, e) /\ BootsInOrder(p, e) /\ NormalAfterReply(p, e)
  BY <1>1 DEF NoncesValid, BootsInOrder, NormalAfterReply
<1>3. NextFromSession(p, e) /\ LastSent(p, e) /\ OneInit(p, e) /\ ReplyToThis(p, e)
      /\ Agreed(p, e) /\ NormalForThis(p, e)
  BY <1>1 DEF NextFromSession, LastSent, OneInit, ReplyToThis, Agreed, NormalForThis
<1> QED
  BY <1>2, <1>3 DEF LinkInv, e

LEMMA StutterKeepsLinks ==
  ASSUME LinksInv, UNCHANGED vars
  PROVE  LinksInv'
<1> SUFFICES ASSUME NEW p \in Endpoint PROVE LinkInv(p, Peer(p))'
  BY DEF LinksInv
<1> DEFINE e == Peer(p)
<1>1. LinkInv(p, e)
  BY DEF LinksInv
<1> HIDE DEF e
<1>2. /\ UNCHANGED <<net, boots, peerBoot, localNonce>>
      /\ InSessionNow(p)' <=> InSessionNow(p)
      /\ InSessionNow(e)' <=> InSessionNow(e)
      /\ Waiting(p)' <=> Waiting(p)
  BY DEF vars, sessionVars, ghostVars, InSessionNow, Waiting, Established
<1>3. NoncesValid(p, e)' /\ BootsInOrder(p, e)' /\ NormalAfterReply(p, e)'
  BY <1>1, <1>2 DEF LinkInv, NoncesValid, BootsInOrder, NormalAfterReply, Places
<1>4. LastSent(p, e)' /\ OneInit(p, e)' /\ ReplyToThis(p, e)'
  BY <1>1, <1>2 DEF LinkInv, LastSent, OneInit, ReplyToThis, Places, LastSession
<1>5. NextFromSession(p, e)' /\ Agreed(p, e)' /\ NormalForThis(p, e)'
  BY <1>1, <1>2 DEF LinkInv, NextFromSession, Agreed, NormalForThis, Places, NoSession, NoSessionBefore
<1> QED
  BY <1>3, <1>4, <1>5 DEF LinkInv, e

LEMMA StepKeepsLinks ==
  ASSUME IInv, LinksInv, [Next]_vars, FreshStart
  PROVE  LinksInv'
<1>1. CASE UNCHANGED vars
  BY <1>1, StutterKeepsLinks
<1>2. CASE Next
  <2>1. PICK e \in Endpoint :
          (\E k \in 0 .. Len(net[e]) : Boot(e, k)) \/ Application(e) \/ Receive(e)
    BY <1>2 DEF Next
  <2>2. LinkStep(e, Peer(e))
    BY <2>1, BootLinks, ApplicationLinks, InitMessageLinks, ReplyMessageLinks,
       TerminateMessageLinks, OtherMessageLinks DEF Receive
  <2> QED
    BY <2>2, LinkStepKeeps
<1> QED
  BY <1>1, <1>2

(* What a normal message says of itself when it is taken in a session.      *)
LEMMA TakenInSession ==
  ASSUME IInv, LinksInv, NoStaleDelivery, NEW e \in Endpoint, ProcessNormal(e)
  PROVE  NoStaleDelivery'
<1> DEFINE m == Head(net[e])
           b == Peer(e)
<1>1. TypeOK /\ running[e] /\ net[e] # <<>> /\ m.type = "kNormal"
  BY DEF IInv, ProcessNormal, Received
<1>2. m = net[e][1] /\ 1 \in Places(e) /\ Len(net[e]) > 0
  BY <1>1, FirstIsHead DEF Places
<1>3. NextFromSession(b, e) /\ NormalForThis(b, e)
  BY TwoEndpoints DEF LinksInv, LinkInv
<1>4. CASE InSession(e, m)
  <2>1. accepted' = [from |-> m.from, to |-> m.to, wantFrom |-> peerBoot[e], wantTo |-> boots[e]]
    BY <1>4 DEF ProcessNormal
  <2>2. InSessionNow(e)
    BY <1>1, <1>4 DEF InSession, InSessionNow, Established
  <2>3. m.from = peerBoot[e]
    BY <1>1, <1>2, <1>3, <2>2 DEF NextFromSession
  <2>4. NoSessionBefore(e, 1)
    BY DEF NoSessionBefore, Places
  <2>5. m.to = boots[e]
    BY <1>1, <1>2, <1>3, <2>2, <2>4 DEF NormalForThis
  <2> HIDE DEF m
  <2> QED
    BY <2>1, <2>3, <2>5 DEF NoStaleDelivery
<1>5. CASE ~InSession(e, m)
  BY <1>5 DEF ProcessNormal, NoStaleDelivery
<1> QED
  BY <1>4, <1>5

LEMMA StepDeliversRight ==
  ASSUME IInv, LinksInv, NoStaleDelivery, [Next]_vars
  PROVE  NoStaleDelivery'
<1>1. CASE UNCHANGED vars
  BY <1>1 DEF vars, ghostVars, NoStaleDelivery
<1>2. CASE Next
  <2>1. PICK e \in Endpoint :
          (\E k \in 0 .. Len(net[e]) : Boot(e, k)) \/ Application(e) \/ Receive(e)
    BY <1>2 DEF Next
  <2>2. ProcessNormal(e) \/ UNCHANGED accepted
    BY <2>1
    DEF Boot, Application, StartSession, TerminateSession, SendRequest, SendLog, Receive,
        ProcessStartSessionInit, ProcessStartSessionReply, ProcessTerminateSession, ProcessLog,
        ReceiveBusy, ghostVars
  <2>3. UNCHANGED accepted => NoStaleDelivery'
    BY DEF NoStaleDelivery
  <2> QED
    BY <2>2, <2>3, TakenInSession
<1> QED
  BY <1>1, <1>2

(* No stale delivery: as long as no endpoint starts a session with a nonce  *)
(* that a message still on its way carries, a normal message is given to an *)
(* application only in the session, and between the boots, it was sent in,  *)
(* whichever of the two sides is reset, starts, terminates or exits, and    *)
(* whatever a reset loses.                                                  *)
THEOREM NothingStale == Spec /\ NoncesFresh => []NoStaleDelivery
<1> DEFINE Inv == IInv /\ LinksInv /\ NoStaleDelivery
<1>1. Init => Inv
  <2>1. Init => NoStaleDelivery
    BY DEF Init, NoStaleDelivery, NoMessage
  <2> QED
    BY <2>1, InitIInv, InitLinks
<1>2. Inv /\ [Next]_vars /\ [FreshStart]_vars => Inv'
  <2> SUFFICES ASSUME Inv, [Next]_vars, [FreshStart]_vars PROVE Inv'
    OBVIOUS
  <2>1. IInv' /\ NoStaleDelivery'
    BY StepKeepsIInv, StepDeliversRight
  <2>2. CASE FreshStart
    BY <2>1, <2>2, StepKeepsLinks
  <2>3. CASE UNCHANGED vars
    BY <2>1, <2>3, StutterKeepsLinks
  <2> QED
    BY <2>2, <2>3
<1>3. Inv => NoStaleDelivery
  OBVIOUS
<1> QED
  BY <1>1, <1>2, <1>3, PTL DEF Spec, NoncesFresh

-----------------------------------------------------------------------------
(* One side starts.  In the program only the host calls StartSession; s is  *)
(* the endpoint that does, d its peer.                                      *)
SameVersion == \A e, p \in Endpoint : Version[e] = Version[p]

NoneBehind(e, i, type) == \A j \in Places(e) : j > i => net[e][j].type # type

OneStarts(s, d) ==
  /\ state[d] # "kStartSessionSent"
  /\ NoneBehind(s, 0, "kStartSessionInit")
  /\ NoneBehind(d, 0, "kStartSessionReply")

(* Once the reply s waits for, or has taken, was sent, nothing that changes *)
(* a session is left for d, and no other reply follows.                     *)
OneReply(s, d) ==
  /\ Waiting(s) => \A i \in Places(s) : IsReply(net[s][i], localNonce[s]) =>
       NoSession(d) /\ NoneBehind(s, i, "kStartSessionReply")
  /\ InSessionNow(s) => NoSession(d) /\ NoneBehind(s, 0, "kStartSessionReply")

OneSided(s, d) == OneStarts(s, d) /\ OneReply(s, d)

-----------------------------------------------------------------------------
LEMMA TakenNone ==
  ASSUME NEW a, NEW k, Takes(a, k), NEW t
  PROVE  /\ NoSession(a) => NoSession(a)'
         /\ NoneBehind(a, 0, t) => NoneBehind(a, 0, t)'
         /\ \A i \in Nat : NoneBehind(a, i, t)' <=> NoneBehind(a, i + k, t)
<1>0. /\ Len(net[a]) \in Nat /\ k \in Nat
      /\ Places(a) = 1 .. Len(net[a]) /\ Places(a)' = 1 .. Len(net[a]) - k
      /\ \A i \in Places(a)' : i \in Nat /\ i + k \in Places(a) /\ net'[a][i] = net[a][i + k]
  BY TakenQueue DEF Places
<1>1. NoSession(a) => NoSession(a)'
  BY <1>0 DEF NoSession
<1>2. ASSUME NoneBehind(a, 0, t) PROVE NoneBehind(a, 0, t)'
  <2> SUFFICES ASSUME NEW j \in Places(a)', j > 0 PROVE net'[a][j].type # t
    BY DEF NoneBehind
  <2>1. j + k \in Places(a) /\ j + k > 0 /\ net'[a][j] = net[a][j + k]
    BY <1>0
  <2>2. net[a][j + k].type # t
    BY <1>2, <2>1 DEF NoneBehind
  <2> QED
    BY <2>1, <2>2
<1>3. ASSUME NEW i \in Nat PROVE NoneBehind(a, i, t)' <=> NoneBehind(a, i + k, t)
  <2>1. ASSUME NoneBehind(a, i + k, t), NEW j \in Places(a)', j > i PROVE net'[a][j].type # t
    <3>1. j + k \in Places(a) /\ j + k > i + k
      BY <1>0, <2>1
    <3> QED
      BY <1>0, <2>1, <3>1 DEF NoneBehind
  <2>2. ASSUME NoneBehind(a, i, t)', NEW j \in Places(a), j > i + k PROVE net[a][j].type # t
    <3>1. j - k \in Places(a)' /\ j - k > i /\ (j - k) + k = j
      BY <1>0, <2>2
    <3>2. net'[a][j - k] = net[a][j]
      BY <1>0, <3>1
    <3> QED
      BY <2>2, <3>1, <3>2 DEF NoneBehind
  <2> QED
    BY <2>1, <2>2 DEF NoneBehind
<1> QED
  BY <1>1, <1>2, <1>3

LEMMA SentNone ==
  ASSUME NEW b, NEW m, Sends(b, m), NEW t
  PROVE  /\ NoSession(b)' <=> NoSession(b) /\ ~IsSession(m)
         /\ NoneBehind(b, 0, t)' <=> NoneBehind(b, 0, t) /\ m.type # t
         /\ \A i \in Places(b) : NoneBehind(b, i, t)' <=> NoneBehind(b, i, t) /\ m.type # t
<1>0. /\ Len(net'[b]) \in Nat /\ Len(net'[b]) > 0
      /\ Places(b)' = Places(b) \cup {Len(net'[b])}
      /\ \A i \in Places(b) : i \in Nat /\ i < Len(net'[b]) /\ net'[b][i] = net[b][i]
      /\ net'[b][Len(net'[b])] = m
  BY SentQueue
<1>1. NoneBehind(b, 0, t)' <=> NoneBehind(b, 0, t) /\ m.type # t
  BY <1>0 DEF NoneBehind
<1>2. \A i \in Places(b) : NoneBehind(b, i, t)' <=> NoneBehind(b, i, t) /\ m.type # t
  BY <1>0 DEF NoneBehind
<1> QED
  BY <1>1, <1>2, SentLast

(* A step of the one that starts.                                           *)
LEMMA StarterKeepsOneSided ==
  ASSUME NEW s, NEW d, LinkInv(s, d), LinkInv(d, s), OneSided(s, d), LinkStep(s, d)
  PROVE  OneSided(s, d)'
<1>1. ASSUME NEW k, NEW m, NEW sent, QuietStep(s, d, k, m, sent)
      PROVE  OneSided(s, d)'
  <2>1. /\ Takes(s, k) /\ PeerKept(d) /\ (IF sent THEN Sends(d, m) ELSE SendsNothing(d)) /\ k \in 0 .. 1
        /\ localNonce'[s] = localNonce[s]
        /\ InSessionNow(s)' => InSessionNow(s)
        /\ Waiting(s)' => Waiting(s)
        /\ sent => m.type \in {"kLog", "kNormal"}
    BY <1>1 DEF QuietStep
  <2>2. /\ NoSession(d) => NoSession(d)'
        /\ NoneBehind(d, 0, "kStartSessionReply")'
    <3>1. CASE sent
      <4>1. Sends(d, m) /\ ~IsSession(m) /\ m.type # "kStartSessionReply"
        BY <2>1, <3>1 DEF IsSession, SessionType
      <4> QED
        BY <4>1, SentNone DEF OneSided, OneStarts
    <3>2. CASE ~sent
      BY <2>1, <3>2 DEF SendsNothing, NoSession, NoneBehind, Places, OneSided, OneStarts
    <3> QED
      BY <3>1, <3>2
  <2>3. OneStarts(s, d)'
    BY <2>1, <2>2, TakenNone DEF OneSided, OneStarts, PeerKept
  <2>4. OneReply(s, d)'
    <3>1. ASSUME Waiting(s)', NEW i \in Places(s)', IsReply(net'[s][i], localNonce'[s])
          PROVE  NoSession(d)' /\ NoneBehind(s, i, "kStartSessionReply")'
      <4>1. i \in Nat /\ i + k \in Places(s) /\ net'[s][i] = net[s][i + k]
        BY <2>1, TakenQueue
      <4>2. NoSession(d) /\ NoneBehind(s, i + k, "kStartSessionReply")
        BY <2>1, <3>1, <4>1 DEF OneSided, OneReply
      <4> QED
        BY <2>1, <2>2, <4>1, <4>2, TakenNone
    <3>2. InSessionNow(s)' => NoSession(d)' /\ NoneBehind(s, 0, "kStartSessionReply")'
      BY <2>1, <2>2, TakenNone DEF OneSided, OneReply
    <3> QED
      BY <3>1, <3>2 DEF OneReply
  <2> QED
    BY <2>3, <2>4 DEF OneSided
<1>2. ASSUME NEW k, NEW m, StopStep(s, d, k, m)
      PROVE  OneSided(s, d)'
  <2>1. Takes(s, k) /\ PeerKept(d) /\ Sends(d, m) /\ ~InSessionNow(s)' /\ ~Waiting(s)'
        /\ m.type = "kTerminateSession"
    BY <1>2 DEF StopStep
  <2> QED
    BY <2>1, TakenNone, SentNone DEF OneSided, OneStarts, OneReply, PeerKept
<1>3. ASSUME NEW k, NEW m, StartStep(s, d, k, m)
      PROVE  OneSided(s, d)'
  <2>1. /\ Takes(s, k) /\ PeerKept(d) /\ Sends(d, m) /\ ~InSessionNow(s)'
        /\ m.type = "kStartSessionInit"
        /\ \A i \in Places(s) : ~IsReply(net[s][i], localNonce'[s])
    BY <1>3 DEF StartStep, IsInit
  <2>2. \A i \in Places(s)' : ~IsReply(net'[s][i], localNonce'[s])
    BY <2>1, TakenQueue
  <2> QED
    BY <2>1, <2>2, TakenNone, SentNone DEF OneSided, OneStarts, OneReply, PeerKept
<1>4. ASSUME NEW m, ReplyStep(s, d, m)
      PROVE  FALSE
  <2>1. Takes(s, 1) /\ net[s][1].type = "kStartSessionInit"
    BY <1>4 DEF ReplyStep
  <2>2. 1 \in Places(s)
    BY <2>1 DEF Takes, Places
  <2> QED
    BY <2>1, <2>2 DEF OneSided, OneStarts, NoneBehind
<1>5. CASE AcceptStep(s, d)
  <2>1. /\ Takes(s, 1) /\ PeerKept(d) /\ SendsNothing(d) /\ IsReply(net[s][1], localNonce[s])
        /\ Waiting(s) /\ ~Waiting(s)'
    BY <1>5 DEF AcceptStep
  <2>2. 1 \in Places(s)
    BY <2>1 DEF Takes, Places
  <2>3. NoSession(d) /\ NoneBehind(s, 1, "kStartSessionReply")
    BY <2>1, <2>2 DEF OneSided, OneReply
  <2>4. NoSession(d)' /\ (NoneBehind(d, 0, "kStartSessionReply") => NoneBehind(d, 0, "kStartSessionReply")')
    BY <2>1, <2>3 DEF SendsNothing, NoSession, NoneBehind, Places
  <2>5. NoneBehind(s, 0, "kStartSessionReply")'
    <3>1. 0 \in Nat /\ 0 + 1 = 1
      OBVIOUS
    <3> QED
      BY <2>1, <2>3, <3>1, TakenNone
  <2> QED
    BY <2>1, <2>4, <2>5, TakenNone DEF OneSided, OneStarts, OneReply, PeerKept
<1> QED
  BY <1>1, <1>2, <1>3, <1>4, <1>5 DEF LinkStep

(* A step of the other.                                                     *)
LEMMA OtherKeepsOneSided ==
  ASSUME NEW s, NEW d, LinkInv(s, d), LinkInv(d, s), OneSided(s, d), LinkStep(d, s),
         state'[d] # "kStartSessionSent"
  PROVE  OneSided(s, d)'
<1>1. ASSUME NEW k, NEW m, NEW sent \in BOOLEAN, Takes(d, k), PeerKept(s),
             IF sent THEN Sends(s, m) ELSE SendsNothing(s),
             sent => m.type \notin {"kStartSessionInit", "kStartSessionReply"}
      PROVE  OneSided(s, d)'
  <2>1. /\ NoneBehind(s, 0, "kStartSessionInit")'
        /\ NoneBehind(s, 0, "kStartSessionReply") => NoneBehind(s, 0, "kStartSessionReply")'
        /\ \A i \in Places(s) : NoneBehind(s, i, "kStartSessionReply") => NoneBehind(s, i, "kStartSessionReply")'
    <3>1. CASE sent
      BY <1>1, <3>1, SentNone DEF OneSided, OneStarts
    <3>2. CASE ~sent
      BY <1>1, <3>2 DEF SendsNothing, NoneBehind, Places, OneSided, OneStarts
    <3> QED
      BY <1>1, <3>1, <3>2
  <2>2. \A n : \A i \in Places(s)' : IsReply(net'[s][i], n) => i \in Places(s) /\ IsReply(net[s][i], n)
    <3>1. CASE sent
      BY <1>1, <3>1, SentQueue DEF IsReply
    <3>2. CASE ~sent
      BY <1>1, <3>2 DEF SendsNothing, Places
    <3> QED
      BY <1>1, <3>1, <3>2
  <2>3. NoSession(d) => NoSession(d)'
    BY <1>1, TakenNone
  <2>4. NoneBehind(d, 0, "kStartSessionReply")'
    BY <1>1, TakenNone DEF OneSided, OneStarts
  <2>5. /\ InSessionNow(s)' <=> InSessionNow(s)
        /\ Waiting(s)' <=> Waiting(s)
        /\ localNonce'[s] = localNonce[s]
    BY <1>1 DEF PeerKept
  <2>6. OneReply(s, d)'
    BY <2>1, <2>2, <2>3, <2>5 DEF OneSided, OneReply
  <2> QED
    BY <2>1, <2>4, <2>6 DEF OneSided, OneStarts
<1>2. ASSUME NEW k, NEW m, NEW sent \in BOOLEAN, QuietStep(d, s, k, m, sent)
      PROVE  OneSided(s, d)'
  BY <1>1, <1>2 DEF QuietStep
<1>3. ASSUME NEW k, NEW m, StopStep(d, s, k, m)
      PROVE  OneSided(s, d)'
  <2>1. /\ Takes(d, k) /\ PeerKept(s) /\ Sends(s, m)
        /\ m.type \notin {"kStartSessionInit", "kStartSessionReply"}
    BY <1>3 DEF StopStep
  <2>2. IF TRUE THEN Sends(s, m) ELSE SendsNothing(s)
    BY <2>1
  <2> QED
    BY <1>1, <2>1, <2>2
<1>4. ASSUME NEW k, NEW m, StartStep(d, s, k, m)
      PROVE  FALSE
  BY <1>4 DEF StartStep, Waiting
<1>5. CASE AcceptStep(d, s)
  BY <1>5 DEF AcceptStep, Waiting, OneSided, OneStarts
<1>6. ASSUME NEW m, ReplyStep(d, s, m)
      PROVE  OneSided(s, d)'
  <2>1. /\ Takes(d, 1) /\ PeerKept(s) /\ Sends(s, m) /\ net[d][1].type = "kStartSessionInit"
        /\ IsReply(m, InitiatorNonce(net[d][1].sid)) /\ m.type = "kStartSessionReply"
    BY <1>6 DEF ReplyStep, IsReply
  <2>2. 1 \in Places(d) /\ IsSession(net[d][1]) /\ ~NoSession(d)
    <3>1. 1 \in Places(d)
      BY <2>1 DEF Takes, Places
    <3> QED
      BY <2>1, <3>1 DEF IsSession, SessionType, NoSession
  <2>3. /\ Places(s)' = Places(s) \cup {Len(net'[s])}
        /\ Len(net'[s]) \in Nat
        /\ \A i \in Places(s) : i \in Nat /\ i < Len(net'[s]) /\ net'[s][i] = net[s][i]
        /\ net'[s][Len(net'[s])] = m
    BY <2>1, SentQueue
  <2>4. OneStarts(s, d)'
    BY <2>1, TakenNone, SentNone DEF OneSided, OneStarts
  <2>5. ASSUME Waiting(s)', NEW i \in Places(s)', IsReply(net'[s][i], localNonce'[s])
        PROVE  NoSession(d)' /\ NoneBehind(s, i, "kStartSessionReply")'
    <3>1. Waiting(s) /\ localNonce'[s] = localNonce[s]
      BY <2>1, <2>5 DEF PeerKept
    <3>2. i = Len(net'[s])
      <4>1. ASSUME i \in Places(s) PROVE FALSE
        BY <2>2, <2>3, <2>5, <3>1, <4>1 DEF OneSided, OneReply
      <4> QED
        BY <2>3, <4>1
    <3>3. IsInit(net[d][1], localNonce[s])
      BY <2>1, <2>3, <2>5, <3>1, <3>2 DEF IsInit, IsReply
    <3>4. LastSession(d, 1)
      BY <2>2, <3>1, <3>3 DEF LinkInv, OneInit
    <3>5. NoSession(d)'
      <4>1. /\ Places(d)' = 1 .. Len(net[d]) - 1 /\ Len(net[d]) \in Nat
            /\ \A j \in Places(d)' : j \in Nat /\ j + 1 \in Places(d) /\ net'[d][j] = net[d][j + 1]
        BY <2>1, TakenQueue
      <4>2. \A j \in Places(d)' : j + 1 > 1
        BY <4>1
      <4> QED
        BY <3>4, <4>1, <4>2 DEF NoSession, LastSession
    <3>6. NoneBehind(s, i, "kStartSessionReply")'
      BY <2>3, <3>2 DEF NoneBehind
    <3> QED
      BY <3>5, <3>6
  <2>6. ~InSessionNow(s)'
    BY <2>1, <2>2 DEF PeerKept, OneSided, OneReply
  <2> QED
    BY <2>4, <2>5, <2>6 DEF OneSided, OneReply
<1> QED
  BY <1>2, <1>3, <1>4, <1>5, <1>6 DEF LinkStep

-----------------------------------------------------------------------------
(* The endpoint that does not call StartSession never waits for a reply.    *)
LEMMA OtherNeverWaits ==
  ASSUME IInv, NEW d \in Endpoint, d \notin Starters, state[d] # "kStartSessionSent",
         (\E k \in 0 .. Len(net[d]) : Boot(d, k)) \/ Application(d) \/ Receive(d)
  PROVE  state'[d] # "kStartSessionSent"
<1>1. state \in [Endpoint -> State]
  BY DEF IInv, TypeOK
<1>2. CASE \E k \in 0 .. Len(net[d]) : Boot(d, k)
  BY <1>1, <1>2 DEF Boot
<1>3. CASE Application(d)
  BY <1>3 DEF Application, StartSession, TerminateSession, SendRequest, SendLog, sessionVars
<1>4. CASE ProcessStartSessionInit(d)
  <2>2. \/ Ignore(d)
        \/ \E c \in 1 .. 2 : SendSessionStartReply(d, Head(net[d]), c)
    BY <1>4 DEF ProcessStartSessionInit
  <2> QED
    BY <1>1, <2>2 DEF Ignore, SendSessionStartReply, sessionVars
<1>5. CASE ProcessStartSessionReply(d)
  <2>1. UNCHANGED state \/ state' = [state EXCEPT ![d] = "kSessionEstablished"]
        \/ state' = [state EXCEPT ![d] = "kReset"]
    BY <1>5 DEF ProcessStartSessionReply, Ignore, GoToReset, sessionVars
  <2> QED
    BY <1>1, <2>1
<1>6. CASE ProcessTerminateSession(d)
  BY <1>1, <1>6 DEF ProcessTerminateSession
<1>7. CASE ProcessLog(d) \/ ProcessNormal(d) \/ ReceiveBusy(d)
  BY <1>7 DEF ProcessLog, ProcessNormal, ReceiveBusy, sessionVars
<1> QED
  BY <1>2, <1>3, <1>4, <1>5, <1>6, <1>7 DEF Receive

LEMMA StutterKeepsOneSided ==
  ASSUME NEW s, NEW d, OneSided(s, d), UNCHANGED vars
  PROVE  OneSided(s, d)'
<1>1. /\ UNCHANGED <<net, state, localNonce>>
      /\ Waiting(s)' <=> Waiting(s)
      /\ InSessionNow(s)' <=> InSessionNow(s)
  BY DEF vars, sessionVars, Waiting, InSessionNow, Established
<1>2. OneStarts(s, d)'
  BY <1>1 DEF OneSided, OneStarts, NoneBehind, Places
<1>3. OneReply(s, d)'
  BY <1>1 DEF OneSided, OneReply, NoneBehind, NoSession, Places
<1> QED
  BY <1>2, <1>3 DEF OneSided

OneStarterInv(s) == LinksInv /\ OneSided(s, Peer(s))

LEMMA StepKeepsOneSided ==
  ASSUME IInv, NEW s \in Endpoint, Starters \subseteq {s}, OneStarterInv(s),
         [Next]_vars, FreshStart
  PROVE  OneSided(s, Peer(s))'
<1> DEFINE d == Peer(s)
<1>1. d \in Endpoint /\ d # s /\ Peer(d) = s /\ \A e \in Endpoint : e = s \/ e = d
  BY TwoEndpoints
<1>2. LinkInv(s, d) /\ LinkInv(d, s) /\ OneSided(s, d)
  BY <1>1 DEF OneStarterInv, LinksInv
<1> HIDE DEF d
<1>3. CASE UNCHANGED vars
  BY <1>3, StutterKeepsOneSided DEF OneStarterInv, d
<1>4. CASE Next
  <2>1. PICK e \in Endpoint :
          (\E k \in 0 .. Len(net[e]) : Boot(e, k)) \/ Application(e) \/ Receive(e)
    BY <1>4 DEF Next
  <2>2. LinkStep(e, Peer(e))
    BY <2>1, BootLinks, ApplicationLinks, InitMessageLinks, ReplyMessageLinks,
       TerminateMessageLinks, OtherMessageLinks DEF Receive, OneStarterInv
  <2>3. CASE e = s
    BY <1>2, <2>2, <2>3, StarterKeepsOneSided DEF d
  <2>4. CASE e = d
    <3>1. state'[d] # "kStartSessionSent"
      <4>1. d \notin Starters /\ state[d] # "kStartSessionSent"
        BY <1>1, <1>2 DEF OneSided, OneStarts
      <4>2. (\E k \in 0 .. Len(net[d]) : Boot(d, k)) \/ Application(d) \/ Receive(d)
        BY <2>1, <2>4
      <4> QED
        BY <1>1, <4>1, <4>2, OtherNeverWaits
    <3>2. OneSided(s, d)'
      BY <1>1, <1>2, <2>2, <2>4, <3>1, OtherKeepsOneSided
    <3> QED
      BY <3>2 DEF d
  <2> QED
    BY <1>1, <2>3, <2>4
<1> QED
  BY <1>3, <1>4 DEF d

(* In a session no reply arrives, so that none resets the session behind    *)
(* the application's back.                                                  *)
LEMMA NoReplyInSession ==
  ASSUME IInv, NEW s \in Endpoint, OneStarterInv(s), NEW e \in Endpoint, Established(e)
  PROVE  ~Received(e, "kStartSessionReply")
<1>1. SUFFICES ASSUME Received(e, "kStartSessionReply") PROVE FALSE
  OBVIOUS
<1>2. /\ TypeOK /\ running[e] /\ net[e] # <<>> /\ Head(net[e]).type = "kStartSessionReply"
      /\ 1 \in Places(e) /\ net[e][1].type = "kStartSessionReply"
  BY <1>1, FirstIsHead DEF IInv, Received
<1>3. CASE e = s
  BY <1>2, <1>3 DEF OneStarterInv, OneSided, OneReply, InSessionNow, NoneBehind
<1>4. CASE e = Peer(s)
  BY <1>2, <1>4 DEF OneStarterInv, OneSided, OneStarts, NoneBehind
<1> QED
  BY <1>3, <1>4, TwoEndpoints

LEMMA StepInforms ==
  ASSUME IInv, NEW s \in Endpoint, OneStarterInv(s), ApplicationInformed, [Next]_vars
  PROVE  ApplicationInformed'
<1>1. CASE UNCHANGED vars
  BY <1>1 DEF vars, sessionVars, ghostVars, ApplicationInformed, Established
<1>2. CASE Next
  <2>1. PICK e \in Endpoint :
          (\E k \in 0 .. Len(net[e]) : Boot(e, k)) \/ Application(e) \/ Receive(e)
    BY <1>2 DEF Next
  <2>2. state \in [Endpoint -> State] /\ notified \in [Endpoint -> Nat]
    BY DEF IInv, TypeOK
  <2> DEFINE Enters(n) == state' = [state EXCEPT ![e] = "kSessionEstablished"]
                          /\ notified' = [notified EXCEPT ![e] = n]
             Leaves == state'[e] # "kSessionEstablished" /\ notified' = [notified EXCEPT ![e] = 0]
                       /\ \A p \in Endpoint : p # e => state'[p] = state[p]
  <2>3. ASSUME NEW n \in 1 .. 2, Enters(n) PROVE ApplicationInformed'
    BY <2>2, <2>3 DEF ApplicationInformed, Established
  <2>12. ASSUME Leaves PROVE ApplicationInformed'
    BY <2>2, <2>12 DEF ApplicationInformed, Established
  <2>4. ASSUME UNCHANGED <<state, notified>> PROVE ApplicationInformed'
    BY <2>4 DEF ApplicationInformed, Established
  <2>5. CASE \E k \in 0 .. Len(net[e]) : Boot(e, k)
    <3>1. Leaves
      BY <2>2, <2>5 DEF Boot
    <3> QED
      BY <2>12, <3>1
  <2>6. ASSUME NEW k, StartSessionEffect(e, k) PROVE ApplicationInformed'
    <3>1. Leaves
      BY <2>2, <2>6 DEF StartSessionEffect
    <3> QED
      BY <2>12, <3>1
  <2>7. CASE Application(e)
    <3>1. CASE StartSession(e)
      BY <2>4, <2>6, <3>1 DEF StartSession, sessionVars
    <3>2. CASE TerminateSession(e)
      <4>1. Leaves
        BY <2>2, <3>2 DEF TerminateSession
      <4> QED
        BY <2>12, <4>1
    <3>3. CASE SendRequest(e) \/ SendLog(e)
      BY <2>4, <3>3 DEF SendRequest, SendLog, sessionVars, ghostVars
    <3> QED
      BY <2>7, <3>1, <3>2, <3>3 DEF Application
  <2>8. CASE ProcessStartSessionInit(e)
    <3>1. \/ Ignore(e) \/ \E c \in 1 .. 2 : SendSessionStartReply(e, Head(net[e]), c)
          \/ StartSessionEffect(e, 1)
      BY <2>8 DEF ProcessStartSessionInit, CrossedInit
    <3>2. ASSUME NEW c \in 1 .. 2, SendSessionStartReply(e, Head(net[e]), c) PROVE ApplicationInformed'
      <4>1. Enters(c)
        BY <3>2 DEF SendSessionStartReply
      <4> QED
        BY <2>3, <4>1
    <3>3. Ignore(e) => ApplicationInformed'
      BY <2>4 DEF Ignore, sessionVars
    <3> QED
      BY <2>6, <3>1, <3>2, <3>3
  <2>9. CASE ProcessStartSessionReply(e)
    <3>1. ~Established(e)
      BY <2>9, NoReplyInSession DEF ProcessStartSessionReply
    <3>2. Enters(1) \/ UNCHANGED <<state, notified>>
      BY <2>9, <3>1 DEF ProcessStartSessionReply, Ignore, sessionVars, Established
    <3> QED
      BY <2>3, <2>4, <3>2
  <2>10. CASE ProcessTerminateSession(e)
    <3>1. Leaves \/ UNCHANGED <<state, notified>>
      BY <2>2, <2>10 DEF ProcessTerminateSession
    <3> QED
      BY <2>4, <2>12, <3>1
  <2>11. CASE ProcessLog(e) \/ ProcessNormal(e) \/ ReceiveBusy(e)
    BY <2>4, <2>11 DEF ProcessLog, ProcessNormal, ReceiveBusy, sessionVars, ghostVars
  <2> QED
    BY <2>1, <2>5, <2>7, <2>8, <2>9, <2>10, <2>11 DEF Receive
<1> QED
  BY <1>1, <1>2

LEMMA InitOneSided ==
  ASSUME Init, NEW s \in Endpoint
  PROVE  OneStarterInv(s) /\ ApplicationInformed
<1>1. LinksInv /\ Peer(s) \in Endpoint
  BY InitLinks, TwoEndpoints
<1>2. /\ Places(s) = {} /\ Places(Peer(s)) = {} /\ ~Waiting(s) /\ ~InSessionNow(s)
      /\ state[Peer(s)] = "kReset"
  BY <1>1 DEF Init, Places, Waiting, InSessionNow
<1>3. OneSided(s, Peer(s))
  BY <1>2 DEF OneSided, OneStarts, OneReply, NoneBehind
<1>4. ApplicationInformed
  <2> SUFFICES ASSUME NEW e \in Endpoint PROVE Established(e) <=> notified[e] > 0
    BY DEF ApplicationInformed
  <2>1. state[e] # "kSessionEstablished" /\ ~(notified[e] > 0)
    BY DEF Init
  <2> QED
    BY <2>1 DEF Established
<1> QED
  BY <1>1, <1>3, <1>4 DEF OneStarterInv

LEMMA OneStarterStep ==
  ASSUME NEW s \in Endpoint, Starters \subseteq {s}, IInv, OneStarterInv(s),
         [Next]_vars, [FreshStart]_vars
  PROVE  IInv' /\ OneStarterInv(s)'
<1>1. IInv'
  BY StepKeepsIInv
<1>2. CASE FreshStart
  BY <1>1, <1>2, StepKeepsLinks, StepKeepsOneSided DEF OneStarterInv
<1>3. CASE UNCHANGED vars
  <2>1. LinksInv'
    BY <1>3, StutterKeepsLinks DEF OneStarterInv
  <2>2. OneSided(s, Peer(s))'
    BY <1>3, StutterKeepsOneSided DEF OneStarterInv
  <2> QED
    BY <1>1, <2>1, <2>2 DEF OneStarterInv
<1> QED
  BY <1>2, <1>3

(* Where one side starts, as in the program, its host: the application's    *)
(* last callback tells whether there is a session, on both sides.           *)
THEOREM BothInformed ==
  ASSUME NEW s \in Endpoint, Starters \subseteq {s}
  PROVE  Spec /\ NoncesFresh => []ApplicationInformed
<1> DEFINE Inv == IInv /\ OneStarterInv(s) /\ ApplicationInformed
<1>1. Init => Inv
  BY InitIInv, InitOneSided
<1>2. Inv /\ [Next]_vars /\ [FreshStart]_vars => Inv'
  BY OneStarterStep, StepInforms
<1>3. Inv => ApplicationInformed
  OBVIOUS
<1> QED
  BY <1>1, <1>2, <1>3, PTL DEF Spec, NoncesFresh

-----------------------------------------------------------------------------
(* d, which only replies, is in the session sid from its reply on until it  *)
(* sends a kTerminateSession.  i is the place of the reply on its way to s, *)
(* or 0 once s has taken it.                                                *)
Shared(s, d, i, sid) ==
  /\ Established(d) <=> NoneBehind(s, i, "kTerminateSession")
  /\ Established(d) => sessionId[d] = sid

StarterShares(s, d) ==
  /\ Waiting(s) => \A i \in Places(s) : IsReply(net[s][i], localNonce[s]) =>
       Shared(s, d, i, net[s][i].sid)
  /\ InSessionNow(s) => Shared(s, d, 0, sessionId[s])

(* The last Init on its way is the one s waits on, while s runs.            *)
LastInit(s, d) ==
  running[s] => \A i \in Places(d) : LastSession(d, i) /\ net[d][i].type = "kStartSessionInit" =>
    Waiting(s) /\ IsInit(net[d][i], localNonce[s])

VersionsSent(s, d) ==
  \A i \in Places(s) : net[s][i].type = "kStartSessionReply" => net[s][i].version = Version[d]

(* d is in a session that s is in too, or is about to be in, unless s is    *)
(* gone or has sent d something that will change it.                        *)
OtherShares(s, d) ==
  InSessionNow(d) =>
    \/ ~running[s]
    \/ ~NoSession(d)
    \/ /\ Waiting(s)
       /\ \E i \in Places(s) : IsReply(net[s][i], localNonce[s]) /\ net[s][i].sid = sessionId[d]
    \/ InSessionNow(s) /\ sessionId[s] = sessionId[d]

WholeSession(s, d) ==
  StarterShares(s, d) /\ LastInit(s, d) /\ VersionsSent(s, d) /\ OtherShares(s, d)

-----------------------------------------------------------------------------
LEMMA TakenLastSession ==
  ASSUME NEW a, NEW k, Takes(a, k)
  PROVE  \A i \in Places(a)' : LastSession(a, i)' => i + k \in Places(a) /\ LastSession(a, i + k)
<1>0. /\ Len(net[a]) \in Nat /\ k \in Nat
      /\ Places(a) = 1 .. Len(net[a]) /\ Places(a)' = 1 .. Len(net[a]) - k
      /\ \A i \in Places(a)' : i \in Nat /\ i + k \in Places(a) /\ net'[a][i] = net[a][i + k]
  BY TakenQueue DEF Places
<1> SUFFICES ASSUME NEW i \in Places(a)', LastSession(a, i)'
             PROVE  i + k \in Places(a) /\ LastSession(a, i + k)
  OBVIOUS
<1>1. i + k \in Places(a) /\ IsSession(net[a][i + k])
  BY <1>0 DEF LastSession, IsSession
<1>2. ASSUME NEW j \in Places(a), j > i + k
      PROVE  ~IsSession(net[a][j])
  <2>1. j - k \in Places(a)' /\ j - k > i /\ (j - k) + k = j
    BY <1>0, <1>2
  <2>2. net'[a][j - k] = net[a][j]
    BY <1>0, <2>1
  <2> QED
    BY <2>1, <2>2 DEF LastSession, IsSession
<1> QED
  BY <1>1, <1>2 DEF LastSession

LEMMA StarterKeepsWhole ==
  ASSUME NEW s, NEW d, LinkInv(s, d), LinkInv(d, s), OneSided(s, d), WholeSession(s, d),
         LinkStep(s, d), Version[s] = Version[d]
  PROVE  WholeSession(s, d)'
<1>1. ASSUME NEW k, NEW m, NEW sent, QuietStep(s, d, k, m, sent)
      PROVE  WholeSession(s, d)'
  <2>1. /\ Takes(s, k) /\ PeerKept(d) /\ (IF sent THEN Sends(d, m) ELSE SendsNothing(d)) /\ k \in 0 .. 1
        /\ localNonce'[s] = localNonce[s]
        /\ InSessionNow(s)' => InSessionNow(s) /\ (k = 1 => ~IsSession(net[s][1]))
        /\ Waiting(s)' => Waiting(s)
        /\ sent => m.type \in {"kLog", "kNormal"}
        /\ QuietState(s, k)
    BY <1>1 DEF QuietStep
  <2>2. /\ running[s] /\ sessionId'[s] = sessionId[s]
        /\ \/ state'[s] = state[s]
           \/ k = 1 /\ IsSession(net[s][1]) /\ Established(s)
    BY <2>1 DEF QuietState
  <2>3. /\ Len(net[s]) \in Nat /\ k \in Nat
        /\ Places(s) = 1 .. Len(net[s]) /\ Places(s)' = 1 .. Len(net[s]) - k
        /\ \A i \in Places(s)' : i \in Nat /\ i + k \in Places(s) /\ net'[s][i] = net[s][i + k]
    BY <2>1, TakenQueue DEF Places
  <2>4. /\ Established(d)' <=> Established(d)
        /\ sessionId'[d] = sessionId[d]
        /\ InSessionNow(d)' <=> InSessionNow(d)
    BY <2>1 DEF PeerKept, Established
  <2>5. /\ NoSession(d)' => NoSession(d)
        /\ \A i \in Places(d)' : LastSession(d, i)' => i \in Places(d) /\ LastSession(d, i) /\ net'[d][i] = net[d][i]
    <3>1. CASE sent
      <4>1. Sends(d, m) /\ ~IsSession(m)
        BY <2>1, <3>1 DEF IsSession, SessionType
      <4>2. \A i \in Places(d) : net'[d][i] = net[d][i]
        BY <4>1, SentQueue
      <4> QED
        BY <4>1, <4>2, SentLast
    <3>2. CASE ~sent
      BY <2>1, <3>2 DEF SendsNothing, NoSession, LastSession, Places
    <3> QED
      BY <3>1, <3>2
  <2>6. StarterShares(s, d)'
    <3>1. ASSUME Waiting(s)', NEW i \in Places(s)', IsReply(net'[s][i], localNonce'[s])
          PROVE  Shared(s, d, i, net[s][i].sid)'
      <4>1. i \in Nat /\ i + k \in Places(s) /\ net'[s][i] = net[s][i + k]
        BY <2>3
      <4>2. Shared(s, d, i + k, net[s][i + k].sid)
        BY <2>1, <3>1, <4>1 DEF WholeSession, StarterShares
      <4>3. NoneBehind(s, i, "kTerminateSession")' <=> NoneBehind(s, i + k, "kTerminateSession")
        BY <2>1, <4>1, TakenNone
      <4> QED
        BY <2>4, <4>1, <4>2, <4>3 DEF Shared
    <3>2. ASSUME InSessionNow(s)' PROVE Shared(s, d, 0, sessionId[s])'
      <4>1. Shared(s, d, 0, sessionId[s])
        BY <2>1, <3>2 DEF WholeSession, StarterShares
      <4>2. NoneBehind(s, 0, "kTerminateSession")' <=> NoneBehind(s, k, "kTerminateSession")
        <5>1. 0 \in Nat /\ 0 + k = k
          BY <2>3
        <5> QED
          BY <2>1, <5>1, TakenNone
      <4>3. NoneBehind(s, 0, "kTerminateSession") <=> NoneBehind(s, k, "kTerminateSession")
        <5>1. k = 1 => net[s][1].type # "kTerminateSession"
          BY <2>1, <3>2 DEF IsSession, SessionType
        <5>2. \A j \in Places(s) : j > 0 => j > k \/ (k = 1 /\ j = 1)
          BY <2>1, <2>3
        <5>3. \A j \in Places(s) : j > 0
          BY <2>3
        <5> QED
          BY <5>1, <5>2, <5>3 DEF NoneBehind
      <4> QED
        BY <2>2, <2>4, <4>1, <4>2, <4>3 DEF Shared
    <3> QED
      BY <3>1, <3>2 DEF StarterShares, Shared
  <2>7. LastInit(s, d)'
    <3> SUFFICES ASSUME running'[s], NEW i \in Places(d)', LastSession(d, i)',
                        net'[d][i].type = "kStartSessionInit"
                 PROVE  Waiting(s)' /\ IsInit(net'[d][i], localNonce'[s])
      BY DEF LastInit, IsInit
    <3>1. Waiting(s) /\ IsInit(net[d][i], localNonce[s]) /\ net'[d][i] = net[d][i]
      BY <2>2, <2>5 DEF WholeSession, LastInit
    <3>2. Waiting(s)'
      BY <2>2, <3>1 DEF Waiting, Established
    <3> QED
      BY <2>1, <3>1, <3>2 DEF IsInit
  <2>8. VersionsSent(s, d)'
    BY <2>3 DEF WholeSession, VersionsSent
  <2>9. OtherShares(s, d)'
    <3> SUFFICES ASSUME InSessionNow(d)', running'[s], NoSession(d)'
                 PROVE  \/ /\ Waiting(s)'
                           /\ \E i \in Places(s)' : IsReply(net'[s][i], localNonce'[s]) /\ net'[s][i].sid = sessionId'[d]
                        \/ InSessionNow(s)' /\ sessionId'[s] = sessionId'[d]
      BY DEF OtherShares, IsReply
    <3>1. InSessionNow(d) /\ NoSession(d) /\ Established(d)
      BY <2>4, <2>5 DEF InSessionNow
    <3>2. CASE Waiting(s) /\ \E i \in Places(s) : IsReply(net[s][i], localNonce[s]) /\ net[s][i].sid = sessionId[d]
      <4>1. PICK i \in Places(s) : IsReply(net[s][i], localNonce[s]) /\ net[s][i].sid = sessionId[d]
        BY <3>2
      <4>2. Waiting(s)'
        BY <2>2, <3>2 DEF Waiting, Established
      <4>3. net[s][i].version = Version[s]
        BY <4>1 DEF WholeSession, VersionsSent, IsReply
      <4>4. ~(k = 1 /\ i = 1)
        BY <2>1, <3>2, <4>1, <4>3 DEF QuietState
      <4>5. i - k \in Places(s)' /\ (i - k) + k = i
        BY <2>1, <2>3, <4>4
      <4>6. net'[s][i - k] = net[s][i]
        BY <2>3, <4>5
      <4> QED
        BY <2>1, <2>4, <4>1, <4>2, <4>5, <4>6 DEF IsReply
    <3>3. CASE InSessionNow(s) /\ sessionId[s] = sessionId[d]
      <4>1. ~(k = 1 /\ IsSession(net[s][1]))
        <5>1. SUFFICES ASSUME k = 1, IsSession(net[s][1]) PROVE FALSE
          OBVIOUS
        <5>2. 1 \in Places(s)
          BY <2>1, <5>1 DEF Takes, Places
        <5>3. net[s][1].type = "kTerminateSession"
          BY <3>3, <5>1, <5>2 DEF IsSession, SessionType, OneSided, OneStarts, OneReply, NoneBehind
        <5>4. ~NoneBehind(s, 0, "kTerminateSession")
          BY <5>2, <5>3 DEF NoneBehind
        <5> QED
          BY <3>1, <3>3, <5>4 DEF WholeSession, StarterShares, Shared
      <4>2. InSessionNow(s)'
        BY <2>2, <3>3, <4>1 DEF InSessionNow, Established
      <4> QED
        BY <2>2, <2>4, <3>3, <4>2
    <3> QED
      BY <2>2, <3>1, <3>2, <3>3 DEF WholeSession, OtherShares
  <2> QED
    BY <2>6, <2>7, <2>8, <2>9 DEF WholeSession
<1>2. ASSUME NEW k, NEW m, Takes(s, k), PeerKept(d), Sends(d, m), IsSession(m),
             ~InSessionNow(s)',
             Waiting(s)' => \A i \in Places(s) : ~IsReply(net[s][i], localNonce'[s]),
             m.type = "kStartSessionInit" => Waiting(s)' /\ IsInit(m, localNonce'[s])
      PROVE  WholeSession(s, d)'
  <2>1. \A i \in Places(s)' : i \in Nat /\ i + k \in Places(s) /\ net'[s][i] = net[s][i + k]
    BY <1>2, TakenQueue
  <2>2. StarterShares(s, d)'
    BY <1>2, <2>1 DEF StarterShares, IsReply
  <2>3. LastInit(s, d)'
    <3>1. \A i \in Places(d)' : LastSession(d, i)' => net'[d][i] = m
      BY <1>2, SentLast
    <3> QED
      BY <1>2, <3>1 DEF LastInit, IsInit
  <2>4. VersionsSent(s, d)'
    BY <2>1 DEF WholeSession, VersionsSent
  <2>5. ~NoSession(d)'
    BY <1>2, SentLast
  <2> QED
    BY <2>2, <2>3, <2>4, <2>5 DEF WholeSession, OtherShares
<1>3. ASSUME NEW k, NEW m, StopStep(s, d, k, m)
      PROVE  WholeSession(s, d)'
  BY <1>2, <1>3 DEF StopStep, IsSession, SessionType
<1>4. ASSUME NEW k, NEW m, StartStep(s, d, k, m)
      PROVE  WholeSession(s, d)'
  BY <1>2, <1>4 DEF StartStep, IsSession, SessionType, IsInit
<1>5. ASSUME NEW m, ReplyStep(s, d, m)
      PROVE  FALSE
  <2>1. Takes(s, 1) /\ net[s][1].type = "kStartSessionInit"
    BY <1>5 DEF ReplyStep
  <2>2. 1 \in Places(s)
    BY <2>1 DEF Takes, Places
  <2> QED
    BY <2>1, <2>2 DEF OneSided, OneStarts, NoneBehind
<1>6. CASE AcceptStep(s, d)
  <2>1. /\ Takes(s, 1) /\ PeerKept(d) /\ SendsNothing(d) /\ IsReply(net[s][1], localNonce[s])
        /\ Waiting(s) /\ ~Waiting(s)' /\ InSessionNow(s)' /\ sessionId'[s] = net[s][1].sid
    BY <1>6 DEF AcceptStep
  <2>2. 1 \in Places(s)
    BY <2>1 DEF Takes, Places
  <2>3. NoSession(d) /\ Shared(s, d, 1, net[s][1].sid)
    BY <2>1, <2>2 DEF OneSided, OneReply, WholeSession, StarterShares
  <2>4. NoSession(d)'
    BY <2>1, <2>3 DEF SendsNothing, NoSession, Places
  <2>5. NoneBehind(s, 0, "kTerminateSession")' <=> NoneBehind(s, 1, "kTerminateSession")
    <3>1. 0 \in Nat /\ 0 + 1 = 1
      OBVIOUS
    <3> QED
      BY <2>1, <3>1, TakenNone
  <2>6. /\ Established(d)' <=> Established(d)
        /\ sessionId'[d] = sessionId[d]
    BY <2>1 DEF PeerKept, Established
  <2>7. Shared(s, d, 0, sessionId[s])'
    BY <2>1, <2>3, <2>5, <2>6 DEF Shared
  <2>8. StarterShares(s, d)'
    BY <2>1, <2>7 DEF StarterShares, Shared
  <2>9. LastInit(s, d)'
    BY <2>4 DEF LastInit, NoSession, LastSession
  <2>10. VersionsSent(s, d)'
    <3>1. \A i \in Places(s)' : i + 1 \in Places(s) /\ net'[s][i] = net[s][i + 1]
      BY <2>1, TakenQueue
    <3> QED
      BY <3>1 DEF WholeSession, VersionsSent
  <2>11. OtherShares(s, d)'
    BY <2>1, <2>7 DEF OtherShares, Shared, InSessionNow
  <2> QED
    BY <2>8, <2>9, <2>10, <2>11 DEF WholeSession
<1> QED
  BY <1>1, <1>3, <1>4, <1>5, <1>6 DEF LinkStep

LEMMA OtherKeepsWhole ==
  ASSUME NEW s, NEW d, LinkInv(s, d), LinkInv(d, s), OneSided(s, d), WholeSession(s, d),
         LinkStep(d, s), state'[d] # "kStartSessionSent"
  PROVE  WholeSession(s, d)'
<1>1. ASSUME NEW k, Takes(d, k), LastInit(s, d), PeerKept(s) PROVE LastInit(s, d)'
  <2>1. \A i \in Places(d)' : i + k \in Places(d) /\ net'[d][i] = net[d][i + k]
    BY <1>1, TakenQueue
  <2>2. \A i \in Places(d)' : LastSession(d, i)' => LastSession(d, i + k)
    BY <1>1, TakenLastSession
  <2> QED
    BY <1>1, <2>1, <2>2 DEF LastInit, PeerKept, IsInit
<1>2. LastInit(s, d)
  BY DEF WholeSession
<1>3. ASSUME NEW k, NEW m, NEW sent \in BOOLEAN, Takes(d, k), PeerKept(s),
             IF sent THEN Sends(s, m) ELSE SendsNothing(s),
             sent => m.type # "kStartSessionReply"
      PROVE  /\ VersionsSent(s, d)'
             /\ \A n : \A i \in Places(s)' : IsReply(net'[s][i], n) =>
                  i \in Places(s) /\ IsReply(net[s][i], n) /\ net'[s][i] = net[s][i]
             /\ \A i \in Places(s) : i \in Places(s)' /\ net'[s][i] = net[s][i]
  <2>1. CASE sent
    BY <1>3, <2>1, SentQueue DEF IsReply, VersionsSent, WholeSession
  <2>2. CASE ~sent
    BY <1>3, <2>2 DEF SendsNothing, Places, VersionsSent, WholeSession
  <2> QED
    BY <1>3, <2>1, <2>2
<1>4. ASSUME NEW k, NEW m, NEW sent \in BOOLEAN, QuietStep(d, s, k, m, sent)
      PROVE  WholeSession(s, d)'
  <2>1. /\ Takes(d, k) /\ PeerKept(s) /\ k \in 0 .. 1 /\ QuietState(d, k)
        /\ InSessionNow(d)' => InSessionNow(d) /\ (k = 1 => ~IsSession(net[d][1]))
        /\ sent => m.type \in {"kLog", "kNormal"}
        /\ IF sent THEN Sends(s, m) ELSE SendsNothing(s)
    BY <1>4 DEF QuietStep
  <2>2. /\ VersionsSent(s, d)'
        /\ \A n : \A i \in Places(s)' : IsReply(net'[s][i], n) =>
             i \in Places(s) /\ IsReply(net[s][i], n) /\ net'[s][i] = net[s][i]
        /\ \A i \in Places(s) : i \in Places(s)' /\ net'[s][i] = net[s][i]
    BY <1>3, <2>1
  <2>3. /\ \A i \in Places(s) : NoneBehind(s, i, "kTerminateSession")' <=> NoneBehind(s, i, "kTerminateSession")
        /\ NoneBehind(s, 0, "kTerminateSession")' <=> NoneBehind(s, 0, "kTerminateSession")
    <3>1. CASE sent
      BY <2>1, <3>1, SentNone
    <3>2. CASE ~sent
      BY <2>1, <3>2 DEF SendsNothing, NoneBehind, Places
    <3> QED
      BY <3>1, <3>2
  <2>4. /\ InSessionNow(s)' <=> InSessionNow(s)
        /\ Waiting(s)' <=> Waiting(s)
        /\ localNonce'[s] = localNonce[s] /\ running'[s] = running[s] /\ sessionId'[s] = sessionId[s]
    BY <2>1 DEF PeerKept
  <2>5. /\ sessionId'[d] = sessionId[d]
        /\ NoSession(d) => (Established(d)' <=> Established(d))
    <3>1. k = 1 /\ IsSession(net[d][1]) => ~NoSession(d)
      <4>1. k = 1 => 1 \in Places(d)
        BY <2>1 DEF Takes, Places
      <4> QED
        BY <4>1 DEF NoSession
    <3> QED
      BY <2>1, <3>1 DEF QuietState, Established
  <2>6. StarterShares(s, d)'
    <3>1. ASSUME Waiting(s)', NEW i \in Places(s)', IsReply(net'[s][i], localNonce'[s])
          PROVE  Shared(s, d, i, net[s][i].sid)'
      <4>1. i \in Places(s) /\ IsReply(net[s][i], localNonce[s]) /\ net'[s][i] = net[s][i] /\ Waiting(s)
        BY <2>2, <2>4, <3>1
      <4>2. Shared(s, d, i, net[s][i].sid) /\ NoSession(d)
        BY <4>1 DEF WholeSession, StarterShares, OneSided, OneReply
      <4> QED
        BY <2>3, <2>5, <4>1, <4>2 DEF Shared
    <3>2. ASSUME InSessionNow(s)' PROVE Shared(s, d, 0, sessionId[s])'
      <4>1. Shared(s, d, 0, sessionId[s]) /\ NoSession(d)
        BY <2>4, <3>2 DEF WholeSession, StarterShares, OneSided, OneReply
      <4> QED
        BY <2>3, <2>4, <2>5, <4>1 DEF Shared
    <3> QED
      BY <3>1, <3>2 DEF StarterShares, Shared
  <2>7. LastInit(s, d)'
    BY <1>1, <1>2, <2>1
  <2>8. OtherShares(s, d)'
    <3> SUFFICES ASSUME InSessionNow(d)', running'[s], NoSession(d)'
                 PROVE  \/ /\ Waiting(s)'
                           /\ \E i \in Places(s)' : IsReply(net'[s][i], localNonce'[s]) /\ net'[s][i].sid = sessionId'[d]
                        \/ InSessionNow(s)' /\ sessionId'[s] = sessionId'[d]
      BY DEF OtherShares, IsReply
    <3>1. InSessionNow(d) /\ running[s] /\ NoSession(d)
      BY <2>1, <2>4, TakenLast
    <3> QED
      BY <2>2, <2>4, <2>5, <3>1 DEF WholeSession, OtherShares, IsReply
  <2> QED
    BY <2>2, <2>6, <2>7, <2>8 DEF WholeSession
<1>5. ASSUME NEW k, NEW m, StopStep(d, s, k, m)
      PROVE  WholeSession(s, d)'
  <2>1. /\ Takes(d, k) /\ PeerKept(s) /\ Sends(s, m) /\ m.type = "kTerminateSession"
        /\ ~InSessionNow(d)' /\ ~Established(d)'
    BY <1>5 DEF StopStep, Established
  <2>2. /\ VersionsSent(s, d)'
        /\ \A n : \A i \in Places(s)' : IsReply(net'[s][i], n) =>
             i \in Places(s) /\ IsReply(net[s][i], n) /\ net'[s][i] = net[s][i]
    <3>1. IF TRUE THEN Sends(s, m) ELSE SendsNothing(s)
      BY <2>1
    <3>2. m.type # "kStartSessionReply"
      BY <2>1
    <3> QED
      BY <1>3, <2>1, <3>1, <3>2
  <2>3. /\ \A i \in Places(s) : ~NoneBehind(s, i, "kTerminateSession")'
        /\ ~NoneBehind(s, 0, "kTerminateSession")'
    BY <2>1, SentNone
  <2>4. StarterShares(s, d)'
    BY <2>1, <2>2, <2>3 DEF StarterShares, Shared
  <2>5. LastInit(s, d)'
    BY <1>1, <1>2, <2>1
  <2> QED
    BY <2>1, <2>2, <2>4, <2>5 DEF WholeSession, OtherShares
<1>6. ASSUME NEW k, NEW m, StartStep(d, s, k, m)
      PROVE  FALSE
  BY <1>6 DEF StartStep, Waiting
<1>7. CASE AcceptStep(d, s)
  BY <1>7 DEF AcceptStep, Waiting, OneSided, OneStarts
<1>8. ASSUME NEW m, ReplyStep(d, s, m)
      PROVE  WholeSession(s, d)'
  <2>1. /\ Takes(d, 1) /\ PeerKept(s) /\ Sends(s, m) /\ net[d][1].type = "kStartSessionInit"
        /\ IsReply(m, InitiatorNonce(net[d][1].sid)) /\ m.version = Version[d]
        /\ InSessionNow(d)' /\ Established(d)' /\ sessionId'[d] = m.sid
    BY <1>8 DEF ReplyStep, InSessionNow
  <2>2. 1 \in Places(d) /\ IsSession(net[d][1]) /\ ~NoSession(d)
    <3>1. 1 \in Places(d)
      BY <2>1 DEF Takes, Places
    <3> QED
      BY <2>1, <3>1 DEF IsSession, SessionType, NoSession
  <2>3. /\ Places(s)' = Places(s) \cup {Len(net'[s])}
        /\ Len(net'[s]) \in Nat
        /\ \A i \in Places(s) : i \in Nat /\ i < Len(net'[s]) /\ net'[s][i] = net[s][i]
        /\ net'[s][Len(net'[s])] = m
    BY <2>1, SentQueue
  <2>4. /\ ~InSessionNow(s)'
        /\ Waiting(s)' <=> Waiting(s)
        /\ localNonce'[s] = localNonce[s]
        /\ running'[s] = running[s]
    BY <2>1, <2>2 DEF PeerKept, OneSided, OneReply
  <2>5. ASSUME Waiting(s)', NEW i \in Places(s)', IsReply(net'[s][i], localNonce'[s])
        PROVE  Shared(s, d, i, net[s][i].sid)'
    <3>1. i = Len(net'[s])
      <4>1. ASSUME i \in Places(s) PROVE FALSE
        BY <2>2, <2>3, <2>4, <2>5, <4>1 DEF OneSided, OneReply
      <4> QED
        BY <2>3, <4>1
    <3>2. NoneBehind(s, i, "kTerminateSession")'
      BY <2>3, <3>1 DEF NoneBehind
    <3> QED
      BY <2>1, <2>3, <3>1, <3>2 DEF Shared
  <2>6. StarterShares(s, d)'
    BY <2>4, <2>5 DEF StarterShares, Shared
  <2>7. LastInit(s, d)'
    BY <1>1, <1>2, <2>1
  <2>8. VersionsSent(s, d)'
    BY <2>1, <2>3 DEF WholeSession, VersionsSent
  <2>9. OtherShares(s, d)'
    <3> SUFFICES ASSUME running'[s], NoSession(d)'
                 PROVE  /\ Waiting(s)'
                        /\ \E i \in Places(s)' : IsReply(net'[s][i], localNonce'[s]) /\ net'[s][i].sid = sessionId'[d]
      BY DEF OtherShares, IsReply
    <3>1. LastSession(d, 1)
      <4>1. ASSUME NEW j \in Places(d), j > 1 PROVE ~IsSession(net[d][j])
        <5>1. /\ Places(d) = 1 .. Len(net[d]) /\ Places(d)' = 1 .. Len(net[d]) - 1 /\ Len(net[d]) \in Nat
              /\ \A i \in Places(d)' : net'[d][i] = net[d][i + 1]
          BY <2>1, TakenQueue DEF Places
        <5>2. j - 1 \in Places(d)' /\ (j - 1) + 1 = j
          BY <4>1, <5>1
        <5>3. net'[d][j - 1] = net[d][j]
          BY <5>1, <5>2
        <5> QED
          BY <5>2, <5>3 DEF NoSession, IsSession
      <4> QED
        BY <2>2, <4>1 DEF LastSession
    <3>2. Waiting(s) /\ IsInit(net[d][1], localNonce[s])
      BY <1>2, <2>1, <2>2, <2>4, <3>1 DEF LastInit
    <3>3. IsReply(net'[s][Len(net'[s])], localNonce'[s]) /\ net'[s][Len(net'[s])].sid = sessionId'[d]
      BY <2>1, <2>3, <2>4, <3>2 DEF IsInit
    <3> QED
      BY <2>3, <2>4, <3>2, <3>3
  <2> QED
    BY <2>6, <2>7, <2>8, <2>9 DEF WholeSession
<1> QED
  BY <1>4, <1>5, <1>6, <1>7, <1>8 DEF LinkStep

-----------------------------------------------------------------------------
LEMMA StutterKeepsWhole ==
  ASSUME NEW s, NEW d, WholeSession(s, d), UNCHANGED vars
  PROVE  WholeSession(s, d)'
<1>1. /\ UNCHANGED <<net, state, localNonce, sessionId, running>>
      /\ Waiting(s)' <=> Waiting(s)
      /\ InSessionNow(s)' <=> InSessionNow(s)
      /\ InSessionNow(d)' <=> InSessionNow(d)
  BY DEF vars, sessionVars, Waiting, InSessionNow, Established
<1>2. StarterShares(s, d)'
  BY <1>1 DEF WholeSession, StarterShares, Shared, Established, NoneBehind, Places
<1>3. LastInit(s, d)' /\ VersionsSent(s, d)'
  BY <1>1 DEF WholeSession, LastInit, VersionsSent, LastSession, Places
<1>4. OtherShares(s, d)'
  BY <1>1 DEF WholeSession, OtherShares, NoSession, Places
<1> QED
  BY <1>2, <1>3, <1>4 DEF WholeSession

LEMMA StepKeepsWhole ==
  ASSUME IInv, NEW s \in Endpoint, Starters \subseteq {s}, SameVersion, OneStarterInv(s),
         WholeSession(s, Peer(s)), [Next]_vars, FreshStart
  PROVE  WholeSession(s, Peer(s))'
<1> DEFINE d == Peer(s)
<1>1. /\ d \in Endpoint /\ d # s /\ Peer(d) = s /\ (\A e \in Endpoint : e = s \/ e = d)
      /\ Version[s] = Version[d]
  BY TwoEndpoints DEF SameVersion
<1>2. LinkInv(s, d) /\ LinkInv(d, s) /\ OneSided(s, d) /\ WholeSession(s, d)
  BY <1>1 DEF OneStarterInv, LinksInv
<1> HIDE DEF d
<1>3. CASE UNCHANGED vars
  BY <1>3, StutterKeepsWhole DEF d
<1>4. CASE Next
  <2>1. PICK e \in Endpoint :
          (\E k \in 0 .. Len(net[e]) : Boot(e, k)) \/ Application(e) \/ Receive(e)
    BY <1>4 DEF Next
  <2>2. LinkStep(e, Peer(e))
    BY <2>1, BootLinks, ApplicationLinks, InitMessageLinks, ReplyMessageLinks,
       TerminateMessageLinks, OtherMessageLinks DEF Receive, OneStarterInv
  <2>3. CASE e = s
    <3>1. LinkStep(s, d)
      BY <2>2, <2>3 DEF d
    <3>2. WholeSession(s, d)'
      BY <1>1, <1>2, <3>1, StarterKeepsWhole
    <3> QED
      BY <3>2 DEF d
  <2>4. CASE e = d
    <3>1. d \notin Starters /\ state[d] # "kStartSessionSent"
      BY <1>1, <1>2 DEF OneSided, OneStarts
    <3>2. (\E k \in 0 .. Len(net[d]) : Boot(d, k)) \/ Application(d) \/ Receive(d)
      BY <2>1, <2>4
    <3>3. state'[d] # "kStartSessionSent"
      BY <1>1, <3>1, <3>2, OtherNeverWaits
    <3>4. WholeSession(s, d)'
      BY <1>1, <1>2, <2>2, <2>4, <3>3, OtherKeepsWhole
    <3> QED
      BY <3>4 DEF d
  <2> QED
    BY <1>1, <2>3, <2>4
<1> QED
  BY <1>3, <1>4 DEF d

LEMMA WholeStep ==
  ASSUME NEW s \in Endpoint, Starters \subseteq {s}, SameVersion, IInv, OneStarterInv(s),
         WholeSession(s, Peer(s)), [Next]_vars, [FreshStart]_vars
  PROVE  WholeSession(s, Peer(s))'
BY StepKeepsWhole, StutterKeepsWhole

LEMMA InitWhole ==
  ASSUME Init, NEW s \in Endpoint
  PROVE  WholeSession(s, Peer(s))
<1>1. Peer(s) \in Endpoint
  BY TwoEndpoints
<1>2. /\ Places(s) = {} /\ Places(Peer(s)) = {} /\ ~Waiting(s) /\ ~InSessionNow(s)
      /\ ~InSessionNow(Peer(s))
  BY <1>1 DEF Init, Places, Waiting, InSessionNow
<1> QED
  BY <1>2 DEF WholeSession, StarterShares, LastInit, VersionsSent, OtherShares

(* With one side that starts and both built from one version: when every    *)
(* message is read and both run, an endpoint in a session shares its id     *)
(* with its peer, whatever was reset, lost or started again before.         *)
THEOREM NoHalfOpen ==
  ASSUME NEW s \in Endpoint, Starters \subseteq {s}, SameVersion
  PROVE  Spec /\ NoncesFresh => []NoHalfOpenSession
<1> DEFINE Inv == IInv /\ OneStarterInv(s) /\ WholeSession(s, Peer(s))
<1>1. Init => Inv
  BY InitIInv, InitOneSided, InitWhole
<1>2. Inv /\ [Next]_vars /\ [FreshStart]_vars => Inv'
  BY OneStarterStep, WholeStep
<1>3. Inv => NoHalfOpenSession
  <2> SUFFICES ASSUME Inv, Quiet, NEW e \in Endpoint, Established(e)
               PROVE  Established(Peer(e)) /\ sessionId[e] = sessionId[Peer(e)]
    BY DEF NoHalfOpenSession
  <2>1. /\ Peer(s) \in Endpoint /\ Peer(Peer(s)) = s
        /\ e = s \/ e = Peer(s)
    BY TwoEndpoints
  <2>2. /\ Places(s) = {} /\ Places(Peer(s)) = {} /\ running[s] /\ running[Peer(s)]
    BY <2>1 DEF Quiet, Places
  <2>3. CASE e = s
    <3>1. Shared(s, Peer(s), 0, sessionId[s])
      BY <2>2, <2>3 DEF WholeSession, StarterShares, InSessionNow
    <3> QED
      BY <2>2, <2>3, <3>1 DEF Shared, NoneBehind
  <2>4. CASE e = Peer(s)
    <3>1. InSessionNow(s) /\ sessionId[s] = sessionId[Peer(s)]
      BY <2>2, <2>4 DEF WholeSession, OtherShares, InSessionNow, NoSession
    <3> QED
      BY <2>1, <2>4, <3>1 DEF InSessionNow
  <2> QED
    BY <2>1, <2>3, <2>4
<1> QED
  BY <1>1, <1>2, <1>3, PTL DEF Spec, NoncesFresh
=============================================================================
