---------------------------- MODULE CallsProofs ----------------------------
(***************************************************************************)
(* Proofs about Calls, for any users, sessions, calls and number of        *)
(* faults: the clean-up at the end of a session loop is enough.            *)
(***************************************************************************)
EXTENDS Calls, TLAPS

(* A handler has something to relay exactly while it is in the middle of   *)
(* an event, and it is about a call that has a record.                     *)
WorkInv ==
  \A s \in Session :
    /\ pc[s] \in {"off", "idle"} => work[s] = NoWork
    /\ pc[s] \in {"ack", "relay", "closing"} => work[s].call \in Used
    /\ pc[s] = "ack" => /\ work[s].kind = "incoming_call"
                        /\ caller[work[s].call] = UserOf[s]
                        /\ work[s].peer = callee[work[s].call]

(* A session is in calls of its own user only, and knows the other party. *)
PartyInv ==
  /\ \A c \in Used : caller[c] \in User /\ callee[c] \in User
  /\ \A s \in Session :
       \/ active[s] = NoCall
       \/ /\ active[s].call \in Used /\ is_call_participant(s, active[s].call)
          /\ active[s].peer = PeerOf(s, active[s].call)

(* PeerIsTold for a session that has not set its active call yet, too: the *)
(* callee may reject a call before its caller has been acknowledged.       *)
Told(s, c) == c \in told[s] \/ <<s, c>> \in missed \/ NoticePending(s, c)
PeerInv ==
  \A s \in Session, c \in Call \ forgotten :
    (InCall(s, c) /\ status[c] \in Over /\ endedBy[c] # UserOf[s]) => Told(s, c)

CallInv == TypeOK /\ WorkInv /\ PartyInv /\ LiveCallIsFollowed /\ PeerInv

LEMMA CallInit == Init => CallInv
<1> SUFFICES ASSUME Init PROVE CallInv
  OBVIOUS
<1> USE SessionAssumption, NoneAssumption, FaultAssumption DEF Init
<1>1. TypeOK BY DEF TypeOK, Used, Open, NoWork, NoCall, Live, Over
<1>2. WorkInv BY DEF WorkInv
<1>3. PartyInv BY DEF PartyInv, Used
<1>4. LiveCallIsFollowed BY DEF LiveCallIsFollowed, Live
<1>5. PeerInv BY DEF PeerInv, Over
<1>6. QED BY <1>1, <1>2, <1>3, <1>4, <1>5 DEF CallInv

----------------------------------------------------------------------------
(* Steps that change neither the records nor what a session relays or      *)
(* follows.                                                                *)
LEMMA ConnectInv ==
  ASSUME CallInv, NEW s \in Session, Connect(s) \/ Subscribe(s) \/ FallSilent(s)
  PROVE  CallInv'
<1> USE NoneAssumption, FaultAssumption DEF Connect, Subscribe, FallSilent, Fault, record, history, CallInv
<1>1. TypeOK'
  <2>1. CASE Connect(s) BY <2>1 DEF TypeOK, Used, Open
  <2>2. CASE Subscribe(s) BY <2>2 DEF TypeOK, Used, Open
  <2>3. CASE FallSilent(s) BY <2>3 DEF TypeOK, Used, Open
  <2>4. QED BY <2>1, <2>2, <2>3
<1>2. WorkInv' BY DEF TypeOK, WorkInv, Used
<1>3. PartyInv' BY DEF PartyInv, Used, is_call_participant, PeerOf
<1>4. \A q \in Session, d \in Call : InCall(q, d)' <=> InCall(q, d) BY DEF TypeOK, InCall
<1>5. LiveCallIsFollowed' BY <1>4 DEF LiveCallIsFollowed, Followed
<1>6. PeerInv' BY <1>4 DEF PeerInv, Told, NoticePending
<1>7. QED BY <1>1, <1>2, <1>3, <1>5, <1>6

LEMMA OfferInv ==
  ASSUME CallInv, NEW s \in Session, NEW c \in Call, NEW u \in User, CallOffer(s, c, u)
  PROVE  CallInv'
<1> USE SessionAssumption, NoneAssumption DEF CallOffer, Reads, history, CallInv
<1>1. TypeOK' BY DEF TypeOK, Used, Open, Live
<1>2. WorkInv' BY DEF TypeOK, WorkInv, Used
<1>3. PartyInv' BY DEF TypeOK, PartyInv, Used, is_call_participant, PeerOf
<1>4. LiveCallIsFollowed' BY DEF TypeOK, LiveCallIsFollowed, Followed, InCall
<1>5. PeerInv'
  <2> SUFFICES ASSUME NEW q \in Session, NEW d \in Call \ forgotten',
                      InCall(q, d)', status'[d] \in Over, endedBy'[d] # UserOf[q]
               PROVE  Told(q, d)'
    BY DEF PeerInv
  <2>1. d # c BY DEF TypeOK, Over
  <2>2. Told(q, d) BY <2>1 DEF TypeOK, PeerInv, InCall
  <2>3. work[s] = NoWork BY DEF WorkInv
  <2>4. QED BY <2>2, <2>3, SMTT(30) DEF TypeOK, Told, NoticePending, NoWork
<1>6. QED BY <1>1, <1>2, <1>3, <1>4, <1>5

LEMMA AcknowledgedInv ==
  ASSUME CallInv, NEW s \in Session, OfferAcknowledged(s)
  PROVE  CallInv'
<1> USE SessionAssumption, NoneAssumption DEF OfferAcknowledged, NewCall, record, CallInv
<1> DEFINE c == work[s].call
<1>0. c \in Used /\ c \in Call /\ c # None BY DEF WorkInv, Used
<1>1. TypeOK' BY <1>0 DEF TypeOK, Used, Open, Abandoned
<1>2. WorkInv' BY DEF TypeOK, WorkInv, Used
<1>3. PartyInv' BY <1>0 DEF TypeOK, WorkInv, PartyInv, Used, is_call_participant, PeerOf
<1>4. LiveCallIsFollowed'
  BY <1>0 DEF TypeOK, LiveCallIsFollowed, Followed, InCall, Abandoned
<1>5. PeerInv'
  <2> SUFFICES ASSUME NEW q \in Session, NEW d \in Call \ forgotten',
                      InCall(q, d)', status'[d] \in Over, endedBy'[d] # UserOf[q]
               PROVE  Told(q, d)'
    BY DEF PeerInv
  <2>1. InCall(q, d) /\ (q = s => d = c) BY <1>0 DEF TypeOK, InCall
  <2>2. Told(q, d) BY <2>1 DEF PeerInv
  <2>3. QED BY <2>1, <2>2 DEF TypeOK, Told, NoticePending
<1>6. QED BY <1>1, <1>2, <1>3, <1>4, <1>5

(* A party answers, rejects or hangs up; the other one is to be told. *)
LEMMA HandleInv ==
  ASSUME CallInv, NEW s \in Session, NEW c \in Call, NEW ok \in BOOLEAN,
         CallAnswer(s, c, ok) \/ CallReject(s, c, ok) \/ CallHangup(s, c, ok)
  PROVE  CallInv'
<1> USE SessionAssumption, NoneAssumption, FaultAssumption
    DEF Reads, update_status, Fault, NewCall, Failed, CallInv
<1>0. PICK new \in Live \cup Over, kind \in {"call_answered", "call_rejected", "call_hangup"} :
        /\ Handle(s, c, new, kind, ok)
        /\ \/ new = "answered" /\ active' = [active EXCEPT ![s] = [call |-> c, peer |-> PeerOf(s, c)]]
           \/ /\ new \in Over /\ kind \in {"call_rejected", "call_hangup"}
              /\ active' = [active EXCEPT ![s] = NoCall]
  BY DEF CallAnswer, CallReject, CallHangup, Live, Over
<1> USE <1>0 DEF Handle
<1>1. PeerOf(s, c) \in User BY DEF PartyInv, PeerOf
<1>2. TypeOK'
  <2>1. active' \in [Session -> [call : Call \cup {None}, peer : User \cup {None}]]
    BY <1>1, SMTT(30) DEF TypeOK, NoCall
  <2>2. work' \in [Session -> [kind : {"none", "incoming_call", "call_answered",
                                   "call_rejected", "call_hangup"},
                           call : Call \cup {None}, peer : User \cup {None}]]
    BY <1>1 DEF TypeOK
  <2>3. /\ status' \in [Call -> {"none"} \cup Live \cup Over]
        /\ offer' \subseteq Used'
    BY DEF TypeOK, Used, Live, Over
  <2>4. faults' \in 0..MaxFault BY DEF TypeOK
  <2>5. endedBy' \in [Call -> User \cup {None}] BY DEF TypeOK
  <2>6. subscribed' \subseteq Open' /\ silent' \subseteq Open' BY DEF TypeOK, Open
  <2>7. QED BY <2>1, <2>2, <2>3, <2>4, <2>5, <2>6 DEF TypeOK, Abandoned
<1>3. Used' = Used BY DEF Used, TypeOK, Live, Over
<1>4. WorkInv' BY <1>3 DEF TypeOK, WorkInv
<1>5. PartyInv'
  <2>1. \A q \in Session, d \in Call :
          /\ is_call_participant(q, d)' <=> is_call_participant(q, d)
          /\ PeerOf(q, d)' = PeerOf(q, d)
    BY DEF is_call_participant, PeerOf
  <2>2. \A q \in Session \ {s} : active'[q] = active[q] BY DEF TypeOK
  <2>3. \/ active'[s] = [call |-> c, peer |-> PeerOf(s, c)] \/ active'[s] = NoCall BY DEF TypeOK
  <2>4. Used \subseteq Call BY DEF Used
  <2>5. QED BY <1>3, <2>1, <2>2, <2>3, <2>4 DEF PartyInv
<1>6. LiveCallIsFollowed'
  BY DEF TypeOK, LiveCallIsFollowed, Followed, InCall, Abandoned, NoCall, Live, Over
<1>7. PeerInv'
  <2> SUFFICES ASSUME NEW q \in Session, NEW d \in Call \ forgotten',
                      InCall(q, d)', status'[d] \in Over, endedBy'[d] # UserOf[q]
               PROVE  Told(q, d)'
    BY DEF PeerInv
  <2>1. q # s
    <3> SUFFICES ASSUME q = s PROVE FALSE
      OBVIOUS
    <3>1. pc'[s] = "relay" BY DEF TypeOK
    <3>2. active'[s].call = d BY <3>1 DEF InCall
    <3>3. new = "answered" /\ d = c BY <3>2 DEF TypeOK, NoCall
    <3>4. ok => status'[c] = "answered" BY <3>3 DEF TypeOK
    <3>5. QED BY <3>3, <3>4 DEF Over
  <2>2. InCall(q, d) BY <2>1 DEF TypeOK, InCall
  <2>3. CASE d = c /\ ok
    <3>1. new \in Over BY <2>3 DEF TypeOK, Over
    <3>2. endedBy'[d] = UserOf[s] BY <2>3, <3>1 DEF TypeOK
    <3>3. is_call_participant(q, c) BY <2>2, <2>3 DEF InCall, WorkInv, PartyInv, NoCall, is_call_participant
    <3>4. PeerOf(s, c) = UserOf[q] BY <3>2, <3>3 DEF is_call_participant, PeerOf
    <3>5. NoticePending(q, d)' BY <2>3, <3>1, <3>4 DEF TypeOK, NoticePending, Over, Live
    <3>6. QED BY <3>5 DEF Told
  <2>4. CASE ~(d = c /\ ok)
    <3>1. d # c \/ d \notin Call \ forgotten' BY <2>4
    <3>2. status'[d] = status[d] /\ endedBy'[d] = endedBy[d] BY <3>1 DEF TypeOK
    <3>3. Told(q, d) BY <2>2, <3>2 DEF PeerInv
    <3>4. work[s] = NoWork BY DEF WorkInv
    <3>5. QED BY <2>1, <3>3, <3>4 DEF TypeOK, Told, NoticePending, NoWork
  <2>5. QED BY <2>3, <2>4
<1>8. QED BY <1>2, <1>4, <1>5, <1>6, <1>7

(* The loop of a session ends, with the call it created given up in lost   *)
(* if it was not acknowledged yet.                                         *)
LEMMA LoopEndsInv ==
  ASSUME CallInv, NEW s \in Session, NEW ok \in BOOLEAN, NEW lost, LoopEnds(s, ok, lost),
         \/ pc[s] = "idle" /\ lost = {}
         \/ pc[s] = "ack" /\ lost = {work[s].call}
  PROVE  CallInv'
<1> USE SessionAssumption, NoneAssumption, FaultAssumption DEF LoopEnds, CallInv
<1> DEFINE a == active[s]
<1>0. /\ lost \subseteq Call /\ work[s].kind \notin {"call_rejected", "call_hangup"}
      /\ \A c \in Call : pc[s] = "ack" /\ work[s].call = c => c \in lost
  BY DEF WorkInv, NoWork, Used
<1>1. CASE a # NoCall
  <2>0. /\ a.call \in Used /\ a.call \in Call /\ a.call # None /\ a.peer \in User
        /\ is_call_participant(s, a.call) /\ a.peer = PeerOf(s, a.call)
    BY <1>1 DEF PartyInv, Used, PeerOf
  <2> DEFINE c == a.call
  <2>1. /\ update_status(s, c, "ended", ok) /\ Fault(ok)
        /\ pc' = [pc EXCEPT ![s] = "closing"]
        /\ work' = [work EXCEPT ![s] = [kind |-> "call_hangup", call |-> c, peer |-> a.peer]]
        /\ forgotten' = forgotten \cup lost \cup Failed(c, ok)
    BY <1>1 DEF Leave
  <2> HIDE DEF c
  <2> USE <2>1 DEF update_status, Fault, Failed
  <2>c. c = active[s].call BY DEF c
  <2>2. Used' = Used BY <2>0, <2>c DEF Used, TypeOK
  <2>3. TypeOK'
    <3>1. /\ status' \in [Call -> {"none"} \cup Live \cup Over]
          /\ offer' \subseteq Used'
      BY <2>0, <2>2, <2>c DEF TypeOK, Over
    <3>2. /\ work' \in [Session -> [kind : {"none", "incoming_call", "call_answered",
                                   "call_rejected", "call_hangup"},
                           call : Call \cup {None}, peer : User \cup {None}]]
          /\ active' \in [Session -> [call : Call \cup {None}, peer : User \cup {None}]]
      BY <2>0, <2>c DEF TypeOK, NoCall
    <3>3. faults' \in 0..MaxFault BY DEF TypeOK
    <3>4. subscribed' \subseteq Open' /\ silent' \subseteq Open' BY DEF TypeOK, Open
    <3>5. endedBy' \in [Call -> User \cup {None}] BY DEF TypeOK
    <3>6. QED BY <1>0, <2>0, <2>c, <3>1, <3>2, <3>3, <3>4, <3>5 DEF TypeOK, NewCall
  <2>4. WorkInv' BY <2>0, <2>2, <2>c DEF TypeOK, WorkInv
  <2>5. PartyInv'
    <3>1. \A q \in Session : active'[q] = active[q] \/ active'[q] = NoCall BY DEF TypeOK
    <3>2. Used \subseteq Call BY DEF Used
    <3>3. QED BY <2>2, <3>1, <3>2 DEF PartyInv, is_call_participant, PeerOf
  <2>6. LiveCallIsFollowed'
    <3> SUFFICES ASSUME NEW d \in Call \ forgotten', status'[d] \in Live
                 PROVE  Followed(d)'
      BY DEF LiveCallIsFollowed
    <3>1. d # c BY <2>0, <2>c DEF TypeOK, Live
    <3>2. status[d] \in Live BY <3>1 DEF TypeOK
    <3>3. PICK q \in Session : InCall(q, d) BY <3>2 DEF LiveCallIsFollowed, Followed
    <3>4. q # s BY <1>0, <2>c, <3>1, <3>3 DEF InCall
    <3>5. QED BY <3>3, <3>4 DEF Followed, InCall, TypeOK
  <2>7. PeerInv'
    <3> SUFFICES ASSUME NEW q \in Session, NEW d \in Call \ forgotten',
                        InCall(q, d)', status'[d] \in Over, endedBy'[d] # UserOf[q]
                 PROVE  Told(q, d)'
      BY DEF PeerInv
    <3>1. q # s /\ InCall(q, d) BY DEF TypeOK, InCall, NoCall
    <3>2. CASE d = c
      <4>1. ok /\ endedBy'[d] = UserOf[s] BY <3>2, <2>0, <2>c DEF TypeOK, Over
      <4>2. is_call_participant(q, c)
        BY <3>1, <3>2 DEF InCall, WorkInv, PartyInv, NoCall, is_call_participant
      <4>3. a.peer = UserOf[q] BY <2>0, <2>c, <4>1, <4>2 DEF is_call_participant, PeerOf
      <4>4. NoticePending(q, d)' BY <3>2, <4>3 DEF TypeOK, NoticePending
      <4>5. QED BY <4>4 DEF Told
    <3>3. CASE d # c
      <4>1. status'[d] = status[d] /\ endedBy'[d] = endedBy[d] BY <3>3 DEF TypeOK
      <4>2. Told(q, d) BY <3>1, <4>1 DEF PeerInv
      <4>3. QED BY <1>0, <3>1, <4>2 DEF TypeOK, Told, NoticePending, NewCall
    <3>4. QED BY <3>2, <3>3
  <2>8. QED BY <2>3, <2>4, <2>5, <2>6, <2>7
<1>2. CASE a = NoCall
  <2>1. /\ pc' = [pc EXCEPT ![s] = "off"] /\ work' = [work EXCEPT ![s] = NoWork]
        /\ forgotten' = forgotten \cup lost /\ UNCHANGED <<status, endedBy, faults>>
    BY <1>2 DEF Leave
  <2> USE <2>1
  <2>2. TypeOK' BY <1>0 DEF TypeOK, Used, Open, NoWork, NoCall, NewCall
  <2>3. WorkInv' BY DEF TypeOK, WorkInv, Used
  <2>4. PartyInv' BY <1>2 DEF TypeOK, PartyInv, Used, is_call_participant, PeerOf
  <2>5. LiveCallIsFollowed'
    BY <1>0, <1>2 DEF TypeOK, LiveCallIsFollowed, Followed, InCall, NoCall
  <2>6. PeerInv'
    <3> SUFFICES ASSUME NEW q \in Session, NEW d \in Call \ forgotten',
                        InCall(q, d)', status'[d] \in Over, endedBy'[d] # UserOf[q]
                 PROVE  Told(q, d)'
      BY DEF PeerInv
    <3>1. q # s /\ InCall(q, d) BY DEF TypeOK, InCall, NoCall
    <3>2. Told(q, d) BY <3>1 DEF PeerInv
    <3>3. QED BY <1>0, <3>1, <3>2 DEF TypeOK, Told, NoticePending, NewCall
  <2>7. QED BY <2>2, <2>3, <2>4, <2>5, <2>6
<1>3. QED BY <1>1, <1>2

(* An event is published: those it concerns have got it or have missed it. *)
LEMMA RelayInv ==
  ASSUME CallInv, NEW s \in Session, NEW ok \in BOOLEAN, Relay(s, ok)
  PROVE  CallInv'
<1> USE SessionAssumption, NoneAssumption, FaultAssumption DEF Relay, record, CallInv
<1> DEFINE e == work[s]
<1>0. e.call \in Used /\ e.call \in Call BY DEF TypeOK, WorkInv, Used
<1>1. /\ told' \in [Session -> SUBSET Call] /\ missed' \subseteq Session \X Call
      /\ \A q \in Session : told[q] \subseteq told'[q]
      /\ missed \subseteq missed'
  BY <1>0 DEF TypeOK, Publish, SessionsOf
<1>2. \A q \in Session, d \in Call : InCall(q, d)' <=> InCall(q, d)
  BY DEF TypeOK, InCall
<1>3. TypeOK'
  <2>1. offer' \subseteq Used' BY <1>0 DEF TypeOK, Used
  <2>2. faults' \in 0..MaxFault BY DEF TypeOK, Fault
  <2>3. subscribed' \subseteq Open' /\ silent' \subseteq Open' BY DEF TypeOK, Open
  <2>4. QED BY <1>1, <2>1, <2>2, <2>3 DEF TypeOK, NoWork
<1>4. WorkInv' BY DEF TypeOK, WorkInv, Used
<1>5. PartyInv' BY DEF PartyInv, Used, is_call_participant, PeerOf
<1>6. LiveCallIsFollowed' BY <1>2 DEF LiveCallIsFollowed, Followed
<1>7. PeerInv'
  <2> SUFFICES ASSUME NEW q \in Session, NEW d \in Call \ forgotten',
                      InCall(q, d)', status'[d] \in Over, endedBy'[d] # UserOf[q]
               PROVE  Told(q, d)'
    BY DEF PeerInv
  <2>1. InCall(q, d) /\ Told(q, d) BY <1>2 DEF PeerInv
  <2>2. CASE d \in told[q] \/ <<q, d>> \in missed BY <1>1, <2>2 DEF Told
  <2>3. CASE NoticePending(q, d)
    <3>1. PICK p \in Session : /\ work[p].kind \in {"call_rejected", "call_hangup"}
                               /\ work[p].call = d /\ work[p].peer = UserOf[q]
      BY <2>3 DEF NoticePending
    <3>2. CASE p # s BY <3>1, <3>2 DEF TypeOK, Told, NoticePending
    <3>3. CASE p = s
      <4>1. q \in SessionsOf(e.peer) BY <3>1, <3>3 DEF SessionsOf
      <4>2. CASE ok /\ q \in subscribed
        <5>1. q \in Listeners(e.peer) BY <3>1, <3>3, <4>2 DEF Listeners
        <5>2. d \in told'[q] BY <2>1, <3>1, <3>3, <4>1, <4>2, <5>1 DEF Publish
        <5>3. QED BY <5>2 DEF Told
      <4>3. CASE ~ok \/ q \notin subscribed
        <5>1. <<q, d>> \in missed' BY <2>1, <3>1, <3>3, <4>1, <4>3 DEF Publish
        <5>2. QED BY <5>1 DEF Told
      <4>4. QED BY <4>2, <4>3
    <3>4. QED BY <3>2, <3>3
  <2>4. QED BY <2>1, <2>2, <2>3 DEF Told
<1>8. QED BY <1>3, <1>4, <1>5, <1>6, <1>7

LEMMA TakeOfferInv ==
  ASSUME CallInv, NEW c \in Call, TakeOffer(c)
  PROVE  CallInv'
<1> USE DEF TakeOffer, record, history, CallInv
<1>1. TypeOK' BY DEF TypeOK, Used, Open
<1>2. WorkInv' BY DEF WorkInv, Used
<1>3. PartyInv' BY DEF PartyInv, Used, is_call_participant, PeerOf
<1>4. LiveCallIsFollowed' BY DEF LiveCallIsFollowed, Followed, InCall
<1>5. PeerInv' BY DEF PeerInv, Told, NoticePending, InCall
<1>6. QED BY <1>1, <1>2, <1>3, <1>4, <1>5

LEMMA CrashInv ==
  ASSUME CallInv, Crash
  PROVE  CallInv'
<1> USE NoneAssumption, FaultAssumption DEF Crash, Fault, record, CallInv
<1>1. TypeOK' BY DEF TypeOK, Used, Open, NoWork, NoCall
<1>2. WorkInv' BY DEF WorkInv
<1>3. PartyInv' BY DEF PartyInv, Used
<1>4. LiveCallIsFollowed' BY DEF LiveCallIsFollowed
<1>5. PeerInv' BY DEF PeerInv, InCall, NoCall
<1>6. QED BY <1>1, <1>2, <1>3, <1>4, <1>5

LEMMA CallStutter ==
  ASSUME CallInv, UNCHANGED vars
  PROVE  CallInv'
<1> USE DEF vars, record, history, CallInv
<1>1. TypeOK' BY DEF TypeOK, Used, Open
<1>2. WorkInv' BY DEF WorkInv, Used
<1>3. PartyInv' BY DEF PartyInv, Used, is_call_participant, PeerOf
<1>4. LiveCallIsFollowed' BY DEF LiveCallIsFollowed, Followed, InCall
<1>5. PeerInv' BY DEF PeerInv, Told, NoticePending, InCall
<1>6. QED BY <1>1, <1>2, <1>3, <1>4, <1>5

LEMMA CallNext == CallInv /\ [Next]_vars => CallInv'
<1> SUFFICES ASSUME CallInv, [Next]_vars PROVE CallInv'
  OBVIOUS
<1>1. ASSUME NEW s \in Session, Connect(s) \/ Subscribe(s) \/ FallSilent(s) PROVE CallInv'
  BY <1>1, ConnectInv
<1>2. ASSUME NEW s \in Session, ClientEvent(s) PROVE CallInv'
  BY <1>2, OfferInv, HandleInv DEF ClientEvent
<1>3. ASSUME NEW s \in Session, NEW ok \in BOOLEAN,
             Close(s, ok) \/ HeartbeatTimeout(s, ok) \/ OfferAckFails(s, ok)
      PROVE CallInv'
  BY <1>3, LoopEndsInv DEF Close, HeartbeatTimeout, OfferAckFails
<1>4. ASSUME NEW s \in Session, SessionStep(s) PROVE CallInv'
  BY <1>3, <1>4, AcknowledgedInv, RelayInv DEF SessionStep
<1>5. ASSUME NEW c \in Call, TakeOffer(c) PROVE CallInv'
  BY <1>5, TakeOfferInv
<1>6. CASE Crash BY <1>6, CrashInv
<1>7. CASE UNCHANGED vars BY <1>7, CallStutter
<1>8. QED BY <1>1, <1>2, <1>3, <1>4, <1>5, <1>6, <1>7 DEF Next

----------------------------------------------------------------------------
(* The inductive invariant of call signalling. *)
THEOREM CallInvariant == Spec => []CallInv
  BY CallInit, CallNext, PTL DEF Spec

(* Records, sessions and notices are what they are meant to be. *)
THEOREM CallTypes == Spec => []TypeOK
  BY CallInvariant, PTL DEF CallInv

(* The clean-up of run_ws_session: a call recorded as going on is followed *)
(* by a session, but for the ways to lose it that forgotten names.         *)
THEOREM LiveCallsAreFollowed == Spec => []LiveCallIsFollowed
  BY CallInvariant, PTL DEF CallInv

LEMMA ToldIsTold == CallInv => PeerIsTold
  BY NoneAssumption DEF CallInv, TypeOK, PeerInv, PeerIsTold, Told, InCall

(* However hangups, rejections, answers and disconnects cross, a session   *)
(* in a call the other party has ended has been sent the news, or it is on *)
(* its way, or was lost.                                                   *)
THEOREM PeersAreTold == Spec => []PeerIsTold
  BY CallInvariant, ToldIsTold, PTL
=============================================================================
