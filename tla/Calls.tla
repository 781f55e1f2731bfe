------------------------------- MODULE Calls -------------------------------
(***************************************************************************)
(* One-to-one call signalling: the WebSocket session loop (ws/session.rs), *)
(* the call_records table (services/call_service.rs) and the offer stash   *)
(* in Redis (routes/calls.rs).                                             *)
(*                                                                         *)
(* A session handles one client event at a time, but awaits between its    *)
(* database write and its Redis publish, so sessions interleave there: pc  *)
(* says where a handler is, work which message it has still to relay.  A   *)
(* user may have several sessions (devices).  A client may send any event  *)
(* about any call; only the server's own checks restrain it, except that   *)
(* the peer it names is the other party and it does not call itself.       *)
(* Typing events and ICE candidates are relayed without touching any state *)
(* and are left out.                                                       *)
(***************************************************************************)
EXTENDS Naturals, FiniteSets

CONSTANTS
  User, Session, Call, None,
  UserOf,          \* the authenticated user of each session
  MaxFault         \* bound on crashes, silent clients, lost publishes, failed writes

ASSUME SessionAssumption == UserOf \in [Session -> User]
ASSUME NoneAssumption == None \notin Call \cup User
ASSUME FaultAssumption == MaxFault \in Nat

VARIABLES
  status, caller, callee, \* call_records
  offer,      \* calls whose SDP offer is stashed in Redis
  pc,         \* of each session: where its loop is
  work,       \* the event a handler has still to relay
  active,     \* active_call
  subscribed, \* sessions whose Redis subscription is up
  silent,     \* sessions whose client no longer sends anything
  faults,     \* crashes, silent clients, lost publishes, failed writes so far
  told,       \* history: notices that a call is over, sent to each session
  endedBy,    \* history: the user whose session last wrote "ended" or "rejected"
  forgotten,  \* history: calls a session stopped tracking while they were live
  missed      \* history: <<session, call>> whose notice was lost on the way

record == <<status, caller, callee>>
history == <<told, endedBy, forgotten, missed>>
vars == <<record, offer, pc, work, active, subscribed, silent, faults, history>>

Live == {"initiated", "answered"}
Over == {"ended", "rejected"}
NoWork == [kind |-> "none", call |-> None, peer |-> None]
NoCall == [call |-> None, peer |-> None]

Open == {s \in Session : pc[s] \notin {"off", "closing"}}
SessionsOf(u) == {s \in Session : UserOf[s] = u}
Used == {c \in Call : status[c] # "none"}
PeerOf(s, c) == IF UserOf[s] = caller[c] THEN callee[c] ELSE caller[c]

Init ==
  /\ status = [c \in Call |-> "none"]
  /\ caller = [c \in Call |-> None] /\ callee = [c \in Call |-> None]
  /\ offer = {}
  /\ pc = [s \in Session |-> "off"]
  /\ work = [s \in Session |-> NoWork]
  /\ active = [s \in Session |-> NoCall]
  /\ subscribed = {} /\ silent = {} /\ faults = 0
  /\ told = [s \in Session |-> {}]
  /\ endedBy = [c \in Call |-> None]
  /\ forgotten = {} /\ missed = {}

----------------------------------------------------------------------------
(* run_ws_session starts; its Redis subscription comes up on its own task. *)
Connect(s) ==
  /\ pc[s] = "off"
  /\ pc' = [pc EXCEPT ![s] = "idle"]
  /\ UNCHANGED <<record, offer, work, active, subscribed, silent, faults, history>>

Subscribe(s) ==
  /\ s \in Open \ subscribed
  /\ subscribed' = subscribed \cup {s}
  /\ UNCHANGED <<record, offer, pc, work, active, silent, faults, history>>

(* A step that can go wrong; only MaxFault of them do. *)
Fault(ok) ==
  /\ ~ok => faults < MaxFault
  /\ faults' = IF ok THEN faults ELSE faults + 1

(* The network takes the client away; only the heartbeat will notice. *)
FallSilent(s) ==
  /\ s \in Open \ silent
  /\ Fault(FALSE)
  /\ silent' = silent \cup {s}
  /\ UNCHANGED <<record, offer, pc, work, active, subscribed, history>>

(* call_service::update_status: one unconditional UPDATE.  The session     *)
(* ignores its error (ok = FALSE).                                         *)
update_status(s, c, new, ok) ==
  /\ status' = IF ok THEN [status EXCEPT ![c] = new] ELSE status
  /\ endedBy' = IF ok /\ new \in Over THEN [endedBy EXCEPT ![c] = UserOf[s]] ELSE endedBy

Failed(c, ok) == IF ok THEN {} ELSE {c}

(* A live call that session s follows no more, since it handles call c. *)
Abandoned(s, c) == {d \in {active[s].call} \ {c, None} : status[d] \in Live}

(* Session s joins the calls in C (none or one): notices of others are     *)
(* no longer of interest.                                                  *)
NewCall(s, C) ==
  /\ told' = [told EXCEPT ![s] = @ \cap C]
  /\ missed' = {m \in missed : m[1] = s => m[2] \in C}

(* The loop of session s is idle and reads an event from its client. *)
Reads(s) == pc[s] = "idle" /\ s \notin silent

is_call_participant(s, c) == UserOf[s] \in {caller[c], callee[c]}

----------------------------------------------------------------------------
(* CallOffer: call_service::create, then the acknowledgement. *)
CallOffer(s, c, u) ==
  /\ Reads(s) /\ c \notin Used /\ u # UserOf[s]
  /\ status' = [status EXCEPT ![c] = "initiated"]
  /\ caller' = [caller EXCEPT ![c] = UserOf[s]]
  /\ callee' = [callee EXCEPT ![c] = u]
  /\ pc' = [pc EXCEPT ![s] = "ack"]
  /\ work' = [work EXCEPT ![s] = [kind |-> "incoming_call", call |-> c, peer |-> u]]
  /\ UNCHANGED <<offer, active, subscribed, silent, faults, history>>

(* The acknowledgement went out: active_call is set. *)
OfferAcknowledged(s) ==
  /\ pc[s] = "ack"
  /\ pc' = [pc EXCEPT ![s] = "relay"]
  /\ active' = [active EXCEPT ![s] = [call |-> work[s].call, peer |-> work[s].peer]]
  /\ forgotten' = forgotten \cup Abandoned(s, work[s].call)
  /\ NewCall(s, {work[s].call})
  /\ UNCHANGED <<record, offer, work, subscribed, silent, faults, endedBy>>

(* What CallAnswer, CallReject and CallHangup share: the participant       *)
(* check, the status write and the event to relay.                         *)
Handle(s, c, new, kind, ok) ==
  /\ Reads(s) /\ c \in Used
  /\ is_call_participant(s, c)
  /\ update_status(s, c, new, ok) /\ Fault(ok)
  /\ forgotten' = forgotten \cup Abandoned(s, c) \cup Failed(c, ok)
  /\ pc' = [pc EXCEPT ![s] = "relay"]
  /\ work' = [work EXCEPT ![s] = [kind |-> kind, call |-> c, peer |-> PeerOf(s, c)]]
  /\ NewCall(s, {})
  /\ UNCHANGED <<caller, callee, offer, subscribed, silent>>

CallAnswer(s, c, ok) ==
  /\ Handle(s, c, "answered", "call_answered", ok)
  /\ active' = [active EXCEPT ![s] = [call |-> c, peer |-> PeerOf(s, c)]]

CallReject(s, c, ok) ==
  /\ Handle(s, c, "rejected", "call_rejected", ok)
  /\ active' = [active EXCEPT ![s] = NoCall]

CallHangup(s, c, ok) ==
  /\ Handle(s, c, "ended", "call_hangup", ok)
  /\ active' = [active EXCEPT ![s] = NoCall]

----------------------------------------------------------------------------
(* Mutant: the call is left as it is. *)
Leave_NoStatus(s, ok, lost) ==
  /\ pc' = [pc EXCEPT ![s] = "closing"]
  /\ work' = [work EXCEPT ![s] = [kind |-> "call_hangup", call |-> active[s].call,
                                  peer |-> active[s].peer]]
  /\ forgotten' = forgotten \cup lost
  /\ UNCHANGED <<status, endedBy, faults>>

(* Mutant: the peer is not told. *)
Leave_NoRelay(s, ok, lost) ==
  /\ pc' = [pc EXCEPT ![s] = "off"]
  /\ work' = [work EXCEPT ![s] = NoWork]
  /\ IF active[s] = NoCall
     THEN ok /\ forgotten' = forgotten \cup lost /\ UNCHANGED <<status, endedBy, faults>>
     ELSE /\ update_status(s, active[s].call, "ended", ok) /\ Fault(ok)
          /\ forgotten' = forgotten \cup lost \cup Failed(active[s].call, ok)

(* The loop ends: a call the session still follows is marked ended and the *)
(* peer is to be told.                                                     *)
Leave(s, ok, lost) ==
  LET a == active[s]
  IN  \/ /\ a # NoCall
         /\ update_status(s, a.call, "ended", ok) /\ Fault(ok)
         /\ pc' = [pc EXCEPT ![s] = "closing"]
         /\ work' = [work EXCEPT ![s] =
                       [kind |-> "call_hangup", call |-> a.call, peer |-> a.peer]]
         /\ forgotten' = forgotten \cup lost \cup Failed(a.call, ok)
      \/ /\ a = NoCall /\ ok
         /\ pc' = [pc EXCEPT ![s] = "off"]
         /\ work' = [work EXCEPT ![s] = NoWork]
         /\ forgotten' = forgotten \cup lost
         /\ UNCHANGED <<status, endedBy, faults>>

(* Mutant: the subscriber task is still taken for subscribed. *)
LoopEnds_Subscribed(s, ok, lost) ==
  /\ Leave(s, ok, lost)
  /\ active' = [active EXCEPT ![s] = NoCall]
  /\ silent' = silent \ {s}
  /\ NewCall(s, {})
  /\ UNCHANGED <<caller, callee, offer, subscribed>>

LoopEnds(s, ok, lost) ==
  /\ Leave(s, ok, lost)
  /\ active' = [active EXCEPT ![s] = NoCall]
  /\ subscribed' = subscribed \ {s} /\ silent' = silent \ {s}
  /\ NewCall(s, {})
  /\ UNCHANGED <<caller, callee, offer>>

(* The client closes the socket, or a write to it fails. *)
Close(s, ok) == pc[s] = "idle" /\ LoopEnds(s, ok, {})

(* Mutant: the function returns from the loop, past the clean-up. *)
HeartbeatTimeout_Return(s, ok) ==
  /\ pc[s] = "idle" /\ s \in silent /\ ok
  /\ pc' = [pc EXCEPT ![s] = "off"]
  /\ active' = [active EXCEPT ![s] = NoCall]
  /\ subscribed' = subscribed \ {s} /\ silent' = silent \ {s}
  /\ NewCall(s, {})
  /\ UNCHANGED <<record, offer, work, faults, endedBy, forgotten>>

(* The heartbeat tick finds the client silent for CLIENT_TIMEOUT. *)
HeartbeatTimeout(s, ok) == pc[s] = "idle" /\ s \in silent /\ LoopEnds(s, ok, {})

(* The acknowledgement of an offer fails: the call it created was not yet  *)
(* the session's active call.                                              *)
OfferAckFails(s, ok) == pc[s] = "ack" /\ LoopEnds(s, ok, {work[s].call})

Listeners(u) == {q \in subscribed : UserOf[q] = u}

(* Session q is in call c, or about to be once its offer is acknowledged. *)
InCall(q, c) == active[q].call = c \/ (pc[q] = "ack" /\ work[q].call = c)

(* The event is published on the peer's channel, or lost (no connection to *)
(* Redis, or an error that is only logged).                                *)
Publish(e, delivered) ==
  LET concerned == IF e.kind \in {"call_rejected", "call_hangup"}
                   THEN {q \in SessionsOf(e.peer) : InCall(q, e.call)} ELSE {}
      reached == IF delivered THEN Listeners(e.peer) ELSE {}
  IN  /\ told' = [q \in Session |->
           IF q \in concerned \cap reached THEN told[q] \cup {e.call} ELSE told[q]]
      /\ missed' = missed \cup {<<q, e.call>> : q \in
           {p \in concerned : ~delivered \/ p \notin subscribed}}

(* After an offer is published it is also stashed, for a callee that was   *)
(* not connected.                                                          *)
Relay(s, delivered) ==
  /\ pc[s] \in {"relay", "closing"}
  /\ Publish(work[s], delivered) /\ Fault(delivered)
  /\ offer' \in IF work[s].kind = "incoming_call"
                THEN {offer, offer \cup {work[s].call}} ELSE {offer}
  /\ pc' = [pc EXCEPT ![s] = IF @ = "closing" THEN "off" ELSE "idle"]
  /\ work' = [work EXCEPT ![s] = NoWork]
  /\ UNCHANGED <<record, active, subscribed, silent, endedBy, forgotten>>

(* get_call_offer takes the offer with GETDEL; the stash also expires. *)
TakeOffer(c) ==
  /\ c \in offer
  /\ offer' = offer \ {c}
  /\ UNCHANGED <<record, pc, work, active, subscribed, silent, faults, history>>

(* The server process dies: no session cleans up. *)
Crash ==
  /\ Fault(FALSE)
  /\ pc' = [s \in Session |-> "off"]
  /\ work' = [s \in Session |-> NoWork]
  /\ active' = [s \in Session |-> NoCall]
  /\ subscribed' = {} /\ silent' = {}
  /\ told' = [s \in Session |-> {}] /\ missed' = {}
  /\ forgotten' = forgotten \cup {c \in Call : status[c] \in Live}
  /\ UNCHANGED <<record, offer, endedBy>>

----------------------------------------------------------------------------
ClientEvent(s) ==
  \/ \E c \in Call, u \in User : CallOffer(s, c, u)
  \/ \E c \in Call, ok \in BOOLEAN : CallAnswer(s, c, ok) \/ CallReject(s, c, ok)
                                      \/ CallHangup(s, c, ok)

(* What the session does by itself. *)
SessionStep(s) ==
  \/ OfferAcknowledged(s)
  \/ \E ok \in BOOLEAN : OfferAckFails(s, ok) \/ Relay(s, ok)
                           \/ HeartbeatTimeout(s, ok)

Next ==
  \/ \E s \in Session : Connect(s) \/ Subscribe(s) \/ FallSilent(s)
                          \/ ClientEvent(s) \/ SessionStep(s)
  \/ \E s \in Session, ok \in BOOLEAN : Close(s, ok)
  \/ \E c \in Call : TakeOffer(c)
  \/ Crash

Spec == Init /\ [][Next]_vars

(* A session's task keeps running, and its heartbeat interval keeps ticking. *)
FairSpec == Spec /\ \A s \in Session : WF_vars(SessionStep(s))

----------------------------------------------------------------------------
TypeOK ==
  /\ status \in [Call -> {"none"} \cup Live \cup Over]
  /\ caller \in [Call -> User \cup {None}] /\ callee \in [Call -> User \cup {None}]
  /\ offer \subseteq Used
  /\ pc \in [Session -> {"off", "idle", "ack", "relay", "closing"}]
  /\ work \in [Session -> [kind : {"none", "incoming_call", "call_answered",
                                   "call_rejected", "call_hangup"},
                           call : Call \cup {None}, peer : User \cup {None}]]
  /\ active \in [Session -> [call : Call \cup {None}, peer : User \cup {None}]]
  /\ subscribed \subseteq Open /\ silent \subseteq Open
  /\ faults \in 0..MaxFault
  /\ told \in [Session -> SUBSET Call]
  /\ endedBy \in [Call -> User \cup {None}]
  /\ forgotten \subseteq Call /\ missed \subseteq Session \X Call

(* The clean-up of run_ws_session can work: a call recorded as going on is *)
(* followed by a session that will end it when its socket goes, unless a   *)
(* session moved on to another call while in it, a status write failed, an *)
(* acknowledgement failed or the server crashed.                           *)
Followed(c) ==
  \E s \in Session : InCall(s, c)
LiveCallIsFollowed ==
  \A c \in Call : status[c] \in Live => c \in forgotten \/ Followed(c)

(* ws/session.rs:443: on a disconnect the call is marked ended "rather     *)
(* than leaving both sides (and the call_records row) stuck mid-call".     *)
NoCallIsStuck ==
  \A c \in Call : status[c] \in Live => Followed(c)

(* A session that follows a call the other party has ended or rejected has *)
(* been sent that news since it joined, or the news is on its way, or was  *)
(* lost.  However hangups, rejections, answers and disconnects cross, no   *)
(* handler leaves its peer in the call without a word.                     *)
NoticePending(s, c) ==
  \E q \in Session : /\ work[q].kind \in {"call_rejected", "call_hangup"}
                     /\ work[q].call = c /\ work[q].peer = UserOf[s]
PeerIsTold ==
  \A s \in Session : LET c == active[s].call IN
    (c # None /\ c \notin forgotten /\ status[c] \in Over /\ endedBy[c] # UserOf[s])
      => c \in told[s] \/ <<s, c>> \in missed \/ NoticePending(s, c)

(* The heartbeat: a call followed by a session whose client fell silent is *)
(* over sooner or later.                                                   *)
SilentCallEnds ==
  \A s \in Session, c \in Call :
    (s \in silent /\ active[s].call = c) ~> (status[c] \in Over \/ c \in forgotten)
=============================================================================
