-------------------------------- MODULE Push --------------------------------
(***************************************************************************)
(* Push notifications: the table of device tokens, the dispatch of a       *)
(* message or of an incoming call to the devices of its recipient, and the *)
(* relay that the dispatch posts to, which is this server's own /webhook   *)
(* route on another host.  APNs is external: it accepts a push, refuses    *)
(* it, or the call fails on the way, with or without the push going out.   *)
(*                                                                         *)
(* Source: services/push_token_service.rs, push_dispatch_service.rs and    *)
(* apns_service.rs, routes/push.rs and push_relay.rs.                      *)
(***************************************************************************)
EXTENDS Naturals, FiniteSets

CONSTANTS
  User, Token, Dispatch, None,
  Ios, Voip, Android  \* tokens of iOS devices, the VoIP ones among them, and of Android

VARIABLES
  config,     \* push_delivery_mode, whether APNs is configured, and the relay
  rows,       \* device_push_tokens: the user of each token, or None
  job,        \* the tasks that dispatch a push
  relay,      \* the relay's handler of each task's request
  sent,       \* history: pushes of each task that APNs took, by token
  signedIn,   \* history: who signed in on the device of a token last
  held        \* history: tokens of the recipient's devices at some moment of the task

vars == <<config, rows, job, relay, sent, signedIn, held>>
-----------------------------------------------------------------------------
\* A token is issued to one application on one device: its platform and its
\* kind go with it wherever it is sent.
\* PushDeliveryMode; parse_apns_config here; the relay has no APNs configuration or another secret
Config == [mode : {"relay", "direct", "hybrid"}, apns : BOOLEAN,
           relay : {"ready", "unconfigured", "forbidden"}]

is_relay_deliverable_platform(t) == t \in Android

\* Mutant: the default tokens of a user with a VoIP token are not dropped.
IosTargets_Both(event, ts) == ts \cap Ios

\* The iOS devices a push is for: all of them for a message; for a call those
\* with a VoIP token, or all where there is none.
IosTargets(event, ts) ==
  IF event = "call" /\ ts \cap Voip # {} THEN ts \cap Voip ELSE ts \cap Ios

list_tokens_for_user(u) == {t \in Token : rows[t] = u}

NoJob == [pc |-> "idle", event |-> None, user |-> None, ios |-> {}, hook |-> {},
          left |-> {}, failed |-> FALSE, error |-> FALSE]
NoRequest == [pc |-> "idle", left |-> {}, failed |-> FALSE]

TypeOK ==
  /\ config \in Config
  /\ rows \in [Token -> User \cup {None}]
  /\ \A d \in Dispatch :
       /\ job[d].pc \in {"idle", "apns", "post", "wait", "done"}
       /\ job[d].event \in {None, "message", "call"} /\ job[d].user \in User \cup {None}
       /\ job[d].ios \subseteq Ios /\ job[d].hook \subseteq Token
       /\ job[d].left \subseteq job[d].ios
       /\ relay[d].pc \in {"idle", "got", "send", "ok", "error", "dropped"}
       /\ relay[d].left \subseteq job[d].hook
  /\ sent \in [Dispatch -> [Token -> 0..2]]
  /\ signedIn \in [Token -> User \cup {None}]
  /\ held \in [Dispatch -> SUBSET Token]

Init ==
  /\ config \in Config
  /\ rows = [t \in Token |-> None]
  /\ job = [d \in Dispatch |-> NoJob]
  /\ relay = [d \in Dispatch |-> NoRequest]
  /\ sent = [d \in Dispatch |-> [t \in Token |-> 0]]
  /\ signedIn = [t \in Token |-> None]
  /\ held = [d \in Dispatch |-> {}]
-----------------------------------------------------------------------------
Running(d) == job[d].pc \in {"apns", "post", "wait"} \/ relay[d].pc \in {"got", "send"}

\* Mutant: a token stays with its first user.
upsert_token_KeepUser(u, t) == rows' = [rows EXCEPT ![t] = IF @ = None THEN u ELSE @]

\* The device of t passes to u: a row for it, whoever had it before.
upsert_token(u, t) == rows' = [rows EXCEPT ![t] = u]

register(u, t) ==
  /\ upsert_token(u, t)
  /\ signedIn' = [signedIn EXCEPT ![t] = u]
  /\ held' = [d \in Dispatch |->
       IF Running(d) /\ job[d].user = u THEN held[d] \cup {t} ELSE held[d]]
  /\ UNCHANGED <<config, job, relay, sent>>

\* A user can only take back a token of its own.
unregister(u, t) ==
  /\ rows[t] = u
  /\ rows' = [rows EXCEPT ![t] = None]
  /\ signedIn' = [signedIn EXCEPT ![t] = None]
  /\ UNCHANGED <<config, job, relay, sent, held>>
-----------------------------------------------------------------------------
(* The dispatch of a push. *)

\* Where the push goes first, by the mode: to APNs, or to the relay.
Route(event, u, ts) ==
  LET ios    == IosTargets(event, ts)
      hook   == {t \in ts : is_relay_deliverable_platform(t)}
      direct == config.mode # "relay" /\ config.apns
      handed == config.mode = "relay" \/ (config.mode = "hybrid" /\ ~config.apns)
  IN  [NoJob EXCEPT
        !.pc = IF ts = {} THEN "done" ELSE IF direct THEN "apns" ELSE "post",
        !.event = event, !.user = u, !.ios = ios,
        !.hook = IF handed THEN hook \cup ios ELSE hook,
        !.left = IF direct THEN ios ELSE {}]

dispatch(d, event, u) ==
  /\ job[d].pc = "idle"
  /\ job' = [job EXCEPT ![d] = Route(event, u, list_tokens_for_user(u))]
  /\ held' = [held EXCEPT ![d] = {t \in Token : signedIn[t] = u}]
  /\ UNCHANGED <<config, rows, relay, sent, signedIn>>

\* Mutant: an error on the way gives the list up without being noted.
AfterSend_Swallow(w, t, outcome) ==
  [w EXCEPT !.left = IF outcome = "unreachable" THEN {} ELSE @ \ {t},
            !.failed = @ \/ outcome = "refused"]

\* What one call to APNs leaves of a list: a device that is done with, a
\* failure noted; an error on the way gives the rest of the list up.
AfterSend(w, t, outcome) ==
  [w EXCEPT !.left = IF outcome = "unreachable" THEN {} ELSE @ \ {t},
            !.failed = @ \/ outcome # "accepted"]

\* The outcomes of a push to APNs, and the ones where the device gets it.
SentBy(d, t, outcome) ==
  \/ outcome # "refused" /\ sent' = [sent EXCEPT ![d][t] = @ + 1]
  \/ outcome # "accepted" /\ UNCHANGED sent

Outcome == {"accepted", "refused", "unreachable"}

send_to_tokens(d) ==
  /\ job[d].pc = "apns"
  /\ \E t \in job[d].left, o \in Outcome :
       SentBy(d, t, o) /\ job' = [job EXCEPT ![d] = AfterSend(@, t, o)]
  /\ UNCHANGED <<config, rows, relay, signedIn, held>>

\* Mutant: hybrid mode always posts the list.
Fallback_Always(j) ==
  [j EXCEPT !.pc = "post",
            !.error = @ \/ (j.failed /\ config.mode = "direct"),
            !.hook = IF config.mode = "hybrid" THEN @ \cup j.ios ELSE @]

\* The list is through: a failure is an error, or in hybrid mode sends all of it to the relay.
Fallback(j) ==
  [j EXCEPT !.pc = "post",
            !.error = @ \/ (j.failed /\ config.mode = "direct"),
            !.hook = IF j.failed /\ config.mode = "hybrid" THEN @ \cup j.ios ELSE @]

apns_done(d) ==
  /\ job[d].pc = "apns" /\ job[d].left = {}
  /\ job' = [job EXCEPT ![d] = Fallback(@)]
  /\ UNCHANGED <<config, rows, relay, sent, signedIn, held>>

Ends(d, error) == [job[d] EXCEPT !.pc = "done", !.error = @ \/ error]

\* send_webhook_push: the request reaches the relay, or nobody.
send_webhook_push(d) ==
  /\ job[d].pc = "post"
  /\ \/ job[d].hook = {} /\ job' = [job EXCEPT ![d] = Ends(d, FALSE)] /\ UNCHANGED relay
     \/ job[d].hook # {} /\ job' = [job EXCEPT ![d] = Ends(d, TRUE)] /\ UNCHANGED relay
     \/ /\ job[d].hook # {} /\ job' = [job EXCEPT ![d].pc = "wait"]
        /\ relay' = [relay EXCEPT ![d].pc = "got"]
  /\ UNCHANGED <<config, rows, sent, signedIn, held>>

\* The answer, or the timeout of the request while the relay is still at work.
webhook_answer(d) ==
  /\ job[d].pc = "wait"
  /\ \/ relay[d].pc = "ok" /\ job' = [job EXCEPT ![d] = Ends(d, FALSE)]
     \/ job' = [job EXCEPT ![d] = Ends(d, TRUE)]
  /\ UNCHANGED <<config, rows, relay, sent, signedIn, held>>
-----------------------------------------------------------------------------
(* The relay. *)

\* The devices the relay sends to; of a call those with VoIP tokens come
\* first, and the dispatch names no others where there are any.
RelayTargets(d) == job[d].hook \cap Ios

webhook(d) ==
  /\ relay[d].pc = "got"
  /\ relay' = [relay EXCEPT ![d] =
       CASE config.relay = "forbidden"    -> [@ EXCEPT !.pc = "error"]
         [] config.relay # "forbidden" /\ RelayTargets(d) = {} -> [@ EXCEPT !.pc = "ok"]
         [] config.relay = "unconfigured" /\ RelayTargets(d) # {} -> [@ EXCEPT !.pc = "error"]
         [] OTHER -> [@ EXCEPT !.pc = "send", !.left = RelayTargets(d)]]
  /\ UNCHANGED <<config, rows, job, sent, signedIn, held>>

relay_send(d) ==
  /\ relay[d].pc = "send"
  /\ \E t \in relay[d].left, o \in Outcome :
       SentBy(d, t, o) /\ relay' = [relay EXCEPT ![d] = AfterSend(@, t, o)]
  /\ UNCHANGED <<config, rows, job, signedIn, held>>

relay_done(d) ==
  /\ relay[d].pc = "send" /\ relay[d].left = {}
  /\ relay' = [relay EXCEPT ![d].pc = IF relay[d].failed THEN "error" ELSE "ok"]
  /\ UNCHANGED <<config, rows, job, sent, signedIn, held>>

\* The caller is gone: actix may drop the handler where it stands.
relay_dropped(d) ==
  /\ job[d].pc = "done" /\ relay[d].pc \in {"got", "send"}
  /\ relay' = [relay EXCEPT ![d] = [NoRequest EXCEPT !.pc = "dropped"]]
  /\ UNCHANGED <<config, rows, job, sent, signedIn, held>>

Next ==
  \/ \E u \in User, t \in Token :
       register(u, t) \/ unregister(u, t)
  \/ \E d \in Dispatch :
       \/ \E u \in User, event \in {"message", "call"} : dispatch(d, event, u)
       \/ send_to_tokens(d) \/ apns_done(d)
       \/ send_webhook_push(d) \/ webhook_answer(d)
       \/ webhook(d) \/ relay_send(d) \/ relay_done(d) \/ relay_dropped(d)

Spec == Init /\ [][Next]_vars
-----------------------------------------------------------------------------
(* A dispatch that reports success has reached every iOS device it was     *)
(* for, through APNs itself or through the relay, whatever failed on the   *)
(* way.  The exception is direct mode without an APNs configuration, where *)
(* dispatch_new_message skips the iOS devices and reports success.         *)
SuccessReachesAll ==
  \A d \in Dispatch :
    job[d].pc = "done" /\ ~job[d].error /\ ~(config.mode = "direct" /\ ~config.apns)
      => \A t \in job[d].ios : sent[d][t] >= 1

(* A device gets one notification of one event, unless APNs failed in      *)
(* hybrid mode for one device of the list: then the relay is given the     *)
(* whole list again.                                                       *)
TwiceOnlyAfterFailure ==
  \A d \in Dispatch, t \in Token :
    sent[d][t] > 1 => config.mode = "hybrid" /\ job[d].failed

(* A call rings a user's devices by VoIP pushes or by alerts, never both:  *)
(* the alert would be recorded as a missed call by a client that answered. *)
RingsOneWay ==
  \A d \in Dispatch : job[d].event = "call" =>
    LET rung == {t \in Token : sent[d][t] > 0}
    IN  rung \subseteq Voip \/ rung \cap Voip = {}

(* A push goes to a device only if its recipient was signed in there at    *)
(* some moment since the dispatch began: a device that has passed to       *)
(* another user gets none of the first one's messages any more.            *)
NotToFormerUser ==
  \A d \in Dispatch, t \in Token : sent[d][t] > 0 => t \in held[d]

(* A push goes to the devices of its recipient, to all of them if it       *)
(* reports success, and once each, but for the exceptions above.           *)
PushInv ==
  TypeOK /\ SuccessReachesAll /\ TwiceOnlyAfterFailure /\ RingsOneWay /\ NotToFormerUser

(* What the comment on webhook_targets says, that the relay can deliver to *)
(* the platforms it is given: a dispatch that reports success has reached  *)
(* every device it named to the relay.                                     *)
RelayReachesAll ==
  \A d \in Dispatch :
    job[d].pc = "done" /\ ~job[d].error => \A t \in job[d].hook : sent[d][t] >= 1
=============================================================================
