----------------------------- MODULE Federation -----------------------------
(***************************************************************************)
(* Two planets and the network between them: the outbox of the sender and  *)
(* the inbox of the receiver.  A request may be delayed, its answer may be *)
(* lost, the network may repeat a request, and both servers may crash.     *)
(*                                                                         *)
(* The inbox knows an activity by its id, whichever of its inboxes it came *)
(* to: it answers "duplicate" for the second of two recipients it has, and *)
(* stores one message, for the recipient whose request was first.          *)
(***************************************************************************)
EXTENDS FederationOutbox, FederationInbox

CONSTANT MaxCrash       \* bound on the crashes of either server

\* Activities that are not sent by this planet come from other software.
ASSUME SentAssumption == Sent \subseteq Activity
ASSUME MaxCrashAssumption == MaxCrash \in Nat

VARIABLES
  conn,     \* the request each sender waits on
  crashes

vars == <<outboxVars, inboxVars, conn, crashes>>

Init ==
  /\ OutboxInit /\ InboxInit
  /\ conn = [a \in Sent |-> None]
  /\ crashes = 0

(* post_activity_signed sends a request. *)
PostRequest(a, d) ==
  /\ Post(a) /\ Arrive(d, a)
  /\ conn' = [conn EXCEPT ![a] = d]
  /\ UNCHANGED crashes

(* Its answer comes back ... *)
ReceiveReply(a) ==
  /\ conn[a] # None /\ reply[conn[a]] # "none"
  /\ Answered(a, reply[conn[a]])
  /\ conn' = [conn EXCEPT ![a] = None]
  /\ UNCHANGED <<inboxVars, crashes>>

(* ... or a transport error does, whatever became of the request. *)
TransportError(a) ==
  /\ Answered(a, "transient")
  /\ conn' = [conn EXCEPT ![a] = None]
  /\ UNCHANGED <<inboxVars, crashes>>

(* The network delivers a request once more, or another planet sends one:  *)
(* nobody here waits for the answer.                                       *)
OtherRequest(a, d) ==
  /\ a \in Sent => \E e \in Delivery : carries[e] = a
  /\ Arrive(d, a)
  /\ UNCHANGED <<outboxVars, conn, crashes>>

CrashOne ==
  /\ crashes < MaxCrash
  /\ crashes' = crashes + 1
  /\ \/ OutboxCrash /\ UNCHANGED inboxVars /\ conn' = [a \in Sent |-> None]
     \/ InboxCrash /\ UNCHANGED <<outboxVars, conn>>

Next ==
  \/ \E a \in Sent : OutboxStep(a) /\ UNCHANGED <<inboxVars, conn, crashes>>
  \/ \E w \in Worker : RetryStep(w) /\ UNCHANGED <<inboxVars, conn, crashes>>
  \/ \E d \in Delivery : InboxStep(d) /\ UNCHANGED <<outboxVars, conn, crashes>>
  \/ \E a \in Sent, d \in Delivery : PostRequest(a, d)
  \/ \E a \in Activity, d \in Delivery : OtherRequest(a, d)
  \/ \E a \in Sent : ReceiveReply(a) \/ TransportError(a)
  \/ CrashOne

Spec == Init /\ [][Next]_vars

----------------------------------------------------------------------------
TypeOK ==
  /\ OutboxTypeOK /\ InboxTypeOK
  /\ conn \in [Sent -> Delivery \cup {None}]
  /\ crashes \in 0..MaxCrash

(* The contract between planets holds whatever the network repeats, loses  *)
(* or delays and wherever a server crashes (docs/design/threat-model.md:39 *)
(* "Idempotency keying by activity id"): inbox and outbox implement it.    *)
Contract == INSTANCE DeliveryContract WITH
  accepted <- recorded,
  copies <- messages,
  reported <- {a \in Sent : \E i \in Destination : row[<<a, i>>].status = "delivered"}
KeepsContract == Contract!Spec

(* inbox stores a note in three statements without a transaction.  A note  *)
(* that was recorded has become a message, or a handler is still about to, *)
(* or a handler of it failed in between: concurrent copies of a request    *)
(* alone never lose it, although all but one of them store nothing.        *)
AcceptedIsStored ==
  \A a \in recorded \cap Note : messages[a] > 0 \/ InHand(a) \/ a \in broken

(* Why the contract holds: one handler at a time has an activity in hand,  *)
(* the one that recorded it, and it has stored nothing of it yet ...       *)
Handling(d) == hpc[d] \in {"note", "message"}
OneInHand ==
  /\ \A d \in Delivery : Handling(d) =>
       /\ carries[d] \in recorded /\ messages[carries[d]] = 0
       /\ hpc[d] = "note" => carries[d] \notin remote
  /\ \A d, e \in Delivery :
       (Handling(d) /\ Handling(e) /\ carries[d] = carries[e]) => d = e
  /\ \A a \in Activity : a \notin recorded => messages[a] = 0

(* ... and "ok" on its way back to the outbox is about a recorded activity. *)
OkMeansRecorded ==
  /\ \A d \in Delivery :
       /\ hpc[d] = "none" => reply[d] = "none"
       /\ hpc[d] # "none" => carries[d] \in Activity
       /\ reply[d] = "ok" => carries[d] \in recorded
  /\ \A a \in Sent :
       /\ conn[a] # None => hpc[conn[a]] # "none" /\ carries[conn[a]] = a
       /\ verdict[a] = "ok" => a \in recorded
       /\ \A i \in Destination : row[<<a, i>>].status = "delivered" => a \in recorded

(* A request that still works has a destination to serve. *)
RoundsLeft ==
  \A a \in Sent :
    /\ spc[a] = "new" => list[a] = <<>> /\ at[a] = 1
    /\ spc[a] \notin {"new", "end"} => at[a] \in DOMAIN list[a]

ContractInv == TypeOK /\ OneInHand /\ OkMeansRecorded /\ RoundsLeft /\ AcceptedIsStored

(* send_to_remote: a row stays pending only while its request works on it, *)
(* or after that request was cut off by a crash or a database error        *)
(* (retry_due_deliveries never picks it up again).                         *)
PendingIsAttended ==
  \A x \in Row : row[x].status = "pending" =>
    \/ spc[x[1]] \in {"post", "wait", "mark", "fail"} /\ x = Current(x[1])
    \/ x \in orphaned

(* retry_due_deliveries works from a list read earlier and marks every row *)
(* on it as failed.  It never does so to a delivered row, and nor does a   *)
(* request that serves other destinations, unless the destination was in   *)
(* the list of the request twice.                                          *)
DeliveredIsFinal ==
  [][\A x \in Row \ Repeated :
       row[x].status = "delivered" => row'[x] = row[x]]_vars
=============================================================================
