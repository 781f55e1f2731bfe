-------------------------- MODULE FederationInbox --------------------------
(***************************************************************************)
(* The receiving planet: POST /users/{username}/inbox (routes/federation.rs *)
(* inbox, services/federation_service.rs).                                 *)
(*                                                                         *)
(* A delivery is one HTTP request that carries an activity.  The same      *)
(* activity may be carried by several requests (a repeated destination, a  *)
(* network that repeats requests), handled concurrently.  The handler runs *)
(* three separate statements, with no transaction around them: record the  *)
(* activity id, record the remote note, insert the local message.          *)
(***************************************************************************)
EXTENDS Naturals

CONSTANTS
  Activity, Delivery, None,
  Note         \* the activities that are a Create of a non-empty Note

ASSUME NoteAssumption == Note \subseteq Activity
ASSUME NoneAssumption == None \notin Activity

VARIABLES
  carries,    \* the activity each request carries
  hpc,        \* where the handler of each request is
  reply,      \* the reply it gave: the class of its HTTP status
  recorded,   \* federation_inbox_activities
  remote,     \* federation_remote_messages
  messages,   \* local messages made of each activity
  broken      \* history: activities whose handler failed after recording

inboxVars == <<carries, hpc, reply, recorded, remote, messages, broken>>

Replies == {"ok", "permanent", "transient"}

InboxInit ==
  /\ carries = [d \in Delivery |-> None]
  /\ hpc = [d \in Delivery |-> "none"]
  /\ reply = [d \in Delivery |-> "none"]
  /\ recorded = {} /\ remote = {} /\ broken = {}
  /\ messages = [a \in Activity |-> 0]

(* A request that carries a is on its way. *)
Arrive(d, a) ==
  /\ hpc[d] = "none"
  /\ carries' = [carries EXCEPT ![d] = a]
  /\ hpc' = [hpc EXCEPT ![d] = "check"]
  /\ UNCHANGED <<reply, recorded, remote, messages, broken>>

Answer(d, r) ==
  /\ hpc' = [hpc EXCEPT ![d] = "done"]
  /\ reply' = [reply EXCEPT ![d] = r]

(* Size, recipient, digest, replay window, signature, shape and actor are  *)
(* checked before anything is stored.  All but a failing key fetch or      *)
(* database answer 4xx.                                                    *)
Refuse(d, r) ==
  /\ hpc[d] = "check" /\ r \in {"permanent", "transient"}
  /\ Answer(d, r)
  /\ UNCHANGED <<carries, recorded, remote, messages, broken>>

(* Mutant: the conflict is not noticed. *)
Inserts_Always(table, a) == TRUE

(* INSERT ... ON CONFLICT (activity_id) DO NOTHING, both tables: whether   *)
(* this statement inserted the row.                                        *)
Inserts(table, a) == a \notin table

(* Mutant: only the conflict is looked for, nothing is recorded. *)
RecordActivity_Unrecorded(d) ==
  /\ hpc[d] = "check"
  /\ IF Inserts(recorded, carries[d]) /\ carries[d] \in Note
     THEN hpc' = [hpc EXCEPT ![d] = "note"] /\ UNCHANGED reply
     ELSE Answer(d, "ok")
  /\ UNCHANGED <<carries, recorded, remote, messages, broken>>

(* record_inbox_activity.  A request for an activity that is already there *)
(* is answered "duplicate" (202), and so is one that has nothing to store. *)
RecordActivity(d) ==
  LET a == carries[d]
  IN  /\ hpc[d] = "check"
      /\ recorded' = recorded \cup {a}
      /\ IF Inserts(recorded, a) /\ a \in Note
         THEN hpc' = [hpc EXCEPT ![d] = "note"] /\ UNCHANGED reply
         ELSE Answer(d, "ok")
      /\ UNCHANGED <<carries, remote, messages, broken>>

(* Mutant: the result of the insert is read the wrong way round. *)
RecordNote_Inverted(d) ==
  /\ hpc[d] = "note"
  /\ remote' = remote \cup {carries[d]}
  /\ IF ~Inserts(remote, carries[d])
     THEN hpc' = [hpc EXCEPT ![d] = "message"] /\ UNCHANGED reply
     ELSE Answer(d, "ok")
  /\ UNCHANGED <<carries, recorded, messages, broken>>

(* map_create_note_to_local_message, first insert. *)
RecordNote(d) ==
  LET a == carries[d]
  IN  /\ hpc[d] = "note"
      /\ remote' = remote \cup {a}
      /\ IF Inserts(remote, a)
         THEN hpc' = [hpc EXCEPT ![d] = "message"] /\ UNCHANGED reply
         ELSE Answer(d, "ok")
      /\ UNCHANGED <<carries, recorded, messages, broken>>

(* The shadow user and message_service::send_message. *)
StoreMessage(d) ==
  /\ hpc[d] = "message"
  /\ messages' = [messages EXCEPT ![carries[d]] = @ + 1]
  /\ Answer(d, "ok")
  /\ UNCHANGED <<carries, recorded, remote, broken>>

(* An error after the activity was recorded (the recipient is gone: 404; a *)
(* bad actor URL: 400; the database: 500) undoes nothing.                  *)
HandlerFails(d, r) ==
  /\ hpc[d] \in {"note", "message"} /\ r \in {"permanent", "transient"}
  /\ Answer(d, r)
  /\ broken' = broken \cup {carries[d]}
  /\ UNCHANGED <<carries, recorded, remote, messages>>

(* The process dies: its requests are never answered. *)
InboxCrash ==
  /\ \E d \in Delivery : hpc[d] \in {"check", "note", "message"}
  /\ hpc' = [d \in Delivery |-> IF hpc[d] = "none" THEN "none" ELSE "done"]
  /\ broken' = broken \cup {carries[d] : d \in {e \in Delivery : hpc[e] \in {"note", "message"}}}
  /\ UNCHANGED <<carries, reply, recorded, remote, messages>>

InboxStep(d) ==
  \/ \E r \in Replies : Refuse(d, r) \/ HandlerFails(d, r)
  \/ RecordActivity(d) \/ RecordNote(d) \/ StoreMessage(d)

----------------------------------------------------------------------------
InboxTypeOK ==
  /\ carries \in [Delivery -> Activity \cup {None}]
  /\ hpc \in [Delivery -> {"none", "check", "note", "message", "done"}]
  /\ reply \in [Delivery -> Replies \cup {"none"}]
  /\ recorded \subseteq Activity /\ remote \subseteq recorded
  /\ messages \in [Activity -> Nat] /\ broken \subseteq recorded

(* A handler that recorded activity a has still to store it. *)
InHand(a) == \E d \in Delivery : carries[d] = a /\ hpc[d] \in {"note", "message"}
=============================================================================
