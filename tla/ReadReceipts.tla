---------------------------- MODULE ReadReceipts ----------------------------
(***************************************************************************)
(* Read receipts of direct messages (services/message_service.rs): a       *)
(* viewer marks what one partner sent.  mark_read takes one timestamp, and *)
(* gives it to two UPDATE statements that commit separately: delivered_at  *)
(* of the messages that have none, then read_at of the messages that have  *)
(* none.                                                                   *)
(***************************************************************************)
EXTENDS Naturals

CONSTANTS Message, Request, MaxTime

Never == MaxTime + 1
Time == 0..MaxTime

VARIABLES
  clock,
  created, delivered, read, \* created_at, delivered_at, read_at (Never: NULL)
  blocked,                  \* a block is active between the two
  step, stamp,              \* of each request; stamp is its timestamp
  among,    \* history: messages that arrived while a request was running
  between,  \* history: messages that arrived between the two updates
  mixed     \* history: messages there when a second request began

rows == <<created, delivered, read>>
past == <<among, between, mixed>>
vars == <<clock, rows, blocked, step, stamp, past>>

Stored == {m \in Message : created[m] # Never}
Running == {r \in Request : step[r] # "idle"}

Init ==
  /\ clock = 0 /\ blocked = FALSE
  /\ created = [m \in Message |-> Never] /\ delivered = [m \in Message |-> Never]
  /\ read = [m \in Message |-> Never]
  /\ step = [r \in Request |-> "idle"] /\ stamp = [r \in Request |-> 0]
  /\ among = {} /\ between = {} /\ mixed = {}

(* The commit of a message; created_at is when its transaction began. *)
insert_message_conn(m) ==
  /\ m \notin Stored
  /\ \E t \in 0..clock : created' = [created EXCEPT ![m] = t]
  /\ among' = IF Running = {} THEN among ELSE among \cup {m}
  /\ between' = IF \E r \in Running : step[r] = "read" THEN between \cup {m} ELSE between
  /\ UNCHANGED <<clock, delivered, read, blocked, step, stamp, mixed>>

(* Mutant: messages are read without being delivered. *)
mark_read_NoDelivery(r) ==
  /\ step[r] = "idle" /\ ~blocked
  /\ step' = [step EXCEPT ![r] = "read"]
  /\ stamp' = [stamp EXCEPT ![r] = clock]
  /\ mixed' = IF Running = {} THEN mixed ELSE mixed \cup Stored
  /\ UNCHANGED <<clock, rows, blocked, among, between>>

(* The viewer asks; with a block nothing is marked. *)
mark_read(r) ==
  /\ step[r] = "idle" /\ ~blocked
  /\ step' = [step EXCEPT ![r] = "deliver"]
  /\ stamp' = [stamp EXCEPT ![r] = clock]
  /\ mixed' = IF Running = {} THEN mixed ELSE mixed \cup Stored
  /\ UNCHANGED <<clock, rows, blocked, among, between>>

(* Mutant: the first update also rewrites messages delivered before. *)
MarkDelivered_Again(r) ==
  /\ step[r] = "deliver"
  /\ delivered' = [m \in Message |->
       IF m \in Stored THEN stamp[r] ELSE delivered[m]]
  /\ step' = [step EXCEPT ![r] = "read"]
  /\ UNCHANGED <<clock, created, read, blocked, stamp, past>>

MarkDelivered(r) ==
  /\ step[r] = "deliver"
  /\ delivered' = [m \in Message |->
       IF m \in Stored /\ read[m] = Never /\ delivered[m] = Never
       THEN stamp[r] ELSE delivered[m]]
  /\ step' = [step EXCEPT ![r] = "read"]
  /\ UNCHANGED <<clock, created, read, blocked, stamp, past>>

MarkRead(r) ==
  /\ step[r] = "read"
  /\ read' = [m \in Message |->
       IF m \in Stored /\ read[m] = Never THEN stamp[r] ELSE read[m]]
  /\ step' = [step EXCEPT ![r] = "idle"] /\ stamp' = [stamp EXCEPT ![r] = 0]
  /\ UNCHANGED <<clock, created, delivered, blocked, past>>

(* The process ends, or the database fails, before the next update. *)
Fail(r) ==
  /\ step[r] # "idle"
  /\ step' = [step EXCEPT ![r] = "idle"] /\ stamp' = [stamp EXCEPT ![r] = 0]
  /\ UNCHANGED <<clock, rows, blocked, past>>

ToggleBlock ==
  /\ blocked' = ~blocked
  /\ UNCHANGED <<clock, rows, step, stamp, past>>

Advance ==
  /\ clock < MaxTime /\ clock' = clock + 1
  /\ UNCHANGED <<rows, blocked, step, stamp, past>>

Next ==
  \/ \E m \in Message : insert_message_conn(m)
  \/ \E r \in Request : mark_read(r) \/ MarkDelivered(r) \/ MarkRead(r) \/ Fail(r)
  \/ ToggleBlock \/ Advance

Spec == Init /\ [][Next]_vars

----------------------------------------------------------------------------
TypeOK ==
  /\ clock \in Time /\ blocked \in BOOLEAN
  /\ \A column \in {created, delivered, read} : column \in [Message -> Time \cup {Never}]
  /\ step \in [Request -> {"idle", "deliver", "read"}] /\ stamp \in [Request -> Time]
  /\ among \subseteq Message /\ between \subseteq Message /\ mixed \subseteq Message

(* mark_read, "Mark all unread messages [...] as delivered and read": the  *)
(* only messages read without being delivered are those that arrived       *)
(* between its two updates.  (Nothing delivers them later.)                *)
ReadIsDelivered ==
  \A m \in Stored : read[m] # Never => delivered[m] # Never \/ m \in between

(* The dates of a message are in order, unless it arrived while a request  *)
(* with an older timestamp was running, or two such requests ran together. *)
DatesInOrder ==
  \A m \in Stored \ among :
    /\ delivered[m] # Never => created[m] <= delivered[m]
    /\ read[m] # Never /\ m \notin mixed => delivered[m] <= read[m]

(* mark_read leaves each message delivered, read and dated consistently,   *)
(* but for the overlaps named above.                                       *)
ReceiptInv == TypeOK /\ ReadIsDelivered /\ DatesInOrder
=============================================================================
