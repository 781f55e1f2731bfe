----------------------------- MODULE RoomReads -----------------------------
(***************************************************************************)
(* Read cursors of one room (services/room_service.rs): send_room_message, *)
(* mark_room_read and the unread count.  A message's created_at is NOW(),  *)
(* the beginning of its transaction, and it becomes visible at the commit. *)
(* A cursor is the server's clock, read before the UPDATE that may wait    *)
(* for the row: sending moves the sender's cursor, marking the viewer's.   *)
(* A message is unread for a member while created_at > last_read_at.       *)
(* The members do not change here (Rooms has that), and the cursors begin  *)
(* at the creation of the room.  Blocks and removed messages, which hide   *)
(* messages whatever the cursor says, are left out.                        *)
(***************************************************************************)
EXTENDS Naturals

CONSTANTS
  Member, Post, Mark, \* members, messages to be, requests to mark as read
  Nobody, MaxTime

Never == MaxTime + 1
Time == 0..MaxTime

VARIABLES
  clock,
  cursor,           \* room_members.last_read_at
  sender, created,  \* of each message begun: sender_id and created_at
  visible,          \* messages committed
  at, by, stamp,    \* of each message and mark: place, member, timestamp
  shown,   \* history: messages visible when a mark or message of a member began
  crossed, \* history: messages in flight during a mark or message of a member
  twice    \* history: members with two of them at once

rows == <<cursor, sender, created, visible>>
vars == <<clock, rows, at, by, stamp, shown, crossed, twice>>

Op == Post \cup Mark
Open == {o \in Op : at[o] # "idle"}
InFlight == Post \cap Open
RowLocked(o, v) == \E q \in Open \ {o} : at[q] = "commit" /\ by[q] = v
RoomLocked(o) == \E q \in InFlight \ {o} : at[q] \in {"cursor", "commit"}

Unread(v) == {m \in visible : sender[m] # v /\ created[m] > cursor[v]}

Init ==
  /\ clock = 0
  /\ cursor = [v \in Member |-> 0]
  /\ sender = [m \in Post |-> Nobody] /\ created = [m \in Post |-> Never]
  /\ visible = {}
  /\ at = [o \in Op |-> "idle"] /\ by = [o \in Op |-> Nobody]
  /\ stamp = [o \in Op |-> 0]
  /\ shown = [v \in Member |-> {}] /\ crossed = [v \in Member |-> {}]
  /\ twice = {}

(* Histories at the start of o by v: what v is shown, and what overlaps.   *)
StartOf(o, v) ==
  /\ at[o] = "idle"
  /\ by' = [by EXCEPT ![o] = v]
  /\ shown' = [shown EXCEPT ![v] = @ \cup visible]
  /\ crossed' = [w \in Member |->
       IF w = v THEN crossed[w] \cup InFlight
       ELSE IF o \in Post /\ \E q \in Open : by[q] = w THEN crossed[w] \cup {o}
       ELSE crossed[w]]
  /\ twice' = IF \E q \in Open : by[q] = v THEN twice \cup {v} ELSE twice

Goto(o, label) == at' = [at EXCEPT ![o] = label]
Kept == UNCHANGED <<shown, crossed, twice>>

----------------------------------------------------------------------------
(* Membership check and INSERT of the message. *)
send_room_message(m, v) ==
  /\ sender[m] = Nobody
  /\ StartOf(m, v) /\ Goto(m, "stamp")
  /\ sender' = [sender EXCEPT ![m] = v]
  /\ created' = [created EXCEPT ![m] = clock]
  /\ UNCHANGED <<clock, cursor, visible, stamp>>

(* Membership and unread count. *)
mark_room_read(q, v) ==
  /\ StartOf(q, v) /\ Goto(q, "stamp")
  /\ UNCHANGED <<clock, rows, stamp>>

(* Mutant: a mark reaches to the newest message instead of the clock. *)
TakeStamp_NewestMessage(o) ==
  /\ at[o] = "stamp"
  /\ \E t \in {0} \cup {created[m] : m \in visible} :
       /\ \A m \in visible : created[m] <= t
       /\ stamp' = [stamp EXCEPT ![o] = IF o \in Mark THEN t ELSE clock]
  /\ Goto(o, IF o \in Post THEN "room" ELSE "cursor")
  /\ UNCHANGED <<clock, rows, by>> /\ Kept

(* Utc::now(), before the UPDATEs. *)
TakeStamp(o) ==
  /\ at[o] = "stamp"
  /\ stamp' = [stamp EXCEPT ![o] = clock]
  /\ Goto(o, IF o \in Post THEN "room" ELSE "cursor")
  /\ UNCHANGED <<clock, rows, by>> /\ Kept

(* The UPDATE of the rooms row, which other messages of the room wait for. *)
TouchRoom(m) ==
  /\ at[m] = "room" /\ ~RoomLocked(m)
  /\ Goto(m, "cursor")
  /\ UNCHANGED <<clock, rows, by, stamp>> /\ Kept

(* The UPDATE of the cursor waits for the member's row. *)
MoveCursor(o) ==
  /\ at[o] = "cursor" /\ ~RowLocked(o, by[o])
  /\ Goto(o, "commit")
  /\ UNCHANGED <<clock, rows, by, stamp>> /\ Kept

EndOf(o) ==
  /\ Goto(o, "idle")
  /\ by' = [by EXCEPT ![o] = Nobody] /\ stamp' = [stamp EXCEPT ![o] = 0]
  /\ UNCHANGED clock

(* Mutant: the filter on the user is missing. *)
Commit_EveryCursor(o) ==
  /\ at[o] = "commit"
  /\ cursor' = [v \in Member |-> stamp[o]]
  /\ visible' = visible \cup ({o} \cap Post)
  /\ UNCHANGED <<sender, created>> /\ EndOf(o) /\ Kept

Commit(o) ==
  /\ at[o] = "commit"
  /\ cursor' = [cursor EXCEPT ![by[o]] = stamp[o]]
  /\ visible' = visible \cup ({o} \cap Post)
  /\ UNCHANGED <<sender, created>> /\ EndOf(o) /\ Kept

Rollback(o) ==
  /\ at[o] # "idle"
  /\ UNCHANGED rows /\ EndOf(o) /\ Kept

Advance ==
  /\ clock < MaxTime /\ clock' = clock + 1
  /\ UNCHANGED <<rows, at, by, stamp>> /\ Kept

Next ==
  \/ \E v \in Member : \/ \E m \in Post : send_room_message(m, v)
                       \/ \E q \in Mark : mark_room_read(q, v)
  \/ \E m \in Post : TouchRoom(m)
  \/ \E o \in Op : TakeStamp(o) \/ MoveCursor(o) \/ Commit(o) \/ Rollback(o)
  \/ Advance

Spec == Init /\ [][Next]_vars

----------------------------------------------------------------------------
TypeOK ==
  /\ clock \in Time /\ cursor \in [Member -> Time]
  /\ sender \in [Post -> Member \cup {Nobody}] /\ created \in [Post -> Time \cup {Never}]
  /\ visible \subseteq Post
  /\ at \in [Op -> {"idle", "room", "stamp", "cursor", "commit"}]
  /\ by \in [Op -> Member \cup {Nobody}] /\ stamp \in [Op -> Time]
  /\ shown \in [Member -> SUBSET Post] /\ crossed \in [Member -> SUBSET Post]
  /\ twice \subseteq Member

(* room_unread_count_conn: a message that a member was not shown is        *)
(* unread, unless it was in flight while the member marked the room or     *)
(* sent a message, or was begun at the very time of the cursor.            *)
NothingSkipped ==
  \A v \in Member : \A m \in visible :
    (sender[m] # v /\ m \notin Unread(v))
      => m \in shown[v] \cup crossed[v] \/ created[m] = cursor[v]

(* The cursors and the messages they are compared with. *)
CursorInv == TypeOK /\ NothingSkipped

(* A cursor moves back only when two operations of its member overlap: the *)
(* later commit may carry the earlier clock.                               *)
CursorStep == \A v \in Member : cursor'[v] >= cursor[v] \/ v \in twice
CursorMovesOn == [][CursorStep]_vars
=============================================================================
