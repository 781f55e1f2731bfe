------------------------------- MODULE Rooms -------------------------------
(***************************************************************************)
(* A room and its members (services/room_service.rs): create, rename, add, *)
(* remove, leave, delete and send, with the deletion of accounts.          *)
(*                                                                         *)
(* Every operation is a transaction at READ COMMITTED: a statement sees    *)
(* the committed rows and its own changes, and waits for rows that another *)
(* transaction has locked.  Of each request, ins and del are the member    *)
(* rows it inserted and deleted, hold the member rows it locked, and mode  *)
(* the locks it has on the rooms row: "share" by the foreign key of a row  *)
(* it inserted, "touch" by an UPDATE of updated_at, "drop" by a DELETE.    *)
(* Rooms do not affect each other, so there is one.  Names are left out;   *)
(* RoomReads has the read cursors.                                         *)
(***************************************************************************)
EXTENDS Naturals

CONSTANTS User, Request, None

ASSUME NoneAssumption == None \notin User

VARIABLES
  users,     \* accounts
  room,      \* the rooms row: "new", "open" or "gone"
  creator,   \* rooms.created_by
  members,   \* room_members
  posts,     \* users with a message in room_messages
  pc, op, who, target, ins, del, hold, mode, \* of each request
  outCrossed, \* history: two removals of members overlapped
  inCrossed,  \* history: an add overlapped a leave
  lost,       \* history: a member's account was deleted
  ousted      \* history: requests whose user lost the membership meanwhile

tables == <<users, room, creator, members, posts>>
locks == <<ins, del, hold, mode>>
history == <<outCrossed, inCrossed, lost, ousted>>
vars == <<tables, pc, op, who, target, locks, history>>

Ops == {"add", "remove", "rename", "leave", "delete", "send"}
Modes == {"share", "touch", "drop"}

(* Row-level lock modes of PostgreSQL that exclude each other. *)
Conflict == {p \in Modes \X Modes : "drop" \in {p[1], p[2]} \/ p = <<"touch", "touch">>}

Blocked(r, m) == \E q \in Request \ {r} : \E n \in mode[q] : <<m, n>> \in Conflict
RowLocked(r, u) == \E q \in Request \ {r} : u \in hold[q]
Visible(r) == (members \ del[r]) \cup ins[r]
Doing(o) == {r \in Request : pc[r] # "idle" /\ op[r] = o}

Init ==
  /\ users = User /\ room = "new" /\ creator = None
  /\ members = {} /\ posts = {}
  /\ pc = [r \in Request |-> "idle"]
  /\ op = [r \in Request |-> "none"]
  /\ who = [r \in Request |-> None] /\ target = [r \in Request |-> None]
  /\ ins = [r \in Request |-> {}] /\ del = [r \in Request |-> {}]
  /\ hold = [r \in Request |-> {}] /\ mode = [r \in Request |-> {}]
  /\ outCrossed = FALSE /\ inCrossed = FALSE /\ lost = FALSE
  /\ ousted = {}

----------------------------------------------------------------------------
(* create_room: nobody knows the room before it is committed. *)
create_room(c, M) ==
  /\ room = "new"
  /\ c \in users /\ M \subseteq users
  /\ room' = "open" /\ creator' = c /\ members' = M \cup {c}
  /\ UNCHANGED <<users, posts, pc, op, who, target, locks, history>>

(* The first reads of a transaction.  Reads that follow one another are    *)
(* one step: the owner of a room never becomes a member again, so what is  *)
(* read later is what decides.                                             *)
Start(r, u, o, t, to) ==
  /\ pc[r] = "idle"
  /\ pc' = [pc EXCEPT ![r] = to]
  /\ op' = [op EXCEPT ![r] = o]
  /\ who' = [who EXCEPT ![r] = u]
  /\ target' = [target EXCEPT ![r] = t]
  /\ outCrossed' = (outCrossed \/ (o \in {"leave", "remove"} /\ Doing("leave") \cup Doing("remove") # {}))
  /\ inCrossed' = (inCrossed \/ (o = "leave" /\ Doing("add") # {})
                             \/ (o = "add" /\ Doing("leave") # {}))
  /\ UNCHANGED <<tables, locks, lost, ousted>>

ensure_room_member_conn(u) == room = "open" /\ u \in members

(* Mutant: any member may manage. *)
Manages_AnyMember(u) == ensure_room_member_conn(u)

Manages(u) == ensure_room_member_conn(u) /\ u = creator

(* A user who is a member already is not inserted. *)
add_room_members(r, u, t) ==
  /\ Manages(u) /\ t # u /\ t \in users
  /\ Start(r, u, "add", t, IF t \in members THEN "detail" ELSE "insert")

remove_room_member(r, u, t) ==
  /\ Manages(u) /\ t # creator /\ t \in members
  /\ Start(r, u, "remove", t, "delete")

rename_room(r, u) ==
  /\ Manages(u)
  /\ \E to \in {"touch", "detail"} : Start(r, u, "rename", None, to)

leave_room(r, u) == u \in members /\ Start(r, u, "leave", u, "delete")

(* The owner need not be a member any more. *)
delete_room(r, u) == room = "open" /\ u = creator /\ Start(r, u, "delete", None, "clear")

(* Mutant: the sender need not be a member. *)
send_room_message_AnyUser(r, u) ==
  room = "open" /\ u \in users /\ Start(r, u, "send", None, "insert")

send_room_message(r, u) ==
  ensure_room_member_conn(u) /\ Start(r, u, "send", None, "insert")

----------------------------------------------------------------------------
Goto(r, to) == pc' = [pc EXCEPT ![r] = to] /\ UNCHANGED <<op, who, target>>

(* Mutant: no foreign key to the room. *)
Insert_NoForeignKey(r) ==
  /\ pc[r] = "insert" /\ op[r] = "send" /\ who[r] \in users
  /\ mode' = [mode EXCEPT ![r] = @ \cup {"share"}]
  /\ Goto(r, "touch")
  /\ UNCHANGED <<tables, ins, del, hold, history>>

(* INSERT of a member or of a message: the foreign keys need the room and  *)
(* the user, and the primary key refuses a member twice.                   *)
Insert(r) ==
  /\ pc[r] = "insert" /\ ~Blocked(r, "share") /\ room = "open"
  /\ mode' = [mode EXCEPT ![r] = @ \cup {"share"}]
  /\ \/ /\ op[r] = "add"
        /\ ~RowLocked(r, target[r]) /\ target[r] \in users \ members
        /\ ins' = [ins EXCEPT ![r] = {target[r]}]
        /\ hold' = [hold EXCEPT ![r] = {target[r]}]
     \/ op[r] = "send" /\ who[r] \in users /\ UNCHANGED <<ins, hold>>
  /\ Goto(r, "touch")
  /\ UNCHANGED <<tables, del, history>>

(* DELETE of one member row; it may be gone by now, and a row that is not  *)
(* committed is not seen.                                                  *)
DeleteMember(r) ==
  /\ pc[r] = "delete" /\ (target[r] \in members => ~RowLocked(r, target[r]))
  /\ del' = [del EXCEPT ![r] = {target[r]} \cap members]
  /\ hold' = [hold EXCEPT ![r] = {target[r]} \cap members]
  /\ Goto(r, IF op[r] = "leave" THEN "count" ELSE "touch")
  /\ UNCHANGED <<tables, ins, mode, history>>

(* UPDATE of the rooms row, and after a message of the sender's read       *)
(* cursor.                                                                 *)
Touch(r) ==
  LET rows == IF op[r] = "send" THEN {who[r]} \cap members ELSE {}
  IN  /\ pc[r] = "touch" /\ ~Blocked(r, "touch")
      /\ \A u \in rows : ~RowLocked(r, u)
      /\ hold' = [hold EXCEPT ![r] = @ \cup rows]
      /\ mode' = [mode EXCEPT ![r] = IF room = "open" THEN @ \cup {"touch"} ELSE @]
      /\ Goto(r, IF op[r] = "send" THEN "commit" ELSE "detail")
      /\ UNCHANGED <<tables, ins, del, history>>

(* room_detail_conn reads the membership of the owner again; without it    *)
(* the transaction fails.                                                  *)
room_detail_conn(r) ==
  /\ pc[r] = "detail" /\ who[r] \in Visible(r)
  /\ Goto(r, "commit")
  /\ UNCHANGED <<tables, locks, history>>

(* Mutant: one member left is none. *)
CountRemaining_OffByOne(r) ==
  /\ pc[r] = "count"
  /\ Goto(r, IF \E u \in Visible(r) : Visible(r) = {u} THEN "drop" ELSE "commit")
  /\ UNCHANGED <<tables, locks, history>>

(* leave_room counts who remains: it does not see what others have not     *)
(* committed.                                                              *)
CountRemaining(r) ==
  /\ pc[r] = "count"
  /\ Goto(r, IF Visible(r) = {} THEN "drop" ELSE "commit")
  /\ UNCHANGED <<tables, locks, history>>

(* delete_room deletes the members it sees. *)
ClearMembers(r) ==
  /\ pc[r] = "clear" /\ \A u \in members : ~RowLocked(r, u)
  /\ del' = [del EXCEPT ![r] = members]
  /\ hold' = [hold EXCEPT ![r] = members]
  /\ Goto(r, "drop")
  /\ UNCHANGED <<tables, ins, mode, history>>

(* The rooms row is deleted; members and messages that are still there go  *)
(* with it by the foreign keys.                                            *)
DropRoom(r) ==
  /\ pc[r] = "drop" /\ ~Blocked(r, "drop")
  /\ \A u \in members : ~RowLocked(r, u)
  /\ del' = [del EXCEPT ![r] = members]
  /\ hold' = [hold EXCEPT ![r] = @ \cup members]
  /\ mode' = [mode EXCEPT ![r] = IF room = "open" THEN @ \cup {"drop"} ELSE @]
  /\ Goto(r, "commit")
  /\ UNCHANGED <<tables, ins, history>>

(* What was locked is free after the commit. *)
Release(r) ==
  /\ ins' = [ins EXCEPT ![r] = {}] /\ del' = [del EXCEPT ![r] = {}]
  /\ hold' = [hold EXCEPT ![r] = {}] /\ mode' = [mode EXCEPT ![r] = {}]

End(r) ==
  /\ pc' = [pc EXCEPT ![r] = "idle"]
  /\ op' = [op EXCEPT ![r] = "none"]
  /\ who' = [who EXCEPT ![r] = None] /\ target' = [target EXCEPT ![r] = None]
  /\ Release(r)

(* Requests other than r whose user is in S. *)
Losing(r, S) == {q \in Request \ {r} : pc[q] # "idle" /\ who[q] \in S}

Commit(r) ==
  /\ pc[r] = "commit" /\ op[r] # "send"
  /\ members' = Visible(r)
  /\ IF "drop" \in mode[r] THEN room' = "gone" /\ posts' = {} ELSE UNCHANGED <<room, posts>>
  /\ ousted' = (ousted \cup Losing(r, del[r])) \ {r}
  /\ End(r)
  /\ UNCHANGED <<users, creator, outCrossed, inCrossed, lost>>

CommitMessage(r) ==
  /\ pc[r] = "commit" /\ op[r] = "send"
  /\ posts' = posts \cup {who[r]}
  /\ Goto(r, "publish") /\ Release(r)
  /\ UNCHANGED <<users, room, creator, members, history>>

(* The handler lists the members for the event and the pushes; it may list *)
(* them only for a member.                                                 *)
list_room_member_ids(r) ==
  /\ pc[r] = "publish" /\ ensure_room_member_conn(who[r])
  /\ End(r)
  /\ ousted' = ousted \ {r}
  /\ UNCHANGED <<tables, outCrossed, inCrossed, lost>>

(* An error, the victim of a deadlock, or the end of the process; also the *)
(* refusal to list the members, after the message was stored.              *)
Rollback(r) ==
  /\ pc[r] # "idle"
  /\ End(r)
  /\ ousted' = ousted \ {r}
  /\ UNCHANGED <<tables, outCrossed, inCrossed, lost>>

(* Mutant: the memberships of the account stay. *)
delete_user_KeepsMembers(u) ==
  /\ u \in users
  /\ users' = users \ {u} /\ posts' = posts \ {u}
  /\ UNCHANGED <<room, creator, members, pc, op, who, target, locks, history>>

(* DELETE of an account, with the rooms, memberships and messages it has.  *)
(* It waits for their locks.                                               *)
delete_user(u) ==
  /\ u \in users
  /\ \A r \in Request :
       /\ u \notin hold[r] /\ (op[r] = "send" /\ who[r] = u => mode[r] = {})
       /\ u = creator => mode[r] = {} /\ hold[r] = {}
  /\ users' = users \ {u}
  /\ lost' = (lost \/ u \in members)
  /\ IF u = creator /\ room = "open"
     THEN room' = "gone" /\ members' = {} /\ posts' = {}
     ELSE members' = members \ {u} /\ posts' = posts \ {u} /\ UNCHANGED room
  /\ ousted' = ousted \cup {r \in Request : pc[r] # "idle" /\ who[r] \in members \ members'}
  /\ UNCHANGED <<creator, pc, op, who, target, locks, outCrossed, inCrossed>>

----------------------------------------------------------------------------
StartRequest(r) ==
  \E u \in User :
    \/ \E t \in User : add_room_members(r, u, t) \/ remove_room_member(r, u, t)
    \/ rename_room(r, u) \/ leave_room(r, u) \/ delete_room(r, u) \/ send_room_message(r, u)

RequestStep(r) ==
  \/ Insert(r) \/ DeleteMember(r) \/ Touch(r) \/ room_detail_conn(r)
  \/ CountRemaining(r) \/ ClearMembers(r) \/ DropRoom(r) \/ Commit(r)
  \/ CommitMessage(r) \/ list_room_member_ids(r)

Next ==
  \/ \E c \in User, M \in SUBSET User : create_room(c, M)
  \/ \E r \in Request : StartRequest(r) \/ RequestStep(r) \/ Rollback(r)
  \/ \E u \in User : delete_user(u)

Spec == Init /\ [][Next]_vars

----------------------------------------------------------------------------
TypeOK ==
  /\ users \subseteq User /\ room \in {"new", "open", "gone"}
  /\ creator \in User \cup {None} /\ members \subseteq users /\ posts \subseteq users
  /\ pc \in [Request -> {"idle", "insert", "delete", "touch", "detail", "count",
                         "clear", "drop", "commit", "publish"}]
  /\ op \in [Request -> Ops \cup {"none"}]
  /\ who \in [Request -> User \cup {None}] /\ target \in [Request -> User \cup {None}]
  /\ ins \in [Request -> SUBSET User] /\ del \in [Request -> SUBSET User]
  /\ hold \in [Request -> SUBSET User] /\ mode \in [Request -> SUBSET Modes]
  /\ outCrossed \in BOOLEAN /\ inCrossed \in BOOLEAN /\ lost \in BOOLEAN
  /\ ousted \subseteq Request

(* leave_room deletes the room after its last member: a room without       *)
(* members stays only if two removals of members overlapped or a member's  *)
(* account was deleted.                                                    *)
RoomHasMembers ==
  (room = "open" /\ members = {}) => outCrossed \/ lost

(* What a deletion of the room takes along: no member and no message is    *)
(* left in a room that is gone, whatever was being added or sent.          *)
NothingLeftBehind == room = "gone" => members = {} /\ posts = {}

(* send_room_message asks for the membership once, before the message, and *)
(* once more after it was stored, to list who is told.  A message of a     *)
(* user who is no member, or that nobody is told of, comes only from a     *)
(* request during which the membership was lost.                           *)
SenderIsMember ==
  \A r \in Request :
    op[r] = "send" => (who[r] \in members /\ room = "open") \/ r \in ousted

(* The tables of rooms agree with each other and with what requests do. *)
RoomInv == TypeOK /\ RoomHasMembers /\ NothingLeftBehind /\ SenderIsMember

(* A leave that deletes the room takes nobody else's membership, unless    *)
(* the owner was adding someone at the same time.                          *)
LeaveTakesNobody ==
  \A r \in Request :
    (op[r] = "leave" /\ pc'[r] = "idle" /\ room = "open" /\ room' = "gone")
      => members \subseteq {who[r]} \/ inCrossed

(* A room whose owner has left admits nobody, except by an add that        *)
(* overlapped a leave: only the owner adds, and only while a member.       *)
ClosedWithoutOwner ==
  (room = "open" /\ creator \notin members /\ ~inCrossed) => members' \subseteq members

(* leave_room and add_room_members act on the members the caller knows of. *)
MembersAreKept == [][LeaveTakesNobody /\ ClosedWithoutOwner]_vars
=============================================================================
