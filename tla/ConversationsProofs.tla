------------------------ MODULE ConversationsProofs ------------------------
(***************************************************************************)
(* Proofs about Rooms, RoomReads, ReadReceipts and DirectMessages, for any *)
(* users, messages and number of requests at a time.                       *)
(***************************************************************************)
EXTENDS MCConversations, FiniteSetTheorems, TLAPS

(* Where a transaction of each kind may be. *)
Place(o) ==
  CASE o = "add"    -> {"insert", "touch", "detail", "commit"}
    [] o = "remove" -> {"delete", "touch", "detail", "commit"}
    [] o = "rename" -> {"touch", "detail", "commit"}
    [] o = "leave"  -> {"delete", "count", "drop", "commit"}
    [] o = "delete" -> {"clear", "drop", "commit"}
    [] o = "send"   -> {"insert", "touch", "commit", "publish"}
    [] o = "none"   -> {"idle"}

(* What a transaction has changed, by its kind and place, and that it has  *)
(* locked what it inserted.                                                *)
ShapeInv ==
  \A r \in Request :
    /\ pc[r] \in Place(op[r])
    /\ op[r] # "none" => who[r] \in User /\ room # "new"
    /\ op[r] \in {"add", "remove", "leave"} => target[r] \in User
    /\ op[r] = "none" => ins[r] = {} /\ del[r] = {} /\ hold[r] = {} /\ mode[r] = {}
    /\ op[r] = "leave" => target[r] = who[r]
    /\ op[r] = "remove" => target[r] # creator /\ del[r] \subseteq {target[r]}
    /\ pc[r] = "count" => del[r] \subseteq {target[r]}
    /\ ins[r] # {} => op[r] = "add" /\ "share" \in mode[r]
    /\ ins[r] \subseteq hold[r] \cap users
    /\ del[r] # {} => op[r] \in {"leave", "remove", "delete"}

(* The locks on the rooms row exclude each other, and keep the row; what   *)
(* the transaction that drops it has locked is all there is.               *)
LockInv ==
  /\ \A r, q \in Request : r # q => \A m \in mode[r], n \in mode[q] : <<m, n>> \notin Conflict
  /\ \A r \in Request :
       /\ mode[r] # {} => room = "open"
       /\ "drop" \in mode[r] =>
            op[r] \in {"leave", "delete"} /\ pc[r] = "commit" /\ members \subseteq del[r]
       /\ op[r] = "send" /\ pc[r] \in {"touch", "commit"} => "share" \in mode[r] /\ who[r] \in users

(* Transactions that a leave or a removal overlaps. *)
OverlapInv ==
  \A r, q \in Request :
    r # q /\ op[r] = "leave" =>
      /\ op[q] \in {"leave", "remove"} => outCrossed
      /\ op[q] = "add" => inCrossed
RemovalInv ==
  \A r, q \in Request : r # q /\ op[r] = "remove" /\ op[q] = "remove" => outCrossed

(* What a transaction has found out is still so when it commits. *)
FoundInv ==
  \A r \in Request :
    /\ (pc[r] = "commit" /\ op[r] \in {"leave", "remove"} /\ room = "open") =>
         "drop" \in mode[r] \/ Visible(r) # {} \/ outCrossed \/ lost
    /\ (pc[r] = "commit" /\ op[r] = "delete" /\ room = "open") => "drop" \in mode[r]
    /\ (op[r] = "leave" /\ (pc[r] = "drop" \/ "drop" \in mode[r])) =>
         members \subseteq {who[r]} \/ inCrossed
    /\ (op[r] = "add" /\ room = "open") => creator \in members \/ inCrossed

EmptyInv == room # "open" => members = {} /\ posts = {}

RInv == RoomInv /\ ShapeInv /\ LockInv /\ OverlapInv /\ RemovalInv /\ FoundInv /\ EmptyInv

(* Which locks on the rooms row exclude each other. *)
LEMMA Conflicts ==
  \A m, n \in Modes : <<m, n>> \in Conflict <=> m = "drop" \/ n = "drop" \/ (m = "touch" /\ n = "touch")
BY DEF Conflict

LEMMA RInit == Init => RInv
<1> SUFFICES ASSUME Init PROVE RInv
  OBVIOUS
<1> USE NoneAssumption DEF Init
<1>1. RoomInv BY DEF RoomInv, TypeOK, RoomHasMembers, NothingLeftBehind, SenderIsMember, Ops
<1>2. ShapeInv BY DEF ShapeInv, Place
<1>3. LockInv BY DEF LockInv
<1>4. OverlapInv /\ RemovalInv /\ FoundInv /\ EmptyInv
  BY DEF OverlapInv, RemovalInv, FoundInv, EmptyInv
<1>5. QED BY <1>1, <1>2, <1>3, <1>4 DEF RInv

LEMMA CreateInv ==
  ASSUME RInv, NEW c \in User, NEW M \in SUBSET User, create_room(c, M)
  PROVE  RInv'
<1> USE NoneAssumption DEF create_room, locks, history, RInv, RoomInv
<1>1. TypeOK' BY DEF TypeOK, Ops, Modes
<1>2. RoomHasMembers' BY DEF TypeOK, RoomHasMembers, FoundInv, LockInv, ShapeInv, Place, Visible
<1>3. NothingLeftBehind' BY DEF TypeOK, NothingLeftBehind, EmptyInv
<1>4. SenderIsMember' BY DEF TypeOK, SenderIsMember, ShapeInv
<1>5. ShapeInv' BY DEF TypeOK, ShapeInv, Place, Ops
<1>6. LockInv' BY DEF TypeOK, ShapeInv, LockInv, Place, Ops
<1>7. OverlapInv' BY DEF TypeOK, OverlapInv, ShapeInv
<1>8. RemovalInv' BY DEF TypeOK, RemovalInv, ShapeInv
<1>9. FoundInv' BY DEF TypeOK, ShapeInv, LockInv, FoundInv, Place, Visible
<1>10. EmptyInv' BY DEF TypeOK, EmptyInv, LockInv, ShapeInv
<1>11. QED BY <1>1, <1>2, <1>3, <1>4, <1>5, <1>6, <1>7, <1>8, <1>9, <1>10

LEMMA InsertInv ==
  ASSUME RInv, NEW r \in Request, Insert(r)
  PROVE  RInv'
<1> USE NoneAssumption DEF Insert, Goto, tables, history, Blocked, RowLocked, RInv, RoomInv
<1>1. TypeOK' BY DEF TypeOK, Ops, Modes
<1>2. RoomHasMembers' BY DEF TypeOK, RoomHasMembers, FoundInv, LockInv, ShapeInv, Place, Visible
<1>3. NothingLeftBehind' BY DEF TypeOK, NothingLeftBehind, EmptyInv
<1>4. SenderIsMember' BY DEF TypeOK, SenderIsMember, ShapeInv
<1>5. ShapeInv' BY DEF TypeOK, ShapeInv, Place, Ops
<1>6. LockInv'
  <2>1. ASSUME NEW p \in Request, NEW q \in Request, p # q, NEW m \in mode'[p], NEW n \in mode'[q]
        PROVE  <<m, n>> \notin Conflict
    <3>1. mode' \in [Request -> SUBSET Modes] BY <1>1 DEF TypeOK
    <3>2. m \in Modes /\ n \in Modes BY <3>1
    <3>3. CASE m \in mode[p] /\ n \in mode[q]
      BY <2>1, <3>3 DEF LockInv
    <3>4. CASE p = r /\ m \notin mode[p]
      <4>1. n \in mode[q] BY <2>1, <3>4 DEF TypeOK
      <4>2. <<"share", n>> \notin Conflict BY <2>1, <3>4, <4>1
      <4>3. QED BY <2>1, <3>4, <4>2 DEF TypeOK
    <3>5. CASE q = r /\ n \notin mode[q]
      <4>1. m \in mode[p] BY <2>1, <3>5 DEF TypeOK
      <4>2. <<"share", m>> \notin Conflict BY <2>1, <3>5, <4>1
      <4>3. n = "share" BY <2>1, <3>5 DEF TypeOK
      <4>4. QED BY <3>2, <4>2, <4>3, Conflicts
    <3>6. QED BY <2>1, <3>3, <3>4, <3>5 DEF TypeOK
  <2>2. ASSUME NEW q \in Request, mode'[q] # {} PROVE room' = "open"
    BY DEF LockInv
  <2>3. ASSUME NEW q \in Request, "drop" \in mode'[q]
        PROVE  op'[q] \in {"leave", "delete"} /\ pc'[q] = "commit" /\ members' \subseteq del'[q]
    BY <2>3 DEF TypeOK, LockInv
  <2>4. ASSUME NEW q \in Request, op'[q] = "send", pc'[q] \in {"touch", "commit"}
        PROVE  "share" \in mode'[q] /\ who'[q] \in users'
    BY <2>4 DEF TypeOK, LockInv
  <2>5. QED BY <2>1, <2>2, <2>3, <2>4 DEF LockInv
<1>7. OverlapInv' BY DEF TypeOK, OverlapInv, ShapeInv
<1>8. RemovalInv' BY DEF TypeOK, RemovalInv, ShapeInv
<1>9. FoundInv' BY DEF TypeOK, ShapeInv, LockInv, FoundInv, Place, Visible
<1>10. EmptyInv' BY DEF TypeOK, EmptyInv, LockInv, ShapeInv
<1>11. QED BY <1>1, <1>2, <1>3, <1>4, <1>5, <1>6, <1>7, <1>8, <1>9, <1>10

LEMMA DeleteMemberInv ==
  ASSUME RInv, NEW r \in Request, DeleteMember(r)
  PROVE  RInv'
<1> USE NoneAssumption DEF DeleteMember, Goto, tables, history, RInv, RoomInv
<1>1. TypeOK' BY DEF TypeOK, Ops, Modes
<1>2. RoomHasMembers' BY DEF TypeOK, RoomHasMembers, FoundInv, LockInv, ShapeInv, Place, Visible
<1>3. NothingLeftBehind' BY DEF TypeOK, NothingLeftBehind, EmptyInv
<1>4. SenderIsMember' BY DEF TypeOK, SenderIsMember, ShapeInv
<1>5. ShapeInv' BY DEF TypeOK, ShapeInv, Place, Ops
<1>6. LockInv' BY DEF TypeOK, ShapeInv, LockInv, Place, Ops
<1>7. OverlapInv' BY DEF TypeOK, OverlapInv, ShapeInv
<1>8. RemovalInv' BY DEF TypeOK, RemovalInv, ShapeInv
<1>9. FoundInv' BY DEF TypeOK, ShapeInv, LockInv, FoundInv, Place, Visible
<1>10. EmptyInv' BY DEF TypeOK, EmptyInv, LockInv, ShapeInv
<1>11. QED BY <1>1, <1>2, <1>3, <1>4, <1>5, <1>6, <1>7, <1>8, <1>9, <1>10

LEMMA TouchInv ==
  ASSUME RInv, NEW r \in Request, Touch(r)
  PROVE  RInv'
<1> USE NoneAssumption DEF Touch, Goto, tables, history, Blocked, RInv, RoomInv
<1>1. TypeOK' BY DEF TypeOK, Ops, Modes
<1>2. RoomHasMembers' BY DEF TypeOK, RoomHasMembers, FoundInv, LockInv, ShapeInv, Place, Visible
<1>3. NothingLeftBehind' BY DEF TypeOK, NothingLeftBehind, EmptyInv
<1>4. SenderIsMember' BY DEF TypeOK, SenderIsMember, ShapeInv
<1>5. ShapeInv' BY DEF TypeOK, ShapeInv, Place, Ops
<1>6. LockInv'
  <2>1. ASSUME NEW p \in Request, NEW q \in Request, p # q, NEW m \in mode'[p], NEW n \in mode'[q]
        PROVE  <<m, n>> \notin Conflict
    <3>1. mode' \in [Request -> SUBSET Modes] BY <1>1 DEF TypeOK
    <3>2. m \in Modes /\ n \in Modes BY <3>1
    <3>3. CASE m \in mode[p] /\ n \in mode[q]
      BY <2>1, <3>3 DEF LockInv
    <3>4. CASE p = r /\ m \notin mode[p]
      <4>1. n \in mode[q] BY <2>1, <3>4 DEF TypeOK
      <4>2. <<"touch", n>> \notin Conflict BY <2>1, <3>4, <4>1
      <4>3. QED BY <2>1, <3>4, <4>2 DEF TypeOK
    <3>5. CASE q = r /\ n \notin mode[q]
      <4>1. m \in mode[p] BY <2>1, <3>5 DEF TypeOK
      <4>2. <<"touch", m>> \notin Conflict BY <2>1, <3>5, <4>1
      <4>3. n = "touch" BY <2>1, <3>5 DEF TypeOK
      <4>4. QED BY <3>2, <4>2, <4>3, Conflicts
    <3>6. QED BY <2>1, <3>3, <3>4, <3>5 DEF TypeOK
  <2>2. QED BY <2>1 DEF TypeOK, ShapeInv, LockInv, Place, Ops
<1>7. OverlapInv' BY DEF TypeOK, OverlapInv, ShapeInv
<1>8. RemovalInv' BY DEF TypeOK, RemovalInv, ShapeInv
<1>9. FoundInv' BY DEF TypeOK, ShapeInv, LockInv, FoundInv, Place, Visible
<1>10. EmptyInv' BY DEF TypeOK, EmptyInv, LockInv, ShapeInv
<1>11. QED BY <1>1, <1>2, <1>3, <1>4, <1>5, <1>6, <1>7, <1>8, <1>9, <1>10

LEMMA DetailInv ==
  ASSUME RInv, NEW r \in Request, room_detail_conn(r)
  PROVE  RInv'
<1> USE NoneAssumption DEF room_detail_conn, Goto, tables, locks, history, RInv, RoomInv
<1>1. TypeOK' BY DEF TypeOK, Ops, Modes
<1>2. RoomHasMembers' BY DEF TypeOK, RoomHasMembers, FoundInv, LockInv, ShapeInv, Place, Visible
<1>3. NothingLeftBehind' BY DEF TypeOK, NothingLeftBehind, EmptyInv
<1>4. SenderIsMember' BY DEF TypeOK, SenderIsMember, ShapeInv
<1>5. ShapeInv' BY DEF TypeOK, ShapeInv, Place, Ops
<1>6. LockInv' BY DEF TypeOK, ShapeInv, LockInv, Place, Ops
<1>7. OverlapInv' BY DEF TypeOK, OverlapInv, ShapeInv
<1>8. RemovalInv' BY DEF TypeOK, RemovalInv, ShapeInv
<1>9. FoundInv' BY DEF TypeOK, ShapeInv, LockInv, FoundInv, Place, Visible
<1>10. EmptyInv' BY DEF TypeOK, EmptyInv, LockInv, ShapeInv
<1>11. QED BY <1>1, <1>2, <1>3, <1>4, <1>5, <1>6, <1>7, <1>8, <1>9, <1>10

LEMMA CountInv ==
  ASSUME RInv, NEW r \in Request, CountRemaining(r)
  PROVE  RInv'
<1> USE NoneAssumption DEF CountRemaining, Goto, tables, locks, history, RInv, RoomInv
<1>1. TypeOK' BY DEF TypeOK, Ops, Modes
<1>2. RoomHasMembers' BY DEF TypeOK, RoomHasMembers, FoundInv, LockInv, ShapeInv, Place, Visible
<1>3. NothingLeftBehind' BY DEF TypeOK, NothingLeftBehind, EmptyInv
<1>4. SenderIsMember' BY DEF TypeOK, SenderIsMember, ShapeInv
<1>5. ShapeInv' BY DEF TypeOK, ShapeInv, Place, Ops
<1>6. LockInv' BY DEF TypeOK, ShapeInv, LockInv, Place, Ops
<1>7. OverlapInv' BY DEF TypeOK, OverlapInv, ShapeInv
<1>8. RemovalInv' BY DEF TypeOK, RemovalInv, ShapeInv
<1>9. FoundInv' BY DEF TypeOK, ShapeInv, LockInv, FoundInv, Place, Visible
<1>10. EmptyInv' BY DEF TypeOK, EmptyInv, LockInv, ShapeInv
<1>11. QED BY <1>1, <1>2, <1>3, <1>4, <1>5, <1>6, <1>7, <1>8, <1>9, <1>10

LEMMA ClearInv ==
  ASSUME RInv, NEW r \in Request, ClearMembers(r)
  PROVE  RInv'
<1> USE NoneAssumption DEF ClearMembers, Goto, tables, history, RInv, RoomInv
<1>1. TypeOK' BY DEF TypeOK, Ops, Modes
<1>2. RoomHasMembers' BY DEF TypeOK, RoomHasMembers, FoundInv, LockInv, ShapeInv, Place, Visible
<1>3. NothingLeftBehind' BY DEF TypeOK, NothingLeftBehind, EmptyInv
<1>4. SenderIsMember' BY DEF TypeOK, SenderIsMember, ShapeInv
<1>5. ShapeInv' BY DEF TypeOK, ShapeInv, Place, Ops
<1>6. LockInv' BY DEF TypeOK, ShapeInv, LockInv, Place, Ops
<1>7. OverlapInv' BY DEF TypeOK, OverlapInv, ShapeInv
<1>8. RemovalInv' BY DEF TypeOK, RemovalInv, ShapeInv
<1>9. FoundInv' BY DEF TypeOK, ShapeInv, LockInv, FoundInv, Place, Visible
<1>10. EmptyInv' BY DEF TypeOK, EmptyInv, LockInv, ShapeInv
<1>11. QED BY <1>1, <1>2, <1>3, <1>4, <1>5, <1>6, <1>7, <1>8, <1>9, <1>10

LEMMA DropInv ==
  ASSUME RInv, NEW r \in Request, DropRoom(r)
  PROVE  RInv'
<1> USE NoneAssumption DEF DropRoom, Goto, tables, history, Blocked, RInv, RoomInv
<1>1. TypeOK' BY DEF TypeOK, Ops, Modes
<1>2. RoomHasMembers' BY DEF TypeOK, RoomHasMembers, FoundInv, LockInv, ShapeInv, Place, Visible
<1>3. NothingLeftBehind' BY DEF TypeOK, NothingLeftBehind, EmptyInv
<1>4. SenderIsMember' BY DEF TypeOK, SenderIsMember, ShapeInv
<1>5. ShapeInv' BY DEF TypeOK, ShapeInv, Place, Ops
<1>6. LockInv'
  <2>1. ASSUME NEW p \in Request, NEW q \in Request, p # q, NEW m \in mode'[p], NEW n \in mode'[q]
        PROVE  <<m, n>> \notin Conflict
    <3>1. mode' \in [Request -> SUBSET Modes] BY <1>1 DEF TypeOK
    <3>2. m \in Modes /\ n \in Modes BY <3>1
    <3>3. CASE m \in mode[p] /\ n \in mode[q]
      BY <2>1, <3>3 DEF LockInv
    <3>4. CASE p = r /\ m \notin mode[p]
      <4>1. n \in mode[q] BY <2>1, <3>4 DEF TypeOK
      <4>2. <<"drop", n>> \notin Conflict BY <2>1, <3>4, <4>1
      <4>3. QED BY <2>1, <3>4, <4>2 DEF TypeOK
    <3>5. CASE q = r /\ n \notin mode[q]
      <4>1. m \in mode[p] BY <2>1, <3>5 DEF TypeOK
      <4>2. <<"drop", m>> \notin Conflict BY <2>1, <3>5, <4>1
      <4>3. n = "drop" BY <2>1, <3>5 DEF TypeOK
      <4>4. QED BY <3>2, <4>2, <4>3, Conflicts
    <3>6. QED BY <2>1, <3>3, <3>4, <3>5 DEF TypeOK
  <2>2. QED BY <2>1 DEF TypeOK, ShapeInv, LockInv, Place, Ops
<1>7. OverlapInv' BY DEF TypeOK, OverlapInv, ShapeInv
<1>8. RemovalInv' BY DEF TypeOK, RemovalInv, ShapeInv
<1>9. FoundInv' BY DEF TypeOK, ShapeInv, LockInv, FoundInv, Place, Visible
<1>10. EmptyInv' BY DEF TypeOK, EmptyInv, LockInv, ShapeInv
<1>11. QED BY <1>1, <1>2, <1>3, <1>4, <1>5, <1>6, <1>7, <1>8, <1>9, <1>10

LEMMA CommitInv ==
  ASSUME RInv, NEW r \in Request, Commit(r)
  PROVE  RInv'
<1> USE NoneAssumption DEF Commit, End, Release, Losing, RInv, RoomInv
<1>1. TypeOK' BY DEF TypeOK, ShapeInv, Visible, Ops, Modes
<1>2. RoomHasMembers' BY DEF TypeOK, RoomHasMembers, FoundInv, LockInv, ShapeInv, Place, Visible
<1>3. NothingLeftBehind' BY DEF TypeOK, NothingLeftBehind, EmptyInv, LockInv, ShapeInv, Visible
<1>4. SenderIsMember' BY DEF TypeOK, SenderIsMember, LockInv, ShapeInv, Place, Visible
<1>5. ShapeInv' BY DEF TypeOK, ShapeInv, Place, Ops
<1>6. LockInv'
  <2>1. ASSUME NEW p \in Request, NEW q \in Request, p # q, NEW m \in mode'[p], NEW n \in mode'[q]
        PROVE  <<m, n>> \notin Conflict
    BY <2>1 DEF TypeOK, LockInv
  <2>2. ASSUME NEW q \in Request, mode'[q] # {} PROVE room' = "open"
    <3>1. q # r /\ mode[q] # {} /\ room = "open" BY <2>2 DEF TypeOK, LockInv
    <3>2. PICK n \in mode[q] : TRUE BY <3>1
    <3>3. "drop" \notin mode[r]
      BY <3>1, <3>2, Conflicts DEF TypeOK, LockInv, Modes
    <3>4. QED BY <3>1, <3>3
  <2>3. ASSUME NEW q \in Request, "drop" \in mode'[q]
        PROVE  op'[q] \in {"leave", "delete"} /\ pc'[q] = "commit" /\ members' \subseteq del'[q]
    BY <2>3, Conflicts DEF TypeOK, LockInv, ShapeInv, Modes, Visible
  <2>4. ASSUME NEW q \in Request, op'[q] = "send", pc'[q] \in {"touch", "commit"}
        PROVE  "share" \in mode'[q] /\ who'[q] \in users'
    BY <2>4 DEF TypeOK, LockInv
  <2>5. QED BY <2>1, <2>2, <2>3, <2>4 DEF LockInv
<1>7. OverlapInv' BY DEF TypeOK, OverlapInv, ShapeInv
<1>8. RemovalInv' BY DEF TypeOK, RemovalInv, ShapeInv
<1>9. FoundInv'
  <2>0. ASSUME NEW q \in Request, op'[q] # "none", room' = "open"
        PROVE  q # r /\ op[q] = op'[q] /\ pc[q] = pc'[q] /\ mode[q] = mode'[q] /\ del[q] = del'[q]
               /\ ins[q] = ins'[q] /\ who[q] = who'[q] /\ room = "open" /\ "drop" \notin mode[r]
    BY <2>0 DEF TypeOK
  <2>1. ASSUME NEW q \in Request, pc'[q] = "commit", op'[q] \in {"leave", "remove"}, room' = "open"
        PROVE  "drop" \in mode'[q] \/ Visible(q)' # {} \/ outCrossed' \/ lost'
    <3>1. CASE op[r] \in {"leave", "remove"}
      BY <2>0, <2>1, <3>1 DEF OverlapInv, RemovalInv
    <3>2. CASE op[r] \notin {"leave", "remove"}
      BY <2>0, <2>1, <3>2 DEF TypeOK, ShapeInv, FoundInv, Visible
    <3>3. QED BY <3>1, <3>2
  <2>2. ASSUME NEW q \in Request, pc'[q] = "commit", op'[q] = "delete", room' = "open"
        PROVE  "drop" \in mode'[q]
    BY <2>0, <2>2 DEF FoundInv
  <2>3. ASSUME NEW q \in Request, op'[q] = "leave", pc'[q] = "drop" \/ "drop" \in mode'[q]
        PROVE  members' \subseteq {who'[q]} \/ inCrossed'
    BY <2>3 DEF TypeOK, ShapeInv, FoundInv, OverlapInv, Visible
  <2>4. ASSUME NEW q \in Request, op'[q] = "add", room' = "open"
        PROVE  creator' \in members' \/ inCrossed'
    <3>1. CASE op[r] = "leave"
      BY <2>0, <2>4, <3>1 DEF OverlapInv
    <3>2. CASE op[r] # "leave"
      BY <2>0, <2>4, <3>2 DEF TypeOK, ShapeInv, FoundInv, Visible
    <3>3. QED BY <3>1, <3>2
  <2>5. QED BY <2>1, <2>2, <2>3, <2>4 DEF FoundInv
<1>10. EmptyInv' BY DEF TypeOK, EmptyInv, LockInv, ShapeInv, Visible
<1>11. QED BY <1>1, <1>2, <1>3, <1>4, <1>5, <1>6, <1>7, <1>8, <1>9, <1>10

LEMMA CommitMessageInv ==
  ASSUME RInv, NEW r \in Request, CommitMessage(r)
  PROVE  RInv'
<1> USE NoneAssumption DEF CommitMessage, Goto, Release, history, RInv, RoomInv
<1>1. TypeOK' BY DEF TypeOK, LockInv, Ops, Modes
<1>2. RoomHasMembers' BY DEF TypeOK, RoomHasMembers, FoundInv, LockInv, ShapeInv, Place, Visible
<1>3. NothingLeftBehind' BY DEF TypeOK, NothingLeftBehind, LockInv
<1>4. SenderIsMember' BY DEF TypeOK, SenderIsMember, ShapeInv
<1>5. ShapeInv' BY DEF TypeOK, ShapeInv, Place, Ops
<1>6. LockInv' BY DEF TypeOK, ShapeInv, LockInv, Place, Ops
<1>7. OverlapInv' BY DEF TypeOK, OverlapInv, ShapeInv
<1>8. RemovalInv' BY DEF TypeOK, RemovalInv, ShapeInv
<1>9. FoundInv' BY DEF TypeOK, ShapeInv, LockInv, FoundInv, Place, Visible
<1>10. EmptyInv' BY DEF TypeOK, EmptyInv, LockInv, ShapeInv
<1>11. QED BY <1>1, <1>2, <1>3, <1>4, <1>5, <1>6, <1>7, <1>8, <1>9, <1>10

LEMMA EndInv ==
  ASSUME RInv, NEW r \in Request, list_room_member_ids(r) \/ Rollback(r)
  PROVE  RInv'
<1> USE NoneAssumption DEF list_room_member_ids, Rollback, End, Release, tables, RInv, RoomInv
<1>1. TypeOK' BY DEF TypeOK, Ops, Modes
<1>2. RoomHasMembers' BY DEF TypeOK, RoomHasMembers, FoundInv, LockInv, ShapeInv, Place, Visible
<1>3. NothingLeftBehind' BY DEF TypeOK, NothingLeftBehind, EmptyInv
<1>4. SenderIsMember' BY DEF TypeOK, SenderIsMember, ShapeInv
<1>5. ShapeInv' BY DEF TypeOK, ShapeInv, Place, Ops
<1>6. LockInv' BY DEF TypeOK, ShapeInv, LockInv, Place, Ops
<1>7. OverlapInv' BY DEF TypeOK, OverlapInv, ShapeInv
<1>8. RemovalInv' BY DEF TypeOK, RemovalInv, ShapeInv
<1>9. FoundInv' BY DEF TypeOK, ShapeInv, LockInv, FoundInv, Place, Visible
<1>10. EmptyInv' BY DEF TypeOK, EmptyInv, LockInv, ShapeInv
<1>11. QED BY <1>1, <1>2, <1>3, <1>4, <1>5, <1>6, <1>7, <1>8, <1>9, <1>10

LEMMA DeleteUserInv ==
  ASSUME RInv, NEW u \in User, delete_user(u)
  PROVE  RInv'
<1> USE NoneAssumption DEF delete_user, locks, RInv, RoomInv
<1>1. TypeOK' BY DEF TypeOK, Ops, Modes
<1>2. RoomHasMembers'
  <2>1. CASE u \in members BY <2>1 DEF RoomHasMembers
  <2>2. CASE u \notin members BY <2>2 DEF RoomHasMembers
  <2>3. QED BY <2>1, <2>2
<1>3. NothingLeftBehind' BY DEF TypeOK, NothingLeftBehind, EmptyInv
<1>4. SenderIsMember' BY DEF TypeOK, SenderIsMember, ShapeInv, Place
<1>5. ShapeInv' BY DEF TypeOK, ShapeInv, Place, Ops
<1>6. LockInv' BY DEF TypeOK, ShapeInv, LockInv, Place, Ops
<1>7. OverlapInv' BY DEF TypeOK, OverlapInv, ShapeInv
<1>8. RemovalInv' BY DEF TypeOK, RemovalInv, ShapeInv
<1>9. FoundInv'
  <2>1. CASE u = creator BY <2>1 DEF TypeOK, ShapeInv, LockInv, FoundInv, Place, Visible
  <2>2. CASE u # creator /\ u \in members
    <3>1. lost' BY <2>2
    <3>2. members' \subseteq members /\ room' = room BY <2>2
    <3>3. creator \in members => creator \in members' BY <2>2
    <3>4. QED BY <3>1, <3>2, <3>3 DEF FoundInv
  <2>3. CASE u # creator /\ u \notin members
    BY <2>3 DEF TypeOK, ShapeInv, LockInv, FoundInv, Place, Visible
  <2>4. QED BY <2>1, <2>2, <2>3
<1>10. EmptyInv' BY DEF TypeOK, EmptyInv, LockInv, ShapeInv
<1>11. QED BY <1>1, <1>2, <1>3, <1>4, <1>5, <1>6, <1>7, <1>8, <1>9, <1>10

(* Where transactions begin, and what they have read then. *)
Entry == {"insert", "delete", "touch", "detail", "clear"}

Begins(r, u, o, t, first) ==
  /\ Start(r, u, o, t, first)
  /\ room = "open" /\ o \in Ops /\ t \in User \cup {None}
  /\ first \in Place(o) \cap Entry
  /\ o \in {"add", "remove", "leave"} => t \in User
  /\ o = "leave" => t = u
  /\ o = "remove" => t # creator
  /\ o = "send" => u \in members /\ first = "insert"
  /\ o = "add" => creator \in members

LEMMA StartBegins ==
  ASSUME RInv, NEW r \in Request, StartRequest(r)
  PROVE  \E u \in User, o \in Ops, t \in User \cup {None}, first \in Entry : Begins(r, u, o, t, first)
<1>1. PICK u \in User :
        \/ \E t \in User : add_room_members(r, u, t) \/ remove_room_member(r, u, t)
        \/ rename_room(r, u) \/ leave_room(r, u) \/ delete_room(r, u) \/ send_room_message(r, u)
  BY DEF StartRequest
<1> USE DEF Begins, Manages, ensure_room_member_conn, Ops, Place, Entry
<1>2. ASSUME NEW t \in User, add_room_members(r, u, t)
      PROVE  \E first \in Entry : Begins(r, u, "add", t, first)
  <2> DEFINE first == IF t \in members THEN "detail" ELSE "insert"
  <2>1. Start(r, u, "add", t, first) BY <1>2 DEF add_room_members
  <2>2. first \in {"detail", "insert"} OBVIOUS
  <2> HIDE DEF first
  <2>3. Begins(r, u, "add", t, first) BY <1>2, <2>1, <2>2 DEF add_room_members
  <2> HIDE DEF Begins, Place
  <2>4. QED BY <2>2, <2>3
<1>3. ASSUME NEW t \in User, remove_room_member(r, u, t)
      PROVE  Begins(r, u, "remove", t, "delete")
  BY <1>3 DEF remove_room_member
<1>4. ASSUME rename_room(r, u) PROVE \E first \in Entry : Begins(r, u, "rename", None, first)
  <2>1. PICK first \in {"touch", "detail"} : Start(r, u, "rename", None, first) BY <1>4 DEF rename_room
  <2>2. Begins(r, u, "rename", None, first) BY <1>4, <2>1 DEF rename_room
  <2> HIDE DEF Begins, Place
  <2>3. QED BY <2>2
<1>5. ASSUME leave_room(r, u) PROVE Begins(r, u, "leave", u, "delete")
  BY <1>5 DEF leave_room, RInv, EmptyInv
<1>6. ASSUME delete_room(r, u) PROVE Begins(r, u, "delete", None, "clear")
  BY <1>6 DEF delete_room
<1>7. ASSUME send_room_message(r, u) PROVE Begins(r, u, "send", None, "insert")
  BY <1>7 DEF send_room_message
<1> HIDE DEF Begins, Manages, ensure_room_member_conn, Place
<1>8. CASE \E t \in User : add_room_members(r, u, t) \/ remove_room_member(r, u, t)
  BY <1>8, <1>2, <1>3
<1>9. CASE rename_room(r, u) BY <1>9, <1>4
<1>10. CASE leave_room(r, u) BY <1>10, <1>5
<1>11. CASE delete_room(r, u) BY <1>11, <1>6
<1>12. CASE send_room_message(r, u) BY <1>12, <1>7
<1>13. QED BY <1>1, <1>8, <1>9, <1>10, <1>11, <1>12

LEMMA StartInv ==
  ASSUME RInv, NEW r \in Request, NEW u \in User, NEW o \in Ops, NEW t \in User \cup {None},
         NEW first \in Entry, Begins(r, u, o, t, first)
  PROVE  RInv'
<1> USE NoneAssumption DEF Begins, Start, Entry, tables, locks, RInv, RoomInv
<1>0. outCrossed' \in BOOLEAN /\ inCrossed' \in BOOLEAN BY Zenon
<1>1. TypeOK' BY <1>0 DEF TypeOK, Ops, Modes, Place
<1>2. RoomHasMembers' BY DEF RoomHasMembers
<1>3. NothingLeftBehind' BY DEF NothingLeftBehind
<1>4. SenderIsMember' BY DEF TypeOK, SenderIsMember, ShapeInv, Place, Ops
<1>5. ShapeInv' BY DEF TypeOK, ShapeInv, Place, Ops
<1>6. LockInv' BY DEF TypeOK, ShapeInv, LockInv, Place, Ops
<1>a. ASSUME NEW q \in Request, q # r, op[q] # "none" PROVE q \in Doing(op[q])
  BY <1>a DEF TypeOK, ShapeInv, Doing, Place, Ops
<1>b. op' = [op EXCEPT ![r] = o] /\ op \in [Request -> Ops \cup {"none"}] BY DEF TypeOK
<1>c. outCrossed' <=> outCrossed \/ (o \in {"leave", "remove"} /\ Doing("leave") \cup Doing("remove") # {})
  OBVIOUS
<1>d. inCrossed' <=> inCrossed \/ (o = "leave" /\ Doing("add") # {}) \/ (o = "add" /\ Doing("leave") # {})
  OBVIOUS
<1>7. OverlapInv'
  <2> SUFFICES ASSUME NEW p \in Request, NEW q \in Request, p # q, op'[p] = "leave"
               PROVE  (op'[q] \in {"leave", "remove"} => outCrossed') /\ (op'[q] = "add" => inCrossed')
    BY DEF OverlapInv
  <2> HIDE DEF Begins, Start, RInv, RoomInv
  <2>1. CASE p = r BY <2>1, <1>a, <1>b, <1>c, <1>d
  <2>2. CASE q = r BY <2>2, <1>a, <1>b, <1>c, <1>d
  <2>3. CASE p # r /\ q # r BY <2>3, <1>b, <1>c, <1>d DEF OverlapInv, RInv
  <2>4. QED BY <2>1, <2>2, <2>3
<1>8. RemovalInv'
  <2> SUFFICES ASSUME NEW p \in Request, NEW q \in Request, p # q, op'[p] = "remove", op'[q] = "remove"
               PROVE  outCrossed'
    BY DEF RemovalInv
  <2> HIDE DEF Begins, Start, RInv, RoomInv
  <2>1. CASE p = r \/ q = r BY <2>1, <1>a, <1>b, <1>c
  <2>2. CASE p # r /\ q # r BY <2>2, <1>b, <1>c DEF RemovalInv, RInv
  <2>3. QED BY <2>1, <2>2
<1>9. FoundInv' BY DEF TypeOK, ShapeInv, LockInv, FoundInv, Place, Visible, Ops
<1>10. EmptyInv' BY DEF EmptyInv
<1>11. QED BY <1>1, <1>2, <1>3, <1>4, <1>5, <1>6, <1>7, <1>8, <1>9, <1>10

LEMMA RNext == RInv /\ [Next]_vars => RInv'
<1> SUFFICES ASSUME RInv, [Next]_vars PROVE RInv'
  OBVIOUS
<1>1. CASE \E c \in User, M \in SUBSET User : create_room(c, M)
  BY <1>1, CreateInv
<1>2. ASSUME NEW r \in Request, StartRequest(r) PROVE RInv'
  BY <1>2, StartBegins, StartInv
<1>3. ASSUME NEW r \in Request, RequestStep(r) PROVE RInv'
  BY <1>3, InsertInv, DeleteMemberInv, TouchInv, DetailInv, CountInv, ClearInv, DropInv,
     CommitInv, CommitMessageInv, EndInv DEF RequestStep
<1>4. ASSUME NEW r \in Request, Rollback(r) PROVE RInv'
  BY <1>4, EndInv
<1>5. CASE \E u \in User : delete_user(u)
  BY <1>5, DeleteUserInv
<1>6. CASE UNCHANGED vars
  BY <1>6 DEF vars, tables, locks, history, RInv, RoomInv, TypeOK, RoomHasMembers,
     NothingLeftBehind, SenderIsMember, ShapeInv, LockInv, OverlapInv, RemovalInv, FoundInv,
     EmptyInv, Visible
<1>7. QED BY <1>1, <1>2, <1>3, <1>4, <1>5, <1>6 DEF Next

(* Transactions, the locks they hold and the tables of rooms agree, in     *)
(* whatever order the statements of the requests are executed.             *)
THEOREM RoomInvariant == Spec => []RInv
BY RInit, RNext, PTL DEF Spec

(* A room without members is left only by removals that overlapped or by   *)
(* the deletion of accounts; a room that is gone has neither members nor   *)
(* messages; and only a member's message is stored, or one of a request    *)
(* during which the membership was lost.                                   *)
THEOREM RoomsAgree == Spec => []RoomInv
<1>1. RInv => RoomInv BY DEF RInv
<1>2. QED BY <1>1, RoomInvariant, PTL

(* A member row that a step adds, and a room that it deletes. *)
LEMMA KeptByStep ==
  ASSUME RInv, Next
  PROVE  LeaveTakesNobody /\ ClosedWithoutOwner
<1>1. ASSUME NEW r \in Request, Commit(r)
      PROVE  LeaveTakesNobody /\ ClosedWithoutOwner
  <2> USE <1>1 DEF Commit, End, Release, RInv, RoomInv
  <2>1. LeaveTakesNobody
    BY DEF LeaveTakesNobody, TypeOK, ShapeInv, LockInv, FoundInv, Place
  <2>2. ClosedWithoutOwner
    BY DEF ClosedWithoutOwner, TypeOK, ShapeInv, FoundInv, Visible
  <2>3. QED BY <2>1, <2>2
<1>2. CASE \E c \in User, M \in SUBSET User : create_room(c, M)
  BY <1>2 DEF create_room, LeaveTakesNobody, ClosedWithoutOwner
<1>3. CASE \E u \in User : delete_user(u)
  BY <1>3 DEF delete_user, LeaveTakesNobody, ClosedWithoutOwner, RInv, ShapeInv, Place
<1>4. ASSUME NEW r \in Request, StartRequest(r) \/ (RequestStep(r) /\ ~Commit(r)) \/ Rollback(r)
      PROVE  UNCHANGED <<room, members>>
  <2>1. CASE StartRequest(r)
    BY <2>1 DEF StartRequest, add_room_members, remove_room_member, rename_room, leave_room,
       delete_room, send_room_message, Start, tables
  <2>2. CASE RequestStep(r) /\ ~Commit(r)
    BY <2>2 DEF RequestStep, Insert, DeleteMember, Touch, room_detail_conn, CountRemaining,
       ClearMembers, DropRoom, CommitMessage, list_room_member_ids, tables
  <2>3. CASE Rollback(r)
    BY <2>3 DEF Rollback, tables
  <2>4. QED BY <1>4, <2>1, <2>2, <2>3
<1>5. CASE UNCHANGED <<room, members>>
  BY <1>5 DEF LeaveTakesNobody, ClosedWithoutOwner
<1>6. QED BY <1>1, <1>2, <1>3, <1>4, <1>5 DEF Next

(* A leave that deletes the room takes nobody else's membership, and a     *)
(* room whose owner has left admits nobody, unless an add and a leave      *)
(* overlapped.                                                             *)
THEOREM MembershipIsKept == Spec => MembersAreKept
<1>1. RInv /\ [Next]_vars => [LeaveTakesNobody /\ ClosedWithoutOwner]_vars
  BY KeptByStep
<1>2. QED BY <1>1, RoomInvariant, PTL DEF Spec, MembersAreKept
----------------------------------------------------------------------------
(* ReadReceipts.  A request's timestamp is not younger than the clock, and *)
(* not older than a message that was there when it began; what it marks as *)
(* read it has delivered before; requests that found a message together    *)
(* are known.                                                              *)
StampInv ==
  /\ between \subseteq among
  /\ \A m \in Letter :
       /\ sentAt[m] # Receipts!Never => sentAt[m] <= hour
       /\ sentAt[m] = Receipts!Never => delivered[m] = Receipts!Never /\ read[m] = Receipts!Never
       /\ delivered[m] # Receipts!Never => delivered[m] <= hour
  /\ \A r \in Receipts!Running :
       /\ mark[r] <= hour
       /\ \A m \in Receipts!Stored :
            /\ m \notin among => sentAt[m] <= mark[r]
            /\ step[r] = "read" /\ read[m] = Receipts!Never =>
                 delivered[m] # Receipts!Never \/ m \in between
            /\ m \notin among \cup mixed =>
                 /\ Receipts!Running = {r}
                 /\ delivered[m] # Receipts!Never => delivered[m] <= mark[r]

ReceiptInd == Receipts!ReceiptInv /\ StampInv

LEMMA ReceiptInit == Receipts!Init => ReceiptInd
<1> SUFFICES ASSUME Receipts!Init PROVE ReceiptInd OBVIOUS
<1> USE ClockAssumption DEF Receipts!Init, Receipts!Never, Receipts!Time
<1>1. Receipts!Stored = {} /\ Receipts!Running = {} BY DEF Receipts!Stored, Receipts!Running
<1>2. Receipts!TypeOK
  <2> DEFINE F == [m \in Letter |-> LetterTime + 1]
  <2>1. F \in [Letter -> (0..LetterTime) \cup {LetterTime + 1}] OBVIOUS
  <2>2. sentAt = F /\ delivered = F /\ read = F OBVIOUS
  <2> HIDE DEF F
  <2>3. \A column \in {sentAt, delivered, read} : column \in [Letter -> (0..LetterTime) \cup {LetterTime + 1}]
    BY <2>1, <2>2
  <2>4. step \in [Reader -> {"idle", "deliver", "read"}] /\ mark \in [Reader -> 0..LetterTime] OBVIOUS
  <2>5. hour \in 0..LetterTime OBVIOUS
  <2>6. blocked \in BOOLEAN OBVIOUS
  <2>7. QED BY <2>3, <2>4, <2>5, <2>6 DEF Receipts!TypeOK
<1>3. QED
  BY <1>1, <1>2 DEF ReceiptInd, Receipts!ReceiptInv, Receipts!ReadIsDelivered, Receipts!DatesInOrder, StampInv

LEMMA ReceiptNext == ReceiptInd /\ [Receipts!Next]_Receipts!vars => ReceiptInd'
<1> SUFFICES ASSUME ReceiptInd, [Receipts!Next]_Receipts!vars PROVE ReceiptInd'
  OBVIOUS
<1> USE ClockAssumption
    DEF ReceiptInd, Receipts!ReceiptInv, Receipts!TypeOK, Receipts!ReadIsDelivered,
        Receipts!DatesInOrder, StampInv, Receipts!Running, Receipts!Stored, Receipts!Never,
        Receipts!Time, Receipts!rows, Receipts!past
<1>1. ASSUME NEW m \in Letter, Receipts!insert_message_conn(m) PROVE ReceiptInd'
  BY <1>1 DEF Receipts!insert_message_conn
<1>2. ASSUME NEW r \in Reader, Receipts!mark_read(r) PROVE ReceiptInd'
  BY <1>2 DEF Receipts!mark_read
<1>3. ASSUME NEW r \in Reader, Receipts!MarkDelivered(r) PROVE ReceiptInd'
  BY <1>3 DEF Receipts!MarkDelivered
<1>4. ASSUME NEW r \in Reader, Receipts!MarkRead(r) PROVE ReceiptInd'
  BY <1>4 DEF Receipts!MarkRead
<1>5. ASSUME NEW r \in Reader, Receipts!Fail(r) PROVE ReceiptInd'
  BY <1>5 DEF Receipts!Fail
<1>6. CASE Receipts!ToggleBlock BY <1>6 DEF Receipts!ToggleBlock
<1>7. CASE Receipts!Advance BY <1>7 DEF Receipts!Advance
<1>8. CASE UNCHANGED Receipts!vars BY <1>8 DEF Receipts!vars
<1> HIDE DEF ReceiptInd
<1>9. QED BY <1>1, <1>2, <1>3, <1>4, <1>5, <1>6, <1>7, <1>8 DEF Receipts!Next

(* However many mark_read requests run, the messages of a conversation are *)
(* delivered before they are read and dated in order, but for those that   *)
(* arrived among or between them.                                          *)
THEOREM ReceiptsInOrder == Receipts!Spec => []Receipts!ReceiptInv
<1>1. ReceiptInd => Receipts!ReceiptInv BY DEF ReceiptInd
<1>2. QED BY <1>1, ReceiptInit, ReceiptNext, PTL DEF Receipts!Spec
----------------------------------------------------------------------------
(* RoomReads.  While an operation of a member is open, every message of    *)
(* others that is visible or in flight was shown to the member or is known *)
(* to overlap; what no cursor has skipped of a message in flight it will   *)
(* not have skipped of it when it is visible.                              *)
Coming == visible \cup Reads!InFlight
ReadInv ==
  /\ \A v \in Member : cursor[v] <= clock
  /\ \A o \in Reads!Op : stamp[o] <= clock
  /\ \A m \in visible : sender[m] # Nobody
  /\ \A o \in Reads!Open :
       /\ by[o] \in Member
       /\ o \in Post => sender[o] = by[o]
       /\ \A m \in Coming : sender[m] # by[o] => m \in shown[by[o]] \cup crossed[by[o]]
  /\ \A v \in Member : \A m \in Coming :
       (sender[m] # v /\ created[m] < cursor[v]) => m \in shown[v] \cup crossed[v]

(* An operation that is alone takes its timestamp after the cursor's. *)
AloneInv ==
  \A o \in Reads!Open :
    by[o] \notin twice =>
      /\ \A q \in Reads!Open : by[q] = by[o] => q = o
      /\ at[o] # "stamp" => cursor[by[o]] <= stamp[o]

CursorInd == Reads!TypeOK /\ ReadInv /\ AloneInv

LEMMA CursorInit == Reads!Init => CursorInd
<1> SUFFICES ASSUME Reads!Init PROVE CursorInd OBVIOUS
<1> USE ClockAssumption DEF Reads!Init, Reads!Never, Reads!Time
<1>1. Reads!Open = {} /\ Coming = {} BY DEF Reads!Open, Reads!InFlight, Coming
<1>2. Reads!TypeOK BY DEF Reads!TypeOK
<1>3. QED BY <1>1, <1>2 DEF CursorInd, ReadInv, AloneInv

LEMMA CursorNext == CursorInd /\ [Reads!Next]_Reads!vars => CursorInd'
<1> SUFFICES ASSUME CursorInd, [Reads!Next]_Reads!vars PROVE CursorInd'
  OBVIOUS
<1> USE ClockAssumption, PostAssumption
    DEF CursorInd, Reads!TypeOK, ReadInv, AloneInv, Coming, Reads!Open, Reads!InFlight, Reads!Op,
        Reads!Never, Reads!Time, Reads!rows, Reads!Goto, Reads!Kept
<1>1. ASSUME NEW v \in Member, NEW m \in Post, Reads!send_room_message(m, v) PROVE CursorInd'
  <2> USE <1>1 DEF Reads!send_room_message, Reads!StartOf
  <2>1. Reads!TypeOK' OBVIOUS
  <2>2. Reads!Open' = Reads!Open \cup {m} /\ m \notin Reads!Open OBVIOUS
  <2>3. Coming' = Coming \cup {m} /\ m \notin Coming OBVIOUS
  <2>4. \A w \in Member : shown[w] \subseteq shown'[w] /\ crossed[w] \subseteq crossed'[w] OBVIOUS
  <2>5. \A w \in Member \ {v} : (\E q \in Reads!Open : by[q] = w) => m \in crossed'[w] OBVIOUS
  <2>6. Coming \subseteq shown'[v] \cup crossed'[v] OBVIOUS
  <2>7. AloneInv' BY <2>1, <2>2
  <2>8. /\ by'[m] = v /\ sender'[m] = v /\ created'[m] = clock /\ m \in Post
        /\ \A o \in Reads!Open : by'[o] = by[o]
        /\ \A n \in Coming : n \in Post /\ sender'[n] = sender[n] /\ created'[n] = created[n]
        /\ UNCHANGED <<clock, cursor, visible, stamp>> /\ clock \in Nat
        /\ \A w \in Member : cursor[w] \in Nat /\ cursor[w] <= clock
        /\ visible \subseteq Coming /\ \A o \in Reads!Open \cap Post : sender'[o] = sender[o]
    OBVIOUS
  <2>9. ReadInv
    OBVIOUS
  <2> HIDE <1>1
      DEF CursorInd, Reads!TypeOK, AloneInv, Coming, Reads!Open, Reads!InFlight, Reads!Op,
          Reads!send_room_message, Reads!StartOf, Reads!Goto
  <2>10. ReadInv' BY <2>2, <2>3, <2>4, <2>5, <2>6, <2>8, <2>9
  <2>11. QED BY <2>1, <2>7, <2>10 DEF CursorInd
<1>2. ASSUME NEW v \in Member, NEW q \in Mark, Reads!mark_room_read(q, v) PROVE CursorInd'
  <2> USE <1>2 DEF Reads!mark_room_read, Reads!StartOf
  <2>1. Reads!TypeOK' OBVIOUS
  <2>2. Reads!Open' = Reads!Open \cup {q} /\ q \notin Reads!Open OBVIOUS
  <2>3. Coming' = Coming OBVIOUS
  <2>4. \A w \in Member : shown[w] \subseteq shown'[w] /\ crossed[w] \subseteq crossed'[w] OBVIOUS
  <2>5. Coming \subseteq shown'[v] \cup crossed'[v] OBVIOUS
  <2>6. AloneInv' BY <2>1, <2>2
  <2>7. /\ by'[q] = v /\ q \notin Post /\ \A o \in Reads!Open : by'[o] = by[o]
        /\ UNCHANGED <<clock, cursor, sender, created, visible, stamp>>
    OBVIOUS
  <2>8. ReadInv
    OBVIOUS
  <2> HIDE <1>2
      DEF CursorInd, Reads!TypeOK, AloneInv, Coming, Reads!Open, Reads!InFlight, Reads!Op,
          Reads!mark_room_read, Reads!StartOf, Reads!Goto
  <2>9. ReadInv' BY <2>2, <2>3, <2>4, <2>5, <2>7, <2>8
  <2>10. QED BY <2>1, <2>6, <2>9 DEF CursorInd
<1>3. ASSUME NEW m \in Post, Reads!TouchRoom(m) PROVE CursorInd'
  BY <1>3 DEF Reads!TouchRoom
<1>4. ASSUME NEW o \in Reads!Op, Reads!TakeStamp(o) PROVE CursorInd'
  BY <1>4 DEF Reads!TakeStamp
<1>5. ASSUME NEW o \in Reads!Op, Reads!MoveCursor(o) PROVE CursorInd'
  BY <1>5 DEF Reads!MoveCursor
<1>6. ASSUME NEW o \in Reads!Op, Reads!Commit(o) PROVE CursorInd'
  BY <1>6 DEF Reads!Commit, Reads!EndOf
<1>7. ASSUME NEW o \in Reads!Op, Reads!Rollback(o) PROVE CursorInd'
  BY <1>7 DEF Reads!Rollback, Reads!EndOf
<1>8. CASE Reads!Advance BY <1>8 DEF Reads!Advance
<1>9. CASE UNCHANGED Reads!vars BY <1>9 DEF Reads!vars
<1> HIDE DEF CursorInd
<1>10. QED BY <1>1, <1>2, <1>3, <1>4, <1>5, <1>6, <1>7, <1>8, <1>9 DEF Reads!Next

LEMMA CursorSafe == CursorInd => Reads!CursorInv
BY ClockAssumption
DEF CursorInd, ReadInv, Coming, Reads!CursorInv, Reads!NothingSkipped, Reads!Unread, Reads!TypeOK, Reads!Time, Reads!Never

LEMMA CursorSteps == CursorInd /\ [Reads!Next]_Reads!vars => [Reads!CursorStep]_Reads!vars
<1> SUFFICES ASSUME CursorInd, Reads!Next, NEW v \in Member
             PROVE  cursor'[v] >= cursor[v] \/ v \in twice
  BY DEF Reads!CursorStep
<1>1. cursor \in [Member -> Nat]
  BY ClockAssumption DEF CursorInd, Reads!TypeOK, Reads!Time
<1>2. CASE cursor' = cursor BY <1>1, <1>2
<1>3. ASSUME NEW o \in Reads!Op, Reads!Commit(o) PROVE cursor'[v] >= cursor[v] \/ v \in twice
  <2>1. o \in Reads!Open /\ at[o] # "stamp" BY <1>3 DEF Reads!Commit, Reads!Open
  <2>2. by[o] \notin twice => cursor[by[o]] <= stamp[o] BY <2>1 DEF CursorInd, AloneInv
  <2>3. stamp[o] \in Nat BY ClockAssumption DEF CursorInd, Reads!TypeOK, Reads!Time
  <2>4. cursor' = [cursor EXCEPT ![by[o]] = stamp[o]] BY <1>3 DEF Reads!Commit
  <2>5. QED BY <1>1, <2>2, <2>3, <2>4
<1>4. QED
  BY <1>2, <1>3 DEF Reads!Next, Reads!send_room_message, Reads!mark_room_read, Reads!TouchRoom,
     Reads!TakeStamp, Reads!MoveCursor, Reads!Rollback, Reads!Advance, Reads!rows

(* A message that the read position of a member has passed was shown to    *)
(* the member, was in flight during an operation of the member, or was     *)
(* begun at the very time of the cursor.                                   *)
THEOREM NothingIsSkipped == Reads!Spec => []Reads!CursorInv
BY CursorInit, CursorNext, CursorSafe, PTL DEF Reads!Spec

(* A read position moves back only for a member whose operations overlap.  *)
THEOREM CursorsMoveOn == Reads!Spec => Reads!CursorMovesOn
BY CursorInit, CursorNext, CursorSteps, PTL DEF Reads!Spec, Reads!CursorMovesOn
----------------------------------------------------------------------------
(* DirectMessages.  What is open now is noted; a request beyond a gate met *)
(* it open; and a sender whose row had no restriction has none yet when    *)
(* the reports are counted, unless a review switched.                      *)
PassInv ==
  \A r \in Sender :
    /\ stage[r] # "idle" =>
         from[r] \in Person /\ to[r] \in Person /\ Direct!OpenGates(from[r], to[r]) \subseteq wasOpen[r]
    /\ stage[r] \in {"block", "row", "reports", "contact", "insert"} => "card" \in wasOpen[r]
    /\ stage[r] \in {"row", "reports", "contact", "insert"} => "block" \in wasOpen[r]
    /\ stage[r] = "reports" /\ ~restricted[r] => from[r] \notin limited \/ switched[r]
    /\ stage[r] = "insert" => "contact" \in wasOpen[r] \/ switched[r]
GateInd == Direct!TypeOK /\ PassInv

LEMMA GateInit == Direct!Init => GateInd
BY GateAssumption DEF Direct!Init, GateInd, Direct!TypeOK, PassInv

(* A step of a request leaves the tables, and what they let pass, alone. *)
LEMMA GatesStay ==
  ASSUME UNCHANGED <<blocks, open, limited, carded, msgs, removed>>
  PROVE  \A a, b : Direct!OpenGates(a, b)' = Direct!OpenGates(a, b)
BY DEF Direct!OpenGates, Direct!is_block_active_between, Direct!HasPriorContact, Direct!Restricted

(* A change of the tables is noted by the requests at work. *)
LEMMA NotedGates ==
  ASSUME PassInv, Direct!TypeOK, Direct!Noted, UNCHANGED <<stage, from, to, restricted>>,
         \A r \in Sender : switched[r] => switched'[r],
         \A r \in Sender : stage[r] = "reports" /\ from[r] \in limited' \ limited => switched'[r]
  PROVE  PassInv' /\ wasOpen' \in [Sender -> SUBSET Direct!Gates]
<1>1. ASSUME NEW r \in Sender, stage[r] # "idle"
      PROVE  wasOpen'[r] = wasOpen[r] \cup Direct!OpenGates(from[r], to[r])'
  BY <1>1 DEF Direct!Noted
<1>2. \A a, b : Direct!OpenGates(a, b)' \subseteq Direct!Gates BY DEF Direct!OpenGates
<1>3. wasOpen' \in [Sender -> SUBSET Direct!Gates]
  BY <1>2 DEF Direct!Noted, Direct!TypeOK
<1>4. QED BY <1>1, <1>3 DEF PassInv

LEMMA GateNext == GateInd /\ [Direct!Next]_Direct!vars => GateInd'
<1> SUFFICES ASSUME GateInd, [Direct!Next]_Direct!vars PROVE GateInd'
  OBVIOUS
<1> USE GateAssumption DEF Direct!tables, Direct!history, Direct!Goto
<1>1. ASSUME NEW r \in Sender, NEW a \in Person, NEW b \in Person, Direct!send_message(r, a, b)
      PROVE  GateInd'
  <2>1. Direct!OpenGates(a, b) \subseteq Direct!Gates BY DEF Direct!OpenGates
  <2>2. \A c, d : Direct!OpenGates(c, d)' = Direct!OpenGates(c, d)
    BY <1>1, GatesStay DEF Direct!send_message
  <2>3. QED BY <1>1, <2>1, <2>2 DEF Direct!send_message, GateInd, Direct!TypeOK, PassInv
<1>2. ASSUME NEW r \in Sender, Direct!ensure_no_yellow_card(r) PROVE GateInd'
  <2>1. "card" \in Direct!OpenGates(from[r], to[r])
    BY <1>2 DEF Direct!ensure_no_yellow_card, Direct!OpenGates, Direct!Gates
  <2>2. \A c, d : Direct!OpenGates(c, d)' = Direct!OpenGates(c, d)
    BY <1>2, GatesStay DEF Direct!ensure_no_yellow_card, Direct!Asked
  <2>3. QED
    BY <1>2, <2>1, <2>2 DEF Direct!ensure_no_yellow_card, Direct!Asked, GateInd, Direct!TypeOK, PassInv
<1>3. ASSUME NEW r \in Sender, Direct!ensure_no_block_between(r) PROVE GateInd'
  <2>1. "block" \in Direct!OpenGates(from[r], to[r])
    BY <1>3 DEF Direct!ensure_no_block_between, Direct!OpenGates, Direct!Gates
  <2>2. \A c, d : Direct!OpenGates(c, d)' = Direct!OpenGates(c, d)
    BY <1>3, GatesStay DEF Direct!ensure_no_block_between, Direct!Asked
  <2>3. QED
    BY <1>3, <2>1, <2>2 DEF Direct!ensure_no_block_between, Direct!Asked, GateInd, Direct!TypeOK, PassInv
<1>4. ASSUME NEW r \in Sender, Direct!ReadRestriction(r) PROVE GateInd'
  <2>1. \A c, d : Direct!OpenGates(c, d)' = Direct!OpenGates(c, d)
    BY <1>4, GatesStay DEF Direct!ReadRestriction, Direct!Asked
  <2>2. restricted \in [Sender -> BOOLEAN] /\ (from[r] \in limited) \in BOOLEAN
    BY DEF GateInd, Direct!TypeOK
  <2>3. restricted' \in [Sender -> BOOLEAN] /\ restricted'[r] = (from[r] \in limited)
        /\ \A q \in Sender \ {r} : restricted'[q] = restricted[q]
    BY <1>4, <2>2 DEF Direct!ReadRestriction
  <2>4. Direct!TypeOK' BY <1>4, <2>3 DEF Direct!ReadRestriction, Direct!Asked, GateInd, Direct!TypeOK
  <2>5. PassInv' BY <1>4, <2>1, <2>3 DEF Direct!ReadRestriction, Direct!Asked, GateInd, Direct!TypeOK, PassInv
  <2>6. QED BY <2>4, <2>5 DEF GateInd
<1>5. ASSUME NEW r \in Sender, Direct!CountReports(r) PROVE GateInd'
  <2>1. (~restricted[r] /\ ~(open[from[r]] >= Threshold) /\ from[r] \notin limited)
          => "contact" \in Direct!OpenGates(from[r], to[r])
    BY DEF Direct!OpenGates, Direct!Gates, Direct!Restricted
  <2>2. \A c, d : Direct!OpenGates(c, d)' = Direct!OpenGates(c, d)
    BY <1>5, GatesStay DEF Direct!CountReports, Direct!Asked
  <2>3. QED
    BY <1>5, <2>1, <2>2 DEF Direct!CountReports, Direct!Asked, GateInd, Direct!TypeOK, PassInv
<1>6. ASSUME NEW r \in Sender, Direct!FindContact(r) PROVE GateInd'
  <2>1. "contact" \in Direct!OpenGates(from[r], to[r])
    BY <1>6 DEF Direct!FindContact, Direct!OpenGates, Direct!Gates
  <2>2. \A c, d : Direct!OpenGates(c, d)' = Direct!OpenGates(c, d)
    BY <1>6, GatesStay DEF Direct!FindContact, Direct!Asked
  <2>3. QED
    BY <1>6, <2>1, <2>2 DEF Direct!FindContact, Direct!Asked, GateInd, Direct!TypeOK, PassInv
<1>7. ASSUME NEW r \in Sender, Direct!InsertMessage(r) PROVE GateInd'
  <2>1. \A a, b : Direct!OpenGates(a, b)' \subseteq Direct!Gates BY DEF Direct!OpenGates
  <2>2. \A q \in Sender \ {r} : stage[q] # "idle" =>
          wasOpen'[q] = wasOpen[q] \cup Direct!OpenGates(from[q], to[q])'
    BY <1>7 DEF Direct!InsertMessage, Direct!End, Direct!Noted, GateInd, Direct!TypeOK
  <2>3. Direct!TypeOK'
    BY <1>7, <2>1 DEF Direct!InsertMessage, Direct!End, Direct!Noted, GateInd, Direct!TypeOK, PassInv
  <2>4. PassInv'
    BY <1>7, <2>2 DEF Direct!InsertMessage, Direct!End, GateInd, Direct!TypeOK, PassInv
  <2>5. QED BY <2>3, <2>4 DEF GateInd
<1>8. ASSUME NEW r \in Sender, Direct!Refuse(r) PROVE GateInd'
  <2>1. \A c, d : Direct!OpenGates(c, d)' = Direct!OpenGates(c, d)
    BY <1>8, GatesStay DEF Direct!Refuse
  <2>2. QED BY <1>8, <2>1 DEF Direct!Refuse, Direct!End, GateInd, Direct!TypeOK, PassInv
<1>9. ASSUME NEW a \in Person, NEW b \in Person, Direct!block_user(a, b) PROVE GateInd'
  BY <1>9, NotedGates DEF Direct!block_user, Direct!Elsewhere, GateInd, Direct!TypeOK
<1>10. ASSUME NEW a \in Person, NEW b \in Person, Direct!unblock_user(a, b) PROVE GateInd'
  BY <1>10, NotedGates DEF Direct!unblock_user, Direct!Elsewhere, GateInd, Direct!TypeOK
<1>11. ASSUME NEW u \in Person, Direct!create_report(u) PROVE GateInd'
  BY <1>11, NotedGates DEF Direct!create_report, Direct!Elsewhere, GateInd, Direct!TypeOK
<1>12. ASSUME NEW u \in Person, Direct!ReviewReport(u) PROVE GateInd'
  <2>1. PICK gone \in SUBSET Note, limit \in BOOLEAN : Direct!CloseReport(u, gone, limit)
    BY <1>12 DEF Direct!ReviewReport
  <2>2. Direct!TypeOK /\ PassInv BY DEF GateInd
  <2>3. /\ Direct!Noted /\ UNCHANGED <<stage, from, to, restricted>>
        /\ \A r \in Sender : switched[r] => switched'[r]
        /\ \A r \in Sender : stage[r] = "reports" /\ from[r] \in limited' \ limited => switched'[r]
    BY <2>1 DEF Direct!CloseReport, Direct!Elsewhere
  <2>4. PassInv' /\ wasOpen' \in [Sender -> SUBSET Direct!Gates] BY <2>2, <2>3, NotedGates
  <2>5. switched' \in [Sender -> BOOLEAN]
    BY <2>1 DEF Direct!CloseReport
  <2>6. QED BY <2>1, <2>2, <2>4, <2>5 DEF Direct!CloseReport, Direct!Elsewhere, GateInd, Direct!TypeOK
<1>13. ASSUME NEW u \in Person, Direct!RestrictionEnds(u) PROVE GateInd'
  BY <1>13, NotedGates DEF Direct!RestrictionEnds, Direct!Elsewhere, GateInd, Direct!TypeOK
<1>14. ASSUME NEW u \in Person, Direct!issue_yellow_card(u) \/ Direct!YellowCardEnds(u) PROVE GateInd'
  BY <1>14, NotedGates
  DEF Direct!issue_yellow_card, Direct!YellowCardEnds, Direct!Elsewhere, GateInd, Direct!TypeOK
<1>15. CASE UNCHANGED Direct!vars
  <2>1. \A c, d : Direct!OpenGates(c, d)' = Direct!OpenGates(c, d)
    BY <1>15, GatesStay DEF Direct!vars
  <2>2. QED BY <1>15, <2>1 DEF Direct!vars, GateInd, Direct!TypeOK, PassInv
<1>16. QED
  BY <1>1, <1>2, <1>3, <1>4, <1>5, <1>6, <1>7, <1>8, <1>9, <1>10, <1>11, <1>12, <1>13, <1>14, <1>15
  DEF Direct!Next, Direct!RequestStep

(* A direct message that is stored met each gate open at some moment of    *)
(* its request, but for a review that switched reports into a restriction. *)
THEOREM GatesAreMet == Direct!Spec => []Direct!GateInv
<1>1. GateInd => Direct!GateInv BY DEF GateInd, PassInv, Direct!GateInv, Direct!GatesWereOpen
<1>2. QED BY <1>1, GateInit, GateNext, PTL DEF Direct!Spec
----------------------------------------------------------------------------
(* The parts side by side: one of them runs, the others stay as they began.*)
ConversationsInd ==
  /\ part = "reads" => CursorInd
  /\ part = "receipts" => ReceiptInd
  /\ part = "direct" => GateInd

mcVars == <<part, vars, readVars, receiptVars, directVars>>

LEMMA ConversationsInit == MCInit => ConversationsInd
BY CursorInit, ReceiptInit, GateInit DEF MCInit, ConversationsInd

LEMMA ReadsStep == [MCNext]_mcVars /\ part = "reads" => [Reads!Next]_Reads!vars
BY DEF MCNext, mcVars, readVars, Reads!vars, Reads!rows

LEMMA ConversationsNext == ConversationsInd /\ [MCNext]_mcVars => ConversationsInd'
<1> SUFFICES ASSUME ConversationsInd, [MCNext]_mcVars PROVE ConversationsInd' OBVIOUS
<1>1. part' = part BY DEF MCNext, mcVars
<1>2. part = "receipts" => [Receipts!Next]_Receipts!vars
  BY DEF MCNext, mcVars, receiptVars, Receipts!vars, Receipts!rows, Receipts!past
<1>3. part = "direct" => [Direct!Next]_Direct!vars
  BY DEF MCNext, mcVars, directVars, Direct!vars, Direct!tables, Direct!history
<1>4. QED BY <1>1, <1>2, <1>3, ReadsStep, CursorNext, ReceiptNext, GateNext DEF ConversationsInd

LEMMA ConversationsInvariant == MCSpec => []ConversationsInd
BY ConversationsInit, ConversationsNext, PTL DEF MCSpec, mcVars

(* Wherever a room is read, no unread message is skipped but in flight. *)
THEOREM CursorsRun == MCSpec => []CursorInv
<1>1. ConversationsInd => CursorInv BY CursorSafe DEF ConversationsInd, CursorInv
<1>2. QED BY <1>1, ConversationsInvariant, PTL

(* Wherever a room is read, cursors go back only by overlapping operations.*)
THEOREM CursorsRunOn == MCSpec => CursorMovesOn
<1>1. ConversationsInd /\ [MCNext]_mcVars => [part = "reads" => Reads!CursorStep]_readVars
  <2>1. UNCHANGED Reads!vars <=> UNCHANGED readVars BY DEF readVars, Reads!vars, Reads!rows
  <2>2. QED BY <2>1, ReadsStep, CursorSteps DEF ConversationsInd
<1>2. QED BY <1>1, ConversationsInvariant, PTL DEF MCSpec, mcVars, CursorMovesOn

(* Wherever messages are marked as read, receipts are in order. *)
THEOREM ReceiptsRun == MCSpec => []ReceiptInv
<1>1. ConversationsInd => ReceiptInv BY DEF ConversationsInd, ReceiptInd, ReceiptInv
<1>2. QED BY <1>1, ConversationsInvariant, PTL

(* Wherever direct messages are sent, a stored one met every gate open. *)
THEOREM GatesRun == MCSpec => []GateInv
<1>1. ConversationsInd => GateInv
  BY DEF ConversationsInd, GateInd, PassInv, GateInv, Direct!GateInv, Direct!GatesWereOpen
<1>2. QED BY <1>1, ConversationsInvariant, PTL
=============================================================================
