------------------------------ MODULE Stickers ------------------------------
(***************************************************************************)
(* Sticker uploads, their review and the public list of groups             *)
(* (services/sticker_service.rs, routes/stickers.rs).                      *)
(*                                                                         *)
(* upload_sticker_conn counts the uploader's stickers, adds up their bytes *)
(* and inserts.  A user's upload does so inside the transaction of         *)
(* run_attachment_action_with_guild, which by then has updated, and so     *)
(* locked, the user's row of user_guild_stats; an administrator's upload   *)
(* has no transaction.                                                     *)
(***************************************************************************)
EXTENDS Integers, FiniteSets, Sequences, Functions

CONSTANTS
  User, Admin,      \* uploaders
  Group, Size,      \* names of groups and sizes of stickers
  Request, None,
  MaxCount, MaxBytes,   \* MAX_STICKERS_PER_USER, MAX_TOTAL_BYTES_PER_USER
  MaxRows       \* bound on the stickers uploaded

VARIABLES
  rows,         \* the table, in order of created_at
  pc, who, input, lock,   \* of each request
  crossed       \* history: administrators whose uploads overlapped

local == <<pc, who, input, lock>>
vars == <<rows, local, crossed>>

Uploader == User \cup Admin
Row == [owner : Uploader, size : Size, group : Group, tab : BOOLEAN, status : {"pending", "active", "rejected"}]

Of(u) == {i \in DOMAIN rows : rows[i].owner = u}
Bytes(u) == SumFunctionOnSet([i \in DOMAIN rows |-> rows[i].size], Of(u))
Uploading(u) == {r \in Request : pc[r] # "idle" /\ who[r] = u}

Init ==
  /\ rows = << >>
  /\ pc = [r \in Request |-> "idle"] /\ who = [r \in Request |-> None]
  /\ input = [r \in Request |-> None] /\ lock = [r \in Request |-> None]
  /\ crossed = {}

----------------------------------------------------------------------------
Goto(r, to) == pc' = [pc EXCEPT ![r] = to]

Finish(r) ==
  /\ Goto(r, "idle") /\ who' = [who EXCEPT ![r] = None]
  /\ input' = [input EXCEPT ![r] = None] /\ lock' = [lock EXCEPT ![r] = None]

(* upload: the input has passed its checks. *)
upload(r, u, s) ==
  /\ pc[r] = "idle"
  /\ Len(rows) + Cardinality({q \in Request : pc[q] # "idle"}) < MaxRows
  /\ Goto(r, IF u \in Admin THEN "count" ELSE "gate")
  /\ who' = [who EXCEPT ![r] = u] /\ input' = [input EXCEPT ![r] = s]
  /\ crossed' = IF u \in Admin /\ Uploading(u) # {} THEN crossed \cup {u} ELSE crossed
  /\ UNCHANGED <<rows, lock>>

(* Mutant: the gate updates nothing. *)
run_attachment_action_with_guild_NoLock(r) ==
  /\ pc[r] = "gate"
  /\ Goto(r, "count")
  /\ UNCHANGED <<rows, who, input, lock, crossed>>

(* The gate up to the operation: update_human_activity_state takes the     *)
(* lock.  A limit that is reached ends the request.                        *)
run_attachment_action_with_guild(r) ==
  /\ pc[r] = "gate" /\ \A q \in Request : lock[q] # who[r]
  /\ \/ Goto(r, "count") /\ lock' = [lock EXCEPT ![r] = who[r]] /\ UNCHANGED <<who, input>>
     \/ Finish(r)
  /\ UNCHANGED <<rows, crossed>>

CountStickers(r) ==
  /\ pc[r] = "count"
  /\ \/ Cardinality(Of(who[r])) < MaxCount /\ Goto(r, "bytes") /\ UNCHANGED <<who, input, lock>>
     \/ Cardinality(Of(who[r])) >= MaxCount /\ Finish(r)
  /\ UNCHANGED <<rows, crossed>>

(* Mutant: the bytes of the new sticker are forgotten. *)
SumBytes_OldOnly(r) ==
  /\ pc[r] = "bytes"
  /\ \/ Bytes(who[r]) <= MaxBytes /\ Goto(r, "insert") /\ UNCHANGED <<who, input, lock>>
     \/ Bytes(who[r]) > MaxBytes /\ Finish(r)
  /\ UNCHANGED <<rows, crossed>>

SumBytes(r) ==
  LET next_total == Bytes(who[r]) + input[r].size
  IN  /\ pc[r] = "bytes"
      /\ \/ next_total <= MaxBytes /\ Goto(r, "insert") /\ UNCHANGED <<who, input, lock>>
         \/ next_total > MaxBytes /\ Finish(r)
      /\ UNCHANGED <<rows, crossed>>

(* The INSERT; for a user the counter and the commit with it. *)
InsertSticker(r) ==
  LET status == IF who[r] \in Admin THEN "active" ELSE "pending"
  IN  /\ pc[r] = "insert"
      /\ rows' = Append(rows, [owner |-> who[r], size |-> input[r].size, group |-> input[r].group,
                               tab |-> input[r].tab, status |-> status])
      /\ Finish(r)
      /\ UNCHANGED crossed

Fail(r) == pc[r] # "idle" /\ Finish(r) /\ UNCHANGED <<rows, crossed>>

moderate_sticker(i, status) ==
  /\ i \in DOMAIN rows
  /\ rows' = [rows EXCEPT ![i].status = status]
  /\ UNCHANGED <<local, crossed>>

(* Every sticker of the group, whatever its status. *)
rename_sticker_group(old, new) ==
  /\ \E i \in DOMAIN rows : rows[i].group = old
  /\ rows' = [i \in DOMAIN rows |-> IF rows[i].group = old THEN [rows[i] EXCEPT !.group = new] ELSE rows[i]]
  /\ UNCHANGED <<local, crossed>>

Next ==
  \/ \E r \in Request :
       \/ \E u \in Uploader, s \in [size : Size, group : Group, tab : BOOLEAN] : upload(r, u, s)
       \/ run_attachment_action_with_guild(r) \/ CountStickers(r) \/ SumBytes(r)
       \/ InsertSticker(r) \/ Fail(r)
  \/ \E i \in 1..MaxRows, status \in {"active", "rejected"} : moderate_sticker(i, status)
  \/ \E old, new \in Group : old # new /\ rename_sticker_group(old, new)

Spec == Init /\ [][Next]_vars

----------------------------------------------------------------------------
(* list_sticker_groups walks the active stickers, oldest first, and enters *)
(* a group where it first meets it.                                        *)
(* Mutant: the tab sticker that opens a group is counted.                  *)
AddSticker_CountTab(groups, i) ==
  LET g == rows[i].group
      seen == IF g \in DOMAIN groups THEN groups[g] ELSE [tab |-> None, total |-> 0]
      new == IF rows[i].tab /\ g \in DOMAIN groups THEN [seen EXCEPT !.tab = i]
             ELSE [tab |-> IF rows[i].tab THEN i ELSE seen.tab, total |-> seen.total + 1]
  IN  [h \in DOMAIN groups \cup {g} |-> IF h = g THEN new ELSE groups[h]]

AddSticker(groups, i) ==
  LET g == rows[i].group
      seen == IF g \in DOMAIN groups THEN groups[g] ELSE [tab |-> None, total |-> 0]
      new == IF rows[i].tab THEN [seen EXCEPT !.tab = i] ELSE [seen EXCEPT !.total = @ + 1]
  IN  [h \in DOMAIN groups \cup {g} |-> IF h = g THEN new ELSE groups[h]]

list_sticker_groups ==
  LET walk[n \in 0..Len(rows)] ==
        IF n = 0 THEN [g \in {} |-> None]
        ELSE IF rows[n].status = "active" THEN AddSticker(walk[n - 1], n)
        ELSE walk[n - 1]
      all == walk[Len(rows)]
  IN  [g \in {h \in DOMAIN all : all[h].tab # None} |-> all[g]]

TypeOK ==
  /\ rows \in Seq(Row) /\ Len(rows) <= MaxRows
  /\ pc \in [Request -> {"idle", "gate", "count", "bytes", "insert"}]
  /\ who \in [Request -> Uploader \cup {None}] /\ lock \in [Request -> User \cup {None}]
  /\ crossed \subseteq Admin

(* MAX_STICKERS_PER_USER and MAX_TOTAL_BYTES_PER_USER hold for users,      *)
(* however their uploads overlap, and for administrators whose uploads     *)
(* did not.                                                                *)
QuotaHolds ==
  \A u \in Uploader \ crossed : Cardinality(Of(u)) <= MaxCount /\ Bytes(u) <= MaxBytes

(* The public list has the groups with an active tab sticker, each with    *)
(* its newest one and the number of its other active stickers, whatever    *)
(* was renamed into what.                                                  *)
GroupsAreComplete ==
  LET Active(g, t) == {i \in DOMAIN rows : rows[i].status = "active" /\ rows[i].group = g /\ rows[i].tab = t}
  IN  /\ DOMAIN list_sticker_groups = {g \in Group : Active(g, TRUE) # {}}
      /\ \A g \in DOMAIN list_sticker_groups :
           LET shown == list_sticker_groups[g]
           IN  /\ shown.tab \in Active(g, TRUE) /\ \A i \in Active(g, TRUE) : i <= shown.tab
               /\ shown.total = Cardinality(Active(g, FALSE))

(* upload_sticker and list_sticker_groups. *)
StickerInv == TypeOK /\ QuotaHolds /\ GroupsAreComplete
=============================================================================
