--------------------------- MODULE DirectMessages ---------------------------
(***************************************************************************)
(* Sending a direct message through the safety gate                        *)
(* (routes/messages.rs, ensure_direct_message_allowed of                   *)
(* services/moderation_service.rs), with blocks and the reports they file. *)
(*                                                                         *)
(* The gate asks three questions, each with queries of its own outside any *)
(* transaction: a yellow card, a block either way, and a restriction to    *)
(* existing contacts.  The last one alone reads the sender's row, then the *)
(* open reports, then the conversation.  A review moves a report from      *)
(* "open" to a restriction in one transaction between two such reads.      *)
(* Of the clock only this is kept: a card, a restriction and a recent      *)
(* report end some time.  The message is stored by send_message_with_guild *)
(* (GuildActivity), here one step that may also refuse.                    *)
(***************************************************************************)
EXTENDS Naturals

CONSTANTS
  User, Message, Request, None,
  Suspect,    \* users against whom reports and cards are raised
  Threshold,  \* NEW_DM_RESTRICTION_OPEN_REPORT_THRESHOLD
  MaxOpen     \* bound on the open reports against one user

VARIABLES
  blocks,     \* user_blocks: pairs <<blocker, blocked>>
  open,       \* open reports of the last days against each user
  limited,    \* users with dm_restricted_until in the future
  carded,     \* users with yellow_card_expires_at in the future
  msgs,       \* messages: <<sender, recipient>>, or None
  removed,    \* messages with deleted_at
  pc, from, to, restricted,  \* of each request
  wasOpen,    \* history: gates found open at some moment of the request
  switched    \* history: a review turned reports into a restriction meanwhile

tables == <<blocks, open, limited, carded, msgs, removed>>
history == <<wasOpen, switched>>
vars == <<tables, pc, from, to, restricted, history>>

Gates == {"card", "block", "contact"}

is_block_active_between(a, b) == <<a, b>> \in blocks \/ <<b, a>> \in blocks

HasPriorContact(a, b) ==
  \E m \in Message \ removed : msgs[m] \in {<<a, b>>, <<b, a>>}

Restricted(u) == u \in limited \/ open[u] >= Threshold

(* The gates that would let a message pass if all were asked now. *)
OpenGates(a, b) ==
  {g \in Gates : \/ g = "card" /\ a \notin carded
                 \/ g = "block" /\ ~is_block_active_between(a, b)
                 \/ g = "contact" /\ (~Restricted(a) \/ HasPriorContact(a, b))}

Noted ==
  wasOpen' = [r \in Request |->
                IF pc'[r] = "idle" THEN {}
                ELSE wasOpen[r] \cup OpenGates(from[r], to[r])']

Init ==
  /\ blocks = {} /\ open = [u \in User |-> 0]
  /\ limited = {} /\ carded = {}
  /\ msgs = [m \in Message |-> None] /\ removed = {}
  /\ pc = [r \in Request |-> "idle"]
  /\ from = [r \in Request |-> None] /\ to = [r \in Request |-> None]
  /\ restricted = [r \in Request |-> FALSE]
  /\ wasOpen = [r \in Request |-> {}] /\ switched = [r \in Request |-> FALSE]

----------------------------------------------------------------------------
(* The request: validated input, then the recipient is looked up. *)
send_message(r, a, b) ==
  /\ pc[r] = "idle"
  /\ pc' = [pc EXCEPT ![r] = "card"]
  /\ from' = [from EXCEPT ![r] = a] /\ to' = [to EXCEPT ![r] = b]
  /\ wasOpen' = [wasOpen EXCEPT ![r] = OpenGates(a, b)]
  /\ UNCHANGED <<tables, restricted, switched>>

Goto(r, label) == pc' = [pc EXCEPT ![r] = label]

Asked(r, label) ==
  /\ Goto(r, label)
  /\ UNCHANGED <<tables, from, to, history>>

ensure_no_yellow_card(r) ==
  /\ pc[r] = "card" /\ from[r] \notin carded
  /\ Asked(r, "block") /\ UNCHANGED restricted

(* Mutant: only the sender's own block counts. *)
ensure_no_block_between_OneWay(r) ==
  /\ pc[r] = "block" /\ <<from[r], to[r]>> \notin blocks
  /\ Asked(r, "row") /\ UNCHANGED restricted

ensure_no_block_between(r) ==
  /\ pc[r] = "block" /\ ~is_block_active_between(from[r], to[r])
  /\ Asked(r, "row") /\ UNCHANGED restricted

(* is_new_dm_contact_restricted: the sender's row, the open reports, and   *)
(* only for a restricted sender the conversation.                          *)
ReadRestriction(r) ==
  /\ pc[r] = "row"
  /\ restricted' = [restricted EXCEPT ![r] = from[r] \in limited]
  /\ Asked(r, "reports")

(* Mutant: the reports are not counted. *)
CountReports_RowOnly(r) ==
  /\ pc[r] = "reports"
  /\ Asked(r, IF restricted[r] THEN "contact" ELSE "insert")
  /\ UNCHANGED restricted

CountReports(r) ==
  /\ pc[r] = "reports"
  /\ Asked(r, IF restricted[r] \/ open[from[r]] >= Threshold THEN "contact" ELSE "insert")
  /\ UNCHANGED restricted

FindContact(r) ==
  /\ pc[r] = "contact" /\ HasPriorContact(from[r], to[r])
  /\ Asked(r, "insert") /\ UNCHANGED restricted

End(r) ==
  /\ Goto(r, "idle")
  /\ from' = [from EXCEPT ![r] = None] /\ to' = [to EXCEPT ![r] = None]
  /\ restricted' = [restricted EXCEPT ![r] = FALSE]
  /\ switched' = [switched EXCEPT ![r] = FALSE]

(* The message row is committed; events and pushes follow, and change      *)
(* nothing here.                                                           *)
InsertMessage(r) ==
  /\ pc[r] = "insert"
  /\ \E m \in Message :
       /\ msgs[m] = None
       /\ msgs' = [msgs EXCEPT ![m] = <<from[r], to[r]>>]
  /\ End(r)
  /\ UNCHANGED <<blocks, open, limited, carded, removed>>
  /\ Noted

(* A gate is closed, the daily limit is reached, or an error. *)
Refuse(r) ==
  /\ pc[r] # "idle"
  /\ End(r)
  /\ wasOpen' = [wasOpen EXCEPT ![r] = {}]
  /\ UNCHANGED tables

----------------------------------------------------------------------------
(* Last conjunct of an action: Noted looks at the tables after the step. *)
Elsewhere(same) == UNCHANGED <<same, msgs, pc, from, to, restricted>> /\ Noted

(* One transaction files a report and inserts the block; of two that       *)
(* overlap, the primary key rolls one back with its report.                *)
block_user(a, b) ==
  /\ a # b /\ <<a, b>> \notin blocks /\ open[b] < MaxOpen
  /\ blocks' = blocks \cup {<<a, b>>}
  /\ open' = [open EXCEPT ![b] = @ + 1]
  /\ Elsewhere(<<limited, carded, removed, switched>>)

unblock_user(a, b) ==
  /\ <<a, b>> \in blocks
  /\ blocks' = blocks \ {<<a, b>>}
  /\ Elsewhere(<<open, limited, carded, removed, switched>>)

create_report(u) ==
  /\ u \in Suspect /\ open[u] < MaxOpen
  /\ open' = [open EXCEPT ![u] = @ + 1]
  /\ Elsewhere(<<blocks, limited, carded, removed, switched>>)

(* A review: the report is closed; its message may be removed, and the     *)
(* user restricted, in the same transaction.  Also a report grows old.     *)
CloseReport(u, gone, limit) ==
  /\ open[u] > 0
  /\ open' = [open EXCEPT ![u] = @ - 1]
  /\ removed' = removed \cup gone
  /\ limited' = IF limit THEN limited \cup {u} ELSE limited
  /\ switched' = [r \in Request |-> switched[r] \/ (limit /\ from[r] = u /\ pc[r] = "reports")]
  /\ Elsewhere(<<blocks, carded>>)

ReviewReport(u) ==
  \/ CloseReport(u, {}, FALSE)
  \/ \E m \in Message \ removed :
       /\ msgs[m] # None /\ msgs[m][1] = u
       /\ \E limit \in BOOLEAN : CloseReport(u, {m}, limit)
  \/ CloseReport(u, {}, TRUE)

RestrictionEnds(u) ==
  /\ u \in limited /\ limited' = limited \ {u}
  /\ Elsewhere(<<blocks, open, carded, removed, switched>>)

issue_yellow_card(u) ==
  /\ u \in Suspect \ carded /\ carded' = carded \cup {u}
  /\ Elsewhere(<<blocks, open, limited, removed, switched>>)

(* clear_yellow_card, or the card runs out. *)
YellowCardEnds(u) ==
  /\ u \in carded /\ carded' = carded \ {u}
  /\ Elsewhere(<<blocks, open, limited, removed, switched>>)

RequestStep(r) ==
  \/ ensure_no_yellow_card(r) \/ ensure_no_block_between(r) \/ ReadRestriction(r)
  \/ CountReports(r) \/ FindContact(r) \/ InsertMessage(r) \/ Refuse(r)

Next ==
  \/ \E r \in Request : RequestStep(r) \/ (\E a, b \in User : a # b /\ send_message(r, a, b))
  \/ \E a, b \in User : block_user(a, b) \/ unblock_user(a, b)
  \/ \E u \in User : \/ create_report(u) \/ ReviewReport(u) \/ RestrictionEnds(u)
                     \/ issue_yellow_card(u) \/ YellowCardEnds(u)

Spec == Init /\ [][Next]_vars

----------------------------------------------------------------------------
TypeOK ==
  /\ blocks \subseteq User \X User /\ open \in [User -> 0..MaxOpen]
  /\ limited \subseteq User /\ carded \subseteq User
  /\ msgs \in [Message -> (User \X User) \cup {None}] /\ removed \subseteq Message
  /\ pc \in [Request -> {"idle", "card", "block", "row", "reports", "contact", "insert"}]
  /\ from \in [Request -> User \cup {None}] /\ to \in [Request -> User \cup {None}]
  /\ restricted \in [Request -> BOOLEAN] /\ switched \in [Request -> BOOLEAN]
  /\ wasOpen \in [Request -> SUBSET Gates]

(* ensure_direct_message_allowed: a message on its way to the table met    *)
(* every gate open at some moment of its request (not all at the same      *)
(* moment).  The gate for new contacts has an exception: a review that     *)
(* turns a report into a restriction between the read of the sender's row  *)
(* and the count of the reports hides both from the request.               *)
GatesWereOpen ==
  \A r \in Request :
    pc[r] = "insert" => /\ {"card", "block"} \subseteq wasOpen[r]
                        /\ "contact" \in wasOpen[r] \/ switched[r]

(* ensure_direct_message_allowed, with the types of what it reads. *)
GateInv == TypeOK /\ GatesWereOpen
=============================================================================
