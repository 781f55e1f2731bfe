-------------------------- MODULE MCConversations --------------------------
(***************************************************************************)
(* TLC instance of what carries conversations: rooms and their members     *)
(* (Rooms), the read positions of a room (RoomReads), the receipts of      *)
(* direct messages (ReadReceipts) and the gates a direct message passes    *)
(* (DirectMessages).  The parts share no state that is modelled, so a      *)
(* behaviour of all is one of each side by side; TLC looks at the          *)
(* behaviours of one, chosen at the start as `part', while the others do   *)
(* not begin.                                                              *)
(***************************************************************************)
EXTENDS Rooms, TLC

CONSTANTS
  Member, Post, Mark, Nobody, ReadTime, \* of RoomReads
  Letter, Reader, LetterTime,           \* of ReadReceipts
  Person, Suspect, Note, Sender, Threshold, MaxOpen   \* of DirectMessages

ASSUME ClockAssumption == ReadTime \in Nat /\ LetterTime \in Nat
ASSUME PostAssumption == Nobody \notin Member /\ Post \cap Mark = {}
ASSUME GateAssumption == MaxOpen \in Nat

VARIABLES
  part,
  clock, cursor, sender, created, visible, at, by, stamp, shown, crossed, twice,
  hour, sentAt, delivered, read, blocked, step, mark, among, between, mixed,
  blocks, open, limited, carded, msgs, removed, stage, from, to, restricted, wasOpen, switched

readVars == <<clock, cursor, sender, created, visible, at, by, stamp, shown, crossed, twice>>
receiptVars == <<hour, sentAt, delivered, read, blocked, step, mark, among, between, mixed>>
directVars == <<blocks, open, limited, carded, msgs, removed, stage, from, to, restricted,
                wasOpen, switched>>

Reads == INSTANCE RoomReads WITH MaxTime <- ReadTime
Receipts == INSTANCE ReadReceipts WITH
  Message <- Letter, Request <- Reader, MaxTime <- LetterTime,
  clock <- hour, created <- sentAt, stamp <- mark
Direct == INSTANCE DirectMessages WITH
  User <- Person, Message <- Note, Request <- Sender, pc <- stage

\* A part that does not begin has nothing in its variables.
NoReads ==
  /\ clock = None /\ cursor = None /\ sender = None /\ created = None /\ visible = None
  /\ at = None /\ by = None /\ stamp = None /\ shown = None /\ crossed = None
  /\ twice = None

NoReceipts ==
  /\ hour = None /\ sentAt = None /\ delivered = None /\ read = None /\ blocked = None
  /\ step = None /\ mark = None /\ among = None /\ between = None /\ mixed = None

NoDirect ==
  /\ blocks = None /\ open = None /\ limited = None /\ carded = None /\ msgs = None
  /\ removed = None /\ stage = None /\ from = None /\ to = None /\ restricted = None
  /\ wasOpen = None /\ switched = None

MCInit ==
  /\ part \in {"rooms", "reads", "receipts", "direct"}
  /\ Init
  /\ IF part = "reads" THEN Reads!Init ELSE NoReads
  /\ IF part = "receipts" THEN Receipts!Init ELSE NoReceipts
  /\ IF part = "direct" THEN Direct!Init ELSE NoDirect

MCNext ==
  /\ UNCHANGED part
  /\ \/ /\ part = "rooms" /\ Next
        /\ UNCHANGED <<readVars, receiptVars, directVars>>
     \/ /\ part = "reads" /\ Reads!Next
        /\ UNCHANGED <<vars, receiptVars, directVars>>
     \/ /\ part = "receipts" /\ Receipts!Next
        /\ UNCHANGED <<vars, readVars, directVars>>
     \/ /\ part = "direct" /\ Direct!Next
        /\ UNCHANGED <<vars, readVars, receiptVars>>

MCSpec == MCInit /\ [][MCNext]_<<part, vars, readVars, receiptVars, directVars>>

\* The two-element sets of the parts share their model values, so that two
\* permutations serve them all.
Symmetry == Permutations(Request) \cup Permutations(Post)

(* Of RoomReads: a message that was not shown is counted as unread, unless *)
(* it was in flight,                                                       *)
CursorInv == part = "reads" => Reads!CursorInv

(* and a read position moves back only where operations of its member      *)
(* overlap.                                                                *)
CursorMovesOn == [][part = "reads" => Reads!CursorStep]_readVars

(* Of ReadReceipts: what mark_read marks as read is delivered, and dated   *)
(* in order, but for the named overlaps.                                   *)
ReceiptInv == part = "receipts" => Receipts!ReceiptInv

(* Of DirectMessages: a message that is stored passed gates that were open *)
(* at some moment of its request.                                          *)
GateInv == part = "direct" => Direct!GateInv
=============================================================================
