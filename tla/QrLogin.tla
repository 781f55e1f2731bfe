------------------------------- MODULE QrLogin -------------------------------
(***************************************************************************)
(* Login by a QR code (routes/auth.rs): a new device creates a session and *)
(* polls it, a device that is logged in approves it, and the next poll     *)
(* hands out the tokens and deletes the session.                           *)
(*                                                                         *)
(* A session is a record in Redis or, whenever a call to Redis fails, in   *)
(* the memory of the process (QR_LOGIN_FALLBACK_STORE); both expire.  A    *)
(* record is "pending" or holds the token family of its approval.  The     *)
(* secret is known to whoever has the code and is left out.                *)
(***************************************************************************)
EXTENDS Naturals, FiniteSets

CONSTANTS
  Session, Family, Request, None,
  MaxFault, \* bound on calls to Redis that fail
  MaxHanded \* bound on how often tokens are handed out

ASSUME NoneAssumption == None \notin Family \cup Session \cup {"pending"} /\ "pending" \notin Family
ASSUME RequestAssumption == IsFiniteSet(Request)
ASSUME BoundsAssumption == MaxFault \in Nat /\ MaxHanded \in Nat

VARIABLES
  redis, memory, \* the record of a session in each store, or None
  created,   \* sessions that were created
  minted,    \* token families that were inserted, with their session
  pc, session, got, \* of each request
  handed,    \* history: how often the tokens of a family were handed out
  approving, \* history: sessions two approvals worked on at a time
  polling,   \* history: sessions two polls found approved at a time
  faults     \* history: calls to Redis that failed

stores == <<redis, memory>>
vars == <<stores, created, minted, pc, session, got, handed, approving, polling, faults>>

Record == Family \cup {"pending"}

Init ==
  /\ redis = [s \in Session |-> None] /\ memory = [s \in Session |-> None]
  /\ created = {} /\ minted = [f \in Family |-> None]
  /\ pc = [r \in Request |-> "idle"]
  /\ session = [r \in Request |-> None] /\ got = [r \in Request |-> None]
  /\ handed = [f \in Family |-> 0]
  /\ approving = {} /\ polling = {} /\ faults = 0

(* A call to Redis succeeds or fails. *)
Redis(ok) ==
  IF ok THEN UNCHANGED faults ELSE faults < MaxFault /\ faults' = faults + 1

(* What load_qr_login_record returns: Redis is asked first, and the memory *)
(* if Redis fails or has nothing.                                          *)
load_qr_login_record(s, ok) == IF ok /\ redis[s] # None THEN redis[s] ELSE memory[s]

(* A write to Redis sets a key of it; a failed one may have done so, too,  *)
(* when only its answer was lost, and then is done to the memory as well.  *)
Write(s, rec, ok) ==
  IF ok THEN redis' = [redis EXCEPT ![s] = rec] /\ UNCHANGED memory
        ELSE /\ redis' \in {redis, [redis EXCEPT ![s] = rec]}
             /\ memory' = [memory EXCEPT ![s] = rec]

save_qr_login_record(s, rec, ok) == Write(s, rec, ok)

(* Mutant: the copy in memory is deleted, never the one in Redis. *)
delete_qr_login_record_MemoryOnly(s, ok) ==
  memory' = [memory EXCEPT ![s] = None] /\ UNCHANGED redis

delete_qr_login_record(s, ok) == Write(s, None, ok)

Expire(s) ==
  /\ \/ redis[s] # None /\ redis' = [redis EXCEPT ![s] = None] /\ UNCHANGED memory
     \/ memory[s] # None /\ memory' = [memory EXCEPT ![s] = None] /\ UNCHANGED redis
  /\ UNCHANGED <<created, minted, pc, session, got, handed, approving, polling, faults>>

create_qr_login_session(s) ==
  /\ s \notin created /\ created' = created \cup {s}
  /\ \E ok \in BOOLEAN : Redis(ok) /\ save_qr_login_record(s, "pending", ok)
  /\ UNCHANGED <<minted, pc, session, got, handed, approving, polling>>

----------------------------------------------------------------------------
Busy(s, where) == {r \in Request : session[r] = s /\ pc[r] \in where}

Begin(r, s, to) ==
  /\ pc[r] = "idle"
  /\ pc' = [pc EXCEPT ![r] = to] /\ session' = [session EXCEPT ![r] = s]
  /\ UNCHANGED <<stores, created, minted, handed>>

End(r) ==
  /\ pc' = [pc EXCEPT ![r] = "idle"]
  /\ session' = [session EXCEPT ![r] = None] /\ got' = [got EXCEPT ![r] = None]

(* approve_qr_login goes on only with a pending session. *)
approve_qr_login(r, s) ==
  /\ \E ok \in BOOLEAN : Redis(ok) /\ load_qr_login_record(s, ok) = "pending"
  /\ Begin(r, s, "mint")
  /\ approving' = IF Busy(s, {"mint", "save"}) # {} THEN approving \cup {s} ELSE approving
  /\ UNCHANGED <<got, polling>>

(* Mutant: the family of another login is used again. *)
Mint_Shared(r, f) ==
  /\ pc[r] = "mint"
  /\ minted' = [minted EXCEPT ![f] = session[r]]
  /\ got' = [got EXCEPT ![r] = f] /\ pc' = [pc EXCEPT ![r] = "save"]
  /\ UNCHANGED <<stores, created, session, handed, approving, polling, faults>>

(* mint_tokens with a family of its own. *)
Mint(r, f) ==
  /\ pc[r] = "mint" /\ minted[f] = None
  /\ minted' = [minted EXCEPT ![f] = session[r]]
  /\ got' = [got EXCEPT ![r] = f] /\ pc' = [pc EXCEPT ![r] = "save"]
  /\ UNCHANGED <<stores, created, session, handed, approving, polling, faults>>

SaveApproval(r) ==
  /\ pc[r] = "save"
  /\ \E ok \in BOOLEAN : Redis(ok) /\ save_qr_login_record(session[r], got[r], ok)
  /\ End(r)
  /\ UNCHANGED <<created, minted, handed, approving, polling>>

(* poll_qr_login_session: an approved session is deleted before the answer.*)
poll_qr_login_session(r, s) ==
  \E ok \in BOOLEAN :
    LET rec == load_qr_login_record(s, ok) IN
    /\ Redis(ok) /\ rec \in Family /\ handed[rec] + Cardinality(Busy(s, {"delete"})) < MaxHanded
    /\ Begin(r, s, "delete") /\ got' = [got EXCEPT ![r] = rec]
    /\ polling' = IF Busy(s, {"delete"}) # {} THEN polling \cup {s} ELSE polling
    /\ UNCHANGED approving

(* Mutant: the session is written back instead. *)
HandOut_SaveBack(r) ==
  /\ pc[r] = "delete"
  /\ \E ok \in BOOLEAN : Redis(ok) /\ save_qr_login_record(session[r], got[r], ok)
  /\ handed' = [handed EXCEPT ![got[r]] = @ + 1]
  /\ End(r)
  /\ UNCHANGED <<created, minted, approving, polling>>

HandOut(r) ==
  /\ pc[r] = "delete"
  /\ \E ok \in BOOLEAN : Redis(ok) /\ delete_qr_login_record(session[r], ok)
  /\ handed' = [handed EXCEPT ![got[r]] = @ + 1]
  /\ End(r)
  /\ UNCHANGED <<created, minted, approving, polling>>

(* The database fails or the request is dropped. *)
Abort(r) ==
  /\ pc[r] # "idle" /\ End(r)
  /\ UNCHANGED <<stores, created, minted, handed, approving, polling, faults>>

(* The process ends: its memory is lost, and every request. *)
Crash ==
  /\ memory' = [s \in Session |-> None]
  /\ pc' = [r \in Request |-> "idle"]
  /\ session' = [r \in Request |-> None] /\ got' = [r \in Request |-> None]
  /\ UNCHANGED <<redis, created, minted, handed, approving, polling, faults>>

Next ==
  \/ \E s \in Session : create_qr_login_session(s) \/ Expire(s)
  \/ \E r \in Request, s \in Session : approve_qr_login(r, s) \/ poll_qr_login_session(r, s)
  \/ \E r \in Request : SaveApproval(r) \/ HandOut(r) \/ Abort(r) \/ \E f \in Family : Mint(r, f)
  \/ Crash

Spec == Init /\ [][Next]_vars

----------------------------------------------------------------------------
(* Shapes; a record names a family that was minted for its session. *)
TypeOK ==
  /\ redis \in [Session -> Record \cup {None}] /\ memory \in [Session -> Record \cup {None}]
  /\ created \subseteq Session /\ minted \in [Family -> Session \cup {None}]
  /\ pc \in [Request -> {"idle", "mint", "save", "delete"}]
  /\ session \in [Request -> Session \cup {None}] /\ got \in [Request -> Family \cup {None}]
  /\ handed \in [Family -> 0..MaxHanded]
  /\ approving \subseteq Session /\ polling \subseteq Session /\ faults \in 0..MaxFault
  /\ \A s \in Session, f \in Family : f \in {redis[s], memory[s]} => minted[f] = s

(* The tokens of a session are handed out once, and those of one approval  *)
(* only, while Redis answers and neither approvals nor polls of the        *)
(* session overlap.                                                        *)
HandedOutOnce ==
  faults = 0 =>
    \A s \in Session \ (approving \cup polling) :
      /\ \A f \in Family : minted[f] = s => handed[f] <= 1
      /\ Cardinality({f \in Family : minted[f] = s /\ handed[f] > 0}) <= 1

(* A session that was consumed or expired in both stores stays so, unless  *)
(* an approval that found it pending is still at work.                     *)
ConsumedStep ==
  \A s \in created :
    (redis[s] = None /\ memory[s] = None /\ Busy(s, {"mint", "save"}) = {})
      => redis'[s] = None /\ memory'[s] = None
ConsumedStaysConsumed == [][ConsumedStep]_vars

(* A session as a one-time credential (OneTimeUse): it is spent when it is *)
(* in no store and no request works with it.  Excused are sessions that    *)
(* two approvals or two polls worked on, and all once Redis has failed.    *)
SessionLife(s) ==
  LET out == {f \in Family : minted[f] = s /\ handed[f] > 0}
  IN  [stage   |-> IF s \notin created THEN "new"
                   ELSE IF redis[s] = None /\ memory[s] = None /\ Busy(s, {"mint", "save", "delete"}) = {}
                   THEN "spent" ELSE "live",
       uses    |-> IF out = {} THEN 0
                   ELSE IF \E f \in out : out = {f} /\ handed[f] = 1 THEN 1 ELSE 2,
       excused |-> s \in approving \cup polling \/ faults > 0]

(* poll_qr_login_session, with the types of both stores. *)
QrInv == TypeOK /\ HandedOutOnce
=============================================================================
