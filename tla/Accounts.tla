------------------------------ MODULE Accounts ------------------------------
(***************************************************************************)
(* How accounts come to be (routes/auth.rs, services/user_service.rs):     *)
(* registration, the first login of a device, the setup of the first       *)
(* administrator and the shadow users of federation, with the limits on    *)
(* them: max_users, registrations per address, the one-time setup link.    *)
(*                                                                         *)
(* Name stands for what must be unique of an account (username, e-mail,    *)
(* device key).  No handler uses a transaction: pc tells how far it is.    *)
(* Registrations from other addresses are limited apart from these, so     *)
(* there is one address.  Validation of input, ALTCHA and the acceptance   *)
(* of terms are left out: they refuse, or touch other tables.              *)
(***************************************************************************)
EXTENDS Naturals, FiniteSets

CONSTANTS
  Name, Request, None,
  Caps,     \* values of max_users
  MaxRecent \* REGISTRATION_MAX_PER_HOUR

ASSUME NoneAssumption == None \notin Name /\ None \notin Request
ASSUME RequestAssumption == IsFiniteSet(Request)
ASSUME CapsAssumption == Caps \subseteq Nat \ {0} /\ Caps # {}
ASSUME MaxRecentAssumption == MaxRecent \in Nat \ {0}

VARIABLES
  users, admins, approved, \* the users table
  shadow,    \* users of other planets
  devices,   \* accounts with a device_auth_pubkey
  maker,     \* the request at work that made an account; stands for its id
  granted,   \* accounts a device got tokens for
  cap, approval, \* settings
  link,      \* ADMIN_SETUP_TOKEN is set
  recent,    \* timestamps of the address in REGISTRATION_LIMITER
  pc, kind, name, mustWait, limit, \* of each request
  maxCap,    \* history: the highest max_users there was
  crossed    \* history: two setups overlapped

accounts == <<users, admins, approved, shadow, devices, maker, granted>>
request == <<pc, kind, name, mustWait, limit>>
history == <<maxCap, crossed>>
vars == <<accounts, cap, approval, link, recent, request, history>>

Init ==
  /\ users = {} /\ admins = {} /\ approved = {} /\ shadow = {} /\ devices = {} /\ granted = {}
  /\ maker = [n \in Name |-> None]
  /\ cap \in Caps /\ maxCap = cap
  /\ approval = FALSE /\ link = TRUE /\ recent = 0 /\ crossed = FALSE
  /\ pc = [r \in Request |-> "idle"]
  /\ kind = [r \in Request |-> "none"] /\ name = [r \in Request |-> None]
  /\ mustWait = [r \in Request |-> FALSE] /\ limit = [r \in Request |-> 0]

----------------------------------------------------------------------------
(* The request goes to hash_password, an await.                            *)
Start(r, k, n) ==
  /\ pc[r] = "idle"
  /\ pc' = [pc EXCEPT ![r] = "hash"]
  /\ kind' = [kind EXCEPT ![r] = k]
  /\ name' = [name EXCEPT ![r] = n]
  /\ UNCHANGED <<accounts, cap, approval, link, recent, mustWait, limit, maxCap>>

(* Mutant: the limit is never reached. *)
RateLimited_Never == FALSE

RateLimited == recent >= MaxRecent

register(r, n) == ~RateLimited /\ Start(r, "register", n) /\ UNCHANGED crossed

(* device_login with a key that is not known yet. *)
device_login(r, n) ==
  n \notin devices /\ ~RateLimited /\ Start(r, "device", n) /\ UNCHANGED crossed

Grant(n) == granted' = IF n \in devices \cap approved THEN granted \cup {n} ELSE granted

(* device_login with a known key. *)
DeviceKnown(n) ==
  /\ n \in devices /\ Grant(n)
  /\ UNCHANGED <<users, admins, approved, shadow, devices, maker, cap, approval, link, recent, request, history>>

SetupsBeforeInsert == {r \in Request : kind[r] = "setup" /\ pc[r] \in {"hash", "insert"}}

(* Mutant: the administrators are not counted. *)
setup_admin_NoCount(r, n) ==
  /\ link /\ Start(r, "setup", n)
  /\ crossed' = (crossed \/ SetupsBeforeInsert # {})

setup_admin(r, n) ==
  /\ admins = {} /\ link /\ Start(r, "setup", n)
  /\ crossed' = (crossed \/ SetupsBeforeInsert # {})

(* setup_admin and setup_status forget the link once there is an           *)
(* administrator.                                                          *)
setup_status ==
  /\ admins # {} /\ link
  /\ link' = FALSE
  /\ UNCHANGED <<accounts, cap, approval, recent, request, history>>

----------------------------------------------------------------------------
(* is_approval_required and effective_max_users.  No property relates the  *)
(* two, so one step reads both.                                            *)
ReadSettings(r) ==
  /\ pc[r] = "hash"
  /\ IF kind[r] = "setup"
     THEN pc' = [pc EXCEPT ![r] = "insert"] /\ UNCHANGED <<mustWait, limit>>
     ELSE /\ pc' = [pc EXCEPT ![r] = "count"]
          /\ mustWait' = [mustWait EXCEPT ![r] = approval]
          /\ limit' = [limit EXCEPT ![r] = cap]
  /\ UNCHANGED <<accounts, cap, approval, link, recent, kind, name, history>>

(* Mutant: nobody is counted. *)
CountUsers_Skip(r) ==
  /\ pc[r] = "count"
  /\ pc' = [pc EXCEPT ![r] = "insert"]
  /\ UNCHANGED <<accounts, cap, approval, link, recent, kind, name, mustWait, limit, history>>

(* create_user: SELECT COUNT(star) against the limit.  At the limit it is  *)
(* a conflict, as for a name that is taken.                                *)
CountUsers(r) ==
  /\ pc[r] = "count"
  /\ pc' = [pc EXCEPT ![r] = IF Cardinality(users) < limit[r] THEN "insert" ELSE "conflict"]
  /\ UNCHANGED <<accounts, cap, approval, link, recent, kind, name, mustWait, limit, history>>

(* create_user: INSERT, refused by the unique indexes.                     *)
InsertUser(r) ==
  LET n == name[r] IN
  /\ pc[r] = "insert"
  /\ IF n \in users
     THEN pc' = [pc EXCEPT ![r] = "conflict"] /\ UNCHANGED accounts
     ELSE /\ pc' = [pc EXCEPT ![r] = "made"]
          /\ users' = users \cup {n}
          /\ admins' = IF kind[r] = "setup" THEN admins \cup {n} ELSE admins
          /\ devices' = IF kind[r] = "device" THEN devices \cup {n} ELSE devices
          /\ approved' = IF kind[r] = "setup" \/ ~mustWait[r] THEN approved \cup {n} ELSE approved
          /\ maker' = [maker EXCEPT ![n] = r]
          /\ UNCHANGED <<shadow, granted>>
  /\ UNCHANGED <<cap, approval, link, recent, kind, name, mustWait, limit, history>>

End(r) ==
  /\ pc' = [pc EXCEPT ![r] = "idle"]
  /\ kind' = [kind EXCEPT ![r] = "none"] /\ name' = [name EXCEPT ![r] = None]
  /\ mustWait' = [mustWait EXCEPT ![r] = FALSE] /\ limit' = [limit EXCEPT ![r] = 0]

Release(r) == maker' = [n \in Name |-> IF maker[n] = r THEN None ELSE maker[n]]

(* After the insert: record_registration and, for a device that need not   *)
(* wait for approval, tokens; or clear_setup_token.  The foreign key       *)
(* refuses tokens of an account that was deleted meanwhile.                *)
Finish(r) ==
  /\ pc[r] = "made"
  /\ link' = (link /\ kind[r] # "setup")
  /\ recent' = IF kind[r] = "setup" THEN recent ELSE recent + 1
  /\ granted' = IF kind[r] = "device" /\ ~mustWait[r] /\ maker[name[r]] = r
                THEN granted \cup {name[r]} ELSE granted
  /\ Release(r) /\ End(r)
  /\ UNCHANGED <<users, admins, approved, shadow, devices, cap, approval, history>>

(* Mutant: whoever has the key gets tokens. *)
DeviceConflict_NotApproved(r) ==
  /\ pc[r] = "conflict"
  /\ granted' = IF kind[r] = "device" THEN granted \cup ({name[r]} \cap devices) ELSE granted
  /\ End(r)
  /\ UNCHANGED <<users, admins, approved, shadow, devices, maker, cap, approval, link, recent, history>>

(* A conflict ends a request; a device looks again for an account with its *)
(* key, which another login of the device may have made.                   *)
DeviceConflict(r) ==
  /\ pc[r] = "conflict"
  /\ IF kind[r] = "device" THEN Grant(name[r]) ELSE UNCHANGED granted
  /\ End(r)
  /\ UNCHANGED <<users, admins, approved, shadow, devices, maker, cap, approval, link, recent, history>>

(* An error of the database or a client that hangs up. *)
Abort(r) ==
  /\ pc[r] # "idle"
  /\ Release(r) /\ End(r)
  /\ UNCHANGED <<users, admins, approved, shadow, devices, granted, cap, approval, link, recent, history>>

----------------------------------------------------------------------------
(* A user of another planet: no limit, no approval. *)
ensure_federated_shadow_user(n) ==
  /\ n \notin users
  /\ users' = users \cup {n} /\ shadow' = shadow \cup {n} /\ approved' = approved \cup {n}
  /\ UNCHANGED <<admins, devices, maker, granted, cap, approval, link, recent, request, history>>

approve_user(n) ==
  /\ n \in users
  /\ approved' = approved \cup {n}
  /\ UNCHANGED <<users, admins, shadow, devices, maker, granted, cap, approval, link, recent, request, history>>

(* Mutant: the tokens stay. *)
delete_user_KeepTokens(n) ==
  /\ n \in users
  /\ users' = users \ {n} /\ admins' = admins \ {n}
  /\ approved' = approved \ {n} /\ shadow' = shadow \ {n} /\ devices' = devices \ {n}
  /\ maker' = [maker EXCEPT ![n] = None]
  /\ UNCHANGED <<granted, cap, approval, link, recent, request, history>>

(* delete_user and reject_user; the tokens go by the foreign key. *)
delete_user(n) ==
  /\ n \in users
  /\ users' = users \ {n} /\ admins' = admins \ {n}
  /\ approved' = approved \ {n} /\ shadow' = shadow \ {n} /\ devices' = devices \ {n}
  /\ granted' = granted \ {n} /\ maker' = [maker EXCEPT ![n] = None]
  /\ UNCHANGED <<cap, approval, link, recent, request, history>>

(* The administrator changes a setting. *)
set_max_users(c) ==
  /\ cap' = c /\ maxCap' = IF c > maxCap THEN c ELSE maxCap
  /\ UNCHANGED <<accounts, approval, link, recent, request, crossed>>

set_require_approval(b) ==
  approval' = b /\ UNCHANGED <<accounts, cap, link, recent, request, history>>

(* An hour passes since a registration. *)
Forget ==
  /\ recent > 0 /\ recent' = recent - 1
  /\ UNCHANGED <<accounts, cap, approval, link, request, history>>

(* The process ends and starts again: initialize_first_admin_setup_link.   *)
Restart ==
  /\ link' = (admins = {}) /\ recent' = 0
  /\ pc' = [r \in Request |-> "idle"]
  /\ kind' = [r \in Request |-> "none"] /\ name' = [r \in Request |-> None]
  /\ mustWait' = [r \in Request |-> FALSE] /\ limit' = [r \in Request |-> 0]
  /\ maker' = [n \in Name |-> None]
  /\ UNCHANGED <<users, admins, approved, shadow, devices, granted, cap, approval, history>>

RequestStep(r) ==
  \/ \E n \in Name : register(r, n) \/ device_login(r, n) \/ setup_admin(r, n)
  \/ ReadSettings(r) \/ CountUsers(r) \/ InsertUser(r)
  \/ Finish(r) \/ DeviceConflict(r) \/ Abort(r)

Administration ==
  \/ \E n \in Name : approve_user(n) \/ delete_user(n)
  \/ \E c \in Caps : set_max_users(c)
  \/ \E b \in BOOLEAN : set_require_approval(b)

Next ==
  \/ \E r \in Request : RequestStep(r)
  \/ Administration
  \/ \E n \in Name : ensure_federated_shadow_user(n) \/ DeviceKnown(n)
  \/ setup_status \/ Forget \/ Restart

Spec == Init /\ [][Next]_vars

----------------------------------------------------------------------------
(* Shapes; the tokens of an account go with it (ON DELETE CASCADE).        *)
TypeOK ==
  /\ users \subseteq Name
  /\ admins \subseteq users /\ approved \subseteq users /\ shadow \subseteq users
  /\ devices \subseteq users /\ granted \subseteq users
  /\ maker \in [Name -> Request \cup {None}]
  /\ cap \in Caps /\ maxCap \in Caps /\ approval \in BOOLEAN /\ link \in BOOLEAN
  /\ recent \in Nat /\ crossed \in BOOLEAN
  /\ pc \in [Request -> {"idle", "hash", "count", "insert", "made", "conflict"}]
  /\ kind \in [Request -> {"none", "register", "device", "setup"}]
  /\ name \in [Request -> Name \cup {None}]
  /\ mustWait \in [Request -> BOOLEAN] /\ limit \in [Request -> Caps \cup {0}]

Registered == users \ (admins \cup shadow)

(* create_user counts and inserts in separate statements.  However many    *)
(* registrations pass the count together, local accounts exceed max_users  *)
(* by less than the number of requests served at a time.                   *)
CapOvershoot == Cardinality(Registered) < maxCap + Cardinality(Request)

(* The same of the registration limiter, which is read before the password *)
(* is hashed and written after the account was made.                       *)
RateOvershoot == recent < MaxRecent + Cardinality(Request)

(* One administrator comes from the setup link unless two setups overlap   *)
(* before their inserts: after a restart, and while the link is still to   *)
(* be cleared, the count of administrators keeps it shut.                  *)
OneBootstrap == crossed \/ Cardinality(admins) <= 1

(* A device gets no tokens for an account that waits for approval, also    *)
(* when two first logins of the device overlap and one finds the account   *)
(* of the other.                                                           *)
NoTokensBeforeApproval == granted \subseteq approved
=============================================================================
