---------------------------- MODULE AdminAccess ----------------------------
(***************************************************************************)
(* Requests to the administration API: the credential and the account are  *)
(* checked (auth/middleware.rs), then the handler (routes/admin.rs) acts   *)
(* and notes the act in the audit log.  A credential is an access token,   *)
(* which no table knows, or an agent token (agent_token_service.rs), whose *)
(* row has an owner, an expiry and a revocation.                           *)
(*                                                                         *)
(* Every statement commits by itself, so that other requests run between   *)
(* any two of them.                                                        *)
(***************************************************************************)
EXTENDS Naturals

CONSTANTS
  Admin, Token, Request, None,
  Lifetime,     \* choices of expires_in_days; None: never
  MaxTime       \* bound on the clock

VARIABLES
  now,
  state,        \* of each administrator: active, suspended or gone
  owner,        \* created_by of each agent token; None before, "deleted" after
  until, revoked,   \* expires_at and revoked_at of the agent tokens
  bearers,      \* administrators with an access token that has not expired
  pc, actor, cred,  \* of each request: its step, Claims.sub and agent token
  held          \* history: what each request's credential was good for, at some moment of it

tables == <<state, owner, until, revoked>>
vars == <<now, tables, bearers, pc, actor, cred, held>>

Exists(t) == owner[t] \in Admin
Expired(t) == until[t] # None /\ until[t] <= now
Live(t) == Exists(t) /\ t \notin revoked /\ ~Expired(t)

HoldsNow(r) ==
  (IF actor[r] # None /\ state[actor[r]] = "active" THEN {"account"} ELSE {}) \cup
  (IF cred[r] = None \/ Live(cred[r]) THEN {"credential"} ELSE {})

(* What has been so at some moment of a request that is still running. *)
Observe == held' = [r \in Request |-> IF pc'[r] = "idle" THEN {} ELSE held[r] \cup HoldsNow(r)']

Init ==
  /\ now = 0 /\ state = [u \in Admin |-> "active"]
  /\ owner = [t \in Token |-> None] /\ until = [t \in Token |-> None] /\ revoked = {}
  /\ bearers = {}
  /\ pc = [r \in Request |-> "idle"] /\ actor = [r \in Request |-> None]
  /\ cred = [r \in Request |-> None] /\ held = [r \in Request |-> {}]

----------------------------------------------------------------------------
Goto(r, to) == pc' = [pc EXCEPT ![r] = to]

Finish(r) ==
  /\ Goto(r, "idle")
  /\ actor' = [actor EXCEPT ![r] = None] /\ cred' = [cred EXCEPT ![r] = None]

(* verify_access_token asks no table. *)
extract_claims(r, u) ==
  /\ pc[r] = "idle" /\ u \in bearers
  /\ Goto(r, "account") /\ actor' = [actor EXCEPT ![r] = u]
  /\ UNCHANGED <<now, tables, bearers, cred>> /\ Observe

(* Mutant: the revocation is not looked at. *)
verify_Revoked(r, t) ==
  /\ pc[r] = "idle" /\ Exists(t) /\ ~Expired(t)
  /\ Goto(r, "account")
  /\ actor' = [actor EXCEPT ![r] = owner[t]] /\ cred' = [cred EXCEPT ![r] = t]
  /\ UNCHANGED <<now, tables, bearers>> /\ Observe

(* An agent token that is refused leaves no trace. *)
verify(r, t) ==
  /\ pc[r] = "idle" /\ Live(t)
  /\ Goto(r, "account")
  /\ actor' = [actor EXCEPT ![r] = owner[t]] /\ cred' = [cred EXCEPT ![r] = t]
  /\ UNCHANGED <<now, tables, bearers>> /\ Observe

(* find_by_id, of the user of the claims or the creator of the token. *)
CheckAccount(r) ==
  /\ pc[r] = "account"
  /\ \/ /\ state[actor[r]] = "active"
        /\ Goto(r, "act") /\ UNCHANGED <<actor, cred>>
     \/ state[actor[r]] # "active" /\ Finish(r)
  /\ UNCHANGED <<now, tables, bearers>> /\ Observe

(* Mutant: the row needs no user. *)
create_NoForeignKey(r, t, days) ==
  /\ pc[r] = "act" /\ owner[t] = None
  /\ owner' = [owner EXCEPT ![t] = actor[r]]
  /\ until' = [until EXCEPT ![t] = IF days = None THEN None ELSE now + days]
  /\ Goto(r, "audit")
  /\ UNCHANGED <<now, state, revoked, bearers, actor, cred>> /\ Observe

(* created_by refers to a user: without one the INSERT fails. *)
create(r, t, days) ==
  /\ pc[r] = "act" /\ owner[t] = None /\ state[actor[r]] # "gone"
  /\ owner' = [owner EXCEPT ![t] = actor[r]]
  /\ until' = [until EXCEPT ![t] = IF days = None THEN None ELSE now + days]
  /\ Goto(r, "audit")
  /\ UNCHANGED <<now, state, revoked, bearers, actor, cred>> /\ Observe

revoke(r, t) ==
  /\ pc[r] = "act"
  /\ revoked' = IF Exists(t) THEN revoked \cup {t} ELSE revoked
  /\ Goto(r, "audit")
  /\ UNCHANGED <<now, state, owner, until, bearers, actor, cred>> /\ Observe

(* suspend_user, activate_user and approve_user: rows that exist only. *)
set_user_active(r, u, to) ==
  /\ pc[r] = "act" /\ state[u] # "gone" /\ to # "gone"
  /\ state' = [state EXCEPT ![u] = to]
  /\ Goto(r, "audit")
  /\ UNCHANGED <<now, owner, until, revoked, bearers, actor, cred>> /\ Observe

(* The agent tokens of the user go with it. *)
reject_user(r, u) ==
  /\ pc[r] = "act" /\ state[u] # "gone"
  /\ state' = [state EXCEPT ![u] = "gone"]
  /\ owner' = [t \in Token |-> IF owner[t] = u THEN "deleted" ELSE owner[t]]
  /\ Goto(r, "audit")
  /\ UNCHANGED <<now, until, revoked, bearers, actor, cred>> /\ Observe

(* actor_user_id refers to a user, too: the entry of an administrator who  *)
(* is gone by now fails, with the act done.                                *)
append_audit_log(r) ==
  /\ pc[r] = "audit" /\ Finish(r)
  /\ UNCHANGED <<now, tables, bearers>> /\ Observe

(* NotFound, a failing statement, a crash. *)
Fail(r) ==
  /\ pc[r] \in {"account", "act"} /\ Finish(r)
  /\ UNCHANGED <<now, tables, bearers>> /\ Observe

Login(u) ==
  /\ u \notin bearers /\ state[u] = "active" /\ bearers' = bearers \cup {u}
  /\ UNCHANGED <<now, tables, pc, actor, cred>> /\ Observe

AccessTokenExpires(u) ==
  /\ u \in bearers /\ bearers' = bearers \ {u}
  /\ UNCHANGED <<now, tables, pc, actor, cred>> /\ Observe

Tick ==
  /\ now < MaxTime /\ now' = now + 1
  /\ UNCHANGED <<tables, bearers, pc, actor, cred>> /\ Observe

Handler(r) ==
  \/ \E t \in Token : revoke(r, t) \/ \E days \in Lifetime : create(r, t, days)
  \/ \E u \in Admin : reject_user(r, u) \/ \E to \in {"active", "suspended"} : set_user_active(r, u, to)

Next ==
  \/ \E r \in Request :
       \/ \E u \in Admin : extract_claims(r, u)
       \/ \E t \in Token : verify(r, t)
       \/ CheckAccount(r) \/ Handler(r) \/ append_audit_log(r) \/ Fail(r)
  \/ \E u \in Admin : Login(u) \/ AccessTokenExpires(u)
  \/ Tick

Spec == Init /\ [][Next]_vars

----------------------------------------------------------------------------
TypeOK ==
  /\ now \in 0..MaxTime
  /\ state \in [Admin -> {"active", "suspended", "gone"}]
  /\ owner \in [Token -> Admin \cup {None, "deleted"}] /\ until \in [Token -> Nat \cup {None}]
  /\ revoked \subseteq Token /\ bearers \subseteq Admin
  /\ pc \in [Request -> {"idle", "account", "act", "audit"}]
  /\ actor \in [Request -> Admin \cup {None}] /\ cred \in [Request -> Token \cup {None}]

(* extract_admin_auth, "A token loses power the moment its creator does":  *)
(* a request that acts had a credential that was good, and an account that *)
(* was active, each at some moment of the request; a suspension, deletion, *)
(* revocation or expiry before it began stops it.                          *)
PowerWasHeld ==
  \A r \in Request : pc[r] = "act" => held[r] = {"account", "credential"}

(* An agent token does not outlive its creator, not even one created by a  *)
(* request that was running when the account was deleted.                  *)
TokensHaveOwners ==
  \A t \in Token : Exists(t) => state[owner[t]] # "gone"

(* Credentials and accounts of the administration API. *)
AccessInv == TypeOK /\ PowerWasHeld /\ TokensHaveOwners
=============================================================================
