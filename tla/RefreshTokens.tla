--------------------------- MODULE RefreshTokens ---------------------------
(***************************************************************************)
(* Refresh-token families: login, rotation, replay detection and logout    *)
(* (routes/auth.rs), against the account operations that change the user   *)
(* row under a request (services/admin_service.rs, user_service.rs).       *)
(*                                                                         *)
(* Every SQL statement of a handler is its own step: the handlers use no   *)
(* transaction, so statements of requests on different worker threads      *)
(* interleave, and a handler can be cut off after any of them.  A request  *)
(* that is answered without changing the database (unknown or expired      *)
(* token, wrong password) is a stuttering step and has no action.          *)
(***************************************************************************)
EXTENDS Naturals, FiniteSets

CONSTANTS User, Token, Family, Request, None

ASSUME NoneAssumption == None \notin User \cup Token \cup Family

\* A server works on finitely many requests at a time.
ASSUME RequestAssumption == IsFiniteSet(Request)

VARIABLES
  users,      \* rows of the users table
  active,     \* users.is_active
  approved,   \* users.is_approved
  rows,       \* rows of refresh_tokens
  owner,      \* refresh_tokens.user_id; kept when the row is deleted
  fam,        \* refresh_tokens.family; None: the token was never minted
  revoked,    \* refresh_tokens.revoked
  expired,    \* tokens whose expires_at is in the past
  pc,         \* where each request handler stands
  tk,         \* the refresh token a request presented
  who,        \* the user a login request looked up
  raced,      \* history: families that two refreshes worked on at once
  ended,      \* history: families revoked by logout or replay detection
  sharers,    \* history: how many requests at most had looked a token up and not yet revoked it
  heirs       \* history: how many tokens were minted in exchange for a token

tokenVars == <<rows, owner, fam, revoked, expired>>
userVars  == <<users, active, approved>>
reqVars   == <<pc, tk, who>>
history   == <<raced, ended, sharers, heirs>>
vars      == <<tokenVars, userVars, reqVars, history>>

PC == {"idle", "mint", "consume", "loaduser", "rotate", "replay", "logout"}

Minted == {t \in Token : fam[t] # None}
LiveIn(f) == {t \in rows \ revoked : fam[t] = f}

(* Requests between the lookup of a valid token of f and their last step. *)
Refreshing(f) ==
  {r \in Request : pc[r] \in {"consume", "loaduser", "rotate"} /\ fam[tk[r]] = f}

(* Those among them that have looked up t and have yet to revoke it. *)
Holding(t) == {r \in Request : pc[r] = "consume" /\ tk[r] = t}

Init ==
  /\ users = User
  /\ active = User
  /\ approved \in SUBSET User
  /\ rows = {} /\ revoked = {} /\ expired = {}
  /\ owner = [t \in Token |-> None]
  /\ fam = [t \in Token |-> None]
  /\ pc = [r \in Request |-> "idle"]
  /\ tk = [r \in Request |-> None]
  /\ who = [r \in Request |-> None]
  /\ raced = {} /\ ended = {}
  /\ sharers = [t \in Token |-> 0] /\ heirs = [t \in Token |-> 0]

----------------------------------------------------------------------------
Goto(r, to) == pc' = [pc EXCEPT ![r] = to]
Finish(r) ==
  /\ pc' = [pc EXCEPT ![r] = "idle"]
  /\ tk' = [tk EXCEPT ![r] = None]
  /\ who' = [who EXCEPT ![r] = None]

(* Mutant: refresh_tokens.user_id without its foreign key. *)
mint_tokens_NoForeignKey(t, u, f) ==
  /\ t \notin Minted
  /\ rows' = rows \cup {t}
  /\ owner' = [owner EXCEPT ![t] = u]
  /\ fam' = [fam EXCEPT ![t] = f]
  /\ UNCHANGED <<revoked, expired>>

(* The INSERT of mint_tokens.  Its foreign key refuses a deleted user. *)
mint_tokens(t, u, f) ==
  /\ t \notin Minted
  /\ u \in users
  /\ rows' = rows \cup {t}
  /\ owner' = [owner EXCEPT ![t] = u]
  /\ fam' = [fam EXCEPT ![t] = f]
  /\ UNCHANGED <<revoked, expired>>

(* find_by_email only returns active users; is_approved is checked on the  *)
(* row read here, after the password has been verified.                    *)
login(r, u) ==
  /\ pc[r] = "idle"
  /\ u \in users \cap active \cap approved
  /\ Goto(r, "mint")
  /\ who' = [who EXCEPT ![r] = u]
  /\ UNCHANGED <<tk, tokenVars, userVars, history>>

(* Every login starts a family of its own. *)
LoginMint(r) ==
  /\ pc[r] = "mint"
  /\ \E t \in Token, f \in Family :
       /\ \A x \in Token : fam[x] # f
       /\ mint_tokens(t, who[r], f)
  /\ Finish(r)
  /\ UNCHANGED <<userVars, history>>

(* Histories of a lookup of t by one more request. *)
NoteLookup(t) ==
  /\ raced' = IF Refreshing(fam[t]) = {} THEN raced ELSE raced \cup {fam[t]}
  /\ sharers' = [sharers EXCEPT ![t] =
       IF @ > Cardinality(Holding(t)) THEN @ ELSE Cardinality(Holding(t)) + 1]

(* Mutant: refresh without the test of stored.revoked. *)
RefreshLookup_IgnoreRevoked(r, t) ==
  /\ pc[r] = "idle"
  /\ t \in rows /\ t \notin expired
  /\ Goto(r, "consume")
  /\ tk' = [tk EXCEPT ![r] = t]
  /\ NoteLookup(t)
  /\ UNCHANGED <<who, tokenVars, userVars, ended, heirs>>

(* Mutant: as a grace for retries, a token is accepted as long as the      *)
(* refresh that revoked it is at work.                                     *)
RefreshLookup_Leeway(r, t) ==
  /\ pc[r] = "idle"
  /\ t \in rows /\ t \notin expired
  /\ t \in revoked => \E q \in Request : tk[q] = t /\ pc[q] \in {"loaduser", "rotate"}
  /\ Goto(r, "consume")
  /\ tk' = [tk EXCEPT ![r] = t]
  /\ NoteLookup(t)
  /\ UNCHANGED <<who, tokenVars, userVars, ended, heirs>>

(* refresh, first statement, when it finds a usable row. *)
RefreshLookup(r, t) ==
  /\ pc[r] = "idle"
  /\ t \in rows /\ t \notin revoked /\ t \notin expired
  /\ Goto(r, "consume")
  /\ tk' = [tk EXCEPT ![r] = t]
  /\ NoteLookup(t)
  /\ UNCHANGED <<who, tokenVars, userVars, ended, heirs>>

(* refresh, first statement, when the row is already revoked. *)
RefreshReplay(r, t) ==
  /\ pc[r] = "idle"
  /\ t \in rows /\ t \in revoked
  /\ Goto(r, "replay")
  /\ tk' = [tk EXCEPT ![r] = t]
  /\ UNCHANGED <<who, tokenVars, userVars, history>>

logout(r, t) ==
  /\ pc[r] = "idle"
  /\ t \in rows
  /\ Goto(r, "logout")
  /\ tk' = [tk EXCEPT ![r] = t]
  /\ UNCHANGED <<who, tokenVars, userVars, history>>

(* The UPDATE over the family, by logout and by replay detection. *)
RevokeFamily(r) ==
  /\ pc[r] \in {"replay", "logout"}
  /\ revoked' = revoked \cup {t \in rows : fam[t] = fam[tk[r]]}
  /\ ended' = ended \cup {fam[tk[r]]}
  /\ Finish(r)
  /\ UNCHANGED <<rows, owner, fam, expired, userVars, raced, sharers, heirs>>

(* Mutant: the consumed token is not revoked. *)
Consume_KeepToken(r) ==
  /\ pc[r] = "consume"
  /\ Goto(r, "loaduser")
  /\ UNCHANGED <<tk, who, tokenVars, userVars, history>>

(* Revoke the presented token by primary key, whatever its state is now. *)
Consume(r) ==
  /\ pc[r] = "consume"
  /\ revoked' = revoked \cup ({tk[r]} \cap rows)
  /\ Goto(r, "loaduser")
  /\ UNCHANGED <<tk, who, rows, owner, fam, expired, userVars, history>>

(* find_by_id does not look at is_active. *)
LoadUser(r) ==
  /\ pc[r] = "loaduser"
  /\ owner[tk[r]] \in users
  /\ Goto(r, "rotate")
  /\ UNCHANGED <<tk, who, tokenVars, userVars, history>>

Rotate(r) ==
  /\ pc[r] = "rotate"
  /\ \E t \in Token : mint_tokens(t, owner[tk[r]], fam[tk[r]])
  /\ heirs' = [heirs EXCEPT ![tk[r]] = @ + 1]
  /\ Finish(r)
  /\ UNCHANGED <<userVars, raced, ended, sharers>>

(* An error return (user gone, database error) or the end of the process.  *)
Abort(r) ==
  /\ pc[r] # "idle"
  /\ Finish(r)
  /\ UNCHANGED <<tokenVars, userVars, history>>

----------------------------------------------------------------------------
Expire(t) ==
  /\ t \in rows \ expired
  /\ expired' = expired \cup {t}
  /\ UNCHANGED <<rows, owner, fam, revoked, userVars, reqVars, history>>

approve_user(u) ==
  /\ u \in users
  /\ approved' = approved \cup {u}
  /\ active' = active \cup {u}
  /\ UNCHANGED <<users, tokenVars, reqVars, history>>

set_user_active(u, on) ==
  /\ u \in users
  /\ active' = IF on THEN active \cup {u} ELSE active \ {u}
  /\ UNCHANGED <<users, approved, tokenVars, reqVars, history>>

(* reject_user and delete_user; the foreign key deletes the tokens too. *)
delete_user(u) ==
  /\ u \in users
  /\ users' = users \ {u}
  /\ active' = active \ {u}
  /\ approved' = approved \ {u}
  /\ rows' = {t \in rows : owner[t] # u}
  /\ UNCHANGED <<owner, fam, revoked, expired, reqVars, history>>

RequestStep(r) ==
  \/ LoginMint(r) \/ RevokeFamily(r)
  \/ Consume(r) \/ LoadUser(r) \/ Rotate(r) \/ Abort(r)

Next ==
  \/ \E r \in Request, u \in User : login(r, u)
  \/ \E r \in Request, t \in Token :
       RefreshLookup(r, t) \/ RefreshReplay(r, t) \/ logout(r, t)
  \/ \E r \in Request : RequestStep(r)
  \/ \E t \in Token : Expire(t)
  \/ \E u \in User : approve_user(u) \/ delete_user(u)
  \/ \E u \in User, on \in BOOLEAN : set_user_active(u, on)

Spec == Init /\ [][Next]_vars

----------------------------------------------------------------------------
(* The shape of the tables and of the request records. *)
TypeOK ==
  /\ users \subseteq User /\ active \subseteq User /\ approved \subseteq User
  /\ rows \subseteq Token /\ revoked \subseteq Token /\ expired \subseteq Token
  /\ owner \in [Token -> User \cup {None}]
  /\ fam \in [Token -> Family \cup {None}]
  /\ pc \in [Request -> PC]
  /\ tk \in [Request -> Token \cup {None}]
  /\ who \in [Request -> User \cup {None}]
  /\ raced \subseteq Family /\ ended \subseteq Family
  /\ sharers \in [Token -> Nat] /\ heirs \in [Token -> Nat]

(* "same family - rotated, not forked" (refresh): as long as no two        *)
(* refreshes of a family overlapped, the family is one chain.  It has at   *)
(* most one usable token, and none while a refresh that has consumed its   *)
(* token has yet to mint the successor.                                    *)
RotatedNotForked ==
  \A f \in Family \ raced :
    /\ \A s, t \in LiveIn(f) : s = t
    /\ \A r \in Refreshing(f) : pc[r] # "consume" => LiveIn(f) = {}

(* What a request remembers is a minted token, or the user it looked up. *)
RequestsHoldMintedTokens ==
  \A r \in Request :
    /\ pc[r] \notin {"idle", "mint"} =>
         tk[r] \in Token /\ fam[tk[r]] \in Family /\ owner[tk[r]] \in User
    /\ pc[r] = "mint" => who[r] \in User

(* Every row was written by mint_tokens, for some user and family. *)
RowsAreMinted == \A t \in rows : fam[t] \in Family /\ owner[t] \in User

(* The inductive strengthening of RotatedNotForked: besides, at most one   *)
(* refresh is in flight, and before it consumes its token that token is    *)
(* the only one of the family that can be usable.                          *)
OneRefreshAtATime ==
  \A f \in Family \ raced : \A r \in Refreshing(f) :
    /\ \A q \in Refreshing(f) : q = r
    /\ LiveIn(f) \subseteq {tk[r]}

FamilyInv ==
  /\ TypeOK
  /\ RequestsHoldMintedTokens
  /\ RowsAreMinted
  /\ OneRefreshAtATime
  /\ RotatedNotForked

(* How far a family forks when refreshes do overlap: nothing but the       *)
(* request's own lookup keeps refresh from exchanging a token twice, so a  *)
(* token is exchanged once for each of the requests that had all looked it *)
(* up before the first of them revoked it, and never again after that.     *)
ForksAreShared == \A t \in Token : heirs[t] <= sharers[t]

(* Its inductive strengthening: the requests that still work with a token  *)
(* are counted with its heirs, and a usable token has none but requests    *)
(* that have yet to revoke it.                                             *)
Exchanging(t) == {r \in Request : pc[r] \in {"consume", "loaduser", "rotate"} /\ tk[r] = t}

ForkInv ==
  \A t \in Token :
    /\ heirs[t] + Cardinality(Exchanging(t)) <= sharers[t]
    /\ t \in rows \ revoked => heirs[t] = 0 /\ Exchanging(t) = Holding(t)
    /\ fam[t] = None => heirs[t] = 0

(* ON DELETE CASCADE with the foreign key of mint_tokens' INSERT: no       *)
(* refresh token outlives its user, even when the account is deleted       *)
(* between the user lookup of a request and its INSERT.                    *)
NoTokenOutlivesUser == \A t \in rows : owner[t] \in users

(* A family is over once it has no usable token and no refresh in flight;  *)
(* presenting its old tokens again, in any order, never revives it.        *)
Over(f) ==
  /\ \E t \in Token : fam[t] = f
  /\ LiveIn(f) = {}
  /\ Refreshing(f) = {}

OverFamilyStaysOver == [][\A f \in Family : Over(f) => Over(f)']_vars

(* api/openapi.yaml, logout: "Revokes all refresh tokens in the same       *)
(* family"; the replay rule of refresh says the same of a replayed token.  *)
EndedFamilyHasNoLiveToken == \A f \in ended : LiveIn(f) = {}
=============================================================================
