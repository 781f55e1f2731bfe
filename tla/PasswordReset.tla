---------------------------- MODULE PasswordReset ----------------------------
(***************************************************************************)
(* Reset of a password by a token sent by e-mail (routes/auth.rs):         *)
(* forgot_password and reset_password.  The token is a key in Redis with a *)
(* time to live; looking it up, setting the password and deleting the key  *)
(* are separate, with the hashing of the password in between.              *)
(***************************************************************************)
EXTENDS Naturals

CONSTANTS
  User, Token, Request, None,
  MaxBroken \* bound on the resets of a token that end half done

VARIABLES
  users,    \* accounts that are active
  key,      \* the Redis key of a token holds a user, or nothing
  issued,   \* tokens that were generated
  password, \* the request that set the password last
  pc, token, subject, \* of each request
  uses,     \* history: how often a token set a password
  crossed,  \* history: tokens two requests worked with at a time
  broken    \* history: how often the request of a token ended before deleting the key

vars == <<users, key, issued, password, pc, token, subject, uses, crossed, broken>>

With(t) == {r \in Request : token[r] = t}

Init ==
  /\ users = User /\ key = [t \in Token |-> None] /\ issued = {}
  /\ password = [u \in User |-> None]
  /\ pc = [r \in Request |-> "idle"]
  /\ token = [r \in Request |-> None] /\ subject = [r \in Request |-> None]
  /\ uses = [t \in Token |-> 0] /\ crossed = {}
  /\ broken = [t \in Token |-> 0]

(* Mutant: the token may be one of before. *)
forgot_password_Reuse(u, t) ==
  /\ u \in users
  /\ issued' = issued \cup {t} /\ key' = [key EXCEPT ![t] = u]
  /\ UNCHANGED <<users, password, pc, token, subject, uses, crossed, broken>>

(* The e-mail is sent after the key was set; if that fails the token stays *)
(* valid but nobody knows it.                                              *)
forgot_password(u, t) ==
  /\ u \in users /\ t \notin issued
  /\ issued' = issued \cup {t} /\ key' = [key EXCEPT ![t] = u]
  /\ UNCHANGED <<users, password, pc, token, subject, uses, crossed, broken>>

(* The key expires after 15 minutes. *)
Expire(t) ==
  /\ key[t] # None /\ key' = [key EXCEPT ![t] = None]
  /\ UNCHANGED <<users, issued, password, pc, token, subject, uses, crossed, broken>>

(* reset_password looks the token up. *)
reset_password(r, t) ==
  /\ pc[r] = "idle" /\ key[t] # None
  /\ pc' = [pc EXCEPT ![r] = "hash"]
  /\ token' = [token EXCEPT ![r] = t]
  /\ subject' = [subject EXCEPT ![r] = key[t]]
  /\ crossed' = IF With(t) # {} THEN crossed \cup {t} ELSE crossed
  /\ UNCHANGED <<users, key, issued, password, uses, broken>>

(* Mutant: the password is written whether or not there is an account. *)
UpdatePassword_Upsert(r) ==
  /\ pc[r] = "hash"
  /\ pc' = [pc EXCEPT ![r] = "delete"]
  /\ password' = [password EXCEPT ![subject[r]] = r]
  /\ uses' = [uses EXCEPT ![token[r]] = @ + 1]
  /\ UNCHANGED <<users, key, issued, token, subject, crossed, broken>>

(* UPDATE users; a user who is gone is not noticed. *)
UpdatePassword(r) ==
  /\ pc[r] = "hash"
  /\ pc' = [pc EXCEPT ![r] = "delete"]
  /\ IF subject[r] \in users
     THEN /\ password' = [password EXCEPT ![subject[r]] = r]
          /\ uses' = [uses EXCEPT ![token[r]] = @ + 1]
     ELSE UNCHANGED <<password, uses>>
  /\ UNCHANGED <<users, key, issued, token, subject, crossed, broken>>

End(r) ==
  /\ pc' = [pc EXCEPT ![r] = "idle"]
  /\ token' = [token EXCEPT ![r] = None] /\ subject' = [subject EXCEPT ![r] = None]

(* Mutant: the key is left to expire. *)
DeleteKey_Keep(r) ==
  /\ pc[r] = "delete" /\ End(r)
  /\ UNCHANGED <<users, key, issued, password, uses, crossed, broken>>

DeleteKey(r) ==
  /\ pc[r] = "delete" /\ key' = [key EXCEPT ![token[r]] = None] /\ End(r)
  /\ UNCHANGED <<users, issued, password, uses, crossed, broken>>

(* Redis or the database fails, or the process ends. *)
Abort(r) ==
  /\ End(r)
  /\ \/ pc[r] = "hash" /\ UNCHANGED broken
     \/ /\ pc[r] = "delete" /\ broken[token[r]] < MaxBroken
        /\ broken' = [broken EXCEPT ![token[r]] = @ + 1]
  /\ UNCHANGED <<users, key, issued, password, uses, crossed>>

delete_user(u) ==
  /\ u \in users /\ users' = users \ {u} /\ password' = [password EXCEPT ![u] = None]
  /\ UNCHANGED <<key, issued, pc, token, subject, uses, crossed, broken>>

Next ==
  \/ \E u \in User : delete_user(u) \/ \E t \in Token : forgot_password(u, t)
  \/ \E t \in Token : Expire(t) \/ \E r \in Request : reset_password(r, t)
  \/ \E r \in Request : UpdatePassword(r) \/ DeleteKey(r) \/ Abort(r)

Spec == Init /\ [][Next]_vars

----------------------------------------------------------------------------
(* Shapes; an account that is gone has no password. *)
TypeOK ==
  /\ users \subseteq User /\ issued \subseteq Token
  /\ key \in [Token -> User \cup {None}]
  /\ password \in [User -> Request \cup {None}]
  /\ \A u \in User \ users : password[u] = None
  /\ pc \in [Request -> {"idle", "hash", "delete"}]
  /\ token \in [Request -> Token \cup {None}] /\ subject \in [Request -> User \cup {None}]
  /\ uses \in [Token -> Nat] /\ crossed \subseteq Token
  /\ broken \in [Token -> 0..MaxBroken]

(* A token sets one password, and one more for each request that ended     *)
(* between the password and the deletion of the key, unless two requests   *)
(* work with it at a time.                                                 *)
UsedOnce == \A t \in Token \ crossed : uses[t] <= 1 + broken[t]

(* A token that was used up, or expired, and that no request is working    *)
(* with sets no password any more.                                         *)
SpentStep == \A t \in issued : (key[t] = None /\ With(t) = {}) => uses'[t] = uses[t] /\ key'[t] = None
SpentStaysSpent == [][SpentStep]_vars

(* A token as a one-time credential (OneTimeUse): it is spent when its key *)
(* is gone and no request works with it.  Excused are tokens two requests  *)
(* shared, or that a request left half used.                               *)
TokenLife(t) ==
  [stage   |-> IF t \notin issued THEN "new"
               ELSE IF key[t] = None /\ With(t) = {} THEN "spent" ELSE "live",
   uses    |-> IF uses[t] < 2 THEN uses[t] ELSE 2,
   excused |-> t \in crossed \/ broken[t] > 0]

(* reset_password, with the types of the keys and accounts. *)
ResetInv == TypeOK /\ UsedOnce
=============================================================================
