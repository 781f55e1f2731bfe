------------------------- MODULE CredentialsProofs -------------------------
(***************************************************************************)
(* Proofs about QrLogin, PasswordReset, AdminAccess and Settings: one-time *)
(* credentials, the power of administrators and the configuration they     *)
(* change, for any number of requests.  MCCredentials names the instances. *)
(***************************************************************************)
EXTENDS MCCredentials, Sequences, FiniteSetTheorems, TLAPS

(* At most one element. *)
Lone(S) == \A x, y \in S : x = y

----------------------------------------------------------------------------
(* PasswordReset.  A token that two requests did not share has set no      *)
(* password but for the requests that broke off, as long as a request      *)
(* still hashes with it, or its key is there and nobody is about to delete *)
(* it.                                                                     *)
Deleting(t) == {r \in Reset!With(t) : step[r] = "delete"}
TokenInv ==
  /\ \A r \in Request : step[r] # "idle" => token[r] \in issued /\ subject[r] \in User
  /\ \A r \in Request : step[r] = "idle" => token[r] = None
  /\ \A t \in Token \ issued : key[t] = None /\ uses[t] = 0
  /\ \A t \in Token \ crossed :
       /\ \A r, q \in Reset!With(t) : r = q
       /\ \A r \in Reset!With(t) : step[r] = "hash" => uses[t] <= broken[t]
       /\ key[t] # None /\ Deleting(t) = {} => uses[t] <= broken[t]

ResetInd == Reset!ResetInv /\ TokenInv

LEMMA ResetInit == Reset!Init => ResetInd
BY ResetAssumption
DEF Reset!Init, ResetInd, Reset!ResetInv, Reset!TypeOK, Reset!UsedOnce, TokenInv, Deleting, Reset!With

LEMMA ResetNext == ResetInd /\ [Reset!Next]_Reset!vars => ResetInd'
<1> SUFFICES ASSUME ResetInd, [Reset!Next]_Reset!vars PROVE ResetInd'
  OBVIOUS
<1> USE ResetAssumption
    DEF ResetInd, Reset!ResetInv, Reset!TypeOK, Reset!UsedOnce, TokenInv, Deleting, Reset!With
<1>1. ASSUME NEW u \in User, Reset!delete_user(u) PROVE ResetInd'
  BY <1>1 DEF Reset!delete_user
<1>2. ASSUME NEW u \in User, NEW t \in Token, Reset!forgot_password(u, t) PROVE ResetInd'
  BY <1>2 DEF Reset!forgot_password
<1>3. ASSUME NEW t \in Token, Reset!Expire(t) PROVE ResetInd'
  BY <1>3 DEF Reset!Expire
<1>4. ASSUME NEW t \in Token, NEW r \in Request, Reset!reset_password(r, t) PROVE ResetInd'
  BY <1>4 DEF Reset!reset_password
<1>5. ASSUME NEW r \in Request, Reset!UpdatePassword(r) PROVE ResetInd'
  BY <1>5 DEF Reset!UpdatePassword
<1>6. ASSUME NEW r \in Request, Reset!DeleteKey(r) PROVE ResetInd'
  BY <1>6 DEF Reset!DeleteKey, Reset!End
<1>7. ASSUME NEW r \in Request, Reset!Abort(r) PROVE ResetInd'
  BY <1>7 DEF Reset!Abort, Reset!End
<1>8. CASE UNCHANGED Reset!vars
  BY <1>8 DEF Reset!vars
<1>9. QED BY <1>1, <1>2, <1>3, <1>4, <1>5, <1>6, <1>7, <1>8 DEF Reset!Next

(* A reset token sets one password, and one more for each request that     *)
(* ended between the password and the deletion of the key, unless two      *)
(* requests worked with it at a time.                                      *)
THEOREM ResetTokenUsedOnce == Reset!Spec => []Reset!ResetInv
<1>1. ResetInd => Reset!ResetInv BY DEF ResetInd
<1>2. QED BY <1>1, ResetInit, ResetNext, PTL DEF Reset!Spec

LEMMA SpentTokens == ResetInd /\ [Reset!Next]_Reset!vars => [Reset!SpentStep]_Reset!vars
<1> SUFFICES ASSUME ResetInd, Reset!Next PROVE Reset!SpentStep
  BY DEF Reset!vars
<1> USE DEF ResetInd, Reset!ResetInv, Reset!TypeOK, TokenInv, Reset!With, Reset!SpentStep
<1>1. ASSUME NEW u \in User, Reset!delete_user(u) \/ \E t \in Token : Reset!forgot_password(u, t)
      PROVE  Reset!SpentStep
  BY <1>1 DEF Reset!delete_user, Reset!forgot_password
<1>2. ASSUME NEW t \in Token, Reset!Expire(t) \/ \E r \in Request : Reset!reset_password(r, t)
      PROVE  Reset!SpentStep
  BY <1>2 DEF Reset!Expire, Reset!reset_password
<1>3. ASSUME NEW r \in Request, Reset!UpdatePassword(r) \/ Reset!DeleteKey(r) \/ Reset!Abort(r)
      PROVE  Reset!SpentStep
  BY <1>3 DEF Reset!UpdatePassword, Reset!DeleteKey, Reset!Abort
<1>4. QED BY <1>1, <1>2, <1>3 DEF Reset!Next

----------------------------------------------------------------------------
(* AdminAccess.  A request past the credential held a good one at some     *)
(* moment, a request past the account check an active account as well, and *)
(* an idle request has neither claims nor token.                           *)
PowerInv ==
  /\ held \in [Call -> SUBSET {"account", "credential"}]
  /\ \A r \in Call :
       /\ place[r] = "idle" => actor[r] = None /\ cred[r] = None
       /\ place[r] # "idle" => actor[r] \in Admin /\ "credential" \in held[r]
       /\ place[r] = "act" => "account" \in held[r]

AccessInd == Access!AccessInv /\ PowerInv

(* What was held stays so until the request ends. *)
LEMMA HeldStays ==
  ASSUME held \in [Call -> SUBSET {"account", "credential"}], Access!Observe
  PROVE  /\ held' \in [Call -> SUBSET {"account", "credential"}]
         /\ \A r \in Call : place'[r] # "idle" =>
              /\ held[r] \subseteq held'[r]
              /\ (cred'[r] = None \/ Access!Live(cred[r])') => "credential" \in held'[r]
              /\ (actor'[r] # None /\ state'[actor'[r]] = "active") => "account" \in held'[r]
BY DEF Access!Observe, Access!HoldsNow

LEMMA AccessInit == Access!Init => AccessInd
BY AccessAssumption
DEF Access!Init, AccessInd, Access!AccessInv, Access!TypeOK, Access!PowerWasHeld,
    Access!TokensHaveOwners, Access!Exists, PowerInv

LEMMA AccessNext == AccessInd /\ [Access!Next]_Access!vars => AccessInd'
<1> SUFFICES ASSUME AccessInd, [Access!Next]_Access!vars PROVE AccessInd'
  OBVIOUS
<1> USE AccessAssumption
    DEF AccessInd, Access!AccessInv, Access!TypeOK, Access!TokensHaveOwners, Access!Exists,
        Access!PowerWasHeld, PowerInv, Access!tables, Access!Goto
<1>1. ASSUME NEW r \in Call, NEW u \in Admin, Access!extract_claims(r, u) PROVE AccessInd'
  BY <1>1, HeldStays DEF Access!extract_claims
<1>2. ASSUME NEW r \in Call, NEW t \in AgentToken, Access!verify(r, t) PROVE AccessInd'
  BY <1>2, HeldStays DEF Access!verify, Access!Live, Access!Expired
<1>3. ASSUME NEW r \in Call, Access!CheckAccount(r) PROVE AccessInd'
  BY <1>3, HeldStays DEF Access!CheckAccount, Access!Finish
<1>4. ASSUME NEW r \in Call, NEW t \in AgentToken, NEW days \in Lifetime, Access!create(r, t, days)
      PROVE  AccessInd'
  BY <1>4, HeldStays DEF Access!create
<1>5. ASSUME NEW r \in Call, NEW t \in AgentToken, Access!revoke(r, t) PROVE AccessInd'
  BY <1>5, HeldStays DEF Access!revoke
<1>6. ASSUME NEW r \in Call, NEW u \in Admin, NEW to \in {"active", "suspended"},
             Access!set_user_active(r, u, to)
      PROVE  AccessInd'
  BY <1>6, HeldStays DEF Access!set_user_active
<1>7. ASSUME NEW r \in Call, NEW u \in Admin, Access!reject_user(r, u) PROVE AccessInd'
  BY <1>7, HeldStays DEF Access!reject_user
<1>8. ASSUME NEW r \in Call, Access!append_audit_log(r) \/ Access!Fail(r) PROVE AccessInd'
  BY <1>8, HeldStays DEF Access!append_audit_log, Access!Fail, Access!Finish
<1>9. ASSUME NEW u \in Admin, Access!Login(u) \/ Access!AccessTokenExpires(u) PROVE AccessInd'
  BY <1>9, HeldStays DEF Access!Login, Access!AccessTokenExpires
<1>10. CASE Access!Tick
  BY <1>10, HeldStays DEF Access!Tick
<1>11. CASE UNCHANGED Access!vars
  BY <1>11 DEF Access!vars
<1> HIDE DEF AccessInd
<1>12. ASSUME NEW r \in Call, Access!Handler(r) PROVE AccessInd'
  BY <1>12, <1>4, <1>5, <1>6, <1>7 DEF Access!Handler
<1>13. QED BY <1>1, <1>2, <1>3, <1>8, <1>9, <1>10, <1>11, <1>12 DEF Access!Next

(* A request that acts held a good credential and an active account, each  *)
(* at some moment of it, and no agent token outlives the administrator who *)
(* created it.                                                             *)
THEOREM PowerIsHeld == Access!Spec => []Access!AccessInv
<1>1. AccessInd => Access!AccessInv BY DEF AccessInd
<1>2. QED BY <1>1, AccessInit, AccessNext, PTL DEF Access!Spec

----------------------------------------------------------------------------
(* Settings.  The five settings, each once in the order of saving. *)
LEMMA KeyOrder ==
  /\ Len(Config!Keys) = 5
  /\ \A i \in 1..5 : Config!Keys[i] \in Config!Key
  /\ \A i, j \in 1..5 : Config!Keys[i] = Config!Keys[j] => i = j
  /\ \A k \in Config!Key : \E i \in 1..5 : Config!Keys[i] = k
BY DEF Config!Keys, Config!Key, Config!ToSet

LEMMA BodyType ==
  \A b \in Config!Body : b \in [Config!Key -> {"value", "blank", "absent", "bad"}]
BY DEF Config!Body, Config!All

(* A request that nobody crossed is alone with its saves: what it has      *)
(* saved is what it wants, and so is require_approval if it does not name  *)
(* it; once it reads, the table is what it wants, and its view as far as   *)
(* it has got.                                                             *)
Asks(r, k) ==
  /\ body[r][k] = "value" => wanted[r][k] = r
  /\ body[r][k] = "blank" => wanted[r][k] = None
  /\ body[r][k] = "absent" =>
       wanted[r][k] = IF k = "require_approval" THEN settings[k] ELSE None
OrderInv ==
  /\ \A r \in Editor : /\ stage[r] = "idle" => saved[r] = 0
                       /\ stage[r] = "save" => body[r] \in Config!Body
  /\ \A r \in Editor \ mixed :
       /\ Config!Active(r) => Config!Saving \subseteq {r}
       /\ stage[r] = "save" => \A i \in 1..5 :
            /\ Asks(r, Config!Keys[i])
            /\ i <= saved[r] => settings[Config!Keys[i]] = wanted[r][Config!Keys[i]]
       /\ stage[r] = "read" =>
            /\ settings = wanted[r]
            /\ \A i \in 1..5 : i <= saved[r] => view[r][Config!Keys[i]] = wanted[r][Config!Keys[i]]

SettingsInd == Config!SettingsInv /\ OrderInv

LEMMA SettingsInit == Config!Init => SettingsInd
BY KeyOrder, EditorAssumption
DEF Config!Init, Config!NoView, SettingsInd, Config!SettingsInv, Config!TypeOK, Config!AnswerIsWhole,
    Config!UnauditedHasFailed, OrderInv, Config!Active

(* What is saved of a setting. *)
LEMMA SavedSetting ==
  ASSUME settings \in [Config!Key -> Editor \cup {None}], NEW r \in Editor, NEW k \in Config!Key,
         NEW ask \in {"value", "blank", "absent"}
  PROVE  LET s == Config!Saved(settings, r, k, ask)
         IN  /\ s \in [Config!Key -> Editor \cup {None}]
             /\ \A l \in Config!Key \ {k} : s[l] = settings[l]
             /\ ask = "value" => s[k] = r
             /\ ask = "blank" => s[k] = None
             /\ ask = "absent" => s[k] = IF k = "require_approval" THEN settings[k] ELSE None
BY DEF Config!Saved

LEMMA SettingsNext == SettingsInd /\ [Config!Next]_Config!vars => SettingsInd'
<1> SUFFICES ASSUME SettingsInd, [Config!Next]_Config!vars PROVE SettingsInd'
  OBVIOUS
<1> USE KeyOrder, EditorAssumption
    DEF SettingsInd, Config!SettingsInv, Config!TypeOK, Config!AnswerIsWhole,
        Config!UnauditedHasFailed, OrderInv, Asks, Config!Active, Config!Saving
<1>0. saved \in [Editor -> 0..5] BY DEF Config!TypeOK
<1>1. ASSUME NEW r \in Editor, NEW b \in Config!Body, Config!update_config(r, b) PROVE SettingsInd'
  BY <1>1, BodyType DEF Config!update_config
<1>2. ASSUME NEW r \in Editor, Config!get_config(r) PROVE SettingsInd'
  BY <1>2 DEF Config!get_config
<1>3. ASSUME NEW r \in Editor, Config!SaveNext(r) PROVE SettingsInd'
  <2> DEFINE n == saved[r] + 1
             k == Config!Keys[n]
             ask == body[r][k]
             s == Config!Saved(settings, r, k, ask)
  <2>1. n \in 1..5 /\ k \in Config!Key /\ stage[r] = "save" BY <1>3, SMTT(30) DEF Config!SaveNext
  <2>2. ask \in {"value", "blank", "absent"} BY <1>3, <2>1, BodyType DEF Config!SaveNext
  <2>3. /\ settings' = s /\ saved' = [saved EXCEPT ![r] = n]
        /\ UNCHANGED <<stage, body, view, audit, wanted, mixed>>
    BY <1>3 DEF Config!SaveNext
  <2>4. /\ s \in [Config!Key -> Editor \cup {None}]
        /\ \A l \in Config!Key \ {k} : s[l] = settings[l]
        /\ ask = "value" => s[k] = r
        /\ ask = "blank" => s[k] = None
        /\ ask = "absent" => s[k] = IF k = "require_approval" THEN settings[k] ELSE None
    BY <2>1, <2>2, SavedSetting
  <2> HIDE DEF s
  <2>5. Config!TypeOK' /\ Config!AnswerIsWhole' BY <2>1, <2>3, <2>4
  <2>6. Config!UnauditedHasFailed' BY <2>1, <2>2, <2>3, <2>4, SMTT(30)
  <2>7. ASSUME NEW q \in Editor \ mixed, Config!Active(q) PROVE q = r
    BY <2>1, <2>7
  <2>8. r \notin mixed => \A i \in 1..5 :
          /\ Asks(r, Config!Keys[i])'
          /\ i <= saved'[r] => settings'[Config!Keys[i]] = wanted'[r][Config!Keys[i]]
    <3> SUFFICES ASSUME r \notin mixed, NEW i \in 1..5
                 PROVE  /\ Asks(r, Config!Keys[i])'
                        /\ i <= saved'[r] => settings'[Config!Keys[i]] = wanted'[r][Config!Keys[i]]
      OBVIOUS
    <3>1. CASE i = n
      <4>1. settings'[k] = s[k] /\ wanted' = wanted /\ body' = body /\ Asks(r, k)
        BY <2>1, <2>3, <3>1
      <4>2. settings'[k] = wanted[r][k] BY <2>2, <2>4, <4>1
      <4>3. QED BY <3>1, <4>1, <4>2
    <3>2. CASE i # n
      <4>1. Config!Keys[i] \in Config!Key \ {k} BY <2>1, <3>2
      <4>2. settings'[Config!Keys[i]] = settings[Config!Keys[i]] BY <2>3, <2>4, <4>1
      <4>3. i <= saved'[r] => i <= saved[r] BY <1>0, <2>3, <3>2, SMTT(30)
      <4>4. QED BY <2>1, <2>3, <4>2, <4>3
    <3>3. QED BY <3>1, <3>2
  <2>9. OrderInv' BY <2>1, <2>3, <2>7, <2>8
  <2>10. QED BY <2>5, <2>6, <2>9
<1>4. ASSUME NEW r \in Editor, Config!Reject(r) PROVE SettingsInd'
  BY <1>4 DEF Config!Reject
<1>5. ASSUME NEW r \in Editor, Config!append_audit_log(r) PROVE SettingsInd'
  <2> USE <1>5 DEF Config!append_audit_log
  <2>1. r \notin mixed => settings = wanted[r]
    <3>1. ASSUME r \notin mixed, NEW k \in Config!Key PROVE settings[k] = wanted[r][k]
      <4>1. PICK i \in 1..5 : Config!Keys[i] = k OBVIOUS
      <4>2. i <= saved[r] OBVIOUS
      <4>3. QED BY <3>1, <4>1, <4>2
    <3>2. settings \in [Config!Key -> Editor \cup {None}]
          /\ wanted[r] \in [Config!Key -> Editor \cup {None}]
      OBVIOUS
    <3> HIDE <1>5 DEF SettingsInd, OrderInv, Config!append_audit_log
    <3>3. QED BY <3>1, <3>2
  <2>2. OrderInv' BY <2>1
  <2>3. Config!TypeOK' OBVIOUS
  <2>4. Config!AnswerIsWhole' /\ Config!UnauditedHasFailed' OBVIOUS
  <2>5. QED BY <2>2, <2>3, <2>4
<1>6. ASSUME NEW r \in Editor, Config!read_admin_config(r) PROVE SettingsInd'
  <2> HIDE DEF SettingsInd, Config!SettingsInv, Config!TypeOK, Config!AnswerIsWhole,
               Config!UnauditedHasFailed, OrderInv, Config!Active, Config!Saving
  <2>0. /\ stage[r] = "read" /\ stage \in [Editor -> {"idle", "save", "read", "done", "failed"}]
        /\ \A q \in Editor : view[q] \in [Config!Key -> Editor \cup {None}]
                            /\ wanted[q] \in [Config!Key -> Editor \cup {None}]
        /\ view \in [Editor -> [Config!Key -> Editor \cup {None}]]
        /\ settings \in [Config!Key -> Editor \cup {None}]
        /\ r \notin mixed => settings = wanted[r] /\ \A i \in 1..5 :
             i <= saved[r] => view[r][Config!Keys[i]] = wanted[r][Config!Keys[i]]
        /\ Config!TypeOK /\ Config!AnswerIsWhole /\ Config!UnauditedHasFailed /\ OrderInv
        /\ UNCHANGED <<settings, body, audit, wanted, mixed>>
    BY <1>6 DEF Config!read_admin_config, SettingsInd, Config!SettingsInv, Config!TypeOK, OrderInv
  <2>1. CASE saved[r] < 5
    <3> DEFINE n == saved[r] + 1
               k == Config!Keys[n]
    <3>1. n \in 1..5 /\ k \in Config!Key BY <1>0, <2>1
    <3>2. view' = [view EXCEPT ![r][k] = settings[k]] /\ saved' = [saved EXCEPT ![r] = n] /\ stage' = stage
      BY <1>6, <2>1 DEF Config!read_admin_config
    <3>3. view'[r] = [view[r] EXCEPT ![k] = settings[k]] /\ \A q \in Editor \ {r} : view'[q] = view[q]
      BY <2>0, <3>2
    <3>4. Config!TypeOK' BY <2>0, <3>1, <3>2 DEF Config!TypeOK
    <3>5. Config!AnswerIsWhole' /\ Config!UnauditedHasFailed'
      BY <2>0, <3>2, <3>3 DEF Config!AnswerIsWhole, Config!UnauditedHasFailed
    <3>6. ASSUME r \notin mixed, NEW i \in 1..5, i <= saved'[r]
          PROVE  view'[r][Config!Keys[i]] = wanted[r][Config!Keys[i]]
      <4>1. CASE i = n BY <2>0, <3>1, <3>3, <3>6, <4>1
      <4>2. CASE i # n
        <5>1. i <= saved[r] BY <1>0, <3>2, <3>6, <4>2
        <5>2. Config!Keys[i] # k BY <3>1, <4>2
        <5>3. QED BY <2>0, <3>1, <3>3, <3>6, <5>1, <5>2
      <4>3. QED BY <4>1, <4>2
    <3>7. OrderInv'
      BY <1>0, <2>0, <3>2, <3>3, <3>6 DEF OrderInv, Config!Active, Config!Saving
    <3>8. QED BY <3>4, <3>5, <3>7 DEF SettingsInd, Config!SettingsInv
  <2>2. CASE ~(saved[r] < 5)
    <3>1. saved[r] = 5 BY <1>0, <2>2
    <3>2. stage' = [stage EXCEPT ![r] = "done"] /\ UNCHANGED <<view, saved>>
      BY <1>6, <2>2 DEF Config!read_admin_config
    <3>3. r \notin mixed => view[r] = wanted[r]
      <4>1. ASSUME r \notin mixed, NEW k \in Config!Key PROVE view[r][k] = wanted[r][k]
        <5>1. PICK i \in 1..5 : Config!Keys[i] = k OBVIOUS
        <5>2. QED BY <2>0, <3>1, <4>1, <5>1
      <4>2. QED BY <2>0, <4>1
    <3>4. Config!TypeOK' BY <2>0, <3>2 DEF Config!TypeOK
    <3>5. Config!AnswerIsWhole' /\ Config!UnauditedHasFailed'
      BY <2>0, <3>2, <3>3 DEF Config!AnswerIsWhole, Config!UnauditedHasFailed
    <3>6. OrderInv' BY <2>0, <3>2 DEF OrderInv, Config!Active, Config!Saving
    <3>7. QED BY <3>4, <3>5, <3>6 DEF SettingsInd, Config!SettingsInv
  <2>3. QED BY <2>1, <2>2
<1>7. CASE UNCHANGED Config!vars
  BY <1>7 DEF Config!vars
<1> HIDE DEF SettingsInd
<1>8. QED BY <1>1, <1>2, <1>3, <1>4, <1>5, <1>6, <1>7 DEF Config!Next

(* A request during which nobody else saved is answered with one           *)
(* configuration in whole, and a setting in force that the audit log does  *)
(* not account for is of an update under way or failed.                    *)
THEOREM AnswersAreWhole == Config!Spec => []Config!SettingsInv
<1>1. SettingsInd => Config!SettingsInv BY DEF SettingsInd
<1>2. QED BY <1>1, SettingsInit, SettingsNext, PTL DEF Config!Spec

----------------------------------------------------------------------------
(* QrLogin.  A request at work has a session that was created and, once it *)
(* has tokens, those of its session; tokens that were not minted were not  *)
(* handed out; a session has no record before it is created.               *)
LoginInv ==
  /\ \A r \in Request :
       /\ pc[r] # "idle" => session[r] \in created
       /\ pc[r] \in {"save", "delete"} => got[r] \in Family /\ minted[got[r]] = session[r]
  /\ \A f \in Family : IF minted[f] = None THEN handed[f] = 0 ELSE minted[f] \in created
  /\ \A s \in Session \ created : redis[s] = None /\ memory[s] = None

(* Every poll that has the tokens in hand is counted against MaxHanded. *)
Holding(f) == {r \in Request : pc[r] = "delete" /\ got[r] = f}
HandedBound == \A f \in Family : handed[f] + Cardinality(Holding(f)) <= MaxHanded

(* While Redis answers, the session of approvals and polls that do not     *)
(* overlap is pending or being approved, then approved or being polled,    *)
(* and its tokens are handed out when it is neither.                       *)
Approvers(s) == Busy(s, {"mint", "save"})
Pollers(s) == Busy(s, {"delete"})
Handed(s) == {f \in Family : minted[f] = s /\ handed[f] > 0}
OneLogin(s) ==
  /\ Lone(Approvers(s)) /\ Lone(Pollers(s))
  /\ redis[s] = "pending" \/ Approvers(s) # {} =>
       Pollers(s) = {} /\ redis[s] \notin Family /\ Handed(s) = {}
  /\ redis[s] \in Family \/ Pollers(s) # {} => Handed(s) = {}
  /\ Lone(Handed(s)) /\ \A f \in Handed(s) : handed[f] = 1
OnceInv ==
  faults = 0 =>
    /\ \A s \in Session : memory[s] = None
    /\ \A s \in Session \ (approving \cup polling) : OneLogin(s)

QrInd == TypeOK /\ LoginInv /\ HandedBound /\ OnceInv

LEMMA HoldingCounts ==
  \A f : /\ IsFiniteSet(Holding(f)) /\ Cardinality(Holding(f)) \in Nat
         /\ IsFiniteSet(Holding(f)') /\ Cardinality(Holding(f)') \in Nat
<1> TAKE f
<1>1. Holding(f) \subseteq Request /\ Holding(f)' \subseteq Request BY DEF Holding
<1>2. QED BY <1>1, FS_Subset, FS_CardinalityType, RequestAssumption

(* Steps that give nobody tokens to hand out, and hand out none. *)
LEMMA BoundKept ==
  ASSUME HandedBound, handed \in [Family -> Nat], handed' = handed,
         \A f \in Family : Holding(f)' \subseteq Holding(f)
  PROVE  HandedBound'
<1> SUFFICES ASSUME NEW f \in Family PROVE handed'[f] + Cardinality(Holding(f)') <= MaxHanded
  BY DEF HandedBound
<1>1. Cardinality(Holding(f)') <= Cardinality(Holding(f)) BY HoldingCounts, FS_Subset
<1>2. QED BY <1>1, HoldingCounts, BoundsAssumption DEF HandedBound

(* A poll is let through below the bound, and handing out uses what was    *)
(* counted for it.                                                         *)
LEMMA BoundNext ==
  ASSUME TypeOK, LoginInv, HandedBound, [Next]_vars
  PROVE  HandedBound'
<1>0. /\ handed \in [Family -> Nat] /\ pc \in [Request -> {"idle", "mint", "save", "delete"}]
      /\ session \in [Request -> Session \cup {None}] /\ got \in [Request -> Family \cup {None}]
  BY BoundsAssumption DEF TypeOK
<1>1. ASSUME NEW r \in Request, NEW s \in Session, poll_qr_login_session(r, s) PROVE HandedBound'
  <2>1. PICK f \in Family :
          /\ handed[f] + Cardinality(Pollers(s)) < MaxHanded /\ minted[f] = s
          /\ pc[r] = "idle" /\ pc' = [pc EXCEPT ![r] = "delete"] /\ got' = [got EXCEPT ![r] = f]
          /\ handed' = handed
    BY <1>1 DEF poll_qr_login_session, load_qr_login_record, Begin, TypeOK, Pollers
  <2>2. \A g \in Family : Holding(g)' = IF g = f THEN Holding(g) \cup {r} ELSE Holding(g)
    BY <1>0, <2>1 DEF Holding
  <2>3. r \notin Holding(f) /\ Holding(f) \subseteq Pollers(s)
    BY <2>1 DEF Holding, Pollers, Busy, LoginInv
  <2>4. Pollers(s) \subseteq Request BY DEF Pollers, Busy
  <2>5. IsFiniteSet(Pollers(s)) /\ Cardinality(Holding(f)) <= Cardinality(Pollers(s))
    BY <2>3, <2>4, FS_Subset, RequestAssumption
  <2>6. Cardinality(Pollers(s)) \in Nat BY <2>5, FS_CardinalityType
  <2>7. Cardinality(Holding(f)') = Cardinality(Holding(f)) + 1
    BY <2>2, <2>3, HoldingCounts, FS_AddElement
  <2>8. handed[f] + Cardinality(Holding(f)') <= MaxHanded
    BY <1>0, <2>1, <2>5, <2>6, <2>7, HoldingCounts, BoundsAssumption
  <2>9. QED BY <2>1, <2>2, <2>8 DEF HandedBound
<1>2. ASSUME NEW r \in Request, HandOut(r) PROVE HandedBound'
  <2>1. PICK f \in Family : r \in Holding(f) /\ handed' = [handed EXCEPT ![f] = @ + 1]
    BY <1>2 DEF HandOut, LoginInv, Holding
  <2>2. \A g \in Family : Holding(g)' = Holding(g) \ {r}
    BY <1>0, <1>2 DEF HandOut, End, Holding
  <2>3. Cardinality(Holding(f)') = Cardinality(Holding(f)) - 1
    BY <2>1, <2>2, HoldingCounts, FS_RemoveElement
  <2>4. ASSUME NEW g \in Family PROVE Cardinality(Holding(g)') <= Cardinality(Holding(g))
    <3>1. Holding(g)' \subseteq Holding(g) BY <2>2
    <3>2. QED BY <3>1, HoldingCounts, FS_Subset
  <2>5. ASSUME NEW g \in Family PROVE handed'[g] + Cardinality(Holding(g)') <= MaxHanded
    <3>0. Cardinality(Holding(g)) \in Nat /\ Cardinality(Holding(g)') \in Nat BY HoldingCounts
    <3>1. CASE g = f
      BY <1>0, <2>1, <2>3, <3>0, <3>1, BoundsAssumption DEF HandedBound
    <3>2. CASE g # f
      BY <1>0, <2>1, <2>4, <3>0, <3>2, BoundsAssumption DEF HandedBound
    <3>3. QED BY <3>1, <3>2
  <2>6. QED BY <2>5 DEF HandedBound
<1>3. ASSUME handed' = handed, \A f \in Family : Holding(f)' \subseteq Holding(f)
      PROVE  HandedBound'
  BY <1>0, <1>3, BoundKept
<1>4. ASSUME NEW s \in Session, create_qr_login_session(s) \/ Expire(s) PROVE HandedBound'
  BY <1>3, <1>4 DEF create_qr_login_session, Expire, Holding
<1>5. ASSUME NEW r \in Request, NEW s \in Session, approve_qr_login(r, s) PROVE HandedBound'
  <2>1. \A f \in Family : Holding(f)' \subseteq Holding(f)
    BY <1>0, <1>5 DEF approve_qr_login, Begin, Holding
  <2>2. QED BY <1>3, <1>5, <2>1 DEF approve_qr_login, Begin
<1>6. ASSUME NEW r \in Request, SaveApproval(r) \/ Abort(r) PROVE HandedBound'
  <2>1. \A f \in Family : Holding(f)' \subseteq Holding(f)
    BY <1>0, <1>6 DEF SaveApproval, Abort, End, Holding
  <2>2. QED BY <1>3, <1>6, <2>1 DEF SaveApproval, Abort
<1>7. ASSUME NEW r \in Request, NEW f \in Family, Mint(r, f) PROVE HandedBound'
  <2>1. \A g \in Family : Holding(g)' \subseteq Holding(g)
    BY <1>0, <1>7 DEF Mint, Holding
  <2>2. QED BY <1>3, <1>7, <2>1 DEF Mint
<1>8. CASE Crash
  BY <1>3, <1>8 DEF Crash, Holding
<1>9. CASE UNCHANGED vars
  BY <1>3, <1>9 DEF vars, Holding
<1>10. QED BY <1>1, <1>2, <1>4, <1>5, <1>6, <1>7, <1>8, <1>9 DEF Next

(* Shapes and requests. *)
LEMMA LoginNext ==
  ASSUME TypeOK, LoginInv, HandedBound, [Next]_vars
  PROVE  TypeOK' /\ LoginInv'
<1> USE NoneAssumption, BoundsAssumption DEF TypeOK, LoginInv, Record, stores
<1>1. ASSUME NEW s \in Session, create_qr_login_session(s) PROVE TypeOK' /\ LoginInv'
  BY <1>1 DEF create_qr_login_session, save_qr_login_record, Write, Redis
<1>2. ASSUME NEW s \in Session, Expire(s) PROVE TypeOK' /\ LoginInv'
  BY <1>2 DEF Expire
<1>3. ASSUME NEW r \in Request, NEW s \in Session, approve_qr_login(r, s) PROVE TypeOK' /\ LoginInv'
  BY <1>3 DEF approve_qr_login, load_qr_login_record, Begin, Redis
<1>4. ASSUME NEW r \in Request, NEW s \in Session, poll_qr_login_session(r, s)
      PROVE  TypeOK' /\ LoginInv'
  <2>1. PICK f \in Family :
          /\ minted[f] = s /\ got' = [got EXCEPT ![r] = f] /\ Begin(r, s, "delete")
          /\ polling' \subseteq polling \cup {s} /\ approving' = approving /\ f \in {redis[s], memory[s]}
    BY <1>4 DEF poll_qr_login_session, load_qr_login_record
  <2>2. faults' \in 0..MaxFault BY <1>4 DEF poll_qr_login_session, Redis
  <2>3. s \in created BY <2>1
  <2>4. TypeOK' BY <2>1, <2>2 DEF Begin
  <2>5. LoginInv' BY <2>1, <2>3 DEF Begin
  <2>6. QED BY <2>4, <2>5
<1>5. ASSUME NEW r \in Request, NEW f \in Family, Mint(r, f) PROVE TypeOK' /\ LoginInv'
  BY <1>5 DEF Mint
<1>6. ASSUME NEW r \in Request, SaveApproval(r) PROVE TypeOK' /\ LoginInv'
  BY <1>6 DEF SaveApproval, save_qr_login_record, Write, Redis, End
<1>7. ASSUME NEW r \in Request, HandOut(r) PROVE TypeOK' /\ LoginInv'
  <2>1. PICK f \in Family : handed' = [handed EXCEPT ![f] = @ + 1] /\ minted[f] # None
    BY <1>7, ZenonT(30) DEF HandOut
  <2>2. handed'[f] <= MaxHanded
    <3>1. HandedBound' BY BoundNext
    <3>2. Cardinality(Holding(f)') \in Nat BY HoldingCounts
    <3>3. handed'[f] \in Nat BY <2>1
    <3>4. QED BY <2>1, <3>1, <3>2, <3>3 DEF HandedBound
  <2>3. handed' \in [Family -> 0..MaxHanded] BY <2>1, <2>2
  <2>4. TypeOK' BY <1>7, <2>3 DEF HandOut, delete_qr_login_record, Write, Redis, End
  <2>5. LoginInv' BY <1>7, <2>1 DEF HandOut, delete_qr_login_record, Write, End
  <2>6. QED BY <2>4, <2>5
<1>8. ASSUME NEW r \in Request, Abort(r) PROVE TypeOK' /\ LoginInv'
  BY <1>8 DEF Abort, End
<1>9. CASE Crash
  BY <1>9 DEF Crash
<1>10. CASE UNCHANGED vars
  BY <1>10 DEF vars
<1> HIDE DEF TypeOK, LoginInv
<1>11. QED BY <1>1, <1>2, <1>3, <1>4, <1>5, <1>6, <1>7, <1>8, <1>9, <1>10 DEF Next
(* A session that no step of this kind touches keeps what OneLogin says. *)
LEMMA LoginKept ==
  ASSUME NEW s \in Session, OneLogin(s), redis'[s] \in {redis[s], None},
         Approvers(s)' \subseteq Approvers(s), Pollers(s)' \subseteq Pollers(s),
         Handed(s)' = Handed(s), \A f \in Handed(s) : handed'[f] = handed[f]
  PROVE  OneLogin(s)'
BY NoneAssumption DEF OneLogin, Lone

(* While Redis answers, the tokens of a session go from its approval to    *)
(* one poll.                                                               *)
LEMMA OnceNext ==
  ASSUME TypeOK, LoginInv, OnceInv, [Next]_vars
  PROVE  OnceInv'
<1> SUFFICES ASSUME faults' = 0
             PROVE  /\ \A s \in Session : memory'[s] = None
                    /\ \A s \in Session \ (approving' \cup polling') : OneLogin(s)'
  BY DEF OnceInv
<1>0. /\ handed \in [Family -> Nat] /\ pc \in [Request -> {"idle", "mint", "save", "delete"}]
      /\ session \in [Request -> Session \cup {None}] /\ got \in [Request -> Family \cup {None}]
      /\ redis \in [Session -> Record \cup {None}] /\ memory \in [Session -> Record \cup {None}]
      /\ minted \in [Family -> Session \cup {None}] /\ faults \in Nat
  BY BoundsAssumption DEF TypeOK
<1>a. ASSUME NEW ok \in BOOLEAN, Redis(ok) PROVE ok /\ faults = 0
  BY <1>0, <1>a DEF Redis
<1> DEFINE Goal == /\ \A s \in Session : memory'[s] = None
                   /\ \A s \in Session \ (approving' \cup polling') : OneLogin(s)'
<1> DEFINE Kept(t) == /\ Approvers(t)' \subseteq Approvers(t) /\ Pollers(t)' \subseteq Pollers(t)
                      /\ Handed(t)' = Handed(t) /\ \A f \in Handed(t) : handed'[f] = handed[f]
<1>b. ASSUME NEW t \in Session \ (approving' \cup polling'), faults = 0,
             approving \subseteq approving', polling \subseteq polling'
      PROVE  OneLogin(t) /\ memory[t] = None
  BY <1>b DEF OnceInv
<1>1. ASSUME NEW s \in Session, create_qr_login_session(s) PROVE Goal
  <2>1. /\ redis' = [redis EXCEPT ![s] = "pending"] /\ faults = 0 /\ s \notin created
        /\ UNCHANGED <<memory, minted, pc, session, got, handed, approving, polling>>
    BY <1>1, <1>a DEF create_qr_login_session, save_qr_login_record, Write
  <2>2. Approvers(s) = {} /\ Pollers(s) = {} /\ Handed(s) = {}
    BY <1>0, <2>1, NoneAssumption DEF LoginInv, Approvers, Pollers, Handed, Busy, TypeOK
  <2>3. \A t \in Session : Approvers(t)' = Approvers(t) /\ Pollers(t)' = Pollers(t) /\ Handed(t)' = Handed(t)
    BY <2>1 DEF Approvers, Pollers, Handed, Busy
  <2>4. OneLogin(s)'
    BY <1>0, <2>1, <2>2, <2>3, NoneAssumption DEF OneLogin, Lone
  <2>5. ASSUME NEW t \in Session \ (approving' \cup polling'), t # s PROVE OneLogin(t)'
    BY <1>0, <1>b, <2>1, <2>3, <2>5, LoginKept
  <2>6. QED BY <2>1, <2>4, <2>5 DEF OnceInv
<1>2. ASSUME NEW s \in Session, Expire(s) PROVE Goal
  <2>1. /\ faults = 0 /\ UNCHANGED <<minted, pc, session, got, handed, approving, polling>>
        /\ \A t \in Session : redis'[t] \in {redis[t], None} /\ memory'[t] \in {memory[t], None}
    BY <1>0, <1>2 DEF Expire
  <2>2. \A t \in Session : Kept(t) BY <2>1 DEF Approvers, Pollers, Handed, Busy
  <2>3. QED BY <1>b, <2>1, <2>2, LoginKept DEF OnceInv
<1>3. ASSUME NEW r \in Request, NEW s \in Session, approve_qr_login(r, s) PROVE Goal
  <2>1. /\ faults = 0 /\ pc[r] = "idle" /\ pc' = [pc EXCEPT ![r] = "mint"]
        /\ session' = [session EXCEPT ![r] = s] /\ UNCHANGED <<redis, memory, minted, handed, polling>>
        /\ approving' = IF Approvers(s) # {} THEN approving \cup {s} ELSE approving
    BY <1>3, <1>a DEF approve_qr_login, Begin, Approvers, stores
  <2>2. redis[s] = "pending"
    <3>1. memory[s] = None BY <2>1 DEF OnceInv
    <3>2. QED BY <1>3, <3>1, NoneAssumption DEF approve_qr_login, load_qr_login_record
  <2>3. \A t \in Session : Pollers(t)' \subseteq Pollers(t) /\ Handed(t)' = Handed(t)
    BY <1>0, <2>1 DEF Pollers, Handed, Busy
  <2>4. \A t \in Session \ {s} : Approvers(t)' \subseteq Approvers(t)
    BY <1>0, <2>1 DEF Approvers, Busy
  <2>5. Approvers(s)' \subseteq Approvers(s) \cup {r}
    BY <1>0, <2>1 DEF Approvers, Busy
  <2>6. s \notin approving' \cup polling' => OneLogin(s)'
    <3> SUFFICES ASSUME s \notin approving' \cup polling' PROVE OneLogin(s)' OBVIOUS
    <3>1. OneLogin(s) /\ Approvers(s) = {} BY <1>b, <2>1
    <3>2. QED BY <2>1, <2>2, <2>3, <2>5, <3>1 DEF OneLogin, Lone
  <2>7. ASSUME NEW t \in Session \ (approving' \cup polling'), t # s PROVE OneLogin(t)'
    BY <1>b, <2>1, <2>3, <2>4, <2>7, LoginKept
  <2>8. QED BY <2>1, <2>6, <2>7 DEF OnceInv
<1>4. ASSUME NEW r \in Request, NEW s \in Session, poll_qr_login_session(r, s) PROVE Goal
  <2>1. /\ faults = 0 /\ pc[r] = "idle" /\ pc' = [pc EXCEPT ![r] = "delete"]
        /\ session' = [session EXCEPT ![r] = s] /\ UNCHANGED <<redis, memory, minted, handed, approving>>
        /\ polling' = IF Pollers(s) # {} THEN polling \cup {s} ELSE polling
    BY <1>4, <1>a DEF poll_qr_login_session, Begin, Pollers, stores
  <2>2. redis[s] \in Family
    <3>1. memory[s] = None BY <2>1 DEF OnceInv
    <3>2. QED BY <1>4, <3>1, NoneAssumption DEF poll_qr_login_session, load_qr_login_record
  <2>3. \A t \in Session : Approvers(t)' \subseteq Approvers(t) /\ Handed(t)' = Handed(t)
    BY <1>0, <2>1 DEF Approvers, Handed, Busy
  <2>4. \A t \in Session \ {s} : Pollers(t)' \subseteq Pollers(t)
    BY <1>0, <2>1 DEF Pollers, Busy
  <2>5. Pollers(s)' \subseteq Pollers(s) \cup {r}
    BY <1>0, <2>1 DEF Pollers, Busy
  <2>6. s \notin approving' \cup polling' => OneLogin(s)'
    <3> SUFFICES ASSUME s \notin approving' \cup polling' PROVE OneLogin(s)' OBVIOUS
    <3>1. OneLogin(s) /\ Pollers(s) = {} BY <1>b, <2>1
    <3>2. Approvers(s) = {} /\ redis[s] # "pending" BY <2>2, <3>1, NoneAssumption DEF OneLogin
    <3>3. QED BY <2>1, <2>2, <2>3, <2>5, <3>1, <3>2 DEF OneLogin, Lone
  <2>7. ASSUME NEW t \in Session \ (approving' \cup polling'), t # s PROVE OneLogin(t)'
    BY <1>b, <2>1, <2>3, <2>4, <2>7, LoginKept
  <2>8. QED BY <2>1, <2>6, <2>7 DEF OnceInv
<1>5. ASSUME NEW r \in Request, NEW f \in Family, Mint(r, f) PROVE Goal
  <2>1. /\ faults = 0 /\ minted[f] = None /\ handed[f] = 0 /\ session[r] \in Session /\ pc[r] = "mint"
        /\ UNCHANGED <<redis, memory, session, handed, approving, polling>>
        /\ minted' = [minted EXCEPT ![f] = session[r]] /\ pc' = [pc EXCEPT ![r] = "save"]
    BY <1>5 DEF Mint, LoginInv, stores, TypeOK
  <2>2. \A t \in Session : Approvers(t)' = Approvers(t) /\ Pollers(t)' = Pollers(t)
    BY <1>0, <2>1 DEF Approvers, Pollers, Busy
  <2>3. \A t \in Session : Handed(t)' = Handed(t)
    BY <1>0, <2>1, NoneAssumption DEF Handed
  <2>4. QED BY <1>b, <2>1, <2>2, <2>3, LoginKept DEF OnceInv
<1>6. ASSUME NEW r \in Request, SaveApproval(r) PROVE Goal
  <2>1. PICK s \in Session, g \in Family :
          /\ s = session[r] /\ r \in Approvers(s) /\ faults = 0
          /\ redis' = [redis EXCEPT ![s] = g] /\ UNCHANGED <<memory, minted, handed, approving, polling>>
          /\ pc' = [pc EXCEPT ![r] = "idle"] /\ session' = [session EXCEPT ![r] = None]
    BY <1>6, <1>a DEF SaveApproval, save_qr_login_record, Write, End, LoginInv, TypeOK, Approvers, Busy
  <2>2. \A t \in Session : /\ Approvers(t)' = Approvers(t) \ {r} /\ Pollers(t)' \subseteq Pollers(t)
                            /\ Handed(t)' = Handed(t)
    BY <1>0, <2>1, NoneAssumption DEF Approvers, Pollers, Handed, Busy
  <2>3. s \notin approving' \cup polling' => OneLogin(s)'
    BY <1>0, <1>b, <2>1, <2>2, NoneAssumption DEF OneLogin, Lone
  <2>4. ASSUME NEW t \in Session \ (approving' \cup polling'), t # s PROVE OneLogin(t)'
    BY <1>0, <1>b, <2>1, <2>2, <2>4, LoginKept
  <2>5. QED BY <2>1, <2>3, <2>4 DEF OnceInv
<1>7. ASSUME NEW r \in Request, HandOut(r) PROVE Goal
  <2>1. PICK s \in Session, g \in Family :
          /\ s = session[r] /\ r \in Pollers(s) /\ faults = 0 /\ minted[g] = s
          /\ redis' = [redis EXCEPT ![s] = None] /\ UNCHANGED <<memory, minted, approving, polling>>
          /\ handed' = [handed EXCEPT ![g] = @ + 1]
          /\ pc' = [pc EXCEPT ![r] = "idle"] /\ session' = [session EXCEPT ![r] = None]
    BY <1>7, <1>a DEF HandOut, delete_qr_login_record, Write, End, LoginInv, TypeOK, Pollers, Busy
  <2>2. \A t \in Session : /\ Approvers(t)' \subseteq Approvers(t) /\ Pollers(t)' = Pollers(t) \ {r}
    BY <1>0, <2>1, NoneAssumption DEF Approvers, Pollers, Busy
  <2>3. /\ Handed(s)' = Handed(s) \cup {g}
        /\ \A t \in Session \ {s} : Handed(t)' = Handed(t) /\ \A f \in Handed(t) : handed'[f] = handed[f]
    BY <1>0, <2>1 DEF Handed
  <2>4. s \notin approving' \cup polling' => OneLogin(s)'
    <3> SUFFICES ASSUME s \notin approving' \cup polling' PROVE OneLogin(s)' OBVIOUS
    <3>1. OneLogin(s) /\ Handed(s) = {} BY <1>b, <2>1 DEF OneLogin
    <3>2. Approvers(s) = {} /\ Pollers(s)' = {} BY <2>1, <2>2, <3>1 DEF OneLogin, Lone
    <3>3. handed'[g] = 1 BY <1>0, <2>1, <3>1 DEF Handed
    <3>4. redis'[s] = None BY <1>0, <2>1
    <3>5. QED BY <2>2, <2>3, <3>1, <3>2, <3>3, <3>4, NoneAssumption DEF OneLogin, Lone
  <2>5. ASSUME NEW t \in Session \ (approving' \cup polling'), t # s PROVE OneLogin(t)'
    BY <1>0, <1>b, <2>1, <2>2, <2>3, <2>5, LoginKept
  <2>6. QED BY <2>1, <2>4, <2>5 DEF OnceInv
<1>8. ASSUME NEW r \in Request, Abort(r) PROVE Goal
  <2>1. /\ faults = 0 /\ UNCHANGED <<redis, memory, minted, handed, approving, polling>>
        /\ pc' = [pc EXCEPT ![r] = "idle"] /\ session' = [session EXCEPT ![r] = None]
    BY <1>8 DEF Abort, End, stores
  <2>2. \A t \in Session : Kept(t)
    BY <1>0, <2>1, NoneAssumption DEF Approvers, Pollers, Handed, Busy
  <2>3. QED BY <1>b, <2>1, <2>2, LoginKept DEF OnceInv
<1>9. ASSUME Crash PROVE Goal
  <2>1. /\ faults = 0 /\ UNCHANGED <<redis, minted, handed, approving, polling>>
        /\ memory' = [s \in Session |-> None] /\ pc' = [r \in Request |-> "idle"]
    BY <1>9 DEF Crash
  <2>2. \A t \in Session : Kept(t)
    BY <2>1 DEF Approvers, Pollers, Handed, Busy
  <2>3. QED BY <1>b, <2>1, <2>2, LoginKept
<1>10. ASSUME UNCHANGED vars PROVE Goal
  <2>1. /\ faults = 0 /\ UNCHANGED <<redis, memory, minted, pc, session, handed, approving, polling>>
    BY <1>10 DEF vars, stores
  <2>2. \A t \in Session : Kept(t) BY <2>1 DEF Approvers, Pollers, Handed, Busy
  <2>3. QED BY <1>b, <2>1, <2>2, LoginKept DEF OnceInv
<1>11. QED BY <1>1, <1>2, <1>3, <1>4, <1>5, <1>6, <1>7, <1>8, <1>9, <1>10 DEF Next

LEMMA QrInit == Init => QrInd
<1> SUFFICES ASSUME Init PROVE QrInd OBVIOUS
<1>1. TypeOK /\ LoginInv
  BY NoneAssumption, BoundsAssumption DEF Init, TypeOK, LoginInv, Record
<1>2. \A f \in Family : Holding(f) = {} BY DEF Init, Holding
<1>3. HandedBound BY <1>2, FS_EmptySet, BoundsAssumption DEF Init, HandedBound
<1>4. \A s \in Session : Approvers(s) = {} /\ Pollers(s) = {} /\ Handed(s) = {}
  BY DEF Init, Approvers, Pollers, Handed, Busy
<1>5. OnceInv BY <1>4, NoneAssumption DEF Init, OnceInv, OneLogin, Lone
<1>6. QED BY <1>1, <1>3, <1>5 DEF QrInd

LEMMA QrNext == QrInd /\ [Next]_vars => QrInd'
BY BoundNext, LoginNext, OnceNext DEF QrInd

LEMMA LoneCardinality ==
  ASSUME NEW S, Lone(S)
  PROVE  Cardinality(S) <= 1
<1>1. CASE S = {} BY <1>1, FS_EmptySet
<1>2. CASE S # {}
  <2>1. PICK x : S = {x} BY <1>2 DEF Lone
  <2>2. QED BY <2>1, FS_Singleton
<1>3. QED BY <1>1, <1>2

LEMMA QrSafe == QrInd => QrInv
<1> SUFFICES ASSUME QrInd PROVE HandedOutOnce BY DEF QrInd, QrInv
<1> SUFFICES ASSUME faults = 0, NEW s \in Session \ (approving \cup polling)
             PROVE  /\ \A f \in Family : minted[f] = s => handed[f] <= 1
                    /\ Cardinality(Handed(s)) <= 1
  BY DEF HandedOutOnce, Handed
<1>1. OneLogin(s) BY DEF QrInd, OnceInv
<1>2. handed \in [Family -> Nat] BY BoundsAssumption DEF QrInd, TypeOK
<1>3. QED BY <1>1, <1>2, LoneCardinality DEF OneLogin, Handed

(* While Redis answers, a session approved once and polled by one device   *)
(* at a time hands out the tokens of one approval, once.                   *)
THEOREM QrHandsOutOnce == Spec => []QrInv
BY QrInit, QrNext, QrSafe, PTL DEF Spec

(* A session found consumed in both stores, with no approval of it under   *)
(* way, stays consumed.                                                    *)
LEMMA ConsumedSessions == QrInd /\ [Next]_vars => [ConsumedStep]_vars
<1> SUFFICES ASSUME QrInd, Next, NEW s \in created, redis[s] = None, memory[s] = None,
                    Busy(s, {"mint", "save"}) = {}
             PROVE  redis'[s] = None /\ memory'[s] = None
  BY DEF ConsumedStep
<1> USE NoneAssumption DEF QrInd, TypeOK
<1>1. ASSUME NEW t \in Session, create_qr_login_session(t) PROVE redis'[s] = None /\ memory'[s] = None
  BY <1>1 DEF create_qr_login_session, save_qr_login_record, Write
<1>2. ASSUME NEW t \in Session, Expire(t) PROVE redis'[s] = None /\ memory'[s] = None
  BY <1>2 DEF Expire
<1>3. ASSUME NEW r \in Request, NEW t \in Session, approve_qr_login(r, t) \/ poll_qr_login_session(r, t)
      PROVE  redis'[s] = None /\ memory'[s] = None
  BY <1>3 DEF approve_qr_login, poll_qr_login_session, Begin, stores
<1>4. ASSUME NEW r \in Request, SaveApproval(r) PROVE redis'[s] = None /\ memory'[s] = None
  <2>1. session[r] # s BY <1>4 DEF SaveApproval, Busy
  <2>2. QED BY <1>4, <2>1 DEF SaveApproval, save_qr_login_record, Write
<1>5. ASSUME NEW r \in Request, HandOut(r) PROVE redis'[s] = None /\ memory'[s] = None
  BY <1>5 DEF HandOut, delete_qr_login_record, Write
<1>6. ASSUME NEW r \in Request, Abort(r) \/ \E f \in Family : Mint(r, f)
      PROVE  redis'[s] = None /\ memory'[s] = None
  BY <1>6 DEF Abort, Mint, stores
<1>7. CASE Crash BY <1>7 DEF Crash
<1>8. QED BY <1>1, <1>2, <1>3, <1>4, <1>5, <1>6, <1>7 DEF Next
----------------------------------------------------------------------------
(* Sessions and tokens implement OneTimeUse, step by step. *)
Spent(s) == redis[s] = None /\ memory[s] = None /\ Busy(s, {"mint", "save", "delete"}) = {}
UsesOf(s) ==
  IF Handed(s) = {} THEN 0 ELSE IF \E f \in Handed(s) : Handed(s) = {f} /\ handed[f] = 1 THEN 1 ELSE 2

LEMMA SessionLifeIs ==
  ASSUME NEW s
  PROVE  SessionLife(s) = [stage   |-> IF s \notin created THEN "new" ELSE IF Spent(s) THEN "spent" ELSE "live",
                           uses    |-> UsesOf(s),
                           excused |-> s \in approving \cup polling \/ faults > 0]
BY DEF SessionLife, Spent, UsesOf, Handed

(* A session is created once, and spent for good. *)
LEMMA SessionStage ==
  ASSUME QrInd, Next, NEW s \in Session
  PROVE  /\ s \in created => s \in created' /\ (Spent(s) => Spent(s)')
         /\ s \notin created /\ s \in created' => ~Spent(s)'
         /\ s \in approving => s \in approving'
         /\ s \in polling => s \in polling'
         /\ faults \in Nat /\ faults' \in Nat /\ faults <= faults'
<1> DEFINE Goal == /\ s \in created => s \in created' /\ (Spent(s) => Spent(s)')
                   /\ s \notin created /\ s \in created' => ~Spent(s)'
                   /\ s \in approving => s \in approving'
                   /\ s \in polling => s \in polling'
                   /\ faults' \in Nat /\ faults <= faults'
<1>0. faults \in Nat /\ MaxFault \in Nat BY BoundsAssumption DEF QrInd, TypeOK
<1>a. ASSUME NEW ok, Redis(ok) PROVE faults' \in Nat /\ faults <= faults' BY <1>0, <1>a DEF Redis
<1> USE NoneAssumption DEF QrInd, TypeOK, Spent, Busy
<1>1. ASSUME NEW t \in Session, create_qr_login_session(t) PROVE Goal
  BY <1>0, <1>a, <1>1 DEF create_qr_login_session, save_qr_login_record, Write
<1>2. ASSUME NEW t \in Session, Expire(t) PROVE Goal BY <1>0, <1>2 DEF Expire
<1>3. ASSUME NEW r \in Request, NEW t \in Session, approve_qr_login(r, t) PROVE Goal
  BY <1>0, <1>a, <1>3 DEF approve_qr_login, load_qr_login_record, Begin, stores
<1>4. ASSUME NEW r \in Request, NEW t \in Session, poll_qr_login_session(r, t) PROVE Goal
  BY <1>0, <1>a, <1>4 DEF poll_qr_login_session, load_qr_login_record, Begin, stores
<1>5. ASSUME NEW r \in Request, NEW f \in Family, Mint(r, f) PROVE Goal BY <1>0, <1>5 DEF Mint, stores
<1>6. ASSUME NEW r \in Request, SaveApproval(r) PROVE Goal
  BY <1>0, <1>a, <1>6 DEF SaveApproval, save_qr_login_record, Write, End
<1>7. ASSUME NEW r \in Request, HandOut(r) PROVE Goal
  BY <1>0, <1>a, <1>7 DEF HandOut, delete_qr_login_record, Write, End
<1>8. ASSUME NEW r \in Request, Abort(r) PROVE Goal BY <1>0, <1>8 DEF Abort, stores, End
<1>9. CASE Crash BY <1>0, <1>9 DEF Crash
<1>10. QED BY <1>0, <1>1, <1>2, <1>3, <1>4, <1>5, <1>6, <1>7, <1>8, <1>9 DEF Next

(* Only a poll that hands out tokens uses a session; one that is not       *)
(* excused has not been used before.                                       *)
LEMMA SessionUse ==
  ASSUME QrInd, QrInd', Next, NEW s \in Session
  PROVE  \/ UsesOf(s)' = UsesOf(s)
         \/ /\ s \in created /\ ~Spent(s)
            /\ IF UsesOf(s) = 0 THEN UsesOf(s)' = 1
               ELSE UsesOf(s)' = 2 /\ (s \in approving' \cup polling' \/ faults' > 0)
<1>0. /\ handed \in [Family -> Nat] /\ minted \in [Family -> Session \cup {None}] /\ faults \in Nat
      /\ pc \in [Request -> {"idle", "mint", "save", "delete"}]
  BY BoundsAssumption DEF QrInd, TypeOK
<1>1. ASSUME NEW r \in Request, HandOut(r)
      PROVE  \/ UsesOf(s)' = UsesOf(s)
             \/ /\ s \in created /\ ~Spent(s)
                /\ IF UsesOf(s) = 0 THEN UsesOf(s)' = 1
                   ELSE UsesOf(s)' = 2 /\ (s \in approving' \cup polling' \/ faults' > 0)
  <2> DEFINE f == got[r]
  <2>1. /\ pc[r] = "delete" /\ handed' = [handed EXCEPT ![f] = @ + 1] /\ UNCHANGED <<minted, approving, polling>>
        /\ faults' = 0 => faults = 0
    BY <1>0, <1>1 DEF HandOut, Redis
  <2>2. f \in Family /\ minted[f] = session[r] /\ session[r] \in created BY <2>1 DEF QrInd, LoginInv
  <2> HIDE DEF f
  <2>3. /\ handed'[f] = handed[f] + 1 /\ \A g \in Family : g # f => handed'[g] = handed[g]
    BY <1>0, <2>1, <2>2
  <2>4. CASE session[r] # s
    <3>1. \A g \in Family : minted[g] = s => handed'[g] = handed[g] BY <2>2, <2>3, <2>4
    <3>2. Handed(s)' = Handed(s) BY <2>1, <3>1 DEF Handed
    <3>3. QED BY <3>1, <3>2 DEF UsesOf, Handed
  <2>5. CASE session[r] = s
    <3>1. s \in created /\ ~Spent(s) /\ r \in Pollers(s) BY <2>1, <2>2, <2>5 DEF Spent, Pollers, Busy
    <3>2. Handed(s)' = Handed(s) \cup {f} BY <1>0, <2>1, <2>2, <2>3, <2>5 DEF Handed
    <3>3. CASE Handed(s) = {}
      <4>1. handed[f] = 0 BY <1>0, <2>2, <2>5, <3>3 DEF Handed
      <4>2. UsesOf(s) = 0 /\ UsesOf(s)' = 1 BY <2>3, <3>2, <3>3, <4>1 DEF UsesOf
      <4>3. QED BY <3>1, <4>2
    <3>4. CASE Handed(s) # {}
      <4>1. UsesOf(s)' = 2
        <5>1. \A g \in Handed(s) : handed[g] > 0 /\ handed[g] \in Nat BY <1>0 DEF Handed
        <5>2. ASSUME NEW g, Handed(s) \cup {f} = {g}, handed'[g] = 1 PROVE FALSE
          <6>1. g = f /\ f \in Handed(s) BY <3>4, <5>2
          <6>2. QED BY <2>3, <5>1, <5>2, <6>1
        <5>3. QED BY <3>2, <5>2 DEF UsesOf
      <4>2. s \in approving \cup polling \/ faults # 0
        <5>1. ASSUME s \notin approving \cup polling, faults = 0 PROVE FALSE
          <6>1. OneLogin(s) BY <5>1 DEF QrInd, OnceInv
          <6>2. QED BY <3>1, <3>4, <6>1 DEF OneLogin
        <5>2. QED BY <5>1
      <4>3. faults' \in Nat BY DEF QrInd, TypeOK
      <4>4. UsesOf(s) # 0 BY <3>4 DEF UsesOf
      <4>5. faults # 0 => faults' > 0 BY <2>1, <4>3
      <4>6. QED BY <2>1, <3>1, <4>1, <4>2, <4>4, <4>5
    <3>5. QED BY <3>3, <3>4
  <2>6. QED BY <2>4, <2>5
<1>2. ASSUME NEW r \in Request, NEW f \in Family, Mint(r, f) PROVE UsesOf(s)' = UsesOf(s)
  <2>1. minted[f] = None /\ minted' = [minted EXCEPT ![f] = session[r]] /\ handed' = handed BY <1>2 DEF Mint
  <2>2. handed[f] = 0 BY <2>1 DEF QrInd, LoginInv
  <2>3. Handed(s)' = Handed(s) BY <1>0, <2>1, <2>2, NoneAssumption DEF Handed
  <2>4. QED BY <2>1, <2>3 DEF UsesOf
<1>3. CASE UNCHANGED <<minted, handed>> BY <1>3 DEF UsesOf, Handed
<1>4. UNCHANGED <<minted, handed>> \/ \E r \in Request : HandOut(r) \/ \E f \in Family : Mint(r, f)
  BY DEF Next, create_qr_login_session, Expire, approve_qr_login, poll_qr_login_session, Begin, SaveApproval, Abort,
         Crash
<1>5. QED BY <1>1, <1>2, <1>3, <1>4

LEMMA SessionStep ==
  ASSUME QrInd, QrInd', [Next]_vars, NEW s \in Session
  PROVE  OneTime!Step(SessionLife(s), SessionLife(s)')
<1> DEFINE old == SessionLife(s)
           new == SessionLife(s)'
<1>1. /\ old.stage = IF s \notin created THEN "new" ELSE IF Spent(s) THEN "spent" ELSE "live"
      /\ old.uses = UsesOf(s) /\ old.excused = (s \in approving \cup polling \/ faults > 0)
  BY SessionLifeIs
<1>2. /\ new.stage = IF s \notin created' THEN "new" ELSE IF Spent(s)' THEN "spent" ELSE "live"
      /\ new.uses = UsesOf(s)' /\ new.excused = (s \in approving' \cup polling' \/ faults' > 0)
  BY DEF SessionLife, Spent, UsesOf, Handed
<1> HIDE DEF old, new
<1> USE DEF OneTime!Step, OneTime!Issue, OneTime!Use, OneTime!Spend, OneTime!Rest, OneTime!Several
<1>3. CASE Next
  <2>1. /\ s \in created => s \in created' /\ (Spent(s) => Spent(s)')
        /\ s \notin created /\ s \in created' => ~Spent(s)'
        /\ s \in approving \cup polling => s \in approving' \cup polling'
        /\ faults > 0 => faults' > 0
    BY <1>3, SessionStage
  <2>2. old.excused => new.excused BY <1>1, <1>2, <2>1
  <2>3. CASE UsesOf(s)' = UsesOf(s) BY <1>1, <1>2, <2>1, <2>2, <2>3 DEF old, new
  <2>4. CASE UsesOf(s)' # UsesOf(s)
    <3>1. /\ s \in created /\ ~Spent(s)
          /\ IF UsesOf(s) = 0 THEN UsesOf(s)' = 1
             ELSE UsesOf(s)' = 2 /\ (s \in approving' \cup polling' \/ faults' > 0)
      BY <1>3, <2>4, SessionUse
    <3>2. old.stage = "live" /\ new.stage \in {"live", "spent"} BY <1>1, <1>2, <2>1, <3>1
    <3>3. IF old.uses = 0 THEN new.uses = 1 ELSE new.excused /\ new.uses = 2 BY <1>1, <1>2, <3>1
    <3>4. QED BY <2>2, <3>2, <3>3 DEF old, new
  <2>5. QED BY <2>3, <2>4
<1>4. CASE UNCHANGED vars
  <2>1. Handed(s)' = Handed(s) BY <1>4 DEF vars, Handed
  <2>2. UsesOf(s)' = UsesOf(s) BY <1>4, <2>1 DEF vars, UsesOf
  <2>3. Spent(s)' = Spent(s) BY <1>4 DEF vars, stores, Spent, Busy
  <2>4. new.stage = old.stage /\ new.uses = old.uses /\ new.excused = old.excused
    BY <1>1, <1>2, <1>4, <2>2, <2>3 DEF vars
  <2>5. QED BY <2>4 DEF old, new
<1>5. QED BY <1>3, <1>4

(* The same of a reset token: only a request that hashes uses it, and a    *)
(* token that was used and is not spent was shared or left half used.      *)
LEMMA TokenStep ==
  ASSUME ResetInd, [Reset!Next]_Reset!vars, NEW t \in Token
  PROVE  OneTime!Step(Reset!TokenLife(t), Reset!TokenLife(t)')
<1> DEFINE old == Reset!TokenLife(t)
           new == Reset!TokenLife(t)'
           Gone == key[t] = None /\ Reset!With(t) = {}
<1>0. /\ uses \in [Token -> Nat] /\ broken \in [Token -> Nat] /\ key \in [Token -> User \cup {None}]
      /\ step \in [Request -> {"idle", "hash", "delete"}] /\ token \in [Request -> Token \cup {None}]
      /\ issued \subseteq Token /\ TokenInv
  BY ResetAssumption DEF ResetInd, Reset!ResetInv, Reset!TypeOK
<1>1. /\ old.stage = (IF t \notin issued THEN "new" ELSE IF Gone THEN "spent" ELSE "live")
      /\ old.uses = (IF uses[t] < 2 THEN uses[t] ELSE 2) /\ old.excused = (t \in crossed \/ broken[t] > 0)
  BY DEF Reset!TokenLife
<1>2. /\ new.stage = (IF t \notin issued' THEN "new" ELSE IF Gone' THEN "spent" ELSE "live")
      /\ new.uses = (IF uses'[t] < 2 THEN uses'[t] ELSE 2) /\ new.excused = (t \in crossed' \/ broken'[t] > 0)
  BY DEF Reset!TokenLife
<1> HIDE DEF old, new
<1> DEFINE Kept == /\ t \in issued => t \in issued' /\ (Gone => Gone')
                   /\ t \notin issued /\ t \in issued' => ~Gone'
                   /\ t \in crossed => t \in crossed'
                   /\ broken[t] > 0 => broken'[t] > 0
           Used == /\ t \in issued /\ ~Gone /\ uses'[t] = uses[t] + 1
                   /\ uses[t] = 0 \/ t \in crossed \/ broken[t] > 0
<1> SUFFICES Kept /\ (uses'[t] = uses[t] \/ Used)
  <2>1. ASSUME Kept, uses'[t] = uses[t] PROVE OneTime!Step(old, new)
    BY <1>0, <1>1, <1>2, <2>1 DEF OneTime!Step, OneTime!Issue, OneTime!Spend, OneTime!Rest
  <2>2. ASSUME Kept, Used PROVE OneTime!Step(old, new)
    <3>1. old.stage = "live" /\ new.stage \in {"live", "spent"} BY <1>1, <1>2, <2>2
    <3>2. (old.excused => new.excused) /\ (uses[t] = 0 \/ new.excused) BY <1>1, <1>2, <2>2
    <3>3. IF old.uses = 0 THEN new.uses = 1 ELSE new.uses = 2 BY <1>0, <1>1, <1>2, <2>2
    <3>4. old.uses = 0 <=> uses[t] = 0 BY <1>0, <1>1
    <3>5. QED BY <3>1, <3>2, <3>3, <3>4 DEF OneTime!Step, OneTime!Use, OneTime!Several
  <2>3. QED BY <2>1, <2>2 DEF old, new
<1> USE ResetAssumption DEF TokenInv, Reset!With
<1>3. ASSUME NEW u \in User, Reset!delete_user(u) PROVE Kept /\ uses'[t] = uses[t]
  BY <1>3 DEF Reset!delete_user
<1>4. ASSUME NEW u \in User, NEW o \in Token, Reset!forgot_password(u, o) PROVE Kept /\ uses'[t] = uses[t]
  BY <1>0, <1>4 DEF Reset!forgot_password
<1>5. ASSUME NEW o \in Token, Reset!Expire(o) PROVE Kept /\ uses'[t] = uses[t]
  BY <1>0, <1>5 DEF Reset!Expire
<1>6. ASSUME NEW r \in Request, NEW o \in Token, Reset!reset_password(r, o) PROVE Kept /\ uses'[t] = uses[t]
  BY <1>0, <1>6 DEF Reset!reset_password
<1>7. ASSUME NEW r \in Request, Reset!UpdatePassword(r) PROVE Kept /\ (uses'[t] = uses[t] \/ Used)
  <2>1. step[r] = "hash" /\ token[r] \in issued /\ r \in Reset!With(token[r])
    BY <1>0, <1>7 DEF Reset!UpdatePassword
  <2>2. Kept BY <1>7 DEF Reset!UpdatePassword
  <2>3. uses' = uses \/ uses' = [uses EXCEPT ![token[r]] = @ + 1] BY <1>7 DEF Reset!UpdatePassword
  <2>4. CASE token[r] # t BY <1>0, <2>2, <2>3, <2>4
  <2>5. CASE token[r] = t
    <3>1. t \in issued /\ ~Gone BY <2>1, <2>5
    <3>2. t \in crossed \/ uses[t] <= broken[t] BY <1>0, <2>1, <2>5
    <3>3. uses[t] = 0 \/ t \in crossed \/ broken[t] > 0 BY <1>0, <3>2
    <3>4. uses'[t] = uses[t] \/ uses'[t] = uses[t] + 1 BY <1>0, <2>3, <2>5
    <3>5. QED BY <2>2, <3>1, <3>3, <3>4
  <2>6. QED BY <2>4, <2>5
<1>8. ASSUME NEW r \in Request, Reset!DeleteKey(r) PROVE Kept /\ uses'[t] = uses[t]
  BY <1>0, <1>8 DEF Reset!DeleteKey, Reset!End
<1>9. ASSUME NEW r \in Request, Reset!Abort(r) PROVE Kept /\ uses'[t] = uses[t]
  BY <1>0, <1>9 DEF Reset!Abort, Reset!End
<1>10. CASE UNCHANGED Reset!vars BY <1>10 DEF Reset!vars
<1> HIDE DEF Kept, Used
<1>11. QED BY <1>3, <1>4, <1>5, <1>6, <1>7, <1>8, <1>9, <1>10 DEF Reset!Next

----------------------------------------------------------------------------
(* The four flows side by side: one of them runs, the others stay as they  *)
(* began.                                                                  *)
CredentialsInd ==
  /\ QrInd
  /\ part = "reset" => ResetInd
  /\ part = "access" => AccessInd
  /\ part = "settings" => SettingsInd

mcVars == <<part, vars, resetVars, accessVars, settingVars>>

LEMMA CredentialsInit == MCInit => CredentialsInd
BY QrInit, ResetInit, AccessInit, SettingsInit DEF MCInit, CredentialsInd

LEMMA CredentialsNext == CredentialsInd /\ [MCNext]_mcVars => CredentialsInd'
<1> SUFFICES ASSUME CredentialsInd, [MCNext]_mcVars PROVE CredentialsInd' OBVIOUS
<1>1. part' = part BY DEF MCNext, mcVars
<1>2. [Next]_vars BY DEF MCNext, mcVars
<1>3. part = "reset" => [Reset!Next]_Reset!vars BY DEF MCNext, mcVars, resetVars, Reset!vars
<1>4. part = "access" => [Access!Next]_Access!vars BY DEF MCNext, mcVars, accessVars, Access!vars, Access!tables
<1>5. part = "settings" => [Config!Next]_Config!vars BY DEF MCNext, mcVars, settingVars, Config!vars
<1>6. QED BY <1>1, <1>2, <1>3, <1>4, <1>5, QrNext, ResetNext, AccessNext, SettingsNext DEF CredentialsInd

LEMMA CredentialsInvariant == MCSpec => []CredentialsInd
BY CredentialsInit, CredentialsNext, PTL DEF MCSpec, mcVars

(* Wherever password reset runs, a reset token sets one password. *)
THEOREM ResetRuns == MCSpec => []ResetInv
<1>1. CredentialsInd => ResetInv BY DEF CredentialsInd, ResetInd, ResetInv
<1>2. QED BY <1>1, CredentialsInvariant, PTL

(* Wherever administrators act, a request that acts held the power to. *)
THEOREM AccessRuns == MCSpec => []AccessInv
<1>1. CredentialsInd => AccessInv BY DEF CredentialsInd, AccessInd, AccessInv
<1>2. QED BY <1>1, CredentialsInvariant, PTL

(* Wherever the configuration is edited, answers are whole and changes are *)
(* audited but for the named exceptions.                                   *)
THEOREM SettingsRun == MCSpec => []SettingsInv
<1>1. CredentialsInd => SettingsInv BY DEF CredentialsInd, SettingsInd, SettingsInv
<1>2. QED BY <1>1, CredentialsInvariant, PTL

(* What OneTimeUse is told of a credential. *)
LifeOf(c) ==
  IF part = "qr" /\ c \in Session THEN SessionLife(c)
  ELSE IF part = "reset" /\ c \in Token THEN Reset!TokenLife(c)
  ELSE [stage |-> "new", uses |-> 0, excused |-> FALSE]

LifeOK == \A c \in Session \cup Token : LifeOf(c) \in OneTime!Life

LEMMA LifeType == CredentialsInd => LifeOK
<1> SUFFICES ASSUME CredentialsInd, NEW c \in Session \cup Token PROVE LifeOf(c) \in OneTime!Life BY DEF LifeOK
<1> USE DEF OneTime!Life, OneTime!Several
<1>1. CASE part = "qr" /\ c \in Session
  <2> DEFINE at == IF c \notin created THEN "new" ELSE IF Spent(c) THEN "spent" ELSE "live"
             out == c \in approving \cup polling \/ faults > 0
  <2>1. LifeOf(c) = [stage |-> at, uses |-> UsesOf(c), excused |-> out]
    <3>1. LifeOf(c) = SessionLife(c) BY <1>1 DEF LifeOf
    <3>2. QED BY <3>1, SessionLifeIs
  <2>2. out \in BOOLEAN
    <3>1. faults \in Nat BY BoundsAssumption DEF CredentialsInd, QrInd, TypeOK
    <3>2. QED BY <3>1
  <2>3. UsesOf(c) \in 0..2 BY DEF UsesOf
  <2>4. at \in {"new", "live", "spent"} OBVIOUS
  <2> HIDE DEF at, out
  <2>5. QED BY <2>1, <2>2, <2>3, <2>4
<1>2. CASE ~(part = "qr" /\ c \in Session) /\ part = "reset" /\ c \in Token
  <2> DEFINE at == IF c \notin issued THEN "new"
                   ELSE IF key[c] = None /\ Reset!With(c) = {} THEN "spent" ELSE "live"
             n == IF uses[c] < 2 THEN uses[c] ELSE 2
             out == c \in crossed \/ broken[c] > 0
  <2>1. LifeOf(c) = [stage |-> at, uses |-> n, excused |-> out] BY <1>2 DEF LifeOf, Reset!TokenLife
  <2>2. uses[c] \in Nat /\ broken[c] \in Nat
    BY <1>2, ResetAssumption DEF CredentialsInd, ResetInd, Reset!ResetInv, Reset!TypeOK
  <2>3. out \in BOOLEAN BY <2>2
  <2>4. n \in 0..2 BY <2>2
  <2>5. at \in {"new", "live", "spent"} OBVIOUS
  <2> HIDE DEF at, n, out
  <2>6. QED BY <2>1, <2>3, <2>4, <2>5
<1>3. CASE ~(part = "qr" /\ c \in Session) /\ ~(part = "reset" /\ c \in Token) BY <1>3 DEF LifeOf
<1>4. QED BY <1>1, <1>2, <1>3

LEMMA LifeInit == MCInit => OneTime!Init
<1> SUFFICES ASSUME MCInit, NEW c \in Session \cup Token PROVE LifeOf(c) = OneTime!Unissued
  BY DEF OneTime!Init, LifeOf
<1>1. CASE part = "qr" /\ c \in Session
  <2>1. /\ c \notin created /\ c \notin approving \cup polling /\ ~(faults > 0) /\ \A f \in Family : handed[f] = 0
    BY DEF MCInit, Init
  <2>2. Handed(c) = {} BY <2>1 DEF Handed
  <2>3. QED BY <1>1, <2>1, <2>2, SessionLifeIs DEF LifeOf, OneTime!Unissued, UsesOf
<1>2. CASE part = "reset" /\ c \in Token
  <2>1. c \notin issued /\ c \notin crossed /\ ~(broken[c] > 0) /\ uses[c] = 0 BY <1>2 DEF MCInit, Reset!Init
  <2>2. LifeOf(c) = Reset!TokenLife(c) BY <1>2 DEF LifeOf
  <2>3. (c \in crossed \/ broken[c] > 0) = FALSE BY <2>1
  <2>4. (IF uses[c] < 2 THEN uses[c] ELSE 2) = 0 BY <2>1
  <2>5. QED BY <2>1, <2>2, <2>3, <2>4 DEF OneTime!Unissued, Reset!TokenLife
<1>3. CASE ~(part = "qr" /\ c \in Session) /\ ~(part = "reset" /\ c \in Token)
  BY <1>3 DEF LifeOf, OneTime!Unissued
<1>4. QED BY <1>1, <1>2, <1>3

LEMMA LifeNext ==
  ASSUME CredentialsInd, CredentialsInd', LifeOK', [MCNext]_mcVars
  PROVE  OneTime!Next
<1>1. part' = part BY DEF MCNext, mcVars
<1>2. ASSUME NEW c \in Session \cup Token PROVE OneTime!Step(LifeOf(c), LifeOf(c)')
  <2>1. CASE part = "qr" /\ c \in Session
    <3>1. [Next]_vars BY DEF MCNext, mcVars
    <3>2. OneTime!Step(SessionLife(c), SessionLife(c)') BY <2>1, <3>1, SessionStep DEF CredentialsInd
    <3>3. QED BY <1>1, <2>1, <3>2 DEF LifeOf
  <2>2. CASE part = "reset" /\ c \in Token
    <3>1. [Reset!Next]_Reset!vars BY <2>2 DEF MCNext, mcVars, resetVars, Reset!vars
    <3>2. OneTime!Step(Reset!TokenLife(c), Reset!TokenLife(c)') BY <2>2, <3>1, TokenStep DEF CredentialsInd
    <3>3. QED BY <1>1, <2>2, <3>2 DEF LifeOf
  <2>3. CASE ~(part = "qr" /\ c \in Session) /\ ~(part = "reset" /\ c \in Token)
    <3>1. LifeOf(c)' = LifeOf(c) BY <1>1, <2>3 DEF LifeOf
    <3>2. QED BY <3>1 DEF OneTime!Step, OneTime!Rest
  <2>4. QED BY <2>1, <2>2, <2>3
<1>3. \A c \in Session \cup Token : LifeOf(c)' \in OneTime!Life BY DEF LifeOK, OneTime!Life, OneTime!Several
<1>4. QED BY <1>2, <1>3 DEF OneTime!Next, LifeOf

(* A QR session and a reset token implement a one-time credential: poll    *)
(* and reset use it at most once but for the named excuses, and what is    *)
(* spent stays so.                                                         *)
THEOREM CredentialsAreOneTime == MCSpec => OneTime!Spec
<1>1. CredentialsInd /\ CredentialsInd' /\ LifeOK' /\ [MCNext]_mcVars => OneTime!Next BY LifeNext
<1>2. QED BY <1>1, LifeType, LifeInit, CredentialsInvariant, PTL DEF MCSpec, mcVars, OneTime!Spec

(* A QR session that was consumed and a reset token that was used up are   *)
(* never usable again, whoever is still polling or resetting.              *)
THEOREM SpentIsSpent == MCSpec => SpentStaysSpent
<1>1. CredentialsInd /\ [MCNext]_mcVars =>
        [(part = "qr" => ConsumedStep) /\ (part = "reset" => Reset!SpentStep)]_<<vars, resetVars>>
  <2> SUFFICES ASSUME CredentialsInd, [MCNext]_mcVars, ~UNCHANGED <<vars, resetVars>>
               PROVE  (part = "qr" => ConsumedStep) /\ (part = "reset" => Reset!SpentStep)
    OBVIOUS
  <2>1. part = "qr" => Next /\ UNCHANGED resetVars BY DEF MCNext, mcVars
  <2>2. part = "reset" => Reset!Next /\ UNCHANGED vars BY DEF MCNext, mcVars
  <2>3. resetVars = Reset!vars BY DEF resetVars, Reset!vars
  <2>4. resetVars' = Reset!vars' BY DEF resetVars, Reset!vars
  <2>5. part = "qr" => ConsumedStep BY <2>1, ConsumedSessions DEF CredentialsInd
  <2>6. part = "reset" => Reset!SpentStep BY <2>2, <2>3, <2>4, SpentTokens DEF CredentialsInd
  <2>7. QED BY <2>5, <2>6
<1>2. QED BY <1>1, CredentialsInvariant, CredentialsAreOneTime, PTL DEF MCSpec, SpentStaysSpent, mcVars
=============================================================================
