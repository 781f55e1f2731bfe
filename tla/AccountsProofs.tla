--------------------------- MODULE AccountsProofs ---------------------------
(***************************************************************************)
(* Proofs about Accounts, for any names, any number of concurrent          *)
(* requests and any limits, and about Push, for any users, devices and     *)
(* dispatches at a time.                                                   *)
(***************************************************************************)
EXTENDS MCAccounts, FiniteSetTheorems, TLAPS

(* A request at work has a name and a kind, and neither the setting nor a  *)
(* copy of it is higher than the highest there was.                        *)
Busy ==
  /\ cap <= maxCap
  /\ \A r \in Request : /\ pc[r] # "idle" => name[r] \in Name /\ kind[r] # "none"
                        /\ limit[r] <= maxCap

(* The account of a request that has just made it is still that account.   *)
MakersKnown ==
  \A n \in Name : maker[n] # None =>
    /\ pc[maker[n]] = "made" /\ name[maker[n]] = n /\ n \in users
    /\ ~mustWait[maker[n]] => n \in approved

(* Requests past the count of users, and past the registration limiter.    *)
Counted == {r \in Request : pc[r] = "insert" /\ kind[r] # "setup"}
Admitted == {r \in Request : pc[r] \in {"hash", "count", "insert", "made"} /\ kind[r] # "setup"}

(* What each of them may still add is already accounted for. *)
CapInv ==
  /\ IsFiniteSet(users)
  /\ Cardinality(Registered) + Cardinality(Counted) < maxCap + Cardinality(Request)

RateInv == recent + Cardinality(Admitted) < MaxRecent + Cardinality(Request)

ShapeInv == TypeOK /\ Busy /\ MakersKnown /\ NoTokensBeforeApproval

----------------------------------------------------------------------------
LEMMA ShapeInit == Init => ShapeInv
<1> SUFFICES ASSUME Init PROVE ShapeInv
  OBVIOUS
<1> USE CapsAssumption, NoneAssumption DEF Init
<1>1. TypeOK BY DEF TypeOK
<1>2. Busy BY DEF Busy
<1>3. MakersKnown BY DEF MakersKnown
<1>4. NoTokensBeforeApproval BY DEF NoTokensBeforeApproval
<1>5. QED BY <1>1, <1>2, <1>3, <1>4 DEF ShapeInv

LEMMA LimitsAreNumbers == \A x \in Caps \cup {0} : x \in Nat
  BY CapsAssumption

LEMMA LargerOf ==
  \A a, b \in Nat : LET m == IF a > b THEN a ELSE b IN m \in Nat /\ a <= m /\ b <= m
  OBVIOUS

(* The first step of a request. *)
LEMMA ShapeStart ==
  ASSUME ShapeInv, NEW r \in Request, NEW n \in Name, NEW k \in {"register", "device", "setup"},
         Start(r, k, n), crossed' \in BOOLEAN
  PROVE  ShapeInv'
<1>1. TypeOK' BY DEF Start, accounts, ShapeInv, TypeOK
<1>2. Busy' BY DEF Start, accounts, ShapeInv, TypeOK, Busy
<1>3. MakersKnown' BY DEF Start, accounts, ShapeInv, TypeOK, MakersKnown
<1>4. NoTokensBeforeApproval' BY DEF Start, accounts, ShapeInv, NoTokensBeforeApproval
<1>5. QED BY <1>1, <1>2, <1>3, <1>4 DEF ShapeInv

LEMMA ShapeNext == ShapeInv /\ [Next]_vars => ShapeInv'
<1> SUFFICES ASSUME ShapeInv, [Next]_vars PROVE ShapeInv'
  OBVIOUS
<1> USE NoneAssumption, CapsAssumption
<1>1. ASSUME NEW r \in Request, NEW n \in Name, register(r, n) \/ device_login(r, n) \/ setup_admin(r, n)
      PROVE ShapeInv'
  <2>1. crossed' \in BOOLEAN BY <1>1 DEF ShapeInv, TypeOK, register, device_login, setup_admin
  <2>2. \E k \in {"register", "device", "setup"} : Start(r, k, n)
    BY <1>1 DEF register, device_login, setup_admin
  <2>3. QED BY <2>1, <2>2, ShapeStart
<1>2. ASSUME NEW r \in Request, ReadSettings(r) \/ CountUsers(r) PROVE ShapeInv'
  <2> USE <1>2 DEF ReadSettings, CountUsers, accounts, history, ShapeInv
  <2>1. TypeOK' BY DEF TypeOK
  <2>2. Busy' BY DEF TypeOK, Busy
  <2>3. MakersKnown' BY DEF TypeOK, MakersKnown
  <2>4. NoTokensBeforeApproval' BY DEF NoTokensBeforeApproval
  <2>5. QED BY <2>1, <2>2, <2>3, <2>4
<1>3. ASSUME NEW r \in Request, InsertUser(r) PROVE ShapeInv'
  <2> USE <1>3 DEF InsertUser, accounts, history, ShapeInv
  <2>0. name[r] \in Name /\ kind[r] # "none" BY DEF Busy
  <2>1. TypeOK' BY <2>0 DEF TypeOK
  <2>2. Busy' BY <2>0 DEF TypeOK, Busy
  <2>3. MakersKnown' BY <2>0 DEF TypeOK, MakersKnown
  <2>4. NoTokensBeforeApproval' BY DEF NoTokensBeforeApproval
  <2>5. QED BY <2>1, <2>2, <2>3, <2>4
<1>4. ASSUME NEW r \in Request, Finish(r) PROVE ShapeInv'
  <2> USE <1>4 DEF Finish, Release, End, history, ShapeInv
  <2>0. name[r] \in Name /\ (maker[name[r]] = r => name[r] \in users /\ (~mustWait[r] => name[r] \in approved))
    BY DEF Busy, MakersKnown
  <2>1. TypeOK' BY <2>0 DEF TypeOK
  <2>2. Busy' BY DEF TypeOK, Busy
  <2>3. MakersKnown' BY DEF TypeOK, MakersKnown
  <2>4. NoTokensBeforeApproval' BY <2>0 DEF NoTokensBeforeApproval
  <2>5. QED BY <2>1, <2>2, <2>3, <2>4
<1>5. ASSUME NEW r \in Request, DeviceConflict(r) PROVE ShapeInv'
  <2> USE <1>5 DEF DeviceConflict, Grant, End, history, ShapeInv
  <2>1. TypeOK' BY DEF TypeOK
  <2>2. Busy' BY DEF TypeOK, Busy
  <2>3. MakersKnown' BY DEF TypeOK, MakersKnown
  <2>4. NoTokensBeforeApproval' BY DEF NoTokensBeforeApproval
  <2>5. QED BY <2>1, <2>2, <2>3, <2>4
<1>6. ASSUME NEW r \in Request, Abort(r) PROVE ShapeInv'
  <2> USE <1>6 DEF Abort, Release, End, history, ShapeInv
  <2>1. TypeOK' BY DEF TypeOK
  <2>2. Busy' BY DEF TypeOK, Busy
  <2>3. MakersKnown' BY DEF TypeOK, MakersKnown
  <2>4. NoTokensBeforeApproval' BY DEF NoTokensBeforeApproval
  <2>5. QED BY <2>1, <2>2, <2>3, <2>4
<1>7. ASSUME NEW n \in Name, DeviceKnown(n) \/ approve_user(n) \/ ensure_federated_shadow_user(n)
      PROVE ShapeInv'
  <2> USE <1>7 DEF DeviceKnown, Grant, approve_user, ensure_federated_shadow_user, request, history, ShapeInv
  <2>1. TypeOK' BY DEF TypeOK
  <2>2. Busy' BY DEF TypeOK, Busy
  <2>3. MakersKnown' BY DEF TypeOK, MakersKnown
  <2>4. NoTokensBeforeApproval' BY DEF NoTokensBeforeApproval
  <2>5. QED BY <2>1, <2>2, <2>3, <2>4
<1>8. ASSUME NEW n \in Name, delete_user(n) PROVE ShapeInv'
  <2> USE <1>8 DEF delete_user, request, history, ShapeInv
  <2>1. TypeOK' BY DEF TypeOK
  <2>2. Busy' BY DEF TypeOK, Busy
  <2>3. MakersKnown' BY DEF TypeOK, MakersKnown
  <2>4. NoTokensBeforeApproval' BY DEF NoTokensBeforeApproval
  <2>5. QED BY <2>1, <2>2, <2>3, <2>4
<1>9. ASSUME NEW c \in Caps, set_max_users(c) PROVE ShapeInv'
  <2> USE <1>9 DEF set_max_users, accounts, request, ShapeInv
  <2>1. TypeOK' BY DEF TypeOK
  <2>2. Busy'
    <3>1. c \in Nat /\ maxCap \in Nat BY DEF TypeOK
    <3>2. cap' <= maxCap' /\ maxCap <= maxCap' /\ maxCap' \in Nat BY <3>1, LargerOf
    <3>3. \A r \in Request : limit[r] \in Caps \cup {0} BY DEF TypeOK
    <3>4. \A r \in Request : limit[r] \in Nat BY <3>3, LimitsAreNumbers
    <3>5. \A r \in Request : limit[r] <= maxCap BY DEF Busy
    <3>6. \A r \in Request : limit[r] <= maxCap' BY <3>1, <3>2, <3>4, <3>5
    <3>7. QED BY <3>2, <3>6 DEF Busy
  <2>3. MakersKnown' BY DEF MakersKnown
  <2>4. NoTokensBeforeApproval' BY DEF NoTokensBeforeApproval
  <2>5. QED BY <2>1, <2>2, <2>3, <2>4
<1>10. ASSUME \/ \E b \in BOOLEAN : set_require_approval(b)
              \/ setup_status \/ Forget
       PROVE ShapeInv'
  <2> USE <1>10 DEF set_require_approval, setup_status, Forget, accounts, request, history, ShapeInv
  <2>1. TypeOK'
    <3>1. approval' \in BOOLEAN /\ link' \in BOOLEAN BY DEF TypeOK
    <3>2. recent' \in Nat BY DEF TypeOK
    <3>3. QED BY <3>1, <3>2 DEF TypeOK
  <2>2. Busy' BY DEF TypeOK, Busy
  <2>3. MakersKnown' BY DEF MakersKnown
  <2>4. NoTokensBeforeApproval' BY DEF NoTokensBeforeApproval
  <2>5. QED BY <2>1, <2>2, <2>3, <2>4
<1>11. ASSUME Restart PROVE ShapeInv'
  <2> USE <1>11 DEF Restart, history, ShapeInv
  <2>1. TypeOK' BY DEF TypeOK
  <2>2. Busy' BY DEF TypeOK, Busy
  <2>3. MakersKnown' BY DEF MakersKnown
  <2>4. NoTokensBeforeApproval' BY DEF NoTokensBeforeApproval
  <2>5. QED BY <2>1, <2>2, <2>3, <2>4
<1>12. ASSUME UNCHANGED vars PROVE ShapeInv'
  BY <1>12 DEF vars, accounts, request, history, ShapeInv, TypeOK, Busy, MakersKnown, NoTokensBeforeApproval
<1>13. QED
  BY <1>1, <1>2, <1>3, <1>4, <1>5, <1>6, <1>7, <1>8, <1>9, <1>10, <1>11, <1>12
  DEF Next, RequestStep, Administration

(* The inductive invariant: shapes, and an account just made by a request  *)
(* at work is still the one it made, approved unless it has to wait.       *)
THEOREM ShapeInvHolds == Spec => []ShapeInv
<1>1. QED BY ShapeInit, ShapeNext, PTL DEF Spec

(* No account waits for approval and has tokens. *)
THEOREM TokensAfterApproval == Spec => []NoTokensBeforeApproval
<1>1. ShapeInv => NoTokensBeforeApproval BY DEF ShapeInv
<1>2. QED BY <1>1, ShapeInvHolds, PTL

(* The tables and request records of Accounts keep their shape. *)
THEOREM TypeCorrect == Spec => []TypeOK
<1>1. ShapeInv => TypeOK BY DEF ShapeInv
<1>2. QED BY <1>1, ShapeInvHolds, PTL

----------------------------------------------------------------------------
(* Steps that neither make a local account nor let a request pass the      *)
(* count.                                                                  *)
LEMMA CapKept ==
  ASSUME ShapeInv, CapInv, IsFiniteSet(users'), Registered' \subseteq Registered,
         Counted' \subseteq Counted, maxCap <= maxCap', maxCap' \in Nat
  PROVE  CapInv'
<1>1. IsFiniteSet(Registered) /\ IsFiniteSet(Counted) /\ Cardinality(Request) \in Nat
  BY FS_Subset, FS_CardinalityType, RequestAssumption DEF CapInv, Registered, Counted
<1>2. /\ Cardinality(Registered') <= Cardinality(Registered) /\ IsFiniteSet(Registered')
      /\ Cardinality(Counted') <= Cardinality(Counted) /\ IsFiniteSet(Counted')
  BY <1>1, FS_Subset
<1>3. /\ Cardinality(Registered) \in Nat /\ Cardinality(Counted) \in Nat
      /\ Cardinality(Registered') \in Nat /\ Cardinality(Counted') \in Nat
  BY <1>1, <1>2, FS_CardinalityType
<1>4. maxCap \in Nat BY CapsAssumption DEF ShapeInv, TypeOK
<1>5. Cardinality(Registered') + Cardinality(Counted') < maxCap' + Cardinality(Request)
  BY <1>1, <1>2, <1>3, <1>4 DEF CapInv
<1>6. QED BY <1>5 DEF CapInv

(* A request passes the count: whatever the others have passed, they are   *)
(* no more than all the requests, and one account less than the limit      *)
(* exists.                                                                 *)
LEMMA CapCount ==
  ASSUME ShapeInv, CapInv, NEW r \in Request, CountUsers(r)
  PROVE  CapInv'
<1> USE DEF CountUsers, accounts, history
<1>1. users' = users /\ Registered' = Registered /\ maxCap' = maxCap BY DEF Registered
<1>2. maxCap \in Nat /\ limit[r] \in Nat /\ limit[r] <= maxCap
  <2>1. limit[r] \in Caps \cup {0} BY DEF ShapeInv, TypeOK
  <2>2. QED BY <2>1, LimitsAreNumbers, CapsAssumption DEF ShapeInv, TypeOK, Busy
<1>3. CASE Cardinality(users) < limit[r]
  <2>1. /\ IsFiniteSet(Registered) /\ Cardinality(Registered) <= Cardinality(users)
        /\ Cardinality(users) \in Nat /\ Cardinality(Registered) \in Nat
    BY FS_Subset, FS_CardinalityType DEF CapInv, Registered
  <2>2. Counted' \subseteq Request BY DEF Counted
  <2>3. /\ Cardinality(Counted') <= Cardinality(Request)
        /\ Cardinality(Counted') \in Nat /\ Cardinality(Request) \in Nat
    BY <2>2, FS_Subset, FS_CardinalityType, RequestAssumption
  <2>4. Cardinality(Registered) + Cardinality(Counted') < maxCap + Cardinality(Request)
    BY <1>2, <1>3, <2>1, <2>3
  <2>5. QED BY <1>1, <2>4 DEF CapInv
<1>4. CASE ~(Cardinality(users) < limit[r])
  <2>1. Counted' \subseteq Counted BY <1>4 DEF Counted, ShapeInv, TypeOK
  <2>2. QED BY <1>1, <1>2, <2>1, CapKept DEF CapInv
<1>5. QED BY <1>3, <1>4

(* A request makes its account and may make no other. *)
LEMMA CapInsert ==
  ASSUME ShapeInv, CapInv, NEW r \in Request, InsertUser(r)
  PROVE  CapInv'
<1> USE DEF InsertUser, accounts, history
<1>1. maxCap' = maxCap /\ maxCap \in Nat /\ pc \in [Request -> {"idle", "hash", "count", "insert", "made", "conflict"}]
  BY CapsAssumption DEF ShapeInv, TypeOK
<1>2. IsFiniteSet(users') BY FS_AddElement DEF CapInv
<1>3. Counted' = Counted \ {r} BY <1>1 DEF Counted
<1>4. CASE name[r] \in users \/ kind[r] = "setup"
  <2>1. Registered' \subseteq Registered BY <1>4 DEF Registered
  <2>2. QED BY <1>1, <1>2, <1>3, <2>1, CapKept
<1>5. CASE name[r] \notin users /\ kind[r] # "setup"
  <2>1. Registered' = Registered \cup {name[r]} /\ name[r] \notin Registered
    BY <1>5 DEF Registered, ShapeInv, TypeOK
  <2>2. r \in Counted BY <1>5 DEF Counted
  <2>3. IsFiniteSet(Registered) /\ IsFiniteSet(Counted) /\ Cardinality(Request) \in Nat
    BY FS_Subset, FS_CardinalityType, RequestAssumption DEF CapInv, Registered, Counted
  <2>4. Cardinality(Registered') = Cardinality(Registered) + 1 BY <2>1, <2>3, FS_AddElement
  <2>5. Cardinality(Counted') = Cardinality(Counted) - 1 BY <1>3, <2>2, <2>3, FS_RemoveElement
  <2>6. Cardinality(Registered) \in Nat /\ Cardinality(Counted) \in Nat
    BY <2>3, FS_CardinalityType
  <2>7. Cardinality(Registered') + Cardinality(Counted') < maxCap' + Cardinality(Request)
    BY <1>1, <2>3, <2>4, <2>5, <2>6 DEF CapInv
  <2>8. QED BY <1>2, <2>7 DEF CapInv
<1>6. QED BY <1>4, <1>5

LEMMA CapNext == ShapeInv /\ CapInv /\ [Next]_vars => CapInv'
<1> SUFFICES ASSUME ShapeInv, CapInv, [Next]_vars PROVE CapInv'
  OBVIOUS
<1>1. maxCap \in Nat /\ maxCap <= maxCap BY CapsAssumption DEF ShapeInv, TypeOK
<1>2. pc \in [Request -> {"idle", "hash", "count", "insert", "made", "conflict"}]
      /\ kind \in [Request -> {"none", "register", "device", "setup"}]
  BY DEF ShapeInv, TypeOK
<1>3. ASSUME NEW r \in Request, CountUsers(r) PROVE CapInv' BY <1>3, CapCount
<1>4. ASSUME NEW r \in Request, InsertUser(r) PROVE CapInv' BY <1>4, CapInsert
<1>5. ASSUME NEW r \in Request, NEW n \in Name, register(r, n) \/ device_login(r, n) \/ setup_admin(r, n)
      PROVE CapInv'
  <2> USE <1>5 DEF register, device_login, setup_admin, Start, accounts
  <2>1. users' = users /\ Registered' = Registered /\ maxCap' = maxCap BY DEF Registered
  <2>2. Counted' \subseteq Counted BY <1>2 DEF Counted
  <2>3. QED BY <1>1, <2>1, <2>2, CapKept DEF CapInv
<1>6. ASSUME NEW r \in Request, ReadSettings(r) \/ Finish(r) \/ DeviceConflict(r) \/ Abort(r)
      PROVE CapInv'
  <2> USE <1>6 DEF ReadSettings, Finish, DeviceConflict, Abort, End, accounts, history
  <2>1. users' = users /\ Registered' = Registered /\ maxCap' = maxCap BY DEF Registered
  <2>2. Counted' \subseteq Counted BY <1>2 DEF Counted
  <2>3. QED BY <1>1, <2>1, <2>2, CapKept DEF CapInv
<1>7. ASSUME NEW n \in Name,
             DeviceKnown(n) \/ approve_user(n) \/ ensure_federated_shadow_user(n) \/ delete_user(n)
      PROVE CapInv'
  <2> USE <1>7 DEF DeviceKnown, approve_user, ensure_federated_shadow_user, delete_user, request, history
  <2>1. IsFiniteSet(users') BY FS_AddElement, FS_RemoveElement DEF CapInv
  <2>2. Registered' \subseteq Registered /\ maxCap' = maxCap BY DEF Registered
  <2>3. Counted' = Counted BY DEF Counted
  <2>4. QED BY <1>1, <2>1, <2>2, <2>3, CapKept
<1>8. ASSUME NEW c \in Caps, set_max_users(c) PROVE CapInv'
  <2> USE <1>8 DEF set_max_users, accounts, request
  <2>1. users' = users /\ Registered' = Registered /\ Counted' = Counted BY DEF Registered, Counted
  <2>2. maxCap <= maxCap' /\ maxCap' \in Nat
    <3>1. c \in Nat BY CapsAssumption
    <3>2. QED BY <1>1, <3>1, LargerOf
  <2>3. QED BY <2>1, <2>2, CapKept DEF CapInv
<1>9. ASSUME \/ \E b \in BOOLEAN : set_require_approval(b)
             \/ setup_status \/ Forget \/ Restart
             \/ UNCHANGED vars
      PROVE CapInv'
  <2> USE <1>9 DEF set_require_approval, setup_status, Forget, Restart, vars, accounts, request, history
  <2>1. users' = users /\ Registered' = Registered /\ maxCap' = maxCap BY DEF Registered
  <2>2. Counted' \subseteq Counted BY DEF Counted
  <2>3. QED BY <1>1, <2>1, <2>2, CapKept DEF CapInv
<1>10. QED
  BY <1>3, <1>4, <1>5, <1>6, <1>7, <1>8, <1>9 DEF Next, RequestStep, Administration

(* max_users is passed by less than the number of concurrent requests, for *)
(* any number of them.                                                     *)
THEOREM CapBound == Spec => []CapOvershoot
<1>1. Init => CapInv
  <2> SUFFICES ASSUME Init PROVE CapInv
    OBVIOUS
  <2>1. users = {} /\ Registered = {} /\ Counted = {} /\ maxCap \in Nat \ {0}
    BY CapsAssumption DEF Init, Registered, Counted
  <2>2. Cardinality(Request) \in Nat BY FS_CardinalityType, RequestAssumption
  <2>3. QED BY <2>1, <2>2, FS_EmptySet DEF CapInv
<1>2. ShapeInv /\ CapInv => CapOvershoot
  <2> SUFFICES ASSUME ShapeInv, CapInv PROVE CapOvershoot
    OBVIOUS
  <2>1. IsFiniteSet(Registered) /\ IsFiniteSet(Counted)
    BY FS_Subset, RequestAssumption DEF CapInv, Registered, Counted
  <2>2. /\ Cardinality(Registered) \in Nat /\ Cardinality(Counted) \in Nat
        /\ Cardinality(Request) \in Nat /\ maxCap \in Nat
    BY <2>1, FS_CardinalityType, RequestAssumption, CapsAssumption DEF ShapeInv, TypeOK
  <2>3. QED BY <2>2 DEF CapInv, CapOvershoot
<1>3. QED BY <1>1, <1>2, CapNext, ShapeInvHolds, PTL DEF Spec

----------------------------------------------------------------------------
LEMMA AdmittedCounts ==
  /\ Cardinality(Admitted) \in Nat /\ Cardinality(Admitted') \in Nat
  /\ Cardinality(Request) \in Nat /\ IsFiniteSet(Admitted)
  /\ Cardinality(Admitted') <= Cardinality(Request)
<1>1. Admitted \subseteq Request /\ Admitted' \subseteq Request BY DEF Admitted
<1>2. IsFiniteSet(Admitted) /\ IsFiniteSet(Admitted') BY <1>1, FS_Subset, RequestAssumption
<1>3. QED BY <1>1, <1>2, FS_Subset, FS_CardinalityType, RequestAssumption

(* Steps that neither record a registration nor pass the limiter. *)
LEMMA RateKept ==
  ASSUME RateInv, recent \in Nat, recent' \in Nat, recent' <= recent, Admitted' \subseteq Admitted
  PROVE  RateInv'
<1>1. Cardinality(Admitted') <= Cardinality(Admitted) BY AdmittedCounts, FS_Subset
<1>2. QED BY <1>1, AdmittedCounts, MaxRecentAssumption DEF RateInv

LEMMA RateNext == ShapeInv /\ RateInv /\ [Next]_vars => RateInv'
<1> SUFFICES ASSUME ShapeInv, RateInv, [Next]_vars PROVE RateInv'
  OBVIOUS
<1>1. recent \in Nat BY DEF ShapeInv, TypeOK
<1>2. pc \in [Request -> {"idle", "hash", "count", "insert", "made", "conflict"}]
      /\ kind \in [Request -> {"none", "register", "device", "setup"}]
  BY DEF ShapeInv, TypeOK
<1>3. ASSUME NEW r \in Request, NEW n \in Name, register(r, n) \/ device_login(r, n)
      PROVE RateInv'
  <2>1. recent' = recent /\ recent < MaxRecent
    BY <1>1, <1>3, MaxRecentAssumption DEF register, device_login, RateLimited, Start
  <2>2. QED BY <1>1, <2>1, AdmittedCounts, MaxRecentAssumption DEF RateInv
<1>4. ASSUME NEW r \in Request, NEW n \in Name, setup_admin(r, n) PROVE RateInv'
  <2>1. recent' = recent /\ Admitted' \subseteq Admitted
    BY <1>2, <1>4 DEF setup_admin, Start, Admitted
  <2>2. QED BY <1>1, <2>1, RateKept
<1>5. ASSUME NEW r \in Request,
             ReadSettings(r) \/ CountUsers(r) \/ InsertUser(r) \/ DeviceConflict(r) \/ Abort(r)
      PROVE RateInv'
  <2>1. recent' = recent /\ Admitted' \subseteq Admitted
    BY <1>2, <1>5 DEF ReadSettings, CountUsers, InsertUser, DeviceConflict, Abort, End, Admitted
  <2>2. QED BY <1>1, <2>1, RateKept
<1>6. ASSUME NEW r \in Request, Finish(r) PROVE RateInv'
  <2>1. Admitted' = Admitted \ {r} BY <1>2, <1>6 DEF Finish, End, Admitted
  <2>2. CASE kind[r] = "setup"
    BY <1>1, <1>6, <2>1, <2>2, RateKept DEF Finish
  <2>3. CASE kind[r] # "setup"
    <3>1. r \in Admitted /\ recent' = recent + 1 BY <1>6, <2>3 DEF Finish, Admitted
    <3>2. Cardinality(Admitted') = Cardinality(Admitted) - 1
      BY <2>1, <3>1, AdmittedCounts, FS_RemoveElement
    <3>3. QED BY <1>1, <3>1, <3>2, AdmittedCounts, MaxRecentAssumption DEF RateInv
  <2>4. QED BY <2>2, <2>3
<1>7. ASSUME \/ \E n \in Name : \/ DeviceKnown(n) \/ approve_user(n) \/ delete_user(n)
                                \/ ensure_federated_shadow_user(n)
             \/ \E c \in Caps : set_max_users(c)
             \/ \E b \in BOOLEAN : set_require_approval(b)
             \/ setup_status \/ UNCHANGED vars
      PROVE RateInv'
  <2>1. recent' = recent /\ Admitted' = Admitted
    BY <1>7 DEF DeviceKnown, approve_user, delete_user, ensure_federated_shadow_user, set_max_users,
                set_require_approval, setup_status, vars, request, Admitted
  <2>2. QED BY <1>1, <2>1, RateKept
<1>8. ASSUME Forget \/ Restart PROVE RateInv'
  <2>1. recent' \in Nat /\ recent' <= recent BY <1>1, <1>8 DEF Forget, Restart
  <2>2. Admitted' \subseteq Admitted BY <1>8 DEF Forget, Restart, request, Admitted
  <2>3. QED BY <1>1, <2>1, <2>2, RateKept
<1>9. QED
  BY <1>3, <1>4, <1>5, <1>6, <1>7, <1>8 DEF Next, RequestStep, Administration

(* The registrations of an address within an hour pass the limit by less   *)
(* than the number of concurrent requests.                                 *)
THEOREM RateBound == Spec => []RateOvershoot
<1>1. Init => RateInv
  <2> SUFFICES ASSUME Init PROVE RateInv
    OBVIOUS
  <2>1. recent = 0 /\ Admitted = {} BY DEF Init, Admitted
  <2>2. QED BY <2>1, AdmittedCounts, FS_EmptySet, MaxRecentAssumption DEF RateInv
<1>2. ShapeInv /\ RateInv => RateOvershoot
  BY AdmittedCounts, MaxRecentAssumption DEF ShapeInv, TypeOK, RateInv, RateOvershoot
<1>3. QED BY <1>1, <1>2, RateNext, ShapeInvHolds, PTL DEF Spec

----------------------------------------------------------------------------
(* Unless two setups overlapped there is at most one administrator, and a  *)
(* setup that may still insert one is alone and has none before it.  A     *)
(* setup does not count the users.                                         *)
SetupsCount == {r \in Request : kind[r] = "setup" /\ pc[r] = "count"}
Lone(S) == \A x, y \in S : x = y
BootInv ==
  /\ SetupsCount = {}
  /\ ~crossed => /\ Lone(admins) /\ Lone(SetupsBeforeInsert)
                 /\ SetupsBeforeInsert # {} => admins = {}

(* Steps that add neither an administrator nor a setup. *)
LEMMA BootKept ==
  ASSUME BootInv, crossed' = crossed, admins' \subseteq admins,
         SetupsBeforeInsert' \subseteq SetupsBeforeInsert, SetupsCount' = {}
  PROVE  BootInv'
BY DEF BootInv, Lone

LEMMA BootNext == ShapeInv /\ BootInv /\ [Next]_vars => BootInv'
<1> SUFFICES ASSUME ShapeInv, BootInv, [Next]_vars PROVE BootInv'
  OBVIOUS
<1> DEFINE S == SetupsBeforeInsert
<1>1. pc \in [Request -> {"idle", "hash", "count", "insert", "made", "conflict"}]
      /\ kind \in [Request -> {"none", "register", "device", "setup"}]
  BY DEF ShapeInv, TypeOK
<1>2. ASSUME NEW r \in Request, NEW n \in Name, register(r, n) \/ device_login(r, n)
      PROVE BootInv'
  <2>1. crossed' = crossed /\ admins' = admins /\ S' \subseteq S /\ SetupsCount' = {}
    BY <1>1, <1>2 DEF register, device_login, Start, accounts, SetupsBeforeInsert, SetupsCount, BootInv
  <2>2. QED BY <2>1, BootKept
<1>3. ASSUME NEW r \in Request, NEW n \in Name, setup_admin(r, n) PROVE BootInv'
  <2>1. admins = {} /\ admins' = {} BY <1>3 DEF setup_admin, Start, accounts
  <2>2. S' \subseteq S \cup {r} /\ SetupsCount' = {}
    BY <1>1, <1>3 DEF setup_admin, Start, SetupsBeforeInsert, SetupsCount, BootInv
  <2>3. crossed' <=> crossed \/ S # {} BY <1>3 DEF setup_admin
  <2>4. QED BY <2>1, <2>2, <2>3 DEF BootInv, Lone
<1>4. ASSUME NEW r \in Request,
             ReadSettings(r) \/ CountUsers(r) \/ Finish(r) \/ DeviceConflict(r) \/ Abort(r)
      PROVE BootInv'
  <2>1. crossed' = crossed /\ admins' = admins
    BY <1>4 DEF ReadSettings, CountUsers, Finish, DeviceConflict, Abort, accounts, history
  <2>2. CountUsers(r) => kind[r] # "setup" /\ UNCHANGED kind
    BY DEF CountUsers, BootInv, SetupsCount
  <2>3. S' \subseteq S /\ SetupsCount' = {}
    BY <1>1, <1>4, <2>2 DEF ReadSettings, CountUsers, Finish, DeviceConflict, Abort, End,
                        SetupsBeforeInsert, SetupsCount, BootInv
  <2>4. QED BY <2>1, <2>3, BootKept
<1>5. ASSUME NEW r \in Request, InsertUser(r) PROVE BootInv'
  <2>1. crossed' = crossed /\ S' \subseteq S \ {r} /\ SetupsCount' = {}
    BY <1>1, <1>5 DEF InsertUser, SetupsBeforeInsert, SetupsCount, BootInv, history
  <2>2. CASE kind[r] = "setup"
    <3>1. r \in S /\ admins' \subseteq admins \cup {name[r]}
      BY <1>5, <2>2 DEF InsertUser, accounts, SetupsBeforeInsert, SetupsCount, BootInv
    <3>2. QED BY <2>1, <3>1 DEF BootInv, Lone
  <2>3. CASE kind[r] # "setup"
    <3>1. admins' = admins BY <1>5, <2>3 DEF InsertUser, accounts
    <3>2. QED BY <2>1, <3>1, BootKept
  <2>4. QED BY <2>2, <2>3
<1>6. ASSUME \/ \E n \in Name : \/ DeviceKnown(n) \/ approve_user(n) \/ delete_user(n)
                                \/ ensure_federated_shadow_user(n)
             \/ \E c \in Caps : set_max_users(c)
             \/ \E b \in BOOLEAN : set_require_approval(b)
             \/ setup_status \/ Forget \/ Restart \/ UNCHANGED vars
      PROVE BootInv'
  <2>1. crossed' = crossed /\ admins' \subseteq admins /\ S' \subseteq S /\ SetupsCount' = {}
    BY <1>6 DEF DeviceKnown, approve_user, delete_user, ensure_federated_shadow_user, set_max_users,
                set_require_approval, setup_status, Forget, Restart, vars, request, accounts, history,
                SetupsBeforeInsert, SetupsCount, BootInv
  <2>2. QED BY <2>1, BootKept
<1>7. QED BY <1>2, <1>3, <1>4, <1>5, <1>6 DEF Next, RequestStep, Administration

(* The setup link makes one administrator: across restarts, aborted        *)
(* requests and the deletion of administrators there is a second one only  *)
(* if two setups overlapped before their inserts.                          *)
THEOREM OneFromTheLink == Spec => []OneBootstrap
<1>1. Init => BootInv BY DEF Init, BootInv, Lone, SetupsBeforeInsert, SetupsCount
<1>2. BootInv => OneBootstrap
  <2> SUFFICES ASSUME BootInv, ~crossed PROVE Cardinality(admins) <= 1
    BY DEF OneBootstrap
  <2>1. CASE admins = {} BY <2>1, FS_EmptySet
  <2>2. ASSUME NEW x \in admins PROVE Cardinality(admins) <= 1
    <3>1. admins = {x} BY DEF BootInv, Lone
    <3>2. QED BY <3>1, FS_Singleton
  <2>3. QED BY <2>1, <2>2
<1>3. QED BY <1>1, <1>2, BootNext, ShapeInvHolds, PTL DEF Spec
----------------------------------------------------------------------------
(* Push. *)
Job == [pc : {"idle", "apns", "post", "wait", "done"}, event : {None, "message", "call"},
        user : Owner \cup {None}, ios : SUBSET Ios, hook : SUBSET Token, left : SUBSET Ios,
        failed : BOOLEAN, error : BOOLEAN]
Handler == [pc : {"idle", "got", "send", "ok", "error", "dropped"}, left : SUBSET Ios, failed : BOOLEAN]

PushTypes ==
  /\ config \in Pushes!Config
  /\ rows \in [Token -> Owner \cup {None}] /\ signedIn = rows
  /\ job \in [Dispatch -> Job] /\ relay \in [Dispatch -> Handler]
  /\ sent \in [Dispatch -> [Token -> 0..2]] /\ held \in [Dispatch -> SUBSET Token]

(* The iOS devices the relay has or will have to push to. *)
Given(d) == job[d].hook \cap Ios
ToRelay(d) == IF relay[d].pc \in {"idle", "got"} THEN Given(d) ELSE relay[d].left
Reached(d, S) == \A t \in S : sent[d][t] >= 1

(* Where dispatch and relay are, and what they have of each other. *)
Stages(d) ==
  /\ job[d].pc = "idle" => job[d] = Pushes!NoJob /\ \A t \in Token : sent[d][t] = 0
  /\ relay[d].pc = "idle" => relay[d] = Pushes!NoRequest
  /\ relay[d].pc # "idle" => job[d].pc \in {"wait", "done"}
  /\ relay[d].pc # "send" => relay[d].left = {}
  /\ relay[d].pc = "got" => ~relay[d].failed
  /\ relay[d].left \subseteq Given(d) /\ Given(d) \subseteq job[d].ios /\ job[d].left \subseteq job[d].ios

(* Devices that are pushed to are the recipient's, and of one kind. *)
Aimed(d) ==
  /\ job[d].ios \cup job[d].hook \subseteq held[d]
  /\ \A t \in Token : sent[d][t] > 0 => t \in job[d].ios
  /\ job[d].event = "call" => job[d].ios \subseteq Voip \/ job[d].ios \cap Voip = {}

(* Nothing is sent a second time but after a failure in hybrid mode. *)
Repeats(d) == config.mode = "hybrid" /\ job[d].failed
SentOnce(d) ==
  /\ job[d].pc = "apns" => /\ Given(d) = {} /\ config.mode # "relay" /\ \A t \in job[d].left : sent[d][t] = 0
                           /\ \A t \in Token : sent[d][t] <= 1
  /\ \A t \in ToRelay(d) : sent[d][t] <= 1 /\ (Repeats(d) \/ sent[d][t] = 0)
  /\ ~Repeats(d) => \A t \in Token : sent[d][t] <= 1

(* Every device is reached by APNs or by the relay, or the failure is     *)
(* known.                                                                  *)
Skipped == config.mode = "direct" /\ ~config.apns
Served(d) ==
  /\ job[d].pc = "apns" /\ ~job[d].failed => Reached(d, job[d].ios \ job[d].left)
  /\ job[d].pc \in {"post", "wait"} =>
       job[d].error \/ Skipped \/ Reached(d, job[d].ios) \/ job[d].ios \subseteq Given(d)
  /\ relay[d].pc = "send" /\ ~relay[d].failed => Reached(d, Given(d) \ relay[d].left)
  /\ relay[d].pc = "ok" => Reached(d, Given(d))
  /\ job[d].pc = "done" => job[d].error \/ Skipped \/ Reached(d, job[d].ios)

Dispatched(d) == Stages(d) /\ Aimed(d) /\ SentOnce(d) /\ Served(d)
PushInd == PushTypes /\ \A d \in Dispatch : Dispatched(d)

LEMMA PushInit == Pushes!Init => PushInd
<1> SUFFICES ASSUME Pushes!Init PROVE PushInd OBVIOUS
<1>1. Pushes!NoJob \in Job /\ Pushes!NoRequest \in Handler
  BY DEF Pushes!NoJob, Pushes!NoRequest, Job, Handler
<1>2. PushTypes BY <1>1 DEF Pushes!Init, PushTypes
<1>3. ASSUME NEW d \in Dispatch PROVE Dispatched(d)
  <2>1. job[d] = Pushes!NoJob /\ relay[d] = Pushes!NoRequest /\ \A t \in Token : sent[d][t] = 0
    BY DEF Pushes!Init
  <2>2. /\ job[d].pc = "idle" /\ job[d].ios = {} /\ job[d].hook = {} /\ job[d].left = {} /\ job[d].event = None
        /\ relay[d].pc = "idle" /\ relay[d].left = {}
    BY <2>1 DEF Pushes!NoJob, Pushes!NoRequest
  <2>3. QED
    BY <2>1, <2>2, DeviceAssumption
    DEF Dispatched, Stages, Aimed, SentOnce, Served, Given, ToRelay, Reached, Repeats
<1>4. QED BY <1>2, <1>3 DEF PushInd

(* What is promised of dispatches follows. *)
LEMMA PushSafe == PushInd => Pushes!PushInv
<1> SUFFICES ASSUME PushInd PROVE Pushes!PushInv OBVIOUS
<1>1. Pushes!TypeOK
  BY DeviceAssumption DEF PushInd, PushTypes, Dispatched, Stages, Given, Job, Handler, Pushes!TypeOK
<1>2. Pushes!SuccessReachesAll BY DEF PushInd, Dispatched, Served, Skipped, Reached, Pushes!SuccessReachesAll
<1>3. Pushes!TwiceOnlyAfterFailure
  BY DEF PushInd, PushTypes, Dispatched, SentOnce, Repeats, Pushes!TwiceOnlyAfterFailure
<1>4. Pushes!RingsOneWay
  <2>1. ASSUME NEW d \in Dispatch, job[d].event = "call"
        PROVE  LET rung == {t \in Token : sent[d][t] > 0} IN rung \subseteq Voip \/ rung \cap Voip = {}
    <3>1. Aimed(d) BY DEF PushInd, Dispatched
    <3>2. QED BY <2>1, <3>1 DEF Aimed
  <2>2. QED BY <2>1 DEF Pushes!RingsOneWay
<1>5. Pushes!NotToFormerUser BY DEF PushInd, Dispatched, Aimed, Pushes!NotToFormerUser
<1>6. QED BY <1>1, <1>2, <1>3, <1>4, <1>5 DEF Pushes!PushInv

(* A dispatch that a step leaves alone, but for devices it may count on. *)
LEMMA PushKept ==
  ASSUME NEW d \in Dispatch, Dispatched(d), config' = config, job'[d] = job[d], relay'[d] = relay[d],
         sent'[d] = sent[d], held[d] \subseteq held'[d]
  PROVE  Dispatched(d)'
<1>1. Stages(d)' BY DEF Dispatched, Stages, Given
<1>2. Aimed(d)' BY DEF Dispatched, Aimed
<1>3. SentOnce(d)' BY DEF Dispatched, SentOnce, Given, ToRelay, Repeats
<1>4. Served(d)' BY DEF Dispatched, Served, Given, Reached, Skipped
<1>5. QED BY <1>1, <1>2, <1>3, <1>4 DEF Dispatched

(* A step of one dispatch or of its relay. *)
LEMMA PushStep ==
  ASSUME PushInd, NEW d \in Dispatch, NEW j \in Job, NEW h \in Handler, NEW s \in [Token -> 0..2],
         UNCHANGED <<config, rows, signedIn, held>>,
         job' = [job EXCEPT ![d] = j], relay' = [relay EXCEPT ![d] = h], sent' = [sent EXCEPT ![d] = s],
         Dispatched(d)'
  PROVE  PushInd'
<1>1. PushTypes' BY DEF PushInd, PushTypes
<1>2. ASSUME NEW e \in Dispatch, e # d PROVE Dispatched(e)'
  <2>1. job'[e] = job[e] /\ relay'[e] = relay[e] /\ sent'[e] = sent[e] BY <1>2 DEF PushInd, PushTypes
  <2>2. QED BY <2>1, PushKept DEF PushInd
<1>3. QED BY <1>1, <1>2 DEF PushInd

LEMMA DeviceStep ==
  ASSUME PushInd, NEW u \in Owner, NEW t \in Token, Pushes!register(u, t) \/ Pushes!unregister(u, t)
  PROVE  PushInd'
<1>1. UNCHANGED <<config, job, relay, sent>> BY DEF Pushes!register, Pushes!unregister
<1>2. \A d \in Dispatch : held[d] \subseteq held'[d] /\ held'[d] \subseteq held[d] \cup {t}
  BY DEF Pushes!register, Pushes!unregister
<1>3. held' \in [Dispatch -> SUBSET Token]
  BY <1>2 DEF Pushes!register, Pushes!unregister, PushInd, PushTypes
<1>4. rows' \in [Token -> Owner \cup {None}] /\ signedIn' = rows'
  BY DEF Pushes!register, Pushes!unregister, Pushes!upsert_token, PushInd, PushTypes
<1>5. \A d \in Dispatch : Dispatched(d)' BY <1>1, <1>2, PushKept DEF PushInd
<1>6. QED BY <1>1, <1>3, <1>4, <1>5 DEF PushInd, PushTypes

LEMMA DispatchStep ==
  ASSUME PushInd, NEW d \in Dispatch, NEW u \in Owner, NEW event \in {"message", "call"},
         Pushes!dispatch(d, event, u)
  PROVE  PushInd'
<1> DEFINE ts == Pushes!list_tokens_for_user(u)
           ios == Pushes!IosTargets(event, ts)
           direct == config.mode # "relay" /\ config.apns
           handed == config.mode = "relay" \/ (config.mode = "hybrid" /\ ~config.apns)
           android == {t \in ts : Pushes!is_relay_deliverable_platform(t)}
           hook == IF handed THEN android \cup ios ELSE android
           j == Pushes!Route(event, u, ts)
<1>1. /\ job[d].pc = "idle" /\ job' = [job EXCEPT ![d] = j]
      /\ held' = [held EXCEPT ![d] = {t \in Token : signedIn[t] = u}]
      /\ UNCHANGED <<config, rows, relay, sent, signedIn>>
  BY DEF Pushes!dispatch
<1>2. PushTypes /\ Dispatched(d) BY DEF PushInd
<1>3. ios \subseteq ts \cap Ios /\ android = ts \cap Android /\ ts \subseteq Token
      /\ (event = "call" => ios \subseteq Voip \/ ios \cap Voip = {})
  BY DeviceAssumption DEF Pushes!IosTargets, Pushes!is_relay_deliverable_platform, Pushes!list_tokens_for_user
<1>4. /\ j.pc = (IF ts = {} THEN "done" ELSE IF direct THEN "apns" ELSE "post")
      /\ j.event = event /\ j.user = u /\ j.ios = ios /\ j.hook = hook
      /\ j.left = (IF direct THEN ios ELSE {}) /\ j.failed = FALSE /\ j.error = FALSE
      /\ j \in [pc : {"done", "apns", "post"}, event : {event}, user : {u}, ios : {ios}, hook : {hook},
                left : {IF direct THEN ios ELSE {}}, failed : {FALSE}, error : {FALSE}]
  BY DEF Pushes!Route, Pushes!NoJob
<1>5. {t \in Token : signedIn[t] = u} = ts BY <1>2 DEF PushTypes, Pushes!list_tokens_for_user
<1> HIDE DEF ts, ios, android, hook, j, direct, handed
<1>6. hook \subseteq ts /\ (handed => hook \cap Ios = ios) /\ (~handed => hook \cap Ios = {})
  BY <1>3, DeviceAssumption DEF hook
<1>7. j \in Job
  BY <1>3, <1>4, <1>6, DeviceAssumption DEF Job
<1>8. job'[d] = j /\ held'[d] = ts BY <1>1, <1>2, <1>5 DEF PushTypes
<1>9. /\ \A t \in Token : sent'[d][t] = 0
      /\ relay'[d] = Pushes!NoRequest /\ relay'[d].pc = "idle" /\ relay'[d].left = {}
  BY <1>1, <1>2 DEF Dispatched, Stages, Pushes!NoRequest
<1>10. Given(d)' = hook \cap Ios BY <1>4, <1>8 DEF Given
<1>11. Stages(d)' BY <1>3, <1>4, <1>6, <1>8, <1>9, <1>10 DEF Stages
<1>12. Aimed(d)' BY <1>3, <1>4, <1>6, <1>8, <1>9 DEF Aimed
<1>13. SentOnce(d)'
  <2>1. j.pc = "apns" => ~handed /\ config'.mode # "relay" BY <1>1, <1>4 DEF direct, handed
  <2>2. QED BY <1>3, <1>4, <1>6, <1>8, <1>9, <1>10, <2>1, DeviceAssumption DEF SentOnce, ToRelay
<1>14. Served(d)'
  <2>1. ~direct => handed \/ Skipped
    BY <1>2 DEF direct, handed, Skipped, PushTypes, Pushes!Config
  <2>2. config' = config BY <1>1
  <2>3. ts = {} => ios = {} BY <1>3
  <2>4. QED BY <1>4, <1>6, <1>8, <1>9, <1>10, <2>1, <2>2, <2>3 DEF Served, Reached, Skipped
<1>15. Dispatched(d)' BY <1>11, <1>12, <1>13, <1>14 DEF Dispatched
<1>16. \A e \in Dispatch \ {d} : Dispatched(e)'
  <2> TAKE e \in Dispatch \ {d}
  <2>1. job'[e] = job[e] /\ held'[e] = held[e] BY <1>1, <1>2 DEF PushTypes
  <2>2. QED BY <1>1, <2>1, PushKept DEF PushInd
<1>17. PushTypes'
  <2>1. ts \in SUBSET Token BY <1>3
  <2>2. QED BY <1>1, <1>2, <1>5, <1>7, <2>1 DEF PushTypes
<1>18. QED BY <1>15, <1>16, <1>17 DEF PushInd

(* What a push to APNs adds to the pushes of a dispatch. *)
LEMMA PushCounts ==
  ASSUME PushInd, NEW d \in Dispatch, NEW t \in Token, NEW o \in Pushes!Outcome,
         sent[d][t] <= 1, Pushes!SentBy(d, t, o)
  PROVE  \E s \in [Token -> 0..2] :
           /\ sent' = [sent EXCEPT ![d] = s] /\ \A x \in Token \ {t} : s[x] = sent[d][x]
           /\ s[t] >= sent[d][t] /\ s[t] <= sent[d][t] + 1
           /\ o = "accepted" => s[t] = sent[d][t] + 1
<1>1. sent \in [Dispatch -> [Token -> 0..2]] /\ sent[d] \in [Token -> 0..2] BY DEF PushInd, PushTypes
<1>2. CASE o # "refused" /\ sent' = [sent EXCEPT ![d][t] = @ + 1]
  <2> DEFINE s == [sent[d] EXCEPT ![t] = @ + 1]
  <2>1. sent' = [sent EXCEPT ![d] = s] BY <1>1, <1>2
  <2>2. s \in [Token -> 0..2] /\ s[t] = sent[d][t] + 1 /\ \A x \in Token \ {t} : s[x] = sent[d][x] BY <1>1
  <2>3. sent[d][t] \in Nat BY <1>1
  <2> HIDE DEF s
  <2>4. s[t] >= sent[d][t] /\ s[t] <= sent[d][t] + 1 BY <2>2, <2>3
  <2>5. s \in [Token -> 0..2] BY <2>2
  <2> WITNESS s \in [Token -> 0..2]
  <2>6. QED BY <2>1, <2>2, <2>4
<1>3. CASE o # "accepted" /\ UNCHANGED sent
  <2>1. sent' = [sent EXCEPT ![d] = sent[d]] BY <1>1, <1>3
  <2>2. sent[d][t] \in Nat BY <1>1
  <2>3. QED BY <1>1, <1>3, <2>1, <2>2
<1>4. QED BY <1>2, <1>3 DEF Pushes!SentBy

LEMMA ApnsStep ==
  ASSUME PushInd, NEW d \in Dispatch, Pushes!send_to_tokens(d)
  PROVE  PushInd'
<1>1. PICK t \in job[d].left, o \in Pushes!Outcome :
        Pushes!SentBy(d, t, o) /\ job' = [job EXCEPT ![d] = Pushes!AfterSend(@, t, o)]
  BY DEF Pushes!send_to_tokens
<1>2. job[d].pc = "apns" /\ UNCHANGED <<config, rows, relay, signedIn, held>> BY DEF Pushes!send_to_tokens
<1>3. PushTypes /\ Dispatched(d) BY DEF PushInd
<1>4. t \in Token /\ t \in job[d].ios /\ sent[d][t] = 0
  BY <1>1, <1>2, <1>3, DeviceAssumption DEF Dispatched, Stages, SentOnce, PushTypes, Job
<1>5. PICK s \in [Token -> 0..2] :
        /\ sent' = [sent EXCEPT ![d] = s] /\ \A x \in Token \ {t} : s[x] = sent[d][x]
        /\ s[t] >= 0 /\ s[t] <= 1 /\ (o = "accepted" => s[t] = 1)
  BY <1>1, <1>4, PushCounts
<1> DEFINE j == Pushes!AfterSend(job[d], t, o)
<1>6. job[d] \in Job BY <1>3 DEF PushTypes
<1>7. /\ j \in Job
      /\ j.pc = "apns" /\ j.event = job[d].event /\ j.ios = job[d].ios /\ j.hook = job[d].hook
      /\ j.left = (IF o = "unreachable" THEN {} ELSE job[d].left \ {t})
      /\ j.failed = (job[d].failed \/ o # "accepted") /\ j.error = job[d].error
  BY <1>2, <1>6 DEF Pushes!AfterSend, Job
<1>8. job' = [job EXCEPT ![d] = j] BY <1>1
<1> HIDE DEF j
<1>9. job'[d] = j /\ sent'[d] = s /\ relay'[d] = relay[d] /\ held' = held /\ config' = config
  BY <1>2, <1>3, <1>5, <1>8 DEF PushTypes
<1>10. relay' = [relay EXCEPT ![d] = relay[d]] /\ relay[d] \in Handler BY <1>2, <1>3 DEF PushTypes
<1>11. relay[d].pc = "idle" /\ relay[d].left = {} BY <1>2, <1>3 DEF Dispatched, Stages
<1>12. Given(d)' = {} /\ Given(d) = {} BY <1>2, <1>3, <1>7, <1>9 DEF Given, Dispatched, SentOnce
<1>13. \A x \in Token : sent[d][x] \in Nat /\ s[x] \in Nat BY <1>3, <1>5 DEF PushTypes
<1>14. Stages(d)' BY <1>2, <1>3, <1>7, <1>9, <1>11, <1>12 DEF Dispatched, Stages
<1>15. Aimed(d)' BY <1>3, <1>4, <1>5, <1>7, <1>9 DEF Dispatched, Aimed
<1>16. SentOnce(d)'
  <2>1. \A x \in Token : s[x] <= 1 BY <1>2, <1>3, <1>5 DEF Dispatched, SentOnce
  <2>2. \A x \in j.left : s[x] = 0
    BY <1>2, <1>3, <1>5, <1>6, <1>7, DeviceAssumption DEF Dispatched, SentOnce, Job
  <2>3. QED BY <1>2, <1>3, <1>7, <1>9, <1>11, <1>12, <2>1, <2>2 DEF Dispatched, SentOnce, ToRelay
<1>17. Served(d)'
  <2>1. ~j.failed => \A x \in j.ios \ j.left : s[x] >= 1
    <3> SUFFICES ASSUME ~j.failed, NEW x \in j.ios \ j.left PROVE s[x] >= 1 OBVIOUS
    <3>1. o = "accepted" /\ ~job[d].failed BY <1>7
    <3>2. x = t \/ x \in job[d].ios \ job[d].left BY <1>7, <3>1
    <3>3. x \in Token BY <1>6, <1>7, DeviceAssumption DEF Job
    <3>4. QED BY <1>2, <1>3, <1>5, <3>1, <3>2, <3>3 DEF Dispatched, Served, Reached
  <2>2. QED BY <1>7, <1>9, <1>11, <2>1 DEF Served, Reached
<1>18. Dispatched(d)' BY <1>14, <1>15, <1>16, <1>17 DEF Dispatched
<1>19. QED BY <1>2, <1>5, <1>7, <1>8, <1>10, <1>18, PushStep

LEMMA RelaySendStep ==
  ASSUME PushInd, NEW d \in Dispatch, Pushes!relay_send(d)
  PROVE  PushInd'
<1>1. PICK t \in relay[d].left, o \in Pushes!Outcome :
        Pushes!SentBy(d, t, o) /\ relay' = [relay EXCEPT ![d] = Pushes!AfterSend(@, t, o)]
  BY DEF Pushes!relay_send
<1>2. relay[d].pc = "send" /\ UNCHANGED <<config, rows, job, signedIn, held>> BY DEF Pushes!relay_send
<1>3. PushTypes /\ Dispatched(d) BY DEF PushInd
<1>4. job[d].pc \in {"wait", "done"} /\ relay[d].left \subseteq Given(d) /\ Given(d) \subseteq job[d].ios
  BY <1>2, <1>3 DEF Dispatched, Stages
<1>5. /\ t \in Token /\ t \in job[d].ios /\ t \in Given(d) /\ Given(d) \subseteq Token
      /\ sent[d][t] <= 1 /\ (Repeats(d) \/ sent[d][t] = 0)
  BY <1>1, <1>2, <1>3, <1>4, DeviceAssumption DEF Dispatched, SentOnce, ToRelay, PushTypes, Job, Given
<1>6. PICK s \in [Token -> 0..2] :
        /\ sent' = [sent EXCEPT ![d] = s] /\ \A x \in Token \ {t} : s[x] = sent[d][x]
        /\ s[t] >= sent[d][t] /\ s[t] <= sent[d][t] + 1 /\ (o = "accepted" => s[t] = sent[d][t] + 1)
  BY <1>1, <1>5, PushCounts
<1> DEFINE h == Pushes!AfterSend(relay[d], t, o)
<1>7. relay[d] \in Handler /\ job[d] \in Job BY <1>3 DEF PushTypes
<1>8. /\ h \in Handler /\ h.pc = "send"
      /\ h.left = (IF o = "unreachable" THEN {} ELSE relay[d].left \ {t})
      /\ h.failed = (relay[d].failed \/ o # "accepted")
  BY <1>2, <1>7 DEF Pushes!AfterSend, Handler
<1>9. relay' = [relay EXCEPT ![d] = h] BY <1>1
<1> HIDE DEF h
<1>10. job'[d] = job[d] /\ sent'[d] = s /\ relay'[d] = h /\ held' = held /\ config' = config
  BY <1>2, <1>3, <1>6, <1>9 DEF PushTypes
<1>11. job' = [job EXCEPT ![d] = job[d]] BY <1>2, <1>3 DEF PushTypes
<1>12. Given(d)' = Given(d) /\ (Repeats(d)' <=> Repeats(d)) BY <1>10 DEF Given, Repeats
<1>13. \A x \in Token : sent[d][x] \in Nat /\ s[x] \in Nat /\ s[x] >= sent[d][x]
  <2>1. \A x \in Token : sent[d][x] \in Nat /\ s[x] \in Nat BY <1>3, <1>6 DEF PushTypes
  <2>2. QED BY <1>6, <2>1
<1>14. Stages(d)' BY <1>4, <1>3, <1>8, <1>10, <1>12 DEF Dispatched, Stages
<1>15. Aimed(d)' BY <1>3, <1>5, <1>6, <1>10 DEF Dispatched, Aimed
<1>16. SentOnce(d)'
  <2>1. \A x \in h.left : x \in relay[d].left /\ x # t BY <1>8
  <2>2. \A x \in h.left : s[x] <= 1 /\ (Repeats(d) \/ s[x] = 0)
    BY <1>2, <1>3, <1>4, <1>5, <1>6, <2>1 DEF Dispatched, SentOnce, ToRelay
  <2>3. ~Repeats(d) => \A x \in Token : s[x] <= 1
    BY <1>3, <1>5, <1>6 DEF Dispatched, SentOnce
  <2>4. QED BY <1>4, <1>8, <1>10, <1>12, <2>2, <2>3 DEF SentOnce, ToRelay
<1>17. Served(d)'
  <2>1. ~h.failed => \A x \in Given(d) \ h.left : s[x] >= 1
    <3> SUFFICES ASSUME ~h.failed, NEW x \in Given(d) \ h.left PROVE s[x] >= 1 OBVIOUS
    <3>1. o = "accepted" /\ ~relay[d].failed BY <1>8
    <3>2. x = t \/ x \in Given(d) \ relay[d].left BY <1>8, <3>1
    <3>3. CASE x = t BY <1>5, <1>6, <1>13, <3>1, <3>3
    <3>4. CASE x \in Given(d) \ relay[d].left
      BY <1>2, <1>3, <1>5, <1>13, <3>1, <3>4 DEF Dispatched, Served, Reached
    <3>5. QED BY <3>2, <3>3, <3>4
  <2>2. Reached(d, job[d].ios) => Reached(d, job[d].ios)'
    BY <1>7, <1>10, <1>13, DeviceAssumption DEF Reached, Job
  <2>3. QED BY <1>3, <1>4, <1>8, <1>10, <1>12, <2>1, <2>2 DEF Dispatched, Served, Reached, Skipped
<1>18. Dispatched(d)' BY <1>14, <1>15, <1>16, <1>17 DEF Dispatched
<1>19. QED BY <1>2, <1>6, <1>7, <1>8, <1>9, <1>11, <1>18, PushStep

(* Steps of a dispatch in which nothing is sent. *)
LEMMA JobStep ==
  ASSUME PushInd, NEW d \in Dispatch, NEW j \in Job, NEW h \in Handler,
         UNCHANGED <<config, rows, signedIn, held, sent>>,
         job' = [job EXCEPT ![d] = j], relay' = [relay EXCEPT ![d] = h],
         job'[d] = j /\ relay'[d] = h => Dispatched(d)'
  PROVE  PushInd'
<1>1. sent' = [sent EXCEPT ![d] = sent[d]] /\ sent[d] \in [Token -> 0..2] BY DEF PushInd, PushTypes
<1>2. job'[d] = j /\ relay'[d] = h BY DEF PushInd, PushTypes
<1>3. QED BY <1>1, <1>2, PushStep

LEMMA ApnsDoneStep ==
  ASSUME PushInd, NEW d \in Dispatch, Pushes!apns_done(d)
  PROVE  PushInd'
<1> DEFINE j == Pushes!Fallback(job[d])
           all == job[d].failed /\ config.mode = "hybrid"
<1>1. /\ job[d].pc = "apns" /\ job[d].left = {} /\ job' = [job EXCEPT ![d] = j]
      /\ UNCHANGED <<config, rows, relay, sent, signedIn, held>>
  BY DEF Pushes!apns_done
<1>2. PushTypes /\ Dispatched(d) /\ job[d] \in Job /\ relay[d] \in Handler /\ relay' = [relay EXCEPT ![d] = relay[d]]
  BY <1>1 DEF PushInd, PushTypes
<1>3. /\ j.pc = "post" /\ j.event = job[d].event /\ j.ios = job[d].ios /\ j.left = job[d].left
      /\ j.failed = job[d].failed /\ j.error = (job[d].error \/ (job[d].failed /\ config.mode = "direct"))
      /\ j.hook = (IF all THEN job[d].hook \cup job[d].ios ELSE job[d].hook)
      /\ j \in Job
  BY <1>2, DeviceAssumption DEF Pushes!Fallback, Job
<1> HIDE DEF j
<1>4. SUFFICES ASSUME job'[d] = j, relay'[d] = relay[d] PROVE Dispatched(d)' BY <1>1, <1>2, <1>3, JobStep
<1>5. relay[d].pc = "idle" /\ relay[d].left = {} /\ Given(d) = {} /\ (all <=> Repeats(d))
  BY <1>1, <1>2 DEF Dispatched, Stages, SentOnce, Repeats
<1>6. Given(d)' = (IF all THEN job[d].ios ELSE {}) /\ (Repeats(d)' <=> Repeats(d))
  BY <1>1, <1>2, <1>3, <1>4, <1>5 DEF Given, Repeats, Job
<1>7. Stages(d)' BY <1>1, <1>2, <1>3, <1>4, <1>5, <1>6 DEF Dispatched, Stages
<1>8. Aimed(d)' BY <1>1, <1>2, <1>3, <1>4 DEF Dispatched, Aimed
<1>9. SentOnce(d)'
  <2>1. \A t \in Token : sent'[d][t] <= 1 BY <1>1, <1>2 DEF Dispatched, SentOnce
  <2>2. job[d].ios \subseteq Token BY <1>2, DeviceAssumption DEF Job
  <2>3. QED BY <1>3, <1>4, <1>5, <1>6, <2>1, <2>2 DEF SentOnce, ToRelay
<1>10. Served(d)'
  <2>1. ~job[d].failed => Reached(d, job[d].ios) BY <1>1, <1>2 DEF Dispatched, Served, Reached
  <2>2. job[d].failed => config.mode \in {"direct", "hybrid"}
    <3>1. config.mode \in {"relay", "direct", "hybrid"} BY <1>2 DEF PushTypes, Pushes!Config
    <3>2. config.mode # "relay" BY <1>1, <1>2 DEF Dispatched, SentOnce
    <3>3. QED BY <3>1, <3>2
  <2>3. j.error \/ Reached(d, job[d].ios) \/ j.ios \subseteq Given(d)'
    <3>1. CASE ~job[d].failed BY <2>1, <3>1
    <3>2. CASE job[d].failed /\ config.mode = "direct" BY <1>3, <3>2
    <3>3. CASE job[d].failed /\ config.mode = "hybrid" BY <1>3, <1>6, <3>3
    <3>4. QED BY <2>2, <3>1, <3>2, <3>3
  <2>4. QED BY <1>1, <1>3, <1>4, <1>5, <2>3 DEF Served, Reached
<1>11. QED BY <1>7, <1>8, <1>9, <1>10 DEF Dispatched

LEMMA PostStep ==
  ASSUME PushInd, NEW d \in Dispatch, Pushes!send_webhook_push(d) \/ Pushes!webhook_answer(d)
  PROVE  PushInd'
<1>1. PushTypes /\ Dispatched(d) /\ job[d] \in Job /\ relay[d] \in Handler BY DEF PushInd, PushTypes
<1>2. UNCHANGED <<config, rows, sent, signedIn, held>>
  BY DEF Pushes!send_webhook_push, Pushes!webhook_answer
<1>3. ASSUME NEW err \in BOOLEAN, job' = [job EXCEPT ![d] = Pushes!Ends(d, err)], UNCHANGED relay,
             job[d].pc \in {"post", "wait"}, err \/ job[d].hook = {} \/ relay[d].pc = "ok"
      PROVE  PushInd'
  <2> DEFINE j == Pushes!Ends(d, err)
  <2>1. /\ j \in Job /\ j.pc = "done" /\ j.event = job[d].event /\ j.ios = job[d].ios /\ j.left = job[d].left
        /\ j.failed = job[d].failed /\ j.error = (job[d].error \/ err) /\ j.hook = job[d].hook
    BY <1>1 DEF Pushes!Ends, Job
  <2>2. job' = [job EXCEPT ![d] = j] /\ relay' = [relay EXCEPT ![d] = relay[d]] BY <1>1, <1>3 DEF PushTypes
  <2> HIDE DEF j
  <2>3. SUFFICES ASSUME job'[d] = j, relay'[d] = relay[d] PROVE Dispatched(d)' BY <1>1, <1>2, <2>1, <2>2, JobStep
  <2>4. Given(d)' = Given(d) /\ (Repeats(d)' <=> Repeats(d)) BY <1>2, <2>1, <2>3 DEF Given, Repeats
  <2>5. Stages(d)' BY <1>1, <1>3, <2>1, <2>3, <2>4 DEF Dispatched, Stages
  <2>6. Aimed(d)' BY <1>1, <1>2, <2>1, <2>3 DEF Dispatched, Aimed
  <2>7. SentOnce(d)' BY <1>1, <1>2, <2>1, <2>3, <2>4 DEF Dispatched, SentOnce, ToRelay
  <2>8. Served(d)'
    <3>1. job[d].error \/ Skipped \/ Reached(d, job[d].ios) \/ job[d].ios \subseteq Given(d)
      BY <1>1, <1>3 DEF Dispatched, Served
    <3>2. relay[d].pc = "ok" => Reached(d, Given(d)) BY <1>1 DEF Dispatched, Served
    <3>3. err \/ job[d].error \/ Skipped \/ Reached(d, job[d].ios)
      BY <1>3, <3>1, <3>2 DEF Reached, Given
    <3>4. QED BY <1>1, <1>2, <2>1, <2>3, <2>4, <3>3 DEF Dispatched, Served, Reached, Skipped
  <2>9. QED BY <2>5, <2>6, <2>7, <2>8 DEF Dispatched
<1>4. ASSUME job[d].pc = "post", job' = [job EXCEPT ![d].pc = "wait"], relay' = [relay EXCEPT ![d].pc = "got"]
      PROVE  PushInd'
  <2> DEFINE j == [job[d] EXCEPT !.pc = "wait"]
             h == [relay[d] EXCEPT !.pc = "got"]
  <2>1. /\ j \in Job /\ j.pc = "wait" /\ j.event = job[d].event /\ j.ios = job[d].ios /\ j.left = job[d].left
        /\ j.failed = job[d].failed /\ j.error = job[d].error /\ j.hook = job[d].hook
        /\ h \in Handler /\ h.pc = "got" /\ h.left = relay[d].left /\ h.failed = relay[d].failed
    BY <1>1 DEF Job, Handler
  <2>2. job' = [job EXCEPT ![d] = j] /\ relay' = [relay EXCEPT ![d] = h] BY <1>1, <1>4 DEF PushTypes
  <2> HIDE DEF j, h
  <2>3. SUFFICES ASSUME job'[d] = j, relay'[d] = h PROVE Dispatched(d)' BY <1>1, <1>2, <2>1, <2>2, JobStep
  <2>4. Given(d)' = Given(d) /\ (Repeats(d)' <=> Repeats(d)) BY <1>2, <2>1, <2>3 DEF Given, Repeats
  <2>5. relay[d].pc = "idle" /\ relay[d].left = {} /\ ~relay[d].failed
    <3>1. relay[d] = Pushes!NoRequest BY <1>1, <1>4 DEF Dispatched, Stages
    <3>2. QED BY <3>1 DEF Pushes!NoRequest
  <2>6. Stages(d)' BY <1>1, <2>1, <2>3, <2>4, <2>5 DEF Dispatched, Stages
  <2>7. Aimed(d)' BY <1>1, <1>2, <2>1, <2>3 DEF Dispatched, Aimed
  <2>8. SentOnce(d)' BY <1>1, <1>2, <2>1, <2>3, <2>4, <2>5 DEF Dispatched, SentOnce, ToRelay
  <2>9. Served(d)' BY <1>1, <1>2, <1>4, <2>1, <2>3, <2>4 DEF Dispatched, Served, Reached, Skipped
  <2>10. QED BY <2>6, <2>7, <2>8, <2>9 DEF Dispatched
<1>5. CASE Pushes!send_webhook_push(d) BY <1>3, <1>4, <1>5 DEF Pushes!send_webhook_push
<1>6. CASE Pushes!webhook_answer(d) BY <1>3, <1>6 DEF Pushes!webhook_answer
<1>7. QED BY <1>5, <1>6

(* Steps of the relay in which nothing is sent. *)
LEMMA RelayStep ==
  ASSUME PushInd, NEW d \in Dispatch, NEW h \in Handler,
         UNCHANGED <<config, rows, job, sent, signedIn, held>>, relay' = [relay EXCEPT ![d] = h],
         relay[d].pc \in {"got", "send"}, h.pc \notin {"idle", "got"},
         h.pc # "send" => h.left = {},
         h.left # {} => relay[d].pc = "got" /\ h.left = Given(d),
         h.pc = "send" /\ ~h.failed => Reached(d, Given(d) \ h.left),
         h.pc = "ok" => Reached(d, Given(d))
  PROVE  PushInd'
<1>1. Dispatched(d) /\ job[d] \in Job /\ job' = [job EXCEPT ![d] = job[d]] BY DEF PushInd, PushTypes
<1>2. SUFFICES ASSUME job'[d] = job[d], relay'[d] = h PROVE Dispatched(d)' BY <1>1, JobStep
<1>3. Given(d)' = Given(d) /\ (Repeats(d)' <=> Repeats(d)) BY DEF Given, Repeats
<1>4. Stages(d)' BY <1>1, <1>2, <1>3 DEF Dispatched, Stages
<1>5. Aimed(d)' BY <1>1, <1>2 DEF Dispatched, Aimed
<1>6. SentOnce(d)' BY <1>1, <1>2, <1>3 DEF Dispatched, SentOnce, ToRelay, Stages
<1>7. Served(d)' BY <1>1, <1>2, <1>3 DEF Dispatched, Served, Reached, Skipped
<1>8. QED BY <1>4, <1>5, <1>6, <1>7 DEF Dispatched

LEMMA WebhookStep ==
  ASSUME PushInd, NEW d \in Dispatch, Pushes!webhook(d)
  PROVE  PushInd'
<1>1. PushTypes /\ Dispatched(d) /\ relay[d] \in Handler BY DEF PushInd, PushTypes
<1>2. relay[d].pc = "got" /\ relay[d].left = {} /\ UNCHANGED <<config, rows, job, sent, signedIn, held>>
  BY <1>1 DEF Pushes!webhook, Dispatched, Stages
<1>3. Pushes!RelayTargets(d) = Given(d) /\ Given(d) \subseteq Ios BY DEF Pushes!RelayTargets, Given
<1>4. ASSUME NEW p \in {"ok", "error"}, relay' = [relay EXCEPT ![d].pc = p], p = "ok" => Given(d) = {}
      PROVE  PushInd'
  <2> DEFINE h == [relay[d] EXCEPT !.pc = p]
  <2>1. h \in Handler /\ h.pc = p /\ h.left = relay[d].left BY <1>1 DEF Handler
  <2>2. relay' = [relay EXCEPT ![d] = h] BY <1>1, <1>4 DEF PushTypes
  <2> HIDE DEF h
  <2>3. QED BY <1>2, <1>4, <2>1, <2>2, RelayStep DEF Reached
<1>5. ASSUME relay' = [relay EXCEPT ![d] = [@ EXCEPT !.pc = "send", !.left = Given(d)]] PROVE PushInd'
  <2> DEFINE h == [relay[d] EXCEPT !.pc = "send", !.left = Given(d)]
  <2>1. h \in Handler /\ h.pc = "send" /\ h.left = Given(d) BY <1>1, <1>3 DEF Handler
  <2>2. relay' = [relay EXCEPT ![d] = h] BY <1>5
  <2> HIDE DEF h
  <2>3. QED BY <1>2, <2>1, <2>2, RelayStep DEF Reached
<1>6. CASE config.relay = "forbidden"
  <2>1. relay' = [relay EXCEPT ![d].pc = "error"] BY <1>1, <1>6 DEF Pushes!webhook, PushTypes
  <2>2. QED BY <1>4, <2>1
<1>7. CASE config.relay # "forbidden" /\ Given(d) = {}
  <2>1. relay' = [relay EXCEPT ![d].pc = "ok"] BY <1>1, <1>3, <1>7 DEF Pushes!webhook, PushTypes
  <2>2. QED BY <1>4, <1>7, <2>1
<1>8. CASE config.relay = "unconfigured" /\ Given(d) # {}
  <2>1. relay' = [relay EXCEPT ![d].pc = "error"] BY <1>1, <1>3, <1>8 DEF Pushes!webhook, PushTypes
  <2>2. QED BY <1>4, <2>1
<1>9. CASE config.relay \notin {"forbidden", "unconfigured"} /\ Given(d) # {}
  BY <1>3, <1>5, <1>9 DEF Pushes!webhook
<1>10. QED BY <1>6, <1>7, <1>8, <1>9

LEMMA RelayEndStep ==
  ASSUME PushInd, NEW d \in Dispatch, Pushes!relay_done(d) \/ Pushes!relay_dropped(d)
  PROVE  PushInd'
<1>1. PushTypes /\ Dispatched(d) /\ relay[d] \in Handler BY DEF PushInd, PushTypes
<1>2. UNCHANGED <<config, rows, job, sent, signedIn, held>> BY DEF Pushes!relay_done, Pushes!relay_dropped
<1>3. CASE Pushes!relay_done(d)
  <2> DEFINE p == IF relay[d].failed THEN "error" ELSE "ok"
             h == [relay[d] EXCEPT !.pc = p]
  <2>1. relay[d].pc = "send" /\ relay[d].left = {} /\ relay' = [relay EXCEPT ![d] = h]
    BY <1>1, <1>3 DEF Pushes!relay_done, PushTypes
  <2>2. h \in Handler /\ h.pc = p /\ h.left = {} BY <1>1, <2>1 DEF Handler
  <2> HIDE DEF h
  <2>3. h.pc = "ok" => Reached(d, Given(d)) BY <1>1, <2>1, <2>2 DEF Dispatched, Served, Reached
  <2>4. QED BY <1>2, <2>1, <2>2, <2>3, RelayStep
<1>4. CASE Pushes!relay_dropped(d)
  <2> DEFINE h == [Pushes!NoRequest EXCEPT !.pc = "dropped"]
  <2>1. relay[d].pc \in {"got", "send"} /\ relay' = [relay EXCEPT ![d] = h] BY <1>4 DEF Pushes!relay_dropped
  <2>2. h \in Handler /\ h.pc = "dropped" /\ h.left = {} BY DEF Pushes!NoRequest, Handler
  <2> HIDE DEF h
  <2>3. QED BY <1>2, <2>1, <2>2, RelayStep
<1>5. QED BY <1>3, <1>4

LEMMA PushNext == PushInd /\ [Pushes!Next]_(Pushes!vars) => PushInd'
<1> SUFFICES ASSUME PushInd, [Pushes!Next]_(Pushes!vars) PROVE PushInd' OBVIOUS
<1>1. CASE UNCHANGED Pushes!vars
  <2>1. UNCHANGED <<config, rows, job, relay, sent, signedIn, held>> BY <1>1 DEF Pushes!vars
  <2>2. \A d \in Dispatch : Dispatched(d)' BY <2>1, PushKept DEF PushInd
  <2>3. QED BY <2>1, <2>2 DEF PushInd, PushTypes
<1>2. CASE Pushes!Next
  BY <1>2, DeviceStep, DispatchStep, ApnsStep, ApnsDoneStep, PostStep, WebhookStep, RelaySendStep, RelayEndStep
  DEF Pushes!Next
<1>3. QED BY <1>1, <1>2

(* A dispatch that reports success has reached every iOS device it is for, *)
(* none twice but after a failure in hybrid mode, a call by one kind of    *)
(* push only, and no device that had passed to another user, for any       *)
(* number of dispatches and whatever APNs, the relay and timeouts do.      *)
THEOREM PushesArrive == Pushes!Spec => []Pushes!PushInv
<1>1. QED BY PushInit, PushNext, PushSafe, PTL DEF Pushes!Spec

(* The same of the runs, in which Push is one of two parts. *)
THEOREM PushesRun == MCSpec => []PushInv
<1> DEFINE Ind == part = "push" => PushInd
<1>1. MCInit => Ind BY PushInit DEF MCInit
<1>2. Ind /\ [MCNext]_<<part, vars, pushVars>> => Ind'
  <2> SUFFICES ASSUME Ind, [MCNext]_<<part, vars, pushVars>>, part' = "push" PROVE PushInd' OBVIOUS
  <2>1. part = "push" /\ [Pushes!Next]_(Pushes!vars) BY DEF MCNext, pushVars, Pushes!vars
  <2>2. QED BY <2>1, PushNext
<1>3. Ind => PushInv BY PushSafe DEF PushInv
<1>4. QED BY <1>1, <1>2, <1>3, PTL DEF MCSpec
=============================================================================
