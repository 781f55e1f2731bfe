------------------------ MODULE RefreshTokensProofs ------------------------
(***************************************************************************)
(* Proofs about RefreshTokens, for any number of users, tokens, families   *)
(* and concurrent requests.                                                *)
(***************************************************************************)
EXTENDS RefreshTokens, FiniteSetTheorems, TLAPS

Base == TypeOK /\ RequestsHoldMintedTokens /\ RowsAreMinted

(* The requests that work with a token can be counted. *)
LEMMA Counted ==
  ASSUME NEW S \in SUBSET Request
  PROVE  IsFiniteSet(S) /\ Cardinality(S) \in Nat
BY RequestAssumption, FS_Subset, FS_CardinalityType

(* What a lookup does to the histories. *)
LEMMA LookupNoted ==
  ASSUME TypeOK, NEW t \in Token, NoteLookup(t), fam[t] \in Family
  PROVE  /\ raced' \subseteq Family /\ raced \subseteq raced'
         /\ sharers' \in [Token -> Nat] /\ sharers'[t] > Cardinality(Holding(t))
         /\ \A x \in Token : x # t => sharers'[x] = sharers[x]
<1> DEFINE n == Cardinality(Holding(t))
<1>1. n \in Nat
  <2>1. Holding(t) \in SUBSET Request BY DEF Holding
  <2>2. QED BY <2>1, Counted
<1>2. sharers' = [sharers EXCEPT ![t] = IF sharers[t] > n THEN sharers[t] ELSE n + 1] BY DEF NoteLookup
<1>3. sharers \in [Token -> Nat] BY DEF TypeOK
<1> HIDE DEF n
<1>4. /\ sharers' \in [Token -> Nat] /\ sharers'[t] > n
      /\ \A x \in Token : x # t => sharers'[x] = sharers[x]
  BY <1>1, <1>2, <1>3
<1>5. raced' \subseteq Family /\ raced \subseteq raced' BY DEF NoteLookup, TypeOK
<1>6. QED BY <1>4, <1>5 DEF n

(* Every step keeps the tables and the request records well typed, given   *)
(* that requests only remember minted tokens and known users.              *)
LEMMA BaseStep ==
  ASSUME Base, [Next]_vars
  PROVE  Base'
<1> USE NoneAssumption DEF Base, TypeOK, RowsAreMinted, RequestsHoldMintedTokens, PC, tokenVars,
        userVars, reqVars, history, Goto, Finish
<1>1. ASSUME NEW r \in Request, NEW u \in User, login(r, u)
      PROVE  Base'
  BY <1>1 DEF login
<1>2. ASSUME NEW r \in Request, NEW t \in Token, RefreshLookup(r, t)
      PROVE  Base'
  <2>1. TypeOK /\ NoteLookup(t) /\ fam[t] \in Family BY <1>2 DEF RefreshLookup
  <2>2. raced' \subseteq Family /\ sharers' \in [Token -> Nat] BY <2>1, LookupNoted
  <2>3. QED BY <1>2, <2>2 DEF RefreshLookup
<1>3. ASSUME NEW r \in Request, NEW t \in Token, RefreshReplay(r, t)
      PROVE  Base'
  BY <1>3 DEF RefreshReplay
<1>4. ASSUME NEW r \in Request, NEW t \in Token, logout(r, t)
      PROVE  Base'
  BY <1>4 DEF logout
<1>5. ASSUME NEW r \in Request, LoginMint(r)
      PROVE  Base'
  BY <1>5 DEF LoginMint, mint_tokens, Minted
<1>6. ASSUME NEW r \in Request, RevokeFamily(r)
      PROVE  Base'
  BY <1>6 DEF RevokeFamily
<1>7. ASSUME NEW r \in Request, Consume(r)
      PROVE  Base'
  BY <1>7 DEF Consume
<1>8. ASSUME NEW r \in Request, LoadUser(r)
      PROVE  Base'
  BY <1>8 DEF LoadUser
<1>9. ASSUME NEW r \in Request, Rotate(r)
      PROVE  Base'
  BY <1>9 DEF Rotate, mint_tokens, Minted
<1>10. ASSUME NEW r \in Request, Abort(r)
       PROVE  Base'
  BY <1>10 DEF Abort
<1>11. ASSUME NEW t \in Token, Expire(t)
       PROVE  Base'
  BY <1>11 DEF Expire
<1>12. ASSUME NEW u \in User, approve_user(u)
       PROVE  Base'
  BY <1>12 DEF approve_user
<1>13. ASSUME NEW u \in User, delete_user(u)
       PROVE  Base'
  BY <1>13 DEF delete_user
<1>14. ASSUME NEW u \in User, NEW on \in BOOLEAN, set_user_active(u, on)
       PROVE  Base'
  BY <1>14 DEF set_user_active
<1>15. CASE UNCHANGED vars
  BY <1>15 DEF vars
<1>16. QED
  BY <1>1, <1>2, <1>3, <1>4, <1>5, <1>6, <1>7, <1>8, <1>9, <1>10, <1>11,
     <1>12, <1>13, <1>14, <1>15 DEF Next, RequestStep

Chain == OneRefreshAtATime /\ RotatedNotForked

(* Every step keeps a family that no two refreshes raced on one chain. *)
LEMMA ChainStep ==
  ASSUME FamilyInv, [Next]_vars
  PROVE  Chain'
<1> USE NoneAssumption DEF FamilyInv, Chain, TypeOK, RowsAreMinted,
        RequestsHoldMintedTokens, OneRefreshAtATime, RotatedNotForked, LiveIn,
        Refreshing, PC, tokenVars, userVars, reqVars, history, Goto, Finish
<1>1. ASSUME NEW r \in Request, NEW u \in User, login(r, u)
      PROVE  Chain'
  BY <1>1 DEF login
<1>2. ASSUME NEW r \in Request, NEW t \in Token, RefreshLookup(r, t)
      PROVE  Chain'
  BY <1>2 DEF RefreshLookup, NoteLookup
<1>3. ASSUME NEW r \in Request, NEW t \in Token, RefreshReplay(r, t)
      PROVE  Chain'
  BY <1>3 DEF RefreshReplay
<1>4. ASSUME NEW r \in Request, NEW t \in Token, logout(r, t)
      PROVE  Chain'
  BY <1>4 DEF logout
<1>5. ASSUME NEW r \in Request, LoginMint(r)
      PROVE  Chain'
  BY <1>5 DEF LoginMint, mint_tokens, Minted
<1>6. ASSUME NEW r \in Request, RevokeFamily(r)
      PROVE  Chain'
  BY <1>6 DEF RevokeFamily
<1>7. ASSUME NEW r \in Request, Consume(r)
      PROVE  Chain'
  BY <1>7 DEF Consume
<1>8. ASSUME NEW r \in Request, LoadUser(r)
      PROVE  Chain'
  BY <1>8 DEF LoadUser
<1>9. ASSUME NEW r \in Request, Rotate(r)
      PROVE  Chain'
  BY <1>9 DEF Rotate, mint_tokens, Minted
<1>10. ASSUME NEW r \in Request, Abort(r)
       PROVE  Chain'
  BY <1>10 DEF Abort
<1>11. ASSUME NEW t \in Token, Expire(t)
       PROVE  Chain'
  BY <1>11 DEF Expire
<1>12. ASSUME NEW u \in User, approve_user(u)
       PROVE  Chain'
  BY <1>12 DEF approve_user
<1>13. ASSUME NEW u \in User, delete_user(u)
       PROVE  Chain'
  BY <1>13 DEF delete_user
<1>14. ASSUME NEW u \in User, NEW on \in BOOLEAN, set_user_active(u, on)
       PROVE  Chain'
  BY <1>14 DEF set_user_active
<1>15. CASE UNCHANGED vars
  BY <1>15 DEF vars
<1>16. QED
  BY <1>1, <1>2, <1>3, <1>4, <1>5, <1>6, <1>7, <1>8, <1>9, <1>10, <1>11, <1>12, <1>13, <1>14, <1>15 DEF Next, RequestStep

(* Only a mint adds a row, and only delete_user removes a user: with its rows. *)
LEMMA OrphanStep ==
  ASSUME Base, NoTokenOutlivesUser, [Next]_vars
  PROVE  NoTokenOutlivesUser'
<1> USE NoneAssumption DEF Base, NoTokenOutlivesUser, TypeOK, RowsAreMinted,
        RequestsHoldMintedTokens, PC, tokenVars, userVars, reqVars, history, Goto, Finish
<1>1. ASSUME NEW r \in Request, NEW u \in User, login(r, u)
      PROVE  NoTokenOutlivesUser'
  BY <1>1 DEF login
<1>2. ASSUME NEW r \in Request, NEW t \in Token, RefreshLookup(r, t)
      PROVE  NoTokenOutlivesUser'
  BY <1>2 DEF RefreshLookup
<1>3. ASSUME NEW r \in Request, NEW t \in Token, RefreshReplay(r, t)
      PROVE  NoTokenOutlivesUser'
  BY <1>3 DEF RefreshReplay
<1>4. ASSUME NEW r \in Request, NEW t \in Token, logout(r, t)
      PROVE  NoTokenOutlivesUser'
  BY <1>4 DEF logout
<1>5. ASSUME NEW r \in Request, LoginMint(r)
      PROVE  NoTokenOutlivesUser'
  BY <1>5 DEF LoginMint, mint_tokens, Minted
<1>6. ASSUME NEW r \in Request, RevokeFamily(r)
      PROVE  NoTokenOutlivesUser'
  BY <1>6 DEF RevokeFamily
<1>7. ASSUME NEW r \in Request, Consume(r)
      PROVE  NoTokenOutlivesUser'
  BY <1>7 DEF Consume
<1>8. ASSUME NEW r \in Request, LoadUser(r)
      PROVE  NoTokenOutlivesUser'
  BY <1>8 DEF LoadUser
<1>9. ASSUME NEW r \in Request, Rotate(r)
      PROVE  NoTokenOutlivesUser'
  BY <1>9 DEF Rotate, mint_tokens, Minted
<1>10. ASSUME NEW r \in Request, Abort(r)
       PROVE  NoTokenOutlivesUser'
  BY <1>10 DEF Abort
<1>11. ASSUME NEW t \in Token, Expire(t)
       PROVE  NoTokenOutlivesUser'
  BY <1>11 DEF Expire
<1>12. ASSUME NEW u \in User, approve_user(u)
       PROVE  NoTokenOutlivesUser'
  BY <1>12 DEF approve_user
<1>13. ASSUME NEW u \in User, delete_user(u)
       PROVE  NoTokenOutlivesUser'
  BY <1>13 DEF delete_user
<1>14. ASSUME NEW u \in User, NEW on \in BOOLEAN, set_user_active(u, on)
       PROVE  NoTokenOutlivesUser'
  BY <1>14 DEF set_user_active
<1>15. CASE UNCHANGED vars
  BY <1>15 DEF vars
<1>16. QED
  BY <1>1, <1>2, <1>3, <1>4, <1>5, <1>6, <1>7, <1>8, <1>9, <1>10, <1>11, <1>12, <1>13, <1>14, <1>15 DEF Next, RequestStep

(* An old token can neither be looked up as usable nor rotated. *)
LEMMA OverStep ==
  ASSUME Base, [Next]_vars, NEW f \in Family, Over(f)
  PROVE  Over(f)'
<1> USE NoneAssumption DEF Base, Over, LiveIn, Refreshing, TypeOK, RowsAreMinted,
        RequestsHoldMintedTokens, PC, tokenVars, userVars, reqVars, history, Goto, Finish
<1>1. ASSUME NEW r \in Request, NEW u \in User, login(r, u)
      PROVE  Over(f)'
  BY <1>1 DEF login
<1>2. ASSUME NEW r \in Request, NEW t \in Token, RefreshLookup(r, t)
      PROVE  Over(f)'
  BY <1>2 DEF RefreshLookup
<1>3. ASSUME NEW r \in Request, NEW t \in Token, RefreshReplay(r, t)
      PROVE  Over(f)'
  BY <1>3 DEF RefreshReplay
<1>4. ASSUME NEW r \in Request, NEW t \in Token, logout(r, t)
      PROVE  Over(f)'
  BY <1>4 DEF logout
<1>5. ASSUME NEW r \in Request, LoginMint(r)
      PROVE  Over(f)'
  BY <1>5 DEF LoginMint, mint_tokens, Minted
<1>6. ASSUME NEW r \in Request, RevokeFamily(r)
      PROVE  Over(f)'
  BY <1>6 DEF RevokeFamily
<1>7. ASSUME NEW r \in Request, Consume(r)
      PROVE  Over(f)'
  BY <1>7 DEF Consume
<1>8. ASSUME NEW r \in Request, LoadUser(r)
      PROVE  Over(f)'
  BY <1>8 DEF LoadUser
<1>9. ASSUME NEW r \in Request, Rotate(r)
      PROVE  Over(f)'
  BY <1>9 DEF Rotate, mint_tokens, Minted
<1>10. ASSUME NEW r \in Request, Abort(r)
       PROVE  Over(f)'
  BY <1>10 DEF Abort
<1>11. ASSUME NEW t \in Token, Expire(t)
       PROVE  Over(f)'
  BY <1>11 DEF Expire
<1>12. ASSUME NEW u \in User, approve_user(u)
       PROVE  Over(f)'
  BY <1>12 DEF approve_user
<1>13. ASSUME NEW u \in User, delete_user(u)
       PROVE  Over(f)'
  BY <1>13 DEF delete_user
<1>14. ASSUME NEW u \in User, NEW on \in BOOLEAN, set_user_active(u, on)
       PROVE  Over(f)'
  BY <1>14 DEF set_user_active
<1>15. CASE UNCHANGED vars
  BY <1>15 DEF vars
<1>16. QED
  BY <1>1, <1>2, <1>3, <1>4, <1>5, <1>6, <1>7, <1>8, <1>9, <1>10, <1>11, <1>12, <1>13, <1>14, <1>15 DEF Next, RequestStep

(* A step that lets no request begin to work with a token, mints nothing   *)
(* and notes nothing keeps the count of each token's heirs and holders.    *)
LEMMA ForkKept ==
  ASSUME ForkInv, Base, UNCHANGED <<sharers, heirs, fam>>, rows' \ revoked' \subseteq rows \ revoked,
         \A t \in Token : /\ Exchanging(t)' \subseteq Exchanging(t)
                          /\ t \in rows' \ revoked' => Exchanging(t)' \subseteq Holding(t)'
  PROVE  ForkInv'
<1> SUFFICES ASSUME NEW t \in Token
             PROVE  /\ heirs[t] + Cardinality(Exchanging(t)') <= sharers[t]
                    /\ t \in rows' \ revoked' => heirs[t] = 0 /\ Exchanging(t)' = Holding(t)'
                    /\ fam[t] = None => heirs[t] = 0
  BY DEF ForkInv
<1>1. Exchanging(t) \in SUBSET Request BY DEF Exchanging
<1>0. /\ Exchanging(t)' \subseteq Exchanging(t)
      /\ t \in rows' \ revoked' => Exchanging(t)' \subseteq Holding(t)'
  OBVIOUS
<1>2. /\ Cardinality(Exchanging(t)') <= Cardinality(Exchanging(t))
      /\ Cardinality(Exchanging(t)') \in Nat /\ Cardinality(Exchanging(t)) \in Nat
  <2>1. IsFiniteSet(Exchanging(t)) /\ Cardinality(Exchanging(t)) \in Nat BY <1>1, Counted
  <2>2. Exchanging(t)' \in SUBSET Request BY <1>0, <1>1
  <2>3. Cardinality(Exchanging(t)') \in Nat BY <2>2, Counted
  <2>4. Cardinality(Exchanging(t)') <= Cardinality(Exchanging(t)) BY <1>0, <2>1, FS_Subset
  <2>5. QED BY <2>1, <2>3, <2>4
<1>3. heirs[t] \in Nat /\ sharers[t] \in Nat BY DEF Base, TypeOK
<1>4. heirs[t] + Cardinality(Exchanging(t)) <= sharers[t] BY DEF ForkInv
<1>5. heirs[t] + Cardinality(Exchanging(t)') <= sharers[t] BY <1>2, <1>3, <1>4
<1>6. t \in rows' \ revoked' => heirs[t] = 0 /\ Exchanging(t)' = Holding(t)'
  <2>1. Holding(t)' \subseteq Exchanging(t)' BY DEF Holding, Exchanging
  <2>2. t \in rows' \ revoked' => heirs[t] = 0 BY DEF ForkInv
  <2>3. QED BY <1>0, <2>1, <2>2
<1>7. fam[t] = None => heirs[t] = 0 BY DEF ForkInv
<1>8. QED BY <1>5, <1>6, <1>7

(* refresh, its lookup: all requests that work with the token have yet to  *)
(* revoke it, and this one is counted with them.                           *)
LEMMA ForkLookup ==
  ASSUME ForkInv, Base, NEW r \in Request, NEW t \in Token, RefreshLookup(r, t)
  PROVE  ForkInv'
<1>1. /\ t \in rows \ revoked /\ pc[r] = "idle" /\ NoteLookup(t) /\ fam[t] \in Family
      /\ pc' = [pc EXCEPT ![r] = "consume"] /\ tk' = [tk EXCEPT ![r] = t]
      /\ UNCHANGED <<rows, revoked, fam, heirs>>
  BY DEF RefreshLookup, Goto, tokenVars, Base, RowsAreMinted
<1>2. pc \in [Request -> PC] /\ tk \in [Request -> Token \cup {None}] BY DEF Base, TypeOK
<1>3. Exchanging(t)' = Exchanging(t) \cup {r} /\ Holding(t)' = Holding(t) \cup {r} /\ r \notin Exchanging(t)
  BY <1>1, <1>2 DEF Exchanging, Holding
<1>4. \A x \in Token : x # t => Exchanging(x)' = Exchanging(x) /\ Holding(x)' = Holding(x)
  BY <1>1, <1>2 DEF Exchanging, Holding
<1>5. heirs[t] = 0 /\ Exchanging(t) = Holding(t) BY <1>1 DEF ForkInv
<1>6. /\ sharers'[t] > Cardinality(Holding(t)) /\ \A x \in Token : x # t => sharers'[x] = sharers[x]
      /\ sharers'[t] \in Nat
  <2>1. TypeOK BY DEF Base
  <2>2. QED BY <1>1, <2>1, LookupNoted
<1>7. Cardinality(Exchanging(t)') = Cardinality(Holding(t)) + 1 /\ Cardinality(Holding(t)) \in Nat
  <2>1. Exchanging(t) \in SUBSET Request BY DEF Exchanging
  <2>2. QED BY <1>3, <1>5, <2>1, Counted, FS_AddElement
<1>8. heirs'[t] + Cardinality(Exchanging(t)') <= sharers'[t] BY <1>1, <1>5, <1>6, <1>7
<1>9. QED BY <1>1, <1>3, <1>4, <1>5, <1>6, <1>8 DEF ForkInv

(* refresh, its INSERT: the request becomes an heir. *)
LEMMA ForkRotate ==
  ASSUME ForkInv, Base, NEW r \in Request, Rotate(r)
  PROVE  ForkInv'
<1> SUFFICES ASSUME NEW old, old = tk[r] PROVE ForkInv'
  OBVIOUS
<1>1. PICK new \in Token : mint_tokens(new, owner[old], fam[old]) BY DEF Rotate
<1>2. /\ pc[r] = "rotate" /\ new \notin Minted /\ rows' = rows \cup {new}
      /\ fam' = [fam EXCEPT ![new] = fam[old]] /\ heirs' = [heirs EXCEPT ![old] = @ + 1]
      /\ pc' = [pc EXCEPT ![r] = "idle"] /\ tk' = [tk EXCEPT ![r] = None]
      /\ UNCHANGED <<revoked, sharers>>
  BY <1>1 DEF Rotate, mint_tokens, Finish
<1>3. /\ pc \in [Request -> PC] /\ tk \in [Request -> Token \cup {None}]
      /\ heirs \in [Token -> Nat] /\ sharers \in [Token -> Nat]
      /\ fam \in [Token -> Family \cup {None}]
  BY DEF Base, TypeOK
<1>4. /\ old \in Token /\ fam[old] \in Family /\ fam[new] = None /\ new # old
      /\ Exchanging(new) = {} /\ heirs[new] = 0
  <2>1. old \in Token /\ fam[old] \in Family
    BY <1>2 DEF Base, RequestsHoldMintedTokens
  <2>2. fam[new] = None BY <1>2 DEF Minted
  <2>3. Exchanging(new) = {}
    BY <2>2, NoneAssumption DEF Exchanging, Base, RequestsHoldMintedTokens
  <2>4. QED BY <2>1, <2>2, <2>3, NoneAssumption DEF ForkInv
<1>5. \A x \in Token : x # old => Exchanging(x)' = Exchanging(x) /\ Holding(x)' = Holding(x)
  BY <1>2, <1>3 DEF Exchanging, Holding
<1>6. r \in Exchanging(old) /\ Exchanging(old)' = Exchanging(old) \ {r}
  BY <1>2, <1>3, <1>4, NoneAssumption DEF Exchanging
<1>7. old \notin rows' \ revoked'
  <2>1. r \notin Holding(old) BY <1>2 DEF Holding
  <2>2. old \notin rows \ revoked BY <1>4, <1>6, <2>1 DEF ForkInv
  <2>3. QED BY <1>2, <1>4, <2>2
<1>8. heirs'[old] + Cardinality(Exchanging(old)') <= sharers'[old]
  <2>1. Exchanging(old) \in SUBSET Request BY DEF Exchanging
  <2>2. /\ Cardinality(Exchanging(old)') = Cardinality(Exchanging(old)) - 1
        /\ Cardinality(Exchanging(old)) \in Nat
    BY <1>6, <2>1, Counted, FS_RemoveElement
  <2>3. heirs[old] + Cardinality(Exchanging(old)) <= sharers[old] BY <1>4 DEF ForkInv
  <2>4. heirs[old] \in Nat /\ sharers[old] \in Nat /\ heirs'[old] = heirs[old] + 1 /\ sharers'[old] = sharers[old]
    BY <1>2, <1>3, <1>4
  <2>5. QED BY <2>2, <2>3, <2>4
<1>9. ASSUME NEW x \in Token, x # old
      PROVE  /\ heirs'[x] = heirs[x] /\ sharers'[x] = sharers[x]
             /\ Exchanging(x)' = Exchanging(x) /\ Holding(x)' = Holding(x)
             /\ x \in rows' \ revoked' => heirs[x] = 0 /\ Exchanging(x) = Holding(x)
             /\ fam'[x] = None => heirs[x] = 0
  <2>1. heirs'[x] = heirs[x] /\ sharers'[x] = sharers[x] BY <1>2, <1>3, <1>9
  <2>2. x \in rows' \ revoked' => heirs[x] = 0 /\ Exchanging(x) = Holding(x)
    <3>1. CASE x = new BY <1>4, <3>1 DEF Holding, Exchanging
    <3>2. CASE x # new BY <1>2, <3>2 DEF ForkInv
    <3>3. QED BY <3>1, <3>2
  <2>3. fam'[x] = None => heirs[x] = 0 BY <1>2, <1>3, <1>4, NoneAssumption DEF ForkInv
  <2>4. QED BY <1>5, <1>9, <2>1, <2>2, <2>3
<1>10. fam'[old] # None BY <1>2, <1>3, <1>4, NoneAssumption
<1>11. QED BY <1>7, <1>8, <1>9, <1>10 DEF ForkInv

(* Every step keeps count. *)
LEMMA ForkStep ==
  ASSUME ForkInv, Base, [Next]_vars
  PROVE  ForkInv'
<1> USE DEF tokenVars, userVars, reqVars, history, Goto, Finish
<1>0. /\ pc \in [Request -> PC] /\ tk \in [Request -> Token \cup {None}]
      /\ \A t \in Token : Exchanging(t) \in SUBSET Request
      /\ \A t \in rows \ revoked : Exchanging(t) = Holding(t)
  BY DEF Base, TypeOK, ForkInv, Exchanging
<1>1. ASSUME NEW r \in Request, UNCHANGED <<sharers, heirs, fam>>, rows' \ revoked' \subseteq rows \ revoked,
             \/ /\ pc' = [pc EXCEPT ![r] = "idle"] /\ tk' = [tk EXCEPT ![r] = None]
             \/ /\ pc[r] = "idle" /\ pc'[r] \in {"mint", "replay", "logout"}
                /\ \A q \in Request \ {r} : pc'[q] = pc[q] /\ tk'[q] = tk[q]
             \/ pc[r] = "loaduser" /\ pc' = [pc EXCEPT ![r] = "rotate"] /\ UNCHANGED tk
             \/ UNCHANGED <<pc, tk>>
      PROVE  ForkInv'
  <2>1. \A t \in Token : Exchanging(t)' \subseteq Exchanging(t)
    BY <1>0, <1>1 DEF Exchanging
  <2>2. \A t \in Token : t \in rows' \ revoked' => Exchanging(t)' \subseteq Holding(t)'
    BY <1>0, <1>1 DEF Exchanging, Holding
  <2>3. QED BY <1>1, <2>1, <2>2, ForkKept
<1>2. ASSUME NEW r \in Request, NEW u \in User, login(r, u) PROVE ForkInv'
  <2>1. pc'[r] = "mint" /\ \A q \in Request \ {r} : pc'[q] = pc[q] /\ tk'[q] = tk[q]
    BY <1>0, <1>2 DEF login
  <2>2. QED BY <1>1, <1>2, <2>1 DEF login
<1>3. ASSUME NEW r \in Request, NEW t \in Token, RefreshReplay(r, t) \/ logout(r, t) PROVE ForkInv'
  <2>1. pc'[r] \in {"replay", "logout"} /\ \A q \in Request \ {r} : pc'[q] = pc[q] /\ tk'[q] = tk[q]
    BY <1>0, <1>3 DEF RefreshReplay, logout
  <2>2. QED BY <1>1, <1>3, <2>1 DEF RefreshReplay, logout
<1>4. ASSUME NEW r \in Request, LoginMint(r) PROVE ForkInv'
  <2>1. PICK new \in Token, f \in Family : mint_tokens(new, who[r], f) BY <1>4 DEF LoginMint
  <2>2. /\ new \notin Minted /\ rows' = rows \cup {new} /\ fam' = [fam EXCEPT ![new] = f]
        /\ pc' = [pc EXCEPT ![r] = "idle"] /\ tk' = [tk EXCEPT ![r] = None] /\ pc[r] = "mint"
        /\ UNCHANGED <<revoked, sharers, heirs>>
    BY <1>4, <2>1 DEF LoginMint, mint_tokens
  <2>3. \A t \in Token : Exchanging(t)' = Exchanging(t) /\ Holding(t)' = Holding(t)
    BY <1>0, <2>2, NoneAssumption DEF Exchanging, Holding
  <2>4. fam[new] = None /\ Exchanging(new) = {} /\ Holding(new) = {} /\ heirs[new] = 0
    <3>1. fam[new] = None BY <2>2 DEF Minted
    <3>2. Exchanging(new) = {} /\ Holding(new) = {}
      BY <3>1, NoneAssumption DEF Exchanging, Holding, Base, RequestsHoldMintedTokens
    <3>3. QED BY <3>1, <3>2 DEF ForkInv
  <2>5. \A t \in Token : fam'[t] = None => fam[t] = None
    BY <2>2, NoneAssumption DEF Base, TypeOK
  <2>6. QED BY <2>2, <2>3, <2>4, <2>5 DEF ForkInv
<1>5. ASSUME NEW r \in Request, RevokeFamily(r) \/ Abort(r) PROVE ForkInv'
  BY <1>1, <1>5 DEF RevokeFamily, Abort
<1>6. ASSUME NEW r \in Request, Consume(r) PROVE ForkInv'
  <2>1. /\ pc' = [pc EXCEPT ![r] = "loaduser"] /\ pc[r] = "consume" /\ tk[r] \notin rows' \ revoked'
        /\ rows' \ revoked' \subseteq rows \ revoked /\ UNCHANGED <<tk, sharers, heirs, fam>>
    BY <1>6 DEF Consume
  <2>2. \A t \in Token : Exchanging(t)' = Exchanging(t) BY <1>0, <2>1 DEF Exchanging
  <2>3. \A t \in Token : t # tk[r] => Holding(t)' = Holding(t) BY <1>0, <2>1 DEF Holding
  <2>4. \A t \in Token : t \in rows' \ revoked' => Exchanging(t)' \subseteq Holding(t)'
    BY <1>0, <2>1, <2>2, <2>3
  <2>5. QED BY <2>1, <2>2, <2>4, ForkKept
<1>7. ASSUME NEW r \in Request, LoadUser(r) PROVE ForkInv'
  BY <1>1, <1>7 DEF LoadUser
<1>8. ASSUME UNCHANGED <<sharers, heirs, fam, pc, tk, revoked>>, rows' \subseteq rows PROVE ForkInv'
  <2>1. \A t \in Token : Exchanging(t)' = Exchanging(t) /\ Holding(t)' = Holding(t)
    BY <1>8 DEF Exchanging, Holding
  <2>2. \A t \in Token : t \in rows' \ revoked' => Exchanging(t)' \subseteq Holding(t)'
    BY <1>0, <1>8, <2>1
  <2>3. QED BY <1>8, <2>1, <2>2, ForkKept
<1>9. ASSUME \/ \E t \in Token : Expire(t)
             \/ \E u \in User : approve_user(u) \/ delete_user(u)
             \/ \E u \in User, on \in BOOLEAN : set_user_active(u, on)
             \/ UNCHANGED vars
      PROVE  ForkInv'
  BY <1>8, <1>9 DEF Expire, approve_user, delete_user, set_user_active, vars
<1>10. QED
  BY <1>2, <1>3, <1>4, <1>5, <1>6, <1>7, <1>9, ForkLookup, ForkRotate DEF Next, RequestStep

(* Type correctness of the tables and the request records of auth.rs. *)
THEOREM TypeCorrect == Spec => []TypeOK
<1>1. Init => Base
  BY NoneAssumption DEF Init, Base, TypeOK, RequestsHoldMintedTokens,
     RowsAreMinted, PC
<1>2. Base /\ [Next]_vars => Base'
  BY BaseStep
<1>3. Base => TypeOK
  BY DEF Base
<1>4. QED
  BY <1>1, <1>2, <1>3, PTL DEF Spec

(* The inductive invariant behind RotatedNotForked holds in every state. *)
THEOREM FamilyInvHolds == Spec => []FamilyInv
<1>1. Init => FamilyInv
  BY NoneAssumption DEF Init, FamilyInv, TypeOK, RequestsHoldMintedTokens,
     RowsAreMinted, OneRefreshAtATime, RotatedNotForked, LiveIn, Refreshing, PC
<1>2. FamilyInv /\ [Next]_vars => FamilyInv'
  BY BaseStep, ChainStep DEF FamilyInv, Base, Chain
<1>3. QED
  BY <1>1, <1>2, PTL DEF Spec

(* "rotated, not forked": a family on which no two refreshes overlapped    *)
(* never has two usable tokens, whatever logins, logouts, replays, account *)
(* changes and aborted requests happen around it.                          *)
THEOREM Rotation == Spec => []RotatedNotForked
<1>1. FamilyInv => RotatedNotForked
  BY DEF FamilyInv
<1>2. QED
  BY FamilyInvHolds, <1>1, PTL

(* Overlapping refreshes of a token fork its family into as many branches  *)
(* as there were requests that had looked it up before it was revoked, and *)
(* into no more, whatever is replayed, logged out or aborted.              *)
THEOREM Forks == Spec => []ForksAreShared
<1>1. Init => ForkInv
  <2> SUFFICES ASSUME Init PROVE ForkInv
    OBVIOUS
  <2>1. \A t \in Token : Exchanging(t) = {} /\ heirs[t] = 0 /\ sharers[t] = 0 /\ t \notin rows
    BY DEF Init, Exchanging
  <2>2. QED BY <2>1, FS_EmptySet DEF ForkInv
<1>2. ForkInv /\ Base /\ [Next]_vars => ForkInv'
  BY ForkStep
<1>3. FamilyInv => Base
  BY DEF FamilyInv, Base
<1>4. ForkInv /\ Base => ForksAreShared
  <2> SUFFICES ASSUME ForkInv, Base, NEW t \in Token PROVE heirs[t] <= sharers[t]
    BY DEF ForksAreShared
  <2>1. Exchanging(t) \in SUBSET Request BY DEF Exchanging
  <2>2. Cardinality(Exchanging(t)) \in Nat BY <2>1, Counted
  <2>3. heirs[t] \in Nat /\ sharers[t] \in Nat BY DEF Base, TypeOK
  <2>4. heirs[t] + Cardinality(Exchanging(t)) <= sharers[t] BY DEF ForkInv
  <2>5. QED BY <2>2, <2>3, <2>4
<1>5. QED
  BY <1>1, <1>2, <1>3, <1>4, FamilyInvHolds, PTL DEF Spec

(* No refresh token outlives its user, whenever the account is deleted. *)
THEOREM NoOrphan == Spec => []NoTokenOutlivesUser
<1> USE DEF NoTokenOutlivesUser
<1>1. Init => NoTokenOutlivesUser
  BY DEF Init
<1>2. Base /\ NoTokenOutlivesUser /\ [Next]_vars => NoTokenOutlivesUser'
  BY OrphanStep
<1>3. FamilyInv => Base
  BY DEF FamilyInv, Base
<1>4. QED
  BY <1>1, <1>2, <1>3, FamilyInvHolds, PTL DEF Spec

(* A family that is over is never revived by presenting its old tokens. *)
THEOREM OverStays == Spec => OverFamilyStaysOver
<1>1. FamilyInv => Base
  BY DEF FamilyInv, Base
<1>2. Base /\ [Next]_vars => [\A f \in Family : Over(f) => Over(f)']_vars
  BY OverStep
<1>3. QED
  BY <1>1, <1>2, FamilyInvHolds, PTL DEF Spec, OverFamilyStaysOver
=============================================================================
