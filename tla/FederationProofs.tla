-------------------------- MODULE FederationProofs -------------------------
(***************************************************************************)
(* Proofs about Federation: for any number of activities, requests, retry  *)
(* calls and crashes, inbox and outbox keep the delivery contract.         *)
(***************************************************************************)
EXTENDS Federation, TLAPS

(* A row marked as a failure is neither delivered nor pending. *)
LEMMA FailedRowIs ==
  ASSUME NEW n \in Nat, NEW limit \in Nat
  PROVE  /\ FailedRow(n, limit) \in [status : Statuses, attempts : Nat]
         /\ FailedRow(n, limit).status \in {"failed", "dead_letter"}
BY DEF FailedRow, Statuses

(* Marking a failure makes nothing delivered. *)
LEMMA FailureWritten ==
  ASSUME NEW b, NEW n \in Nat, NEW limit \in Nat,
         row \in [Row -> [status : Statuses, attempts : Nat]],
         row' = [row EXCEPT ![b] = FailedRow(n, limit)]
  PROVE  /\ row' \in [Row -> [status : Statuses, attempts : Nat]]
         /\ \A x \in Row : IF x = b THEN row'[x].status \in {"failed", "dead_letter"}
                                    ELSE row'[x] = row[x]
<1> DEFINE r == FailedRow(n, limit)
<1>1. r \in [status : Statuses, attempts : Nat] /\ r.status \in {"failed", "dead_letter"}
  BY FailedRowIs
<1> HIDE DEF r
<1>2. row' = [row EXCEPT ![b] = r]
  BY DEF r
<1>3. QED
  BY <1>1, <1>2

(* A request that works serves a row of its own activity. *)
LEMMA CurrentRow ==
  ASSUME OutboxTypeOK, RoundsLeft, NEW a \in Sent, spc[a] \notin {"new", "end"}
  PROVE  list[a][at[a]] \in Destination /\ Current(a) \in Row
<1>1. PICK n \in 1..MaxList : list[a] \in [1..n -> Destination]
  <2>1. at[a] \in DOMAIN list[a]
    BY DEF RoundsLeft
  <2>2. list[a] \in Lists
    BY <2>1 DEF OutboxTypeOK
  <2>3. QED
    BY <2>2 DEF Lists
<1>2. at[a] \in 1..n
  BY <1>1 DEF RoundsLeft
<1>3. QED
  BY <1>1, <1>2 DEF Current, Row

(* The entries of a list are numbered. *)
LEMMA ListedAt ==
  ASSUME OutboxTypeOK, NEW a \in Sent
  PROVE  \A m \in DOMAIN list[a] : m \in Nat
<1>1. CASE list[a] = <<>>
  BY <1>1
<1>2. CASE list[a] \in Lists
  BY <1>2 DEF Lists
<1>3. QED
  BY <1>1, <1>2 DEF OutboxTypeOK

(* The next destination, or the end of the request. *)
LEMMA NextServed ==
  ASSUME OutboxTypeOK, RoundsLeft, NEW a \in Sent, spc[a] \notin {"new", "end"},
         NextDestination(a), UNCHANGED list
  PROVE  /\ spc' \in [Sent -> {"new", "upsert", "post", "wait", "mark", "fail", "end"}]
         /\ at' \in [Sent -> Nat] /\ sread' \in [Sent -> Nat]
         /\ verdict' \in [Sent -> {"none", "ok", "permanent", "transient"}]
         /\ RoundsLeft'
BY SMTT(30) DEF OutboxTypeOK, RoundsLeft, NextDestination

(* The outbox's own steps leave the inbox alone and mark as delivered only *)
(* what was answered "ok".                                                 *)
LEMMA OutboxStepInv ==
  ASSUME ContractInv, NEW a \in Sent, OutboxStep(a), UNCHANGED <<inboxVars, conn, crashes>>
  PROVE  ContractInv'
<1> USE SentAssumption, AttemptsAssumption, NobodyAssumption
    DEF ContractInv, TypeOK, OutboxTypeOK, InboxTypeOK, OneInHand, OkMeansRecorded,
        AcceptedIsStored, InHand, Handling, inboxVars, requestVars, retryVars
<1> SUFFICES OutboxTypeOK' /\ RoundsLeft' /\ OkMeansRecorded'
  OBVIOUS
<1>0. spc[a] \notin {"new", "end"} => Current(a) \in Row
  BY CurrentRow
<1>1. CASE upsert_delivery_pending(a)
  <2> SUFFICES ASSUME NEW x \in Row, x = Current(a)
               PROVE  OutboxTypeOK' /\ RoundsLeft' /\ OkMeansRecorded'
    BY <1>0, <1>1 DEF upsert_delivery_pending
  <2>1. row' = [row EXCEPT ![x] = [status |-> "pending", attempts |-> @.attempts]]
    BY <1>1 DEF upsert_delivery_pending
  <2>2. /\ row' \in [Row -> [status : Statuses, attempts : Nat]]
        /\ \A y \in Row : row'[y].status = "delivered" => row[y].status = "delivered"
    BY <2>1 DEF Statuses
  <2>3. OutboxTypeOK' /\ RoundsLeft'
    BY <1>1, <2>2 DEF upsert_delivery_pending, RoundsLeft
  <2>4. \A b \in Sent, i \in Destination :
          row'[<<b, i>>].status = "delivered" => row[<<b, i>>].status = "delivered"
    BY <2>2 DEF Row
  <2>5. UNCHANGED verdict
    BY <1>1 DEF upsert_delivery_pending
  <2>6. QED
    BY <2>3, <2>4, <2>5
<1>2. CASE mark_delivery_success(a)
  <2> SUFFICES ASSUME NEW x \in Row, x = Current(a)
               PROVE  OutboxTypeOK' /\ RoundsLeft' /\ OkMeansRecorded'
    BY <1>0, <1>2 DEF mark_delivery_success
  <2>1. row' = [row EXCEPT ![x] = [status |-> "delivered", attempts |-> @.attempts + 1]]
    BY <1>2 DEF mark_delivery_success
  <2>2. /\ row' \in [Row -> [status : Statuses, attempts : Nat]]
        /\ \A y \in Row : y # x => row'[y] = row[y]
    BY <2>1 DEF Statuses
  <2>3. OutboxTypeOK' /\ RoundsLeft'
    BY <1>2, <2>2, NextServed DEF mark_delivery_success
  <2>4. a \in recorded /\ verdict' = [verdict EXCEPT ![a] = "none"]
    BY <1>2 DEF mark_delivery_success, NextDestination
  <2>5. ASSUME NEW b \in Sent, NEW i \in Destination, b # a
        PROVE  row'[<<b, i>>] = row[<<b, i>>]
    <3>1. <<b, i>> \in Row /\ <<b, i>> # x
      BY <2>5 DEF Current, Row
    <3>2. QED
      BY <2>2, <3>1
  <2>6. \A b \in Sent, i \in Destination :
          row'[<<b, i>>].status = "delivered" => row[<<b, i>>].status = "delivered" \/ b = a
    BY <2>5
  <2> HIDE DEF OutboxTypeOK, InboxTypeOK, OneInHand, AcceptedIsStored
  <2>7. \A b \in Sent : verdict'[b] = "ok" => verdict[b] = "ok"
    BY <2>4 DEF OutboxTypeOK
  <2>8. QED
    BY <2>3, <2>4, <2>6, <2>7
<1>3. CASE ReadForFailure(a)
  <2> SUFFICES ASSUME NEW x \in Row, x = Current(a)
               PROVE  OutboxTypeOK' /\ RoundsLeft' /\ OkMeansRecorded'
    BY <1>0, <1>3 DEF ReadForFailure
  <2>1. QED
    BY <1>3 DEF ReadForFailure, RoundsLeft
<1>4. CASE WriteFailure(a)
  <2> DEFINE limit == IF verdict[a] = "permanent" THEN 1 ELSE MaxAttempts
  <2>1. sread[a] \in Nat /\ limit \in Nat
    OBVIOUS
  <2> HIDE DEF limit
  <2>2. row' = [row EXCEPT ![Current(a)] = FailedRow(sread[a], limit)]
    BY <1>4 DEF WriteFailure, limit
  <2>3. /\ row' \in [Row -> [status : Statuses, attempts : Nat]]
        /\ \A y \in Row : row'[y].status = "delivered" => row[y].status = "delivered"
    BY <2>1, <2>2, FailureWritten
  <2>4. OutboxTypeOK' /\ RoundsLeft'
    BY <1>4, <2>3, NextServed DEF WriteFailure
  <2>5. verdict' = [verdict EXCEPT ![a] = "none"]
    BY <1>4 DEF WriteFailure, NextDestination
  <2>6. QED
    BY <2>3, <2>4, <2>5 DEF Row
<1>5. CASE SendAborts(a)
  BY <1>0, <1>5 DEF SendAborts, RoundsLeft
<1>6. ASSUME NEW to_inboxes \in Lists, Send(a, to_inboxes)
      PROVE  OutboxTypeOK' /\ RoundsLeft' /\ OkMeansRecorded'
  <2>1. 1 \in DOMAIN to_inboxes
    BY DEF Lists
  <2>2. QED
    BY <1>6, <2>1 DEF Send, RoundsLeft
<1>7. QED
  BY <1>1, <1>2, <1>3, <1>4, <1>5, <1>6 DEF OutboxStep

(* A retry call only ever writes "failed" or "dead_letter". *)
LEMMA RetryStepInv ==
  ASSUME ContractInv, NEW w \in Worker, RetryStep(w), UNCHANGED <<inboxVars, conn, crashes>>
  PROVE  ContractInv'
<1> USE SentAssumption, AttemptsAssumption, NobodyAssumption
    DEF ContractInv, TypeOK, OutboxTypeOK, InboxTypeOK, OneInHand, OkMeansRecorded,
        RoundsLeft, AcceptedIsStored, InHand, Handling, inboxVars, requestVars
<1>1. CASE RetryLoad(w)
  BY <1>1 DEF RetryLoad, Due
<1>2. CASE RetryRead(w)
  BY <1>2 DEF RetryRead
<1>3. CASE RetryWrite(w)
  <2>1. wread[w] \in Nat /\ MaxAttempts \in Nat
    OBVIOUS
  <2>2. /\ row' \in [Row -> [status : Statuses, attempts : Nat]]
        /\ \A x \in Row : row'[x].status = "delivered" => row[x].status = "delivered"
    <3>1. row' = [row EXCEPT ![wrow[w]] = FailedRow(wread[w], MaxAttempts)]
      BY <1>3 DEF RetryWrite
    <3>2. row \in [Row -> [status : Statuses, attempts : Nat]]
      OBVIOUS
    <3> HIDE DEF ContractInv
    <3>3. \A x \in Row : IF x = wrow[w] THEN row'[x].status \in {"failed", "dead_letter"}
                                         ELSE row'[x] = row[x]
      BY <2>1, <3>1, <3>2, FailureWritten
    <3>4. row' \in [Row -> [status : Statuses, attempts : Nat]]
      BY <2>1, <3>1, <3>2, FailureWritten
    <3>5. QED
      BY <3>3, <3>4
  <2>3. TypeOK'
    BY <1>3, <2>2 DEF RetryWrite
  <2>4. \A b \in Sent, i \in Destination :
          row'[<<b, i>>].status = "delivered" => row[<<b, i>>].status = "delivered"
    BY <2>2 DEF Row
  <2>5. QED
    BY <1>3, <2>3, <2>4 DEF RetryWrite
<1>4. QED
  BY <1>1, <1>2, <1>3 DEF RetryStep

(* The inserts of the inbox keep its tables in shape. *)
LEMMA InboxTyped ==
  ASSUME InboxTypeOK, NEW d \in Delivery, hpc[d] # "none" => carries[d] \in Activity,
         hpc[d] = "note" => carries[d] \in recorded, RecordActivity(d) \/ RecordNote(d)
  PROVE  InboxTypeOK'
<1>1. /\ hpc' \in [Delivery -> {"none", "check", "note", "message", "done"}]
      /\ reply' \in [Delivery -> Replies \cup {"none"}]
  BY DEF InboxTypeOK, RecordActivity, RecordNote, Answer, Replies
<1>2. QED
  BY <1>1 DEF InboxTypeOK, RecordActivity, RecordNote

(* The inbox: the handler that recorded an activity is the only one to     *)
(* have it in hand, from the first insert to the message.                  *)
LEMMA InboxStepInv ==
  ASSUME ContractInv, NEW d \in Delivery, InboxStep(d), UNCHANGED <<outboxVars, conn, crashes>>
  PROVE  ContractInv'
<1> USE SentAssumption, NoteAssumption, NoneAssumption
    DEF ContractInv, OneInHand, OkMeansRecorded, RoundsLeft, AcceptedIsStored,
        InHand, Handling, outboxVars, requestVars, retryVars, Answer, Replies
<1>1. ASSUME NEW r \in Replies, Refuse(d, r)
      PROVE  ContractInv'
  <2>1. TypeOK'
    BY <1>1 DEF Refuse, TypeOK, OutboxTypeOK, InboxTypeOK
  <2>2. OneInHand' /\ AcceptedIsStored'
    BY <1>1 DEF Refuse, TypeOK, InboxTypeOK
  <2>3. OkMeansRecorded'
    BY <1>1 DEF Refuse, TypeOK, InboxTypeOK, OutboxTypeOK
  <2>4. QED
    BY <2>1, <2>2, <2>3
<1>2. ASSUME NEW r \in Replies, HandlerFails(d, r)
      PROVE  ContractInv'
  BY <1>2 DEF HandlerFails, TypeOK, OutboxTypeOK, InboxTypeOK
<1>3. CASE RecordActivity(d)
  <2> USE <1>3 DEF RecordActivity, Inserts, TypeOK, InboxTypeOK
  <2>1. TypeOK'
    <3>1. OutboxTypeOK'
      BY DEF OutboxTypeOK
    <3>2. InboxTypeOK'
      BY InboxTyped
    <3>3. QED
      BY <3>1, <3>2
  <2>2. OneInHand'
    BY SMTT(30)
  <2>3. OkMeansRecorded'
    BY DEF OutboxTypeOK
  <2>4. AcceptedIsStored'
    OBVIOUS
  <2>5. QED
    BY <2>1, <2>2, <2>3, <2>4
<1>4. CASE RecordNote(d)
  <2> USE <1>4 DEF RecordNote, Inserts, TypeOK, InboxTypeOK
  <2>1. TypeOK'
    <3>1. OutboxTypeOK'
      BY DEF OutboxTypeOK
    <3>2. InboxTypeOK'
      BY InboxTyped
    <3>3. QED
      BY <3>1, <3>2
  <2>2. OneInHand'
    OBVIOUS
  <2>3. OkMeansRecorded'
    BY DEF OutboxTypeOK
  <2>4. AcceptedIsStored'
    OBVIOUS
  <2>5. QED
    BY <2>1, <2>2, <2>3, <2>4
<1>5. CASE StoreMessage(d)
  BY <1>5 DEF StoreMessage, TypeOK, OutboxTypeOK, InboxTypeOK
<1>6. QED
  BY <1>1, <1>2, <1>3, <1>4, <1>5 DEF InboxStep

(* A request on its way is in nobody's hand. *)
LEMMA ArriveKeeps ==
  ASSUME InboxTypeOK, OneInHand, AcceptedIsStored, NEW a, NEW d \in Delivery, Arrive(d, a)
  PROVE  OneInHand' /\ AcceptedIsStored'
<1>1. /\ UNCHANGED <<recorded, remote, messages, broken>> /\ ~Handling(d) /\ ~Handling(d)'
      /\ \A e \in Delivery : e # d => carries'[e] = carries[e] /\ hpc'[e] = hpc[e]
  BY DEF Arrive, InboxTypeOK, Handling
<1>2. OneInHand'
  BY <1>1 DEF OneInHand, Handling
<1>3. AcceptedIsStored'
  BY <1>1 DEF AcceptedIsStored, InHand, Handling
<1>4. QED
  BY <1>2, <1>3

(* The network carries requests, more than once perhaps, ... *)
LEMMA RequestInv ==
  ASSUME ContractInv, NEW a \in Activity, NEW d \in Delivery,
         (a \in Sent /\ PostRequest(a, d)) \/ OtherRequest(a, d)
  PROVE  ContractInv'
<1> USE SentAssumption, NoteAssumption, NoneAssumption
    DEF ContractInv, TypeOK, OutboxTypeOK, InboxTypeOK, OneInHand, OkMeansRecorded,
        RoundsLeft, AcceptedIsStored, InHand, Handling, Replies
<1>1. CASE a \in Sent /\ PostRequest(a, d)
  <2> USE <1>1 DEF PostRequest, Post, Arrive, requestVars, retryVars
  <2>1. OutboxTypeOK'
    OBVIOUS
  <2>2. TypeOK'
    BY <2>1
  <2>3. RoundsLeft'
    OBVIOUS
  <2>4. OneInHand' /\ AcceptedIsStored'
    BY ArriveKeeps
  <2>5. OkMeansRecorded'
    OBVIOUS
  <2>6. QED
    BY <2>2, <2>3, <2>4, <2>5
<1>2. CASE OtherRequest(a, d)
  BY <1>2 DEF OtherRequest, Arrive, outboxVars, requestVars, retryVars
<1>3. QED
  BY <1>1, <1>2

(* ... and an answer only back to the request it belongs to. *)
LEMMA ReplyInv ==
  ASSUME ContractInv, NEW a \in Sent, ReceiveReply(a) \/ TransportError(a)
  PROVE  ContractInv'
<1> USE SentAssumption, NoteAssumption, NoneAssumption
    DEF ContractInv, TypeOK, OutboxTypeOK, InboxTypeOK, OneInHand, OkMeansRecorded,
        RoundsLeft, AcceptedIsStored, InHand, Handling, Replies
<1>1. CASE ReceiveReply(a)
  BY <1>1 DEF ReceiveReply, Answered, inboxVars, requestVars, retryVars
<1>2. CASE TransportError(a)
  BY <1>2 DEF TransportError, Answered, inboxVars, requestVars, retryVars
<1>3. QED
  BY <1>1, <1>2

LEMMA CrashInv ==
  ASSUME ContractInv, CrashOne
  PROVE  ContractInv'
<1> USE SentAssumption, NoteAssumption, NoneAssumption, MaxCrashAssumption
    DEF ContractInv, TypeOK, OutboxTypeOK, InboxTypeOK, OneInHand, OkMeansRecorded,
        RoundsLeft, AcceptedIsStored, InHand, Handling, Replies
<1>1. CASE OutboxCrash /\ UNCHANGED inboxVars /\ conn' = [a \in Sent |-> None]
  <2> USE <1>1 DEF CrashOne, OutboxCrash, inboxVars, requestVars
  <2>1. orphaned' \subseteq Row
    BY CurrentRow
  <2>2. TypeOK'
    BY <2>1
  <2>3. RoundsLeft' /\ OneInHand' /\ AcceptedIsStored' /\ OkMeansRecorded'
    OBVIOUS
  <2>4. QED
    BY <2>2, <2>3
<1>2. CASE InboxCrash /\ UNCHANGED <<outboxVars, conn>>
  BY <1>2 DEF CrashOne, InboxCrash, outboxVars, requestVars, retryVars
<1>3. QED
  BY <1>1, <1>2 DEF CrashOne

LEMMA ContractInit == Init => ContractInv
  BY SentAssumption, NoteAssumption, NoneAssumption, MaxCrashAssumption, AttemptsAssumption
  DEF Init, OutboxInit, InboxInit, ContractInv, TypeOK, OutboxTypeOK, InboxTypeOK,
      OneInHand, OkMeansRecorded, RoundsLeft, AcceptedIsStored, InHand, Handling,
      Statuses, Replies, Row

LEMMA ContractStep ==
  ASSUME ContractInv, [Next]_vars
  PROVE  ContractInv'
<1>1. CASE UNCHANGED vars
  BY <1>1 DEF vars, outboxVars, inboxVars, requestVars, retryVars, ContractInv, TypeOK,
     OutboxTypeOK, InboxTypeOK, OneInHand, OkMeansRecorded, RoundsLeft,
     AcceptedIsStored, InHand, Handling
<1>2. QED
  BY <1>1, SentAssumption, OutboxStepInv, RetryStepInv, InboxStepInv, RequestInv, ReplyInv,
     CrashInv DEF Next

(* The invariant behind the contract holds in every state. *)
THEOREM ContractInvHolds == Spec => []ContractInv
<1>1. ContractInv /\ [Next]_vars => ContractInv'
  BY ContractStep
<1>2. QED
  BY ContractInit, <1>1, PTL DEF Spec

(* Type correctness of the federation tables and requests. *)
THEOREM TypeCorrect == Spec => []TypeOK
<1>1. ContractInv => TypeOK
  BY DEF ContractInv
<1>2. QED
  BY ContractInvHolds, <1>1, PTL

(* Concurrent copies of a request never lose a note: a recorded note is    *)
(* stored, in hand, or its handler failed.                                 *)
THEOREM NotesStored == Spec => []AcceptedIsStored
<1>1. ContractInv => AcceptedIsStored
  BY DEF ContractInv
<1>2. QED
  BY ContractInvHolds, <1>1, PTL

(* Every step is one of the contract's: recording an activity accepts it,  *)
(* storing its message stores the one copy, and every other step at most   *)
(* changes which of the accepted activities the outbox lists as delivered. *)
LEMMA StepKeepsContract ==
  ASSUME ContractInv, ContractInv', [Next]_vars
  PROVE  [Contract!Next]_Contract!vars
<1> DEFINE reported == {a \in Sent : \E i \in Destination : row[<<a, i>>].status = "delivered"}
<1>1. CASE UNCHANGED <<recorded, messages>>
  <2>1. reported' \in SUBSET recorded
    BY <1>1 DEF ContractInv, OkMeansRecorded
  <2>2. Contract!Report
    BY <1>1, <2>1 DEF Contract!Report
  <2>3. QED
    BY <2>2 DEF Contract!Next
<1>2. ASSUME NEW d \in Delivery, RecordActivity(d), UNCHANGED outboxVars
      PROVE  [Contract!Next]_Contract!vars
  <2> DEFINE a == carries[d]
  <2>1. a \in Activity /\ recorded' = recorded \cup {a} /\ UNCHANGED messages
    BY <1>2 DEF RecordActivity, ContractInv, OkMeansRecorded
  <2>2. UNCHANGED reported
    BY <1>2 DEF outboxVars
  <2>3. CASE a \in recorded
    <3>1. UNCHANGED recorded
      BY <2>1, <2>3
    <3>2. QED
      BY <2>1, <3>1, <1>1
  <2>4. CASE a \notin recorded
    <3>1. Contract!Accept(a)
      BY <2>1, <2>2, <2>4 DEF Contract!Accept
    <3>2. QED
      BY <2>1, <3>1 DEF Contract!Next
  <2>5. QED
    BY <2>3, <2>4
<1>3. ASSUME NEW d \in Delivery, StoreMessage(d), UNCHANGED outboxVars
      PROVE  [Contract!Next]_Contract!vars
  <2> DEFINE a == carries[d]
  <2>1. a \in Activity /\ a \in recorded /\ messages[a] = 0
    BY <1>3 DEF StoreMessage, ContractInv, OneInHand, OkMeansRecorded, Handling
  <2>2. messages' = [messages EXCEPT ![a] = 1] /\ UNCHANGED <<recorded, reported>>
    BY <1>3, <2>1 DEF StoreMessage, outboxVars
  <2>3. Contract!Store(a)
    BY <2>1, <2>2 DEF Contract!Store
  <2>4. QED
    BY <2>1, <2>3 DEF Contract!Next
<1>4. ASSUME NEW d \in Delivery, InboxStep(d), UNCHANGED outboxVars
      PROVE  [Contract!Next]_Contract!vars
  <2>1. CASE RecordActivity(d) \/ StoreMessage(d)
    BY <1>2, <1>3, <1>4, <2>1
  <2>2. CASE RecordNote(d) \/ \E r \in Replies : Refuse(d, r) \/ HandlerFails(d, r)
    BY <1>1, <2>2 DEF RecordNote, Refuse, HandlerFails
  <2>3. QED
    BY <1>4, <2>1, <2>2 DEF InboxStep
<1>5. ASSUME NEW a, NEW d, PostRequest(a, d) \/ OtherRequest(a, d)
      PROVE  UNCHANGED <<recorded, messages>>
  BY <1>5 DEF PostRequest, OtherRequest, Arrive
<1>6. ASSUME NEW a \in Sent, ReceiveReply(a) \/ TransportError(a)
      PROVE  UNCHANGED <<recorded, messages>>
  BY <1>6 DEF ReceiveReply, TransportError, inboxVars
<1>7. CrashOne => UNCHANGED <<recorded, messages>>
  BY DEF CrashOne, InboxCrash, inboxVars
<1>8. UNCHANGED inboxVars => UNCHANGED <<recorded, messages>>
  BY DEF inboxVars
<1>9. UNCHANGED vars => UNCHANGED <<recorded, messages>>
  BY DEF vars, inboxVars
<1>10. QED
  BY <1>1, <1>4, <1>5, <1>6, <1>7, <1>8, <1>9 DEF Next

(* Inbox and outbox implement the delivery contract. *)
THEOREM Refinement == Spec => KeepsContract
<1>1. Init => Contract!Init
  <2> SUFFICES ASSUME Init PROVE Contract!Init
    OBVIOUS
  <2>1. \A a \in Sent, i \in Destination : row[<<a, i>>].status = "none"
    BY DEF Init, OutboxInit, Row
  <2>2. {a \in Sent : \E i \in Destination : row[<<a, i>>].status = "delivered"} = {}
    BY <2>1
  <2>3. QED
    BY <2>2 DEF Init, InboxInit, Contract!Init
<1>2. ContractInv /\ ContractInv' /\ [Next]_vars => [Contract!Next]_Contract!vars
  BY StepKeepsContract
<1>3. QED
  BY ContractInvHolds, <1>1, <1>2, PTL DEF Spec, KeepsContract, Contract!Spec

----------------------------------------------------------------------------
(* What keeps a retry from a settled row: a row whose destination was      *)
(* listed once is settled by the request alone, when it moves on, and a    *)
(* retry that lists the row, or has it in hand, finds it as it was.        *)
Settled == {"delivered", "failed", "dead_letter"}
Passed(x) ==
  /\ spc[x[1]] # "new"
  /\ \A m \in DOMAIN list[x[1]] : list[x[1]][m] = x[2] => m < at[x[1]]
Retried(x) == \E w \in Worker : x \in wdue[w] \/ wrow[w] = x
RowInv ==
  /\ PendingIsAttended
  /\ \A x \in Row \ Repeated :
       /\ row[x].status \in Settled => Passed(x)
       /\ Retried(x) => row[x].status \in {"failed", "dead_letter"}

(* No delivered row that is listed once changes. *)
Kept == \A x \in Row \ Repeated : row[x].status = "delivered" => row'[x] = row[x]

LEMMA RowInit == Init => RowInv
BY NobodyAssumption DEF Init, OutboxInit, RowInv, PendingIsAttended, Settled, Retried, Row

(* The row in hand has not been passed. *)
LEMMA CurrentUnsettled ==
  ASSUME ContractInv, RowInv, NEW a \in Sent, spc[a] \notin {"new", "end"}
  PROVE  /\ Current(a) \in Row /\ ~Passed(Current(a))
         /\ Current(a) \notin Repeated =>
              row[Current(a)].status \notin Settled /\ ~Retried(Current(a))
<1>1. Current(a) \in Row
  BY CurrentRow DEF ContractInv, TypeOK
<1>2. at[a] \in DOMAIN list[a] /\ at[a] \in Nat
  BY DEF ContractInv, TypeOK, OutboxTypeOK, RoundsLeft
<1>3. ~Passed(Current(a))
  BY <1>2 DEF Passed, Current
<1>4. QED
  BY <1>1, <1>3 DEF RowInv, Settled

(* A step that writes no row and retries nothing. *)
LEMMA SameRows ==
  ASSUME RowInv, UNCHANGED <<row, list, at>>, PendingIsAttended',
         \A a \in Sent : spc[a] # "new" => spc'[a] # "new",
         \A x \in Row : Retried(x)' => Retried(x)
  PROVE  RowInv' /\ Kept
<1>1. Repeated' = Repeated
  BY DEF Repeated
<1>2. \A x \in Row : Passed(x) => Passed(x)'
  BY DEF Passed, Row
<1>3. QED
  BY <1>1, <1>2 DEF RowInv, Kept

(* The request that sends an activity. *)
LEMMA OutboxStepRow ==
  ASSUME ContractInv, RowInv, NEW a \in Sent, OutboxStep(a)
  PROVE  RowInv' /\ Kept
<1> USE DEF ContractInv, TypeOK, OutboxTypeOK
<1>1. ASSUME NEW x \in Row, x = Current(a), spc[a] \notin {"new", "end"},
             \A y \in Row : y # x => row'[y] = row[y],
             row'[x].status \in Statuses \ {"none"},
             UNCHANGED <<list, retryVars, orphaned>>,
             \/ /\ row'[x].status = "pending" /\ spc' = [spc EXCEPT ![a] = "post"]
                /\ UNCHANGED at
             \/ /\ row'[x].status # "pending" /\ NextDestination(a)
      PROVE  RowInv' /\ Kept
  <2>1. ~Passed(x) /\ (x \notin Repeated => row[x].status \notin Settled /\ ~Retried(x))
    BY <1>1, CurrentUnsettled
  <2>2. x[1] = a /\ x[2] = list[a][at[a]] /\ at[a] \in DOMAIN list[a]
    BY <1>1 DEF Current, RoundsLeft
  <2>3. Repeated' = Repeated
    BY <1>1 DEF Repeated
  <2>4. Kept
    BY <1>1, <2>1 DEF Kept, Settled
  <2>5. PendingIsAttended'
    <3> SUFFICES ASSUME NEW y \in Row, row'[y].status = "pending", y \notin orphaned
                 PROVE  spc'[y[1]] \in {"post", "wait", "mark", "fail"} /\ y = Current(y[1])'
      BY <1>1 DEF PendingIsAttended
    <3>1. CASE y = x
      BY <1>1, <2>2, <3>1 DEF Current, Settled
    <3>2. CASE y # x
      <4>1. spc[y[1]] \in {"post", "wait", "mark", "fail"} /\ y = Current(y[1])
        BY <1>1, <3>2 DEF RowInv, PendingIsAttended
      <4>2. y[1] # a /\ y[1] \in Sent
        BY <1>1, <3>2, <4>1 DEF Row
      <4>3. spc'[y[1]] = spc[y[1]] /\ at'[y[1]] = at[y[1]]
        BY <1>1, <4>2 DEF NextDestination
      <4>4. QED
        BY <1>1, <4>1, <4>3 DEF Current
    <3>3. QED
      BY <3>1, <3>2
  <2>6. ASSUME NEW y \in Row \ Repeated, row'[y].status \in Settled
        PROVE  Passed(y)'
    <3>1. y[1] \in Sent
      BY DEF Row
    <3>2. spc'[y[1]] # "new" \/ (y[1] # a /\ spc'[y[1]] = spc[y[1]])
      BY <1>1, <3>1 DEF NextDestination
    <3>3. at'[y[1]] \in Nat /\ at[y[1]] \in Nat /\ at'[y[1]] >= at[y[1]]
      <4>1. at' = at \/ at' = [at EXCEPT ![a] = @ + 1]
        BY <1>1 DEF NextDestination
      <4>2. at \in [Sent -> Nat]
        OBVIOUS
      <4> HIDE DEF OutboxTypeOK
      <4>3. QED
        BY <3>1, <4>1, <4>2
    <3>4. CASE y = x
      <4>1. at'[a] = at[a] + 1
        BY <1>1, <2>6, <3>4 DEF NextDestination, Settled
      <4>2. ASSUME NEW m \in DOMAIN list[a], list[a][m] = x[2]
            PROVE  m = at[a]
        BY <2>2, <2>6, <3>4, <4>2 DEF Repeated
      <4>3. spc'[a] # "new"
        BY <2>2, <3>2, <3>4
      <4>4. QED
        BY <1>1, <2>2, <3>3, <3>4, <4>1, <4>2, <4>3 DEF Passed
    <3>5. CASE y # x
      <4>1. Passed(y)
        BY <1>1, <2>6, <3>5 DEF RowInv
      <4>2. \A m \in DOMAIN list[y[1]] : m \in Nat
        BY <3>1, ListedAt
      <4>3. QED
        BY <1>1, <3>2, <3>3, <4>1, <4>2 DEF Passed
    <3>6. QED
      BY <3>4, <3>5
  <2>7. ASSUME NEW y \in Row \ Repeated, Retried(y)'
        PROVE  row'[y].status \in {"failed", "dead_letter"}
    <3>1. Retried(y)
      BY <1>1, <2>7 DEF Retried, retryVars
    <3>2. QED
      BY <1>1, <2>1, <2>7, <3>1 DEF RowInv
  <2>8. QED
    BY <2>3, <2>4, <2>5, <2>6, <2>7 DEF RowInv
<1>2. spc[a] \notin {"new", "end"} => Current(a) \in Row
  BY CurrentRow
<1>3. CASE upsert_delivery_pending(a)
  <2> SUFFICES ASSUME NEW x \in Row, x = Current(a)
               PROVE  RowInv' /\ Kept
    BY <1>2, <1>3 DEF upsert_delivery_pending
  <2>1. row' = [row EXCEPT ![x] = [status |-> "pending", attempts |-> @.attempts]]
    BY <1>3 DEF upsert_delivery_pending
  <2>2. row'[x].status = "pending" /\ \A y \in Row : y # x => row'[y] = row[y]
    BY <2>1
  <2>3. QED
    BY <1>1, <1>3, <2>2 DEF upsert_delivery_pending, requestVars, Statuses
<1>4. CASE mark_delivery_success(a)
  <2> SUFFICES ASSUME NEW x \in Row, x = Current(a)
               PROVE  RowInv' /\ Kept
    BY <1>2, <1>4 DEF mark_delivery_success
  <2>1. row' = [row EXCEPT ![x] = [status |-> "delivered", attempts |-> @.attempts + 1]]
    BY <1>4 DEF mark_delivery_success
  <2>2. row'[x].status = "delivered" /\ \A y \in Row : y # x => row'[y] = row[y]
    BY <2>1
  <2>3. QED
    BY <1>1, <1>4, <2>2 DEF mark_delivery_success, Statuses
<1>5. CASE WriteFailure(a)
  <2> SUFFICES ASSUME NEW x \in Row, x = Current(a)
               PROVE  RowInv' /\ Kept
    BY <1>2, <1>5 DEF WriteFailure
  <2> DEFINE limit == IF verdict[a] = "permanent" THEN 1 ELSE MaxAttempts
  <2>1. sread[a] \in Nat /\ limit \in Nat
    BY AttemptsAssumption
  <2> HIDE DEF limit
  <2>2. row' = [row EXCEPT ![x] = FailedRow(sread[a], limit)]
    BY <1>5 DEF WriteFailure, limit
  <2>3. /\ row'[x].status \in {"failed", "dead_letter"}
        /\ \A y \in Row : y # x => row'[y] = row[y]
    BY <2>1, <2>2, FailureWritten
  <2>4. QED
    BY <1>1, <1>5, <2>3 DEF WriteFailure, Statuses
<1>6. CASE ReadForFailure(a)
  <2>1. /\ UNCHANGED <<row, list, at, retryVars, orphaned>>
        /\ spc[a] = "mark" /\ spc' = [spc EXCEPT ![a] = "fail"]
    BY <1>6 DEF ReadForFailure, requestVars
  <2>2. \A b \in Sent : IF b = a THEN spc'[b] = "fail" ELSE spc'[b] = spc[b]
    BY <2>1
  <2>3. PendingIsAttended'
    BY <2>1, <2>2 DEF RowInv, PendingIsAttended, Current, Row
  <2>4. QED
    BY <2>1, <2>2, <2>3, SameRows DEF Retried, retryVars
<1>7. CASE SendAborts(a)
  <2>1. /\ UNCHANGED <<row, list, at, retryVars>>
        /\ orphaned' = orphaned \cup {Current(a)} /\ spc' = [spc EXCEPT ![a] = "end"]
    BY <1>7 DEF SendAborts, requestVars
  <2>2. \A b \in Sent : IF b = a THEN spc'[b] = "end" ELSE spc'[b] = spc[b]
    BY <2>1
  <2>3. PendingIsAttended'
    BY <2>1, <2>2 DEF RowInv, PendingIsAttended, Current, Row
  <2>4. QED
    BY <2>1, <2>2, <2>3, SameRows DEF Retried, retryVars
<1>8. ASSUME NEW to_inboxes \in Lists, Send(a, to_inboxes)
      PROVE  RowInv' /\ Kept
  <2>1. /\ UNCHANGED <<row, at, retryVars, orphaned>>
        /\ spc[a] = "new" /\ list[a] = <<>>
        /\ \A b \in Sent : IF b = a THEN spc'[b] = "upsert"
                            ELSE spc'[b] = spc[b] /\ list'[b] = list[b]
    BY <1>8 DEF Send, RoundsLeft
  <2>2. ASSUME NEW x \in Row \ Repeated'
        PROVE  x \notin Repeated
    <3>1. CASE x[1] = a
      <4>1. DOMAIN list[a] = {}
        BY <2>1
      <4>2. QED
        BY <3>1, <4>1 DEF Repeated
    <3>2. CASE x[1] # a
      <4>1. x \in Row /\ list'[x[1]] = list[x[1]]
        BY <2>1, <3>2 DEF Row
      <4>2. QED
        BY <2>2, <4>1 DEF Repeated
    <3>3. QED
      BY <3>1, <3>2
  <2>3. ASSUME NEW x \in Row, x[1] = a, x \notin Repeated
        PROVE  row[x].status \notin Settled
    BY <2>1, <2>3 DEF RowInv, Passed
  <2>4. PendingIsAttended'
    BY <2>1 DEF RowInv, PendingIsAttended, Current, Row
  <2>5. ASSUME NEW x \in Row \ Repeated', row'[x].status \in Settled
        PROVE  Passed(x)'
    BY <2>1, <2>2, <2>3, <2>5 DEF RowInv, Passed, Row
  <2>6. ASSUME NEW x \in Row \ Repeated', Retried(x)'
        PROVE  row'[x].status \in {"failed", "dead_letter"}
    BY <2>1, <2>2, <2>6 DEF RowInv, Retried, retryVars
  <2>7. QED
    BY <2>1, <2>4, <2>5, <2>6 DEF RowInv, Kept
<1>9. QED
  BY <1>3, <1>4, <1>5, <1>6, <1>7, <1>8 DEF OutboxStep

(* The retries. *)
LEMMA RetryStepRow ==
  ASSUME ContractInv, RowInv, NEW w \in Worker, RetryStep(w)
  PROVE  RowInv' /\ Kept
<1> USE AttemptsAssumption, NobodyAssumption DEF ContractInv, TypeOK, OutboxTypeOK
<1>0. UNCHANGED <<spc, list, at, orphaned>>
  BY DEF RetryStep, RetryLoad, RetryRead, RetryWrite, requestVars
<1>1. Repeated' = Repeated /\ \A x \in Row : Passed(x)' <=> Passed(x)
  BY <1>0 DEF Repeated, Passed
<1>2. ASSUME UNCHANGED row, \A x \in Row : Retried(x)' => Retried(x) \/ x \in Due
      PROVE  RowInv' /\ Kept
  BY <1>0, <1>1, <1>2 DEF RowInv, Kept, PendingIsAttended, Current, Due
<1>3. CASE RetryLoad(w)
  BY <1>2, <1>3 DEF RetryLoad, Retried
<1>4. CASE RetryRead(w)
  BY <1>2, <1>4 DEF RetryRead, Retried
<1>5. CASE RetryWrite(w)
  <2>0. wread[w] \in Nat /\ MaxAttempts \in Nat
    OBVIOUS
  <2>1. \A x \in Row : IF x = wrow[w] THEN row'[x].status \in {"failed", "dead_letter"}
                                       ELSE row'[x] = row[x]
    <3> DEFINE r == FailedRow(wread[w], MaxAttempts)
    <3>1. r.status \in {"failed", "dead_letter"}
      BY <2>0, FailedRowIs
    <3> HIDE DEF r
    <3>2. row' = [row EXCEPT ![wrow[w]] = r]
      BY <1>5 DEF RetryWrite, r
    <3>3. QED
      BY <3>1, <3>2
  <2>2. \A x \in Row : Retried(x)' => Retried(x)
    BY <1>5 DEF RetryWrite, Retried, Row
  <2>3. \A x \in Row : x = wrow[w] => Retried(x)
    BY DEF Retried
  <2>4. Kept
    BY <2>1, <2>3 DEF RowInv, Kept
  <2>5. PendingIsAttended'
    BY <1>0, <2>1 DEF RowInv, PendingIsAttended, Current
  <2>6. QED
    BY <1>1, <2>1, <2>2, <2>3, <2>4, <2>5 DEF RowInv, Settled
<1>6. QED
  BY <1>3, <1>4, <1>5 DEF RetryStep

LEMMA RowStep ==
  ASSUME ContractInv, RowInv, [Next]_vars
  PROVE  RowInv' /\ Kept
<1>1. ASSUME UNCHANGED outboxVars
      PROVE  RowInv' /\ Kept
  BY <1>1 DEF outboxVars, requestVars, retryVars, RowInv, Kept, PendingIsAttended, Current,
     Repeated, Passed, Retried
<1>2. ASSUME NEW a \in Sent, Post(a) \/ \E v : Answered(a, v)
      PROVE  RowInv' /\ Kept
  <2>1. /\ spc[a] \in {"post", "wait"}
        /\ spc' = [spc EXCEPT ![a] = "wait"] \/ spc' = [spc EXCEPT ![a] = "mark"]
        /\ UNCHANGED <<row, list, at, wdue, wrow, orphaned>>
    BY <1>2 DEF Post, Answered, requestVars, retryVars
  <2>2. \A b \in Sent : spc'[b] = spc[b] \/ (b = a /\ spc'[b] \in {"wait", "mark"})
    BY <2>1 DEF ContractInv, TypeOK, OutboxTypeOK
  <2>3. PendingIsAttended'
    BY <2>1, <2>2 DEF RowInv, PendingIsAttended, Current, Row
  <2>4. QED
    BY <2>1, <2>2, <2>3, SameRows DEF Retried
<1>3. CASE OutboxCrash
  <2>1. UNCHANGED <<row, list, at>> /\ \A x \in Row : ~Retried(x)'
    BY <1>3, NobodyAssumption DEF OutboxCrash, requestVars, Retried, Row
  <2>2. PendingIsAttended'
    BY <1>3, <2>1 DEF OutboxCrash, RowInv, PendingIsAttended, Row
  <2>3. QED
    BY <1>3, <2>1, <2>2, SameRows DEF OutboxCrash
<1>4. CASE \E a \in Sent : OutboxStep(a)
  BY <1>4, OutboxStepRow
<1>5. CASE \E w \in Worker : RetryStep(w)
  BY <1>5, RetryStepRow
<1>6. CASE \/ \E a \in Sent, d \in Delivery : PostRequest(a, d)
           \/ \E a \in Activity, d \in Delivery : OtherRequest(a, d)
  BY <1>6, <1>1, <1>2 DEF PostRequest, OtherRequest
<1>7. CASE \E a \in Sent : ReceiveReply(a) \/ TransportError(a)
  BY <1>7, <1>2 DEF ReceiveReply, TransportError
<1>8. CASE CrashOne
  BY <1>8, <1>1, <1>3 DEF CrashOne
<1>9. CASE (\E d \in Delivery : InboxStep(d) /\ UNCHANGED <<outboxVars, conn, crashes>>) \/ UNCHANGED vars
  BY <1>9, <1>1 DEF vars
<1>10. QED
  BY <1>4, <1>5, <1>6, <1>7, <1>8, <1>9 DEF Next

LEMMA RowInvHolds == Spec => [](ContractInv /\ RowInv)
<1>1. ContractInv /\ RowInv /\ [Next]_vars => RowInv'
  BY RowStep
<1>2. QED
  BY ContractInvHolds, RowInit, <1>1, PTL DEF Spec

(* A row is pending only while the request that sends it works on it, or   *)
(* after that request was cut off.                                         *)
THEOREM PendingAttended == Spec => []PendingIsAttended
<1>1. RowInv => PendingIsAttended
  BY DEF RowInv
<1>2. QED
  BY <1>1, RowInvHolds, PTL

(* Retries that run beside each other, beside the requests and across      *)
(* crashes never take back a delivery, unless its destination was repeated *)
(* in one request.                                                         *)
THEOREM DeliveryIsFinal == Spec => DeliveredIsFinal
<1>1. ContractInv /\ RowInv /\ [Next]_vars =>
        [\A x \in Row \ Repeated : row[x].status = "delivered" => row'[x] = row[x]]_vars
  BY RowStep DEF Kept
<1>2. QED
  BY <1>1, RowInvHolds, PTL DEF Spec, DeliveredIsFinal
=============================================================================
