-------------------------- MODULE FederationOutbox -------------------------
(***************************************************************************)
(* The sending planet: send_to_remote, deliver_direct_message_to_remote    *)
(* and retry_due_deliveries (routes/federation.rs), over the               *)
(* federation_deliveries table (services/federation_service.rs).           *)
(*                                                                         *)
(* One row per activity and destination.  send_to_remote serves the list   *)
(* of destinations it was given one after the other, and a destination may *)
(* be in it twice; deliver_direct_message_to_remote is the list of one.    *)
(* mark_delivery_failure reads the row and writes it in two statements.    *)
(***************************************************************************)
EXTENDS Naturals

CONSTANTS
  Sent,         \* the activities the planet sends
  Destination,  \* inboxes of the planet it sends them to
  Worker,       \* concurrent calls of retry_due_deliveries
  Nobody,
  MaxAttempts,  \* federation_max_delivery_attempts
  MaxList       \* bound on the destinations in one request

ASSUME AttemptsAssumption == MaxAttempts \in Nat \ {0} /\ MaxList \in Nat \ {0}
ASSUME NobodyAssumption == Nobody \notin Sent \X Destination

VARIABLES
  row,       \* federation_deliveries, by activity and destination: status and attempts
  spc,       \* where the request that sends each activity is
  list, at,  \* to_inboxes of that request, and the entry it serves
  verdict,   \* the class of the answer it got
  sread,     \* attempts as read by its mark_delivery_failure
  wpc, wdue, wrow, wread, \* of each retry call: rows to do, the row in hand, attempts read
  orphaned   \* history: rows whose request ended without marking them

retryVars == <<wpc, wdue, wrow, wread>>
requestVars == <<list, at>>
outboxVars == <<row, spc, requestVars, verdict, sread, retryVars, orphaned>>

Statuses == {"none", "pending", "delivered", "failed", "dead_letter"}

Row == Sent \X Destination
Lists == UNION {[1..n -> Destination] : n \in 1..MaxList}

(* The row a request works on. *)
Current(a) == <<a, list[a][at[a]]>>

(* Rows whose destination is in the list twice. *)
Repeated ==
  {x \in Row : \E m, n \in DOMAIN list[x[1]] :
     m # n /\ list[x[1]][m] = x[2] /\ list[x[1]][n] = x[2]}

OutboxInit ==
  /\ row = [x \in Row |-> [status |-> "none", attempts |-> 0]]
  /\ spc = [a \in Sent |-> "new"]
  /\ list = [a \in Sent |-> <<>>] /\ at = [a \in Sent |-> 1]
  /\ verdict = [a \in Sent |-> "none"]
  /\ sread = [a \in Sent |-> 0]
  /\ wpc = [w \in Worker |-> "idle"] /\ wdue = [w \in Worker |-> {}]
  /\ wrow = [w \in Worker |-> Nobody] /\ wread = [w \in Worker |-> 0]
  /\ orphaned = {}

----------------------------------------------------------------------------
(* The request is accepted: a new activity id for a list of destinations. *)
Send(a, to_inboxes) ==
  /\ spc[a] = "new"
  /\ spc' = [spc EXCEPT ![a] = "upsert"]
  /\ list' = [list EXCEPT ![a] = to_inboxes]
  /\ UNCHANGED <<row, at, verdict, sread, retryVars, orphaned>>

(* A row that exists keeps its attempts and is pending again. *)
upsert_delivery_pending(a) ==
  /\ spc[a] = "upsert"
  /\ row' = [row EXCEPT ![Current(a)] = [status |-> "pending", attempts |-> @.attempts]]
  /\ spc' = [spc EXCEPT ![a] = "post"]
  /\ UNCHANGED <<requestVars, verdict, sread, retryVars, orphaned>>

(* post_activity_signed: the request leaves ... *)
Post(a) ==
  /\ spc[a] = "post"
  /\ spc' = [spc EXCEPT ![a] = "wait"]
  /\ UNCHANGED <<row, requestVars, verdict, sread, retryVars, orphaned>>

(* ... and is answered, or fails on the way (a transient failure). *)
Answered(a, v) ==
  /\ spc[a] = "wait"
  /\ spc' = [spc EXCEPT ![a] = "mark"]
  /\ verdict' = [verdict EXCEPT ![a] = v]
  /\ UNCHANGED <<row, requestVars, sread, retryVars, orphaned>>

NextDestination(a) ==
  /\ at' = [at EXCEPT ![a] = @ + 1]
  /\ spc' = [spc EXCEPT ![a] = IF at[a] + 1 \in DOMAIN list[a] THEN "upsert" ELSE "end"]
  /\ verdict' = [verdict EXCEPT ![a] = "none"]
  /\ sread' = [sread EXCEPT ![a] = 0]

(* Mutant: the attempt is counted, the status is not set. *)
mark_delivery_success_CountOnly(a) ==
  /\ spc[a] = "mark" /\ verdict[a] = "ok"
  /\ row' = [row EXCEPT ![Current(a)] = [status |-> @.status, attempts |-> @.attempts + 1]]
  /\ NextDestination(a)
  /\ UNCHANGED <<list, retryVars, orphaned>>

mark_delivery_success(a) ==
  /\ spc[a] = "mark" /\ verdict[a] = "ok"
  /\ row' = [row EXCEPT ![Current(a)] = [status |-> "delivered", attempts |-> @.attempts + 1]]
  /\ NextDestination(a)
  /\ UNCHANGED <<list, retryVars, orphaned>>

(* mark_delivery_failure, its read and its write.  A permanent failure is  *)
(* marked with max_attempts = 1.                                           *)
FailedRow(read, limit) ==
  [status |-> IF read + 1 >= limit THEN "dead_letter" ELSE "failed", attempts |-> read + 1]

ReadForFailure(a) ==
  /\ spc[a] = "mark" /\ verdict[a] \in {"permanent", "transient"}
  /\ sread' = [sread EXCEPT ![a] = row[Current(a)].attempts]
  /\ spc' = [spc EXCEPT ![a] = "fail"]
  /\ UNCHANGED <<row, requestVars, verdict, retryVars, orphaned>>

WriteFailure(a) ==
  /\ spc[a] = "fail"
  /\ row' = [row EXCEPT ![Current(a)] =
       FailedRow(sread[a], IF verdict[a] = "permanent" THEN 1 ELSE MaxAttempts)]
  /\ NextDestination(a)
  /\ UNCHANGED <<list, retryVars, orphaned>>

(* A database error in upsert, in the SELECT after it, or in mark ends the *)
(* request, row as it is.                                                  *)
SendAborts(a) ==
  /\ spc[a] \in {"upsert", "post", "mark", "fail"}
  /\ spc' = [spc EXCEPT ![a] = "end"]
  /\ orphaned' = orphaned \cup {Current(a)}
  /\ UNCHANGED <<row, requestVars, verdict, sread, retryVars>>

----------------------------------------------------------------------------
(* Mutant: everything that is not settled is due. *)
Due_Unsettled == {x \in Row : row[x].status \in {"pending", "failed"}}

(* deliveries_due_for_retry: failed rows, those whose backoff has passed. *)
Due == {x \in Row : row[x].status = "failed"}

RetryLoad(w) ==
  /\ wpc[w] = "idle"
  /\ \E due \in SUBSET Due \ {{}} :
       /\ wdue' = [wdue EXCEPT ![w] = due]
       /\ wpc' = [wpc EXCEPT ![w] = "read"]
  /\ UNCHANGED <<row, spc, requestVars, verdict, sread, wrow, wread, orphaned>>

(* The payload is not kept, so a retry sends nothing: each row in turn is  *)
(* marked as failed once more.                                             *)
RetryRead(w) ==
  /\ wpc[w] = "read"
  /\ \E x \in wdue[w] :
       /\ wrow' = [wrow EXCEPT ![w] = x]
       /\ wread' = [wread EXCEPT ![w] = row[x].attempts]
       /\ wdue' = [wdue EXCEPT ![w] = @ \ {x}]
  /\ wpc' = [wpc EXCEPT ![w] = "write"]
  /\ UNCHANGED <<row, spc, requestVars, verdict, sread, orphaned>>

RetryWrite(w) ==
  /\ wpc[w] = "write"
  /\ row' = [row EXCEPT ![wrow[w]] = FailedRow(wread[w], MaxAttempts)]
  /\ wpc' = [wpc EXCEPT ![w] = IF wdue[w] = {} THEN "idle" ELSE "read"]
  /\ wrow' = [wrow EXCEPT ![w] = Nobody]
  /\ wread' = [wread EXCEPT ![w] = 0]
  /\ UNCHANGED <<spc, requestVars, verdict, sread, wdue, orphaned>>

(* The process dies: requests and retries stop where they are. *)
OutboxCrash ==
  /\ orphaned' = orphaned \cup {Current(a) : a \in {b \in Sent : spc[b] \notin {"new", "end"}}}
  /\ spc' = [a \in Sent |-> IF spc[a] = "new" THEN "new" ELSE "end"]
  /\ wpc' = [w \in Worker |-> "idle"] /\ wdue' = [w \in Worker |-> {}]
  /\ wrow' = [w \in Worker |-> Nobody] /\ wread' = [w \in Worker |-> 0]
  /\ UNCHANGED <<row, requestVars, verdict, sread>>

(* The steps that touch nothing but the outbox. *)
OutboxStep(a) ==
  \/ upsert_delivery_pending(a) \/ mark_delivery_success(a)
  \/ ReadForFailure(a) \/ WriteFailure(a) \/ SendAborts(a)
  \/ \E to_inboxes \in Lists : Send(a, to_inboxes)

RetryStep(w) == RetryLoad(w) \/ RetryRead(w) \/ RetryWrite(w)

----------------------------------------------------------------------------
OutboxTypeOK ==
  /\ row \in [Row -> [status : Statuses, attempts : Nat]]
  /\ spc \in [Sent -> {"new", "upsert", "post", "wait", "mark", "fail", "end"}]
  /\ list \in [Sent -> Lists \cup {<<>>}] /\ at \in [Sent -> Nat]
  /\ verdict \in [Sent -> {"none", "ok", "permanent", "transient"}]
  /\ sread \in [Sent -> Nat]
  /\ wpc \in [Worker -> {"idle", "read", "write"}]
  /\ wdue \in [Worker -> SUBSET Row]
  /\ wrow \in [Worker -> Row \cup {Nobody}] /\ wread \in [Worker -> Nat]
  /\ orphaned \subseteq Row
=============================================================================
