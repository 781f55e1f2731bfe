------------------------------ MODULE Settings ------------------------------
(***************************************************************************)
(* The planet's configuration, admin_settings: update_config saves the     *)
(* settings one after the other, each in a commit of its own, and validates*)
(* each just before it is saved; get_config and the answer of              *)
(* update_config read them one after the other.                            *)
(*                                                                         *)
(* Source: routes/admin.rs update_config and get_config,                   *)
(* services/admin_service.rs.                                              *)
(***************************************************************************)
EXTENDS Naturals, Sequences, SequencesExt

CONSTANTS Request, None

VARIABLES
  settings,   \* admin_settings: the request whose value a setting has, or None
  pc, body,   \* of each request: its place and what it asks of each setting
  saved, view,  \* how many settings it has saved, and what it has read back
  audit,      \* admin_audit_logs: requests with an entry
  wanted,     \* history: the settings that each request should leave behind
  crossed     \* history: requests during which another one saved something

vars == <<settings, pc, body, saved, view, audit, wanted, crossed>>
-----------------------------------------------------------------------------
\* The settings, in the order in which they are saved and read.  The description
\* of the planet, next to its name, is handled as the name is, and its image as
\* the webhook's URL is.
Keys == <<"max_users", "webhook_url", "planet_name", "linked_planets", "require_approval">>
Key == ToSet(Keys)

\* What a request asks of each setting: a value, an empty one, one that is
\* refused (zero users, a URL, an image), or nothing.
All(a) == [k \in Key |-> a]
Body == {All("value"), All("blank"), All("absent")}
        \cup {[All("value") EXCEPT ![b] = "bad"] : b \in {"max_users", "linked_planets"}}

NoView == [k \in Key |-> None]

TypeOK ==
  /\ settings \in [Key -> Request \cup {None}]
  /\ pc \in [Request -> {"idle", "save", "read", "done", "failed"}]
  /\ body \in [Request -> Body \cup {None}]
  /\ saved \in [Request -> 0..Len(Keys)]
  /\ view \in [Request -> [Key -> Request \cup {None}]]
  /\ audit \subseteq Request
  /\ wanted \in [Request -> [Key -> Request \cup {None}]]
  /\ crossed \subseteq Request

Init ==
  /\ settings = NoView /\ audit = {} /\ crossed = {}
  /\ pc = [r \in Request |-> "idle"] /\ body = [r \in Request |-> None]
  /\ saved = [r \in Request |-> 0] /\ view = [r \in Request |-> NoView]
  /\ wanted = [r \in Request |-> NoView]
-----------------------------------------------------------------------------
Active(r) == pc[r] \in {"save", "read"}
Saving == {r \in Request : pc[r] = "save"}

\* Mutant: a setting that is not named keeps its value.
Saved_KeepAbsent(s, r, k, ask) ==
  CASE ask = "value"  -> [s EXCEPT ![k] = r]
    [] ask = "blank"  -> [s EXCEPT ![k] = None]
    [] ask = "absent" -> s

\* set_setting and clear_setting, on the table s: nothing asked clears a
\* setting, but leaves require_approval as it is.
Saved(s, r, k, ask) ==
  CASE ask = "value"  -> [s EXCEPT ![k] = r]
    [] ask = "blank"  -> [s EXCEPT ![k] = None]
    [] ask = "absent" -> IF k = "require_approval" THEN s ELSE [s EXCEPT ![k] = None]

update_config(r, b) ==
  /\ pc[r] = "idle"
  /\ pc' = [pc EXCEPT ![r] = "save"] /\ body' = [body EXCEPT ![r] = b]
  /\ wanted' = [wanted EXCEPT ![r] = [k \in Key |->
       CASE b[k] \in {"value", "bad"} -> r
         [] b[k] = "absent" /\ k = "require_approval" -> settings[k]
         [] OTHER -> None]]
  /\ crossed' = crossed \cup {q \in Request : Active(q)} \cup {q \in {r} : Saving # {}}
  /\ UNCHANGED <<settings, saved, view, audit>>

get_config(r) ==
  /\ pc[r] = "idle"
  /\ pc' = [pc EXCEPT ![r] = "read"] /\ saved' = [saved EXCEPT ![r] = 0]
  /\ wanted' = [wanted EXCEPT ![r] = settings]
  /\ crossed' = crossed \cup {q \in {r} : Saving # {}}
  /\ UNCHANGED <<settings, body, view, audit>>

\* The next setting is validated and saved.
SaveNext(r) ==
  /\ pc[r] = "save" /\ saved[r] < Len(Keys)
  /\ LET k == Keys[saved[r] + 1]
     IN  /\ body[r][k] # "bad"
         /\ settings' = Saved(settings, r, k, body[r][k])
  /\ saved' = [saved EXCEPT ![r] = @ + 1]
  /\ UNCHANGED <<pc, body, view, audit, wanted, crossed>>

\* A setting is refused, or the database fails: the ones before it stay saved.
Reject(r) ==
  /\ Active(r)
  /\ pc' = [pc EXCEPT ![r] = "failed"]
  /\ UNCHANGED <<settings, body, saved, view, audit, wanted, crossed>>

\* Mutant: an entry only where the request's first setting is still in force.
append_audit_log_IfChanged(r) ==
  /\ pc[r] = "save" /\ saved[r] = Len(Keys)
  /\ audit' = IF settings["max_users"] = r THEN audit \cup {r} ELSE audit
  /\ pc' = [pc EXCEPT ![r] = "read"] /\ saved' = [saved EXCEPT ![r] = 0]
  /\ UNCHANGED <<settings, body, view, wanted, crossed>>

append_audit_log(r) ==
  /\ pc[r] = "save" /\ saved[r] = Len(Keys)
  /\ audit' = audit \cup {r}
  /\ pc' = [pc EXCEPT ![r] = "read"] /\ saved' = [saved EXCEPT ![r] = 0]
  /\ UNCHANGED <<settings, body, view, wanted, crossed>>

\* read_admin_config: one setting after the other, each of its own snapshot.
read_admin_config(r) ==
  /\ pc[r] = "read"
  /\ IF saved[r] < Len(Keys)
     THEN LET k == Keys[saved[r] + 1]
          IN  /\ view' = [view EXCEPT ![r][k] = settings[k]]
              /\ saved' = [saved EXCEPT ![r] = @ + 1] /\ UNCHANGED pc
     ELSE pc' = [pc EXCEPT ![r] = "done"] /\ UNCHANGED <<view, saved>>
  /\ UNCHANGED <<settings, body, audit, wanted, crossed>>

Next == \E r \in Request :
  \/ \E b \in Body : update_config(r, b)
  \/ get_config(r) \/ SaveNext(r) \/ Reject(r) \/ append_audit_log(r) \/ read_admin_config(r)

Spec == Init /\ [][Next]_vars
-----------------------------------------------------------------------------
(* A request during which no other one saves anything is answered with one *)
(* configuration in whole: an update with what it asked for, a setting it  *)
(* does not name cleared or, for require_approval, as it was; a read with  *)
(* the settings as they were when it came.                                 *)
AnswerIsWhole ==
  \A r \in Request : pc[r] = "done" /\ r \notin crossed => view[r] = wanted[r]

(* A setting in force that the audit log does not account for is of an     *)
(* update that is under way or that has failed: update_config saves first  *)
(* and writes the entry last, so an update that is refused halfway leaves  *)
(* settings behind and no entry.                                           *)
UnauditedHasFailed ==
  \A k \in Key : settings[k] # None /\ settings[k] \notin audit
    => pc[settings[k]] \in {"save", "failed"}

(* update_config and get_config: what they answer, leave behind and log. *)
SettingsInv == TypeOK /\ AnswerIsWhole /\ UnauditedHasFailed
=============================================================================
