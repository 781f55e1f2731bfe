--------------------------- MODULE MCCredentials ---------------------------
(***************************************************************************)
(* TLC instance of the flows that hand out and check power: QR login       *)
(* (QrLogin) and password reset (PasswordReset) with their one-time        *)
(* credentials, administrators and their agent tokens (AdminAccess), and   *)
(* the planet's configuration (Settings).  They share no state that is     *)
(* modelled; TLC looks at the behaviours of one, chosen at the start as    *)
(* `part', while the others do not begin.                                  *)
(***************************************************************************)
EXTENDS QrLogin, TLC

CONSTANTS
  User, Token, MaxBroken,                     \* of PasswordReset
  Admin, AgentToken, Call, Lifetime, MaxTime, \* of AdminAccess
  Editor                                      \* of Settings

ASSUME ResetAssumption == None \notin User \cup Token /\ MaxBroken \in Nat
ASSUME AccessAssumption ==
  /\ {None, "deleted"} \cap Admin = {} /\ None \notin AgentToken
  /\ Lifetime \subseteq Nat \cup {None} /\ MaxTime \in Nat
ASSUME EditorAssumption == None \notin Editor

VARIABLES
  part,
  users, key, issued, password, step, token, subject, uses, crossed, broken,
  now, state, owner, until, revoked, bearers, place, actor, cred, held,
  settings, stage, body, saved, view, audit, wanted, mixed

resetVars == <<users, key, issued, password, step, token, subject, uses, crossed, broken>>
accessVars == <<now, state, owner, until, revoked, bearers, place, actor, cred, held>>
settingVars == <<settings, stage, body, saved, view, audit, wanted, mixed>>

Reset == INSTANCE PasswordReset WITH pc <- step
Access == INSTANCE AdminAccess WITH Token <- AgentToken, Request <- Call, pc <- place
Config == INSTANCE Settings WITH Request <- Editor, pc <- stage, crossed <- mixed

\* A part that does not begin has nothing in its variables.
NoReset ==
  /\ users = None /\ key = None /\ issued = None /\ password = None /\ step = None
  /\ token = None /\ subject = None /\ uses = None /\ crossed = None /\ broken = None

NoAccess ==
  /\ now = None /\ state = None /\ owner = None /\ until = None /\ revoked = None
  /\ bearers = None /\ place = None /\ actor = None /\ cred = None /\ held = None

NoConfig ==
  /\ settings = None /\ stage = None /\ body = None /\ saved = None
  /\ view = None /\ audit = None /\ wanted = None /\ mixed = None

MCInit ==
  /\ part \in {"qr", "reset", "access", "settings"}
  /\ Init
  /\ IF part = "reset" THEN Reset!Init ELSE NoReset
  /\ IF part = "access" THEN Access!Init ELSE NoAccess
  /\ IF part = "settings" THEN Config!Init ELSE NoConfig

MCNext ==
  /\ UNCHANGED part
  /\ \/ part = "qr" /\ Next /\ UNCHANGED <<resetVars, accessVars, settingVars>>
     \/ part = "reset" /\ Reset!Next /\ UNCHANGED <<vars, accessVars, settingVars>>
     \/ part = "access" /\ Access!Next /\ UNCHANGED <<vars, resetVars, settingVars>>
     \/ part = "settings" /\ Config!Next /\ UNCHANGED <<vars, resetVars, accessVars>>

MCSpec == MCInit /\ [][MCNext]_<<part, vars, resetVars, accessVars, settingVars>>

Symmetry == Permutations(Family) \cup Permutations(Request)

(* Of PasswordReset: a reset token sets one password, but for the named    *)
(* exceptions.                                                             *)
ResetInv == part = "reset" => Reset!ResetInv

\* Sessions and tokens as one-time credentials, those of the part that runs.
OneTime == INSTANCE OneTimeUse WITH
  Credential <- Session \cup Token,
  life <- [c \in Session \cup Token |->
             IF part = "qr" /\ c \in Session THEN SessionLife(c)
             ELSE IF part = "reset" /\ c \in Token THEN Reset!TokenLife(c)
             ELSE [stage |-> "new", uses |-> 0, excused |-> FALSE]]

(* Of QrLogin and PasswordReset: sessions and tokens are used at most once *)
(* but for the named excuses, from their issue until they are spent for    *)
(* good; a session that was consumed and a token that was used up come     *)
(* back for no request that is still at work.                              *)
SpentStaysSpent ==
  /\ OneTime!Spec
  /\ [][(part = "qr" => ConsumedStep) /\ (part = "reset" => Reset!SpentStep)]_<<vars, resetVars>>

(* Of AdminAccess: a request that acts held the power to, at some moment   *)
(* of it, and an agent token does not outlive its creator.                 *)
AccessInv == part = "access" => Access!AccessInv

(* Of Settings: an undisturbed request sees one configuration in whole,    *)
(* and a setting without an audit entry is of an update that failed or is  *)
(* under way.                                                              *)
SettingsInv == part = "settings" => Config!SettingsInv
=============================================================================
