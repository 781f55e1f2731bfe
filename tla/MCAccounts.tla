----------------------------- MODULE MCAccounts -----------------------------
(***************************************************************************)
(* TLC instance of accounts (Accounts), and of the devices they are        *)
(* reached on (Push).  They share no state that is modelled; TLC looks at  *)
(* the behaviours of one, chosen at the start as `part', while the other   *)
(* does not begin.                                                         *)
(***************************************************************************)
EXTENDS Accounts, TLC

CONSTANTS Owner, Token, Dispatch, Ios, Voip, Android  \* of Push

ASSUME DeviceAssumption ==
  /\ Ios \subseteq Token /\ Android \subseteq Token /\ Voip \subseteq Ios
  /\ Ios \cap Android = {} /\ None \notin Owner

VARIABLES part, config, rows, job, relay, sent, signedIn, held

pushVars == <<config, rows, job, relay, sent, signedIn, held>>

Pushes == INSTANCE Push WITH User <- Owner

\* A part that does not begin has nothing in its variables.
NoPush ==
  /\ config = None /\ rows = None /\ job = None /\ relay = None /\ sent = None
  /\ signedIn = None /\ held = None

MCInit ==
  /\ part \in {"accounts", "push"}
  /\ Init
  /\ IF part = "push" THEN Pushes!Init ELSE NoPush

MCNext ==
  /\ UNCHANGED part
  /\ \/ part = "accounts" /\ Next /\ UNCHANGED pushVars
     \/ part = "push" /\ Pushes!Next /\ UNCHANGED vars

MCSpec == MCInit /\ [][MCNext]_<<part, vars, pushVars>>

Symmetry == Permutations(Name) \cup Permutations(Request)

(* Of Push: a dispatch that reports success reached every iOS device, none *)
(* twice but after a failure in hybrid mode, a call by one kind of push    *)
(* only, and no device that had passed to another user.                    *)
PushInv == part = "push" => Pushes!PushInv
=============================================================================
