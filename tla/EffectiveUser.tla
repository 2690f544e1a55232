---------------------------- MODULE EffectiveUser ----------------------------
(***************************************************************************)
(* DBus::UserBus::exec: a function runs with the effective user id of a    *)
(* user.  The id is the whole process's; a static mutex keeps the callers  *)
(* of exec apart.                                                          *)
(***************************************************************************)
EXTENDS Naturals

CONSTANTS
    Users,  \* callers of exec, each named by the user it runs as
    App     \* the id the process runs as

ASSUME AppAssumption == App \notin Users

VARIABLES
    euid,     \* the effective user id of the process
    inside,   \* the callers whose function runs: those that hold the mutex
    saved,    \* saved[u]: saved_uid of the caller
    stranded  \* history: an id was not restored

userVars == <<euid, inside, saved, stranded>>

UserInit ==
    /\ euid = App
    /\ inside = {}
    /\ saved = [u \in Users |-> App]
    /\ stranded = FALSE

-----------------------------------------------------------------------------

(* Mutant: without the mutex. *)
EnterUnlocked(u) ==
    /\ u \notin inside
    /\ inside' = inside \union {u}
    /\ saved' = [saved EXCEPT ![u] = euid]
    /\ euid' = u
    /\ UNCHANGED stranded

(* Lock, keep the id, take the user's. *)
Enter(u) ==
    /\ inside = {}
    /\ inside' = {u}
    /\ saved' = [saved EXCEPT ![u] = euid]
    /\ euid' = u
    /\ UNCHANGED stranded

(* seteuid refuses the user's id: exec throws and nothing has changed. *)
EnterFails(u) ==
    /\ inside = {}
    /\ UNCHANGED userVars

(* The function has returned or thrown: the id is restored on both ways. *)
Leave(u) ==
    /\ u \in inside
    /\ inside' = inside \ {u}
    /\ euid' = saved[u]
    /\ UNCHANGED <<saved, stranded>>

(* seteuid refuses the saved id: exec throws after the function has done   *)
(* its work; when the function has thrown nobody looks.                    *)
LeaveStranded(u) ==
    /\ u \in inside
    /\ inside' = inside \ {u}
    /\ stranded' = TRUE
    /\ UNCHANGED <<euid, saved>>

UserTypeOK ==
    /\ euid \in Users \union {App}
    /\ inside \subseteq Users
    /\ saved \in [Users -> Users \union {App}]
    /\ stranded \in BOOLEAN

-----------------------------------------------------------------------------

(* "Execute function as user's effective id, serialize to avoid conflicts":*)
(* a function that runs in exec runs as its user, whoever else calls exec  *)
(* meanwhile, and when none runs the process has its own id again, unless  *)
(* the system refused to restore it once.                                  *)
RunsAsUser ==
    /\ \A u \in inside : euid = u
    /\ inside = {} /\ ~stranded => euid = App
=============================================================================
