----------------------------- MODULE RoleChoice -----------------------------
(***************************************************************************)
(* Which role a login uses, and what it may store afterwards: the pure     *)
(* decisions of `login` and `credential-process` once the browser has      *)
(* returned a SAML assertion that offers a set of roles.                   *)
(***************************************************************************)
EXTENDS FiniteSets, Integers

CONSTANT NoRole  \* no role is configured or requested

(* Where a login's credentials go: the profile's store, or this call only. *)
Scope == {"Profile", "Request"}

(* RoleDecision.  "Replace" is Pick { missing: Some(_) }: the configured   *)
(* role is not offered any more and someone can choose another.            *)
Decision == {"Use", "Pick", "Replace", "Fail", "Unset"}

ResolveRole(offered, requested, explicit, interactive) ==
  CASE requested = NoRole /\ (interactive \/ Cardinality(offered) <= 1)
                                               -> "Pick"
    [] requested = NoRole /\ ~(interactive \/ Cardinality(offered) <= 1)
                                               -> "Unset"
    [] requested # NoRole /\ requested \in offered
                                               -> "Use"
    [] requested # NoRole /\ requested \notin offered
         /\ ~explicit /\ interactive /\ offered # {}
                                               -> "Replace"
    [] OTHER                                   -> "Fail"

WaitsForHuman(decision, offered) ==
  \/ decision = "Replace"
  \/ decision = "Pick" /\ Cardinality(offered) > 1

ShouldSavePicked(scope, supplied, fellBack) ==
  CASE scope = "Request"                          -> "No"
    [] scope = "Profile" /\ ~supplied             -> "Yes"
    [] scope = "Profile" /\ supplied /\ fellBack  -> "Ask"
    [] OTHER                                      -> "No"

(* VARIANT: declining only leaves the profile alone.                       *)
PersistenceInSpite(scope, policy, answeredYes) ==
  CASE policy = "Yes"                -> [creds |-> scope, save |-> TRUE]
    [] policy = "Ask" /\ answeredYes -> [creds |-> scope, save |-> TRUE]
    [] OTHER                         -> [creds |-> scope, save |-> FALSE]

(* PickPersistence: where the credentials go and whether the role is saved *)
PersistenceAfterPick(scope, policy, answeredYes) ==
  CASE policy = "Yes"                 -> [creds |-> scope, save |-> TRUE]
    [] policy = "Ask" /\ answeredYes  -> [creds |-> scope, save |-> TRUE]
    [] policy = "Ask" /\ ~answeredYes -> [creds |-> "Request", save |-> FALSE]
    [] OTHER                          -> [creds |-> scope, save |-> FALSE]

(* After a pick another login's credentials are reused only when the       *)
(* profile is now configured for the very role picked here.                *)
ReuseAfterRolePick(configured, picked) == configured = picked
=============================================================================
