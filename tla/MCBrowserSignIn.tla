-------------------------- MODULE MCBrowserSignIn --------------------------
(* Small instances of BrowserSignIn for TLC.                               *)
EXTENDS BrowserSignIn, TLC

Login == [cmd |-> "login", remember |-> TRUE, headless |-> FALSE, remote |-> FALSE]

ListRoles == [Login EXCEPT !.cmd = "list-roles"]

(* visible and headless sign-ins, and list-roles, of a profile that        *)
(* remembers its session                                                   *)
LocalRequests == {Login, [Login EXCEPT !.headless = TRUE], ListRoles}

(* every command line                                                      *)
AllRequests == {r \in Request : r.cmd = "list-roles" => ~r.headless}

AllKinds == {"other", "saml", "malformed", "late"}

Symmetric == Permutations(Procs)
=============================================================================
