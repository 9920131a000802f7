------------------------ MODULE MCCredentialRefresh ------------------------
(* Small instances of CredentialRefresh for TLC.                           *)
EXTENDS CredentialRefresh, TLC

CONSTANTS a1, a2, r1, r2

(* credential-process, plain and with --refresh                            *)
Background(force) == [NoRequest EXCEPT !.cmd = "credential-process", !.force = force]

(* login at a terminal                                                     *)
Plain == [NoRequest EXCEPT !.tty = TRUE]

(* plain calls racing each other and an edit of the profile                *)
EditRequests == {Background(FALSE), Plain}
EditProfiles == { [app |-> a1, role |-> r1, remember |-> TRUE],
                  [app |-> a2, role |-> NoRole, remember |-> FALSE] }

(* a script, forced or not, and a terminal, with an override or without,   *)
(* while the profile has one or no role                                    *)
AskRequests ==
  { Background(FALSE), Background(TRUE), Plain,
    [Plain EXCEPT !.role = r2], [Plain EXCEPT !.app = a2] }
AskProfiles == { [app |-> a1, role |-> r1, remember |-> TRUE],
                 [app |-> a1, role |-> NoRole, remember |-> FALSE] }

(* a first login on a profile without a role, from two terminals           *)
FirstRequests == {Plain}
FirstProfiles == { [app |-> a1, role |-> NoRole, remember |-> TRUE] }

Symmetric == Permutations(Procs)
=============================================================================
