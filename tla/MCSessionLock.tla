--------------------------- MODULE MCSessionLock ---------------------------
(* Small instances of SessionLock for TLC.                                 *)
EXTENDS SessionLock, TLC

CONSTANTS term, name

Ask(cmd) == [NoRequest EXCEPT !.cmd = cmd, !.tty = TRUE, !.dev = TRUE]
Agent(cmd) == [NoRequest EXCEPT !.cmd = cmd, !.ai = TRUE]

(* uses by a human, by an agent, and by an agent whose user may be asked;  *)
(* the commands that change tokens and the lock                            *)
AllRequests ==
  { Ask("use"), Agent("use"),
    [Ask("use") EXCEPT !.ai = TRUE, !.keep = TRUE],
    [Ask("unlock") EXCEPT !.allow = TRUE],
    [Agent("unlock") EXCEPT !.allow = TRUE, !.forever = TRUE],
    NoRequest, Ask("set-password"), Ask("remove-password"),
    [NoRequest EXCEPT !.cmd = "delete-profile"],
    [NoRequest EXCEPT !.cmd = "configure"] }

(* an agent's uses and its user's consent                                  *)
AgentRequests ==
  { Agent("use"), [Agent("unlock") EXCEPT !.allow = TRUE] }

(* changes of the lock, and another command that saves the profile         *)
LockRequests ==
  { Ask("set-password"), Ask("remove-password"),
    [NoRequest EXCEPT !.cmd = "configure"] }

(* a password is set and the profile used                                  *)
PinRequests == { Ask("set-password"), Ask("use") }

Symmetric == Permutations(Procs)
=============================================================================
