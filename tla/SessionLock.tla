---------------------------- MODULE SessionLock ----------------------------
(***************************************************************************)
(* The password lock of one profile and the session tokens that open it.   *)
(* Commands that use credentials (login, credential-process, list-roles)   *)
(* pass the gate `enforce`; unlock mints a token, lock drops it;           *)
(* set-password and delete-profile change the lock, and every command that *)
(* saves config.toml writes back the lock it loaded.  The commands are     *)
(* separate OS processes; they share config.toml and the directory of      *)
(* token files, one file per session scope.                                *)
(*                                                                         *)
(* A session scope is a terminal session (its key is the process id of the *)
(* session leader, which the OS may hand out again) or a name from the     *)
(* environment.  `agreed` is a history variable: what a human last agreed  *)
(* to in each scope.                                                       *)
(***************************************************************************)
EXTENDS Integers

CONSTANTS
  Procs,          \* OS processes
  Scope,          \* session scope keys
  Sid,            \* the scopes that are terminal sessions
  Timed,          \* the terminal sessions whose leader's start time is readable
  Signalable,     \* the terminal sessions whose leader this user may signal
  NoScope,        \* no token file is being looked at
  NoToken,        \* no token file
  NoLock,         \* the profile has no lock_verifier
  NoProfile,      \* config.toml has no such profile
  Nothing,        \* nothing was agreed to
  Requests,       \* the command invocations considered
  NoHours,        \* no --ttl-hours, no lock_ttl_hours, no time limit
  ProfileHours,   \* the profile's lock_ttl_hours
  DefaultHours,   \* DEFAULT_TTL_HOURS
  HardCapHours,   \* RESOLVED_TTL_HARD_CAP_HOURS
  MaxVerifiers,   \* bound: passwords ever set
  MaxBoots,       \* bound: boots of the machine
  MaxLeaders      \* bound: leaders a terminal session has in one boot

VARIABLES
  verifier,  \* the profile's lock_verifier in config.toml
  newest,    \* how many verifiers were made; each hash has a salt of its own
  tokens,    \* per scope: the profile's token file
  boot,      \* the current boot
  leader,    \* per scope: which leader it has in this boot (0 for a name)
  alive,     \* the terminal sessions whose leader lives
  pc,        \* per process: the point its command has reached
  job,       \* per process: the command and its intermediate results
  agreed     \* history, per scope: the last agreement in this boot

vars == <<verifier, newest, tokens, boot, leader, alive, pc, job, agreed>>
machine == <<boot, leader, alive>>
profile == <<verifier, newest>>

----------------------------------------------------------------------------
(* Data.                                                                   *)

Verifier == Nat \ {0}
Lock == Verifier \cup {NoLock}
ProfileLock == Lock \cup {NoProfile}

(* `ai`: a marker of an AI agent is in the environment; `tty`: a question  *)
(* can be asked on the standard streams; `dev`: /dev/tty can be opened;    *)
(* `keep`: --session-remember; `allow`: --allow-ai; `forever`: --no-expire.*)
Command == {"use", "unlock", "lock", "set-password", "remove-password",
            "delete-profile", "configure"}
Request == [cmd: Command, ai: BOOLEAN, tty: BOOLEAN, dev: BOOLEAN,
            keep: BOOLEAN, allow: BOOLEAN, forever: BOOLEAN,
            hours: Nat \cup {NoHours}]

(* `start` is 0 when the leader's start time is not recorded, `ttl` 0 for  *)
(* a token that never expires.                                             *)
Token == [start: Nat, boot: Nat, lock: Lock, ai: BOOLEAN, password: BOOLEAN,
          ttl: Nat, age: Nat]

(* Which leader the scope had, whether its start time could be read then,  *)
(* for how long (NoHours: no limit) and what for.                          *)
Agreement == [leader: Nat, bound: BOOLEAN, lock: Lock,
              left: Nat \cup {NoHours}, what: SUBSET {"password", "ai"}]

NoRequest == [cmd |-> "lock", ai |-> FALSE, tty |-> FALSE, dev |-> FALSE,
              keep |-> FALSE, allow |-> FALSE, forever |-> FALSE,
              hours |-> NoHours]

ASSUME LockAssumption ==
  /\ Sid \subseteq Scope
  /\ Timed \subseteq Sid /\ Signalable \subseteq Sid
  /\ NoScope \notin Scope
  /\ NoToken \notin Token
  /\ NoLock \notin Nat
  /\ NoProfile \notin Lock
  /\ Nothing \notin Agreement
  /\ NoHours \notin Nat
  /\ Requests \subseteq Request
  /\ ProfileHours \in Nat \cup {NoHours}
  /\ DefaultHours \in Nat \ {0} /\ HardCapHours \in Nat \ {0}
  /\ MaxVerifiers \in Nat /\ MaxBoots \in Nat \ {0} /\ MaxLeaders \in Nat

Job == [req: Requests \cup {NoRequest}, scope: Scope \cup {NoScope},
        seen: ProfileLock, todo: SUBSET Scope, at: Scope \cup {NoScope},
        draft: ProfileLock]

NoJob == [req |-> NoRequest, scope |-> NoScope, seen |-> NoProfile,
          todo |-> {}, at |-> NoScope, draft |-> NoProfile]

PC == {"idle", "gate", "discard", "password", "consent", "through",
       "gc", "gc_drop", "unlink", "old_password", "new_password", "save",
       "revoke"}

----------------------------------------------------------------------------
(* Tokens.                                                                 *)

(* process_start_time of the leader: it needs a leader that lives.         *)
StartTime(s) == IF s \in Timed \cap alive THEN leader[s] ELSE 0

Expired(t) == t.ttl # 0 /\ t.age >= t.ttl

(* VARIANT: the start time of the session leader is not compared.          *)
ValidForAnyLeader(t, s) == t.boot = boot /\ ~Expired(t) /\ s \in Scope

(* read_valid_unlock honours the token it read.                            *)
Valid(t, s) ==
  /\ t.boot = boot
  /\ t.start = 0 \/ StartTime(s) = 0 \/ t.start = StartTime(s)
  /\ ~Expired(t)

(* SessionScope::is_live: a signal reaches the leader.                     *)
IsLive(s) == s \in Sid => s \in Signalable \cap alive

(* gc_stale_unlocks reaps the token.                                       *)
Stale(t, s) == ~IsLive(s) \/ t.boot # boot \/ Expired(t)

(* resolve_ttl_secs: flag, then profile, then default; clamped.            *)
ResolveTtl(cliHours) ==
  LET raw == CASE cliHours # NoHours -> cliHours
               [] cliHours = NoHours /\ ProfileHours # NoHours -> ProfileHours
               [] OTHER -> DefaultHours
  IN  IF raw > HardCapHours THEN HardCapHours ELSE raw

(* VARIANT: a token minted under any lock opens the profile.               *)
OpensAnyLock(t, lock, ai) ==
  /\ t # NoToken
  /\ lock # NoLock => t.password
  /\ ai => t.ai

(* enforce accepts the token for a profile seen with this lock: a password *)
(* token minted under it, or AI consent given while there was none.        *)
Opens(t, lock, ai) ==
  /\ t # NoToken
  /\ t.lock = lock
  /\ lock # NoLock => t.password
  /\ ai => t.ai

(* VARIANT: the token is bound to the lock the profile has by now.         *)
MintUnderCurrent(p, ai, ttl) ==
  tokens' = [tokens EXCEPT ![job[p].scope] =
               [start |-> StartTime(job[p].scope), boot |-> boot,
                lock |-> verifier, ai |-> ai, password |-> verifier # NoLock,
                ttl |-> ttl, age |-> 0]]

(* write_unlock: the token file of the session is replaced.                *)
Mint(p, ai, ttl) ==
  LET s == job[p].scope
  IN  tokens' = [tokens EXCEPT ![s] =
                   [start |-> StartTime(s), boot |-> boot, lock |-> job[p].seen,
                    ai |-> ai, password |-> job[p].seen # NoLock,
                    ttl |-> ttl, age |-> 0]]

Remove(s) == tokens' = [tokens EXCEPT ![s] = NoToken]

(* The token lifetime the command asks for; the gate has no options.       *)
Ttl(r) ==
  IF r.cmd = "unlock" /\ r.forever THEN 0
  ELSE ResolveTtl(IF r.cmd = "unlock" THEN r.hours ELSE NoHours)

(* What a human who answers yes agrees to: the use of the profile as seen, *)
(* never for longer than the hard cap unless --no-expire was given.        *)
Agree(p, what) ==
  LET s == job[p].scope
      r == job[p].req
  IN  agreed' = [agreed EXCEPT ![s] =
        [leader |-> leader[s], bound |-> StartTime(s) # 0,
         lock |-> job[p].seen, what |-> what,
         left |-> IF r.cmd = "unlock" /\ r.forever THEN NoHours
                  ELSE HardCapHours]]

----------------------------------------------------------------------------
Goto(p, to) == pc' = [pc EXCEPT ![p] = to]

Ends(p) ==
  /\ Goto(p, "idle")
  /\ job' = [job EXCEPT ![p] = NoJob]

(* A terminal whose session leader is gone has hung up.                    *)
Attended(s) == s \in Sid => s \in alive

(* A command starts, with what it takes from config.toml as it is now.     *)
Begin(p, r, s, loaded, to) ==
  /\ pc[p] = "idle"
  /\ r.tty \/ r.dev => Attended(s)
  /\ job' = [job EXCEPT ![p] = [loaded EXCEPT !.req = r, !.scope = s]]
  /\ Goto(p, to)
  /\ UNCHANGED <<profile, tokens, machine, agreed>>

(***************************************************************************)
(* The gate.                                                               *)
(***************************************************************************)
StartUse(p, r, s) ==
  /\ r.cmd = "use"
  /\ verifier # NoProfile
  /\ Begin(p, r, s, [NoJob EXCEPT !.seen = verifier], "gate")

(* With the token that was honoured, or none, enforce lets the command     *)
(* through, asks, or refuses.  It never asks for a password under AI.      *)
Decide(p, t) ==
  LET j == job[p]
      locked == j.seen # NoLock
      to == CASE Opens(t, j.seen, j.req.ai) -> "through"
              [] ~Opens(t, j.seen, j.req.ai) /\ locked
                   /\ ~j.req.ai /\ j.req.dev -> "password"
              [] ~Opens(t, j.seen, j.req.ai) /\ ~locked
                   /\ j.req.tty              -> "consent"
              [] OTHER                       -> "idle"
  IN  IF to = "idle" THEN Ends(p) ELSE Goto(p, to) /\ UNCHANGED job

(* An unlocked profile is open to humans; else the token file is read.     *)
Gate(p) ==
  LET j == job[p]
      t == tokens[j.scope]
  IN  /\ pc[p] = "gate"
      /\ \/ /\ j.seen = NoLock /\ ~j.req.ai
            /\ Goto(p, "through") /\ UNCHANGED job
         \/ /\ j.seen # NoLock \/ j.req.ai
            /\ IF t = NoToken \/ Valid(t, j.scope)
               THEN Decide(p, t)
               ELSE Goto(p, "discard") /\ UNCHANGED job
      /\ UNCHANGED <<profile, tokens, machine, agreed>>

(* A token that is not honoured is removed, by its path.                   *)
Discard(p) ==
  /\ pc[p] = "discard"
  /\ Remove(job[p].scope)
  /\ Decide(p, NoToken)
  /\ UNCHANGED <<profile, machine, agreed>>

(* The right password for the lock the command saw: a token is minted.     *)
(* `unlock` ends there, the gate opens.                                    *)
TypePassword(p) ==
  LET r == job[p].req
      ai == r.cmd = "unlock" /\ r.allow
  IN  /\ pc[p] = "password"
      /\ Attended(job[p].scope)
      /\ Mint(p, ai, Ttl(r))
      /\ Agree(p, IF ai THEN {"password", "ai"} ELSE {"password"})
      /\ IF r.cmd = "use" THEN Goto(p, "through") /\ UNCHANGED job ELSE Ends(p)
      /\ UNCHANGED <<profile, machine>>

(* Consent to AI use.  The gate keeps it only with --session-remember;     *)
(* `unlock --allow-ai` takes its flag for the answer when it has no        *)
(* terminal.                                                               *)
Consent(p) ==
  LET r == job[p].req
  IN  /\ pc[p] = "consent"
      /\ r.tty => Attended(job[p].scope)
      /\ IF r.cmd = "unlock" \/ r.keep
         THEN Mint(p, TRUE, Ttl(r)) /\ Agree(p, {"ai"})
         ELSE UNCHANGED <<tokens, agreed>>
      /\ IF r.cmd = "use" THEN Goto(p, "through") /\ UNCHANGED job ELSE Ends(p)
      /\ UNCHANGED <<profile, machine>>

(* Past the gate the command does its work; see CredentialRefresh.         *)
Leave(p) ==
  /\ pc[p] = "through"
  /\ Ends(p)
  /\ UNCHANGED <<profile, tokens, machine, agreed>>

(***************************************************************************)
(* unlock and lock.                                                        *)
(***************************************************************************)
StartUnlock(p, r, s) ==
  /\ r.cmd = "unlock"
  /\ verifier # NoProfile
  /\ verifier # NoLock => r.tty
  /\ Begin(p, r, s, [NoJob EXCEPT !.seen = verifier, !.todo = Scope], "gc")

(* `lock` does not look at config.toml.                                    *)
StartLock(p, r, s) ==
  /\ r.cmd = "lock"
  /\ Begin(p, r, s, [NoJob EXCEPT !.todo = Scope], "gc")

(* One file of the directory is read and judged.                           *)
GcLook(p, s) ==
  /\ pc[p] = "gc"
  /\ s \in job[p].todo
  /\ IF tokens[s] # NoToken /\ Stale(tokens[s], s)
     THEN /\ Goto(p, "gc_drop")
          /\ job' = [job EXCEPT ![p].todo = @ \ {s}, ![p].at = s]
     ELSE /\ job' = [job EXCEPT ![p].todo = @ \ {s}]
          /\ UNCHANGED pc
  /\ UNCHANGED <<profile, tokens, machine, agreed>>

(* The file judged stale is removed, by its path.                          *)
GcDrop(p) ==
  /\ pc[p] = "gc_drop"
  /\ Remove(job[p].at)
  /\ job' = [job EXCEPT ![p].at = NoScope]
  /\ Goto(p, "gc")
  /\ UNCHANGED <<profile, machine, agreed>>

(* Every file was seen to.                                                 *)
GcDone(p) ==
  LET j == job[p]
  IN  /\ pc[p] = "gc"
      /\ j.todo = {}
      /\ \/ j.req.cmd = "lock" /\ Goto(p, "unlink") /\ UNCHANGED job
         \/ /\ j.req.cmd = "unlock" /\ j.seen # NoLock
            /\ Goto(p, "password") /\ UNCHANGED job
         \/ /\ j.req.cmd = "unlock" /\ j.seen = NoLock
            /\ IF j.req.allow THEN Goto(p, "consent") /\ UNCHANGED job
               ELSE Ends(p)
      /\ UNCHANGED <<profile, tokens, machine, agreed>>

(* remove_unlock: whatever was agreed to in this session is withdrawn.     *)
Unlink(p) ==
  LET s == job[p].scope
  IN  /\ pc[p] = "unlink"
      /\ Remove(s)
      /\ agreed' = [agreed EXCEPT ![s] = Nothing]
      /\ Ends(p)
      /\ UNCHANGED <<profile, machine>>

(***************************************************************************)
(* Changing the lock.                                                      *)
(***************************************************************************)
StartSetPassword(p, r, s) ==
  /\ r.cmd \in {"set-password", "remove-password"}
  /\ r.tty
  /\ verifier # NoProfile
  /\ ~(r.cmd = "remove-password" /\ verifier = NoLock)
  /\ Begin(p, r, s, [NoJob EXCEPT !.seen = verifier],
           IF verifier = NoLock THEN "new_password" ELSE "old_password")

(* The password of the lock that was loaded is required for any change.    *)
OldPassword(p) ==
  /\ pc[p] = "old_password"
  /\ Attended(job[p].scope)
  /\ IF job[p].req.cmd = "remove-password"
     THEN job' = [job EXCEPT ![p].draft = NoLock] /\ Goto(p, "save")
     ELSE UNCHANGED job /\ Goto(p, "new_password")
  /\ UNCHANGED <<profile, tokens, machine, agreed>>

NewPassword(p) ==
  /\ pc[p] = "new_password"
  /\ Attended(job[p].scope)
  /\ newest < MaxVerifiers
  /\ newest' = newest + 1
  /\ job' = [job EXCEPT ![p].draft = newest + 1]
  /\ Goto(p, "save")
  /\ UNCHANGED <<verifier, tokens, machine, agreed>>

StartDelete(p, r, s) ==
  /\ r.cmd = "delete-profile"
  /\ verifier # NoProfile
  /\ Begin(p, r, s, NoJob, "save")

(* Any other command that saves the profile: configure, the TUI, a login   *)
(* that remembers an answer or a role.  The lock is kept as it was loaded; *)
(* configure may also create the profile.                                  *)
StartConfigure(p, r, s) ==
  /\ r.cmd = "configure"
  /\ LET kept == IF verifier = NoProfile THEN NoLock ELSE verifier
     IN  Begin(p, r, s, [NoJob EXCEPT !.draft = kept], "save")

(* config.toml is replaced as a whole; revoking tokens is all that is left *)
(* to do.                                                                  *)
Save(p) ==
  /\ pc[p] = "save"
  /\ verifier' = job[p].draft
  /\ IF job[p].req.cmd = "configure" THEN Ends(p)
     ELSE /\ job' = [job EXCEPT ![p] = [NoJob EXCEPT !.req = job[p].req,
                                        !.scope = job[p].scope, !.todo = Scope]]
          /\ Goto(p, "revoke")
  /\ UNCHANGED <<newest, tokens, machine, agreed>>

(* revoke_all_unlocks, file by file; removing one may fail.                *)
Revoke(p, s, removed) ==
  /\ pc[p] = "revoke"
  /\ s \in job[p].todo
  /\ IF removed THEN Remove(s) ELSE UNCHANGED tokens
  /\ IF job[p].todo = {s} THEN Ends(p)
     ELSE job' = [job EXCEPT ![p].todo = @ \ {s}] /\ UNCHANGED pc
  /\ UNCHANGED <<profile, machine, agreed>>

----------------------------------------------------------------------------
(***************************************************************************)
(* The surroundings.                                                       *)
(***************************************************************************)

(* A command is cancelled, refused, fails or is killed.                    *)
Stops(p) ==
  /\ pc[p] \notin {"idle", "through"}
  /\ Ends(p)
  /\ UNCHANGED <<profile, tokens, machine, agreed>>

(* An hour passes.  Ages past the hard cap are not told apart.             *)
Tick ==
  /\ tokens' = [s \in Scope |->
       IF tokens[s] = NoToken \/ tokens[s].age >= HardCapHours THEN tokens[s]
       ELSE [tokens[s] EXCEPT !.age = @ + 1]]
  /\ agreed' = [s \in Scope |->
       IF agreed[s] = Nothing THEN Nothing
       ELSE IF agreed[s].left = NoHours THEN agreed[s]
       ELSE IF agreed[s].left <= 1 THEN Nothing
       ELSE [agreed[s] EXCEPT !.left = @ - 1]]
  /\ UNCHANGED <<profile, machine, pc, job>>

(* The leader of a terminal session exits; other processes of the session  *)
(* may live on.                                                            *)
LeaderDies(s) ==
  /\ s \in alive
  /\ alive' = alive \ {s}
  /\ UNCHANGED <<profile, tokens, boot, leader, pc, job, agreed>>

(* The OS hands the session id out again, which it does only when no       *)
(* process of the old session is left.                                     *)
NewLeader(s) ==
  /\ s \in Sid \ alive
  /\ leader[s] < MaxLeaders
  /\ \A p \in Procs : pc[p] # "idle" => job[p].scope # s
  /\ alive' = alive \cup {s}
  /\ leader' = [leader EXCEPT ![s] = @ + 1]
  /\ UNCHANGED <<profile, tokens, boot, pc, job, agreed>>

(* The token directory survives a reboot unless it is on a tmpfs.  Start   *)
(* times count from the boot, so they may well be the same again.          *)
Reboot(wiped) ==
  /\ boot < MaxBoots
  /\ boot' = boot + 1
  /\ tokens' = IF wiped THEN [s \in Scope |-> NoToken] ELSE tokens
  /\ leader' = [s \in Scope |-> IF s \in Sid THEN 1 ELSE 0]
  /\ alive' = Sid
  /\ pc' = [p \in Procs |-> "idle"]
  /\ job' = [p \in Procs |-> NoJob]
  /\ agreed' = [s \in Scope |-> Nothing]
  /\ UNCHANGED profile

----------------------------------------------------------------------------
Init ==
  /\ verifier = NoLock
  /\ newest = 0
  /\ tokens = [s \in Scope |-> NoToken]
  /\ boot = 1
  /\ leader = [s \in Scope |-> IF s \in Sid THEN 1 ELSE 0]
  /\ alive = Sid
  /\ pc = [p \in Procs |-> "idle"]
  /\ job = [p \in Procs |-> NoJob]
  /\ agreed = [s \in Scope |-> Nothing]

Start(p, r, s) ==
  \/ StartUse(p, r, s) \/ StartUnlock(p, r, s) \/ StartLock(p, r, s)
  \/ StartSetPassword(p, r, s) \/ StartDelete(p, r, s)
  \/ StartConfigure(p, r, s)

Step(p) ==
  \/ Gate(p) \/ Discard(p) \/ TypePassword(p) \/ Consent(p) \/ Leave(p)
  \/ \E s \in Scope : GcLook(p, s)
  \/ GcDrop(p) \/ GcDone(p) \/ Unlink(p)
  \/ OldPassword(p) \/ NewPassword(p) \/ Save(p)
  \/ \E s \in Scope, removed \in BOOLEAN : Revoke(p, s, removed)
  \/ Stops(p)

Next ==
  \/ \E p \in Procs :
       \/ \E r \in Requests, s \in Scope : Start(p, r, s)
       \/ Step(p)
  \/ Tick
  \/ \E s \in Scope : LeaderDies(s) \/ NewLeader(s)
  \/ \E wiped \in BOOLEAN : Reboot(wiped)

Spec == Init /\ [][Next]_vars

----------------------------------------------------------------------------
(***************************************************************************)
(* Properties.                                                             *)
(***************************************************************************)

(* Type invariant.                                                         *)
TypeOK ==
  /\ verifier \in ProfileLock
  /\ newest \in 0..MaxVerifiers
  /\ tokens \in [Scope -> Token \cup {NoToken}]
  /\ boot \in 1..MaxBoots
  /\ leader \in [Scope -> Nat]
  /\ alive \subseteq Sid
  /\ pc \in [Procs -> PC]
  /\ job \in [Procs -> Job]
  /\ agreed \in [Scope -> Agreement \cup {Nothing}]

(* The command passes the gate without being asked anything.               *)
WavedThrough(p) == pc[p] \in {"gate", "discard"} /\ pc'[p] = "through"

Protected(p) == job[p].seen # NoLock \/ job[p].req.ai

(* A command passes the gate of a locked profile, or under an AI agent,    *)
(* without a question only on the strength of what a human last agreed to  *)
(* in its session scope: under the lock the command found on the profile,  *)
(* for this use (password, AI), not withdrawn by `lock` since, and not     *)
(* longer ago than the hard cap unless --no-expire was given.              *)
OnlyWhatWasAgreed ==
  [][\A p \in Procs :
       LET a == agreed[job[p].scope]
       IN  WavedThrough(p) /\ Protected(p) =>
             /\ a # Nothing
             /\ a.lock = job[p].seen
             /\ job[p].seen # NoLock => "password" \in a.what
             /\ job[p].req.ai => "ai" \in a.what]_vars

(* A token opens the gate only in the boot it was minted in and, whenever  *)
(* the start times can be compared, only while the session has the leader  *)
(* it had then: a session id handed out again does not inherit it.         *)
OnlyInItsSession ==
  [][\A p \in Procs :
       LET s == job[p].scope
       IN  WavedThrough(p) /\ Protected(p) =>
             /\ agreed[s] # Nothing
             /\ agreed[s].bound /\ StartTime(s) # 0
                  => agreed[s].leader = leader[s]]_vars

(* resolve_ttl_secs clamps the lifetime so that no edit of lock_ttl_hours  *)
(* can "effectively turn the lock into a one-time PIN": once the hard cap  *)
(* has passed, or `lock` was run, a protected command is asked again,      *)
(* unless the token was minted with --no-expire.                           *)
NoOneTimePin ==
  [][\A p \in Procs :
       WavedThrough(p) /\ Protected(p) => agreed[job[p].scope] # Nothing]_vars

(* gc_stale_unlocks drops "tokens whose session is no longer alive", tokens*)
(* of another boot and expired ones: never one that would still count in a *)
(* session that is alive.                                                  *)
ReapsOnlyTheDead ==
  [][\A p \in Procs :
       pc[p] = "gc_drop" /\ pc'[p] = "gc" =>
         LET s == job[p].at
         IN  \/ tokens[s] = NoToken
             \/ ~Valid(tokens[s], s)
             \/ s \in Sid \ alive]_vars

(* set-password: the old password is required for any change of a lock.    *)
(* Only delete-profile takes a lock away without it.                       *)
ChangesNeedOldPassword ==
  [][verifier # NoLock /\ verifier # NoProfile /\ verifier' # verifier =>
       \E p \in Procs :
         /\ pc[p] = "save"
         /\ \/ job[p].req.cmd = "delete-profile"
            \/ /\ job[p].req.cmd \in {"set-password", "remove-password"}
               /\ job[p].seen = verifier]_vars
=============================================================================
