------------------------- MODULE CredentialRefresh -------------------------
(***************************************************************************)
(* Concurrent awzars commands on one profile: `credential-process` and     *)
(* `login` obtain credentials, `configure`, `clear-cache` and              *)
(* `delete-profile` change what they work from.  The commands are separate *)
(* OS processes.  They share config.toml, the OS keyring and the profile's *)
(* refresh lock; the in-memory cache belongs to one process.               *)
(*                                                                         *)
(* pc[p] is where process p stands, job[p] what its command has computed.  *)
(* A step of this module runs from one point where other processes can     *)
(* intervene (an await, a prompt, a file, a keyring call) to the next.     *)
(***************************************************************************)
EXTENDS StoredCredentials

INSTANCE RoleChoice

CONSTANTS
  Procs,          \* OS processes
  Editors,        \* the ones that may also run configure or delete-profile
  NoProc,         \* nobody holds the refresh lock
  NoApp,          \* no --azure-tenant / --azure-app override
  NoProfile,      \* config.toml has no such profile
  NoOutput,       \* the command printed no credentials
  Requests,       \* the credential-process and login invocations considered
  Profiles        \* the contents a user may give the profile

VARIABLES
  lock,     \* the process holding refresh-<profile>.lock, or NoProc
  config,   \* the profile in config.toml
  keyring,  \* the profile's "credentials" keyring entry
  cache,    \* per process: the in-memory credential cache
  pc,       \* per process: the point its command has reached
  job       \* per process: the command and its intermediate results

vars == <<lock, config, keyring, cache, pc, job>>

----------------------------------------------------------------------------
(* Data.                                                                   *)

Profile == [app: App, role: RoleOrNone, remember: BOOLEAN]
ConfigFile == Profile \cup {NoProfile}

(* `remember` says whether remember_me is set, not its value; `stay` is    *)
(* --remember-me; `dur` is --session-duration, 0 when absent; `tty` is     *)
(* role_pick_can_prompt.                                                   *)
Request == [cmd: {"credential-process", "login"}, force: BOOLEAN,
            role: RoleOrNone, app: App \cup {NoApp}, tty: BOOLEAN,
            stay: BOOLEAN, dur: Nat]

ASSUME RefreshAssumption ==
  /\ NoProc \notin Procs
  /\ Editors \subseteq Procs
  /\ NoApp \notin App
  /\ NoProfile \notin Profile
  /\ NoOutput \notin Identity
  /\ Requests \subseteq Request
  /\ Profiles \subseteq Profile
  /\ \A r \in Requests : r.cmd = "credential-process" =>
       r.role = NoRole /\ r.app = NoApp /\ ~r.tty /\ r.dur = 0

NoRequest == [cmd |-> "login", force |-> FALSE, role |-> NoRole,
              app |-> NoApp, tty |-> FALSE, stay |-> FALSE, dur |-> 0]

NoJob == [req |-> NoRequest, snap |-> NoProfile, role |-> NoRole,
          offered |-> {}, decision |-> "Use", creds |-> "Profile",
          save |-> FALSE, draft |-> NoProfile, out |-> NoOutput,
          reused |-> FALSE]

Job == [req: Requests \cup {NoRequest}, snap: ConfigFile, role: RoleOrNone,
        offered: SUBSET Role, decision: Decision, creds: Scope,
        save: BOOLEAN, draft: ConfigFile, out: Identity \cup {NoOutput},
        reused: BOOLEAN]

LoginPoints == {"lookup", "remember", "remember_save", "waiting", "locked",
                "browser", "picking", "rewaiting", "relocked", "exchange",
                "role_load", "role_save", "printing"}
EditPoints == {"editing", "invalidate", "deleting", "wiping"}
PC == LoginPoints \cup EditPoints \cup {"idle", "done"}

(* refresh_requested for login, the `refresh` flag for credential-process. *)
RefreshRequested(r) == r.force \/ r.dur # 0

(* CredentialScope::for_login; credential-process works for the profile.   *)
ForLogin(r) == IF r.role # NoRole \/ r.app # NoApp THEN "Request" ELSE "Profile"

TargetApp(j) == IF j.req.app # NoApp THEN j.req.app ELSE j.snap.app
RequestedRole(j) == IF j.req.role # NoRole THEN j.req.role ELSE j.snap.role
ConfiguredIdentity(j) == CredentialIdentity(j.snap.app, j.snap.role)
MintedLife(r) == IF r.dur # 0 THEN r.dur ELSE SessionDuration

(* VARIANT: the store is consulted in spite of --force-refresh.            *)
LoadInSpite(p, identity) ==
  TryLoad(cache[p], keyring, identity, ForLogin(job[p].req) = "Request")

(* VARIANT: only this process's own cache is consulted.                    *)
LoadCachedOnly(p, identity) ==
  TryLoad(cache[p], NoEntry, identity,
          RefreshRequested(job[p].req) \/ ForLogin(job[p].req) = "Request")

(* CredentialScope::load: request scope is never answered from the store.  *)
Load(p, identity) ==
  TryLoad(cache[p], keyring, identity,
          RefreshRequested(job[p].req) \/ ForLogin(job[p].req) = "Request")

----------------------------------------------------------------------------
(* Moving on, and the two ways a command ends.                             *)

Goto(p, to) == pc' = [pc EXCEPT ![p] = to]

Release(p) == lock' = IF lock = p THEN NoProc ELSE lock

(* The process ends without printing credentials; its guard is dropped.    *)
EndsWithout(p) ==
  /\ Goto(p, "done")
  /\ Release(p)
  /\ job' = [job EXCEPT ![p] = NoJob]

Issued(entry) == CredentialIdentity(entry.cred.app, entry.cred.role)

(***************************************************************************)
(* Obtaining credentials.                                                  *)
(***************************************************************************)

(* The command starts: Config::load, get_profile.  Everything it later     *)
(* knows of the profile comes from this snapshot.                          *)
Start(p, r) ==
  /\ pc[p] = "idle"
  /\ config # NoProfile
  /\ job' = [job EXCEPT ![p] = [NoJob EXCEPT !.req = r, !.snap = config,
                                             !.creds = ForLogin(r)]]
  /\ Goto(p, "lookup")
  /\ UNCHANGED <<lock, config, keyring, cache>>

(* First look at the store, without the lock.  A hit is printed at once.   *)
(* On a miss a login that finds remember_me neither in its arguments nor   *)
(* in the profile asks for it, still without the lock; any other call goes *)
(* for the lock.                                                           *)
Lookup(p) ==
  LET hit == Load(p, ConfiguredIdentity(job[p]))
      asks == /\ job[p].req.cmd = "login"
              /\ ~job[p].req.stay
              /\ ~job[p].snap.remember
  IN  /\ pc[p] = "lookup"
      /\ cache' = [cache EXCEPT ![p] = Promoted(@, hit)]
      /\ IF hit # NoEntry
         THEN /\ job' = [job EXCEPT ![p].out = Issued(hit), ![p].reused = TRUE]
              /\ Goto(p, "done")
         ELSE /\ Goto(p, IF asks THEN "remember" ELSE "waiting")
              /\ UNCHANGED job
      /\ UNCHANGED <<lock, config, keyring>>

(* The answer to the remember-me prompt, and the reload that precedes      *)
(* saving it.  A profile deleted meanwhile is not an error here.           *)
AnswerRememberMe(p) ==
  /\ pc[p] = "remember"
  /\ IF config = NoProfile
     THEN Goto(p, "waiting") /\ UNCHANGED job
     ELSE /\ Goto(p, "remember_save")
          /\ job' = [job EXCEPT ![p].draft = [config EXCEPT !.remember = TRUE]]
  /\ UNCHANGED <<lock, config, keyring, cache>>

SaveRememberMe(p) ==
  /\ pc[p] = "remember_save"
  /\ config' = job[p].draft
  /\ job' = [job EXCEPT ![p].draft = NoProfile]
  /\ Goto(p, "waiting")
  /\ UNCHANGED <<lock, keyring, cache>>

(* VARIANT: the lock file is opened but its lock is not taken to heart.    *)
AcquireAnyway(p) ==
  /\ \/ pc[p] = "waiting"   /\ Goto(p, "locked")
     \/ pc[p] = "rewaiting" /\ Goto(p, "relocked")
  /\ lock' = p
  /\ UNCHANGED <<config, keyring, cache, job>>

(* One successful try_lock of the polling loop.                            *)
Acquire(p) ==
  /\ lock = NoProc
  /\ \/ pc[p] = "waiting"   /\ Goto(p, "locked")
     \/ pc[p] = "rewaiting" /\ Goto(p, "relocked")
  /\ lock' = p
  /\ UNCHANGED <<config, keyring, cache, job>>

(* VARIANT: a waiter polls for ever.                                       *)
GiveUpNever(p) == FALSE /\ pc[p] = "waiting" /\ UNCHANGED vars

(* The poll finds the lock taken and the timeout elapsed.                  *)
GiveUp(p) ==
  /\ lock # NoProc
  /\ pc[p] \in {"waiting", "rewaiting"}
  /\ EndsWithout(p)
  /\ UNCHANGED <<config, keyring, cache>>

(* Under the lock the store is read again before a browser is considered.  *)
(* credential-process cannot prompt for a role: without one it fails here. *)
Recheck(p) ==
  LET hit == Load(p, ConfiguredIdentity(job[p]))
      roleless == /\ job[p].req.cmd = "credential-process"
                  /\ job[p].snap.role = NoRole
  IN  /\ pc[p] = "locked"
      /\ cache' = [cache EXCEPT ![p] = Promoted(@, hit)]
      /\ IF hit # NoEntry
         THEN /\ job' = [job EXCEPT ![p].out = Issued(hit), ![p].reused = TRUE]
              /\ Goto(p, "printing") /\ UNCHANGED lock
         ELSE IF roleless THEN EndsWithout(p)
              ELSE Goto(p, "browser") /\ UNCHANGED <<lock, job>>
      /\ UNCHANGED <<config, keyring>>

(* VARIANT: the lock is kept while a human picks a role.                   *)
DropsLockLate(r, waits) == ForLogin(r) = "Request" /\ waits \in BOOLEAN

(* The lock is dropped after the sign-in of a request-scope login, and     *)
(* before any human is asked.                                              *)
DropsLock(r, waits) == ForLogin(r) = "Request" \/ waits

(* The browser returns an assertion that offers `roles`, and the login     *)
(* decides on a role.                                                      *)
SignedIn(p, roles) ==
  LET r == job[p].req
      requested == RequestedRole(job[p])
      decision == ResolveRole(roles, requested, r.role # NoRole, r.tty)
      policy == ShouldSavePicked(ForLogin(r), requested # NoRole,
                                 decision = "Replace")
      persistence == PersistenceAfterPick(ForLogin(r), policy, FALSE)
      waits == WaitsForHuman(decision, roles)
      fails == \/ decision \in {"Fail", "Unset"}
               \/ decision = "Pick" /\ roles = {}
      only == IF decision = "Use" THEN requested
              ELSE CHOOSE role \in roles : TRUE
  IN  /\ pc[p] = "browser"
      /\ IF fails
         THEN EndsWithout(p)
         ELSE /\ job' = [job EXCEPT ![p].offered = IF waits THEN roles ELSE {},
                                    ![p].decision = decision,
                                    ![p].role = IF waits THEN NoRole ELSE only,
                                    ![p].creds = persistence.creds,
                                    ![p].save = persistence.save]
              /\ Goto(p, IF waits THEN "picking" ELSE "exchange")
              /\ IF DropsLock(r, waits) THEN lock' = NoProc ELSE UNCHANGED lock
      /\ UNCHANGED <<config, keyring, cache>>

(* VARIANT: picked credentials are stored without taking the lock again.   *)
AfterPickUnlocked(creds) == IF creds = "Profile" THEN "exchange" ELSE "exchange"

(* Credentials that will be stored need the lock again.                    *)
AfterPick(creds) == IF creds = "Profile" THEN "rewaiting" ELSE "exchange"

(* A human picks a role and, when it would replace a configured one, says  *)
(* whether to save it.                                                     *)
PickRole(p, role, answeredYes) ==
  LET r == job[p].req
      policy == ShouldSavePicked(ForLogin(r), RequestedRole(job[p]) # NoRole,
                                 job[p].decision = "Replace")
      persistence == PersistenceAfterPick(ForLogin(r), policy, answeredYes)
  IN  /\ pc[p] = "picking"
      /\ role \in job[p].offered
      /\ job' = [job EXCEPT ![p].role = role, ![p].offered = {},
                            ![p].creds = persistence.creds,
                            ![p].save = persistence.save]
      /\ Goto(p, AfterPick(persistence.creds))
      /\ UNCHANGED <<lock, config, keyring, cache>>

(* The store is read once more, for the identity of the picked role.  What *)
(* another login stored meanwhile is reused only if the profile is now     *)
(* configured for that role; reading that fails if the profile is gone.    *)
RecheckPicked(p) ==
  LET hit == Load(p, CredentialIdentity(TargetApp(job[p]), job[p].role))
  IN  /\ pc[p] = "relocked"
      /\ cache' = [cache EXCEPT ![p] = Promoted(@, hit)]
      /\ CASE hit = NoEntry ->
                Goto(p, "exchange") /\ UNCHANGED <<lock, job>>
           [] hit # NoEntry /\ config = NoProfile ->
                EndsWithout(p)
           [] hit # NoEntry /\ config # NoProfile ->
                IF ReuseAfterRolePick(config.role, job[p].role)
                THEN /\ job' = [job EXCEPT ![p].out = Issued(hit),
                                           ![p].reused = TRUE]
                     /\ Goto(p, "printing") /\ UNCHANGED lock
                ELSE Goto(p, "exchange") /\ UNCHANGED <<lock, job>>
      /\ UNCHANGED <<config, keyring>>

(* VARIANT: STS is asked for the configured role, not the picked one.      *)
MintedForRequested(j) ==
  [tag  |-> CredentialIdentity(TargetApp(j), j.role),
   cred |-> [app |-> TargetApp(j), role |-> RequestedRole(j),
             left |-> MintedLife(j.req)]]

(* VARIANT: the credentials are filed under the identity the login started *)
(* with.                                                                   *)
MintedUnderConfigured(j) ==
  [tag  |-> ConfiguredIdentity(j),
   cred |-> [app |-> TargetApp(j), role |-> j.role, left |-> MintedLife(j.req)]]

(* The credentials STS issues, and the identity they are filed under: that *)
(* of the role actually used.                                              *)
Minted(j) ==
  [tag  |-> CredentialIdentity(TargetApp(j), j.role),
   cred |-> [app |-> TargetApp(j), role |-> j.role, left |-> MintedLife(j.req)]]

(* STS issues credentials and persist_credentials stores them: first in    *)
(* the cache, then in the keyring.  `stored` is FALSE when the keyring     *)
(* refuses them, which ends the command.  A login for this call only       *)
(* stores nothing.                                                         *)
Exchange(p, stored) ==
  LET entry == Minted(job[p])
  IN  /\ pc[p] = "exchange"
      /\ IF job[p].creds = "Profile"
         THEN /\ cache' = [cache EXCEPT ![p] = entry]
              /\ keyring' = IF stored THEN entry ELSE keyring
         ELSE stored /\ UNCHANGED <<cache, keyring>>
      /\ IF stored
         THEN /\ job' = [job EXCEPT ![p].out = Issued(entry)]
              /\ Goto(p, IF job[p].save THEN "role_load" ELSE "printing")
              /\ UNCHANGED lock
         ELSE EndsWithout(p)
      /\ UNCHANGED config

(* persist_picked_role: load, set role_arn, save.  Best effort.            *)
LoadForRole(p) ==
  /\ pc[p] = "role_load"
  /\ IF config = NoProfile
     THEN Goto(p, "printing") /\ UNCHANGED job
     ELSE /\ Goto(p, "role_save")
          /\ job' = [job EXCEPT ![p].draft = [config EXCEPT !.role = job[p].role]]
  /\ UNCHANGED <<lock, config, keyring, cache>>

SaveRole(p) ==
  /\ pc[p] = "role_save"
  /\ config' = job[p].draft
  /\ job' = [job EXCEPT ![p].draft = NoProfile]
  /\ Goto(p, "printing")
  /\ UNCHANGED <<lock, keyring, cache>>

(* The credentials are written to stdout and the guard is dropped; login   *)
(* prints first, credential-process drops first, and nobody can tell.      *)
PrintCredentials(p) ==
  /\ pc[p] = "printing"
  /\ Goto(p, "done")
  /\ Release(p)
  /\ UNCHANGED <<config, keyring, cache, job>>

(* Whatever else can go wrong where the command stands: a keyring that     *)
(* cannot be read, no remembered session, a sign-in that fails or times    *)
(* out, a cancelled prompt, an STS error, a file that cannot be used.       *)
(* A failed role save is only logged.                                      *)
Fails(p) ==
  /\ pc[p] \in {"lookup", "remember", "remember_save", "waiting", "locked",
                "browser", "picking", "rewaiting", "relocked", "exchange",
                "role_save", "editing", "deleting"}
  /\ IF pc[p] = "role_save"
     THEN Goto(p, "printing") /\ UNCHANGED <<lock, job>>
     ELSE EndsWithout(p)
  /\ UNCHANGED <<config, keyring, cache>>

----------------------------------------------------------------------------
(***************************************************************************)
(* Changing what the credentials are for.                                  *)
(***************************************************************************)

(* `configure` and the TUI form: load, let the user edit, save.            *)
StartConfigure(p) ==
  /\ pc[p] = "idle"
  /\ job' = [job EXCEPT ![p] = [NoJob EXCEPT !.snap = config]]
  /\ Goto(p, "editing")
  /\ UNCHANGED <<lock, config, keyring, cache>>

(* The stored credentials go, in a second step, when the edit changed the  *)
(* identity of the profile as it was loaded.                               *)
Configure(p, profile) ==
  LET prev == job[p].snap
      identityChanged == /\ prev # NoProfile
                         /\ \/ prev.app # profile.app
                            \/ prev.role # profile.role
  IN  /\ pc[p] = "editing"
      /\ config' = profile
      /\ job' = [job EXCEPT ![p] = NoJob]
      /\ Goto(p, IF identityChanged THEN "invalidate" ELSE "done")
      /\ UNCHANGED <<lock, keyring, cache>>

InvalidateCredentials(p) ==
  /\ pc[p] = "invalidate"
  /\ keyring' = NoEntry
  /\ cache' = [cache EXCEPT ![p] = NoEntry]
  /\ Goto(p, "done")
  /\ UNCHANGED <<lock, config, job>>

(* `delete-profile`: load, remove, save; then wipe what the profile owns.  *)
StartDelete(p) ==
  /\ pc[p] = "idle"
  /\ config # NoProfile
  /\ Goto(p, "deleting")
  /\ UNCHANGED <<lock, config, keyring, cache, job>>

DeleteProfile(p) ==
  /\ pc[p] = "deleting"
  /\ config' = NoProfile
  /\ Goto(p, "wiping")
  /\ UNCHANGED <<lock, keyring, cache, job>>

WipeProfile(p) ==
  /\ pc[p] = "wiping"
  /\ keyring' = NoEntry
  /\ cache' = [cache EXCEPT ![p] = NoEntry]
  /\ Goto(p, "done")
  /\ UNCHANGED <<lock, config, job>>

(* `clear-cache`, in a process of its own.                                 *)
ClearCache ==
  /\ keyring # NoEntry
  /\ keyring' = NoEntry
  /\ UNCHANGED <<lock, config, cache, pc, job>>

----------------------------------------------------------------------------
(***************************************************************************)
(* The surroundings: time, process exit and process death.                 *)
(***************************************************************************)

Tick ==
  /\ keyring' = Aged(keyring)
  /\ cache' = [p \in Procs |-> Aged(cache[p])]
  /\ UNCHANGED <<lock, config, pc, job>>

(* A process that ends takes its memory along; the OS drops its lock.      *)
Exits(p) ==
  /\ pc' = [pc EXCEPT ![p] = "idle"]
  /\ job' = [job EXCEPT ![p] = NoJob]
  /\ cache' = [cache EXCEPT ![p] = NoEntry]

Exit(p) ==
  /\ pc[p] = "done"
  /\ Exits(p)
  /\ UNCHANGED <<lock, config, keyring>>

Crash(p) ==
  /\ pc[p] \notin {"idle", "done"}
  /\ Exits(p)
  /\ Release(p)
  /\ UNCHANGED <<config, keyring>>

----------------------------------------------------------------------------

Init ==
  /\ lock = NoProc
  /\ config \in Profiles
  /\ keyring = NoEntry
  /\ cache = [p \in Procs |-> NoEntry]
  /\ pc = [p \in Procs |-> "idle"]
  /\ job = [p \in Procs |-> NoJob]

(* The steps of one invocation of credential-process or login, apart from  *)
(* the ones a human takes.                                                 *)
Program(p) ==
  \/ Lookup(p)
  \/ SaveRememberMe(p)
  \/ Acquire(p)
  \/ GiveUp(p)
  \/ Recheck(p)
  \/ \E roles \in SUBSET Role : SignedIn(p, roles)
  \/ RecheckPicked(p)
  \/ \E stored \in BOOLEAN : Exchange(p, stored)
  \/ LoadForRole(p)
  \/ SaveRole(p)
  \/ PrintCredentials(p)

Human(p) ==
  \/ AnswerRememberMe(p)
  \/ \E role \in Role, answeredYes \in BOOLEAN : PickRole(p, role, answeredYes)

Edit(p) ==
  \/ StartConfigure(p)
  \/ \E profile \in Profiles : Configure(p, profile)
  \/ InvalidateCredentials(p)
  \/ StartDelete(p)
  \/ DeleteProfile(p)
  \/ WipeProfile(p)

Next ==
  \/ \E p \in Procs :
       \/ \E r \in Requests : Start(p, r)
       \/ Program(p)
       \/ Human(p)
  \/ \E p \in Editors : Edit(p)
  \/ \E p \in Procs : Fails(p) \/ Exit(p) \/ Crash(p)
  \/ ClearCache
  \/ Tick

Spec == Init /\ [][Next]_vars

----------------------------------------------------------------------------
(***************************************************************************)
(* Properties.                                                             *)
(***************************************************************************)

(* Type invariant.  `left` is any natural number: the model never mints    *)
(* more than MintedLife, the proofs do not need to know.                   *)
TypeOK ==
  /\ lock \in Procs \cup {NoProc}
  /\ config \in ConfigFile
  /\ keyring \in Store
  /\ cache \in [Procs -> Store]
  /\ pc \in [Procs -> PC]
  /\ job \in [Procs -> Job]

(* A process is inside the part of its command the guard protects.         *)
Guarded(p) ==
  \/ pc[p] \in {"locked", "browser", "relocked"}
  \/ /\ pc[p] \in {"exchange", "role_load", "role_save", "printing"}
     /\ job[p].creds = "Profile"

(* The refresh lock is held exactly through the re-check, the sign-in, the *)
(* STS exchange and the storing of credentials (the guard's doc comment),  *)
(* on every path: dropped before a human picks a role, taken again after,  *)
(* given up by every error return, and never kept by a finished command.   *)
LockDiscipline == \A p \in Procs : lock = p <=> Guarded(p)

(* No two processes drive a browser sign-in for the profile at once: the   *)
(* browser phase may rotate the cookie keystore (login.rs, at the          *)
(* acquisition of the lock).                                               *)
OneBrowserAtATime ==
  \A p, q \in Procs : pc[p] = "browser" /\ pc[q] = "browser" => p = q

Forced(p) == RefreshRequested(job[p].req)

(* While an unforced profile-scope call signs in, the keyring holds        *)
(* nothing that would have served it: the re-check under the lock was      *)
(* conclusive and nobody can store behind its back.  Without it a waiter   *)
(* would run a second login after the holder's.                            *)
NoNeedlessBrowser ==
  \A p \in Procs :
    /\ pc[p] = "browser"
    /\ ~Forced(p)
    /\ ForLogin(job[p].req) = "Profile"
    => ~Usable(keyring, ConfiguredIdentity(job[p]))

(* Whatever is stored is filed under the identity STS issued it for, also  *)
(* when the role was replaced by a pick or the profile was edited while    *)
(* the login ran.                                                          *)
StoredUnderOwnIdentity ==
  /\ Truthful(keyring)
  /\ \A p \in Procs : Truthful(cache[p])

(* A command prints credentials for what it was asked: the tenant and app  *)
(* of its override or its snapshot of the profile, and the role that was   *)
(* overridden, configured or picked -- never those of a profile edited or  *)
(* a login made by another process meanwhile.                              *)
PrintsWhatWasAsked ==
  \A p \in Procs :
    job[p].out # NoOutput =>
      LET j == job[p]
      IN  /\ j.out.app = TargetApp(j)
          /\ j.out.role # NoRole
          /\ j.req.role # NoRole => j.out.role = j.req.role
          /\ j.req.role = NoRole /\ j.decision = "Use"
               => j.out.role = j.snap.role
          /\ j.decision \in {"Pick", "Replace"} => j.out.role = j.role

(* --force-refresh, --refresh and --session-duration never print stored    *)
(* credentials, on any of the three looks at the store.                    *)
ForcedMeansFresh ==
  \A p \in Procs : job[p].out # NoOutput /\ Forced(p) => ~job[p].reused

(* A login with an identity override, or one whose user declined to save   *)
(* the replacement role, leaves no trace: apart from the remember-me       *)
(* answer, none of its steps changes the keyring or the profile.           *)
ForThisCallOnly(p) ==
  /\ pc[p] \in LoginPoints \ {"remember_save"}
  /\ \/ ForLogin(job[p].req) = "Request"
     \/ job[p].decision = "Replace" /\ ~job[p].save

LeavesNoTrace ==
  [][\A p \in Procs :
       ForThisCallOnly(p) /\ pc'[p] # pc[p] =>
         UNCHANGED <<keyring, config>>]_vars

(* New credentials enter the keyring only by the holder of the refresh     *)
(* lock; a process without it can only take credentials away.              *)
OnlyHolderStores ==
  [][keyring' # keyring /\ keyring' # NoEntry /\ keyring' # Aged(keyring) =>
       \E p \in Procs : lock = p /\ pc[p] = "exchange"]_vars

(* What the lock promises: the owner is the holder, and the processes at   *)
(* their browser are the ones signing in.                                  *)
Promise == INSTANCE SingleRefresh WITH
  owner   <- lock,
  signing <- {p \in Procs : pc[p] = "browser"},
  entry   <- keyring

(* The commands keep that promise in every interleaving, crash and edit.   *)
KeepsThePromise == Promise!SSpec

----------------------------------------------------------------------------
(* The steps a command takes by itself: neither a browser sign-in nor an   *)
(* STS call, which wait for a server, nor a human's answer.                *)
Unattended(p) ==
  \/ Lookup(p) \/ SaveRememberMe(p) \/ Acquire(p) \/ GiveUp(p)
  \/ Recheck(p) \/ RecheckPicked(p) \/ LoadForRole(p) \/ SaveRole(p)
  \/ PrintCredentials(p)

LiveSpec == Spec /\ \A p \in Procs : WF_vars(Unattended(p))

(* A call never hangs on another process: whatever the holder of the lock  *)
(* does, even if its browser or its user never answers, every other call   *)
(* ends or comes to its own browser, STS call or prompt.                   *)
NeverHangsOnAnother ==
  \A p \in Procs :
    pc[p] \in LoginPoints ~>
      pc[p] \in {"browser", "exchange", "remember", "picking", "done", "idle"}

(* README, "only one of them opens a browser": an unforced call on the     *)
(* profile opens no browser while the keyring holds fresh credentials for  *)
(* the profile as it is now configured.                                    *)
OneLoginServesWaiters ==
  [][\A p \in Procs :
       /\ pc[p] = "locked" /\ pc'[p] = "browser"
       /\ ~Forced(p) /\ ForLogin(job[p].req) = "Profile"
       /\ config # NoProfile
       => ~Usable(keyring, CredentialIdentity(config.app, config.role))]_vars
=============================================================================
