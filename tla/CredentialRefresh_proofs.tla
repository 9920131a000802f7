---------------------- MODULE CredentialRefresh_proofs ----------------------
(***************************************************************************)
(* What holds of CredentialRefresh for any set of processes, apps, roles,  *)
(* requests and profiles.  IInv is the inductive invariant: the types,     *)
(* who holds the lock, and what a command has worked out where it stands.  *)
(***************************************************************************)
EXTENDS CredentialRefresh, TLAPS

USE CredentialsAssumption, NoEntryAssumption, RefreshAssumption

----------------------------------------------------------------------------
(* The inductive invariant.                                                *)

RoleKnown == {"rewaiting", "relocked", "exchange", "role_load", "role_save"}
BeforeChoice == {"lookup", "remember", "remember_save", "waiting", "locked",
                 "browser"}

(* What the job of a process at a point has in it.                         *)
Fits(j, at) ==
  /\ j \in Job
  /\ at \in LoginPoints => j.snap \in Profile
  /\ at \in RoleKnown => j.role \in Role
  /\ at \in {"remember_save", "role_save"} => j.draft \in Profile
  /\ at \in BeforeChoice => j.creds = ForLogin(j.req)
  /\ at \in {"rewaiting", "relocked"} => j.creds = "Profile"

(* Guarded, of a job and a point.                                          *)
GuardedAt(j, at) ==
  \/ at \in {"locked", "browser", "relocked"}
  \/ /\ at \in {"exchange", "role_load", "role_save", "printing"}
     /\ j.creds = "Profile"

IInv ==
  /\ TypeOK
  /\ LockDiscipline
  /\ \A p \in Procs : Fits(job[p], pc[p])

(* How one step may treat the lock when it takes p to a point with a job.  *)
LockFollows(p, j, to) ==
  \/ lock' = lock /\ (GuardedAt(job[p], pc[p]) <=> GuardedAt(j, to))
  \/ lock = NoProc /\ lock' = p /\ GuardedAt(j, to)
  \/ Release(p) /\ ~GuardedAt(j, to)

----------------------------------------------------------------------------
(* Lemmas about the data and the pure decisions.                           *)

(* The blank job is a job.                                                 *)
LEMMA NoJobType == NoJob \in Job /\ NoRequest \in Request
BY DEF NoJob, Job, NoRequest, Request, ConfigFile, RoleOrNone, Decision, Scope, Identity

(* Where a login's credentials go is a scope.                              *)
LEMMA ForLoginType == ASSUME NEW r PROVE ForLogin(r) \in Scope
BY DEF ForLogin, Scope

(* A role that is used without a prompt is one the assertion offers, and a *)
(* role that replaces the configured one is always asked for.              *)
LEMMA ResolveType ==
  ASSUME NEW offered, NEW requested, NEW explicit, NEW interactive
  PROVE  LET decision == ResolveRole(offered, requested, explicit, interactive)
         IN  /\ decision \in Decision
             /\ decision = "Use" => requested # NoRole /\ requested \in offered
BY DEF ResolveRole, Decision

(* Credentials never go further than the scope of the login, and only a    *)
(* declined replacement takes them out of a profile login's scope.         *)
LEMMA PersistenceType ==
  ASSUME NEW scope \in Scope, NEW supplied, NEW fellBack, NEW yes
  PROVE  LET policy == ShouldSavePicked(scope, supplied, fellBack)
             persistence == PersistenceAfterPick(scope, policy, yes)
         IN  /\ persistence.creds \in Scope
             /\ persistence.save \in BOOLEAN
             /\ scope = "Request" => persistence.creds = "Request"
             /\ ~fellBack => persistence.creds = scope
BY DEF PersistenceAfterPick, ShouldSavePicked, Scope

(* A look at the store returns an entry, or nothing.                       *)
LEMMA LoadType ==
  ASSUME TypeOK, NEW p \in Procs, NEW identity
  PROVE  LET hit == Load(p, identity)
         IN  /\ hit \in Store
             /\ Promoted(cache[p], hit) \in Store
             /\ hit # NoEntry => hit \in Entry /\ Issued(hit) \in Identity
<1> DEFINE hit == Load(p, identity)
<1>1. hit \in Store
  BY DEF Load, TryLoad, TypeOK, Store
<1> HIDE DEF hit
<1>2. Promoted(cache[p], hit) \in Store
  BY <1>1 DEF Promoted, TypeOK
<1>3. hit # NoEntry => hit \in Entry
  BY <1>1 DEF Store
<1>4. hit \in Entry => Issued(hit) \in Identity
  BY DEF Issued, Entry, Credentials, CredentialIdentity, Identity, RoleOrNone
<1> QED BY <1>1, <1>2, <1>3, <1>4 DEF hit

(* A hit is never for a call that refuses the store.                       *)
LEMMA HitMeansAsked ==
  ASSUME NEW p, NEW identity, Load(p, identity) # NoEntry
  PROVE  ~RefreshRequested(job[p].req) /\ ForLogin(job[p].req) # "Request"
BY DEF Load, TryLoad

(* Time leaves an entry an entry.                                          *)
LEMMA AgedType == ASSUME NEW e \in Store PROVE Aged(e) \in Store
<1>1. CASE e = NoEntry \/ e.cred.left = 0
  BY <1>1 DEF Aged
<1>2. CASE e # NoEntry /\ e.cred.left # 0
  <2>1. e \in Entry /\ e.cred.left - 1 \in Nat
    BY <1>2 DEF Store, Entry, Credentials
  <2>2. [e EXCEPT !.cred.left = @ - 1] \in Entry
    BY <2>1 DEF Entry, Credentials
  <2> QED BY <1>2, <2>2 DEF Aged, Store
<1> QED BY <1>1, <1>2

(* What STS issues is an entry.                                            *)
LEMMA MintedType ==
  ASSUME NEW j \in Job, j.snap \in Profile, j.role \in Role
  PROVE  Minted(j) \in Entry /\ Issued(Minted(j)) \in Identity
<1>1. j.req \in Request
  BY NoJobType DEF Job
<1>2. TargetApp(j) \in App
  BY <1>1 DEF TargetApp, Request, Profile
<1>3. MintedLife(j.req) \in Nat
  BY <1>1 DEF MintedLife, Request
<1> QED
  BY <1>2, <1>3 DEF Minted, Issued, CredentialIdentity, Entry, Credentials, Identity, RoleOrNone

----------------------------------------------------------------------------
(* One process moves.                                                      *)

(* A step that takes one process to a point where its job fits, and treats *)
(* the lock as LockFollows says, keeps the invariant.                      *)
LEMMA OneMoves ==
  ASSUME IInv, NEW p \in Procs, NEW to \in PC, NEW j,
         Fits(j, to),
         pc' = [pc EXCEPT ![p] = to],
         job' = [job EXCEPT ![p] = j],
         LockFollows(p, j, to),
         config' \in ConfigFile,
         keyring' \in Store,
         cache' \in [Procs -> Store]
  PROVE  IInv'
<1>1. /\ pc' \in [Procs -> PC]
      /\ job' \in [Procs -> Job]
  BY DEF IInv, TypeOK, Fits
<1>2. lock' \in Procs \cup {NoProc}
  BY DEF LockFollows, Release, IInv, TypeOK
<1>3. pc'[p] = to /\ job'[p] = j
  BY DEF IInv, TypeOK
<1>4. ASSUME NEW q \in Procs, q # p PROVE pc'[q] = pc[q] /\ job'[q] = job[q]
  BY <1>4 DEF IInv, TypeOK
<1>5. ASSUME NEW q \in Procs PROVE Fits(job[q], pc[q])'
  BY <1>3, <1>4 DEF Fits, IInv
<1>6. ASSUME NEW q \in Procs PROVE (lock = q <=> Guarded(q))'
  <2>1. (lock = q <=> GuardedAt(job[q], pc[q])) /\ (lock = p <=> GuardedAt(job[p], pc[p]))
    BY DEF IInv, LockDiscipline, Guarded, GuardedAt
  <2>2. Guarded(q)' <=> GuardedAt(job'[q], pc'[q])
    BY DEF Guarded, GuardedAt
  <2>3. CASE q = p
    BY <1>3, <2>1, <2>2, <2>3 DEF LockFollows, Release
  <2>4. CASE q # p
    BY <1>4, <2>1, <2>2, <2>4 DEF LockFollows, Release
  <2> QED BY <2>3, <2>4
<1> QED BY <1>1, <1>2, <1>5, <1>6 DEF IInv, TypeOK, LockDiscipline

(* A command that ends without credentials keeps the invariant.            *)
LEMMA EndsKeeps ==
  ASSUME IInv, NEW p \in Procs, EndsWithout(p),
         config' \in ConfigFile, keyring' \in Store, cache' \in [Procs -> Store]
  PROVE  IInv'
<1>1. Fits(NoJob, "done") /\ ~GuardedAt(NoJob, "done")
  BY NoJobType DEF Fits, GuardedAt, RoleKnown, LoginPoints, BeforeChoice
<1>2. "done" \in PC
  BY DEF PC
<1> QED
  BY <1>1, <1>2, OneMoves DEF EndsWithout, Goto, LockFollows

(* A step that moves no process and leaves the lock alone keeps it too.    *)
LEMMA StoreStepKeeps ==
  ASSUME IInv, UNCHANGED <<lock, config, pc, job>>,
         keyring' \in Store, cache' \in [Procs -> Store]
  PROVE  IInv'
<1>1. ASSUME NEW q \in Procs PROVE Guarded(q)' <=> Guarded(q)
  BY DEF Guarded
<1> QED BY <1>1 DEF IInv, TypeOK, LockDiscipline

----------------------------------------------------------------------------
(* Every action keeps the invariant.                                       *)

(* A command that starts holds no lock and works from its snapshot.        *)
LEMMA StartKeeps ==
  ASSUME IInv, NEW p \in Procs, NEW r \in Requests, Start(p, r)
  PROVE  IInv'
<1> DEFINE j == [NoJob EXCEPT !.req = r, !.snap = config, !.creds = ForLogin(r)]
<1>1. /\ j \in Job
      /\ j.req = r /\ j.snap = config /\ j.creds = ForLogin(r)
  BY NoJobType, ForLoginType DEF IInv, TypeOK, Job, Start
<1>2. config \in Profile
  BY DEF IInv, TypeOK, Start, ConfigFile
<1>3. job' = [job EXCEPT ![p] = j] /\ pc' = [pc EXCEPT ![p] = "lookup"]
  BY DEF Start, Goto
<1> HIDE DEF j
<1>4. Fits(j, "lookup")
  BY <1>1, <1>2 DEF Fits, RoleKnown
<1>5. LockFollows(p, j, "lookup")
  BY DEF LockFollows, GuardedAt, Start
<1>6. "lookup" \in PC
  BY DEF PC, LoginPoints
<1> QED
  BY <1>3, <1>4, <1>5, <1>6, OneMoves DEF Start, IInv, TypeOK

(* The job of a call served from the store, and where it goes.             *)
LEMMA ServedFits ==
  ASSUME IInv, NEW p \in Procs, NEW identity,
         Load(p, identity) # NoEntry
  PROVE  LET j == [job[p] EXCEPT !.out = Issued(Load(p, identity)), !.reused = TRUE]
         IN  /\ Fits(j, "done")
             /\ pc[p] \in LoginPoints => Fits(j, "printing")
             /\ j.creds = job[p].creds
<1> DEFINE j == [job[p] EXCEPT !.out = Issued(Load(p, identity)), !.reused = TRUE]
<1>1. j \in Job /\ j.creds = job[p].creds /\ j.snap = job[p].snap
  <2>1. Issued(Load(p, identity)) \in Identity /\ job[p] \in Job
    BY LoadType DEF IInv, TypeOK
  <2> QED BY <2>1 DEF Job
<1>2. pc[p] \in LoginPoints => job[p].snap \in Profile
  BY DEF IInv, Fits
<1> QED
  BY <1>1, <1>2 DEF Fits, RoleKnown, LoginPoints, BeforeChoice

(* The first look is made without the lock and ends or goes to wait.       *)
LEMMA LookupKeeps ==
  ASSUME IInv, NEW p \in Procs, Lookup(p)
  PROVE  IInv'
<1> DEFINE hit == Load(p, ConfiguredIdentity(job[p]))
           j == [job[p] EXCEPT !.out = Issued(hit), !.reused = TRUE]
           asks == /\ job[p].req.cmd = "login"
                   /\ ~job[p].req.stay
                   /\ ~job[p].snap.remember
           to == IF asks THEN "remember" ELSE "waiting"
<1>1. cache' \in [Procs -> Store]
  <2>1. Promoted(cache[p], hit) \in Store
    BY LoadType DEF IInv
  <2> QED BY <2>1 DEF IInv, TypeOK, Lookup
<1>2. CASE hit # NoEntry
  <2>1. Fits(j, "done")
    BY <1>2, ServedFits
  <2>2. job' = [job EXCEPT ![p] = j] /\ pc' = [pc EXCEPT ![p] = "done"]
    BY <1>2 DEF Lookup, Goto, IInv, TypeOK
  <2>3. LockFollows(p, j, "done")
    BY DEF LockFollows, GuardedAt, Lookup
  <2>4. "done" \in PC
    BY DEF PC
  <2> HIDE DEF j, hit
  <2> QED
    BY <1>1, <2>1, <2>2, <2>3, <2>4, OneMoves DEF Lookup, IInv, TypeOK
<1>3. CASE hit = NoEntry
  <2>1. Fits(job[p], to)
    BY DEF Fits, RoleKnown, LoginPoints, BeforeChoice, Lookup, IInv
  <2>2. job' = [job EXCEPT ![p] = job[p]] /\ pc' = [pc EXCEPT ![p] = to]
    BY <1>3 DEF Lookup, Goto, IInv, TypeOK
  <2>3. LockFollows(p, job[p], to)
    BY DEF LockFollows, GuardedAt, Lookup
  <2>4. to \in PC
    BY DEF PC, LoginPoints
  <2> HIDE DEF to, hit
  <2> QED
    BY <1>1, <2>1, <2>2, <2>3, <2>4, OneMoves DEF Lookup, IInv, TypeOK
<1> QED BY <1>2, <1>3

(* Answering the prompt drafts a profile only if there still is one.       *)
LEMMA AnswerRememberMeKeeps ==
  ASSUME IInv, NEW p \in Procs, AnswerRememberMe(p)
  PROVE  IInv'
<1>1. CASE config = NoProfile
  <2>1. Fits(job[p], "waiting")
    BY DEF Fits, RoleKnown, LoginPoints, BeforeChoice, AnswerRememberMe, IInv
  <2>2. job' = [job EXCEPT ![p] = job[p]] /\ pc' = [pc EXCEPT ![p] = "waiting"]
    BY <1>1 DEF AnswerRememberMe, Goto, IInv, TypeOK
  <2>3. LockFollows(p, job[p], "waiting") /\ "waiting" \in PC
    BY DEF LockFollows, GuardedAt, AnswerRememberMe, PC, LoginPoints
  <2> QED
    BY <2>1, <2>2, <2>3, OneMoves DEF AnswerRememberMe, IInv, TypeOK
<1>2. CASE config # NoProfile
  <2> DEFINE draft == [config EXCEPT !.remember = TRUE]
             j == [job[p] EXCEPT !.draft = draft]
  <2>1. draft \in Profile
    BY <1>2 DEF IInv, TypeOK, ConfigFile, Profile
  <2> HIDE DEF draft
  <2>2. j \in Job /\ j.draft = draft /\ j.snap = job[p].snap
        /\ j.creds = job[p].creds /\ j.req = job[p].req
    BY <2>1 DEF IInv, TypeOK, Job, ConfigFile
  <2>3. Fits(j, "remember_save")
    BY <2>1, <2>2 DEF Fits, RoleKnown, LoginPoints, BeforeChoice, AnswerRememberMe, IInv
  <2>4. job' = [job EXCEPT ![p] = j] /\ pc' = [pc EXCEPT ![p] = "remember_save"]
    BY <1>2 DEF AnswerRememberMe, Goto, IInv, TypeOK, draft
  <2> HIDE DEF j
  <2>5. LockFollows(p, j, "remember_save") /\ "remember_save" \in PC
    BY DEF LockFollows, GuardedAt, AnswerRememberMe, PC, LoginPoints
  <2> QED
    BY <2>3, <2>4, <2>5, OneMoves DEF AnswerRememberMe, IInv, TypeOK
<1> QED BY <1>1, <1>2

(* Both saves forget the draft and put it in the file.                     *)
LEMMA SaveFits ==
  ASSUME IInv, NEW p \in Procs, NEW to \in {"waiting", "printing"},
         \/ pc[p] = "remember_save" /\ to = "waiting"
         \/ pc[p] = "role_save" /\ to = "printing"
  PROVE  LET j == [job[p] EXCEPT !.draft = NoProfile]
         IN  /\ Fits(j, to)
             /\ j.creds = job[p].creds
             /\ job[p].draft \in ConfigFile
<1> DEFINE j == [job[p] EXCEPT !.draft = NoProfile]
<1>1. j \in Job /\ j.snap = job[p].snap /\ j.creds = job[p].creds /\ j.req = job[p].req
  BY DEF IInv, TypeOK, Job, ConfigFile
<1>2. Fits(job[p], pc[p])
  BY DEF IInv
<1> HIDE DEF j
<1>3. Fits(j, to)
  BY <1>1, <1>2 DEF Fits, RoleKnown, LoginPoints, BeforeChoice
<1> QED BY <1>1, <1>2, <1>3 DEF j, Fits, ConfigFile

(* Saving the answer puts a profile in the file.                           *)
LEMMA SaveRememberMeKeeps ==
  ASSUME IInv, NEW p \in Procs, SaveRememberMe(p)
  PROVE  IInv'
<1> DEFINE j == [job[p] EXCEPT !.draft = NoProfile]
<1>1. Fits(j, "waiting") /\ config' \in ConfigFile
  BY SaveFits DEF SaveRememberMe
<1>2. job' = [job EXCEPT ![p] = j] /\ pc' = [pc EXCEPT ![p] = "waiting"]
  BY DEF SaveRememberMe, Goto, IInv, TypeOK
<1> HIDE DEF j
<1>3. LockFollows(p, j, "waiting") /\ "waiting" \in PC
  BY DEF LockFollows, GuardedAt, SaveRememberMe, PC, LoginPoints
<1> QED
  BY <1>1, <1>2, <1>3, OneMoves DEF SaveRememberMe, IInv, TypeOK

(* Taking the lock leads to a point that is guarded.                       *)
LEMMA AcquireKeeps ==
  ASSUME IInv, NEW p \in Procs, Acquire(p)
  PROVE  IInv'
<1> DEFINE to == IF pc[p] = "waiting" THEN "locked" ELSE "relocked"
<1>1. Fits(job[p], to)
  BY DEF Fits, RoleKnown, LoginPoints, BeforeChoice, Acquire, IInv
<1>2. job' = [job EXCEPT ![p] = job[p]] /\ pc' = [pc EXCEPT ![p] = to]
  BY DEF Acquire, Goto, IInv, TypeOK
<1>3. LockFollows(p, job[p], to) /\ to \in PC
  BY DEF LockFollows, GuardedAt, Acquire, PC, LoginPoints
<1> HIDE DEF to
<1> QED
  BY <1>1, <1>2, <1>3, OneMoves DEF Acquire, IInv, TypeOK

(* Who gives up never held the lock.                                       *)
LEMMA GiveUpKeeps ==
  ASSUME IInv, NEW p \in Procs, GiveUp(p)
  PROVE  IInv'
BY EndsKeeps DEF GiveUp, IInv, TypeOK

(* The re-check keeps the lock, or gives it up with the command.           *)
LEMMA RecheckKeeps ==
  ASSUME IInv, NEW p \in Procs, Recheck(p)
  PROVE  IInv'
<1> DEFINE hit == Load(p, ConfiguredIdentity(job[p]))
           j == [job[p] EXCEPT !.out = Issued(hit), !.reused = TRUE]
           roleless == /\ job[p].req.cmd = "credential-process"
                       /\ job[p].snap.role = NoRole
<1>1. cache' \in [Procs -> Store]
  <2>1. Promoted(cache[p], hit) \in Store
    BY LoadType DEF IInv
  <2> QED BY <2>1 DEF IInv, TypeOK, Recheck
<1>2. CASE hit # NoEntry
  <2>1. Fits(j, "printing") /\ j.creds = job[p].creds
    BY <1>2, ServedFits DEF Recheck, LoginPoints
  <2>2. job' = [job EXCEPT ![p] = j] /\ pc' = [pc EXCEPT ![p] = "printing"]
    BY <1>2 DEF Recheck, Goto, IInv, TypeOK
  <2>3. j.creds = "Profile"
    BY <1>2, <2>1, HitMeansAsked, ForLoginType
       DEF IInv, Fits, Recheck, BeforeChoice, Scope
  <2>4. LockFollows(p, j, "printing") /\ "printing" \in PC
    BY <1>2, <2>3 DEF LockFollows, GuardedAt, Recheck, PC, LoginPoints
  <2> HIDE DEF j, hit
  <2> QED
    BY <1>1, <2>1, <2>2, <2>4, OneMoves DEF Recheck, IInv, TypeOK
<1>3. CASE hit = NoEntry /\ roleless
  BY <1>1, <1>3, EndsKeeps DEF Recheck, IInv, TypeOK
<1>4. CASE hit = NoEntry /\ ~roleless
  <2>1. Fits(job[p], "browser")
    BY DEF Fits, RoleKnown, LoginPoints, BeforeChoice, Recheck, IInv
  <2>2. job' = [job EXCEPT ![p] = job[p]] /\ pc' = [pc EXCEPT ![p] = "browser"]
        /\ lock' = lock
    BY <1>4 DEF Recheck, Goto, IInv, TypeOK
  <2>3. LockFollows(p, job[p], "browser") /\ "browser" \in PC
    BY <2>2 DEF LockFollows, GuardedAt, Recheck, PC, LoginPoints
  <2> HIDE DEF hit
  <2> QED
    BY <1>1, <2>1, <2>2, <2>3, OneMoves DEF Recheck, IInv, TypeOK
<1> QED BY <1>2, <1>3, <1>4

(* The lock survives a sign-in just when its credentials will be stored.   *)
LEMMA SignedInKeeps ==
  ASSUME IInv, NEW p \in Procs, NEW roles \in SUBSET Role, SignedIn(p, roles)
  PROVE  IInv'
<1> DEFINE r == job[p].req
           requested == RequestedRole(job[p])
           decision == ResolveRole(roles, requested, r.role # NoRole, r.tty)
           policy == ShouldSavePicked(ForLogin(r), requested # NoRole,
                                      decision = "Replace")
           persistence == PersistenceAfterPick(ForLogin(r), policy, FALSE)
           waits == WaitsForHuman(decision, roles)
           fails == \/ decision \in {"Fail", "Unset"}
                    \/ decision = "Pick" /\ roles = {}
           only == IF decision = "Use" THEN requested
                   ELSE CHOOSE role \in roles : TRUE
           offered == IF waits THEN roles ELSE {}
           role == IF waits THEN NoRole ELSE only
           j == [job[p] EXCEPT !.offered = offered, !.decision = decision,
                               !.role = role, !.creds = persistence.creds,
                               !.save = persistence.save]
           to == IF waits THEN "picking" ELSE "exchange"
<1>1. CASE fails
  BY <1>1, EndsKeeps DEF SignedIn, IInv, TypeOK
<1>2. CASE ~fails
  <2>1. decision \in Decision /\ (decision = "Use" => requested \in roles)
    BY ResolveType
  <2>2. /\ persistence.creds \in Scope
        /\ persistence.save \in BOOLEAN
        /\ ForLogin(r) = "Request" => persistence.creds = "Request"
        /\ decision # "Replace" => persistence.creds = ForLogin(r)
    <3> HIDE DEF decision, requested
    <3>1. ForLogin(r) \in Scope
      BY ForLoginType
    <3> QED BY <3>1 DEF PersistenceAfterPick, ShouldSavePicked, Scope
  <2>3. ~waits => decision # "Replace" /\ only \in Role
    BY <1>2, <2>1 DEF WaitsForHuman, Decision
  <2>4. /\ job' = [job EXCEPT ![p] = j]
        /\ pc' = [pc EXCEPT ![p] = to]
        /\ IF DropsLock(r, waits) THEN lock' = NoProc ELSE lock' = lock
    BY <1>2 DEF SignedIn, Goto, IInv, TypeOK
  <2>5. job[p] \in Job /\ job[p].snap \in Profile
    BY DEF IInv, TypeOK, Fits, SignedIn, LoginPoints
  <2>6. lock = p
    BY DEF IInv, LockDiscipline, Guarded, SignedIn
  <2>7. pc[p] = "browser" /\ UNCHANGED <<config, keyring, cache>>
    BY DEF SignedIn
  <2> DEFINE creds == persistence.creds
             save == persistence.save
  <2> HIDE DEF decision, persistence, waits, only
  <2>8. offered \in SUBSET Role /\ role \in RoleOrNone /\ (~waits => role \in Role)
    BY <2>3 DEF RoleOrNone
  <2> HIDE DEF offered, role
  <2>9. /\ j \in Job
        /\ j.snap = job[p].snap /\ j.role = role /\ j.creds = creds
    BY <2>1, <2>2, <2>5, <2>8 DEF Job
  <2> HIDE DEF j
  <2>10. Fits(j, to)
    BY <2>5, <2>8, <2>9 DEF Fits, LoginPoints, RoleKnown, BeforeChoice
  <2>11. LockFollows(p, j, to)
    BY <2>2, <2>3, <2>4, <2>6, <2>7, <2>9, ForLoginType
       DEF LockFollows, GuardedAt, DropsLock, Release, Scope
  <2>12. to \in PC
    BY DEF PC, LoginPoints
  <2> HIDE DEF to
  <2> QED
    BY <2>4, <2>7, <2>10, <2>11, <2>12, OneMoves DEF IInv, TypeOK
<1> QED BY <1>1, <1>2

(* After a pick the lock is needed again, or no longer.                    *)
LEMMA PickRoleKeeps ==
  ASSUME IInv, NEW p \in Procs, NEW role \in Role, NEW yes \in BOOLEAN,
         PickRole(p, role, yes)
  PROVE  IInv'
<1> DEFINE r == job[p].req
           policy == ShouldSavePicked(ForLogin(r), RequestedRole(job[p]) # NoRole,
                                      job[p].decision = "Replace")
           persistence == PersistenceAfterPick(ForLogin(r), policy, yes)
           j == [job[p] EXCEPT !.role = role, !.offered = {},
                               !.creds = persistence.creds,
                               !.save = persistence.save]
           to == AfterPick(persistence.creds)
<1>1. persistence.creds \in Scope /\ persistence.save \in BOOLEAN
  BY ForLoginType, PersistenceType
<1>2. /\ job' = [job EXCEPT ![p] = j]
      /\ pc' = [pc EXCEPT ![p] = to]
      /\ UNCHANGED <<lock, config, keyring, cache>>
      /\ pc[p] = "picking"
  BY DEF PickRole, Goto, IInv, TypeOK
<1>3. job[p] \in Job /\ job[p].snap \in Profile
  BY <1>2 DEF IInv, TypeOK, Fits, LoginPoints
<1> HIDE DEF persistence
<1>4. /\ j \in Job
      /\ j.snap = job[p].snap /\ j.role = role /\ j.creds = persistence.creds
  BY <1>1, <1>3 DEF Job, RoleOrNone
<1> HIDE DEF j
<1>5. Fits(j, to) /\ to \in PC
  BY <1>3, <1>4 DEF Fits, AfterPick, LoginPoints, RoleKnown, BeforeChoice, PC
<1>6. LockFollows(p, j, to)
  BY <1>2, <1>4 DEF LockFollows, GuardedAt, AfterPick
<1> HIDE DEF to
<1> QED
  BY <1>2, <1>5, <1>6, OneMoves DEF IInv, TypeOK

(* The second re-check keeps the lock, or gives it up with the command.    *)
LEMMA RecheckPickedKeeps ==
  ASSUME IInv, NEW p \in Procs, RecheckPicked(p)
  PROVE  IInv'
<1> DEFINE identity == CredentialIdentity(TargetApp(job[p]), job[p].role)
           hit == Load(p, identity)
           j == [job[p] EXCEPT !.out = Issued(hit), !.reused = TRUE]
           reuse == ReuseAfterRolePick(config.role, job[p].role)
<1>1. cache' \in [Procs -> Store]
  <2>1. Promoted(cache[p], hit) \in Store
    BY LoadType DEF IInv
  <2> QED BY <2>1 DEF IInv, TypeOK, RecheckPicked
<1>2. CASE hit # NoEntry /\ config = NoProfile
  BY <1>1, <1>2, EndsKeeps DEF RecheckPicked, IInv, TypeOK
<1>3. CASE hit # NoEntry /\ config # NoProfile /\ reuse
  <2>1. Fits(j, "printing") /\ j.creds = job[p].creds
    BY <1>3, ServedFits DEF RecheckPicked, LoginPoints
  <2>2. job' = [job EXCEPT ![p] = j] /\ pc' = [pc EXCEPT ![p] = "printing"]
        /\ lock' = lock
    BY <1>3 DEF RecheckPicked, Goto, IInv, TypeOK
  <2>3. LockFollows(p, j, "printing") /\ "printing" \in PC
    BY <2>1, <2>2 DEF IInv, Fits, LockFollows, GuardedAt, RecheckPicked, PC, LoginPoints
  <2> HIDE DEF j, hit, reuse
  <2> QED
    BY <1>1, <2>1, <2>2, <2>3, OneMoves DEF RecheckPicked, IInv, TypeOK
<1>4. CASE hit = NoEntry \/ (config # NoProfile /\ ~reuse)
  <2>1. Fits(job[p], "exchange") /\ job[p].creds = "Profile"
    BY DEF Fits, RoleKnown, LoginPoints, BeforeChoice, RecheckPicked, IInv
  <2>2. job' = [job EXCEPT ![p] = job[p]] /\ pc' = [pc EXCEPT ![p] = "exchange"]
        /\ lock' = lock
    BY <1>4 DEF RecheckPicked, Goto, IInv, TypeOK
  <2>3. LockFollows(p, job[p], "exchange") /\ "exchange" \in PC
    BY <2>1, <2>2 DEF LockFollows, GuardedAt, RecheckPicked, PC, LoginPoints
  <2> HIDE DEF hit, reuse
  <2> QED
    BY <1>1, <2>1, <2>2, <2>3, OneMoves DEF RecheckPicked, IInv, TypeOK
<1> QED BY <1>2, <1>3, <1>4

(* What is stored is an entry; a refused store gives the lock up.          *)
LEMMA ExchangeKeeps ==
  ASSUME IInv, NEW p \in Procs, NEW stored \in BOOLEAN, Exchange(p, stored)
  PROVE  IInv'
<1> DEFINE entry == Minted(job[p])
           j == [job[p] EXCEPT !.out = Issued(entry)]
           to == IF job[p].save THEN "role_load" ELSE "printing"
<1>1. job[p] \in Job /\ job[p].snap \in Profile /\ job[p].role \in Role
  BY DEF IInv, TypeOK, Fits, Exchange, LoginPoints, RoleKnown
<1>2. entry \in Entry /\ Issued(entry) \in Identity
  BY <1>1, MintedType
<1> HIDE DEF entry
<1>3. keyring' \in Store /\ cache' \in [Procs -> Store] /\ config' = config
  BY <1>2 DEF Exchange, IInv, TypeOK, Store, entry
<1>4. CASE ~stored
  BY <1>3, <1>4, EndsKeeps DEF Exchange, IInv, TypeOK
<1>5. CASE stored
  <2>1. /\ j \in Job
        /\ j.snap = job[p].snap /\ j.role = job[p].role /\ j.creds = job[p].creds
    BY <1>1, <1>2 DEF Job
  <2>2. /\ job' = [job EXCEPT ![p] = j]
        /\ pc' = [pc EXCEPT ![p] = to]
        /\ lock' = lock
        /\ pc[p] = "exchange"
    BY <1>5 DEF Exchange, Goto, IInv, TypeOK, entry
  <2> HIDE DEF j
  <2>3. Fits(j, to) /\ to \in PC
    BY <1>1, <2>1 DEF Fits, LoginPoints, RoleKnown, BeforeChoice, PC
  <2>4. LockFollows(p, j, to)
    BY <2>1, <2>2 DEF LockFollows, GuardedAt
  <2> HIDE DEF to
  <2> QED
    BY <1>3, <2>2, <2>3, <2>4, OneMoves DEF IInv, TypeOK
<1> QED BY <1>4, <1>5

(* The picked role is drafted into the profile, if there still is one.     *)
LEMMA LoadForRoleKeeps ==
  ASSUME IInv, NEW p \in Procs, LoadForRole(p)
  PROVE  IInv'
<1>1. CASE config = NoProfile
  <2>1. Fits(job[p], "printing")
    BY DEF Fits, RoleKnown, LoginPoints, BeforeChoice, LoadForRole, IInv
  <2>2. job' = [job EXCEPT ![p] = job[p]] /\ pc' = [pc EXCEPT ![p] = "printing"]
    BY <1>1 DEF LoadForRole, Goto, IInv, TypeOK
  <2>3. LockFollows(p, job[p], "printing") /\ "printing" \in PC
    BY DEF LockFollows, GuardedAt, LoadForRole, PC, LoginPoints
  <2> QED
    BY <2>1, <2>2, <2>3, OneMoves DEF LoadForRole, IInv, TypeOK
<1>2. CASE config # NoProfile
  <2> DEFINE draft == [config EXCEPT !.role = job[p].role]
             j == [job[p] EXCEPT !.draft = draft]
  <2>1. job[p] \in Job /\ job[p].snap \in Profile /\ job[p].role \in Role
    BY DEF IInv, TypeOK, Fits, LoadForRole, LoginPoints, RoleKnown
  <2>2. draft \in Profile
    BY <1>2, <2>1 DEF IInv, TypeOK, ConfigFile, Profile, RoleOrNone
  <2> HIDE DEF draft
  <2>3. j \in Job /\ j.draft = draft /\ j.snap = job[p].snap
        /\ j.creds = job[p].creds /\ j.role = job[p].role
    BY <2>1, <2>2 DEF Job, ConfigFile
  <2>4. job' = [job EXCEPT ![p] = j] /\ pc' = [pc EXCEPT ![p] = "role_save"]
    BY <1>2 DEF LoadForRole, Goto, IInv, TypeOK, draft
  <2> HIDE DEF j
  <2>5. Fits(j, "role_save")
    BY <2>1, <2>2, <2>3 DEF Fits, RoleKnown, LoginPoints, BeforeChoice
  <2>6. LockFollows(p, j, "role_save") /\ "role_save" \in PC
    BY <2>3 DEF LockFollows, GuardedAt, LoadForRole, PC, LoginPoints
  <2> QED
    BY <2>4, <2>5, <2>6, OneMoves DEF LoadForRole, IInv, TypeOK
<1> QED BY <1>1, <1>2

(* Saving the role puts a profile in the file.                             *)
LEMMA SaveRoleKeeps ==
  ASSUME IInv, NEW p \in Procs, SaveRole(p)
  PROVE  IInv'
<1> DEFINE j == [job[p] EXCEPT !.draft = NoProfile]
<1>1. Fits(j, "printing") /\ config' \in ConfigFile /\ j.creds = job[p].creds
  BY SaveFits DEF SaveRole
<1>2. job' = [job EXCEPT ![p] = j] /\ pc' = [pc EXCEPT ![p] = "printing"]
  BY DEF SaveRole, Goto, IInv, TypeOK
<1> HIDE DEF j
<1>3. LockFollows(p, j, "printing") /\ "printing" \in PC
  BY <1>1 DEF LockFollows, GuardedAt, SaveRole, PC, LoginPoints
<1> QED
  BY <1>1, <1>2, <1>3, OneMoves DEF SaveRole, IInv, TypeOK

(* A command that is done has given the lock up.                           *)
LEMMA PrintCredentialsKeeps ==
  ASSUME IInv, NEW p \in Procs, PrintCredentials(p)
  PROVE  IInv'
<1>1. Fits(job[p], "done")
  BY DEF Fits, RoleKnown, LoginPoints, BeforeChoice, IInv
<1>2. job' = [job EXCEPT ![p] = job[p]] /\ pc' = [pc EXCEPT ![p] = "done"]
  BY DEF PrintCredentials, Goto, IInv, TypeOK
<1>3. LockFollows(p, job[p], "done") /\ "done" \in PC
  BY DEF LockFollows, GuardedAt, PrintCredentials, PC
<1> QED
  BY <1>1, <1>2, <1>3, OneMoves DEF PrintCredentials, IInv, TypeOK

(* A failing command gives the lock up; a failing role save goes on.       *)
LEMMA FailsKeeps ==
  ASSUME IInv, NEW p \in Procs, Fails(p)
  PROVE  IInv'
<1>1. CASE pc[p] = "role_save"
  <2>1. Fits(job[p], "printing")
    BY <1>1 DEF Fits, RoleKnown, LoginPoints, BeforeChoice, IInv
  <2>2. job' = [job EXCEPT ![p] = job[p]] /\ pc' = [pc EXCEPT ![p] = "printing"]
        /\ lock' = lock
    BY <1>1 DEF Fails, Goto, IInv, TypeOK
  <2>3. LockFollows(p, job[p], "printing") /\ "printing" \in PC
    BY <1>1, <2>2 DEF LockFollows, GuardedAt, PC, LoginPoints
  <2> QED
    BY <2>1, <2>2, <2>3, OneMoves DEF Fails, IInv, TypeOK
<1>2. CASE pc[p] # "role_save"
  BY <1>2, EndsKeeps DEF Fails, IInv, TypeOK
<1> QED BY <1>1, <1>2

(* The steps of configure and delete-profile never touch the lock.         *)
LEMMA EditKeeps ==
  ASSUME IInv, NEW p \in Procs, Edit(p)
  PROVE  IInv'
<1>0. NoJob \in Job /\ job[p] \in Job
  BY NoJobType DEF IInv, TypeOK
<1>1. CASE StartConfigure(p)
  <2> DEFINE j == [NoJob EXCEPT !.snap = config]
  <2>1. Fits(j, "editing")
    BY <1>0 DEF Fits, RoleKnown, LoginPoints, BeforeChoice, Job, IInv, TypeOK
  <2>2. job' = [job EXCEPT ![p] = j] /\ pc' = [pc EXCEPT ![p] = "editing"]
    BY <1>1 DEF StartConfigure, Goto
  <2> HIDE DEF j
  <2>3. LockFollows(p, j, "editing") /\ "editing" \in PC
    BY <1>1 DEF LockFollows, GuardedAt, StartConfigure, PC, EditPoints
  <2> QED
    BY <1>1, <2>1, <2>2, <2>3, OneMoves DEF StartConfigure, IInv, TypeOK
<1>2. ASSUME NEW profile \in Profiles, Configure(p, profile) PROVE IInv'
  <2>1. PICK to \in {"invalidate", "done"} :
          /\ pc' = [pc EXCEPT ![p] = to]
          /\ job' = [job EXCEPT ![p] = NoJob]
    BY <1>2 DEF Configure, Goto
  <2>2. Fits(NoJob, to)
    BY <1>0 DEF Fits, RoleKnown, LoginPoints, BeforeChoice
  <2>3. LockFollows(p, NoJob, to) /\ to \in PC
    BY <1>2 DEF LockFollows, GuardedAt, Configure, PC, EditPoints
  <2>4. config' \in ConfigFile
    BY <1>2 DEF Configure, ConfigFile
  <2> QED
    BY <1>2, <2>1, <2>2, <2>3, <2>4, OneMoves DEF Configure, IInv, TypeOK
<1>3. CASE InvalidateCredentials(p) \/ WipeProfile(p)
  <2>1. Fits(job[p], "done")
    BY <1>0 DEF Fits, RoleKnown, LoginPoints, BeforeChoice
  <2>2. job' = [job EXCEPT ![p] = job[p]] /\ pc' = [pc EXCEPT ![p] = "done"]
    BY <1>3 DEF InvalidateCredentials, WipeProfile, Goto, IInv, TypeOK
  <2>3. LockFollows(p, job[p], "done") /\ "done" \in PC
    BY <1>3 DEF LockFollows, GuardedAt, InvalidateCredentials, WipeProfile, PC
  <2>4. keyring' \in Store /\ cache' \in [Procs -> Store] /\ config' = config
    BY <1>3 DEF InvalidateCredentials, WipeProfile, IInv, TypeOK, Store
  <2> QED
    BY <2>1, <2>2, <2>3, <2>4, OneMoves DEF IInv, TypeOK
<1>4. CASE StartDelete(p) \/ DeleteProfile(p)
  <2>1. PICK to \in {"deleting", "wiping"} :
          /\ pc' = [pc EXCEPT ![p] = to]
          /\ job' = [job EXCEPT ![p] = job[p]]
    BY <1>4 DEF StartDelete, DeleteProfile, Goto, IInv, TypeOK
  <2>2. Fits(job[p], to)
    BY <1>0 DEF Fits, RoleKnown, LoginPoints, BeforeChoice
  <2>3. LockFollows(p, job[p], to) /\ to \in PC
    BY <1>4 DEF LockFollows, GuardedAt, StartDelete, DeleteProfile, PC, EditPoints
  <2>4. config' \in ConfigFile
    BY <1>4 DEF StartDelete, DeleteProfile, ConfigFile, IInv, TypeOK
  <2> QED
    BY <1>4, <2>1, <2>2, <2>3, <2>4, OneMoves DEF StartDelete, DeleteProfile, IInv, TypeOK
<1> QED BY <1>1, <1>2, <1>3, <1>4 DEF Edit

(* A dead process holds no lock.                                           *)
LEMMA ExitKeeps ==
  ASSUME IInv, NEW p \in Procs, Exit(p) \/ Crash(p)
  PROVE  IInv'
<1>1. Fits(NoJob, "idle")
  BY NoJobType DEF Fits, RoleKnown, LoginPoints, BeforeChoice
<1>2. job' = [job EXCEPT ![p] = NoJob] /\ pc' = [pc EXCEPT ![p] = "idle"]
      /\ cache' = [cache EXCEPT ![p] = NoEntry]
  BY DEF Exit, Crash, Exits
<1>3. LockFollows(p, NoJob, "idle") /\ "idle" \in PC
  BY DEF LockFollows, GuardedAt, Exit, Crash, Release, PC
<1>4. cache' \in [Procs -> Store]
  BY <1>2 DEF IInv, TypeOK, Store
<1> QED
  BY <1>1, <1>2, <1>3, <1>4, OneMoves DEF Exit, Crash, IInv, TypeOK

(* Neither time nor clear-cache concerns the lock.                         *)
LEMMA SurroundingsKeep == ASSUME IInv, ClearCache \/ Tick PROVE IInv'
<1>1. CASE ClearCache
  BY <1>1, StoreStepKeeps DEF ClearCache, IInv, TypeOK, Store
<1>2. CASE Tick
  <2>1. keyring' \in Store /\ cache' \in [Procs -> Store]
    BY <1>2, AgedType DEF Tick, IInv, TypeOK
  <2> QED BY <1>2, <2>1, StoreStepKeeps DEF Tick
<1> QED BY <1>1, <1>2

----------------------------------------------------------------------------
(* The invariant holds of every behaviour.                                 *)

(* It holds initially ...                                                  *)
LEMMA InitIInv == Init => IInv
<1> SUFFICES ASSUME Init PROVE IInv
  OBVIOUS
<1>1. TypeOK
  BY NoJobType DEF Init, TypeOK, PC, ConfigFile, Store
<1>2. LockDiscipline
  BY DEF Init, LockDiscipline, Guarded
<1>3. ASSUME NEW p \in Procs PROVE Fits(job[p], pc[p])
  BY NoJobType DEF Init, Fits, LoginPoints, RoleKnown, BeforeChoice
<1> QED BY <1>1, <1>2, <1>3 DEF IInv

(* ... and every step keeps it.                                            *)
LEMMA NextIInv == IInv /\ [Next]_vars => IInv'
<1> SUFFICES ASSUME IInv, [Next]_vars PROVE IInv'
  OBVIOUS
<1>1. CASE UNCHANGED vars
  BY <1>1, StoreStepKeeps DEF vars, IInv, TypeOK
<1>2. ASSUME NEW p \in Procs, NEW r \in Requests, Start(p, r) PROVE IInv'
  BY <1>2, StartKeeps
<1>3. ASSUME NEW p \in Procs, Program(p) PROVE IInv'
  BY <1>3, LookupKeeps, SaveRememberMeKeeps, AcquireKeeps, GiveUpKeeps,
     RecheckKeeps, SignedInKeeps, RecheckPickedKeeps, ExchangeKeeps,
     LoadForRoleKeeps, SaveRoleKeeps, PrintCredentialsKeeps DEF Program
<1>4. ASSUME NEW p \in Procs, Human(p) PROVE IInv'
  BY <1>4, AnswerRememberMeKeeps, PickRoleKeeps DEF Human
<1>5. ASSUME NEW p \in Procs, Fails(p) \/ Exit(p) \/ Crash(p) PROVE IInv'
  BY <1>5, FailsKeeps, ExitKeeps
<1> QED
  BY <1>1, <1>2, <1>3, <1>4, <1>5, EditKeeps, SurroundingsKeep DEF Next

(* The inductive invariant holds in every reachable state.                 *)
THEOREM Invariance == Spec => []IInv
BY InitIInv, NextIInv, PTL DEF Spec

(* Every variable keeps its type: no step of a command applies a profile   *)
(* field to a profile that is gone, or stores what is not credentials.     *)
THEOREM TypeCorrect == Spec => []TypeOK
<1>1. IInv => TypeOK
  BY DEF IInv
<1> QED BY <1>1, Invariance, PTL

(* The guard is held exactly where its comment says, on every path through *)
(* login and credential-process, error returns and crashes included.       *)
THEOREM LockHeld == Spec => []LockDiscipline
<1>1. IInv => LockDiscipline
  BY DEF IInv
<1> QED BY <1>1, Invariance, PTL

(* Two sign-ins never run at once, since both processes would hold the     *)
(* one lock.                                                               *)
THEOREM OneBrowser == Spec => []OneBrowserAtATime
<1>1. IInv => OneBrowserAtATime
  BY DEF IInv, LockDiscipline, Guarded, OneBrowserAtATime
<1> QED BY <1>1, Invariance, PTL

----------------------------------------------------------------------------
(* The store.                                                              *)

(* The holder of the lock stores what it was issued.                       *)
Stores(p) ==
  /\ lock = p
  /\ pc[p] = "exchange"
  /\ job[p].creds = "Profile"
  /\ keyring' = Minted(job[p])

(* How a step may change the keyring: not at all, by erasing it, by time   *)
(* passing, or by the holder of the lock.                                  *)
LEMMA KeyringMoves ==
  ASSUME IInv, [Next]_vars
  PROVE  \/ keyring' \in {keyring, NoEntry, Aged(keyring)}
         \/ \E p \in Procs : Stores(p)
<1>1. CASE UNCHANGED vars
  BY <1>1 DEF vars
<1>2. ASSUME NEW p \in Procs, NEW r \in Requests, Start(p, r) PROVE keyring' = keyring
  BY <1>2 DEF Start
<1>3. ASSUME NEW p \in Procs, Program(p)
      PROVE  keyring' = keyring \/ Stores(p)
  <2>1. ASSUME NEW stored \in BOOLEAN, Exchange(p, stored)
        PROVE  keyring' = keyring \/ Stores(p)
    BY <2>1 DEF Exchange, Stores, IInv, LockDiscipline, Guarded
  <2> QED
    BY <1>3, <2>1 DEF Program, Lookup, SaveRememberMe, Acquire, GiveUp, Recheck,
       SignedIn, RecheckPicked, LoadForRole, SaveRole, PrintCredentials
<1>4. ASSUME NEW p \in Procs, Human(p) PROVE keyring' = keyring
  BY <1>4 DEF Human, AnswerRememberMe, PickRole
<1>5. ASSUME NEW p \in Editors, Edit(p) PROVE keyring' \in {keyring, NoEntry}
  BY <1>5 DEF Edit, StartConfigure, Configure, InvalidateCredentials, StartDelete,
     DeleteProfile, WipeProfile
<1>6. ASSUME NEW p \in Procs, Fails(p) \/ Exit(p) \/ Crash(p) PROVE keyring' = keyring
  BY <1>6 DEF Fails, Exit, Crash
<1>7. CASE ClearCache \/ Tick
  BY <1>7 DEF ClearCache, Tick
<1> QED
  BY <1>1, <1>2, <1>3, <1>4, <1>5, <1>6, <1>7 DEF Next

(* New credentials are stored by the holder of the lock only.              *)
THEOREM HolderStores == Spec => OnlyHolderStores
<1> DEFINE New == keyring' # keyring /\ keyring' # NoEntry /\ keyring' # Aged(keyring)
           ByHolder == \E p \in Procs : lock = p /\ pc[p] = "exchange"
<1>1. IInv /\ [Next]_vars => [New => ByHolder]_vars
  BY KeyringMoves DEF Stores
<1> QED BY <1>1, Invariance, PTL DEF Spec, OnlyHolderStores

(* Ageing, minting and reading keep entries filed under their identity.    *)
LEMMA TruthfulData ==
  /\ Truthful(NoEntry)
  /\ \A e \in Store : Truthful(e) => Truthful(Aged(e))
  /\ \A j : Truthful(Minted(j))
<1>1. Truthful(NoEntry) /\ \A j : Truthful(Minted(j))
  BY DEF Truthful, Minted
<1>2. ASSUME NEW e \in Store, Truthful(e) PROVE Truthful(Aged(e))
  <2>1. CASE e = NoEntry \/ e.cred.left = 0
    BY <1>2, <2>1 DEF Aged
  <2>2. CASE e # NoEntry /\ e.cred.left # 0
    <3>1. e \in Entry
      BY <2>2 DEF Store
    <3>2. /\ Aged(e).tag = e.tag
          /\ Aged(e).cred.app = e.cred.app
          /\ Aged(e).cred.role = e.cred.role
      BY <2>2, <3>1 DEF Aged, Entry, Credentials
    <3> QED BY <1>2, <2>2, <3>2 DEF Truthful
  <2> QED BY <2>1, <2>2
<1> QED BY <1>1, <1>2

(* What a look at the store returns was in it.                             *)
LEMMA TruthfulLoad ==
  ASSUME IInv, StoredUnderOwnIdentity, NEW p \in Procs, NEW identity
  PROVE  Truthful(Promoted(cache[p], Load(p, identity)))
BY DEF StoredUnderOwnIdentity, Promoted, Load, TryLoad

(* How a step may change a process's cache.                                *)
LEMMA CacheMoves ==
  ASSUME IInv, [Next]_vars, NEW q \in Procs
  PROVE  \/ cache'[q] \in {cache[q], NoEntry, Aged(cache[q]), Minted(job[q])}
         \/ \E identity : cache'[q] = Promoted(cache[q], Load(q, identity))
<1>1. CASE UNCHANGED vars
  BY <1>1 DEF vars
<1>2. ASSUME NEW p \in Procs, NEW r \in Requests, Start(p, r) PROVE cache' = cache
  BY <1>2 DEF Start
<1>3. ASSUME NEW p \in Procs, Program(p)
      PROVE  \/ cache' = cache
             \/ cache' = [cache EXCEPT ![p] = Minted(job[p])]
             \/ \E identity : cache' = [cache EXCEPT ![p] = Promoted(@, Load(p, identity))]
  <2>1. ASSUME NEW stored \in BOOLEAN, Exchange(p, stored)
        PROVE  \/ cache' = cache
               \/ cache' = [cache EXCEPT ![p] = Minted(job[p])]
    BY <2>1 DEF Exchange
  <2>2. CASE Lookup(p) \/ Recheck(p) \/ RecheckPicked(p)
    BY <2>2 DEF Lookup, Recheck, RecheckPicked
  <2> QED
    BY <1>3, <2>1, <2>2 DEF Program, SaveRememberMe, Acquire, GiveUp,
       SignedIn, LoadForRole, SaveRole, PrintCredentials
<1>4. ASSUME NEW p \in Procs, Human(p) PROVE cache' = cache
  BY <1>4 DEF Human, AnswerRememberMe, PickRole
<1>5. ASSUME NEW p \in Editors, Edit(p)
      PROVE  cache' \in {cache, [cache EXCEPT ![p] = NoEntry]}
  BY <1>5 DEF Edit, StartConfigure, Configure, InvalidateCredentials, StartDelete,
     DeleteProfile, WipeProfile
<1>6. ASSUME NEW p \in Procs, Fails(p) \/ Exit(p) \/ Crash(p)
      PROVE  cache' \in {cache, [cache EXCEPT ![p] = NoEntry]}
  BY <1>6 DEF Fails, Exit, Crash, Exits
<1>7. CASE ClearCache \/ Tick
  BY <1>7 DEF ClearCache, Tick
<1>8. cache \in [Procs -> Store]
  BY DEF IInv, TypeOK
<1> QED
  BY <1>1, <1>2, <1>3, <1>4, <1>5, <1>6, <1>7, <1>8 DEF Next

(* Keyring and caches never hold credentials under another identity than   *)
(* the one STS issued them for.                                            *)
THEOREM StoredTruthfully == Spec => []StoredUnderOwnIdentity
<1>1. Init => StoredUnderOwnIdentity
  BY TruthfulData DEF Init, StoredUnderOwnIdentity
<1>2. IInv /\ StoredUnderOwnIdentity /\ [Next]_vars => StoredUnderOwnIdentity'
  <2> SUFFICES ASSUME IInv, StoredUnderOwnIdentity, [Next]_vars
               PROVE  StoredUnderOwnIdentity'
    OBVIOUS
  <2>1. keyring \in Store /\ \A p \in Procs : cache[p] \in Store
    BY DEF IInv, TypeOK
  <2>2. Truthful(keyring')
    BY <2>1, KeyringMoves, TruthfulData DEF Stores, StoredUnderOwnIdentity
  <2>3. ASSUME NEW q \in Procs PROVE Truthful(cache'[q])
    BY <2>1, CacheMoves, TruthfulLoad, TruthfulData DEF StoredUnderOwnIdentity
  <2>4. Truthful(keyring)' /\ \A q \in Procs : Truthful(cache[q])'
    BY <2>2, <2>3 DEF Truthful
  <2> QED BY <2>4 DEF StoredUnderOwnIdentity
<1> QED BY <1>1, <1>2, Invariance, PTL DEF Spec

----------------------------------------------------------------------------
(* The re-check under the lock is conclusive.                              *)

(* Who comes to the browser comes from the re-check, and found nothing.    *)
LEMMA BrowserMoves ==
  ASSUME IInv, [Next]_vars, NEW q \in Procs, pc'[q] = "browser"
  PROVE  \/ pc[q] = "browser" /\ job'[q] = job[q]
         \/ /\ Load(q, ConfiguredIdentity(job[q])) = NoEntry
            /\ job'[q] = job[q] /\ keyring' = keyring
<1>0. pc \in [Procs -> PC] /\ job \in [Procs -> Job]
  BY DEF IInv, TypeOK
<1>1. CASE UNCHANGED <<pc, job>>
  BY <1>1
<1>2. ASSUME NEW p \in Procs, NEW r \in Requests, Start(p, r)
      PROVE  pc[q] = "browser" /\ job'[q] = job[q]
  BY <1>0, <1>2 DEF Start, Goto
<1>3. ASSUME NEW p \in Procs, Program(p)
      PROVE  \/ pc[q] = "browser" /\ job'[q] = job[q]
             \/ /\ Load(q, ConfiguredIdentity(job[q])) = NoEntry
                /\ job'[q] = job[q] /\ keyring' = keyring
  <2>1. CASE Recheck(p)
    BY <1>0, <2>1 DEF Recheck, Goto, EndsWithout
  <2>2. ASSUME NEW roles \in SUBSET Role, SignedIn(p, roles)
        PROVE  pc[q] = "browser" /\ job'[q] = job[q]
    BY <1>0, <2>2 DEF SignedIn, Goto, EndsWithout
  <2>3. ASSUME NEW stored \in BOOLEAN, Exchange(p, stored)
        PROVE  pc[q] = "browser" /\ job'[q] = job[q]
    BY <1>0, <2>3 DEF Exchange, Goto, EndsWithout
  <2>4. CASE RecheckPicked(p)
    BY <1>0, <2>4 DEF RecheckPicked, Goto, EndsWithout
  <2>5. CASE Lookup(p) \/ SaveRememberMe(p) \/ Acquire(p) \/ GiveUp(p)
    BY <1>0, <2>5 DEF Lookup, SaveRememberMe, Acquire, GiveUp, Goto, EndsWithout
  <2>6. CASE LoadForRole(p) \/ SaveRole(p) \/ PrintCredentials(p)
    BY <1>0, <2>6 DEF LoadForRole, SaveRole, PrintCredentials, Goto
  <2> QED BY <1>3, <2>1, <2>2, <2>3, <2>4, <2>5, <2>6 DEF Program
<1>4. ASSUME NEW p \in Procs, Human(p)
      PROVE  pc[q] = "browser" /\ job'[q] = job[q]
  BY <1>0, <1>4 DEF Human, AnswerRememberMe, PickRole, AfterPick, Goto
<1>5. ASSUME NEW p \in Procs, Edit(p)
      PROVE  pc[q] = "browser" /\ job'[q] = job[q]
  BY <1>0, <1>5 DEF Edit, StartConfigure, Configure, InvalidateCredentials,
     StartDelete, DeleteProfile, WipeProfile, Goto
<1>6. ASSUME NEW p \in Procs, Fails(p) \/ Exit(p) \/ Crash(p)
      PROVE  pc[q] = "browser" /\ job'[q] = job[q]
  BY <1>0, <1>6 DEF Fails, Exit, Crash, Exits, Goto, EndsWithout
<1> QED
  BY <1>1, <1>2, <1>3, <1>4, <1>5, <1>6 DEF Next, ClearCache, Tick, vars

(* No unforced call signs in while the keyring holds what it needs: no     *)
(* entry that would serve it can appear while it holds the lock.           *)
THEOREM BrowserNeeded == Spec => []NoNeedlessBrowser
<1>1. Init => NoNeedlessBrowser
  BY DEF Init, NoNeedlessBrowser
<1>2. IInv /\ NoNeedlessBrowser /\ [Next]_vars => NoNeedlessBrowser'
  <2> SUFFICES ASSUME IInv, NoNeedlessBrowser, [Next]_vars, NEW q \in Procs,
                      pc'[q] = "browser",
                      ~RefreshRequested(job'[q].req),
                      ForLogin(job'[q].req) = "Profile"
               PROVE  ~Usable(keyring', ConfiguredIdentity(job'[q]))
    BY DEF NoNeedlessBrowser, Forced, Usable, ConfiguredIdentity
  <2> DEFINE identity == ConfiguredIdentity(job[q])
  <2>1. job'[q] = job[q]
    BY BrowserMoves
  <2>2. CASE pc[q] = "browser"
    <3>1. ~Usable(keyring, identity)
      BY <2>1, <2>2 DEF NoNeedlessBrowser, Forced
    <3>2. ~ \E p \in Procs : Stores(p)
      BY <2>2 DEF Stores, IInv, LockDiscipline, Guarded
    <3>3. keyring' \in {keyring, NoEntry, Aged(keyring)}
      BY <3>2, KeyringMoves
    <3>4. ~Usable(NoEntry, identity)
      BY DEF Usable
    <3>5. ~Usable(Aged(keyring), identity)
      <4>1. CASE keyring = NoEntry \/ keyring.cred.left = 0
        BY <3>1, <4>1 DEF Aged
      <4>2. CASE keyring # NoEntry /\ keyring.cred.left # 0
        <5>1. keyring \in Entry
          BY <4>2 DEF IInv, TypeOK, Store
        <5>2. /\ Aged(keyring).tag = keyring.tag
              /\ Aged(keyring).cred.left = keyring.cred.left - 1
          BY <4>2, <5>1 DEF Aged, Entry, Credentials
        <5>3. keyring.cred.left \in Nat /\ RefreshBuffer \in Int
          BY <5>1 DEF Entry, Credentials, RefreshBuffer
        <5> QED
          BY <3>1, <4>2, <5>2, <5>3 DEF Usable, IsFresh
      <4> QED BY <4>1, <4>2
    <3> QED BY <2>1, <3>1, <3>3, <3>4, <3>5
  <2>3. CASE pc[q] # "browser"
    <3>1. Load(q, identity) = NoEntry /\ keyring' = keyring
      BY <2>3, BrowserMoves
    <3>2. Usable(keyring, identity) => keyring # NoEntry
      BY DEF Usable
    <3>3. Usable(cache[q], identity) => cache[q] # NoEntry
      BY DEF Usable
    <3> QED BY <2>1, <3>1, <3>2, <3>3 DEF Load, TryLoad
  <2> QED BY <2>2, <2>3
<1> QED BY <1>1, <1>2, Invariance, PTL DEF Spec

----------------------------------------------------------------------------
(* The commands implement the promise of the lock.                         *)

Signing == {p \in Procs : pc[p] = "browser"}

(* A step of one process that leaves the keyring alone and treats the lock *)
(* as LockFollows says, or keeps its browser open, keeps the promise.      *)
LEMMA MoveKeepsPromise ==
  ASSUME IInv, NEW p \in Procs, NEW to, NEW j,
         pc' = [pc EXCEPT ![p] = to],
         keyring' = keyring,
         \/ lock' = lock /\ (to = "browser" => lock = p)
              /\ (pc[p] = "browser" => to = "browser")
         \/ lock = NoProc /\ lock' = p /\ to # "browser" /\ pc[p] # "browser"
         \/ Release(p) /\ to # "browser"
  PROVE  [Promise!SNext]_(Promise!svars)
<1>0. Signing' = (IF to = "browser" THEN Signing \cup {p} ELSE Signing \ {p})
  BY DEF Signing, IInv, TypeOK
<1>1. pc[p] = "browser" => lock = p /\ p \in Signing
  BY DEF IInv, LockDiscipline, Guarded, Signing
<1>2. CASE to = "browser"
  <2>1. lock = p /\ lock' = lock /\ Signing' = Signing \cup {p}
    BY <1>0, <1>2
  <2> QED BY <2>1 DEF Promise!SNext, Promise!OpenBrowser, Signing
<1>3. CASE to # "browser" /\ pc[p] = "browser"
  <2>1. lock = p /\ p \in Signing /\ lock' \in {p, NoProc} /\ Signing' = Signing \ {p}
    BY <1>0, <1>1, <1>3 DEF Release
  <2> QED BY <2>1 DEF Promise!SNext, Promise!CloseBrowser, Signing
<1>4. CASE to # "browser" /\ pc[p] # "browser"
  <2>1. Signing' = Signing /\ p \notin Signing
    BY <1>0, <1>4 DEF Signing
  <2>2. CASE lock' = lock
    BY <2>1, <2>2 DEF Promise!svars, Signing
  <2>3. CASE lock = NoProc /\ lock' = p
    BY <2>1, <2>3 DEF Promise!SNext, Promise!Take, Signing
  <2>4. CASE lock = p /\ lock' = NoProc
    BY <2>1, <2>4 DEF Promise!SNext, Promise!Leave, Signing
  <2> QED BY <1>4, <2>2, <2>3, <2>4 DEF Release
<1> QED BY <1>2, <1>3, <1>4

(* So does a step that moves nobody's browser and no lock, and erases or   *)
(* ages what is stored.                                                    *)
LEMMA StoreKeepsPromise ==
  ASSUME UNCHANGED lock, Signing' = Signing,
         keyring' \in {keyring, NoEntry, Aged(keyring)}
  PROVE  [Promise!SNext]_(Promise!svars)
BY DEF Promise!SNext, Promise!Erase, Promise!Age, Promise!Aged, Aged,
   Promise!svars, Signing

(* The steps of one command map to steps of the promise, or to none.       *)
LEMMA ProgramKeepsPromise ==
  ASSUME IInv, NEW p \in Procs, Program(p)
  PROVE  [Promise!SNext]_(Promise!svars)
<1>1. CASE Lookup(p) \/ SaveRememberMe(p) \/ LoadForRole(p) \/ SaveRole(p)
  <2>1. PICK to : pc' = [pc EXCEPT ![p] = to] /\ to # "browser"
    BY <1>1 DEF Lookup, SaveRememberMe, LoadForRole, SaveRole, Goto
  <2> QED
    BY <1>1, <2>1, MoveKeepsPromise DEF Lookup, SaveRememberMe, LoadForRole, SaveRole
<1>2. CASE Acquire(p)
  <2>1. PICK to : pc' = [pc EXCEPT ![p] = to] /\ to # "browser"
    BY <1>2 DEF Acquire, Goto
  <2> QED BY <1>2, <2>1, MoveKeepsPromise DEF Acquire
<1>3. CASE GiveUp(p)
  BY <1>3, MoveKeepsPromise DEF GiveUp, EndsWithout, Goto
<1>4. CASE Recheck(p)
  <2>1. PICK to :
          /\ pc' = [pc EXCEPT ![p] = to]
          /\ \/ lock' = lock
             \/ Release(p) /\ to # "browser"
    BY <1>4 DEF Recheck, EndsWithout, Goto
  <2>2. lock = p /\ pc[p] = "locked" /\ keyring' = keyring
    BY <1>4 DEF Recheck, IInv, LockDiscipline, Guarded
  <2> QED BY <2>1, <2>2, MoveKeepsPromise
<1>5. ASSUME NEW roles \in SUBSET Role, SignedIn(p, roles)
      PROVE  [Promise!SNext]_(Promise!svars)
  <2>1. lock = p /\ pc[p] = "browser" /\ keyring' = keyring
    BY <1>5 DEF SignedIn, IInv, LockDiscipline, Guarded
  <2>2. PICK to : pc' = [pc EXCEPT ![p] = to] /\ to # "browser" /\ lock' \in {p, NoProc}
    BY <1>5, <2>1 DEF SignedIn, EndsWithout, Goto, Release
  <2>3. p \in Signing /\ Signing' = Signing \ {p}
    BY <2>1, <2>2 DEF Signing, IInv, TypeOK
  <2> QED BY <2>1, <2>2, <2>3 DEF Promise!SNext, Promise!CloseBrowser, Signing
<1>6. CASE RecheckPicked(p)
  <2>1. PICK to : /\ pc' = [pc EXCEPT ![p] = to] /\ to # "browser"
                  /\ lock' = lock \/ Release(p)
    BY <1>6 DEF RecheckPicked, EndsWithout, Goto
  <2> QED BY <1>6, <2>1, MoveKeepsPromise DEF RecheckPicked
<1>7. ASSUME NEW stored \in BOOLEAN, Exchange(p, stored)
      PROVE  [Promise!SNext]_(Promise!svars)
  <2>1. PICK to : /\ pc' = [pc EXCEPT ![p] = to] /\ to # "browser"
                  /\ IF stored THEN lock' = lock ELSE Release(p)
    BY <1>7 DEF Exchange, EndsWithout, Goto
  <2>2. pc[p] = "exchange"
    BY <1>7 DEF Exchange
  <2>3. CASE stored /\ job[p].creds = "Profile"
    <3>1. keyring' = Minted(job[p]) /\ lock = p
      BY <1>7, <2>3 DEF Exchange, IInv, LockDiscipline, Guarded
    <3>2. keyring' \in Entry
      BY <3>1, <2>2, MintedType DEF IInv, TypeOK, Fits, RoleKnown, LoginPoints
    <3>3. Truthful(keyring')
      BY <3>1, TruthfulData
    <3>4. Signing' = Signing /\ p \notin Signing
      BY <2>1, <2>2 DEF Signing, IInv, TypeOK
    <3>5. Promise!Truthful(keyring')
      BY <3>3 DEF Promise!Truthful, Truthful, Promise!CredentialIdentity, CredentialIdentity
    <3>6. keyring' \in Promise!Entry
      BY <3>2 DEF Promise!Entry, Entry, Promise!Identity, Identity,
         Promise!Credentials, Credentials, Promise!RoleOrNone, RoleOrNone
    <3> QED
      BY <2>1, <2>3, <3>1, <3>4, <3>5, <3>6 DEF Promise!SNext, Promise!File, Signing
  <2>4. CASE ~(stored /\ job[p].creds = "Profile")
    BY <1>7, <2>1, <2>2, <2>4, MoveKeepsPromise DEF Exchange
  <2> QED BY <2>3, <2>4
<1>8. CASE PrintCredentials(p)
  BY <1>8, MoveKeepsPromise DEF PrintCredentials, Goto
<1> QED BY <1>1, <1>2, <1>3, <1>4, <1>5, <1>6, <1>7, <1>8 DEF Program

(* So does every other step.                                               *)
LEMMA NextKeepsPromise ==
  ASSUME IInv, [Next]_vars
  PROVE  [Promise!SNext]_(Promise!svars)
<1>1. CASE UNCHANGED vars
  BY <1>1, StoreKeepsPromise DEF vars, Signing
<1>2. ASSUME NEW p \in Procs, NEW r \in Requests, Start(p, r)
      PROVE  [Promise!SNext]_(Promise!svars)
  BY <1>2, MoveKeepsPromise DEF Start, Goto
<1>3. ASSUME NEW p \in Procs, Human(p)
      PROVE  [Promise!SNext]_(Promise!svars)
  <2>1. PICK to \in {"waiting", "remember_save", "rewaiting", "exchange"} :
          pc' = [pc EXCEPT ![p] = to]
    <3>1. CASE AnswerRememberMe(p)
      BY <3>1 DEF AnswerRememberMe, Goto
    <3>2. ASSUME NEW role \in Role, NEW yes \in BOOLEAN, PickRole(p, role, yes)
          PROVE  \E to \in {"rewaiting", "exchange"} : pc' = [pc EXCEPT ![p] = to]
      BY <3>2 DEF PickRole, AfterPick, Goto
    <3> QED BY <1>3, <3>1, <3>2 DEF Human
  <2>2. UNCHANGED <<lock, keyring>> /\ pc[p] # "browser"
    BY <1>3 DEF Human, AnswerRememberMe, PickRole
  <2> QED BY <2>1, <2>2, MoveKeepsPromise
<1>4. ASSUME NEW p \in Procs, Edit(p)
      PROVE  [Promise!SNext]_(Promise!svars)
  <2>1. PICK to : pc' = [pc EXCEPT ![p] = to] /\ to # "browser"
    BY <1>4 DEF Edit, StartConfigure, Configure, InvalidateCredentials,
       StartDelete, DeleteProfile, WipeProfile, Goto
  <2>2. lock' = lock /\ pc[p] # "browser" /\ keyring' \in {keyring, NoEntry}
    BY <1>4 DEF Edit, StartConfigure, Configure, InvalidateCredentials,
       StartDelete, DeleteProfile, WipeProfile
  <2>3. Signing' = Signing
    BY <2>1, <2>2 DEF Signing, IInv, TypeOK
  <2> QED BY <2>2, <2>3, StoreKeepsPromise
<1>5. ASSUME NEW p \in Procs, Fails(p) \/ Exit(p) \/ Crash(p)
      PROVE  [Promise!SNext]_(Promise!svars)
  <2>1. PICK to : pc' = [pc EXCEPT ![p] = to] /\ to # "browser"
    BY <1>5 DEF Fails, Exit, Crash, Exits, EndsWithout, Goto
  <2>2. keyring' = keyring
    BY <1>5 DEF Fails, Exit, Crash
  <2>3. \/ lock' = lock /\ pc[p] # "browser"
        \/ Release(p)
    BY <1>5 DEF Fails, Exit, Crash, EndsWithout
  <2> QED BY <2>1, <2>2, <2>3, MoveKeepsPromise
<1>6. CASE ClearCache \/ Tick
  BY <1>6, StoreKeepsPromise DEF ClearCache, Tick, Signing
<1> QED
  BY <1>1, <1>2, <1>3, <1>4, <1>5, <1>6, ProgramKeepsPromise DEF Next

(* In every interleaving, crash and edit the commands keep the promise the *)
(* refresh lock makes: CredentialRefresh implements SingleRefresh.         *)
THEOREM Implements == Spec => KeepsThePromise
<1>1. Init => Promise!SInit
  BY DEF Init, Promise!SInit
<1>2. IInv /\ [Next]_vars => [Promise!SNext]_(Promise!svars)
  BY NextKeepsPromise
<1> QED BY <1>1, <1>2, Invariance, PTL DEF Spec, KeepsThePromise, Promise!SSpec


----------------------------------------------------------------------------
(* A forced call is never answered from the store.                         *)

ForcedInv == \A p \in Procs : job[p].reused => ~Forced(p)

(* From job j to job k: anew, or for the same request.                     *)
JobFollows(j, k) ==
  \/ k.reused = FALSE
  \/ k.req = j.req /\ k.reused = j.reused
  \/ k.req = j.req /\ ~RefreshRequested(j.req)

(* Only an unforced request is ever marked as served from the store.       *)
LEMMA JobMoves ==
  ASSUME IInv, [Next]_vars, NEW q \in Procs
  PROVE  JobFollows(job[q], job'[q])
<1>0. job \in [Procs -> Job]
  BY DEF IInv, TypeOK
<1>1. ASSUME NEW p \in Procs, NEW k, job' = [job EXCEPT ![p] = k], JobFollows(job[p], k)
      PROVE  JobFollows(job[q], job'[q])
  BY <1>0, <1>1 DEF JobFollows
<1>2. CASE UNCHANGED job
  BY <1>2 DEF JobFollows
<1>3. ASSUME NEW p \in Procs, job' = [job EXCEPT ![p] = NoJob]
      PROVE  JobFollows(job[q], job'[q])
  BY <1>1, <1>3 DEF JobFollows, NoJob
<1>4. ASSUME NEW p \in Procs, NEW r \in Requests, Start(p, r)
      PROVE  JobFollows(job[q], job'[q])
  BY <1>0, <1>4 DEF Start, JobFollows, NoJob
<1>5. ASSUME NEW p \in Procs, Program(p)
      PROVE  JobFollows(job[q], job'[q])
  <2>1. CASE Lookup(p)
    <3> DEFINE hit == Load(p, ConfiguredIdentity(job[p]))
    <3>1. hit # NoEntry => ~RefreshRequested(job[p].req)
      BY HitMeansAsked
    <3> QED BY <1>0, <2>1, <3>1 DEF Lookup, JobFollows, Job
  <2>2. CASE Recheck(p)
    <3> DEFINE hit == Load(p, ConfiguredIdentity(job[p]))
               j == [job[p] EXCEPT !.out = Issued(hit), !.reused = TRUE]
    <3>1. hit # NoEntry => JobFollows(job[p], j)
      BY <1>0, HitMeansAsked DEF JobFollows, Job
    <3>2. \/ hit # NoEntry /\ job' = [job EXCEPT ![p] = j]
          \/ job' = [job EXCEPT ![p] = NoJob]
          \/ UNCHANGED job
      BY <1>0, <2>2 DEF Recheck, EndsWithout
    <3> HIDE DEF hit, j
    <3> QED BY <1>1, <1>2, <1>3, <3>1, <3>2
  <2>3. CASE RecheckPicked(p)
    <3> DEFINE hit == Load(p, CredentialIdentity(TargetApp(job[p]), job[p].role))
               j == [job[p] EXCEPT !.out = Issued(hit), !.reused = TRUE]
    <3>1. hit # NoEntry => JobFollows(job[p], j)
      BY <1>0, HitMeansAsked DEF JobFollows, Job
    <3>2. \/ hit # NoEntry /\ job' = [job EXCEPT ![p] = j]
          \/ job' = [job EXCEPT ![p] = NoJob]
          \/ UNCHANGED job
      BY <1>0, <2>3 DEF RecheckPicked, EndsWithout
    <3> HIDE DEF hit, j
    <3> QED BY <1>1, <1>2, <1>3, <3>1, <3>2
  <2>4. ASSUME NEW roles \in SUBSET Role, SignedIn(p, roles)
        PROVE  JobFollows(job[q], job'[q])
    <3> DEFINE r == job[p].req
               requested == RequestedRole(job[p])
               decision == ResolveRole(roles, requested, r.role # NoRole, r.tty)
               policy == ShouldSavePicked(ForLogin(r), requested # NoRole,
                                          decision = "Replace")
               persistence == PersistenceAfterPick(ForLogin(r), policy, FALSE)
               waits == WaitsForHuman(decision, roles)
               only == IF decision = "Use" THEN requested
                       ELSE CHOOSE role \in roles : TRUE
               j == [job[p] EXCEPT !.offered = IF waits THEN roles ELSE {},
                                   !.decision = decision,
                                   !.role = IF waits THEN NoRole ELSE only,
                                   !.creds = persistence.creds,
                                   !.save = persistence.save]
    <3>1. job' = [job EXCEPT ![p] = j] \/ job' = [job EXCEPT ![p] = NoJob]
      BY <1>0, <2>4 DEF SignedIn, EndsWithout
    <3> HIDE DEF decision, persistence, waits, only
    <3>2. JobFollows(job[p], j)
      BY <1>0 DEF JobFollows, Job
    <3> HIDE DEF j
    <3> QED BY <1>1, <1>3, <3>1, <3>2
  <2>5. ASSUME NEW stored \in BOOLEAN, Exchange(p, stored)
        PROVE  JobFollows(job[q], job'[q])
    <3>1. \/ \E o : job' = [job EXCEPT ![p] = [job[p] EXCEPT !.out = o]]
          \/ job' = [job EXCEPT ![p] = NoJob]
      BY <1>0, <2>5 DEF Exchange, EndsWithout
    <3>2. \A o : JobFollows(job[p], [job[p] EXCEPT !.out = o])
      BY <1>0 DEF JobFollows, Job
    <3> QED BY <1>1, <1>3, <3>1, <3>2
  <2>6. CASE SaveRememberMe(p) \/ LoadForRole(p) \/ SaveRole(p)
    BY <1>0, <2>6 DEF SaveRememberMe, LoadForRole, SaveRole, JobFollows, Job
  <2>7. CASE Acquire(p) \/ GiveUp(p) \/ PrintCredentials(p)
    BY <1>2, <1>3, <2>7 DEF Acquire, GiveUp, PrintCredentials, EndsWithout
  <2> QED BY <1>5, <2>1, <2>2, <2>3, <2>4, <2>5, <2>6, <2>7 DEF Program
<1>6. ASSUME NEW p \in Procs, Human(p)
      PROVE  JobFollows(job[q], job'[q])
  <2>1. CASE AnswerRememberMe(p)
    BY <1>0, <2>1 DEF AnswerRememberMe, JobFollows, Job
  <2>2. ASSUME NEW role \in Role, NEW yes \in BOOLEAN, PickRole(p, role, yes)
        PROVE  JobFollows(job[q], job'[q])
    <3> DEFINE r == job[p].req
               policy == ShouldSavePicked(ForLogin(r), RequestedRole(job[p]) # NoRole,
                                          job[p].decision = "Replace")
               persistence == PersistenceAfterPick(ForLogin(r), policy, yes)
               j == [job[p] EXCEPT !.role = role, !.offered = {},
                                   !.creds = persistence.creds,
                                   !.save = persistence.save]
    <3>1. job' = [job EXCEPT ![p] = j]
      BY <1>0, <2>2 DEF PickRole
    <3> HIDE DEF persistence
    <3>2. JobFollows(job[p], j)
      BY <1>0 DEF JobFollows, Job
    <3> HIDE DEF j
    <3> QED BY <1>1, <3>1, <3>2
  <2> QED BY <1>6, <2>1, <2>2 DEF Human
<1>7. ASSUME NEW p \in Procs, Edit(p)
      PROVE  JobFollows(job[q], job'[q])
  BY <1>0, <1>2, <1>3, <1>7 DEF Edit, StartConfigure, Configure,
     InvalidateCredentials, StartDelete, DeleteProfile, WipeProfile, JobFollows, NoJob
<1>8. ASSUME NEW p \in Procs, Fails(p) \/ Exit(p) \/ Crash(p)
      PROVE  JobFollows(job[q], job'[q])
  BY <1>2, <1>3, <1>8 DEF Fails, Exit, Crash, Exits, EndsWithout
<1> QED
  BY <1>2, <1>4, <1>5, <1>6, <1>7, <1>8 DEF Next, ClearCache, Tick, vars

(* --force-refresh, --refresh and --session-duration print credentials     *)
(* that were issued for this very call.                                    *)
THEOREM ForcedIsFresh == Spec => []ForcedMeansFresh
<1>1. Init => ForcedInv
  BY DEF Init, ForcedInv, NoJob
<1>2. IInv /\ ForcedInv /\ [Next]_vars => ForcedInv'
  BY JobMoves DEF ForcedInv, Forced, JobFollows
<1>3. ForcedInv => ForcedMeansFresh
  BY DEF ForcedInv, ForcedMeansFresh
<1> QED BY <1>1, <1>2, <1>3, Invariance, PTL DEF Spec

----------------------------------------------------------------------------
(* What a command has decided.                                             *)

AfterChoice == {"picking", "rewaiting", "relocked", "exchange", "role_load",
                "role_save"}

(* The credentials the job will print are the ones it was asked for.       *)
Right(j) ==
  /\ j.out.app = TargetApp(j)
  /\ j.out.role # NoRole
  /\ j.req.role # NoRole => j.out.role = j.req.role
  /\ j.req.role = NoRole /\ j.decision = "Use" => j.out.role = j.snap.role
  /\ j.decision \in {"Pick", "Replace"} => j.out.role = j.role

(* What a job has decided by the time it comes to a point: only a call     *)
(* that gave no role has one picked, a role is replaced only if one is     *)
(* configured, and what is for this call only is never to be saved.        *)
Chosen(j, at) ==
  /\ at \in BeforeChoice => j.decision = "Use" /\ j.save = FALSE
  /\ at \in AfterChoice =>
       /\ j.decision \in {"Use", "Pick", "Replace"}
       /\ j.decision # "Use" => j.req.role = NoRole
       /\ j.decision = "Replace" => RequestedRole(j) # NoRole
       /\ ForLogin(j.req) = "Request" => j.creds = "Request"
       /\ ForLogin(j.req) = "Request" => j.save = FALSE
  /\ at \in {"picking", "rewaiting", "relocked"} => j.decision # "Use"
  /\ at \in BeforeChoice \cup {"picking", "rewaiting", "relocked"} =>
       j.out = NoOutput
  /\ at \in RoleKnown =>
       /\ j.decision = "Use" => j.role = RequestedRole(j)
       /\ j.decision = "Replace" /\ j.save = FALSE => j.creds = "Request"
  /\ at \in {"role_load", "role_save"} => j.save = TRUE
  /\ j.out # NoOutput => Right(j)

ChosenInv == \A p \in Procs : Chosen(job[p], pc[p])

(* What was decided at a point still holds of a process that stays there.  *)
LEMMA ChosenStays ==
  ASSUME IInv, ChosenInv, UNCHANGED <<pc, job>>
  PROVE  ChosenInv'
BY DEF ChosenInv, Chosen

(* A step of one process leaves the others as they were.                   *)
LEMMA ChosenMoves ==
  ASSUME IInv, ChosenInv, NEW p \in Procs, NEW k, NEW to,
         job' = [job EXCEPT ![p] = k], pc' = [pc EXCEPT ![p] = to],
         Chosen(k, to)
  PROVE  ChosenInv'
<1>1. job'[p] = k /\ pc'[p] = to
  BY DEF IInv, TypeOK
<1>2. ASSUME NEW q \in Procs, q # p PROVE job'[q] = job[q] /\ pc'[q] = pc[q]
  BY <1>2 DEF IInv, TypeOK
<1>3. ASSUME NEW q \in Procs PROVE Chosen(job'[q], pc'[q])
  BY <1>1, <1>2 DEF ChosenInv
<1> QED BY <1>3 DEF ChosenInv, Chosen

(* A command that ends or has not begun has decided nothing.               *)
LEMMA NothingChosen ==
  ASSUME NEW at, at \notin BeforeChoice \cup AfterChoice
  PROVE  Chosen(NoJob, at)
BY DEF Chosen, NoJob, BeforeChoice, AfterChoice, RoleKnown

(* Nor does a command that goes on to its browser, or back to the lock,    *)
(* decide anything.                                                        *)
LEMMA StillChosen ==
  ASSUME NEW j, NEW from, NEW to, Chosen(j, from),
         \/ from \in BeforeChoice /\ to \in BeforeChoice
         \/ from \in {"rewaiting", "relocked"} /\ to \in {"relocked", "exchange"}
         \/ to \notin BeforeChoice \cup AfterChoice
  PROVE  Chosen(j, to)
BY DEF Chosen, BeforeChoice, AfterChoice, RoleKnown

(* Credentials a look at the store returns are for the identity asked for: *)
(* the call is not for this call only, and they are filed truthfully.      *)
LEMMA HitIsRight ==
  ASSUME IInv, StoredUnderOwnIdentity, NEW p \in Procs, NEW identity,
         Load(p, identity) # NoEntry
  PROVE  /\ Issued(Load(p, identity)) = identity
         /\ identity.role \in Role
         /\ job[p].req.role = NoRole /\ job[p].req.app = NoApp
<1> DEFINE hit == Load(p, identity)
<1>1. hit = cache[p] \/ hit = keyring
  BY DEF Load, TryLoad
<1>2. hit.tag = identity
  BY DEF Load, TryLoad, Usable
<1>3. hit \in Entry /\ Truthful(hit)
  BY <1>1, LoadType DEF IInv, StoredUnderOwnIdentity
<1>4. job[p].req.role = NoRole /\ job[p].req.app = NoApp
  BY HitMeansAsked DEF ForLogin
<1> HIDE DEF hit
<1>5. Issued(hit) = identity
  BY <1>2, <1>3 DEF Truthful, Issued, Entry
<1>6. identity.role \in Role
  BY <1>3, <1>5 DEF Issued, CredentialIdentity, Entry, Credentials
<1> QED BY <1>4, <1>5, <1>6 DEF hit

(* So a call served from the store prints what it was asked for: before a  *)
(* role is chosen, for the configured one, after a pick for that one.      *)
LEMMA ServedIsChosen ==
  ASSUME IInv, StoredUnderOwnIdentity, ChosenInv, NEW p \in Procs,
         NEW identity, Load(p, identity) # NoEntry,
         NEW to \in {"done", "printing"},
         \/ pc[p] \in {"lookup", "locked"} /\ identity = ConfiguredIdentity(job[p])
         \/ pc[p] = "relocked"
              /\ identity = CredentialIdentity(TargetApp(job[p]), job[p].role)
  PROVE  Chosen([job[p] EXCEPT !.out = Issued(Load(p, identity)), !.reused = TRUE], to)
<1> DEFINE o == Issued(Load(p, identity))
           j == [job[p] EXCEPT !.out = o, !.reused = TRUE]
<1>1. /\ o = identity
      /\ identity.role \in Role
      /\ job[p].req.role = NoRole /\ job[p].req.app = NoApp
  BY HitIsRight
<1>2. job[p] \in Job /\ Chosen(job[p], pc[p])
  BY DEF IInv, TypeOK, ChosenInv
<1> HIDE DEF o
<1>3. /\ j.out = o /\ j.req = job[p].req /\ j.snap = job[p].snap
      /\ j.decision = job[p].decision /\ j.role = job[p].role
  BY <1>2 DEF Job
<1>4. TargetApp(j) = job[p].snap.app
  BY <1>1, <1>3 DEF TargetApp
<1> HIDE DEF j
<1>5. CASE pc[p] \in {"lookup", "locked"} /\ identity = ConfiguredIdentity(job[p])
  <2>1. o.app = job[p].snap.app /\ o.role = job[p].snap.role
    BY <1>1, <1>5 DEF ConfiguredIdentity, CredentialIdentity
  <2>2. job[p].decision = "Use"
    BY <1>2, <1>5 DEF Chosen, BeforeChoice
  <2>3. Right(j)
    BY <1>1, <1>3, <1>4, <2>1, <2>2 DEF Right
  <2> QED BY <2>3 DEF Chosen, BeforeChoice, AfterChoice, RoleKnown, j, o
<1>6. CASE /\ pc[p] = "relocked"
           /\ identity = CredentialIdentity(TargetApp(job[p]), job[p].role)
  <2>1. o.app = job[p].snap.app /\ o.role = job[p].role
    BY <1>1, <1>6 DEF TargetApp, CredentialIdentity
  <2>2. job[p].decision # "Use"
    BY <1>2, <1>6 DEF Chosen
  <2>3. Right(j)
    BY <1>1, <1>3, <1>4, <2>1, <2>2 DEF Right
  <2> QED BY <2>3 DEF Chosen, BeforeChoice, AfterChoice, RoleKnown, j, o
<1> QED BY <1>5, <1>6

(* The two looks at the store before a browser.                            *)
LEMMA LooksKeepChosen ==
  ASSUME IInv, StoredUnderOwnIdentity, ChosenInv, NEW p \in Procs,
         Lookup(p) \/ Recheck(p)
  PROVE  ChosenInv'
<1> DEFINE hit == Load(p, ConfiguredIdentity(job[p]))
           j == [job[p] EXCEPT !.out = Issued(hit), !.reused = TRUE]
<1>0. job \in [Procs -> Job] /\ pc[p] \in {"lookup", "locked"} /\ Chosen(job[p], pc[p])
  BY DEF IInv, TypeOK, ChosenInv, Lookup, Recheck
<1>1. CASE hit # NoEntry
  <2>1. PICK to \in {"done", "printing"} :
          job' = [job EXCEPT ![p] = j] /\ pc' = [pc EXCEPT ![p] = to]
    BY <1>0, <1>1 DEF Lookup, Recheck, Goto
  <2>2. PICK identity : identity = ConfiguredIdentity(job[p])
    OBVIOUS
  <2>3. Load(p, identity) # NoEntry
    BY <1>1, <2>2
  <2> DEFINE k == [job[p] EXCEPT !.out = Issued(Load(p, identity)), !.reused = TRUE]
  <2>4. Chosen(k, "done") /\ Chosen(k, "printing")
    BY <1>0, <2>2, <2>3, ServedIsChosen
  <2>5. Chosen(j, to)
    BY <2>2, <2>4
  <2> HIDE DEF j
  <2> QED BY <2>1, <2>5, ChosenMoves
<1>2. CASE hit = NoEntry
  <2>1. \/ /\ job' = [job EXCEPT ![p] = NoJob]
           /\ pc' = [pc EXCEPT ![p] = "done"]
        \/ \E to \in BeforeChoice :
             job' = [job EXCEPT ![p] = job[p]] /\ pc' = [pc EXCEPT ![p] = to]
    BY <1>0, <1>2 DEF Lookup, Recheck, EndsWithout, Goto, BeforeChoice
  <2>2. Chosen(NoJob, "done")
    BY NothingChosen DEF BeforeChoice, AfterChoice
  <2>3. \A to \in BeforeChoice : Chosen(job[p], to)
    BY <1>0, StillChosen DEF BeforeChoice
  <2> QED BY <2>1, <2>2, <2>3, ChosenMoves
<1> QED BY <1>1, <1>2

(* The look after a pick.                                                  *)
LEMMA RecheckPickedKeepsChosen ==
  ASSUME IInv, StoredUnderOwnIdentity, ChosenInv, NEW p \in Procs,
         RecheckPicked(p)
  PROVE  ChosenInv'
<1> DEFINE identity == CredentialIdentity(TargetApp(job[p]), job[p].role)
           hit == Load(p, identity)
           j == [job[p] EXCEPT !.out = Issued(hit), !.reused = TRUE]
<1>0. job \in [Procs -> Job] /\ pc[p] = "relocked" /\ Chosen(job[p], pc[p])
  BY DEF IInv, TypeOK, ChosenInv, RecheckPicked
<1>1. \/ /\ job' = [job EXCEPT ![p] = NoJob]
         /\ pc' = [pc EXCEPT ![p] = "done"]
      \/ /\ job' = [job EXCEPT ![p] = job[p]]
         /\ pc' = [pc EXCEPT ![p] = "exchange"]
      \/ /\ hit # NoEntry
         /\ job' = [job EXCEPT ![p] = j]
         /\ pc' = [pc EXCEPT ![p] = "printing"]
  BY <1>0 DEF RecheckPicked, EndsWithout, Goto
<1>2. Chosen(NoJob, "done")
  BY NothingChosen DEF BeforeChoice, AfterChoice
<1>3. Chosen(job[p], "exchange")
  BY <1>0, StillChosen
<1>4. hit # NoEntry => Chosen(j, "printing")
  BY <1>0, ServedIsChosen
<1> HIDE DEF j, hit
<1> QED BY <1>1, <1>2, <1>3, <1>4, ChosenMoves

(* What a login may keep of the role it used or picked.                    *)
LEMMA PersistenceChosen ==
  ASSUME NEW scope \in Scope, NEW supplied \in BOOLEAN,
         NEW fellBack \in BOOLEAN, NEW yes \in BOOLEAN
  PROVE  LET policy == ShouldSavePicked(scope, supplied, fellBack)
             persistence == PersistenceAfterPick(scope, policy, yes)
         IN  /\ scope = "Request" => persistence.creds = "Request"
             /\ scope = "Request" => persistence.save = FALSE
             /\ supplied /\ fellBack /\ persistence.save = FALSE
                  => persistence.creds = "Request"
<1>1. CASE yes
  BY <1>1 DEF PersistenceAfterPick, ShouldSavePicked, Scope
<1>2. CASE ~yes
  BY <1>2 DEF PersistenceAfterPick, ShouldSavePicked, Scope
<1> QED BY <1>1, <1>2

(* The decision made when the browser returns.                             *)
LEMMA SignedInKeepsChosen ==
  ASSUME IInv, ChosenInv, NEW p \in Procs, NEW roles \in SUBSET Role,
         SignedIn(p, roles)
  PROVE  ChosenInv'
<1> DEFINE r == job[p].req
           requested == RequestedRole(job[p])
           decision == ResolveRole(roles, requested, r.role # NoRole, r.tty)
           policy == ShouldSavePicked(ForLogin(r), requested # NoRole,
                                      decision = "Replace")
           persistence == PersistenceAfterPick(ForLogin(r), policy, FALSE)
           waits == WaitsForHuman(decision, roles)
           fails == \/ decision \in {"Fail", "Unset"}
                    \/ decision = "Pick" /\ roles = {}
           only == IF decision = "Use" THEN requested
                   ELSE CHOOSE role \in roles : TRUE
           offered == IF waits THEN roles ELSE {}
           role == IF waits THEN NoRole ELSE only
           j == [job[p] EXCEPT !.offered = offered, !.decision = decision,
                               !.role = role, !.creds = persistence.creds,
                               !.save = persistence.save]
           to == IF waits THEN "picking" ELSE "exchange"
<1>0. /\ job \in [Procs -> Job] /\ job[p] \in Job
      /\ pc[p] = "browser" /\ Chosen(job[p], pc[p])
  BY DEF IInv, TypeOK, ChosenInv, SignedIn
<1>1. CASE fails
  <2>1. job' = [job EXCEPT ![p] = NoJob] /\ pc' = [pc EXCEPT ![p] = "done"]
    BY <1>1 DEF SignedIn, EndsWithout, Goto
  <2>2. Chosen(NoJob, "done")
    BY NothingChosen DEF BeforeChoice, AfterChoice
  <2> QED BY <2>1, <2>2, ChosenMoves
<1>2. CASE ~fails
  <2>1. job' = [job EXCEPT ![p] = j] /\ pc' = [pc EXCEPT ![p] = to]
    BY <1>0, <1>2 DEF SignedIn, Goto
  <2>2. /\ decision \in {"Use", "Pick", "Replace"}
        /\ decision = "Use" => requested # NoRole
        /\ decision = "Pick" => requested = NoRole
        /\ decision = "Replace" => requested # NoRole /\ r.role = NoRole
    BY <1>2 DEF ResolveRole
  <2>3. decision = "Use" => ~waits
    BY DEF WaitsForHuman
  <2>4. decision = "Replace" => waits
    BY DEF WaitsForHuman
  <2>5. /\ ForLogin(r) = "Request" => persistence.creds = "Request"
        /\ ForLogin(r) = "Request" => persistence.save = FALSE
    <3> HIDE DEF decision, requested
    <3> QED BY PersistenceChosen, ForLoginType
  <2>7. decision # "Use" => r.role = NoRole
    BY <2>2 DEF RequestedRole
  <2>8. decision = "Use" => role = requested
    BY <2>3
  <2> DEFINE creds == persistence.creds
             save == persistence.save
  <2> HIDE DEF decision, persistence, waits, only, offered, role
  <2>9. /\ j.req = r /\ j.snap = job[p].snap /\ j.decision = decision
        /\ j.role = role /\ j.creds = creds /\ j.save = save /\ j.out = job[p].out
    BY <1>0 DEF Job
  <2>10. RequestedRole(j) = requested
    BY <2>9 DEF RequestedRole
  <2>11. job[p].out = NoOutput
    BY <1>0 DEF Chosen, BeforeChoice
  <2> HIDE DEF j, requested
  <2>12. Chosen(j, to)
    BY <2>2, <2>3, <2>4, <2>5, <2>7, <2>8, <2>9, <2>10, <2>11
       DEF Chosen, BeforeChoice, AfterChoice, RoleKnown
  <2> HIDE DEF to
  <2> QED BY <2>1, <2>12, ChosenMoves
<1> QED BY <1>1, <1>2

(* The pick, and whether a replacement is to be saved.                     *)
LEMMA PickRoleKeepsChosen ==
  ASSUME IInv, ChosenInv, NEW p \in Procs, NEW role \in Role,
         NEW yes \in BOOLEAN, PickRole(p, role, yes)
  PROVE  ChosenInv'
<1> DEFINE r == job[p].req
           supplied == RequestedRole(job[p]) # NoRole
           fellBack == job[p].decision = "Replace"
           policy == ShouldSavePicked(ForLogin(r), supplied, fellBack)
           persistence == PersistenceAfterPick(ForLogin(r), policy, yes)
           j == [job[p] EXCEPT !.role = role, !.offered = {},
                               !.creds = persistence.creds,
                               !.save = persistence.save]
           to == AfterPick(persistence.creds)
<1>0. /\ job \in [Procs -> Job] /\ job[p] \in Job
      /\ pc[p] = "picking" /\ Chosen(job[p], pc[p])
  BY DEF IInv, TypeOK, ChosenInv, PickRole
<1>1. job' = [job EXCEPT ![p] = j] /\ pc' = [pc EXCEPT ![p] = to]
  BY <1>0 DEF PickRole, Goto
<1>2. supplied \in BOOLEAN /\ fellBack \in BOOLEAN /\ (fellBack => supplied)
  BY <1>0 DEF Chosen, AfterChoice
<1> HIDE DEF supplied, fellBack
<1>3. /\ ForLogin(r) = "Request" => persistence.creds = "Request"
      /\ ForLogin(r) = "Request" => persistence.save = FALSE
      /\ fellBack /\ persistence.save = FALSE => persistence.creds = "Request"
  <2>1. ForLogin(r) \in Scope
    BY ForLoginType
  <2>2. CASE yes
    BY <1>2, <2>1, <2>2 DEF PersistenceAfterPick, ShouldSavePicked, Scope
  <2>3. CASE ~yes
    BY <1>2, <2>1, <2>3 DEF PersistenceAfterPick, ShouldSavePicked, Scope
  <2> QED BY <2>2, <2>3
<1> HIDE DEF persistence
<1>4. /\ j.req = r /\ j.snap = job[p].snap /\ j.decision = job[p].decision
      /\ j.role = role /\ j.creds = persistence.creds
      /\ j.save = persistence.save /\ j.out = job[p].out
  BY <1>0 DEF Job
<1>5. RequestedRole(j) = RequestedRole(job[p])
  BY <1>4 DEF RequestedRole
<1>6. to \in {"rewaiting", "exchange"}
  BY DEF AfterPick
<1> HIDE DEF j, to
<1>7. Chosen(j, to)
  BY <1>0, <1>3, <1>4, <1>5, <1>6
     DEF Chosen, BeforeChoice, AfterChoice, RoleKnown, fellBack
<1> QED BY <1>1, <1>7, ChosenMoves

(* What STS issues is for the identity the job names, and the role a call  *)
(* used unasked is the one it requested.                                   *)
LEMMA ExchangeKeepsChosen ==
  ASSUME IInv, ChosenInv, NEW p \in Procs, NEW stored \in BOOLEAN,
         Exchange(p, stored)
  PROVE  ChosenInv'
<1> DEFINE o == Issued(Minted(job[p]))
           j == [job[p] EXCEPT !.out = o]
           to == IF job[p].save THEN "role_load" ELSE "printing"
<1>0. /\ job \in [Procs -> Job] /\ job[p] \in Job /\ job[p].role \in Role
      /\ pc[p] = "exchange" /\ Chosen(job[p], pc[p])
  BY DEF IInv, TypeOK, Fits, RoleKnown, ChosenInv, Exchange
<1>1. CASE ~stored
  <2>1. job' = [job EXCEPT ![p] = NoJob] /\ pc' = [pc EXCEPT ![p] = "done"]
    BY <1>1 DEF Exchange, EndsWithout, Goto
  <2>2. Chosen(NoJob, "done")
    BY NothingChosen DEF BeforeChoice, AfterChoice
  <2> QED BY <2>1, <2>2, ChosenMoves
<1>2. CASE stored
  <2>1. job' = [job EXCEPT ![p] = j] /\ pc' = [pc EXCEPT ![p] = to]
    BY <1>0, <1>2 DEF Exchange, Goto
  <2>2. o.app = TargetApp(job[p]) /\ o.role = job[p].role
    BY DEF Issued, Minted, CredentialIdentity
  <2>3. to = "role_load" => job[p].save = TRUE
    <3>1. job[p].save \in BOOLEAN
      BY <1>0 DEF Job
    <3> QED BY <3>1
  <2>4. to \in {"role_load", "printing"}
    OBVIOUS
  <2> HIDE DEF o, to
  <2>5. /\ j.req = job[p].req /\ j.snap = job[p].snap
        /\ j.decision = job[p].decision /\ j.role = job[p].role
        /\ j.creds = job[p].creds /\ j.save = job[p].save /\ j.out = o
    BY <1>0 DEF Job
  <2> HIDE DEF j
  <2>6. RequestedRole(j) = RequestedRole(job[p]) /\ TargetApp(j) = TargetApp(job[p])
    BY <2>5 DEF RequestedRole, TargetApp
  <2>7. /\ job[p].decision \in {"Use", "Pick", "Replace"}
        /\ job[p].decision # "Use" => job[p].req.role = NoRole
        /\ job[p].decision = "Use" => job[p].role = RequestedRole(job[p])
    BY <1>0 DEF Chosen, AfterChoice, RoleKnown
  <2>8. Right(j)
    BY <1>0, <2>2, <2>5, <2>6, <2>7 DEF Right, RequestedRole
  <2>9. Chosen(j, to)
    BY <1>0, <2>3, <2>4, <2>5, <2>6, <2>8
       DEF Chosen, BeforeChoice, AfterChoice, RoleKnown
  <2> QED BY <2>1, <2>9, ChosenMoves
<1> QED BY <1>1, <1>2

(* Drafting and saving a profile changes nothing that was decided.         *)
LEMMA DraftKeepsChosen ==
  ASSUME IInv, ChosenInv, NEW p \in Procs, NEW draft, NEW to,
         job' = [job EXCEPT ![p] = [job[p] EXCEPT !.draft = draft]],
         pc' = [pc EXCEPT ![p] = to],
         \/ pc[p] \in BeforeChoice /\ to \in BeforeChoice
         \/ pc[p] = "role_load" /\ to = "role_save"
         \/ to = "printing"
  PROVE  ChosenInv'
<1> DEFINE j == [job[p] EXCEPT !.draft = draft]
<1>0. job[p] \in Job /\ Chosen(job[p], pc[p])
  BY DEF IInv, TypeOK, ChosenInv
<1>1. /\ j.req = job[p].req /\ j.snap = job[p].snap
      /\ j.decision = job[p].decision /\ j.role = job[p].role
      /\ j.creds = job[p].creds /\ j.save = job[p].save /\ j.out = job[p].out
  BY <1>0 DEF Job
<1>2. job' = [job EXCEPT ![p] = j]
  OBVIOUS
<1> HIDE DEF j
<1>3. /\ RequestedRole(j) = RequestedRole(job[p])
      /\ Right(j) <=> Right(job[p])
  BY <1>1 DEF RequestedRole, TargetApp, Right
<1>4. Chosen(j, to)
  BY <1>0, <1>1, <1>3 DEF Chosen, BeforeChoice, AfterChoice, RoleKnown
<1> QED BY <1>2, <1>4, ChosenMoves

(* Every step of login and credential-process.                             *)
LEMMA CommandKeepsChosen ==
  ASSUME IInv, StoredUnderOwnIdentity, ChosenInv, NEW p \in Procs,
         Program(p) \/ Human(p)
  PROVE  ChosenInv'
<1>0. job \in [Procs -> Job] /\ Chosen(job[p], pc[p])
  BY DEF IInv, TypeOK, ChosenInv
<1>1. CASE Lookup(p) \/ Recheck(p)
  BY <1>1, LooksKeepChosen
<1>2. CASE RecheckPicked(p)
  BY <1>2, RecheckPickedKeepsChosen
<1>3. CASE GiveUp(p)
  <2>1. job' = [job EXCEPT ![p] = NoJob] /\ pc' = [pc EXCEPT ![p] = "done"]
    BY <1>3 DEF GiveUp, EndsWithout, Goto
  <2>2. Chosen(NoJob, "done")
    BY NothingChosen DEF BeforeChoice, AfterChoice
  <2> QED BY <2>1, <2>2, ChosenMoves
<1>4. CASE Acquire(p) \/ PrintCredentials(p)
  <2>1. PICK to \in {"locked", "relocked", "done"} :
          /\ job' = [job EXCEPT ![p] = job[p]] /\ pc' = [pc EXCEPT ![p] = to]
          /\ \/ pc[p] = "waiting" /\ to = "locked"
             \/ pc[p] = "rewaiting" /\ to = "relocked"
             \/ to = "done"
    BY <1>0, <1>4 DEF Acquire, PrintCredentials, Goto
  <2>2. Chosen(job[p], to)
    BY <1>0, <2>1 DEF Chosen, BeforeChoice, AfterChoice, RoleKnown
  <2> QED BY <2>1, <2>2, ChosenMoves
<1>5. CASE SaveRememberMe(p) \/ SaveRole(p)
  <2>1. job' = [job EXCEPT ![p] = [job[p] EXCEPT !.draft = NoProfile]]
    BY <1>0, <1>5 DEF SaveRememberMe, SaveRole
  <2>2. \/ pc[p] \in BeforeChoice /\ pc' = [pc EXCEPT ![p] = "waiting"]
        \/ pc' = [pc EXCEPT ![p] = "printing"]
    BY <1>5 DEF SaveRememberMe, SaveRole, Goto, BeforeChoice
  <2>3. "waiting" \in BeforeChoice
    BY DEF BeforeChoice
  <2> QED BY <2>1, <2>2, <2>3, DraftKeepsChosen
<1>6. CASE LoadForRole(p)
  <2>1. CASE config = NoProfile
    <3>1. job' = [job EXCEPT ![p] = job[p]] /\ pc' = [pc EXCEPT ![p] = "printing"]
      BY <1>0, <1>6, <2>1 DEF LoadForRole, Goto
    <3>2. Chosen(job[p], "printing")
      BY <1>0, StillChosen DEF BeforeChoice, AfterChoice
    <3> QED BY <3>1, <3>2, ChosenMoves
  <2>2. CASE config # NoProfile
    <3>1. PICK draft :
            /\ job' = [job EXCEPT ![p] = [job[p] EXCEPT !.draft = draft]]
            /\ pc[p] = "role_load" /\ pc' = [pc EXCEPT ![p] = "role_save"]
      BY <1>0, <1>6, <2>2 DEF LoadForRole, Goto
    <3> QED BY <3>1, DraftKeepsChosen
  <2> QED BY <2>1, <2>2
<1>7. CASE AnswerRememberMe(p)
  <2>1. CASE config = NoProfile
    <3>1. /\ job' = [job EXCEPT ![p] = job[p]] /\ pc' = [pc EXCEPT ![p] = "waiting"]
          /\ pc[p] = "remember"
      BY <1>0, <1>7, <2>1 DEF AnswerRememberMe, Goto
    <3>2. Chosen(job[p], "waiting")
      BY <1>0, <3>1, StillChosen DEF BeforeChoice
    <3> QED BY <3>1, <3>2, ChosenMoves
  <2>2. CASE config # NoProfile
    <3>1. PICK draft :
            /\ job' = [job EXCEPT ![p] = [job[p] EXCEPT !.draft = draft]]
            /\ pc[p] = "remember" /\ pc' = [pc EXCEPT ![p] = "remember_save"]
      BY <1>0, <1>7, <2>2 DEF AnswerRememberMe, Goto
    <3>2. {"remember", "remember_save"} \subseteq BeforeChoice
      BY DEF BeforeChoice
    <3> QED BY <3>1, <3>2, DraftKeepsChosen
  <2> QED BY <2>1, <2>2
<1> QED
  BY <1>1, <1>2, <1>3, <1>4, <1>5, <1>6, <1>7, SignedInKeepsChosen,
     ExchangeKeepsChosen, PickRoleKeepsChosen DEF Program, Human

(* Every other step: commands start with nothing decided.                  *)
LEMMA OthersKeepChosen ==
  ASSUME IInv, ChosenInv, NEW p \in Procs,
         \/ \E r \in Requests : Start(p, r)
         \/ Edit(p) \/ Fails(p) \/ Exit(p) \/ Crash(p)
  PROVE  ChosenInv'
<1>0. job \in [Procs -> Job] /\ Chosen(job[p], pc[p])
  BY DEF IInv, TypeOK, ChosenInv
<1>1. ASSUME NEW r \in Requests, Start(p, r) PROVE ChosenInv'
  <2> DEFINE j == [NoJob EXCEPT !.req = r, !.snap = config, !.creds = ForLogin(r)]
  <2>1. job' = [job EXCEPT ![p] = j] /\ pc' = [pc EXCEPT ![p] = "lookup"]
    BY <1>1 DEF Start, Goto
  <2>2. Chosen(j, "lookup")
    BY DEF Chosen, NoJob, BeforeChoice, AfterChoice, RoleKnown
  <2> HIDE DEF j
  <2> QED BY <2>1, <2>2, ChosenMoves
<1>2. ASSUME NEW to, to \notin BeforeChoice \cup AfterChoice,
             pc' = [pc EXCEPT ![p] = to],
             job' = job \/ job' = [job EXCEPT ![p] = NoJob]
      PROVE  ChosenInv'
  <2>1. Chosen(NoJob, to) /\ Chosen(job[p], to)
    BY <1>0, <1>2, NothingChosen, StillChosen
  <2>2. job' = [job EXCEPT ![p] = job[p]] \/ job' = [job EXCEPT ![p] = NoJob]
    BY <1>0, <1>2
  <2> QED BY <1>2, <2>1, <2>2, ChosenMoves
<1>3. CASE StartConfigure(p)
  <2> DEFINE j == [NoJob EXCEPT !.snap = config]
  <2>1. job' = [job EXCEPT ![p] = j] /\ pc' = [pc EXCEPT ![p] = "editing"]
    BY <1>3 DEF StartConfigure, Goto
  <2>2. Chosen(j, "editing")
    BY DEF Chosen, NoJob, BeforeChoice, AfterChoice, RoleKnown
  <2> HIDE DEF j
  <2> QED BY <2>1, <2>2, ChosenMoves
<1>4. CASE \/ \E profile \in Profiles : Configure(p, profile)
           \/ InvalidateCredentials(p) \/ StartDelete(p) \/ DeleteProfile(p)
           \/ WipeProfile(p) \/ Fails(p) \/ Exit(p) \/ Crash(p)
  <2>1. PICK to \in {"invalidate", "done", "deleting", "wiping", "printing", "idle"} :
          /\ pc' = [pc EXCEPT ![p] = to]
          /\ job' = job \/ job' = [job EXCEPT ![p] = NoJob]
    BY <1>4 DEF Configure, InvalidateCredentials, StartDelete, DeleteProfile,
       WipeProfile, Fails, EndsWithout, Exit, Crash, Exits, Goto
  <2>2. to \notin BeforeChoice \cup AfterChoice
    BY DEF BeforeChoice, AfterChoice
  <2> QED BY <1>2, <2>1, <2>2
<1> QED BY <1>1, <1>3, <1>4 DEF Edit

(* Every step keeps what was decided.                                      *)
LEMMA NextKeepsChosen ==
  ASSUME IInv, StoredUnderOwnIdentity, ChosenInv, [Next]_vars
  PROVE  ChosenInv'
BY ChosenStays, CommandKeepsChosen, OthersKeepChosen
   DEF Next, vars, ClearCache, Tick

(* What was decided, at every point of every command.                      *)
THEOREM WellChosen == Spec => []ChosenInv
<1>1. Init => ChosenInv
  BY NothingChosen DEF Init, ChosenInv, BeforeChoice, AfterChoice
<1>2. IInv /\ StoredUnderOwnIdentity /\ ChosenInv /\ [Next]_vars => ChosenInv'
  BY NextKeepsChosen
<1> QED BY <1>1, <1>2, Invariance, StoredTruthfully, PTL DEF Spec

(* A command prints credentials for what it was asked, whatever others     *)
(* store, edit or delete while it runs.                                    *)
THEOREM AskedIsPrinted == Spec => []PrintsWhatWasAsked
<1>1. ChosenInv => PrintsWhatWasAsked
  BY DEF ChosenInv, Chosen, Right, PrintsWhatWasAsked
<1> QED BY <1>1, WellChosen, PTL

(* Of the steps of a login for this call only, none but the saving of the  *)
(* remember-me answer touches the keyring or the profile.                  *)
LEMMA ThisCallOnlyMoves ==
  ASSUME IInv, ChosenInv, [Next]_vars, NEW p \in Procs,
         ForThisCallOnly(p), pc'[p] # pc[p]
  PROVE  UNCHANGED <<keyring, config>>
<1>0. /\ pc \in [Procs -> PC] /\ job[p] \in Job /\ Chosen(job[p], pc[p])
      /\ job[p].save \in BOOLEAN
  BY DEF IInv, TypeOK, Job, ChosenInv
<1>1. ASSUME NEW q \in Procs, NEW to, pc' = [pc EXCEPT ![q] = to] PROVE q = p
  BY <1>0, <1>1
<1>2. pc[p] \in LoginPoints /\ pc[p] # "remember_save"
  BY DEF ForThisCallOnly
<1>3. pc[p] = "exchange" => job[p].creds = "Request"
  <2>1. CASE ForLogin(job[p].req) = "Request"
    BY <1>0, <2>1 DEF Chosen, AfterChoice
  <2>2. CASE job[p].decision = "Replace" /\ ~job[p].save
    BY <1>0, <2>2 DEF Chosen, RoleKnown
  <2> QED BY <2>1, <2>2 DEF ForThisCallOnly
<1>4. pc[p] # "role_save"
  <2>1. CASE ForLogin(job[p].req) = "Request"
    BY <1>0, <2>1 DEF Chosen, AfterChoice
  <2>2. CASE job[p].decision = "Replace" /\ ~job[p].save
    BY <1>0, <2>2 DEF Chosen
  <2> QED BY <2>1, <2>2 DEF ForThisCallOnly
<1>5. ASSUME NEW q \in Procs, NEW r \in Requests, Start(q, r)
      PROVE  UNCHANGED <<keyring, config>>
  BY <1>5 DEF Start
<1>6. ASSUME NEW q \in Procs, Program(q)
      PROVE  UNCHANGED <<keyring, config>>
  <2>1. CASE SaveRememberMe(q) \/ SaveRole(q)
    BY <1>1, <1>2, <1>4, <2>1 DEF SaveRememberMe, SaveRole, Goto
  <2>2. ASSUME NEW stored \in BOOLEAN, Exchange(q, stored)
        PROVE  UNCHANGED <<keyring, config>>
    <3>1. q = p
      BY <1>1, <2>2 DEF Exchange, EndsWithout, Goto
    <3> QED BY <1>3, <2>2, <3>1 DEF Exchange
  <2> QED
    BY <1>6, <2>1, <2>2 DEF Program, Lookup, Acquire, GiveUp, Recheck,
       SignedIn, RecheckPicked, LoadForRole, PrintCredentials
<1>7. ASSUME NEW q \in Procs, Human(q)
      PROVE  UNCHANGED <<keyring, config>>
  BY <1>7 DEF Human, AnswerRememberMe, PickRole
<1>8. ASSUME NEW q \in Editors, Edit(q)
      PROVE  UNCHANGED <<keyring, config>>
  <2>1. q = p
    BY <1>1, <1>8 DEF Edit, StartConfigure, Configure, InvalidateCredentials,
       StartDelete, DeleteProfile, WipeProfile, Goto
  <2> QED
    BY <1>2, <1>8, <2>1 DEF Edit, StartConfigure, Configure,
       InvalidateCredentials, StartDelete, DeleteProfile, WipeProfile, LoginPoints
<1>9. ASSUME NEW q \in Procs, Fails(q) \/ Exit(q) \/ Crash(q)
      PROVE  UNCHANGED <<keyring, config>>
  BY <1>9 DEF Fails, Exit, Crash
<1>10. CASE ClearCache \/ Tick \/ UNCHANGED vars
  BY <1>10 DEF ClearCache, Tick, vars
<1> QED BY <1>5, <1>6, <1>7, <1>8, <1>9, <1>10 DEF Next

(* A login for this call only leaves no trace.                             *)
THEOREM NoTrace == Spec => LeavesNoTrace
<1> DEFINE Untouched ==
      \A p \in Procs :
        ForThisCallOnly(p) /\ pc'[p] # pc[p] => UNCHANGED <<keyring, config>>
<1>1. IInv /\ ChosenInv /\ [Next]_vars => [Untouched]_vars
  BY ThisCallOnlyMoves
<1> QED BY <1>1, Invariance, WellChosen, PTL DEF Spec, LeavesNoTrace
=============================================================================
