# A TLA+ development of awzars

awzars signs a user in to AWS through Azure AD: a browser obtains a SAML
assertion, STS turns it into temporary credentials, and the credentials are
kept in the OS keyring for `credential-process` to serve. Every command is a
process of its own. What is hard about the program is what these processes do
to one another through the files and the keyring entries they share, and what
time, expiry, crashes and reboots do to all of them. That is what the modules
here describe.

## 1. Inventory

Paths are relative to `src/` in the repository.

| Component | State it keeps | Operations | Hard part | Correct when |
|---|---|---|---|---|
| Credential refresh (`cli/commands/login.rs`, `credential_process.rs`, `auth/credentials/`) | the advisory lock file `refresh-<profile>.lock` | login, credential-process | several processes, a lock dropped and retaken around a prompt, time-outs, errors at every await | one sign-in at a time, none for nothing; credentials filed and printed under what they were issued for; forced calls fresh; one-off calls leave no trace; nobody hangs on another |
| Credential store (`storage/`, `credential_process/protocol.rs`) | a cache per process, an entry in the OS keyring, an identity tag, an expiry | load, store, clear | stale entries, partial failure between cache and keyring | only fresh credentials of the asked identity are served |
| Role choice (in `login.rs`) | none | resolve, pick, save policy | many combinations | declined roles are neither stored nor saved |
| Session lock (`auth/lock.rs`, `unlock`, `lock`, `set-password`) | `lock_verifier` in the profile; one token file per session scope; a failure counter | gate, mint, read, remove, collect garbage, revoke | files shared by path, recycled session ids, reboots, lost updates | a token opens the gate only as agreed, in its session and boot, for its time, under its lock |
| Configuration (`config/`, `util/atomic_write.rs`) | `config.toml` | load, save (whole file) | read, prompt, write back | no change is lost |
| configure, delete-profile, clear-cache | -- | edits of the above | they take no lock | what they erase stays erased |
| Cookie keystore (`browser/cookie_crypto.rs`) | keys with ids and ages in the keyring; `cookies.enc` | initialise, rotate, retain, encrypt, decrypt | read-modify-write, crash between two stores, boundaries of ages and ids | stored cookies stay readable until retention ends |
| list-roles | -- | a sign-in without the refresh lock | it shares the keystore with a login | as above |
| Browser (`browser/chromium.rs`, `saml_capture.rs`) | a Chromium child, a profile directory, held-back requests | launch, inject cookies, intercept, abort, close | a failure at any point of the capture, a page that outlives it | the SAML POST whose response is used never reaches the AWS console; nobody waits for a session that cannot come |
| SAML and STS (`auth/azure`, `auth/aws`) | none | parse and check assertions, assume a role | boundaries of time, order of values | exactly the valid assertions are accepted, and the roles are those they list |
| Role selector (`tui/app.rs`) | the list, the query, the selected row | search, move, click, pick | rows that move under the selection | the role picked is the one seen |
| AWS config document and editor (`tui/aws_config*`) | `~/.aws/config`, its backups | parse, merge, back up, replace, prune | another program writes the file | foreign changes survive or are named by a save that succeeds; what is replaced was copied |
| Config manager (`tui/manager/`, `tui/form*.rs`) | its copy of `config.toml`, the profile list it read, forms, a mode | edit, add, clone, link, delete, set-password | everything is saved from old copies | a save changes what the form shows, and nothing else |
| Command line (`cli/args.rs`, `main.rs`, `error.rs`) | none | parse, dispatch, exit code | -- | -- |

How they interact: login and credential-process pass the session lock's gate,
then run the refresh, which reads the configuration and the store, drives the
browser, chooses a role, calls STS and writes the store (and sometimes the
configuration). configure, the TUI and delete-profile write the configuration
and erase store entries and tokens. No command talks to another except through
these shared objects, and only the refresh is under a lock.

The behaviours that tests hardly reach are listed, each at its line, under
`hazards` in `PROJECT.json`.

## 2. Plan

Ordered by what matters most to a user.

1. **CredentialRefresh** with StoredCredentials and RoleChoice, implementing
   **SingleRefresh**. Written, checked and proved.
2. **SessionLock**: gate, tokens, changes of the lock. Written, checked and proved.
3. **CookieKeystore** and **BrowserSignIn**, which composes the keystore with the
   sign-ins of `login` (under the refresh lock) and `list-roles` (without it), and
   with `delete-profile`. Written, checked and proved.
4. **AwsConfigFile** and **ConfigManager**: the document, the save and its
   failures, the forms and dialogs that lead to one, next to an editor and a
   second manager, and the manager's copy of `config.toml`. Written, checked and proved.
5. **SamlAssertion** and **RoleSignIn**: the checks against a reference
   definition, the role choice (RoleChoice again) and the selector. Written, checked and proved.

Each family's theorems are in a module of their own, `<Component>_proofs`. Every
safety property of a passing run is now a theorem (section 9). What is left is
liveness, which stays with TLC, and refinements of the other
components like that of SingleRefresh: a promise of the session lock
(a gate and the agreements, without files) and one of the sign-in (a
session and who may save it) that the detailed modules implement.

There are twelve runs, one per question: seven that pass, and five that end in a
counterexample to what the repository says of itself (section 8).

## 3. The refresh (CredentialRefresh, StoredCredentials, RoleChoice, SingleRefresh)

State: `lock` is the holder of the lock file; `config` the profile in
`config.toml` (app, role, whether remember_me is set); `keyring` its credential
entry; `cache[p]` the in-memory cache of process p; `pc[p]` where its command
stands; `job[p]` what it has computed (the request, the config snapshot, the
role, what will be stored and saved, what was printed).

A step runs from one point where another process can intervene -- an await, a
prompt, a file access, a keyring call -- to the next. The path of a login:

    Start -> Lookup -> [AnswerRememberMe -> SaveRememberMe] -> Acquire
      -> Recheck -> SignedIn -> [PickRole -> Acquire -> RecheckPicked]
      -> Exchange -> [LoadForRole -> SaveRole] -> PrintCredentials -> Exit

`credential-process` takes the same path without the bracketed parts. `GiveUp`
is the lock time-out, `Fails` every other error exit, `Crash` the death of a
process at any point (the OS then drops its lock). `SignedIn` drops the lock
before a human is asked, as login.rs:658-661 does. Editors take
`StartConfigure -> Configure -> InvalidateCredentials` and `StartDelete ->
DeleteProfile -> WipeProfile` without any lock; `ClearCache` and `Tick` may
happen at any time.

Abstractions. Tenant and app ID are one value `App`. The identity fingerprint
is an injective encoding, so its fields stand for it. Times are relative to the
present: `left` is the time to expiry and `Tick` lowers it. The sign-in is one
step with any set of offered roles, STS one step that may be refused by the
keyring afterwards. Credentials know what they were issued for, which the code
cannot see; the properties can. The printing order of login and
credential-process differs from each other's (print then drop, drop then print) and is
one step.

`SingleRefresh` is the promise without the commands: an owner, those signing
in, and the entry; only the owner signs in or files credentials, truthfully;
anybody may erase. `KeepsThePromise` is its specification under `owner <- lock`,
`signing <- {p : pc[p] = "browser"}`, `entry <- keyring`.

| Run | Question | Bounds |
|---|---|---|
| `refresh_edited` | Do types, truthful filing, correct printing, mutual exclusion of browsers, the conclusive re-check and the promise survive edits, deletes, crashes and expiry? | 2 processes, both may edit; 2 apps, 2 roles, 2 profile contents; session length 1, window 1 |
| `refresh_requests` | Is the lock held exactly where it must be, are forced calls fresh, do one-off logins leave nothing, and does a call ever hang on another? | 2 processes, 5 kinds of request (a script, forced or not, a terminal, with another role or another app), 2 profile contents; session length 1; under `LiveSpec` |
| `refresh_first_login` | Does one browser serve all waiters, as the documentation says? | 2 first logins; **violated**, see 8 |

Two processes are enough for the interference in question: every property
speaks of one process and what another did between two of its steps, and the
theorems remove the bound for all of them but the liveness property. Two roles and two
apps suffice to tell "own" from "another's". Ages: with a session of
length 1 the buffer is 0, so `left` = 1 is fresh and 0 expired; the length of 2
in `refresh_first_login` adds a stale age, and the theorems hold for every length.

Fairness (`LiveSpec`): weak fairness of the steps a command takes by itself.
The polling loop of the lock (refresh_lock.rs:36-63) always either gets the lock
or, once the time-out has elapsed, gives up, so *some* step of the waiter is
always possible and is taken. No fairness is assumed of browsers, STS, humans,
or of the steps of one process for the benefit of another.

## 4. The session lock (SessionLock)

State: `verifier` is `lock_verifier` in `config.toml` (numbered, since each hash
has its own salt; `NoLock`, or `NoProfile`); `tokens[s]` the token file of scope
`s`; `boot`, `leader[s]` and `alive` the machine; `pc`, `job` the commands. A
scope is a terminal session (in `Sid`) or a name from the environment.
`Timed` and `Signalable` say for which sessions the platform lets this
user read the leader's start time and signal it.

`agreed[s]` is a history variable: what a human last agreed to in this scope --
under which lock, for what (password, AI), with which leader, and for
how much longer at most. It is written by the steps where a human
answers (`TypePassword`, `Consent`), erased by `lock`, time and reboot, and
read by no action.

`StartUse, Gate, Discard, TypePassword, Consent, Leave` are `enforce`
with `read_valid_unlock`, whose removal of a dishonoured token is a step
of its own because it goes by path. `GcLook/GcDrop` are `gc_stale_unlocks`, file by
file, with the same gap. `Save` writes back the profile a command loaded;
set-password and delete-profile then `Revoke` file by file, and any removal may
fail. `StartConfigure` stands for every other command that saves the profile.
`Stops` is a cancelled prompt, a wrong password, an error or a kill.

| Run | Question | Bounds |
|---|---|---|
| `lock_gate` | Does a token open the gate only as agreed, in its session and boot? | 2 processes, 1 terminal session id, 10 kinds of request, 2 passwords, 2 boots, 2 leaders; the profile asks for 2 hours and the hard cap is 1 |
| `lock_reaping` | Does garbage collection spare the sessions that live? | 1 process, a terminal session whose leader cannot be signalled and a named scope; **violated** |
| `lock_changes` | Does every change of a lock need the old password? | 2 processes; **violated** |
| `lock_zero_hours` | Does a password unlock end? | 1 process, `lock_ttl_hours = 0`; **violated** |

An hour is the unit of time; the hard cap of 1 stands for 720 and the setting of
2 for anything beyond it, so the clamp is exercised. Two passwords tell "the lock the
token was minted under" from a later one; two boots and two leaders likewise.
Tokens of different scopes do not interact except through garbage collection, so
one scope is enough for the gate. `OnlyInItsSession` asks for the same leader only when the token recorded
a start time and one can be read: that much the code delivers.

## 5. The sign-in and the remembered session (CookieKeystore, BrowserSignIn)

`CookieKeystore` is data: an item of the keychain (a raw key of an old version,
a versioned keystore, or nothing), what initialisation, rotation and retention make
of it, and what a cookie file needs to be opened. `BrowserSignIn` is the
processes. `keyring` is the item, `cookies` is cookies.enc, `legacy` the plaintext
cookies.json of old versions, `dir` the Chrome data directory, `cache[p]` the keystore
a process has cached, `chrome[p]` and `paused[p]` its Chrome and the request
Chrome holds back for it, `console` what the AWS console has been sent: nothing, a SAML
POST, or one whose response the command went on to use (`returned`). Two history
variables: `deleted`, a delete-profile has run, and `begun`, a list-roles found no keystore
in the keychain and set out to begin one without the lock.

    Start -> [TakeLock] -> Preflight -> Launch -> ReadCookies -> [ReadKeystore
      -> InitKeystore] -> Decrypt -> StartCapture -> Intercept* -> Abort
      / CaptureFails -> StopLoading -> Disable -> [CollectCookies -> Rotate -> PersistKeystore -> WriteCookies] -> Close

Only a login takes the lock and only a login that remembers takes the last bracket.
Each read or write of a file or of the keychain is a step, so a
deletion, a crash or another sign-in can come between any two of them. So is each CDP
command of a capture, and each may fail: `CaptureFails` is the time-out and every error
up to the abort, `StopLoading` and `Disable` may fail unnoticed. From Fetch.enable to
Fetch.disable the page may make a request at any time (`PageRequests`); a request held back when
interception ends goes on (`Released`), and the page may post again (`PagePosts`) until
`Close` shuts the browser down.

`Init` has every combination of keychain item (none, raw, versioned) and
cookie file (none, or one written under key 1), a file whose item is gone
among them.

Abstractions. `credential-process` signs in as `login` does. A key's age is counted in
rotation intervals; `Tick` lets time pass only while no command
runs, since a sign-in takes minutes and an interval 30 days. Encryption is
authentic: a file opens under the very key it was written with. Cookie domains and
the expiry of single cookies are one Boolean. Chrome holds back one request at a
time; a SAML response comes only where somebody can sign in, a human at a visible
browser or a session the browser has (an assumption about Azure AD). A process that dies takes
its Chrome with it. One command per process is a sign-in; a profile is deleted at most once.

| Run | Question | Bounds |
|---|---|---|
| `signin_session` | Does the remembered session stay readable while it is young, and does an id never come to stand for another key? | 2 processes, 3 kinds of request that all remember, 3 key ids, rotation at age 1, retention to age 1; no deletion, one kind of intercepted request |
| `signin_capture` | Is the POST whose response is used kept from the console, does a login ever wait headless in vain, does plaintext stop all use, and do ids end at the last? | 1 process, every command line, every kind of intercepted request, a page that posts late, a deletion at any point, 3 key ids |
| `signin_unlocked` | Does the keystore's read-modify-write never interleave? | 2 processes; **violated** |

The bounds follow the questions: a capture involves one process, and what two do to the keystore
does not depend on how their captures fail. `Kinds` and `Deletable` name what a run
leaves out; the theorems have all of it for any number of processes. Commands that do not
remember are in `signin_capture` only.

`CapturedFirst` is what the code delivers: the POST that the response it returns was read from has
been aborted. It does not keep every POST from the console: one held back when a capture fails goes on if
stopping the page fails too, which is ignored, and a page may post (the same form again, even) once
interception is off and until it is closed. The model has both.
`KeptWhileYoung` and `IdsNeverRebound` speak of the time before a deletion and before
`begun`. Without a keychain item the cookie file is unreadable already, so what is lost afterwards
is what a login that began a keystore at the same time saves; `KeystoreNeverInterleaved` drops the
second condition and is violated.

Three ids are enough for a rotation to fail for want of one; ages 0, 1 and
"past" are each side of both boundaries.

## 6. The config manager (AwsConfigFile, ConfigManager)

`AwsConfigFile` is data: a document is a sequence of sections, a section a name
and a function from all settings, `Unset` for those it lacks; `Merged` is the three-way merge of what the form was opened on,
what it holds now, and the file; `Overridden` the settings it names as changed by
others; `FreeSlot`, `Saved` and `Excess` the naming, the writing and the pruning of copies. `ConfigManager` is
the TUI: `mode` with its `form`, `awsForm`, `focus` (what a dialog is about) and
`pending`; `config` its copy of `config.toml` and `disk` the file; `entries` its list of
AWS profiles (a set: their order on the screen is left out) and `file` the file; `backups`
the copies, and `contested` the names of copies that two savers chose before either
wrote one, a history variable. Two more say where `config` and `disk` may differ:
`touched`, the profiles another command changed, and `stale`, those that a save, deletion or
set-password of this manager changed although it, or the loading after it, ended in an error. `pc[s]` and `job[s]` are the save in
progress of this manager (`Tui`) or of another.

A save is `Begin -> ReadFile -> LookForSlot -> WriteBackup -> Prune -> Replace`,
`IoFails` any failure of it before the rename; `Replace` itself may rename and then fail in the
directory sync. `Named` is what the status line names: nothing, when a save fails.
A list that cannot be loaded is empty (`Loaded`), and a `config.toml` that cannot be loaded
leaves the copy as it was.
The handlers are one action each; `EditFile` is an editor that changes or removes one
setting, removes a section or appends one, `EditConfig` another awzars command.

Abstractions. A form is its fields, without cursor, highlight or mouse. Pruning is one
step; `set-password` and the deletion of an awzars profile are one step each, because
SessionLock and CredentialRefresh have them in detail. Other managers link,
unlink and delete, from a list they have just read. The clock is read when a copy is named.
Comments and layout of a section are kept by the code and left out here.

| Run | Question | Bounds |
|---|---|---|
| `config_manager` | Outside the gap between reading and rename, do foreign edits survive or get named, and is the replaced file copied? Do copies survive, and does a save of config.toml change only what it should? | two profile names and a foreign section, 4 settings, 1 copy kept, 2 field edits per form, 2 milliseconds; budgets: two saves, one save against one edit, one against another manager's save, or two changes of config.toml |

Each hazard needs two writers or two saves, which the budgets give one pair at a time;
one copy kept makes every second save prune.

`KeepsForeignEdits`, `OverridesAreNamed` and `BackedUp` speak of saves between whose reading and
replacing nobody wrote (`Writes`): a write in that gap is lost, and in no copy. A save that changes
nothing (`output == contents`) makes no copy even then.
`OverridesAreNamed` is about the status line of a save that says it succeeded. One whose
directory sync fails has overridden the same settings and names none; repeated from the form, which
is still open, it finds none any more. `InSync` and `SavesOnlyTheForm` leave out `touched` and
`stale`. The second is no formality: after set-password a failed loading of config.toml
goes unnoticed, and the next save takes the lock just set away again. Two managers that save in one millisecond may choose one
copy name: `contested` excludes those names from `CopiesSurvive` and `BackedUp`, so no property
covers that race. `Asked` lists what a form cannot help changing: an empty setting
(`region =`) is removed by any save, and a source profile drops `credential_process`.
What else the model showed, without a line of the repository that says otherwise: a
deletion confirmed after an outside edit can remove a profile that no longer uses
awzars; a manager that started before a lock was set takes it away when it saves
that profile; an add or rename whose failure came after the rename is answered with
"exists" or "missing" when repeated.

## 7. From the response to STS (SamlAssertion, RoleSignIn)

`SamlAssertion` is data: `Accepts` is the chain of checks of
`SamlAssertion::parse`, `ExtractRoles` the map of roles as it is filled value by
value, `Listed` the roles in their order (`InOrder` puts each member of a set where the
number of those before it says, which is what a sort does). Times are relative to the moment of parsing. `RoleSignIn` is a
command from the captured response to the question to STS: `Choose` combines
`resolve_role` (the operator of RoleChoice that the refresh uses too) with `choose_role`,
and the selector is its query, its filtered rows and the selected one.

| Run | Question | Bounds |
|---|---|---|
| `role_sign_in` | Are exactly the valid assertions accepted, are the roles those they list, and is the role asked for the one requested, or seen and chosen? | every window with both ends in -2..2, missing or unreadable, every audience, issuer, recipient and envelope; every list of up to 3 of 9 values, and one of 4 roles; a list of 2 rows, searches of up to 2 letters; 6 kinds of request |

`Valid` and `OffersTheLastPairs` are written from the XML, with quantifiers where the code
has a chain of checks and a fold. The SAML schema allows one `<Conditions>`; where several
state times, the code keeps the last of each, and the run's second
`<Conditions>` states audiences only. A search matches the whole ARN; here its name
stands for it.

Of a scrolled list a click picks the wrong role: `render` draws from a clone of the list state
(tui/app.rs:193), so the offset that ratatui scrolls to is lost, `handle_list_click`
(tui/app.rs:261) adds an offset of 0, and a click returns a role further up than the one
clicked. `Click` does the same. No property is about it: the repository says nothing of what
a click picks, and `NeverReplacedSilently` asks only that a human picked.

No fairness is assumed in these three families: their properties are safety
properties, and what ends a capture or a prompt is a time-out or a human.

## 8. Where the code and its documentation part

Five runs end in a counterexample; `findings` in `PROJECT.json` quotes the lines.

- `refresh_first_login`: on a profile without a role, the waiter re-checks
  under an identity without a role and opens a second browser.
- `lock_reaping`: a leader that may not be signalled is taken for dead (EPERM).
- `lock_changes`: a save that began before the lock was set takes it away.
- `lock_zero_hours`: a `lock_ttl_hours` of 0 is the "never expires" value.
- `signin_unlocked`: next to a cookie file whose keychain item is gone, list-roles begins a
  keystore without the lock, while a login does.

Met while modelling, without a run of their own:

- Clicks in a scrolled role list (section 7).
- saml_capture.rs:113 says "the console must not consume the POST"; a failed StopLoading is
  ignored (saml_capture.rs:148) and lets a held-back POST go (section 5).
- tui/manager/mod.rs:243-244 says "reload to keep edits coherent"; a reload that fails is ignored,
  and the next save takes away the lock that set-password has set (section 6).
- tui/aws_config.rs:81 and util/atomic_write.rs:13 say that a failed save did not write the file;
  one whose directory sync fails has (atomic_write.rs:37), and what it overrode is not named.
- tui/aws_config.rs:185 says that the previous contents are copied; what another program
  writes between the reading and the rename is not.
- A token minted after its leader exited carries no start time (auth/lock.rs:866) and opens the gate
  of the next session with the id, where README.md:648-650 says that a recycled id does
  not inherit a stale token.
- A key's retention counts from its creation, not from its replacement: after more than 90
  days of disuse a rotation drops the key it replaces at once, though
  cookie_crypto.rs:14-16 promises "one rotation period of safety margin". `KeptWhileYoung`
  therefore speaks of the age of the key.
- cli/commands/list_roles.rs:33-36 says a visible browser is launched when no session
  exists, and skips the check for a remote Chrome; the time-out of a headless
  sign-in (browser/chromium.rs:640) looks for a local session all the same.
- tui/manager/handlers.rs:649 says "If save failed, mode stays in the form"; it
  stays in the question about unsaved changes.

## 9. What is proved

Five modules of proofs, one for each family of modules. Their theorems hold for every
set of processes, profiles, requests, files and responses and every bound, under
the named assumptions of the modules: a null value is not one of the values it
stands apart from, the requests and responses considered are requests and
responses, and counts that the code fixes above zero (a session's length, default
lifetime, hard cap, rotation interval, number of copies) are above zero. Three more
say something of the program: `credential-process` carries no overrides (its
arguments have none), a role flag names a role, and only finitely many processes
run, so that there is always a key nobody holds.
No theorem bounds how many processes run or how often they run, what the other
commands do between two steps, or where a process dies.

**The refresh** (`CredentialRefresh_proofs`). The inductive invariant is

    IInv == TypeOK /\ LockDiscipline /\ \A p : Fits(job[p], pc[p])

`LockDiscipline` alone is not inductive: whether `exchange` is guarded depends
on `creds`, so one must know how `creds` was set. `Fits` says, point by point,
what a command's results may be: in request scope nothing is ever stored;
`role` is a real role from the choice on; a draft exists exactly where a save is
pending; nothing has been printed before the end. From it: `TypeCorrect`,
`LockHeld`, `OneBrowser` (two browsers would both hold the lock), `HolderStores`,
`StoredTruthfully` (a further invariant: whoever writes an entry tags it with what it
was minted for), `BrowserNeeded` (the re-check found nothing, and while the
process holds the lock nobody can store), and `Implements`, the refinement: each
step maps to a step of SingleRefresh or to a stutter, action by action.
`ForcedInv` (what is reused was not forced) gives `ForcedIsFresh`. `ChosenInv` follows the
decision from the choice to the exit -- which role, in whose
name, whether it may be saved -- and gives `AskedIsPrinted`; `NoTrace` is
proved from it, since a declined replacement has request scope at every later point.

**The session lock** (`SessionLock_proofs`). `OnlyWhatWasAgreed` speaks of the moment a
gate opens; the invariant has to hold at all others:

    Backed == \A s : Counts(tokens[s]) => RestsOn(tokens[s], agreed[s])

Every token that would still be honoured rests on an agreement of its scope, for the same
lock and leader, at least its uses, and at least as long. Removals by path (a
collector, a revocation, a dishonoured token) only take tokens away, so they keep it,
however late they come; minting re-establishes it because the agreement is
written in the same step. `AgreedGate`, `SessionGate` and `OnlyZeroHoursNeverEnd`
have the hypothesis `NoZeroHours`: no lifetime of zero hours is asked for. It
cannot be dropped. `lock_zero_hours` is the counterexample, and the third theorem
says that zero is all there is to that finding.

**The sign-in** (`BrowserSignIn_proofs`). Four layers, each using those before it:
`Typed` (with what each process has at each point, and that the points
which rotate the keystore are reached under the refresh lock only), `KeptAway`
(nobody is at work on the store next to plaintext cookies), `KeysKept` and
`AllHopeful`. `KeysKept` is the one that took thought: the keystore that the holder
of the lock is about to write is what rotation makes of the item *now* in the
keychain, because nobody else can have written it, and the cookie file's key
is in the keychain or past retention. list-roles, without the lock, may write too: next to a raw
key it saves the keystore that migrates it, and every other process makes the same
one of that key, so it can be written twice. Next to no item it begins one
with a key of its own; from then on (`begun`), and once the profile is being deleted, none of this
holds, and the properties say so. The capture needs an argument apart: what has been read is
held back no longer when the command returns it, because only the abort leads there. From these: `CapturedStaysHere`, `PlaintextGate`, `SessionKept`,
`IdsStayBound`, `NobodyWaitsHopelessly`.

**The config manager** (`ConfigManager_proofs`). The two halves do not interact, so they
are proved apart: `Awzars /\ InSync` for `config.toml` (`CopyInSync`, `FormSavesItself`)
and `Aws` for `~/.aws/config`. On `Aws` rest `FromForm` (a save in progress is of
the form on the screen) and `AllWorked` (what it will write is that op applied to
what it read), hence `ForeignEditsKept` and `OverridesNamed`, both of saves in whose gap nobody wrote; and `Copies` (the
name a save chose is free unless another chose it too, a copy made is there until newer
ones displace it), hence `ReplacedIsCopied` and `CopiesKept`. The lemmas under
them are about the operators: where a section is, what removing or merging one
changes, that a free slot always exists, what pruning keeps.

**From the response to STS** (`RoleSignIn_proofs`). First the data, for lists of any
length: `InOrderIs` (a strict total order lists each member of a finite set once),
`RolesOrdered` (the order of roles is one), `ExtractsLastOfEach` (the loop over the
values keeps of each role its last provider), `AcceptsIs` (the chain of checks
is `Valid`). Then the command, from

    IInv == Parsed /\ Shown /\ Asked

the roles are those of the accepted response; the filtered rows are rows of the
list and the selected one is among them; and a human is asked only by a command that
may replace the role, whose answer is on offer. `AcceptsExactlyTheValid` has the
hypothesis `OneWindow`: at most one `<Conditions>` of a response states times, as the
SAML schema has it. Without it the theorem is false, because the code keeps the last
time stated.

The prover has no induction over data here. The loop of `ExtractRoles`, the letters of
a name and the numbers of slots are therefore argued with sets of natural numbers and
their least elements (`NatMin`, `EveryNumber`), and sorting is defined by rank.

Only model-checked: `NeverHangsOnAnother`, the liveness property of `refresh_requests`, since fairness and ENABLED are
out of the prover's reach, and the five runs that end in a counterexample.

## 10. Not modelled

The DevTools protocol, the discovery of Chrome, page scripts and the SAML request
(network and process I/O, any outcome of which is an action here); the
region chain and the wording of STS errors; suggestions of similar role names;
drawing, cursor movement and text editing in the TUI; argument parsing, messages and exit codes; keyring
back ends and their chunking; file permissions. Of the session lock: the
back-off counter (it delays, it never opens), how a scope is derived from the
environment and the process tree (a scope is given), and hosts without a
boot id (where the gate refuses throughout). Each is listed in
`PROJECT.json` with its status.

## 11. Running

    tlc -workers 2 -config refresh_edited.cfg MCCredentialRefresh.tla
    tlc -workers 2 -config lock_gate.cfg MCSessionLock.tla
    tlc -workers 2 -config signin_session.cfg MCBrowserSignIn.tla   # and signin_capture
    tlc -workers 2 -config config_manager.cfg MCConfigManager.tla
    tlc -workers 2 -config role_sign_in.cfg MCRoleSignIn.tla
    tlapm CredentialRefresh_proofs.tla    # and SessionLock_proofs, BrowserSignIn_proofs,
                                          # ConfigManager_proofs, RoleSignIn_proofs

`SYMMETRY` over processes is used where no liveness is checked. Operators
whose comment says VARIANT are slightly wrong versions of the operator
defined after them, used to confirm that a property notices the difference.
