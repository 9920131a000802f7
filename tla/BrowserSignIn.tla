--------------------------- MODULE BrowserSignIn ---------------------------
(***************************************************************************)
(* The browser sign-ins of one profile and the session they remember:      *)
(* `login` (and `credential-process`, which signs in the same way) holds   *)
(* the refresh lock, `list-roles` does not.  Each drives a Chrome, hands   *)
(* it the cookies of cookies.enc, intercepts the SAML POST, and a login    *)
(* asked to remember the session encrypts the browser's cookies into       *)
(* cookies.enc under the current key of the keystore in the keychain.      *)
(* `delete-profile` removes the directory and the keystore of the profile  *)
(* without that lock.                                                      *)
(*                                                                         *)
(* History variables: `deleted`, a delete-profile has run; `begun`, a      *)
(* list-roles found no keystore in the keychain, and so set out to begin   *)
(* one without the refresh lock.                                           *)
(***************************************************************************)
EXTENDS CookieKeystore, FiniteSets

CONSTANTS
  Procs,         \* OS processes
  Requests,      \* the command invocations considered
  Kinds,         \* the requests of a page considered
  Deletable,     \* the profile may be deleted
  NoProc,        \* the refresh lock is free
  NoFile,        \* there is no cookies.enc
  NoRequest      \* no command

VARIABLES
  lock,        \* the holder of the profile's refresh lock
  configured,  \* config.toml has the profile
  keyring,     \* the cookie_key item
  cookies,     \* cookies.enc
  legacy,      \* the plaintext cookies.json of an old version exists
  dir,         \* the profile's chromium data directory exists
  cache,       \* per process: STORE_CACHE
  pc,          \* per process: the point its command has reached
  job,         \* per process: the command and its intermediate results
  chrome,      \* per process: the Chrome it drives
  paused,      \* per process: the request Chrome holds back for it
  console,     \* what an AWS console has been sent
  deleting,    \* the next step of a running delete-profile
  deleted, begun

vars == <<lock, configured, keyring, cookies, legacy, dir, cache, pc, job,
          chrome, paused, console, deleting, deleted, begun>>
disk == <<keyring, cookies, legacy, dir>>
config == <<configured, deleting, deleted>>
profile == <<config, begun>>
page == <<chrome, paused, console>>

----------------------------------------------------------------------------
(* Data.                                                                   *)

(* `headless` is of no use to list-roles, which decides it itself.         *)
Request == [cmd: {"login", "list-roles"}, remember: BOOLEAN,
            headless: BOOLEAN, remote: BOOLEAN]

(* `age` is that of the key the file was written under.                    *)
CookieFile == [id: KeyId, key: Key, age: Age]

ASSUME SignInAssumption ==
  /\ IsFiniteSet(Procs)
  /\ Requests \subseteq Request
  /\ Kinds \subseteq {"other", "saml", "malformed", "late"}
  /\ Deletable \in BOOLEAN
  /\ NoProc \notin Procs
  /\ NoFile \notin CookieFile
  /\ NoRequest \notin Request

PC == {"idle", "waiting", "preflight", "launch", "page", "keystore", "init",
       "decrypt", "timeout", "capture", "abort", "stop", "disable", "saving",
       "rotate", "persist", "write", "closing"}

(* A request that posts no SAML response, one that posts a well-formed one *)
(* -- `read`, once the command has it -- or a malformed one.  `open`:      *)
(* nothing is held back any more, and somebody may sign in at the page.    *)
Paused == {"none", "other", "saml", "malformed", "read", "open"}
SamlPosts == {"saml", "malformed", "read"}

(* A SAML POST, or even the one whose response its command returned.       *)
Sent == {"nothing", "post", "returned"}

NoJob == [req |-> NoRequest, headless |-> FALSE, persistent |-> FALSE,
          file |-> NoFile, store |-> NoKeystore, session |-> FALSE,
          spent |-> FALSE, ok |-> FALSE]

(* `persistent`: remember_me as the browser is launched with; `session`:   *)
(* cookies were injected; `spent`: the store was read and held none that   *)
(* still count; `ok`: a SAML response was captured.                        *)
Job == [req: Requests \cup {NoRequest}, headless: BOOLEAN,
        persistent: BOOLEAN, file: CookieFile \cup {NoFile},
        store: {NoKeystore}, session: BOOLEAN, spent: BOOLEAN, ok: BOOLEAN]

(* getrandom gives a key nobody has.                                       *)
FreshKey ==
  LET items == {keyring} \cup {cache[p] : p \in Procs} \cup {job[p].store : p \in Procs}
      files == ({cookies} \cup {job[p].file : p \in Procs}) \ {NoFile}
      used == (UNION {KeysIn(item) : item \in items}) \cup {f.key : f \in files}
  IN  CHOOSE k \in 1..(Cardinality(used) + 1) : k \notin used

Goto(p, to) == pc' = [pc EXCEPT ![p] = to]

(* The process ends: its memory, its locks and its browser are gone.       *)
Ends(p) ==
  /\ Goto(p, "idle")
  /\ job' = [job EXCEPT ![p] = NoJob]
  /\ cache' = [cache EXCEPT ![p] = NoKeystore]
  /\ chrome' = [chrome EXCEPT ![p] = "none"]
  /\ paused' = [paused EXCEPT ![p] = "none"]
  /\ lock' = IF lock = p THEN NoProc ELSE lock

----------------------------------------------------------------------------
(* Choosing and launching the browser.                                     *)

Start(p, r) ==
  /\ pc[p] = "idle" /\ configured
  /\ job' = [job EXCEPT ![p] = [NoJob EXCEPT !.req = r]]
  /\ Goto(p, IF r.cmd = "login" THEN "waiting" ELSE "preflight")
  /\ UNCHANGED <<lock, profile, disk, cache, page>>

(* VARIANT: the browser phase does not need the refresh lock.              *)
GoUnlocked(p) ==
  /\ pc[p] = "waiting"
  /\ Goto(p, "preflight")
  /\ UNCHANGED <<lock, profile, disk, cache, job, page>>

(* A login waits for the refresh lock, and not for ever.                   *)
TakeLock(p) ==
  /\ pc[p] = "waiting" /\ lock = NoProc
  /\ lock' = p
  /\ Goto(p, "preflight")
  /\ UNCHANGED <<profile, disk, cache, job, page>>

GiveUp(p) ==
  /\ pc[p] = "waiting" /\ lock # NoProc
  /\ Ends(p)
  /\ UNCHANGED <<profile, disk, console>>

(* A login prefers cookies.enc to a persistent data directory, which       *)
(* another Chrome may have open; list-roles does not.                      *)
Persistent(r) == r.remember /\ (r.cmd = "login" => cookies = NoFile)

(* list-roles goes headless when it sees a session it could use.           *)
Headless(r) ==
  IF r.cmd = "login" THEN r.headless
  ELSE r.remote \/ cookies # NoFile \/ (r.remember /\ dir)

Preflight(p) ==
  /\ pc[p] = "preflight"
  /\ job' = [job EXCEPT ![p].persistent = Persistent(job[p].req),
                        ![p].headless = Headless(job[p].req)]
  /\ Goto(p, "launch")
  /\ UNCHANGED <<lock, profile, disk, cache, page>>

(* A remote Chrome is never replaced by a local one.                       *)
Kind(j) == IF j.req.remote THEN "remote" ELSE IF j.persistent THEN "dir" ELSE "temp"

(* A ws:// URL needs a flag that list-roles does not have, and wss:// needs*)
(* a TLS the build does not have.                                          *)
RemoteUsable(r) == r.cmd = "login"

(* Chrome refuses a data directory that another Chrome has open; any       *)
(* launch or connection may fail.                                          *)
Launch(p) ==
  LET kind == Kind(job[p])
      refused == \/ kind = "remote" /\ ~RemoteUsable(job[p].req)
                 \/ kind = "dir" /\ \E q \in Procs : chrome[q] = "dir"
  IN  /\ pc[p] = "launch"
      /\ dir' = (dir \/ kind = "dir")
      /\ \/ Ends(p)
         \/ /\ ~refused
            /\ chrome' = [chrome EXCEPT ![p] = kind]
            /\ Goto(p, "page")
            /\ UNCHANGED <<lock, cache, job, paused>>
      /\ UNCHANGED <<profile, keyring, cookies, legacy, console>>

----------------------------------------------------------------------------
(* Handing the stored cookies to the browser.                              *)

(* The browser has done its part, or failed.                               *)
Leaves(p) == Goto(p, "closing") /\ job' = [job EXCEPT ![p] = NoJob]

(* Without its cookies a headless sign-in fails now; a visible one goes on.*)
NotInjected(p) ==
  IF job[p].headless THEN Leaves(p)
  ELSE /\ Goto(p, "timeout")
       /\ job' = [job EXCEPT ![p].file = NoFile, ![p].store = NoKeystore]

(* refuse_if_legacy_cookies_present, on the way in and on the way out.     *)
RefusesPlaintext == legacy

(* VARIANT: plaintext cookies next to the store are no obstacle.           *)
ReadCookiesAnyway(p) ==
  /\ pc[p] = "page"
  /\ IF chrome[p] = "remote" \/ cookies = NoFile
     THEN Goto(p, "timeout") /\ UNCHANGED job
     ELSE job' = [job EXCEPT ![p].file = cookies] /\ Goto(p, "keystore")
  /\ UNCHANGED <<lock, profile, disk, cache, page>>

(* inject_cookies_from_store, as far as reading the file.                  *)
ReadCookies(p) ==
  /\ pc[p] = "page"
  /\ IF chrome[p] # "remote" /\ RefusesPlaintext THEN NotInjected(p)
     ELSE IF chrome[p] = "remote" \/ cookies = NoFile
          THEN Goto(p, "timeout") /\ UNCHANGED job
          ELSE job' = [job EXCEPT ![p].file = cookies] /\ Goto(p, "keystore")
  /\ UNCHANGED <<lock, profile, disk, cache, page>>

(* The process is decrypting rather than encrypting.                       *)
Injecting(p) == job[p].file # NoFile

(* What a failure of the keystore means: no cookies for the browser, or    *)
(* none saved, which a login only warns about.                             *)
NoKey(p) == IF Injecting(p) THEN NotInjected(p) ELSE Leaves(p)

UseStore(p, store) ==
  /\ job' = [job EXCEPT ![p].store = store]
  /\ Goto(p, IF Injecting(p) THEN "decrypt" ELSE "rotate")

(* decrypt goes by the cache only for a key it has; encrypt whenever the   *)
(* cache has a keystore.                                                   *)
FromCache(p) ==
  /\ cache[p] # NoKeystore
  /\ Injecting(p) => job[p].file.id \in DOMAIN cache[p].keys

(* load_or_init_store.  An item that cannot be read is never replaced.     *)
ReadKeystore(p) ==
  /\ pc[p] = "keystore"
  /\ \/ FromCache(p) /\ UseStore(p, cache[p])
     \/ ~FromCache(p) /\ NoKey(p)
     \/ /\ ~FromCache(p)
        /\ IF keyring = NoKeystore \/ IsRaw(keyring)
           THEN /\ job' = [job EXCEPT ![p].store = Initial(keyring, FreshKey)]
                /\ Goto(p, "init")
           ELSE UseStore(p, keyring)
  /\ begun' = (begun \/ (pc'[p] = "init" /\ keyring = NoKeystore /\ lock # p))
  /\ UNCHANGED <<lock, config, disk, cache, page>>

(* The keystore load_or_init_store made is saved, or its saving fails.     *)
InitKeystore(p) ==
  /\ pc[p] = "init"
  /\ \/ keyring' = job[p].store /\ UseStore(p, job[p].store)
     \/ NoKey(p) /\ UNCHANGED keyring
  /\ UNCHANGED <<lock, profile, cookies, legacy, dir, cache, page>>

(* VARIANT: a store that cannot be decrypted never stops the sign-in.      *)
DecryptLeniently(p) ==
  LET f == job[p].file
  IN  /\ pc[p] = "decrypt"
      /\ job' = [job EXCEPT ![p].file = NoFile, ![p].store = NoKeystore,
                   ![p].session = Opens(job[p].store, f.id, f.key)]
      /\ Goto(p, "timeout")
      /\ UNCHANGED <<lock, profile, disk, cache, page>>

(* The end of decrypt, and the injection of the cookies, unless all that   *)
(* may be injected have expired.                                           *)
Decrypt(p) ==
  LET s == job[p].store
      f == job[p].file
  IN  /\ pc[p] = "decrypt"
      /\ cache' = IF f.id \in DOMAIN s.keys THEN [cache EXCEPT ![p] = s] ELSE cache
      /\ IF Opens(s, f.id, f.key)
         THEN \E live \in BOOLEAN :
                /\ job' = [job EXCEPT ![p].file = NoFile, ![p].store = NoKeystore,
                     ![p].session = live, ![p].spent = ~live]
                /\ Goto(p, "timeout")
         ELSE NotInjected(p)
      /\ UNCHANGED <<lock, profile, disk, page>>

----------------------------------------------------------------------------
(* Intercepting the SAML POST.                                             *)

(* authentication_timeout, and the start of capture: a headless sign-in    *)
(* needs something that looks like a saved session.                        *)
StartCapture(p) ==
  /\ pc[p] = "timeout"
  /\ IF job[p].headless /\ ~job[p].persistent /\ cookies = NoFile
     THEN Leaves(p) ELSE Goto(p, "capture") /\ UNCHANGED job
  /\ UNCHANGED <<lock, profile, disk, cache, page>>

(* The identity provider answers with a SAML response only where somebody  *)
(* signs in: a human at a visible browser, or a session the browser has.   *)
SomebodySignsIn(p) ==
  ~job[p].headless \/ job[p].session \/ chrome[p] \in {"dir", "remote"}

(* From Fetch.enable to Fetch.disable Chrome holds back each request to a  *)
(* sign-in host of AWS.                                                    *)
PageRequests(p, kind) ==
  /\ pc[p] \in {"capture", "abort", "stop", "disable"} /\ paused[p] = "none"
  /\ kind \in SamlPosts => SomebodySignsIn(p)
  /\ paused' = [paused EXCEPT ![p] = kind]
  /\ UNCHANGED <<lock, profile, disk, cache, pc, job, chrome, console>>

SendsPost == IF console = "nothing" THEN "post" ELSE console

(* The page stays open until the browser is shut down, and may post once   *)
(* nothing is intercepted any more.                                        *)
PagePosts(p) ==
  /\ "late" \in Kinds /\ paused[p] = "open"
  /\ console' = SendsPost
  /\ UNCHANGED <<lock, profile, disk, cache, pc, job, chrome, paused>>

(* response_from_form: exactly one nonempty SAMLResponse.                  *)
Captured(kind) == kind = "saml"

(* A request that is no SAML POST goes on.  The body of a SAML POST is     *)
(* read, or cannot be.                                                     *)
Intercept(p) ==
  /\ pc[p] = "capture" /\ paused[p] # "none"
  /\ IF paused[p] = "other"
     THEN paused' = [paused EXCEPT ![p] = "none"] /\ UNCHANGED pc
     ELSE /\ paused' = [paused EXCEPT ![p] = IF Captured(@) THEN "read" ELSE @]
          /\ Goto(p, "abort")
  /\ UNCHANGED <<lock, profile, disk, cache, job, chrome, console>>

Returns(p) == job' = [job EXCEPT ![p].ok = (paused[p] = "read")]

(* VARIANT: that the request could not be aborted is no error.             *)
AbortIfPossible(p) ==
  /\ pc[p] = "abort"
  /\ Returns(p)
  /\ paused' \in {paused, [paused EXCEPT ![p] = "none"]}
  /\ Goto(p, IF paused[p] = "read" THEN "disable" ELSE "stop")
  /\ UNCHANGED <<lock, profile, disk, cache, chrome, console>>

(* Whatever its body is, the request is aborted.                           *)
Abort(p) ==
  /\ pc[p] = "abort"
  /\ Returns(p)
  /\ paused' = [paused EXCEPT ![p] = "none"]
  /\ Goto(p, IF paused[p] = "read" THEN "disable" ELSE "stop")
  /\ UNCHANGED <<lock, profile, disk, cache, chrome, console>>

(* The timeout, a failed navigation, a closed listener or a failed CDP     *)
(* command, the abort among them; the request may be held back still.      *)
CaptureFails(p) ==
  /\ pc[p] \in {"capture", "abort"}
  /\ Goto(p, "stop")
  /\ UNCHANGED <<lock, profile, disk, cache, job, page>>

(* Stopping the page cancels its navigation with what is held back of it.  *)
(* Its failure is ignored.                                                 *)
StopLoading(p) ==
  /\ pc[p] = "stop"
  /\ paused' \in {paused, [paused EXCEPT ![p] = "none"]}
  /\ Goto(p, "disable")
  /\ UNCHANGED <<lock, profile, disk, cache, job, chrome, console>>

(* authenticate goes on to save the session.                               *)
Remembers(j) == j.ok /\ j.req.cmd = "login" /\ j.req.remember

(* With interception off, Chrome lets go what it still held back.          *)
Released(p) ==
  IF paused[p] \notin SamlPosts THEN console
  ELSE IF job[p].ok /\ paused[p] = "read" THEN "returned" ELSE SendsPost

(* A failure is only logged: then Chrome goes on holding requests back,    *)
(* and nothing more comes of them.                                         *)
Disable(p) ==
  /\ pc[p] = "disable"
  /\ \/ /\ console' = Released(p)
        /\ paused' = [paused EXCEPT ![p] = IF SomebodySignsIn(p) THEN "open" ELSE "none"]
     \/ paused' = [paused EXCEPT ![p] = "none"] /\ UNCHANGED console
  /\ IF Remembers(job[p])
     THEN Goto(p, "saving") /\ job' = [job EXCEPT ![p] = NoJob]
     ELSE Leaves(p)
  /\ UNCHANGED <<lock, profile, disk, cache, chrome>>

----------------------------------------------------------------------------
(* Remembering the session.                                                *)

(* save_cookies, up to the encryption.                                     *)
CollectCookies(p) ==
  /\ pc[p] = "saving"
  /\ IF RefusesPlaintext
     THEN Leaves(p) /\ UNCHANGED dir
     ELSE dir' = TRUE /\ Goto(p, "keystore") /\ UNCHANGED job
  /\ UNCHANGED <<lock, profile, keyring, cookies, legacy, cache, page>>

(* VARIANT: the id after the last is used all the same.                    *)
RotatePast(p) ==
  LET s == job[p].store
  IN  /\ pc[p] = "rotate"
      /\ IF Due(s)
         THEN /\ Goto(p, "persist")
              /\ job' = [job EXCEPT ![p].store = Rotated(s, FreshKey)]
         ELSE Goto(p, "write") /\ UNCHANGED job
      /\ UNCHANGED <<lock, profile, disk, cache, page>>

(* encrypt: a current key that is due is replaced, which fails once the    *)
(* ids are used up.                                                        *)
Rotate(p) ==
  LET s == job[p].store
  IN  /\ pc[p] = "rotate"
      /\ CASE ~Due(s) -> Goto(p, "write") /\ UNCHANGED job
           [] Due(s) /\ Exhausted(s) -> Leaves(p)
           [] OTHER -> /\ Goto(p, "persist")
                       /\ job' = [job EXCEPT ![p].store = Rotated(s, FreshKey)]
      /\ UNCHANGED <<lock, profile, disk, cache, page>>

(* The rotated keystore is saved, or its saving fails.                     *)
PersistKeystore(p) ==
  /\ pc[p] = "persist"
  /\ \/ keyring' = job[p].store /\ Goto(p, "write") /\ UNCHANGED job
     \/ Leaves(p) /\ UNCHANGED keyring
  /\ UNCHANGED <<lock, profile, cookies, legacy, dir, cache, page>>

(* The payload is encrypted under the current key and replaces cookies.enc.*)
WriteCookies(p) ==
  LET s == job[p].store
  IN  /\ pc[p] = "write"
      /\ cache' = [cache EXCEPT ![p] = s]
      /\ Leaves(p)
      /\ \/ cookies' = [id |-> s.current, key |-> Current(s).key,
                        age |-> Current(s).age]
         \/ UNCHANGED cookies
      /\ UNCHANGED <<lock, profile, keyring, legacy, dir, page>>

(* The browser is shut down; what the command does with the response is no *)
(* concern of the browser.                                                 *)
Close(p) == pc[p] = "closing" /\ Ends(p) /\ UNCHANGED <<profile, disk, console>>

(* A CDP command fails before anything is intercepted.                     *)
PageFails(p) ==
  /\ pc[p] \in {"page", "timeout"}
  /\ Leaves(p)
  /\ UNCHANGED <<lock, profile, disk, cache, page>>

----------------------------------------------------------------------------
(* delete-profile, configure, the user and the clock.                      *)

Crash(p) == pc[p] # "idle" /\ Ends(p) /\ UNCHANGED <<profile, disk, console>>

(* Bound: one deletion.                                                    *)
DeleteProfile ==
  /\ Deletable /\ configured /\ ~deleted
  /\ configured' = FALSE /\ deleting' = "dir" /\ deleted' = TRUE
  /\ UNCHANGED <<lock, begun, disk, cache, pc, job, page>>

(* The rest of delete_awzars_profile is best effort.                       *)
RemoveDir ==
  /\ deleting = "dir"
  /\ deleting' = "keyring"
  /\ \/ dir' = FALSE /\ cookies' = NoFile /\ legacy' = FALSE
     \/ UNCHANGED <<dir, cookies, legacy>>
  /\ UNCHANGED <<lock, configured, deleted, begun, keyring, cache, pc, job, page>>

WipeKeyring ==
  /\ deleting = "keyring"
  /\ deleting' = "no"
  /\ keyring' \in {keyring, NoKeystore}
  /\ UNCHANGED <<lock, configured, deleted, begun, cookies, legacy, dir, cache, pc,
                 job, page>>

Configure ==
  /\ ~configured
  /\ configured' = TRUE
  /\ UNCHANGED <<lock, deleting, deleted, begun, disk, cache, pc, job, page>>

(* The user obeys "Run: rm .../cookies.json".                              *)
RemoveLegacy ==
  /\ legacy
  /\ legacy' = FALSE
  /\ UNCHANGED <<lock, profile, keyring, cookies, dir, cache, pc, job, page>>

(* A rotation interval passes; no command runs for that long.  Bound: none *)
(* after a deletion.                                                       *)
Tick ==
  /\ \A p \in Procs : pc[p] = "idle"
  /\ ~deleted
  /\ keyring' = AgedItem(keyring)
  /\ cookies' = IF cookies = NoFile THEN NoFile
                ELSE [cookies EXCEPT !.age = Older(@)]
  /\ <<keyring, cookies>>' # <<keyring, cookies>>
  /\ UNCHANGED <<lock, profile, legacy, dir, cache, pc, job, page>>

----------------------------------------------------------------------------
(* The keychain has nothing, the raw key of an old version or a keystore,  *)
(* and next to each there may be a cookie file: that of a keychain item    *)
(* that is gone, of the raw key, or of the keystore.  The plaintext        *)
(* cookies of an old version may still be there too.                       *)
Init ==
  /\ lock = NoProc
  /\ configured = TRUE /\ deleting = "no" /\ deleted = FALSE /\ begun = FALSE
  /\ keyring \in {NoKeystore, [raw |-> 1], NewKeystore(1)}
  /\ cookies \in {NoFile, [id |-> 1, key |-> 1, age |-> 0]}
  /\ legacy \in BOOLEAN
  /\ dir = (legacy \/ cookies # NoFile)
  /\ cache = [p \in Procs |-> NoKeystore]
  /\ pc = [p \in Procs |-> "idle"]
  /\ job = [p \in Procs |-> NoJob]
  /\ chrome = [p \in Procs |-> "none"]
  /\ paused = [p \in Procs |-> "none"]
  /\ console = "nothing"

(* What the command does by itself, once it runs.                          *)
Step(p) ==
  \/ TakeLock(p) \/ GiveUp(p) \/ Preflight(p) \/ Launch(p)
  \/ ReadCookies(p) \/ ReadKeystore(p) \/ InitKeystore(p) \/ Decrypt(p)
  \/ StartCapture(p) \/ Abort(p) \/ CaptureFails(p)
  \/ StopLoading(p) \/ Disable(p)
  \/ CollectCookies(p) \/ Rotate(p) \/ PersistKeystore(p) \/ WriteCookies(p)
  \/ Close(p)

Next ==
  \/ \E p \in Procs :
       \/ \E r \in Requests : Start(p, r)
       \/ \E kind \in Kinds \ {"late"} : PageRequests(p, kind)
       \/ PagePosts(p)
       \/ Step(p) \/ Intercept(p) \/ PageFails(p) \/ Crash(p)
  \/ DeleteProfile \/ RemoveDir \/ WipeKeyring \/ Configure \/ RemoveLegacy
  \/ Tick

Spec == Init /\ [][Next]_vars

----------------------------------------------------------------------------
(***************************************************************************)
(* Properties.                                                             *)
(***************************************************************************)

(* Type invariant.                                                         *)
TypeOK ==
  /\ lock \in Procs \cup {NoProc}
  /\ configured \in BOOLEAN /\ legacy \in BOOLEAN /\ dir \in BOOLEAN
  /\ console \in Sent /\ deleted \in BOOLEAN /\ begun \in BOOLEAN
  /\ deleting \in {"no", "dir", "keyring"}
  /\ keyring = NoKeystore \/ keyring \in [raw: Key] \/ IsKeystore(keyring)
  /\ cookies \in CookieFile \cup {NoFile}
  /\ \A p \in Procs : cache[p] = NoKeystore \/ IsKeystore(cache[p])
  /\ \A p \in Procs : job[p].store = NoKeystore \/ IsKeystore(job[p].store)
  /\ pc \in [Procs -> PC]
  /\ \A p \in Procs : [job[p] EXCEPT !.store = NoKeystore] \in Job
  /\ chrome \in [Procs -> {"none", "temp", "dir", "remote"}]
  /\ paused \in [Procs -> Paused]

(* The keychain item has the key under the id; a raw key has id 1.         *)
HasKey(item, id, key) ==
  /\ item # NoKeystore
  /\ IF IsRaw(item) THEN id = 1 /\ key = item.raw ELSE Opens(item, id, key)

Readable == cookies # NoFile /\ HasKey(keyring, cookies.id, cookies.key)

(* The remembered session survives rotations, the migration of a raw key,  *)
(* crashes between the saving of a rotated keystore and the writing of the *)
(* file, failed writes and concurrent list-roles: a cookie file that could *)
(* be decrypted stays so, and a new one can be, unless its key was past    *)
(* retention when replaced.  Not while the profile is deleted, nor once a  *)
(* list-roles has begun a keystore of its own.                             *)
KeptWhileYoung ==
  [][~deleted /\ ~begun /\ cookies' # NoFile =>
       \/ Readable' \/ cookies'.age > Retention
       \/ ~Readable /\ cookies # NoFile /\ cookies'.key = cookies.key]_vars

(* A key id comes to stand for another key.                                *)
Rebinds ==
  keyring # NoKeystore
  /\ \E id \in KeyId, key \in KeysIn(keyring) :
       HasKey(keyring, id, key) /\ \E other \in KeysIn(keyring') \ {key} :
                                    HasKey(keyring', id, other)

(* No sign-in overwrites the keystore another one saved or starts it anew, *)
(* and none does when the ids are used up; list-roles, which migrates a    *)
(* raw key without the lock, included, as long as it has a key to go by.   *)
IdsNeverRebound == [][~deleted /\ ~begun => ~Rebinds]_vars

(* The comment at the lock of login: reading and rotating the keystore is  *)
(* "a read-modify-write that must not interleave".  So none of that:       *)
KeystoreNeverInterleaved == [][~deleted => ~Rebinds]_vars

(* decode_cookie_store: a headless local sign-in without a session to use  *)
(* fails at once instead of waiting for its timeout.  Only a store whose   *)
(* cookies have all expired lets it wait; a list-roles may be misled by a  *)
(* deletion next to it, a login never.                                     *)
NoHopelessWait ==
  \A p \in Procs :
    /\ pc[p] = "capture" /\ job[p].headless /\ chrome[p] = "temp"
    /\ deleted => job[p].req.cmd = "login"
    => job[p].session \/ job[p].spent

(* "SAML is captured before console submission": the POST from which a     *)
(* command has read the response it goes on to use does not reach the AWS  *)
(* console, whichever CDP command of the capture fails.                    *)
CapturedFirst == console # "returned"

(* While plaintext cookies of an old version are on disk, no browser is    *)
(* handed a session and no session is saved.                               *)
PlaintextStopsUse ==
  [][legacy => \A p \in Procs :
       /\ pc[p] = "write" => cookies' = cookies
       /\ job'[p].session => job[p].session]_vars
=============================================================================
