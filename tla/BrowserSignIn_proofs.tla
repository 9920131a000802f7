------------------------ MODULE BrowserSignIn_proofs ------------------------
(***************************************************************************)
(* What holds of BrowserSignIn for any number of processes and key ids.    *)
(* The argument goes in layers: Typed (the types, what a job has in it at  *)
(* a point, and who needs the refresh lock), then, each on top of it, that *)
(* plaintext cookies keep everybody away from the store, that the holder   *)
(* of the lock works on the keystore that is in the keychain, and that a   *)
(* headless capture has a session; and, apart from these, that a capture   *)
(* returns no response whose POST is held back still.                      *)
(***************************************************************************)
EXTENDS BrowserSignIn, FiniteSetTheorems, TLAPS

USE KeystoreAssumption, SignInAssumption

----------------------------------------------------------------------------
(* Types.                                                                  *)

Keystores == UNION {[current: ids, keys: [ids -> Version]] : ids \in SUBSET KeyId}
Stores == Keystores \cup {NoKeystore}
Items == Stores \cup [raw: Key]

Chromes == {"none", "temp", "dir", "remote"}

FullJob == [req: Requests \cup {NoRequest}, headless: BOOLEAN,
            persistent: BOOLEAN, file: CookieFile \cup {NoFile},
            store: Stores, session: BOOLEAN, spent: BOOLEAN, ok: BOOLEAN]

WithStore == {"init", "decrypt", "rotate", "persist", "write"}
Outside == {"idle", "saving", "closing"}
Unbrowsed == {"idle", "waiting", "preflight", "launch"}
AtPage == {"waiting", "preflight", "launch", "page", "timeout", "capture",
           "abort", "stop", "disable", "decrypt"}

(* What a process has at a point: its job j, its cached keystore c, its    *)
(* browser b and the request q that browser holds back.                    *)
Fits(j, at, c, b, q) ==
  /\ j \in FullJob /\ at \in PC /\ c \in Stores /\ b \in Chromes /\ q \in Paused
  /\ at \in {"idle", "waiting"} => c = NoKeystore
  /\ at \in Outside => j = NoJob
  /\ at \in AtPage \/ j.file # NoFile => j.req \in Requests
  /\ j.req \in Requests => at \notin Outside
  /\ j.req \in Requests /\ at \notin Unbrowsed => b = Kind(j)
  /\ j.file # NoFile => at \in {"keystore", "init", "decrypt"}
  /\ at = "decrypt" => j.file # NoFile
  /\ at \in WithStore <=> j.store # NoKeystore

(* The points only the holder of the refresh lock reaches.                 *)
NeedsLock(j, at) ==
  \/ j.req \in Requests /\ j.req.cmd = "login" /\ at # "waiting"
  \/ at \in {"saving", "rotate", "persist", "write"}
  \/ at \in {"keystore", "init"} /\ j.file = NoFile

FitsAt(p) == Fits(job[p], pc[p], cache[p], chrome[p], paused[p])

Typed ==
  /\ lock \in Procs \cup {NoProc}
  /\ configured \in BOOLEAN /\ legacy \in BOOLEAN /\ dir \in BOOLEAN
  /\ console \in Sent /\ deleted \in BOOLEAN
  /\ deleting \in {"no", "dir", "keyring"}
  /\ keyring \in Items
  /\ cookies \in CookieFile \cup {NoFile}
  /\ job \in [Procs -> FullJob] /\ pc \in [Procs -> PC]
  /\ cache \in [Procs -> Stores]
  /\ chrome \in [Procs -> Chromes] /\ paused \in [Procs -> Paused]
  /\ \A p \in Procs : FitsAt(p)
  /\ \A p \in Procs : NeedsLock(job[p], pc[p]) => lock = p

----------------------------------------------------------------------------
(* The layers.                                                             *)

(* Nobody is at work on the store while plaintext cookies are on disk.     *)
Working == {"keystore"} \cup WithStore

KeptAway == legacy => \A p \in Procs : pc[p] \notin Working

(* The current id of a keystore is its last.                               *)
Ordered(s) == \A id \in DOMAIN s.keys : id <= s.current

(* A key that the file can be decrypted with is no older in the keystore   *)
(* than the file says.                                                     *)
NoOlder(s, f) == Opens(s, f.id, f.key) => s.keys[f.id].age <= f.age

(* What process p, with job j and cache c at a point, makes of the keystore *)
(* is the item the keychain has, or what that item is to become, when p is *)
(* the owner of the refresh lock.  Who begins a keystore is the owner, or  *)
(* has the raw key to begin it with, which somebody else may have done.    *)
InStep(p, owner, item, j, at, c) ==
  /\ owner = p /\ at # "write" => c \in {NoKeystore, item}
  /\ owner = p /\ at \in {"decrypt", "rotate", "write"} => j.store = item
  /\ at = "init" =>
       \E k \in Key : /\ j.store = NewKeystore(k)
                      /\ \/ owner = p /\ item = NoKeystore
                         \/ item \in {[raw |-> k], NewKeystore(k)}
  /\ at = "persist" =>
       /\ item \in Keystores /\ Due(item) /\ ~Exhausted(item)
       /\ \E k \in Key : j.store = Rotated(item, k)

(* The profile was not deleted, nor a keystore begun without the lock.     *)
Calm == ~deleted /\ ~begun

KeysKept ==
  /\ ~deleted => deleting = "no"
  /\ Calm =>
       /\ keyring \in Keystores => Ordered(keyring)
       /\ keyring \in Keystores /\ cookies # NoFile => NoOlder(keyring, cookies)
       /\ \A p \in Procs : InStep(p, lock, keyring, job[p], pc[p], cache[p])

(* A headless sign-in with a temporary browser has its session, or the     *)
(* cookie file it counts on.                                               *)
Hopeful(j, at) ==
  /\ j.req \in Requests /\ j.headless /\ Kind(j) = "temp"
  /\ deleted => j.req.cmd = "login"
  => /\ at \in {"launch", "page"} /\ j.req.cmd = "list-roles" => cookies # NoFile
     /\ at = "timeout" => j.session \/ j.spent \/ cookies = NoFile
     /\ at = "timeout" /\ j.req.cmd = "list-roles" => j.session \/ j.spent
     /\ at = "capture" => j.session \/ j.spent

AllHopeful == \A p \in Procs : Hopeful(job[p], pc[p])

----------------------------------------------------------------------------
(* Lemmas about keystores.                                                 *)

(* What a keystore is made of.                                             *)
LEMMA KeystoreParts ==
  ASSUME NEW s \in Keystores
  PROVE  /\ IsKeystore(s) /\ s # NoKeystore /\ ~IsRaw(s)
         /\ DOMAIN s.keys \in SUBSET KeyId /\ s.current \in DOMAIN s.keys
         /\ s.keys \in [DOMAIN s.keys -> Version]
         /\ s = [current |-> s.current, keys |-> s.keys]
<1>1. PICK ids \in SUBSET KeyId : s \in [current: ids, keys: [ids -> Version]]
  BY DEF Keystores
<1>2. IsKeystore(s)
  BY <1>1 DEF IsKeystore
<1>3. DOMAIN s = {"current", "keys"}
  BY <1>1
<1> QED BY <1>1, <1>2, <1>3 DEF IsRaw

(* A record of a current id and the versions under some ids is a keystore. *)
LEMMA KeystoreMade ==
  ASSUME NEW ids \in SUBSET KeyId, NEW id \in ids, NEW f \in [ids -> Version]
  PROVE  [current |-> id, keys |-> f] \in Keystores
BY DEF Keystores

(* IsKeystore picks out the keystores among all values.                    *)
LEMMA KeystoreIsOne == \A s : IsKeystore(s) <=> s \in Keystores
BY DEF IsKeystore, Keystores

(* A raw key is no keystore, and a missing item neither.                   *)
LEMMA RawParts ==
  /\ \A item \in [raw: Key] : IsRaw(item) /\ item.raw \in Key /\ item \notin Stores
  /\ NoKeystore \notin Keystores /\ ~IsRaw(NoKeystore)
<1>1. NoKeystore \notin Keystores /\ ~IsRaw(NoKeystore)
  BY KeystoreIsOne DEF IsRaw
<1>2. ASSUME NEW item \in [raw: Key]
      PROVE  IsRaw(item) /\ item.raw \in Key /\ item \notin Stores
  <2>1. DOMAIN item = {"raw"} /\ item # NoKeystore
    OBVIOUS
  <2>2. IsRaw(item)
    BY <2>1 DEF IsRaw
  <2> QED BY <2>1, <2>2, KeystoreParts DEF Stores
<1> QED BY <1>1, <1>2

(* The three kinds of keychain items.                                      *)
LEMMA ItemKinds ==
  ASSUME NEW item \in Items
  PROVE  /\ item \notin Keystores <=> item = NoKeystore \/ IsRaw(item)
         /\ IsRaw(item) => item \in [raw: Key]
BY KeystoreParts, RawParts DEF Items, Stores

(* A keystore that has just been begun, which is not due for rotation.     *)
LEMMA NewParts ==
  ASSUME NEW k \in Key
  PROVE  LET s == NewKeystore(k)
         IN  /\ s \in Keystores /\ Ordered(s) /\ ~Due(s)
             /\ DOMAIN s.keys = {1} /\ s.keys[1].key = k /\ s.keys[1].age = 0
<1> DEFINE f == [id \in {1} |-> [key |-> k, age |-> 0]]
<1>1. NewKeystore(k) = [current |-> 1, keys |-> f]
  BY DEF NewKeystore
<1>2. f \in [{1} -> Version] /\ {1} \in SUBSET KeyId /\ f[1] = [key |-> k, age |-> 0]
  BY DEF Version, Age, KeyId
<1> HIDE DEF f
<1>3. NewKeystore(k) \in Keystores
  BY <1>1, <1>2, KeystoreMade
<1>4. Ordered(NewKeystore(k))
  BY <1>1, <1>2 DEF Ordered
<1>5. ~Due(NewKeystore(k))
  <2>1. Current(NewKeystore(k)).age = 0
    BY <1>1, <1>2 DEF Current
  <2> QED BY <2>1 DEF Due
<1> QED BY <1>1, <1>2, <1>3, <1>4, <1>5

(* What load_or_init_store makes of an item that is no keystore.           *)
LEMMA InitialParts ==
  ASSUME NEW item \in Items, item \notin Keystores, NEW k \in Key
  PROVE  /\ Initial(item, k) \in Keystores
         /\ IsRaw(item) => /\ item.raw \in Key /\ item = [raw |-> item.raw]
                           /\ Initial(item, k) = NewKeystore(item.raw)
         /\ ~IsRaw(item) => item = NoKeystore /\ Initial(item, k) = NewKeystore(k)
<1>1. IsRaw(item) => item \in [raw: Key] /\ item.raw \in Key /\ item = [raw |-> item.raw]
  BY ItemKinds
<1>2. IsRaw(item) \/ item = NoKeystore
  BY ItemKinds
<1> QED BY <1>1, <1>2, NewParts DEF Initial

(* A rotation makes a keystore, whose current key is the last, in which    *)
(* every key that is young enough is still what it was.                    *)
LEMMA RotatedParts ==
  ASSUME NEW s \in Keystores, ~Exhausted(s), NEW k \in Key
  PROVE  LET t == Rotated(s, k)
         IN  /\ t \in Keystores
             /\ Ordered(s) => Ordered(t)
             /\ \A id \in DOMAIN s.keys :
                  Ordered(s) /\ id \in DOMAIN t.keys => t.keys[id] = s.keys[id]
             /\ \A id \in DOMAIN s.keys :
                  s.keys[id].age <= Retention => id \in DOMAIN t.keys
             /\ \A id \in DOMAIN t.keys :
                  \/ id \in DOMAIN s.keys /\ t.keys[id] = s.keys[id]
                  \/ t.keys[id].age = 0
<1> DEFINE id == s.current + 1
           kept == {i \in DOMAIN s.keys : s.keys[i].age <= Retention}
           f == [i \in kept \cup {id} |-> IF i = id THEN [key |-> k, age |-> 0] ELSE s.keys[i]]
<1>1. /\ DOMAIN s.keys \in SUBSET KeyId /\ s.current \in DOMAIN s.keys
      /\ s.keys \in [DOMAIN s.keys -> Version]
  BY KeystoreParts
<1>2. id \in KeyId
  BY <1>1 DEF KeyId, Exhausted
<1>3. [key |-> k, age |-> 0] \in Version
  BY DEF Version, Age
<1>4. kept \cup {id} \in SUBSET KeyId /\ f \in [kept \cup {id} -> Version]
  BY <1>1, <1>2, <1>3
<1>5. Rotated(s, k) = [current |-> id, keys |-> f]
  BY DEF Rotated
<1>6. Rotated(s, k) \in Keystores
  BY <1>4, <1>5, KeystoreMade
<1>7. /\ Rotated(s, k).current = id /\ DOMAIN Rotated(s, k).keys = kept \cup {id}
      /\ \A i \in kept \cup {id} :
           i # id => Rotated(s, k).keys[i] = s.keys[i]
      /\ Rotated(s, k).keys[id].age = 0
  BY <1>5
<1>8. Ordered(s) => \A i \in DOMAIN s.keys : i <= s.current /\ i # id
  BY <1>1 DEF Ordered, KeyId
<1>9. Ordered(s) => Ordered(Rotated(s, k))
  BY <1>1, <1>7, <1>8 DEF Ordered, KeyId
<1> QED BY <1>6, <1>7, <1>8, <1>9

(* Time keeps the keys where they are.                                     *)
LEMMA AgedParts ==
  ASSUME NEW item \in Items
  PROVE  /\ AgedItem(item) \in Items
         /\ item \notin Keystores => AgedItem(item) = item
         /\ item \in Keystores =>
              /\ AgedItem(item) \in Keystores
              /\ AgedItem(item).current = item.current
              /\ DOMAIN AgedItem(item).keys = DOMAIN item.keys
              /\ \A id \in DOMAIN item.keys :
                   /\ AgedItem(item).keys[id].key = item.keys[id].key
                   /\ AgedItem(item).keys[id].age = Older(item.keys[id].age)
<1>1. CASE item \notin Keystores
  BY <1>1, ItemKinds DEF AgedItem
<1>2. CASE item \in Keystores
  <2> DEFINE f == [id \in DOMAIN item.keys |-> [item.keys[id] EXCEPT !.age = Older(@)]]
  <2>1. /\ DOMAIN item.keys \in SUBSET KeyId /\ item.current \in DOMAIN item.keys
        /\ item.keys \in [DOMAIN item.keys -> Version]
        /\ item = [current |-> item.current, keys |-> item.keys]
        /\ item # NoKeystore /\ ~IsRaw(item)
    BY <1>2, KeystoreParts
  <2>2. AgedItem(item) = [current |-> item.current, keys |-> f]
    BY <2>1 DEF AgedItem
  <2>3. ASSUME NEW id \in DOMAIN item.keys
        PROVE  /\ f[id] \in Version
               /\ f[id].key = item.keys[id].key
               /\ f[id].age = Older(item.keys[id].age)
    <3>1. item.keys[id] \in Version
      BY <2>1
    <3>2. Older(item.keys[id].age) \in Age
      BY <3>1 DEF Older, Version, Age
    <3> QED BY <3>1, <3>2 DEF Version
  <2>4. f \in [DOMAIN item.keys -> Version]
    BY <2>3
  <2>5. AgedItem(item) \in Keystores
    BY <2>1, <2>2, <2>4, KeystoreMade
  <2> HIDE DEF f
  <2> QED BY <1>2, <2>2, <2>3, <2>4, <2>5 DEF Items, Stores
<1> QED BY <1>1, <1>2

----------------------------------------------------------------------------
(* A fresh key is a key.                                                   *)

(* The image of a finite set under a function is finite.                   *)
LEMMA FiniteImage ==
  ASSUME NEW S, IsFiniteSet(S), NEW g, NEW T,
         \A t : t \in T <=> \E x \in S : t = g[x]
  PROVE  IsFiniteSet(T)
<1> DEFINE f == [x \in S |-> g[x]]
<1>1. f \in Surjection(S, T)
  BY DEF Surjection
<1> HIDE DEF f
<1> QED BY <1>1, FS_Surjection

(* An item holds finitely many keys.                                       *)
LEMMA FiniteKeys ==
  ASSUME NEW item \in Items
  PROVE  IsFiniteSet(KeysIn(item))
<1>1. CASE item = NoKeystore
  BY <1>1, FS_EmptySet DEF KeysIn
<1>2. CASE IsRaw(item)
  BY <1>2, FS_Singleton DEF KeysIn, IsRaw
<1>3. CASE item \in Keystores
  <2> DEFINE ids == DOMAIN item.keys
             g == [id \in ids |-> item.keys[id].key]
  <2>1. IsFiniteSet(ids)
    <3>1. ids \in SUBSET KeyId
      BY <1>3, KeystoreParts
    <3>2. IsFiniteSet(KeyId)
      BY ONLY KeystoreAssumption, FS_Interval DEF KeyId
    <3> QED BY <3>1, <3>2, FS_Subset
  <2>2. \A k : k \in KeysIn(item) <=> \E id \in ids : k = g[id]
    BY <1>3, KeystoreParts DEF KeysIn
  <2> HIDE DEF g
  <2> QED BY <2>1, <2>2, FiniteImage
<1> QED BY <1>1, <1>2, <1>3, ItemKinds

(* There is a key nobody has, and it is a key.                             *)
LEMMA FreshKeyType == Typed => FreshKey \in Key
<1> SUFFICES ASSUME Typed PROVE FreshKey \in Key
  OBVIOUS
<1> DEFINE cached == {cache[p] : p \in Procs}
           held == {job[p].store : p \in Procs}
           read == {job[p].file : p \in Procs}
           items == {keyring} \cup cached \cup held
           files == ({cookies} \cup read) \ {NoFile}
           keysets == {KeysIn(item) : item \in items}
           fileKeys == {f.key : f \in files}
           used == (UNION keysets) \cup fileKeys
<1>1. IsFiniteSet(cached)
  <2>1. \A s : s \in cached <=> \E p \in Procs : s = cache[p]
    OBVIOUS
  <2> HIDE DEF cached
  <2> QED BY <2>1, FiniteImage
<1>2. IsFiniteSet(held)
  <2> DEFINE g == [p \in Procs |-> job[p].store]
  <2>1. \A s : s \in held <=> \E p \in Procs : s = g[p]
    OBVIOUS
  <2> HIDE DEF held, g
  <2> QED BY <2>1, FiniteImage
<1>3. IsFiniteSet(read)
  <2> DEFINE g == [p \in Procs |-> job[p].file]
  <2>1. \A f : f \in read <=> \E p \in Procs : f = g[p]
    OBVIOUS
  <2> HIDE DEF read, g
  <2> QED BY <2>1, FiniteImage
<1>4. items \subseteq Items
  BY DEF Typed, FullJob, Items
<1> HIDE DEF cached, held, read
<1>5. IsFiniteSet(items)
  BY <1>1, <1>2, FS_Singleton, FS_Union
<1>6. IsFiniteSet(files)
  <2>1. IsFiniteSet({cookies} \cup read)
    BY <1>3, FS_Singleton, FS_Union
  <2> QED BY <2>1, FS_Difference
<1> HIDE DEF items, files
<1>7. IsFiniteSet(keysets)
  <2> DEFINE g == [item \in items |-> KeysIn(item)]
  <2>1. \A s : s \in keysets <=> \E item \in items : s = g[item]
    OBVIOUS
  <2> HIDE DEF keysets, g
  <2> QED BY <1>5, <2>1, FiniteImage
<1>8. IsFiniteSet(fileKeys)
  <2> DEFINE g == [f \in files |-> f.key]
  <2>1. \A k : k \in fileKeys <=> \E f \in files : k = g[f]
    OBVIOUS
  <2> HIDE DEF fileKeys, g
  <2> QED BY <1>6, <2>1, FiniteImage
<1>9. \A T \in keysets : IsFiniteSet(T)
  BY <1>4, FiniteKeys
<1> HIDE DEF keysets, fileKeys
<1>10. IsFiniteSet(used)
  <2>1. IsFiniteSet(UNION keysets)
    BY <1>7, <1>9, FS_UNION
  <2> QED BY <1>8, <2>1, FS_Union
<1> HIDE DEF used
<1>11. Cardinality(used) \in Nat
  BY <1>10, FS_CardinalityType
<1>12. \E k \in 1..(Cardinality(used) + 1) : k \notin used
  <2> SUFFICES ASSUME 1..(Cardinality(used) + 1) \in SUBSET used PROVE FALSE
    OBVIOUS
  <2>1. Cardinality(1..(Cardinality(used) + 1)) <= Cardinality(used)
    BY <1>10, FS_Subset
  <2>2. Cardinality(1..(Cardinality(used) + 1)) = Cardinality(used) + 1
    BY <1>11, FS_Interval
  <2> QED BY <1>11, <2>1, <2>2
<1>13. FreshKey = CHOOSE k \in 1..(Cardinality(used) + 1) : k \notin used
  BY DEF FreshKey, used, items, files, cached, held, read, keysets, fileKeys
<1> QED BY <1>11, <1>12, <1>13 DEF Key

----------------------------------------------------------------------------
(* One process moves.                                                      *)

(* The blank job is a job, at the points where there is none.              *)
LEMMA NoJobFits ==
  /\ NoJob \in FullJob /\ NoJob.req \notin Requests
  /\ NoJob.file = NoFile /\ NoJob.store = NoKeystore /\ ~NoJob.session
  /\ NoJob.ok = FALSE
BY DEF NoJob, FullJob, Stores

(* What Typed says of one process.                                         *)
LEMMA OneFits ==
  ASSUME Typed, NEW p \in Procs
  PROVE  /\ FitsAt(p) /\ (NeedsLock(job[p], pc[p]) => lock = p)
         /\ job[p] \in FullJob /\ pc[p] \in PC /\ cache[p] \in Stores
         /\ chrome[p] \in Chromes /\ paused[p] \in Paused
         /\ [pc EXCEPT ![p] = pc[p]] = pc /\ [job EXCEPT ![p] = job[p]] = job
         /\ [cache EXCEPT ![p] = cache[p]] = cache
         /\ [chrome EXCEPT ![p] = chrome[p]] = chrome
         /\ [paused EXCEPT ![p] = paused[p]] = paused
BY DEF Typed

(* A step that takes one process to where its job fits, and leaves the lock*)
(* to whom it belongs, keeps the types.                                    *)
LEMMA OneMoves ==
  ASSUME Typed, NEW p \in Procs, NEW j, NEW at, NEW c, NEW b, NEW q,
         Fits(j, at, c, b, q),
         job' = [job EXCEPT ![p] = j], pc' = [pc EXCEPT ![p] = at],
         cache' = [cache EXCEPT ![p] = c],
         chrome' = [chrome EXCEPT ![p] = b], paused' = [paused EXCEPT ![p] = q],
         NeedsLock(j, at) => lock' = p,
         \/ lock' = lock
         \/ lock = NoProc /\ lock' = p
         \/ lock = p /\ lock' = NoProc,
         dir' \in BOOLEAN, console' \in Sent,
         keyring' \in Items,
         cookies' \in CookieFile \cup {NoFile},
         UNCHANGED <<config, legacy>>
  PROVE  Typed'
<1>1. /\ job' \in [Procs -> FullJob] /\ pc' \in [Procs -> PC]
      /\ cache' \in [Procs -> Stores]
      /\ chrome' \in [Procs -> Chromes] /\ paused' \in [Procs -> Paused]
  BY DEF Typed, Fits
<1>2. /\ job'[p] = j /\ pc'[p] = at /\ cache'[p] = c
      /\ chrome'[p] = b /\ paused'[p] = q
  BY DEF Typed
<1>3. ASSUME NEW o \in Procs, o # p
      PROVE  /\ job'[o] = job[o] /\ pc'[o] = pc[o] /\ cache'[o] = cache[o]
             /\ chrome'[o] = chrome[o] /\ paused'[o] = paused[o]
  BY <1>3 DEF Typed
<1>4. lock' \in Procs \cup {NoProc}
  BY DEF Typed
<1>5. ASSUME NEW o \in Procs PROVE FitsAt(o)'
  <2>1. CASE o = p
    BY <1>2, <2>1 DEF FitsAt
  <2>2. CASE o # p
    BY <1>3, <2>2 DEF FitsAt, Typed
  <2> QED BY <2>1, <2>2
<1>6. ASSUME NEW o \in Procs, NeedsLock(job'[o], pc'[o]) PROVE lock' = o
  <2>1. CASE o = p
    BY <1>2, <1>6, <2>1
  <2>2. CASE o # p
    <3>1. lock = o
      BY <1>3, <1>6, <2>2 DEF Typed
    <3> QED BY <2>2, <3>1
  <2> QED BY <2>1, <2>2
<1> QED BY <1>1, <1>4, <1>5, <1>6 DEF Typed, config

----------------------------------------------------------------------------
(* Each action keeps the types.                                            *)

(* What is on disk, and what a step may leave alone.                        *)
LEMMA DiskTypes ==
  /\ Typed => /\ dir \in BOOLEAN /\ console \in Sent /\ keyring \in Items
              /\ cookies \in CookieFile \cup {NoFile}
  /\ UNCHANGED disk => UNCHANGED <<dir, keyring, cookies, legacy>>
  /\ UNCHANGED page => UNCHANGED <<chrome, paused, console>>
  /\ UNCHANGED profile => UNCHANGED config
BY DEF Typed, disk, page, profile

(* The process goes on with the browser, and the lock, it has.             *)
LEMMA OneGoesOn ==
  ASSUME Typed, NEW p \in Procs, NEW j, NEW at, NEW c,
         Fits(j, at, c, chrome[p], paused[p]),
         NeedsLock(j, at) => lock = p,
         job' = [job EXCEPT ![p] = j], pc' = [pc EXCEPT ![p] = at],
         cache' = [cache EXCEPT ![p] = c],
         dir' \in BOOLEAN, keyring' \in Items,
         cookies' \in CookieFile \cup {NoFile},
         UNCHANGED <<lock, config, page, legacy>>
  PROVE  Typed'
<1>1. chrome' = [chrome EXCEPT ![p] = chrome[p]] /\ paused' = [paused EXCEPT ![p] = paused[p]]
  BY OneFits DEF page
<1>2. console' \in Sent /\ lock' = lock
  BY DEF Typed, page
<1> QED BY <1>1, <1>2, OneMoves

(* A command that ends keeps the types.                                    *)
LEMMA EndsTyped ==
  ASSUME Typed, NEW p \in Procs, Ends(p), dir' \in BOOLEAN,
         UNCHANGED <<config, keyring, cookies, legacy, console>>
  PROVE  Typed'
<1>1. Fits(NoJob, "idle", NoKeystore, "none", "none")
  BY NoJobFits DEF Fits, Stores, Chromes, Paused, PC, Outside, AtPage, WithStore
<1>2. ~NeedsLock(NoJob, "idle")
  BY NoJobFits DEF NeedsLock
<1>3. \/ lock' = lock
      \/ lock = p /\ lock' = NoProc
  BY DEF Ends
<1> QED BY <1>1, <1>2, <1>3, OneMoves, DiskTypes DEF Ends, Goto

(* The browser has done its part.                                          *)
LEMMA LeavesTyped ==
  ASSUME Typed, NEW p \in Procs, Leaves(p), NEW c \in Stores,
         cache' = [cache EXCEPT ![p] = c],
         dir' \in BOOLEAN, keyring' \in Items,
         cookies' \in CookieFile \cup {NoFile},
         UNCHANGED <<lock, config, page, legacy>>
  PROVE  Typed'
<1>1. Fits(NoJob, "closing", c, chrome[p], paused[p])
  BY NoJobFits, OneFits DEF FitsAt, Fits, PC, Outside, AtPage, WithStore
<1>2. ~NeedsLock(NoJob, "closing")
  BY NoJobFits DEF NeedsLock
<1> QED BY <1>1, <1>2, OneGoesOn DEF Leaves, Goto

(* So does one that gets no cookies, and leaves or goes on.                *)
LEMMA NotInjectedTyped ==
  ASSUME Typed, NEW p \in Procs, NotInjected(p), NEW c \in Stores,
         pc[p] = "page" \/ job[p].file # NoFile,
         cache' = [cache EXCEPT ![p] = c],
         UNCHANGED <<lock, config, page, disk>>
  PROVE  Typed'
<1> DEFINE j == [job[p] EXCEPT !.file = NoFile, !.store = NoKeystore]
<1>0. pc[p] \in {"page", "keystore", "init", "decrypt"}
  BY OneFits DEF FitsAt, Fits
<1>1. CASE Leaves(p)
  BY <1>0, <1>1, LeavesTyped, DiskTypes DEF disk
<1>2. CASE Goto(p, "timeout") /\ job' = [job EXCEPT ![p].file = NoFile, ![p].store = NoKeystore]
  <2>1. job' = [job EXCEPT ![p] = j]
    BY <1>2 DEF Typed
  <2>2. /\ j \in FullJob /\ j.file = NoFile /\ j.store = NoKeystore
        /\ j.req = job[p].req /\ Kind(j) = Kind(job[p])
    <3>1. job[p] \in FullJob
      BY OneFits
    <3> QED BY ONLY <3>1 DEF FullJob, Stores, Kind
  <2> HIDE DEF j
  <2>3. Fits(j, "timeout", c, chrome[p], paused[p])
    BY <1>0, <2>2, OneFits DEF FitsAt, Fits, PC, Outside, AtPage, WithStore, Unbrowsed
  <2>4. NeedsLock(j, "timeout") => lock = p
    BY <1>0, <2>2, OneFits DEF NeedsLock
  <2> QED BY <1>2, <2>1, <2>3, <2>4, OneGoesOn, DiskTypes DEF Goto, disk
<1> QED BY <1>1, <1>2 DEF NotInjected

(* The steps up to the running browser keep the types.                     *)
LEMMA LaunchingTyped ==
  ASSUME Typed, NEW p \in Procs,
         \/ \E r \in Requests : Start(p, r)
         \/ TakeLock(p) \/ GiveUp(p) \/ Preflight(p) \/ Launch(p)
  PROVE  Typed'
<1> USE OneFits, DiskTypes
<1>1. ASSUME NEW r \in Requests, Start(p, r) PROVE Typed'
  <2> DEFINE j == [NoJob EXCEPT !.req = r]
             at == IF r.cmd = "login" THEN "waiting" ELSE "preflight"
  <2>1. /\ j \in FullJob /\ j.req = r /\ j.file = NoFile /\ j.store = NoKeystore
    BY NoJobFits DEF FullJob, NoJob
  <2> HIDE DEF j
  <2>2. Fits(j, at, cache[p], chrome[p], paused[p])
    BY <1>1, <2>1 DEF Start, FitsAt, Fits, PC, Outside, AtPage, WithStore, Unbrowsed
  <2>3. ~NeedsLock(j, at)
    BY <2>1 DEF NeedsLock
  <2>4. cache' = [cache EXCEPT ![p] = cache[p]] /\ job' = [job EXCEPT ![p] = j]
    BY <1>1 DEF Start, Typed, j
  <2>5. pc' = [pc EXCEPT ![p] = at]
    BY <1>1 DEF Start, Goto
  <2>6. UNCHANGED <<lock, config, page, disk>>
    BY <1>1 DEF Start, profile
  <2> QED BY <2>2, <2>3, <2>4, <2>5, <2>6, OneGoesOn
<1>2. CASE TakeLock(p)
  <2>1. Fits(job[p], "preflight", cache[p], chrome[p], paused[p])
    BY <1>2 DEF TakeLock, FitsAt, Fits, PC, Outside, AtPage, WithStore, Unbrowsed
  <2>2. /\ job' = [job EXCEPT ![p] = job[p]] /\ cache' = [cache EXCEPT ![p] = cache[p]]
        /\ chrome' = [chrome EXCEPT ![p] = chrome[p]]
        /\ paused' = [paused EXCEPT ![p] = paused[p]]
    BY <1>2 DEF TakeLock, Typed, page
  <2>3. /\ UNCHANGED <<config, disk, page>> /\ lock = NoProc /\ lock' = p
        /\ pc' = [pc EXCEPT ![p] = "preflight"]
    BY <1>2 DEF TakeLock, Goto, profile
  <2>4. /\ dir' \in BOOLEAN /\ console' \in Sent /\ keyring' \in Items
        /\ cookies' \in CookieFile \cup {NoFile}
        /\ UNCHANGED <<config, legacy>>
    BY <2>3
  <2> QED BY ONLY Typed, p \in Procs, <2>1, <2>2, <2>3, <2>4, OneMoves
<1>3. CASE GiveUp(p)
  BY <1>3, EndsTyped DEF profile, GiveUp, disk
<1>4. CASE Preflight(p)
  <2> DEFINE j == [job[p] EXCEPT !.persistent = Persistent(job[p].req),
                                 !.headless = Headless(job[p].req)]
  <2>0. job[p].req \in Request
    BY <1>4 DEF Preflight, FitsAt, Fits, AtPage
  <2>1. Persistent(job[p].req) \in BOOLEAN /\ Headless(job[p].req) \in BOOLEAN
    BY <2>0 DEF Persistent, Headless, Request, Typed
  <2>2. job' = [job EXCEPT ![p] = j]
    BY <1>4 DEF Preflight, Typed
  <2>3. /\ j \in FullJob /\ j.req = job[p].req /\ j.file = job[p].file
        /\ j.store = job[p].store
    BY <2>0, <2>1 DEF FullJob
  <2> HIDE DEF j
  <2>4. Fits(j, "launch", cache[p], chrome[p], paused[p])
    BY <1>4, <2>3 DEF Preflight, FitsAt, Fits, PC, Outside, AtPage, WithStore, Unbrowsed
  <2>5. NeedsLock(j, "launch") => lock = p
    BY <1>4, <2>3 DEF Preflight, NeedsLock
  <2>6. cache' = [cache EXCEPT ![p] = cache[p]]
    BY <1>4 DEF Preflight, Typed
  <2>7. UNCHANGED <<lock, config, page, disk>> /\ pc' = [pc EXCEPT ![p] = "launch"]
    BY <1>4 DEF Preflight, Goto, profile
  <2> QED BY <2>2, <2>4, <2>5, <2>6, <2>7, OneGoesOn
<1>5. CASE Launch(p)
  <2>1. dir' \in BOOLEAN
    BY <1>5 DEF Launch, profile
  <2>2. CASE Ends(p)
    BY <1>5, <2>1, <2>2, EndsTyped DEF Launch, profile
  <2>3. CASE ~Ends(p)
    <3> DEFINE b == Kind(job[p])
    <3>1. b \in Chromes
      BY DEF Kind, Chromes
    <3>2. /\ chrome' = [chrome EXCEPT ![p] = b] /\ pc' = [pc EXCEPT ![p] = "page"]
          /\ UNCHANGED <<lock, cache, job, paused>>
      BY <1>5, <2>3 DEF Launch, Goto
    <3>3. Fits(job[p], "page", cache[p], b, paused[p])
      BY <1>5, <3>1 DEF Launch, FitsAt, Fits, PC, Outside, AtPage, WithStore, Unbrowsed
    <3>4. NeedsLock(job[p], "page") => lock = p
      BY <1>5 DEF Launch, NeedsLock
    <3>5. /\ job' = [job EXCEPT ![p] = job[p]] /\ cache' = [cache EXCEPT ![p] = cache[p]]
          /\ paused' = [paused EXCEPT ![p] = paused[p]]
      BY <3>2 DEF Typed
    <3> HIDE DEF b
    <3>6. UNCHANGED <<config, keyring, cookies, legacy, console>>
      BY <1>5 DEF Launch, profile
    <3>7. /\ console' \in Sent /\ keyring' \in Items
          /\ cookies' \in CookieFile \cup {NoFile}
          /\ NeedsLock(job[p], "page") => lock' = p
          /\ lock' = lock
          /\ UNCHANGED <<config, legacy>>
      BY <3>2, <3>4, <3>6
    <3>8. chrome' = [chrome EXCEPT ![p] = b] /\ pc' = [pc EXCEPT ![p] = "page"]
      BY <3>2
    <3> QED BY ONLY Typed, p \in Procs, <2>1, <3>3, <3>5, <3>7, <3>8, OneMoves
  <2> QED BY <2>2, <2>3
<1> QED BY <1>1, <1>2, <1>3, <1>4, <1>5

(* The process has a keystore to decrypt, or to encrypt, with.             *)
LEMMA UseStoreTyped ==
  ASSUME Typed, NEW p \in Procs, NEW store \in Keystores, UseStore(p, store),
         pc[p] \in {"keystore", "init"}, keyring' \in Items,
         UNCHANGED <<lock, config, cookies, legacy, dir, cache, page>>
  PROVE  Typed'
<1> DEFINE j == [job[p] EXCEPT !.store = store]
           at == IF Injecting(p) THEN "decrypt" ELSE "rotate"
<1>1. /\ j \in FullJob /\ j.file = job[p].file /\ j.req = job[p].req
      /\ j.store = store /\ Kind(j) = Kind(job[p]) /\ store # NoKeystore
  BY OneFits, KeystoreParts DEF FullJob, Kind, Stores
<1>2. job' = [job EXCEPT ![p] = j] /\ pc' = [pc EXCEPT ![p] = at]
  BY DEF UseStore, Goto, Typed
<1> HIDE DEF j
<1>3. Fits(j, at, cache[p], chrome[p], paused[p])
  BY <1>1, OneFits DEF FitsAt, Fits, PC, Outside, AtPage, WithStore, Unbrowsed, Injecting
<1>4. NeedsLock(j, at) => lock = p
  BY <1>1, OneFits DEF NeedsLock, Injecting
<1>5. cache' = [cache EXCEPT ![p] = cache[p]]
  BY OneFits
<1>6. dir' \in BOOLEAN /\ cookies' \in CookieFile \cup {NoFile}
  BY DiskTypes
<1> QED BY <1>2, <1>3, <1>4, <1>5, <1>6, OneGoesOn

(* So does a failure of the keystore.                                      *)
LEMMA NoKeyTyped ==
  ASSUME Typed, NEW p \in Procs, NoKey(p), pc[p] \in {"keystore", "init"},
         UNCHANGED <<lock, config, disk, cache, page>>
  PROVE  Typed'
<1>1. cache' = [cache EXCEPT ![p] = cache[p]] /\ cache[p] \in Stores
  BY OneFits
<1>2. CASE job[p].file # NoFile
  BY <1>1, <1>2, NotInjectedTyped DEF NoKey, Injecting
<1>3. CASE job[p].file = NoFile
  BY <1>1, <1>3, LeavesTyped, DiskTypes DEF NoKey, Injecting
<1> QED BY <1>2, <1>3

(* The process stays with its job, at another point.                       *)
LEMMA OneStays ==
  ASSUME Typed, NEW p \in Procs, NEW at,
         Fits(job[p], at, cache[p], chrome[p], paused[p]),
         NeedsLock(job[p], at) => lock = p,
         pc' = [pc EXCEPT ![p] = at],
         dir' \in BOOLEAN, keyring' \in Items,
         UNCHANGED <<lock, config, cookies, legacy, cache, job, page>>
  PROVE  Typed'
<1>1. job' = [job EXCEPT ![p] = job[p]] /\ cache' = [cache EXCEPT ![p] = cache[p]]
  BY OneFits
<1> QED BY <1>1, OneGoesOn, DiskTypes

(* The steps that read cookies and keystore keep the types.                *)
LEMMA InjectionTyped ==
  ASSUME Typed, NEW p \in Procs,
         ReadCookies(p) \/ ReadKeystore(p) \/ InitKeystore(p) \/ Decrypt(p)
  PROVE  Typed'
<1>0. cache' = cache => cache' = [cache EXCEPT ![p] = cache[p]] /\ cache[p] \in Stores
  BY OneFits
<1>1. CASE ReadCookies(p)
  <2>0. pc[p] = "page" /\ UNCHANGED <<lock, config, disk, cache, page>>
    BY <1>1 DEF ReadCookies, profile
  <2>1. CASE NotInjected(p)
    BY <1>0, <2>0, <2>1, NotInjectedTyped
  <2>2. CASE Goto(p, "timeout") /\ UNCHANGED job
    <3>1. Fits(job[p], "timeout", cache[p], chrome[p], paused[p])
      BY <2>0, OneFits DEF FitsAt, Fits, PC, Outside, AtPage, WithStore, Unbrowsed
    <3>2. NeedsLock(job[p], "timeout") => lock = p
      BY <2>0, OneFits DEF NeedsLock
    <3> QED BY <2>0, <2>2, <3>1, <3>2, OneStays, DiskTypes DEF Goto
  <2>3. CASE /\ cookies # NoFile /\ Goto(p, "keystore")
             /\ job' = [job EXCEPT ![p].file = cookies]
    <3> DEFINE j == [job[p] EXCEPT !.file = cookies]
    <3>1. /\ j \in FullJob /\ j.file # NoFile /\ j.req = job[p].req
          /\ j.store = job[p].store /\ Kind(j) = Kind(job[p])
      BY <2>3, OneFits, DiskTypes DEF FullJob, Kind
    <3>2. job' = [job EXCEPT ![p] = j] /\ pc' = [pc EXCEPT ![p] = "keystore"]
      BY <2>3 DEF Goto, Typed
    <3> HIDE DEF j
    <3>3. Fits(j, "keystore", cache[p], chrome[p], paused[p])
      BY <2>0, <3>1, OneFits DEF FitsAt, Fits, PC, Outside, AtPage, WithStore, Unbrowsed
    <3>4. NeedsLock(j, "keystore") => lock = p
      BY <2>0, <3>1, OneFits DEF NeedsLock
    <3>5. /\ dir' \in BOOLEAN /\ keyring' \in Items
          /\ cookies' \in CookieFile \cup {NoFile} /\ UNCHANGED legacy
      BY <2>0, DiskTypes
    <3> QED BY <1>0, <2>0, <3>2, <3>3, <3>4, <3>5, OneGoesOn
  <2> QED BY <1>1, <2>1, <2>2, <2>3 DEF ReadCookies, profile
<1>2. CASE ReadKeystore(p)
  <2>0. pc[p] = "keystore" /\ UNCHANGED <<lock, config, disk, cache, page>>
    BY <1>2 DEF ReadKeystore, profile
  <2>1. CASE FromCache(p) /\ UseStore(p, cache[p])
    <3>1. cache[p] \in Keystores
      BY <2>1, OneFits DEF FromCache, Stores
    <3> QED BY <2>0, <2>1, <3>1, UseStoreTyped, DiskTypes
  <2>2. CASE NoKey(p)
    BY <2>0, <2>2, NoKeyTyped
  <2>3. CASE /\ keyring \notin Keystores
             /\ job' = [job EXCEPT ![p].store = Initial(keyring, FreshKey)]
             /\ Goto(p, "init")
    <3> DEFINE s == Initial(keyring, FreshKey)
               j == [job[p] EXCEPT !.store = s]
    <3>1. s \in Keystores
      BY <2>3, FreshKeyType, DiskTypes, InitialParts
    <3> HIDE DEF s
    <3>2. /\ j \in FullJob /\ j.file = job[p].file /\ j.req = job[p].req
          /\ j.store = s /\ s # NoKeystore /\ Kind(j) = Kind(job[p])
      BY <3>1, OneFits, KeystoreParts DEF FullJob, Kind, Stores
    <3>3. job' = [job EXCEPT ![p] = j] /\ pc' = [pc EXCEPT ![p] = "init"]
      BY <2>3 DEF Goto, Typed, s
    <3> HIDE DEF j
    <3>4. Fits(j, "init", cache[p], chrome[p], paused[p])
      BY <2>0, <3>2, OneFits DEF FitsAt, Fits, PC, Outside, AtPage, WithStore, Unbrowsed
    <3>5. NeedsLock(j, "init") => lock = p
      BY <2>0, <3>2, OneFits DEF NeedsLock
    <3>6. /\ dir' \in BOOLEAN /\ keyring' \in Items
          /\ cookies' \in CookieFile \cup {NoFile} /\ UNCHANGED legacy
      BY <2>0, DiskTypes
    <3> QED BY <1>0, <2>0, <3>3, <3>4, <3>5, <3>6, OneGoesOn
  <2>4. CASE keyring \in Keystores /\ UseStore(p, keyring)
    BY <2>0, <2>4, UseStoreTyped, DiskTypes
  <2>5. keyring \notin Keystores <=> (keyring = NoKeystore \/ IsRaw(keyring))
    BY ItemKinds, DiskTypes
  <2> QED BY <1>2, <2>1, <2>2, <2>3, <2>4, <2>5 DEF ReadKeystore, profile
<1>3. CASE InitKeystore(p)
  <2>1. CASE keyring' = job[p].store /\ UseStore(p, job[p].store)
    <3>1. job[p].store \in Keystores /\ pc[p] = "init"
      BY <1>3, OneFits DEF InitKeystore, FitsAt, Fits, WithStore, FullJob, Stores
    <3>2. keyring' \in Items /\ UNCHANGED <<lock, config, cookies, legacy, dir, cache, page>>
      BY <1>3, <2>1, <3>1 DEF InitKeystore, Items, Stores, profile
    <3> QED BY <2>1, <3>1, <3>2, UseStoreTyped
  <2>2. CASE NoKey(p) /\ UNCHANGED keyring
    BY <1>3, <2>2, NoKeyTyped DEF InitKeystore, disk, profile
  <2> QED BY <1>3, <2>1, <2>2 DEF InitKeystore
<1>4. CASE Decrypt(p)
  <2>0. /\ pc[p] = "decrypt" /\ job[p].file # NoFile /\ job[p].store \in Keystores
        /\ UNCHANGED <<lock, config, disk, page>>
    BY <1>4, OneFits DEF profile, Decrypt, FitsAt, Fits, WithStore, FullJob, Stores
  <2>1. PICK c \in Stores : cache' = [cache EXCEPT ![p] = c]
    <3>1. CASE cache' = [cache EXCEPT ![p] = job[p].store]
      BY <2>0, <3>1 DEF Stores
    <3>2. CASE cache' = cache
      BY <1>0, <3>2
    <3> QED BY <1>4, <3>1, <3>2 DEF Decrypt
  <2>2. CASE NotInjected(p)
    BY <2>0, <2>1, <2>2, NotInjectedTyped
  <2>3. ASSUME NEW live \in BOOLEAN, NEW spent \in BOOLEAN, Goto(p, "timeout"),
               job' = [job EXCEPT ![p].file = NoFile, ![p].store = NoKeystore,
                         ![p].session = live, ![p].spent = spent]
        PROVE  Typed'
    <3> DEFINE j == [job[p] EXCEPT !.file = NoFile, !.store = NoKeystore,
                                   !.session = live, !.spent = spent]
    <3>1. /\ j \in FullJob /\ j.file = NoFile /\ j.req = job[p].req
          /\ j.store = NoKeystore /\ Kind(j) = Kind(job[p])
      <4>1. job[p] \in FullJob
        BY OneFits
      <4> QED BY ONLY <4>1, live \in BOOLEAN, spent \in BOOLEAN DEF FullJob, Kind, Stores
    <3>2. job' = [job EXCEPT ![p] = j] /\ pc' = [pc EXCEPT ![p] = "timeout"]
      BY <2>3 DEF Goto, Typed
    <3> HIDE DEF j
    <3>3. Fits(j, "timeout", c, chrome[p], paused[p])
      BY <2>0, <3>1, OneFits DEF FitsAt, Fits, PC, Outside, AtPage, WithStore, Unbrowsed
    <3>4. NeedsLock(j, "timeout") => lock = p
      BY <2>0, <3>1, OneFits DEF NeedsLock
    <3>5. /\ dir' \in BOOLEAN /\ keyring' \in Items
          /\ cookies' \in CookieFile \cup {NoFile} /\ UNCHANGED legacy
      BY <2>0, DiskTypes
    <3> QED BY <2>0, <2>1, <3>2, <3>3, <3>4, <3>5, OneGoesOn
  <2>4. \/ NotInjected(p)
        \/ \E live, spent \in BOOLEAN :
             /\ Goto(p, "timeout")
             /\ job' = [job EXCEPT ![p].file = NoFile, ![p].store = NoKeystore,
                          ![p].session = live, ![p].spent = spent]
    BY <1>4, ZenonT(30) DEF Decrypt
  <2> QED BY <2>2, <2>3, <2>4
<1> QED BY <1>1, <1>2, <1>3, <1>4

(* The points of the capture.                                              *)
Capturing == {"capture", "abort", "stop", "disable"}

(* A step within the capture that changes at most what was captured, what  *)
(* is held back and what the console got keeps the types.                  *)
LEMMA CapturingTyped ==
  ASSUME Typed, NEW p \in Procs, NEW at \in Capturing, NEW q \in Paused,
         NEW ok \in BOOLEAN, pc[p] \in Capturing,
         job' = [job EXCEPT ![p].ok = ok] \/ UNCHANGED job,
         pc' = [pc EXCEPT ![p] = at], paused' = [paused EXCEPT ![p] = q],
         console' \in Sent,
         UNCHANGED <<lock, config, disk, cache, chrome>>
  PROVE  Typed'
<1>1. PICK j \in FullJob :
        /\ j.req = job[p].req /\ j.file = job[p].file /\ j.store = job[p].store
        /\ Kind(j) = Kind(job[p])
        /\ job' = [job EXCEPT ![p] = j]
  <2>1. CASE UNCHANGED job
    BY <2>1, OneFits
  <2>2. CASE job' = [job EXCEPT ![p].ok = ok]
    <3> DEFINE j == [job[p] EXCEPT !.ok = ok]
    <3>1. /\ j \in FullJob /\ j.req = job[p].req /\ j.file = job[p].file
          /\ j.store = job[p].store /\ Kind(j) = Kind(job[p])
      BY OneFits DEF FullJob, Kind
    <3>2. job' = [job EXCEPT ![p] = j]
      BY <2>2 DEF Typed
    <3> QED BY <3>1, <3>2
  <2> QED BY <2>1, <2>2
<1>2. Fits(j, at, cache[p], chrome[p], q)
  BY <1>1, OneFits DEF Capturing, FitsAt, Fits, PC, Outside, AtPage, WithStore, Unbrowsed
<1>3. NeedsLock(j, at) => lock' = p
  <2>1. j.file = NoFile
    BY <1>1, OneFits DEF Capturing, FitsAt, Fits
  <2> QED BY <1>1, <2>1, OneFits DEF Capturing, NeedsLock
<1>4. /\ cache' = [cache EXCEPT ![p] = cache[p]]
      /\ chrome' = [chrome EXCEPT ![p] = chrome[p]] /\ lock' = lock
      /\ dir' \in BOOLEAN /\ keyring' \in Items
      /\ cookies' \in CookieFile \cup {NoFile}
      /\ UNCHANGED <<config, legacy>>
  BY OneFits, DiskTypes
<1>5. pc' = [pc EXCEPT ![p] = at] /\ paused' = [paused EXCEPT ![p] = q]
  OBVIOUS
<1> QED BY ONLY Typed, p \in Procs, console' \in Sent, <1>1, <1>2, <1>3, <1>4, <1>5,
           OneMoves

(* What the console got stays of its type.                                 *)
LEMMA ConsoleTypes ==
  Typed => SendsPost \in Sent /\ \A p \in Procs : Released(p) \in Sent
BY DEF Typed, SendsPost, Released, Sent

(* The steps of the capture keep the types.                                *)
LEMMA CaptureTyped ==
  ASSUME Typed, NEW p \in Procs,
         \/ StartCapture(p) \/ CaptureFails(p)
         \/ \E kind \in Kinds \ {"late"} : PageRequests(p, kind)
         \/ PagePosts(p) \/ Intercept(p) \/ Abort(p)
         \/ StopLoading(p) \/ Disable(p) \/ PageFails(p)
  PROVE  Typed'
<1>0. /\ cache' = cache => cache' = [cache EXCEPT ![p] = cache[p]] /\ cache[p] \in Stores
      /\ UNCHANGED profile => UNCHANGED config
      /\ paused[p] \in Paused /\ console \in Sent
      /\ paused = [paused EXCEPT ![p] = paused[p]]
  BY OneFits, DiskTypes
<1>1. CASE StartCapture(p)
  <2>0. pc[p] = "timeout" /\ UNCHANGED <<lock, config, disk, cache, page>>
    BY <1>0, <1>1 DEF StartCapture
  <2>1. CASE Leaves(p)
    BY <1>0, <2>0, <2>1, LeavesTyped, DiskTypes
  <2>2. CASE Goto(p, "capture") /\ UNCHANGED job
    <3>1. Fits(job[p], "capture", cache[p], chrome[p], paused[p])
      BY <2>0, OneFits DEF FitsAt, Fits, PC, Outside, AtPage, WithStore, Unbrowsed
    <3>2. NeedsLock(job[p], "capture") => lock = p
      BY <2>0, OneFits DEF NeedsLock
    <3> QED BY <2>0, <2>2, <3>1, <3>2, OneStays, DiskTypes DEF Goto
  <2> QED BY <1>1, <2>1, <2>2 DEF StartCapture
<1>2. CASE CaptureFails(p)
  <2>1. /\ pc[p] \in Capturing /\ "stop" \in Capturing
        /\ pc' = [pc EXCEPT ![p] = "stop"] /\ job' = job
        /\ UNCHANGED <<lock, config, disk, cache, chrome, paused, console>>
    BY <1>0, <1>2, DiskTypes DEF CaptureFails, Goto, Capturing
  <2> QED BY <1>0, <2>1, CapturingTyped
<1>3. ASSUME NEW kind \in Kinds \ {"late"}, PageRequests(p, kind) PROVE Typed'
  <2>1. kind \in Paused
    BY DEF Paused
  <2>2. /\ pc[p] \in Capturing /\ pc' = [pc EXCEPT ![p] = pc[p]] /\ job' = job
        /\ paused' = [paused EXCEPT ![p] = kind]
        /\ UNCHANGED <<lock, config, disk, cache, chrome, console>>
    BY <1>0, <1>3, OneFits DEF PageRequests, Capturing
  <2> QED BY <1>0, <2>1, <2>2, CapturingTyped
<1>4. CASE Intercept(p)
  <2> DEFINE q == IF paused[p] = "other" THEN "none"
                  ELSE IF Captured(paused[p]) THEN "read" ELSE paused[p]
             at == IF paused[p] = "other" THEN "capture" ELSE "abort"
  <2>1. q \in Paused /\ at \in Capturing
    BY <1>0 DEF Paused, Capturing
  <2>2. /\ pc[p] \in Capturing
        /\ UNCHANGED <<lock, config, disk, cache, job, chrome, console>>
    BY <1>0, <1>4 DEF Intercept, Capturing
  <2>3. pc' = [pc EXCEPT ![p] = at] /\ paused' = [paused EXCEPT ![p] = q]
    <3>1. CASE paused[p] = "other"
      BY <1>4, <3>1, OneFits DEF Intercept
    <3>2. CASE paused[p] # "other"
      BY <1>4, <3>2 DEF Intercept, Goto, Typed
    <3> QED BY <3>1, <3>2
  <2> HIDE DEF q, at
  <2> QED BY <1>0, <2>1, <2>2, <2>3, CapturingTyped
<1>5. CASE Abort(p)
  <2> DEFINE at == IF paused[p] = "read" THEN "disable" ELSE "stop"
             ok == (paused[p] = "read")
  <2>1. "none" \in Paused /\ at \in Capturing /\ ok \in BOOLEAN
    BY DEF Paused, Capturing
  <2>2. /\ pc[p] \in Capturing /\ pc' = [pc EXCEPT ![p] = at]
        /\ job' = [job EXCEPT ![p].ok = ok]
        /\ paused' = [paused EXCEPT ![p] = "none"]
        /\ UNCHANGED <<lock, config, disk, cache, chrome, console>>
    BY <1>0, <1>5 DEF Abort, Returns, Goto, Capturing
  <2> HIDE DEF at, ok
  <2> QED BY <1>0, <2>1, <2>2, CapturingTyped
<1>6. CASE StopLoading(p)
  <2>1. PICK q \in Paused : paused' = [paused EXCEPT ![p] = q]
    BY <1>0, <1>6 DEF StopLoading, Paused
  <2>2. /\ pc[p] \in Capturing /\ pc' = [pc EXCEPT ![p] = "disable"]
        /\ "disable" \in Capturing
        /\ UNCHANGED <<lock, config, disk, cache, job, chrome, console>>
    BY <1>0, <1>6 DEF StopLoading, Goto, Capturing
  <2> QED BY <1>0, <2>1, <2>2, CapturingTyped
<1>7. CASE Disable(p)
  <2> DEFINE next == IF Remembers(job[p]) THEN "saving" ELSE "closing"
  <2>1. PICK q \in Paused : paused' = [paused EXCEPT ![p] = q]
    BY <1>7 DEF Disable, Paused
  <2>2. console' \in Sent
    BY <1>0, <1>7, ConsoleTypes DEF Disable
  <2>3. /\ pc[p] = "disable" /\ pc' = [pc EXCEPT ![p] = next]
        /\ job' = [job EXCEPT ![p] = NoJob]
        /\ UNCHANGED <<lock, config, disk, cache, chrome>>
    BY <1>0, <1>7 DEF Disable, Leaves, Goto
  <2>4. Fits(NoJob, next, cache[p], chrome[p], q)
    BY <2>3, NoJobFits, OneFits DEF FitsAt, Fits, PC, Outside, AtPage, WithStore, Unbrowsed
  <2>5. NeedsLock(NoJob, next) => lock' = p
    <3>1. Remembers(job[p]) => lock = p
      BY <2>3, OneFits DEF Remembers, NeedsLock, FitsAt, Fits, AtPage
    <3> QED BY <2>3, <3>1, NoJobFits DEF NeedsLock
  <2>6. /\ cache' = [cache EXCEPT ![p] = cache[p]] /\ lock' = lock
        /\ chrome' = [chrome EXCEPT ![p] = chrome[p]]
        /\ dir' \in BOOLEAN /\ keyring' \in Items
        /\ cookies' \in CookieFile \cup {NoFile} /\ UNCHANGED <<config, legacy>>
    BY <2>3, OneFits, DiskTypes
  <2> HIDE DEF next
  <2> QED BY ONLY Typed, p \in Procs, <2>1, <2>2, <2>3, <2>4, <2>5, <2>6, OneMoves
<1>8. CASE PageFails(p)
  <2>1. UNCHANGED <<lock, config, disk, cache, page>> /\ Leaves(p)
    BY <1>0, <1>8 DEF PageFails
  <2> QED BY <1>0, <2>1, LeavesTyped, DiskTypes
<1>9. CASE PagePosts(p)
  <2>1. /\ console' \in Sent
        /\ UNCHANGED <<lock, config, disk, cache, pc, job, chrome, paused>>
        /\ UNCHANGED <<dir, keyring, cookies, legacy>>
    BY <1>0, <1>9, ConsoleTypes, DiskTypes DEF PagePosts
  <2>2. Fits(job[p], pc[p], cache[p], chrome[p], paused[p])
    BY OneFits DEF FitsAt
  <2>3. /\ job' = [job EXCEPT ![p] = job[p]] /\ pc' = [pc EXCEPT ![p] = pc[p]]
        /\ cache' = [cache EXCEPT ![p] = cache[p]]
        /\ chrome' = [chrome EXCEPT ![p] = chrome[p]]
        /\ paused' = [paused EXCEPT ![p] = paused[p]]
    BY <2>1, OneFits
  <2>4. /\ NeedsLock(job[p], pc[p]) => lock' = p
        /\ lock' = lock /\ dir' \in BOOLEAN /\ keyring' \in Items
        /\ cookies' \in CookieFile \cup {NoFile} /\ UNCHANGED <<config, legacy>>
        /\ console' \in Sent
    BY <2>1, OneFits, DiskTypes
  <2> DEFINE j == job[p]
             at == pc[p]
             c == cache[p]
             b == chrome[p]
             q == paused[p]
  <2> HIDE DEF j, at, c, b, q
  <2>5. /\ Fits(j, at, c, b, q) /\ job' = [job EXCEPT ![p] = j]
        /\ pc' = [pc EXCEPT ![p] = at] /\ cache' = [cache EXCEPT ![p] = c]
        /\ chrome' = [chrome EXCEPT ![p] = b] /\ paused' = [paused EXCEPT ![p] = q]
        /\ NeedsLock(j, at) => lock' = p
    BY <2>2, <2>3, <2>4 DEF j, at, c, b, q
  <2> QED BY ONLY Typed, p \in Procs, <2>4, <2>5, OneMoves
<1> QED BY <1>1, <1>2, <1>3, <1>4, <1>5, <1>6, <1>7, <1>8, <1>9

(* The steps that save the session keep the types.                         *)
LEMMA SavingTyped ==
  ASSUME Typed, NEW p \in Procs,
         \/ CollectCookies(p) \/ Rotate(p) \/ PersistKeystore(p) \/ WriteCookies(p)
  PROVE  Typed'
<1>0. cache' = cache => cache' = [cache EXCEPT ![p] = cache[p]] /\ cache[p] \in Stores
  BY OneFits
<1>1. CASE CollectCookies(p)
  <2>0. /\ pc[p] = "saving" /\ lock = p /\ job[p].file = NoFile
        /\ UNCHANGED <<lock, config, keyring, cookies, legacy, cache, page>>
    BY <1>1, OneFits, NoJobFits DEF profile, CollectCookies, FitsAt, Fits, NeedsLock, Outside
  <2>1. CASE Leaves(p) /\ UNCHANGED dir
    BY <1>0, <2>0, <2>1, LeavesTyped, DiskTypes
  <2>2. CASE dir' = TRUE /\ Goto(p, "keystore") /\ UNCHANGED job
    <3>1. Fits(job[p], "keystore", cache[p], chrome[p], paused[p])
      BY <2>0, OneFits, NoJobFits DEF FitsAt, Fits, PC, Outside, AtPage, WithStore, Unbrowsed
    <3>2. dir' \in BOOLEAN /\ keyring' \in Items
      BY <2>0, <2>2, DiskTypes
    <3> QED BY <2>0, <2>2, <3>1, <3>2, OneStays DEF Goto
  <2> QED BY <1>1, <2>1, <2>2 DEF CollectCookies
<1>2. CASE Rotate(p)
  <2>0. /\ pc[p] = "rotate" /\ lock = p /\ job[p].file = NoFile
        /\ job[p].store \in Keystores
        /\ UNCHANGED <<lock, config, disk, cache, page>>
    BY <1>2, OneFits DEF profile, Rotate, FitsAt, Fits, NeedsLock, WithStore, FullJob, Stores
  <2>1. CASE Leaves(p)
    BY <1>0, <2>0, <2>1, LeavesTyped, DiskTypes
  <2>2. CASE Goto(p, "write") /\ UNCHANGED job
    <3>1. Fits(job[p], "write", cache[p], chrome[p], paused[p])
      BY <2>0, OneFits DEF FitsAt, Fits, PC, Outside, AtPage, WithStore, Unbrowsed
    <3>2. dir' \in BOOLEAN /\ keyring' \in Items
      BY <2>0, DiskTypes
    <3> QED BY <2>0, <2>2, <3>1, <3>2, OneStays, DiskTypes DEF Goto
  <2>3. CASE /\ ~Exhausted(job[p].store) /\ Goto(p, "persist")
             /\ job' = [job EXCEPT ![p].store = Rotated(job[p].store, FreshKey)]
    <3> DEFINE s == Rotated(job[p].store, FreshKey)
               j == [job[p] EXCEPT !.store = s]
    <3>1. s \in Keystores
      BY <2>0, <2>3, FreshKeyType, RotatedParts
    <3>2. job' = [job EXCEPT ![p] = j] /\ pc' = [pc EXCEPT ![p] = "persist"]
      BY <2>3 DEF Goto, Typed
    <3> HIDE DEF s
    <3>3. /\ j \in FullJob /\ j.file = NoFile /\ j.req = job[p].req
          /\ j.store = s /\ s # NoKeystore /\ Kind(j) = Kind(job[p])
      BY <2>0, <3>1, OneFits, KeystoreParts DEF FullJob, Kind, Stores
    <3> HIDE DEF j
    <3>4. Fits(j, "persist", cache[p], chrome[p], paused[p])
      BY <2>0, <3>3, OneFits DEF FitsAt, Fits, PC, Outside, AtPage, WithStore, Unbrowsed
    <3>5. /\ dir' \in BOOLEAN /\ keyring' \in Items
          /\ cookies' \in CookieFile \cup {NoFile} /\ UNCHANGED legacy
      BY <2>0, DiskTypes
    <3> QED BY <1>0, <2>0, <3>2, <3>4, <3>5, OneGoesOn
  <2> QED BY <1>2, <2>1, <2>2, <2>3 DEF Rotate
<1>3. CASE PersistKeystore(p)
  <2>0. /\ pc[p] = "persist" /\ lock = p /\ job[p].file = NoFile
        /\ job[p].store \in Keystores
        /\ UNCHANGED <<lock, config, cookies, legacy, dir, cache, page>>
    BY <1>3, OneFits DEF profile, PersistKeystore, FitsAt, Fits, NeedsLock, WithStore, FullJob, Stores
  <2>1. CASE Leaves(p) /\ UNCHANGED keyring
    BY <1>0, <2>0, <2>1, LeavesTyped, DiskTypes
  <2>2. CASE keyring' = job[p].store /\ Goto(p, "write") /\ UNCHANGED job
    <3>1. Fits(job[p], "write", cache[p], chrome[p], paused[p])
      BY <2>0, OneFits DEF FitsAt, Fits, PC, Outside, AtPage, WithStore, Unbrowsed
    <3>2. dir' \in BOOLEAN /\ keyring' \in Items
      BY <2>0, <2>2, DiskTypes DEF Items, Stores
    <3> QED BY <2>0, <2>2, <3>1, <3>2, OneStays DEF Goto
  <2> QED BY <1>3, <2>1, <2>2 DEF PersistKeystore
<1>4. CASE WriteCookies(p)
  <2> DEFINE s == job[p].store
             f == [id |-> s.current, key |-> Current(s).key, age |-> Current(s).age]
  <2>0. pc[p] = "write" /\ s \in Keystores /\ s \in Stores
    BY <1>4, OneFits DEF WriteCookies, FitsAt, Fits, WithStore, FullJob, Stores
  <2>1. f \in CookieFile
    <3>1. s.current \in KeyId /\ Current(s) \in Version
      BY <2>0, KeystoreParts DEF Current
    <3> QED BY <3>1 DEF CookieFile, Version
  <2>2. cookies' = f \/ UNCHANGED cookies
    BY <1>4 DEF WriteCookies, profile
  <2>3. cookies' \in CookieFile \cup {NoFile}
    BY <2>1, <2>2, DiskTypes
  <2>4. /\ Leaves(p) /\ cache' = [cache EXCEPT ![p] = s]
        /\ UNCHANGED <<lock, config, keyring, legacy, dir, page>>
    BY <1>4 DEF WriteCookies, profile
  <2> HIDE DEF s, f
  <2> QED BY <2>0, <2>3, <2>4, LeavesTyped, DiskTypes
<1> QED BY <1>1, <1>2, <1>3, <1>4

(* What nobody at the browser does.                                        *)
LEMMA SurroundingsTyped ==
  ASSUME Typed,
         \/ DeleteProfile \/ RemoveDir \/ WipeKeyring
         \/ Configure \/ RemoveLegacy \/ Tick
  PROVE  Typed'
<1>1. UNCHANGED <<lock, cache, pc, job, page>>
  BY DEF DeleteProfile, RemoveDir, WipeKeyring, Configure, RemoveLegacy, Tick
<1>2. \A p \in Procs : FitsAt(p)' /\ (NeedsLock(job'[p], pc'[p]) => lock' = p)
  BY <1>1 DEF Typed, FitsAt, page
<1>3. /\ configured' \in BOOLEAN /\ legacy' \in BOOLEAN /\ dir' \in BOOLEAN
      /\ deleted' \in BOOLEAN /\ deleting' \in {"no", "dir", "keyring"}
  BY DEF Typed, DeleteProfile, RemoveDir, WipeKeyring, Configure, RemoveLegacy,
         Tick, profile, config, disk
<1>4. keyring' \in Items
  BY AgedParts DEF Typed, DeleteProfile, RemoveDir, WipeKeyring, Configure,
         RemoveLegacy, Tick, profile, disk, Items, Stores
<1>5. cookies' \in CookieFile \cup {NoFile}
  <2>1. CASE Tick /\ cookies # NoFile
    <3>1. cookies \in CookieFile /\ cookies' = [cookies EXCEPT !.age = Older(@)]
      BY <2>1 DEF Tick, Typed
    <3>2. Older(cookies.age) \in Age
      BY <3>1 DEF CookieFile, Older, Age
    <3> QED BY <3>1, <3>2 DEF CookieFile
  <2>2. CASE ~(Tick /\ cookies # NoFile)
    BY <2>2 DEF Typed, DeleteProfile, RemoveDir, WipeKeyring, Configure,
                RemoveLegacy, Tick, disk
  <2> QED BY <2>1, <2>2
<1> QED BY <1>1, <1>2, <1>3, <1>4, <1>5 DEF Typed, page

(* The types hold at the start.                                            *)
LEMMA InitTyped == Init => Typed
<1> SUFFICES ASSUME Init PROVE Typed
  OBVIOUS
<1>1. ASSUME NEW p \in Procs
      PROVE  FitsAt(p) /\ ~NeedsLock(job[p], pc[p])
  BY NoJobFits DEF Init, FitsAt, Fits, NeedsLock, PC, Outside, AtPage, WithStore,
                   Stores, Chromes, Paused
<1>2. 1 \in KeyId /\ 1 \in Key /\ 0 \in Age
  BY DEF KeyId, Key, Age
<1>3. keyring \in Items
  <2>1. NewKeystore(1) \in Keystores
    <3>1. [key |-> 1, age |-> 0] \in Version
      BY <1>2 DEF Version
    <3> QED BY <1>2, <3>1, KeystoreMade DEF NewKeystore
  <2> QED BY <1>2, <2>1 DEF Init, Items, Stores
<1>4. cookies \in CookieFile \cup {NoFile}
  BY <1>2 DEF Init, CookieFile
<1> QED BY <1>1, <1>3, <1>4, NoJobFits
        DEF Init, Typed, Stores, PC, Chromes, Paused, Sent

(* Every step keeps them.                                                  *)
LEMMA NextTyped == Typed /\ [Next]_vars => Typed'
<1> SUFFICES ASSUME Typed, [Next]_vars PROVE Typed'
  OBVIOUS
<1>1. ASSUME NEW p \in Procs, Close(p) \/ Crash(p) PROVE Typed'
  BY <1>1, EndsTyped, DiskTypes DEF Close, Crash, profile
<1>2. CASE UNCHANGED vars
  BY <1>2 DEF vars, Typed, FitsAt
<1> QED BY <1>1, <1>2, LaunchingTyped, InjectionTyped, CaptureTyped, SavingTyped,
           SurroundingsTyped DEF Next, Step

(* The first layer of the invariant.                                       *)
LEMMA Typing == Spec => []Typed
BY InitTyped, NextTyped, PTL DEF Spec

BegunTyped == begun \in BOOLEAN

(* The history of list-roles is a truth value.                             *)
LEMMA BegunType == Spec => []BegunTyped
<1>1. Init => BegunTyped
  BY DEF Init, BegunTyped
<1>2. BegunTyped /\ [Next]_vars => BegunTyped'
  <2> SUFFICES ASSUME begun \in BOOLEAN, [Next]_vars PROVE begun' \in BOOLEAN
    BY DEF BegunTyped
  <2>1. ASSUME NEW p \in Procs, ReadKeystore(p) PROVE begun' \in BOOLEAN
    BY <2>1 DEF ReadKeystore
  <2>2. ASSUME NEW p \in Procs, Step(p), ~ReadKeystore(p) PROVE begun' = begun
    BY <2>2 DEF Step, TakeLock, GiveUp, Preflight, Launch, ReadCookies, InitKeystore,
       Decrypt, StartCapture, Abort, CaptureFails, StopLoading, Disable,
       CollectCookies, Rotate, PersistKeystore, WriteCookies, Close, profile
  <2>3. ASSUME NEW p \in Procs,
               \/ \E r \in Requests : Start(p, r)
               \/ \E kind \in Kinds \ {"late"} : PageRequests(p, kind)
               \/ PagePosts(p) \/ Intercept(p) \/ PageFails(p) \/ Crash(p)
        PROVE  begun' = begun
    BY <2>3 DEF Start, PageRequests, PagePosts, Intercept, PageFails, Crash, profile
  <2>4. \/ DeleteProfile \/ RemoveDir \/ WipeKeyring \/ Configure \/ RemoveLegacy
        \/ Tick \/ UNCHANGED vars
        => begun' = begun
    BY DEF DeleteProfile, RemoveDir, WipeKeyring, Configure, RemoveLegacy, Tick,
           profile, vars
  <2> QED BY <2>1, <2>2, <2>3, <2>4 DEF Next
<1> QED BY <1>1, <1>2, PTL DEF Spec

(* The types of the disk, the keychain and every process.                  *)
THEOREM TypeCorrect == Spec => []TypeOK
<1>1. Typed /\ BegunTyped => TypeOK
  <2> SUFFICES ASSUME Typed, begun \in BOOLEAN PROVE TypeOK
    BY DEF BegunTyped
  <2>1. ASSUME NEW p \in Procs
        PROVE  /\ cache[p] = NoKeystore \/ IsKeystore(cache[p])
               /\ job[p].store = NoKeystore \/ IsKeystore(job[p].store)
               /\ [job[p] EXCEPT !.store = NoKeystore] \in Job
    <3>1. job[p] \in FullJob /\ cache[p] \in Stores
      BY OneFits
    <3>2. [job[p] EXCEPT !.store = NoKeystore] \in Job
      BY <3>1 DEF FullJob, Job
    <3>3. job[p].store \in Stores
      BY <3>1 DEF FullJob
    <3> QED BY <3>1, <3>2, <3>3, KeystoreIsOne DEF Stores
  <2>2. keyring = NoKeystore \/ keyring \in [raw: Key] \/ IsKeystore(keyring)
    BY KeystoreIsOne DEF Typed, Items, Stores
  <2> QED BY <2>1, <2>2 DEF Typed, TypeOK, Chromes
<1> QED BY <1>1, Typing, BegunType, PTL

----------------------------------------------------------------------------
(* The SAML response and plaintext cookies.                                *)

(* A step of one process.                                                  *)
Acts(p) ==
  \/ \E r \in Requests : Start(p, r)
  \/ \E kind \in Kinds \ {"late"} : PageRequests(p, kind)
  \/ PagePosts(p) \/ Step(p) \/ Intercept(p) \/ PageFails(p) \/ Crash(p)

Surroundings ==
  \/ DeleteProfile \/ RemoveDir \/ WipeKeyring \/ Configure \/ RemoveLegacy
  \/ Tick

(* The others stay where they are, and the profile what it was.            *)
LEMMA OthersStay ==
  ASSUME Typed, NEW p \in Procs, Acts(p)
  PROVE  /\ \A o \in Procs \ {p} :
              /\ pc'[o] = pc[o] /\ job'[o] = job[o] /\ cache'[o] = cache[o]
              /\ paused'[o] = paused[o]
         /\ UNCHANGED <<configured, deleting, deleted, legacy>> /\ (begun => begun')
         /\ lock' # lock => lock' \in {NoProc, p} /\ lock \in {NoProc, p}
<1> USE DEF Typed, Goto, Leaves, Ends, profile, config, disk, page
<1>1. CASE \E r \in Requests : Start(p, r)
  BY <1>1 DEF Start
<1>2. CASE \E kind \in Kinds \ {"late"} : PageRequests(p, kind)
  BY <1>2 DEF PageRequests
<1>3. CASE PagePosts(p) \/ Intercept(p) \/ PageFails(p) \/ Crash(p) \/ Close(p)
  BY <1>3 DEF PagePosts, Intercept, PageFails, Crash, Close
<1>4. CASE TakeLock(p) \/ GiveUp(p) \/ Preflight(p) \/ Launch(p)
  BY <1>4 DEF TakeLock, GiveUp, Preflight, Launch
<1>5. CASE ReadCookies(p)
  BY <1>5 DEF ReadCookies, NotInjected
<1>9. CASE InitKeystore(p)
  BY <1>9 DEF InitKeystore, NotInjected, NoKey, UseStore
<1>10. CASE Decrypt(p)
  BY <1>10 DEF Decrypt, NotInjected
<1>6. CASE ReadKeystore(p)
  BY <1>6 DEF ReadKeystore, NotInjected, NoKey, UseStore
<1>7. CASE StartCapture(p) \/ CaptureFails(p) \/ StopLoading(p) \/ Disable(p) \/ Abort(p)
  BY <1>7 DEF StartCapture, CaptureFails, StopLoading, Disable, Abort, Returns
<1>8. CASE CollectCookies(p) \/ Rotate(p) \/ PersistKeystore(p) \/ WriteCookies(p)
  BY <1>8 DEF CollectCookies, Rotate, PersistKeystore, WriteCookies
<1> QED BY <1>1, <1>2, <1>3, <1>4, <1>5, <1>6, <1>7, <1>8, <1>9, <1>10 DEF Acts, Step

(* A command is to return a response only after its POST was aborted.      *)
Unreturned(p) == job[p].ok = TRUE => pc[p] = "disable" /\ paused[p] # "read"

(* A step of the process itself keeps that so.                             *)
LEMMA AbortsFirst ==
  ASSUME Typed, NEW p \in Procs, Unreturned(p), Acts(p)
  PROVE  Unreturned(p)' /\ (console' = "returned" => console = "returned")
<1> USE OneFits, NoJobFits DEF Unreturned, Typed, Goto, Leaves, Ends, page
<1>0. job[p] \in FullJob
  OBVIOUS
<1>1. CASE \E r \in Requests : Start(p, r)
  BY <1>1 DEF Start, NoJob
<1>2. CASE \E kind \in Kinds \ {"late"} : PageRequests(p, kind)
  BY <1>2 DEF PageRequests
<1>3. CASE PagePosts(p) \/ Intercept(p)
  BY <1>3 DEF PagePosts, Intercept, SendsPost
<1>4. CASE PageFails(p) \/ Crash(p) \/ Close(p) \/ GiveUp(p)
  BY <1>4 DEF PageFails, Crash, Close, GiveUp
<1>5. CASE TakeLock(p)
  BY <1>5 DEF TakeLock
<1>6. CASE Preflight(p)
  <2>1. job'[p].ok = job[p].ok
    BY <1>0, <1>6 DEF Preflight, FullJob
  <2> QED BY <1>6, <2>1 DEF Preflight
<1>7. CASE Launch(p)
  BY <1>7 DEF Launch
<1>8. ASSUME NotInjected(p), pc[p] # "disable", UNCHANGED page PROVE Unreturned(p)'
  <2>1. CASE job' = [job EXCEPT ![p] = NoJob]
    BY <2>1
  <2>2. CASE job' = [job EXCEPT ![p].file = NoFile, ![p].store = NoKeystore]
    <3>1. job'[p].ok = job[p].ok
      BY <1>0, <2>2 DEF FullJob
    <3> QED BY <1>8, <3>1
  <2> QED BY <1>8, <2>1, <2>2 DEF NotInjected
<1>9. ASSUME NEW store, UseStore(p, store), pc[p] # "disable" PROVE Unreturned(p)'
  <2>1. job'[p].ok = job[p].ok
    BY <1>0, <1>9 DEF UseStore, FullJob
  <2> QED BY <1>9, <2>1
<1>10. CASE ReadCookies(p)
  <2>1. CASE UNCHANGED job
    BY <1>10, <2>1 DEF ReadCookies
  <2>2. CASE job' = [job EXCEPT ![p].file = cookies]
    <3>1. job'[p].ok = job[p].ok
      BY <1>0, <2>2 DEF FullJob
    <3> QED BY <1>10, <3>1 DEF ReadCookies
  <2> QED BY <1>8, <1>10, <2>1, <2>2 DEF ReadCookies
<1>11. CASE ReadKeystore(p) \/ InitKeystore(p)
  <2>1. pc[p] # "disable" /\ UNCHANGED page
    BY <1>11 DEF ReadKeystore, InitKeystore
  <2>2. CASE NoKey(p)
    BY <1>8, <2>1, <2>2 DEF NoKey
  <2>3. CASE job' = [job EXCEPT ![p].store = Initial(keyring, FreshKey)]
    <3>1. job'[p].ok = job[p].ok
      BY <1>0, <2>3 DEF FullJob
    <3> QED BY <2>1, <3>1
  <2> QED BY <1>9, <1>11, <2>1, <2>2, <2>3 DEF ReadKeystore, InitKeystore
<1>12. CASE Decrypt(p)
  <2>1. pc[p] # "disable" /\ UNCHANGED page
    BY <1>12 DEF Decrypt
  <2>2. ASSUME NEW live \in BOOLEAN, NEW spent \in BOOLEAN,
               job' = [job EXCEPT ![p].file = NoFile, ![p].store = NoKeystore,
                         ![p].session = live, ![p].spent = spent]
        PROVE  job'[p].ok = job[p].ok
    BY <1>0, <2>2, ZenonT(30) DEF FullJob
  <2>3. \/ NotInjected(p)
        \/ \E live, spent \in BOOLEAN :
              job' = [job EXCEPT ![p].file = NoFile, ![p].store = NoKeystore,
                        ![p].session = live, ![p].spent = spent]
    BY <1>12, ZenonT(30) DEF Decrypt
  <2> QED BY <1>8, <2>1, <2>2, <2>3
<1>13. CASE StartCapture(p) \/ CollectCookies(p)
  BY <1>13 DEF StartCapture, CollectCookies
<1>14. CASE CaptureFails(p) \/ StopLoading(p)
  BY <1>14 DEF CaptureFails, StopLoading
<1>15. CASE Abort(p)
  <2>1. job'[p].ok = (paused[p] = "read")
    BY <1>0, <1>15, ZenonT(30) DEF Abort, Returns, FullJob
  <2> QED BY <1>15, <2>1 DEF Abort
<1>16. CASE Disable(p)
  <2>1. Unreturned(p)'
    BY <1>16 DEF Disable
  <2>2. Released(p) = "returned" => console = "returned"
    BY DEF Released, SendsPost
  <2> QED BY <1>16, <2>1, <2>2 DEF Disable
<1>17. CASE Rotate(p)
  <2>1. CASE job' = [job EXCEPT ![p].store = Rotated(job[p].store, FreshKey)]
    <3>1. job'[p].ok = job[p].ok
      BY <1>0, <2>1 DEF FullJob
    <3> QED BY <1>17, <3>1 DEF Rotate
  <2>2. CASE Leaves(p) \/ UNCHANGED job
    BY <1>17, <2>2 DEF Rotate
  <2> QED BY <1>17, <2>1, <2>2 DEF Rotate
<1>18. CASE PersistKeystore(p) \/ WriteCookies(p)
  BY <1>18 DEF PersistKeystore, WriteCookies
<1> QED BY <1>1, <1>2, <1>3, <1>4, <1>5, <1>6, <1>7, <1>10, <1>11, <1>12, <1>13,
           <1>14, <1>15, <1>16, <1>17, <1>18 DEF Acts, Step

(* Next to plaintext cookies, who is not at work on the store does not     *)
(* begin, and is not handed a session.                                     *)
LEMMA NoneBegins ==
  ASSUME Typed, NEW p \in Procs, Acts(p), legacy, pc[p] \notin Working
  PROVE  pc'[p] \notin Working /\ (job'[p].session => job[p].session)
<1> USE DEF Typed, Goto, Leaves, Ends, Working, WithStore
<1>0. ~NoJob.session
  BY NoJobFits
<1>1. CASE \E r \in Requests : Start(p, r)
  BY <1>1 DEF Start, NoJob
<1>2. CASE \E kind \in Kinds \ {"late"} : PageRequests(p, kind)
  BY <1>2 DEF PageRequests
<1>3. CASE PagePosts(p) \/ Intercept(p)
  BY <1>3 DEF PagePosts, Intercept
<1>12. CASE Abort(p)
  <2>1. job'[p] = [job[p] EXCEPT !.ok = (paused[p] = "read")]
    BY <1>12 DEF Abort, Returns
  <2>2. job'[p].session = job[p].session
    BY <2>1, OneFits, ZenonT(30) DEF FullJob
  <2> QED BY <1>12, <2>2 DEF Abort
<1>4. CASE PageFails(p) \/ Crash(p) \/ Close(p) \/ GiveUp(p)
  BY <1>0, <1>4 DEF PageFails, Crash, Close, GiveUp
<1>5. CASE TakeLock(p) \/ CaptureFails(p) \/ StopLoading(p)
  BY <1>5 DEF TakeLock, CaptureFails, StopLoading
<1>6. CASE Preflight(p)
  BY <1>6 DEF Preflight
<1>7. CASE Launch(p)
  BY <1>0, <1>7 DEF Launch
<1>8. CASE ReadCookies(p)
  <2>1. CASE chrome[p] = "remote"
    BY <1>8, <2>1 DEF ReadCookies
  <2>2. CASE chrome[p] # "remote"
    <3>1. NotInjected(p)
      BY <1>8, <2>2 DEF ReadCookies, RefusesPlaintext
    <3>2. CASE Leaves(p)
      BY <1>0, <3>2
    <3>3. CASE /\ Goto(p, "timeout")
               /\ job' = [job EXCEPT ![p].file = NoFile, ![p].store = NoKeystore]
      <4>1. job'[p] = [job[p] EXCEPT !.file = NoFile, !.store = NoKeystore]
        BY <3>3
      <4>2. job[p] \in FullJob
        BY OneFits
      <4>3. job'[p].session = job[p].session
        BY <4>1, <4>2 DEF FullJob
      <4> QED BY <3>3, <4>3
    <3> QED BY <3>1, <3>2, <3>3 DEF NotInjected
  <2> QED BY <2>1, <2>2
<1>9. CASE StartCapture(p) \/ Disable(p) \/ CollectCookies(p)
  BY <1>0, <1>9 DEF StartCapture, Disable, CollectCookies, RefusesPlaintext
<1>10. ~ReadKeystore(p) /\ ~InitKeystore(p) /\ ~Decrypt(p)
  BY DEF ReadKeystore, InitKeystore, Decrypt
<1>11. ~Rotate(p) /\ ~PersistKeystore(p) /\ ~WriteCookies(p)
  BY DEF Rotate, PersistKeystore, WriteCookies
<1> QED BY <1>1, <1>2, <1>3, <1>4, <1>5, <1>6, <1>7, <1>8, <1>9, <1>10, <1>11, <1>12
        DEF Acts, Step

(* A step is one of a single process, or of the outside world.             *)
LEMMA NextIsOneOrNone ==
  [Next]_vars <=> (\E p \in Procs : Acts(p)) \/ Surroundings \/ UNCHANGED vars
BY DEF Next, Acts, Surroundings

(* The POST from which a command has read the response it goes on to use   *)
(* does not reach the AWS console, whichever CDP command of the capture    *)
(* fails: a POST that could not be aborted leaves no response to return.   *)
THEOREM CapturedStaysHere == Spec => []CapturedFirst
<1> DEFINE Inv == CapturedFirst /\ \A p \in Procs : Unreturned(p)
<1>1. Init => Inv
  BY NoJobFits DEF Init, CapturedFirst, Unreturned
<1>2. Typed /\ Inv /\ [Next]_vars => Inv'
  <2> SUFFICES ASSUME Typed, Inv, [Next]_vars PROVE Inv'
    OBVIOUS
  <2>1. ASSUME NEW p \in Procs, Acts(p) PROVE Inv'
    <3>1. Unreturned(p)' /\ CapturedFirst'
      BY <2>1, AbortsFirst DEF CapturedFirst
    <3>2. ASSUME NEW o \in Procs, o # p PROVE Unreturned(o)'
      BY <2>1, <3>2, OthersStay DEF Unreturned
    <3> QED BY <3>1, <3>2
  <2>2. CASE Surroundings \/ UNCHANGED vars
    <3>1. UNCHANGED <<job, pc, paused, console>>
      BY <2>2 DEF Surroundings, DeleteProfile, RemoveDir, WipeKeyring, Configure,
                  RemoveLegacy, Tick, page, vars
    <3> QED BY <3>1 DEF CapturedFirst, Unreturned
  <2> QED BY <2>1, <2>2, NextIsOneOrNone
<1>3. Inv => CapturedFirst
  OBVIOUS
<1> QED BY <1>1, <1>2, <1>3, Typing, PTL DEF Spec

(* The second layer: plaintext cookies keep everybody off the store.       *)
LEMMA StaysAway == Spec => []KeptAway
<1>1. Init => KeptAway
  BY DEF Init, KeptAway, Working, WithStore
<1>2. Typed /\ KeptAway /\ [Next]_vars => KeptAway'
  <2> SUFFICES ASSUME Typed, KeptAway, [Next]_vars, legacy', NEW o \in Procs
               PROVE  pc'[o] \notin Working
    BY DEF KeptAway
  <2>1. ASSUME NEW p \in Procs, Acts(p) PROVE pc'[o] \notin Working
    <3>1. legacy /\ pc[o] \notin Working
      BY <2>1, OthersStay DEF KeptAway
    <3> QED BY <2>1, <3>1, OthersStay, NoneBegins
  <2>2. CASE Surroundings \/ UNCHANGED vars
    BY <2>2 DEF Surroundings, KeptAway, vars, DeleteProfile, RemoveDir, WipeKeyring,
                Configure, RemoveLegacy, Tick, disk
  <2> QED BY <2>1, <2>2, NextIsOneOrNone
<1> QED BY <1>1, <1>2, Typing, PTL DEF Spec

(* While plaintext cookies of an old version are on disk, no browser is    *)
(* handed a session and no session is saved.                               *)
THEOREM PlaintextGate == Spec => PlaintextStopsUse
<1> DEFINE Body == legacy => \A p \in Procs :
                     /\ pc[p] = "write" => cookies' = cookies
                     /\ job'[p].session => job[p].session
<1>1. Typed /\ KeptAway /\ [Next]_vars => Body
  <2> SUFFICES ASSUME Typed, KeptAway, [Next]_vars, legacy, NEW o \in Procs
               PROVE  pc[o] # "write" /\ (job'[o].session => job[o].session)
    OBVIOUS
  <2>1. \A p \in Procs : pc[p] \notin Working
    BY DEF KeptAway
  <2>2. ASSUME NEW p \in Procs, Acts(p) PROVE job'[o].session => job[o].session
    <3>1. CASE o = p
      BY <2>1, <2>2, <3>1, NoneBegins
    <3>2. CASE o # p
      <4>1. job'[o] = job[o]
        BY <2>2, <3>2, OthersStay
      <4> QED BY <4>1
    <3> QED BY <3>1, <3>2
  <2>3. ASSUME Surroundings \/ UNCHANGED vars
        PROVE  job'[o].session => job[o].session
    <3>1. UNCHANGED job
      BY <2>3 DEF Surroundings, vars, DeleteProfile, RemoveDir, WipeKeyring,
                  Configure, RemoveLegacy, Tick
    <3> QED BY <3>1
  <2> QED BY <2>1, <2>2, <2>3, NextIsOneOrNone DEF Working, WithStore
<1> QED BY <1>1, Typing, StaysAway, PTL DEF Spec, PlaintextStopsUse

----------------------------------------------------------------------------
(* The keystore and the file encrypted under it.                           *)

(* A step of one process is in step for the others, as far as their jobs go*)
(* and the keychain stays the same.                                        *)
LEMMA OthersInStep ==
  ASSUME Typed, KeysKept, Calm, NEW p \in Procs, Acts(p), NEW o \in Procs, o # p
  PROVE  /\ InStep(o, lock, keyring, job'[o], pc'[o], cache'[o])
         /\ pc'[o] = "persist" => lock = o
         /\ lock' = o => lock = o
         /\ cache'[o] \in Stores
         /\ pc'[o] \in WithStore => job'[o].store \in Keystores
<1>1. InStep(o, lock, keyring, job[o], pc[o], cache[o])
  BY DEF KeysKept
<1>2. job'[o] = job[o] /\ pc'[o] = pc[o] /\ cache'[o] = cache[o]
  BY OthersStay
<1>3. lock' = o => lock = o
  BY OthersStay
<1>4. pc[o] = "persist" => lock = o
  BY OneFits DEF NeedsLock
<1>5. cache[o] \in Stores /\ (pc[o] \in WithStore => job[o].store \in Keystores)
  BY OneFits DEF FitsAt, Fits, FullJob, Stores
<1> QED BY <1>1, <1>2, <1>3, <1>4, <1>5

(* A process that acts leaves the keystore alone, and the cookie file      *)
(* unless the new one fits the keystore.                                   *)
LEMMA KeptByOne ==
  ASSUME Typed, KeysKept, Calm, Calm', NEW p \in Procs, Acts(p), keyring' = keyring,
         cookies' = cookies \/ NoOlder(keyring, cookies'),
         InStep(p, lock', keyring, job'[p], pc'[p], cache'[p])
  PROVE  KeysKept'
<1>1. ASSUME NEW o \in Procs
      PROVE  InStep(o, lock', keyring, job'[o], pc'[o], cache'[o])
  <2>1. CASE o = p
    BY <2>1
  <2>2. CASE o # p
    <3>1. /\ InStep(o, lock, keyring, job'[o], pc'[o], cache'[o])
          /\ lock' = o => lock = o
      BY <2>2, OthersInStep
    <3>2. lock = o => lock' = o
      BY <2>2, OthersStay
    <3> QED BY <3>1, <3>2 DEF InStep
  <2> QED BY <2>1, <2>2
<1>2. keyring \in Keystores => Ordered(keyring)
  BY DEF KeysKept
<1>3. keyring \in Keystores /\ cookies' # NoFile => NoOlder(keyring, cookies')
  BY DEF KeysKept
<1>4. deleting' = "no"
  BY OthersStay DEF KeysKept, Calm
<1> QED BY <1>1, <1>2, <1>3, <1>4 DEF KeysKept

(* A keystore that has just been begun is not older than any file.         *)
LEMMA NewIsNoOlder ==
  ASSUME Typed, cookies # NoFile, NEW k \in Key
  PROVE  NoOlder(NewKeystore(k), cookies)
<1>1. cookies.age >= 0
  BY DEF Typed, CookieFile, Age
<1> QED BY <1>1, NewParts DEF NoOlder, Opens

(* A keystore is begun, out of the raw key or by the holder of the lock, or*)
(* the holder of the lock saves one it rotated.                            *)
LEMMA RekeyedByOne ==
  ASSUME Typed, KeysKept, Calm, Calm', NEW p \in Procs, Acts(p), lock' = lock,
         keyring' \in Keystores, Ordered(keyring'), cookies' = cookies,
         cookies # NoFile => NoOlder(keyring', cookies),
         InStep(p, lock, keyring', job'[p], pc'[p], cache'[p]),
         \/ \E k \in Key : /\ keyring' = NewKeystore(k)
                           /\ keyring \in {[raw |-> k], NewKeystore(k)}
         \/ keyring = NoKeystore /\ lock = p
         \/ keyring \in Keystores /\ Due(keyring) /\ lock = p
  PROVE  KeysKept'
<1>1. ASSUME NEW o \in Procs
      PROVE  InStep(o, lock, keyring', job'[o], pc'[o], cache'[o])
  <2>1. CASE o = p
    BY <2>1
  <2>2. CASE o # p
    <3>0. /\ InStep(o, lock, keyring, job'[o], pc'[o], cache'[o])
          /\ pc'[o] = "persist" => lock = o
          /\ cache'[o] \in Stores
          /\ pc'[o] \in WithStore => job'[o].store \in Keystores
      BY <2>2, OthersInStep
    <3>1. ASSUME NEW k \in Key, keyring' = NewKeystore(k),
                 keyring \in {[raw |-> k], NewKeystore(k)}
          PROVE  InStep(o, lock, keyring', job'[o], pc'[o], cache'[o])
      <4>1. CASE keyring = NewKeystore(k)
        BY <3>0, <3>1, <4>1
      <4>2. CASE keyring = [raw |-> k]
        <5>1. keyring \in [raw: Key] /\ keyring.raw = k
          BY <4>2
        <5>2. IsRaw(keyring) /\ keyring \notin Stores
          BY <5>1, RawParts
        <5>3. keyring # NoKeystore /\ keyring \notin Keystores
          BY <5>2 DEF Stores
        <5>4. ASSUME NEW i \in Key, keyring \in {[raw |-> i], NewKeystore(i)} PROVE i = k
          <6>1. keyring # NewKeystore(i)
            BY <5>3, NewParts
          <6>2. keyring = [raw |-> i]
            BY <5>4, <6>1
          <6> QED BY <5>1, <6>2
        <5>5. lock = o /\ pc'[o] # "write" => cache'[o] = NoKeystore
          BY <3>0, <5>2 DEF InStep
        <5>6. lock = o => pc'[o] \notin {"decrypt", "rotate", "write"}
          BY <3>0, <5>3 DEF InStep, WithStore
        <5>7. pc'[o] # "persist"
          BY <3>0, <5>3 DEF InStep
        <5>8. pc'[o] = "init" => job'[o].store = keyring'
          <6>1. SUFFICES ASSUME pc'[o] = "init" PROVE job'[o].store = keyring'
            OBVIOUS
          <6>2. PICK i \in Key : /\ job'[o].store = NewKeystore(i)
                                 /\ keyring \in {[raw |-> i], NewKeystore(i)}
            BY <3>0, <5>3, <6>1 DEF InStep
          <6> QED BY <3>1, <5>4, <6>2
        <5> QED BY <3>1, <5>5, <5>6, <5>7, <5>8 DEF InStep
      <4> QED BY <3>1, <4>1, <4>2
    <3>2. CASE keyring = NoKeystore /\ lock = p
      <4>1. NoKeystore \notin Keystores /\ NoKeystore \notin [raw: Key]
        BY RawParts DEF Stores
      <4>2. \A i \in Key : NoKeystore # [raw |-> i] /\ NoKeystore # NewKeystore(i)
        BY <4>1, NewParts
      <4>3. pc'[o] \notin {"init", "persist"}
        BY <2>2, <3>0, <3>2, <4>1, <4>2 DEF InStep
      <4> QED BY <2>2, <3>2, <4>3 DEF InStep
    <3>3. CASE keyring \in Keystores /\ Due(keyring) /\ lock = p
      <4>1. ASSUME NEW i \in Key PROVE keyring # [raw |-> i] /\ keyring # NewKeystore(i)
        <5>1. [raw |-> i] \in [raw: Key]
          OBVIOUS
        <5>2. keyring # [raw |-> i]
          BY <3>3, <5>1, RawParts DEF Stores
        <5> QED BY <3>3, <5>2, NewParts
      <4>2. keyring # NoKeystore
        BY <3>3, RawParts
      <4>3. pc'[o] \notin {"init", "persist"}
        BY <2>2, <3>0, <3>3, <4>1, <4>2 DEF InStep
      <4> QED BY <2>2, <3>3, <4>3 DEF InStep
    <3> QED BY <3>1, <3>2, <3>3
  <2> QED BY <2>1, <2>2
<1>2. deleting' = "no"
  BY OthersStay DEF KeysKept, Calm
<1> QED BY <1>1, <1>2 DEF KeysKept

(* The points at which a process has nothing to do with the keystore, or   *)
(* is yet to read it.                                                      *)
Apart == PC \ {"init", "decrypt", "rotate", "persist", "write"}

(* A step that leaves keychain and cookie file alone keeps KeysKept.       *)
LEMMA QuietStep ==
  ASSUME Typed, KeysKept, Calm, Calm', NEW p \in Procs, Acts(p),
         UNCHANGED <<lock, keyring, cookies, cache>>,
         pc[p] # "write", pc'[p] \in Apart
  PROVE  KeysKept'
<1>1. InStep(p, lock, keyring, job[p], pc[p], cache[p])
  BY DEF KeysKept
<1>2. InStep(p, lock', keyring, job'[p], pc'[p], cache'[p])
  BY <1>1 DEF InStep, Apart
<1> QED BY <1>2, KeptByOne

(* A command that ends keeps KeysKept.                                     *)
LEMMA EndKeeps ==
  ASSUME Typed, KeysKept, Calm, Calm', NEW p \in Procs, Acts(p), Ends(p),
         UNCHANGED <<keyring, cookies>>
  PROVE  KeysKept'
<1>1. job'[p] = NoJob /\ pc'[p] = "idle" /\ cache'[p] = NoKeystore
  BY DEF Ends, Goto, Typed
<1>2. InStep(p, lock', keyring, job'[p], pc'[p], cache'[p])
  BY <1>1, NoJobFits DEF InStep
<1> QED BY <1>2, KeptByOne

(* No key, no cookies: the sign-in goes on without them or leaves.         *)
LEMMA WithoutKeyKeeps ==
  ASSUME Typed, KeysKept, Calm, Calm', NEW p \in Procs, Acts(p),
         NotInjected(p) \/ Leaves(p), pc[p] # "write",
         UNCHANGED <<lock, keyring, cookies, cache>>
  PROVE  KeysKept'
<1>1. CASE Leaves(p)
  <2>1. job'[p] = NoJob /\ pc'[p] = "closing"
    BY <1>1 DEF Leaves, Goto, Typed
  <2> QED BY <2>1, NoJobFits, QuietStep DEF Apart, PC
<1>2. CASE /\ Goto(p, "timeout")
           /\ job' = [job EXCEPT ![p].file = NoFile, ![p].store = NoKeystore]
  <2>1. pc'[p] = "timeout"
    BY <1>2 DEF Goto, Typed
  <2>2. job'[p].file = NoFile
    <3>1. job[p] \in FullJob /\ job'[p] = [job[p] EXCEPT !.file = NoFile, !.store = NoKeystore]
      BY <1>2, OneFits DEF Typed
    <3> QED BY <3>1 DEF FullJob
  <2> QED BY <2>1, <2>2, QuietStep DEF Apart, PC
<1> QED BY <1>1, <1>2 DEF NotInjected

(* The process takes a keystore to work with.                              *)
LEMMA UseStoreInStep ==
  ASSUME Typed, NEW p \in Procs, NEW store, UseStore(p, store),
         lock = p => store = keyring' /\ cache[p] \in {NoKeystore, keyring'},
         UNCHANGED <<lock, cache>>
  PROVE  InStep(p, lock', keyring', job'[p], pc'[p], cache'[p])
<1>1. /\ pc'[p] \in {"decrypt", "rotate"}
      /\ job'[p] = [job[p] EXCEPT !.store = store]
  BY DEF UseStore, Goto, Typed
<1>2. job'[p].store = store
  <2>1. job[p] \in FullJob
    BY OneFits
  <2> QED BY <1>1, <2>1 DEF FullJob
<1> QED BY <1>1, <1>2 DEF InStep

(* The steps that read cookies and keystore keep it.                       *)
LEMMA InjectionKeeps ==
  ASSUME Typed, KeysKept, Calm, Calm', NEW p \in Procs, Acts(p),
         ReadCookies(p) \/ ReadKeystore(p) \/ InitKeystore(p) \/ Decrypt(p)
  PROVE  KeysKept'
<1>0. /\ InStep(p, lock, keyring, job[p], pc[p], cache[p])
      /\ job[p] \in FullJob /\ keyring \in Items
  BY OneFits, DiskTypes DEF KeysKept
<1>1. CASE ReadCookies(p)
  <2>0. pc[p] = "page" /\ UNCHANGED <<lock, keyring, cookies, cache>>
    BY <1>1 DEF ReadCookies, disk
  <2>1. CASE NotInjected(p)
    BY <2>0, <2>1, WithoutKeyKeeps
  <2>2. CASE Goto(p, "timeout") /\ UNCHANGED job
    <3>1. pc'[p] = "timeout" /\ job'[p] = job[p]
      BY <2>2 DEF Goto, Typed
    <3> QED BY <2>0, <3>1, QuietStep DEF Apart, PC
  <2>3. CASE Goto(p, "keystore")
    <3>1. pc'[p] = "keystore"
      BY <2>3 DEF Goto, Typed
    <3> QED BY <2>0, <3>1, QuietStep DEF Apart, PC
  <2> QED BY <1>1, <2>1, <2>2, <2>3 DEF ReadCookies
<1>2. CASE ReadKeystore(p)
  <2>0. pc[p] = "keystore" /\ UNCHANGED <<lock, keyring, cookies, cache>>
    BY <1>2 DEF ReadKeystore, disk
  <2>1. lock = p => cache[p] \in {NoKeystore, keyring}
    BY <1>0, <2>0 DEF InStep
  <2>2. ASSUME NEW store, UseStore(p, store), lock = p => store = keyring
        PROVE  KeysKept'
    <3>1. InStep(p, lock', keyring', job'[p], pc'[p], cache'[p])
      BY <2>0, <2>1, <2>2, UseStoreInStep
    <3> QED BY <2>0, <3>1, KeptByOne
  <2>3. CASE FromCache(p) /\ UseStore(p, cache[p])
    BY <2>1, <2>2, <2>3 DEF FromCache
  <2>4. CASE NoKey(p)
    BY <2>0, <2>4, WithoutKeyKeeps DEF NoKey
  <2>5. CASE /\ keyring \notin Keystores
             /\ job' = [job EXCEPT ![p].store = Initial(keyring, FreshKey)]
             /\ Goto(p, "init")
    <3>1. pc'[p] = "init" /\ job'[p] = [job[p] EXCEPT !.store = Initial(keyring, FreshKey)]
      BY <2>5 DEF Goto, Typed
    <3>2. job'[p].store = Initial(keyring, FreshKey)
      BY <1>0, <3>1 DEF FullJob
    <3>3. FreshKey \in Key
      BY FreshKeyType
    <3>4. keyring = NoKeystore => lock = p
      BY <1>2, <3>1 DEF ReadKeystore, Calm
    <3>5. \E k \in Key : /\ job'[p].store = NewKeystore(k)
                        /\ \/ lock' = p /\ keyring = NoKeystore
                           \/ keyring \in {[raw |-> k], NewKeystore(k)}
      <4>1. CASE IsRaw(keyring)
        BY <1>0, <2>5, <3>2, <3>3, <4>1, InitialParts
      <4>2. CASE ~IsRaw(keyring)
        BY <1>0, <2>0, <2>5, <3>2, <3>3, <3>4, <4>2, InitialParts
      <4> QED BY <4>1, <4>2
    <3>6. InStep(p, lock', keyring, job'[p], pc'[p], cache'[p])
      BY <2>0, <2>1, <3>1, <3>5 DEF InStep
    <3> QED BY <2>0, <3>6, KeptByOne
  <2>6. CASE keyring \in Keystores /\ UseStore(p, keyring)
    BY <2>2, <2>6
  <2>7. keyring \notin Keystores <=> (keyring = NoKeystore \/ IsRaw(keyring))
    BY <1>0, ItemKinds
  <2> QED BY <1>2, <2>3, <2>4, <2>5, <2>6, <2>7 DEF ReadKeystore
<1>3. CASE InitKeystore(p)
  <2>0. pc[p] = "init" /\ UNCHANGED <<lock, cookies, cache>>
    BY <1>3 DEF InitKeystore
  <2>1. CASE keyring' = job[p].store /\ UseStore(p, job[p].store)
    <3>1. PICK k \in Key : /\ job[p].store = NewKeystore(k)
                          /\ \/ lock = p /\ keyring = NoKeystore
                             \/ keyring \in {[raw |-> k], NewKeystore(k)}
      BY <1>0, <2>0 DEF InStep
    <3>2. keyring' \in Keystores /\ Ordered(keyring') /\ keyring' = NewKeystore(k)
      BY <2>1, <3>1, NewParts
    <3>3. lock = p => cache[p] \in {NoKeystore, keyring'}
      <4>1. SUFFICES ASSUME lock = p PROVE cache[p] \in {NoKeystore, keyring'}
        OBVIOUS
      <4>2. cache[p] \in {NoKeystore, keyring} /\ cache[p] \in Stores
        BY <1>0, <2>0, <4>1, OneFits DEF InStep
      <4>3. [raw |-> k] \notin Stores
        BY RawParts
      <4> QED BY <3>1, <3>2, <4>2, <4>3
    <3>4. InStep(p, lock', keyring', job'[p], pc'[p], cache'[p])
      BY <2>0, <2>1, <3>3, UseStoreInStep
    <3>5. cookies # NoFile => NoOlder(keyring', cookies)
      BY <3>2, NewIsNoOlder
    <3> QED BY <2>0, <3>1, <3>2, <3>4, <3>5, RekeyedByOne
  <2>2. CASE NoKey(p) /\ UNCHANGED keyring
    BY <2>0, <2>2, WithoutKeyKeeps DEF NoKey
  <2> QED BY <1>3, <2>1, <2>2 DEF InitKeystore
<1>4. CASE Decrypt(p)
  <2>0. pc[p] = "decrypt" /\ UNCHANGED <<lock, keyring, cookies>>
    BY <1>4 DEF Decrypt, disk
  <2>1. pc'[p] \in {"timeout", "closing"}
    BY <1>4 DEF Decrypt, NotInjected, Leaves, Goto, Typed
  <2>2. lock = p => cache'[p] \in {NoKeystore, keyring}
    BY <1>0, <1>4, <2>0 DEF Decrypt, InStep, Typed
  <2>3. InStep(p, lock', keyring, job'[p], pc'[p], cache'[p])
    BY <2>0, <2>1, <2>2 DEF InStep
  <2> QED BY <2>0, <2>3, KeptByOne
<1> QED BY <1>1, <1>2, <1>3, <1>4

(* The steps of the browser keep it.                                       *)
LEMMA BrowsingKeeps ==
  ASSUME Typed, KeysKept, Calm, Calm', NEW p \in Procs, Acts(p),
         ~(ReadCookies(p) \/ ReadKeystore(p) \/ InitKeystore(p) \/ Decrypt(p)),
         ~(Rotate(p) \/ PersistKeystore(p) \/ WriteCookies(p))
  PROVE  KeysKept'
<1> USE DEF disk, Apart, PC
<1>1. CASE \E r \in Requests : Start(p, r)
  <2>1. PICK r \in Requests : Start(p, r)
    BY <1>1
  <2>2. pc'[p] \in {"waiting", "preflight"} /\ job'[p] = [NoJob EXCEPT !.req = r]
    BY <2>1 DEF Start, Goto, Typed
  <2>3. job'[p].file = NoFile
    BY <2>2 DEF NoJob
  <2> QED BY <2>1, <2>2, <2>3, QuietStep DEF Start
<1>2. CASE \E kind \in Kinds \ {"late"} : PageRequests(p, kind)
  BY <1>2, QuietStep DEF PageRequests
<1>3. CASE PagePosts(p)
  <2>1. UNCHANGED <<lock, keyring, cookies, cache, pc, job>>
    BY <1>3 DEF PagePosts
  <2>2. InStep(p, lock', keyring, job'[p], pc'[p], cache'[p])
    BY <2>1 DEF KeysKept
  <2> QED BY <2>1, <2>2, KeptByOne
<1>13. CASE Intercept(p) \/ Abort(p)
  <2>1. pc'[p] \in {"capture", "abort", "disable", "stop"} /\ pc[p] \in {"capture", "abort"}
    BY <1>13 DEF Intercept, Abort, Goto, Typed
  <2>2. UNCHANGED <<lock, keyring, cookies, cache>>
    BY <1>13 DEF Intercept, Abort
  <2> QED BY <2>1, <2>2, QuietStep
<1>4. CASE PageFails(p)
  BY <1>4, WithoutKeyKeeps DEF PageFails
<1>5. CASE Crash(p) \/ Close(p) \/ GiveUp(p)
  BY <1>5, EndKeeps DEF Crash, Close, GiveUp
<1>6. CASE TakeLock(p)
  <2>1. /\ pc'[p] = "preflight" /\ job'[p] = job[p] /\ cache'[p] = NoKeystore
        /\ UNCHANGED <<keyring, cookies>>
    BY <1>6, OneFits DEF TakeLock, Goto, Typed, FitsAt, Fits
  <2>2. InStep(p, lock', keyring, job'[p], pc'[p], cache'[p])
    BY <2>1 DEF KeysKept, InStep
  <2> QED BY <2>1, <2>2, KeptByOne
<1>7. CASE Preflight(p)
  <2>1. job'[p].file = job[p].file
    <3>1. job[p] \in FullJob
      BY OneFits
    <3>2. job'[p] = [job[p] EXCEPT !.persistent = Persistent(job[p].req),
                                   !.headless = Headless(job[p].req)]
      BY <1>7 DEF Preflight, Typed
    <3> QED BY <3>1, <3>2 DEF FullJob
  <2>2. pc'[p] = "launch" /\ pc[p] = "preflight"
    BY <1>7 DEF Preflight, Goto, Typed
  <2> QED BY <1>7, <2>1, <2>2, QuietStep DEF Preflight
<1>8. CASE Launch(p)
  <2>1. UNCHANGED <<keyring, cookies>>
    BY <1>8 DEF Launch
  <2>2. CASE Ends(p)
    BY <2>1, <2>2, EndKeeps
  <2>3. CASE ~Ends(p)
    <3>1. pc'[p] = "page" /\ pc[p] = "launch" /\ UNCHANGED <<lock, cache, job>>
      BY <1>8, <2>3 DEF Launch, Goto, Typed
    <3> QED BY <2>1, <3>1, QuietStep
  <2> QED BY <2>2, <2>3
<1>9. CASE StartCapture(p)
  <2>1. CASE Leaves(p)
    BY <1>9, <2>1, WithoutKeyKeeps DEF StartCapture
  <2>2. CASE Goto(p, "capture") /\ UNCHANGED job
    <3>1. pc'[p] = "capture" /\ pc[p] = "timeout"
      BY <1>9, <2>2 DEF StartCapture, Goto, Typed
    <3> QED BY <1>9, <2>2, <3>1, QuietStep DEF StartCapture
  <2> QED BY <1>9, <2>1, <2>2 DEF StartCapture
<1>10. CASE CaptureFails(p) \/ StopLoading(p)
  <2>1. pc'[p] \in {"stop", "disable"} /\ pc[p] \in {"capture", "abort", "stop"}
    BY <1>10 DEF CaptureFails, StopLoading, Goto, Typed
  <2>2. UNCHANGED <<lock, keyring, cookies, cache, job>>
    BY <1>10 DEF CaptureFails, StopLoading
  <2> QED BY <2>1, <2>2, QuietStep
<1>11. CASE Disable(p)
  <2>1. pc[p] = "disable" /\ UNCHANGED <<lock, keyring, cookies, cache>>
    BY <1>11 DEF Disable
  <2>2. pc'[p] \in {"saving", "closing"} /\ job'[p] = NoJob
    BY <1>11 DEF Disable, Leaves, Goto, Typed
  <2> QED BY <2>1, <2>2, NoJobFits, QuietStep
<1>12. CASE CollectCookies(p)
  <2>1. pc[p] = "saving" /\ UNCHANGED <<lock, keyring, cookies, cache>>
    BY <1>12 DEF CollectCookies
  <2>2. pc'[p] \in {"keystore", "closing"} /\ job'[p] \in {NoJob, job[p]}
    BY <1>12 DEF CollectCookies, Leaves, Goto, Typed
  <2> QED BY <2>1, <2>2, NoJobFits, QuietStep
<1> QED BY <1>1, <1>2, <1>3, <1>4, <1>5, <1>6, <1>7, <1>8, <1>9, <1>10, <1>11, <1>12,
           <1>13 DEF Acts, Step

(* Rotation and the two writes keep it, whatever fails between them.       *)
LEMMA SavingKeeps ==
  ASSUME Typed, KeysKept, Calm, Calm', NEW p \in Procs, Acts(p),
         Rotate(p) \/ PersistKeystore(p) \/ WriteCookies(p)
  PROVE  KeysKept'
<1>0. /\ InStep(p, lock, keyring, job[p], pc[p], cache[p])
      /\ job[p] \in FullJob /\ lock = p /\ job[p].file = NoFile
  BY OneFits DEF KeysKept, Rotate, PersistKeystore, WriteCookies, FitsAt, Fits, NeedsLock
<1>1. CASE Rotate(p)
  <2>0. /\ pc[p] = "rotate" /\ UNCHANGED <<lock, keyring, cookies, cache>>
        /\ job[p].store = keyring /\ keyring \in Keystores
    BY <1>0, <1>1, OneFits DEF Rotate, disk, InStep, FitsAt, Fits, WithStore, FullJob, Stores
  <2>1. CASE Leaves(p)
    BY <2>0, <2>1, WithoutKeyKeeps
  <2>2. CASE Goto(p, "write") /\ UNCHANGED job
    <3>1. pc'[p] = "write" /\ job'[p] = job[p]
      BY <2>2 DEF Goto, Typed
    <3>2. InStep(p, lock', keyring, job'[p], pc'[p], cache'[p])
      BY <1>0, <2>0, <3>1 DEF InStep
    <3> QED BY <2>0, <3>2, KeptByOne
  <2>3. CASE /\ Due(keyring) /\ ~Exhausted(keyring) /\ Goto(p, "persist")
             /\ job' = [job EXCEPT ![p].store = Rotated(keyring, FreshKey)]
    <3>1. pc'[p] = "persist" /\ job'[p] = [job[p] EXCEPT !.store = Rotated(keyring, FreshKey)]
      BY <2>3 DEF Goto, Typed
    <3>2. job'[p].store = Rotated(keyring, FreshKey) /\ job'[p].file = NoFile
      BY <1>0, <3>1 DEF FullJob
    <3>3. InStep(p, lock', keyring, job'[p], pc'[p], cache'[p])
      BY <1>0, <2>0, <2>3, <3>1, <3>2, FreshKeyType DEF InStep
    <3> QED BY <2>0, <3>3, KeptByOne
  <2> QED BY <1>1, <2>0, <2>1, <2>2, <2>3 DEF Rotate
<1>2. CASE PersistKeystore(p)
  <2>0. pc[p] = "persist" /\ UNCHANGED <<lock, cookies, cache>>
    BY <1>2 DEF PersistKeystore
  <2>1. CASE Leaves(p) /\ UNCHANGED keyring
    BY <2>0, <2>1, WithoutKeyKeeps
  <2>2. CASE keyring' = job[p].store /\ Goto(p, "write") /\ UNCHANGED job
    <3>1. PICK k \in Key : /\ keyring \in Keystores /\ Due(keyring) /\ ~Exhausted(keyring)
                           /\ keyring' = Rotated(keyring, k)
      BY <1>0, <2>0, <2>2 DEF InStep
    <3>2. Ordered(keyring) /\ Ordered(keyring') /\ keyring' \in Keystores
      BY <3>1, RotatedParts DEF KeysKept
    <3>3. cookies # NoFile => NoOlder(keyring', cookies)
      <4>1. SUFFICES ASSUME cookies # NoFile, Opens(keyring', cookies.id, cookies.key)
                     PROVE  keyring'.keys[cookies.id].age <= cookies.age
        BY DEF NoOlder
      <4>2. CASE keyring'.keys[cookies.id].age = 0
        BY <4>1, <4>2 DEF Typed, CookieFile, Age
      <4>3. CASE /\ cookies.id \in DOMAIN keyring.keys
                 /\ keyring'.keys[cookies.id] = keyring.keys[cookies.id]
        BY <3>1, <4>1, <4>3 DEF KeysKept, NoOlder, Opens
      <4> QED BY <3>1, <4>1, <4>2, <4>3, RotatedParts DEF Opens
    <3>4. pc'[p] = "write" /\ job'[p] = job[p]
      BY <2>2 DEF Goto, Typed
    <3>5. InStep(p, lock', keyring', job'[p], pc'[p], cache'[p])
      BY <1>0, <2>2, <3>4 DEF InStep
    <3>6. /\ lock' = lock /\ cookies' = cookies /\ lock = p
          /\ keyring \in Keystores /\ Due(keyring)
      BY <1>0, <2>0, <3>1
    <3> QED BY <3>2, <3>3, <3>5, <3>6, RekeyedByOne
  <2> QED BY <1>2, <2>1, <2>2 DEF PersistKeystore
<1>3. CASE WriteCookies(p)
  <2>0. /\ pc[p] = "write" /\ UNCHANGED <<lock, keyring>>
        /\ job[p].store = keyring /\ keyring \in Keystores
    BY <1>0, <1>3, OneFits DEF WriteCookies, InStep, FitsAt, Fits, WithStore, FullJob, Stores
  <2>1. cookies' = cookies \/ NoOlder(keyring, cookies')
    <3>1. Current(keyring) \in Version
      BY <2>0, KeystoreParts DEF Current
    <3> QED BY <1>3, <2>0, <3>1 DEF WriteCookies, NoOlder, Current, Version, Age
  <2>2. pc'[p] = "closing" /\ job'[p] = NoJob /\ cache'[p] = keyring
    BY <1>3, <2>0 DEF WriteCookies, Leaves, Goto, Typed
  <2>3. InStep(p, lock', keyring, job'[p], pc'[p], cache'[p])
    BY <2>2, NoJobFits DEF InStep
  <2> QED BY <2>0, <2>1, <2>3, KeptByOne
<1> QED BY <1>1, <1>2, <1>3

(* A tick ages the keystore and the file alike.                            *)
LEMMA TickKeeps ==
  ASSUME Typed, KeysKept, Tick
  PROVE  KeysKept'
<1>0. /\ keyring \in Items /\ deleting = "no"
      /\ keyring' = AgedItem(keyring) /\ keyring' \in Items
      /\ UNCHANGED <<lock, pc, job, cache, deleted, deleting, begun>>
  BY DiskTypes, AgedParts DEF Tick, KeysKept, profile, config
<1>1. keyring' \in Keystores <=> keyring \in Keystores
  BY <1>0, AgedParts
<1>2. Calm /\ keyring' \in Keystores => Ordered(keyring')
  BY <1>0, <1>1, AgedParts DEF KeysKept, Ordered
<1>3. ASSUME Calm, keyring' \in Keystores, cookies' # NoFile
      PROVE  NoOlder(keyring', cookies')
  <2>1. /\ cookies \in CookieFile /\ cookies # NoFile
        /\ cookies' = [cookies EXCEPT !.age = Older(@)]
    BY <1>3 DEF Tick, Typed
  <2>2. /\ cookies'.id = cookies.id /\ cookies'.key = cookies.key
        /\ cookies'.age = Older(cookies.age) /\ cookies.age \in Age
    BY <2>1 DEF CookieFile
  <2>3. keyring \in Keystores /\ NoOlder(keyring, cookies)
    BY <1>1, <1>3, <2>1 DEF KeysKept
  <2>4. SUFFICES ASSUME Opens(keyring', cookies.id, cookies.key)
                 PROVE  keyring'.keys[cookies.id].age <= cookies'.age
    BY <2>2 DEF NoOlder
  <2>5. /\ Opens(keyring, cookies.id, cookies.key)
        /\ keyring'.keys[cookies.id].age = Older(keyring.keys[cookies.id].age)
        /\ keyring.keys[cookies.id].age \in Age
    <3>1. /\ cookies.id \in DOMAIN keyring.keys
          /\ keyring.keys[cookies.id].key = cookies.key
          /\ keyring'.keys[cookies.id].age = Older(keyring.keys[cookies.id].age)
      BY <1>0, <2>3, <2>4, AgedParts DEF Opens
    <3>2. keyring.keys[cookies.id] \in Version
      BY <2>3, <3>1, KeystoreParts
    <3> QED BY <3>1, <3>2 DEF Opens, Version
  <2>6. keyring.keys[cookies.id].age <= cookies.age
    BY <2>3, <2>5 DEF NoOlder
  <2> QED BY <2>2, <2>5, <2>6 DEF Older, Age
<1>4. ASSUME NEW p \in Procs
      PROVE  InStep(p, lock', keyring', job'[p], pc'[p], cache'[p])
  <2>1. pc[p] = "idle"
    BY DEF Tick
  <2>2. cache[p] = NoKeystore /\ job[p] = NoJob
    BY <2>1, OneFits DEF FitsAt, Fits, Outside
  <2> QED BY <1>0, <2>1, <2>2 DEF InStep
<1> QED BY <1>0, <1>2, <1>3, <1>4 DEF KeysKept, Calm

(* Every step keeps KeysKept.                                              *)
LEMMA NextKeeps == Typed /\ KeysKept /\ [Next]_vars => KeysKept'
<1> SUFFICES ASSUME Typed, KeysKept, [Next]_vars PROVE KeysKept'
  OBVIOUS
<1>1. ASSUME NEW p \in Procs, Acts(p) PROVE KeysKept'
  <2>1. CASE ~Calm'
    BY <1>1, <2>1, OthersStay DEF KeysKept
  <2>2. CASE Calm'
    <3>1. Calm
      BY <1>1, <2>2, OthersStay DEF Calm
    <3> QED BY <1>1, <2>2, <3>1, BrowsingKeeps, InjectionKeeps, SavingKeeps
  <2> QED BY <2>1, <2>2
<1>2. CASE Surroundings /\ ~Tick
  <2>1. CASE deleted'
    BY <2>1 DEF KeysKept, Calm
  <2>2. CASE ~deleted'
    <3>1. ~deleted /\ deleting = "no"
      BY <1>2, <2>2 DEF Surroundings, DeleteProfile, RemoveDir, WipeKeyring,
                        Configure, RemoveLegacy, profile, config, KeysKept
    <3>2. UNCHANGED <<lock, keyring, cookies, cache, pc, job, deleting, deleted, begun>>
      BY <1>2, <2>2, <3>1 DEF Surroundings, DeleteProfile, RemoveDir, WipeKeyring,
                              Configure, RemoveLegacy, profile, config, disk
    <3> QED BY <3>1, <3>2 DEF KeysKept, Calm
  <2> QED BY <2>1, <2>2
<1>3. CASE UNCHANGED vars
  BY <1>3 DEF vars, KeysKept, Calm
<1> QED BY <1>1, <1>2, <1>3, NextIsOneOrNone, TickKeeps

(* KeysKept holds at the start.                                            *)
LEMMA InitKeeps == Init => KeysKept
<1> SUFFICES ASSUME Init PROVE KeysKept
  OBVIOUS
<1>1. ASSUME NEW p \in Procs
      PROVE  InStep(p, lock, keyring, job[p], pc[p], cache[p])
  BY DEF Init, InStep
<1>2. ASSUME keyring \in Keystores
      PROVE  Ordered(keyring) /\ (cookies # NoFile => NoOlder(keyring, cookies))
  <2>1. 1 \in Key /\ [raw |-> 1] \in [raw: Key]
    BY DEF Key
  <2>2. keyring = NewKeystore(1)
    BY <1>2, <2>1, RawParts DEF Init, Stores
  <2>3. cookies # NoFile => cookies.age = 0
    BY DEF Init
  <2> QED BY <2>1, <2>2, <2>3, NewParts DEF NoOlder, Opens
<1> QED BY <1>1, <1>2 DEF Init, KeysKept

(* The third layer: the key of the cookie file is kept.                    *)
LEMMA Keeping == Spec => []KeysKept
BY InitKeeps, NextKeeps, Typing, PTL DEF Spec

(* The steps that change the keychain or the cookie file, as long as       *)
(* neither the profile was deleted nor a keystore begun without the lock.  *)
LEMMA StoreSteps ==
  ASSUME Typed, KeysKept, Calm, [Next]_vars,
         ~(keyring' = keyring /\ cookies' = cookies)
  PROVE  \/ \E k \in Key : /\ keyring' = NewKeystore(k) /\ cookies' = cookies
                           /\ keyring \in {NoKeystore, [raw |-> k], NewKeystore(k)}
         \/ /\ keyring \in Keystores /\ ~Exhausted(keyring) /\ cookies' = cookies
            /\ \E k \in Key : keyring' = Rotated(keyring, k)
         \/ /\ keyring \in Keystores /\ keyring' = keyring
            /\ cookies' = [id |-> keyring.current, key |-> Current(keyring).key,
                           age |-> Current(keyring).age]
         \/ Tick
<1>1. ASSUME NEW p \in Procs, InitKeystore(p), keyring' # keyring
      PROVE  \E k \in Key : /\ keyring' = NewKeystore(k) /\ cookies' = cookies
                           /\ keyring \in {NoKeystore, [raw |-> k], NewKeystore(k)}
  BY <1>1 DEF InitKeystore, KeysKept, InStep
<1>2. ASSUME NEW p \in Procs, PersistKeystore(p), keyring' # keyring
      PROVE  /\ keyring \in Keystores /\ ~Exhausted(keyring) /\ cookies' = cookies
             /\ \E k \in Key : keyring' = Rotated(keyring, k)
  BY <1>2 DEF PersistKeystore, KeysKept, InStep
<1>3. ASSUME NEW p \in Procs, WriteCookies(p), cookies' # cookies
      PROVE  /\ keyring \in Keystores /\ keyring' = keyring
             /\ cookies' = [id |-> keyring.current, key |-> Current(keyring).key,
                            age |-> Current(keyring).age]
  <2>1. /\ lock = p /\ job[p].store = keyring /\ job[p].store \in Keystores
    BY <1>3, OneFits DEF WriteCookies, NeedsLock, KeysKept, InStep, FitsAt, Fits,
                         WithStore, FullJob, Stores
  <2> QED BY <1>3, <2>1 DEF WriteCookies
<1>4. ASSUME NEW p \in Procs, Acts(p), ~InitKeystore(p), ~PersistKeystore(p), ~WriteCookies(p)
      PROVE  keyring' = keyring /\ cookies' = cookies
  BY <1>4 DEF Acts, Start, PageRequests, PagePosts, Intercept, PageFails, Crash, Step,
     TakeLock, GiveUp, Preflight, Launch, ReadCookies, ReadKeystore, Decrypt,
     StartCapture, Abort, CaptureFails, StopLoading, Disable, CollectCookies, Rotate,
     Close, disk
<1>5. ASSUME NEW p \in Procs, InitKeystore(p) \/ PersistKeystore(p) PROVE cookies' = cookies
  BY <1>5 DEF InitKeystore, PersistKeystore
<1>6. ASSUME NEW p \in Procs, WriteCookies(p) PROVE keyring' = keyring
  BY <1>6 DEF WriteCookies
<1>7. Surroundings /\ ~Tick => keyring' = keyring /\ cookies' = cookies
  BY DEF Surroundings, DeleteProfile, RemoveDir, WipeKeyring, Configure, RemoveLegacy,
         disk, KeysKept, Calm
<1>8. UNCHANGED vars => keyring' = keyring /\ cookies' = cookies
  BY DEF vars
<1>9. CASE \E p \in Procs : Acts(p)
  BY <1>1, <1>2, <1>3, <1>4, <1>5, <1>6, <1>9
<1> QED BY <1>7, <1>8, <1>9, NextIsOneOrNone

(* A key that is found under an id of a keystore stays there when the      *)
(* keystore ages.                                                          *)
LEMMA AgedOpens ==
  ASSUME NEW item \in Items, NEW id, NEW key
  PROVE  HasKey(AgedItem(item), id, key) <=> HasKey(item, id, key)
<1>1. CASE item \notin Keystores
  BY <1>1, AgedParts
<1>2. CASE item \in Keystores
  <2>1. AgedItem(item) \in Keystores
    BY <1>2, AgedParts
  <2> QED BY <1>2, <2>1, AgedParts, KeystoreParts DEF HasKey, Opens
<1> QED BY <1>1, <1>2

(* The remembered session survives rotations, the migration of a raw key,  *)
(* crashes between the saving of a rotated keystore and the writing of the *)
(* file, failed writes and concurrent list-roles: a cookie file that could *)
(* be decrypted stays so, and a new one can be, unless its key was past    *)
(* retention when replaced, as long as the profile is not deleted and no   *)
(* list-roles has found an empty keychain.                                 *)
THEOREM SessionKept == Spec => KeptWhileYoung
<1> DEFINE Body == ~deleted /\ ~begun /\ cookies' # NoFile =>
                     \/ Readable' \/ cookies'.age > Retention
                     \/ ~Readable /\ cookies # NoFile /\ cookies'.key = cookies.key
<1>1. Typed /\ KeysKept /\ [Next]_vars => Body
  <2> SUFFICES ASSUME Typed, KeysKept, [Next]_vars, Calm, cookies' # NoFile,
                      ~(cookies'.age > Retention),
                      ~(~Readable /\ cookies # NoFile /\ cookies'.key = cookies.key)
               PROVE  Readable'
    BY DEF Calm
  <2>0. keyring \in Items /\ cookies \in CookieFile \cup {NoFile}
    BY DiskTypes
  <2>1. CASE keyring' = keyring /\ cookies' = cookies
    BY <2>1 DEF Readable
  <2>2. ASSUME NEW k \in Key, keyring' = NewKeystore(k), cookies' = cookies,
               keyring \in {NoKeystore, [raw |-> k], NewKeystore(k)}
        PROVE  Readable'
    <3>1. HasKey(keyring, cookies.id, cookies.key)
      BY <2>2 DEF Readable
    <3>2. keyring' \in Keystores
      BY <2>2, NewParts
    <3>3. CASE keyring = [raw |-> k]
      <4>1. cookies.id = 1 /\ cookies.key = k
        BY <3>1, <3>3, RawParts DEF HasKey
      <4>2. HasKey(keyring', 1, k)
        BY <2>2, <3>2, KeystoreParts, NewParts DEF HasKey, Opens
      <4> QED BY <2>2, <4>1, <4>2 DEF Readable
    <3>4. CASE keyring = NewKeystore(k)
      BY <2>2, <3>1, <3>4 DEF Readable
    <3>5. keyring # NoKeystore
      BY <3>1 DEF HasKey
    <3> QED BY <2>2, <3>3, <3>4, <3>5
  <2>3. ASSUME keyring \in Keystores, ~Exhausted(keyring), cookies' = cookies,
               NEW k \in Key, keyring' = Rotated(keyring, k)
        PROVE  Readable'
    <3>1. Opens(keyring, cookies.id, cookies.key) /\ cookies.age <= Retention
      BY <2>0, <2>3, KeystoreParts DEF Readable, HasKey, CookieFile, Age
    <3>2. keyring.keys[cookies.id].age <= Retention
      <4>1. keyring.keys[cookies.id] \in Version
        BY <2>3, <3>1, KeystoreParts DEF Opens
      <4>2. keyring.keys[cookies.id].age <= cookies.age
        BY <2>3, <3>1 DEF KeysKept, NoOlder
      <4> QED BY <2>0, <2>3, <3>1, <4>1, <4>2 DEF Version, CookieFile, Age
    <3>3. /\ keyring' \in Keystores /\ Opens(keyring', cookies.id, cookies.key)
      BY <2>3, <3>1, <3>2, RotatedParts DEF Opens, KeysKept
    <3> QED BY <2>3, <3>3, KeystoreParts DEF Readable, HasKey
  <2>4. CASE /\ keyring \in Keystores /\ keyring' = keyring
             /\ cookies' = [id |-> keyring.current, key |-> Current(keyring).key,
                            age |-> Current(keyring).age]
    BY <2>4, KeystoreParts DEF Readable, HasKey, Opens, Current
  <2>5. CASE Tick
    <3>1. /\ cookies \in CookieFile /\ cookies # NoFile
          /\ cookies' = [cookies EXCEPT !.age = Older(@)]
          /\ keyring' = AgedItem(keyring)
      BY <2>5 DEF Tick, Typed
    <3>2. cookies'.id = cookies.id /\ cookies'.key = cookies.key
      BY <3>1 DEF CookieFile
    <3>3. HasKey(keyring, cookies.id, cookies.key)
      BY <3>1, <3>2 DEF Readable
    <3> QED BY <2>0, <3>1, <3>2, <3>3, AgedOpens DEF Readable
  <2> QED BY <2>1, <2>2, <2>3, <2>4, <2>5, StoreSteps
<1> QED BY <1>1, Typing, Keeping, PTL DEF Spec, KeptWhileYoung

(* As long as the profile is not deleted and no list-roles has found an    *)
(* empty keychain, a key id never comes to stand for another key: no       *)
(* sign-in overwrites the keystore another one saved or starts it anew,    *)
(* those included that begin the keystore with a raw key.                  *)
THEOREM IdsStayBound == Spec => IdsNeverRebound
<1>1. Typed /\ KeysKept /\ [Next]_vars => (~deleted /\ ~begun => ~Rebinds)
  <2> SUFFICES ASSUME Typed, KeysKept, [Next]_vars, Calm, keyring # NoKeystore,
                      NEW id \in KeyId, NEW key \in KeysIn(keyring),
                      HasKey(keyring, id, key),
                      NEW other \in KeysIn(keyring'), HasKey(keyring', id, other)
               PROVE  other = key
    BY DEF Rebinds, Calm
  <2>0. keyring \in Items
    BY DiskTypes
  <2>1. CASE keyring' = keyring
    <3>1. CASE IsRaw(keyring)
      BY <2>1, <3>1 DEF HasKey
    <3>2. CASE ~IsRaw(keyring)
      BY <2>1, <3>2 DEF HasKey, Opens
    <3> QED BY <3>1, <3>2
  <2>2. ASSUME NEW k \in Key, keyring' = NewKeystore(k),
               keyring \in {NoKeystore, [raw |-> k], NewKeystore(k)}, keyring' # keyring
        PROVE  other = key
    <3>1. keyring = [raw |-> k] /\ keyring' \in Keystores
      BY <2>2, NewParts
    <3>2. key = k
      BY <3>1, RawParts DEF HasKey
    <3>3. other = k
      BY <2>2, <3>1, KeystoreParts, NewParts DEF HasKey, Opens
    <3> QED BY <3>2, <3>3
  <2>3. ASSUME keyring \in Keystores, ~Exhausted(keyring),
               NEW k \in Key, keyring' = Rotated(keyring, k)
        PROVE  other = key
    <3>1. Ordered(keyring) /\ keyring' \in Keystores
      BY <2>3, RotatedParts DEF KeysKept
    <3>2. /\ id \in DOMAIN keyring.keys /\ keyring.keys[id].key = key
          /\ id \in DOMAIN keyring'.keys /\ keyring'.keys[id].key = other
      BY <2>3, <3>1, KeystoreParts DEF HasKey, Opens
    <3> QED BY <2>3, <3>1, <3>2, RotatedParts
  <2>4. CASE Tick
    <3>1. HasKey(keyring, id, other)
      BY <2>0, <2>4, AgedOpens DEF Tick
    <3>2. CASE IsRaw(keyring)
      BY <3>1, <3>2 DEF HasKey
    <3>3. CASE ~IsRaw(keyring)
      BY <3>1, <3>3 DEF HasKey, Opens
    <3> QED BY <3>2, <3>3
  <2> QED BY <2>1, <2>2, <2>3, <2>4, StoreSteps
<1> QED BY <1>1, Typing, Keeping, PTL DEF Spec, IdsNeverRebound

----------------------------------------------------------------------------
(* A headless sign-in with nothing to sign in with does not wait.          *)

(* The points Hopeful says something of.                                   *)
Expecting == {"launch", "page", "timeout", "capture"}

(* A sign-in that is not handed its cookies and goes on is a visible one.  *)
LEMMA VisibleGoesOn ==
  ASSUME Typed, NEW p \in Procs, NotInjected(p)
  PROVE  pc'[p] \in Expecting => ~job'[p].headless
<1>1. CASE Leaves(p)
  BY <1>1 DEF Leaves, Goto, Typed, Expecting
<1>2. CASE /\ ~job[p].headless
           /\ job' = [job EXCEPT ![p].file = NoFile, ![p].store = NoKeystore]
  <2>1. job[p] \in FullJob /\ job'[p] = [job[p] EXCEPT !.file = NoFile, !.store = NoKeystore]
    BY <1>2, OneFits DEF Typed
  <2>2. job'[p].headless = job[p].headless
    BY <2>1 DEF FullJob
  <2> QED BY <1>2, <2>2
<1> QED BY <1>1, <1>2 DEF NotInjected

(* A process that moves keeps what lets it hope for a session.             *)
LEMMA OneHopes ==
  ASSUME Typed, AllHopeful, NEW p \in Procs, Acts(p), deleted' = deleted
  PROVE  Hopeful(job[p], pc[p])'
<1> SUFFICES ASSUME pc'[p] \in Expecting, job'[p].headless
             PROVE  Hopeful(job[p], pc[p])'
  BY DEF Hopeful, Expecting
<1>0. Hopeful(job[p], pc[p]) /\ job[p] \in FullJob /\ FitsAt(p)
  BY OneFits DEF AllHopeful
<1>1. CASE Preflight(p)
  <2> DEFINE r == job[p].req
  <2>1. r \in Request /\ pc'[p] = "launch" /\ cookies' = cookies
    BY <1>0, <1>1 DEF Preflight, FitsAt, Fits, AtPage, Goto, Typed, disk
  <2>2. job'[p] = [job[p] EXCEPT !.persistent = Persistent(r), !.headless = Headless(r)]
    BY <1>1 DEF Preflight, Typed
  <2>3. /\ job'[p].req = r /\ job'[p].persistent = Persistent(r)
        /\ job'[p].headless = Headless(r)
    BY <1>0, <2>2 DEF FullJob
  <2>4. ASSUME r.cmd = "list-roles", Kind(job'[p]) = "temp" PROVE cookies' # NoFile
    <3>1. ~r.remote /\ ~Persistent(r)
      BY <2>3, <2>4 DEF Kind
    <3>2. ~r.remember
      BY <2>4, <3>1 DEF Persistent
    <3>3. Headless(r)
      BY <2>3
    <3> QED BY <2>1, <2>4, <3>1, <3>2, <3>3 DEF Headless
  <2> QED BY <2>1, <2>3, <2>4 DEF Hopeful
<1>2. CASE Launch(p)
  <2>1. pc'[p] # "idle"
    BY DEF Expecting
  <2>2. pc[p] = "launch" /\ pc'[p] = "page" /\ UNCHANGED <<job, cookies>>
    BY <1>2, <2>1 DEF Launch, Ends, Goto, Typed
  <2> QED BY <1>0, <2>2 DEF Hopeful, Kind
<1>3. CASE NotInjected(p)
  BY <1>3, VisibleGoesOn
<1>4. CASE ReadCookies(p) /\ ~NotInjected(p)
  <2>1. /\ chrome[p] = "remote" \/ cookies = NoFile
        /\ pc[p] = "page" /\ pc'[p] = "timeout" /\ UNCHANGED <<job, cookies>>
    BY <1>4 DEF ReadCookies, Goto, Typed, disk, Expecting
  <2>2. job[p].req \in Requests => chrome[p] = Kind(job[p])
    BY <1>0, <2>1 DEF FitsAt, Fits, Unbrowsed
  <2> QED BY <1>0, <2>1, <2>2 DEF Hopeful, Kind
<1>5. CASE Decrypt(p) /\ ~NotInjected(p)
  <2>1. PICK live \in BOOLEAN :
          /\ Goto(p, "timeout")
          /\ job' = [job EXCEPT ![p].file = NoFile, ![p].store = NoKeystore,
                       ![p].session = live, ![p].spent = ~live]
    BY <1>5 DEF Decrypt
  <2>2. job'[p].session \/ job'[p].spent
    <3>1. CASE live = TRUE
      <4>1. job'[p].session = live
        BY <1>0, <2>1, ZenonT(30) DEF Typed, FullJob
      <4> QED BY <3>1, <4>1
    <3>2. CASE live = FALSE
      <4>1. job'[p].spent = ~live
        BY <1>0, <2>1, ZenonT(30) DEF Typed, FullJob
      <4> QED BY <3>2, <4>1
    <3> QED BY <3>1, <3>2
  <2>3. pc'[p] = "timeout"
    BY <2>1 DEF Goto, Typed
  <2> QED BY <2>2, <2>3 DEF Hopeful
<1>6. CASE StartCapture(p)
  <2>1. /\ pc[p] = "timeout" /\ pc'[p] = "capture" /\ UNCHANGED <<job, cookies>>
        /\ ~(job[p].headless /\ ~job[p].persistent /\ cookies = NoFile)
    BY <1>6 DEF StartCapture, Leaves, Goto, Typed, disk, Expecting
  <2> QED BY <1>0, <2>1 DEF Hopeful, Kind
<1>7. CASE Intercept(p)
  <2>1. pc[p] = "capture" /\ pc'[p] = "capture" /\ UNCHANGED <<job, cookies>>
    BY <1>7 DEF Intercept, Goto, Typed, disk, Expecting
  <2> QED BY <1>0, <2>1 DEF Hopeful, Kind
<1>8. CASE PagePosts(p) \/ \E kind \in Kinds \ {"late"} : PageRequests(p, kind)
  <2>1. UNCHANGED <<pc, job, cookies>>
    BY <1>8 DEF PagePosts, PageRequests, disk
  <2> QED BY <1>0, <2>1 DEF Hopeful
<1>9. /\ \A r \in Requests : ~Start(p, r)
      /\ ~PageFails(p) /\ ~Crash(p) /\ ~Close(p) /\ ~TakeLock(p) /\ ~GiveUp(p)
      /\ ~Abort(p) /\ ~CaptureFails(p) /\ ~StopLoading(p) /\ ~Disable(p) /\ ~CollectCookies(p)
      /\ ~Rotate(p) /\ ~PersistKeystore(p) /\ ~WriteCookies(p)
      /\ ReadKeystore(p) \/ InitKeystore(p) => NotInjected(p)
  BY DEF Start, PageFails, Crash, Close, TakeLock, GiveUp, Abort, CaptureFails, StopLoading,
         Disable, CollectCookies, Rotate, PersistKeystore, WriteCookies, ReadKeystore,
         InitKeystore, UseStore, NoKey, Leaves, Ends, Goto, Typed, Expecting
<1> QED BY <1>1, <1>2, <1>3, <1>4, <1>5, <1>6, <1>7, <1>8, <1>9 DEF Acts, Step

(* Only the holder of the lock writes a cookie file.                       *)
LEMMA WriterHasLock ==
  ASSUME Typed, NEW p \in Procs, Acts(p), cookies' # cookies
  PROVE  lock = p /\ cookies' # NoFile
<1>1. WriteCookies(p)
  BY DEF Acts, Start, PageRequests, PagePosts, Intercept, PageFails, Crash, Step,
     TakeLock, GiveUp, Preflight, Launch, ReadCookies, ReadKeystore, InitKeystore,
     Decrypt, StartCapture, Abort, CaptureFails, StopLoading, Disable, CollectCookies, Rotate,
     PersistKeystore, Close, disk
<1>2. lock = p /\ job[p].store \in Keystores
  BY <1>1, OneFits DEF WriteCookies, NeedsLock, FitsAt, Fits, WithStore, FullJob, Stores
<1>3. cookies' \in CookieFile
  <2>1. job[p].store.current \in KeyId /\ Current(job[p].store) \in Version
    BY <1>2, KeystoreParts DEF Current
  <2> QED BY <1>1, <2>1 DEF WriteCookies, CookieFile, Version
<1> QED BY <1>2, <1>3

(* The fourth layer: a headless capture has a session.                     *)
LEMMA Hoping == Spec => []AllHopeful
<1>1. Init => AllHopeful
  BY NoJobFits DEF Init, AllHopeful, Hopeful
<1>2. Typed /\ KeysKept /\ AllHopeful /\ [Next]_vars => AllHopeful'
  <2> SUFFICES ASSUME Typed, KeysKept, AllHopeful, [Next]_vars, NEW o \in Procs
               PROVE  Hopeful(job[o], pc[o])'
    BY DEF AllHopeful
  <2>0. Hopeful(job[o], pc[o]) /\ FitsAt(o) /\ (NeedsLock(job[o], pc[o]) => lock = o)
    BY OneFits DEF AllHopeful
  <2>1. ASSUME NEW p \in Procs, Acts(p) PROVE Hopeful(job[o], pc[o])'
    <3>0. deleted' = deleted
      BY <2>1, OthersStay
    <3>1. CASE o = p
      BY <2>1, <3>0, <3>1, OneHopes
    <3>2. CASE o # p
      <4>1. job'[o] = job[o] /\ pc'[o] = pc[o]
        BY <2>1, <3>2, OthersStay
      <4>2. CASE cookies' = cookies
        BY <2>0, <3>0, <4>1, <4>2 DEF Hopeful
      <4>3. CASE cookies' # cookies
        <5>1. cookies' # NoFile
          BY <2>1, <4>3, WriterHasLock
        <5>2. job[o].req \in Requests /\ pc[o] = "timeout" => job[o].req.cmd = "list-roles"
          <6>1. lock # o
            BY <2>1, <3>2, <4>3, WriterHasLock
          <6> QED BY <2>0, <6>1 DEF NeedsLock, Request
        <5> QED BY <2>0, <3>0, <4>1, <5>1, <5>2 DEF Hopeful
      <4> QED BY <4>2, <4>3
    <3> QED BY <3>1, <3>2
  <2>2. CASE Surroundings /\ ~Tick
    <3>1. /\ UNCHANGED <<job, pc>> /\ (deleted => deleted')
          /\ \/ cookies' = cookies
             \/ deleted /\ cookies' = NoFile
      BY <2>2 DEF Surroundings, DeleteProfile, RemoveDir, WipeKeyring, Configure,
                  RemoveLegacy, disk, profile, config, KeysKept
    <3>2. job[o].req \in Requests => job[o].req.cmd \in {"login", "list-roles"}
      BY DEF Request
    <3> QED BY <2>0, <3>1, <3>2 DEF Hopeful
  <2>3. CASE Tick
    <3>1. pc[o] = "idle" /\ UNCHANGED <<job, pc>>
      BY <2>3 DEF Tick
    <3>2. job[o] = NoJob
      BY <2>0, <3>1 DEF FitsAt, Fits, Outside
    <3> QED BY <3>1, <3>2, NoJobFits DEF Hopeful
  <2>4. CASE UNCHANGED vars
    BY <2>0, <2>4 DEF vars, Hopeful
  <2> QED BY <2>1, <2>2, <2>3, <2>4, NextIsOneOrNone
<1> QED BY <1>1, <1>2, Typing, Keeping, PTL DEF Spec

(* A headless local sign-in without a session to use fails at once instead *)
(* of waiting for its timeout: only a store whose cookies have all expired *)
(* lets it wait; a list-roles may be misled by a deletion next to it, a    *)
(* login never.                                                            *)
THEOREM NobodyWaitsHopelessly == Spec => []NoHopelessWait
<1>1. Typed /\ AllHopeful => NoHopelessWait
  <2> SUFFICES ASSUME Typed, AllHopeful, NEW p \in Procs, pc[p] = "capture",
                      job[p].headless, chrome[p] = "temp",
                      deleted => job[p].req.cmd = "login"
               PROVE  job[p].session \/ job[p].spent
    BY DEF NoHopelessWait
  <2>1. job[p].req \in Requests /\ Kind(job[p]) = "temp"
    BY OneFits DEF FitsAt, Fits, AtPage, Unbrowsed
  <2> QED BY <2>1 DEF AllHopeful, Hopeful
<1> QED BY <1>1, Typing, Hoping, PTL
=============================================================================
