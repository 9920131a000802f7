------------------------- MODULE SessionLock_proofs -------------------------
(***************************************************************************)
(* What holds of SessionLock for any processes, session scopes, requests   *)
(* and lifetimes.  Fits is what a command has worked out where it stands,  *)
(* Backed that every token that still counts rests on what a human agreed  *)
(* to in its scope.                                                        *)
(***************************************************************************)
EXTENDS SessionLock, TLAPS

USE LockAssumption

----------------------------------------------------------------------------
(* The inductive invariants.                                               *)

(* What the job of a process at a point has in it.                         *)
Fits(j, at) ==
  /\ j \in Job
  /\ at # "idle" => j.scope \in Scope
  /\ at \in {"gate", "discard", "password", "consent"} => j.seen \in Lock
  /\ at = "password" => j.seen # NoLock
  /\ at = "consent" => j.seen = NoLock
  /\ at \in {"gc", "gc_drop"} /\ j.req.cmd = "unlock" => j.seen \in Lock

Typed ==
  /\ TypeOK
  /\ \A p \in Procs : Fits(job[p], pc[p])

(* A token that still counts in boot b, and the agreement it rests on: the *)
(* same lock and leader, at least the same use, and at least as long.      *)
Counts(t, b) == t # NoToken /\ t.boot = b /\ ~Expired(t)

RestsOn(t, a) ==
  /\ a # Nothing
  /\ a.lock = t.lock
  /\ t.password => "password" \in a.what
  /\ t.ai => "ai" \in a.what
  /\ a.bound <=> t.start # 0
  /\ t.start # 0 => t.start = a.leader
  /\ a.left # NoHours => t.ttl # 0 /\ t.ttl - t.age <= a.left

(* No token comes from a boot to come, or lives past the hard cap.         *)
InBounds(t, b) == t # NoToken => t.boot <= b /\ t.ttl <= HardCapHours

Backed ==
  \A s \in Scope :
    /\ InBounds(tokens[s], boot)
    /\ Counts(tokens[s], boot) => RestsOn(tokens[s], agreed[s])

(* Nobody asks for a lifetime of zero hours, which the code takes for      *)
(* "never expires": see the run lock_zero_hours.                           *)
NoZeroHours ==
  /\ ProfileHours # 0
  /\ \A r \in Requests : r.hours # 0

----------------------------------------------------------------------------
(* Lemmas about the data.                                                  *)

(* The blank job fits where no command runs.                               *)
LEMMA NoJobFits == NoRequest \in Request /\ NoJob \in Job /\ Fits(NoJob, "idle")
BY DEF NoJob, Job, NoRequest, Request, Command, ProfileLock, Fits

(* The clock that start times are read from.                               *)
LEMMA StartTimeType == ASSUME TypeOK, NEW s PROVE StartTime(s) \in Nat
BY DEF StartTime, TypeOK

(* A lifetime is clamped to the hard cap; without zero hours only          *)
(* --no-expire makes it endless.                                           *)
LEMMA TtlType ==
  ASSUME NEW r \in Requests \cup {NoRequest}
  PROVE  /\ Ttl(r) \in 0..HardCapHours
         /\ NoZeroHours /\ ~(r.cmd = "unlock" /\ r.forever) => Ttl(r) # 0
<1>1. r.hours \in Nat \cup {NoHours}
  BY DEF Request, NoRequest
<1>2. ASSUME NEW h \in Nat \cup {NoHours}
      PROVE  /\ ResolveTtl(h) \in 0..HardCapHours
             /\ h # 0 /\ ProfileHours # 0 => ResolveTtl(h) # 0
  BY DEF ResolveTtl
<1>3. NoHours # 0
  OBVIOUS
<1>4. CASE r.cmd = "unlock" /\ r.forever
  BY <1>4 DEF Ttl
<1>5. CASE r.cmd = "unlock" /\ ~r.forever
  <2>1. Ttl(r) = ResolveTtl(r.hours)
    BY <1>5 DEF Ttl
  <2>2. NoZeroHours => r.hours # 0
    BY <1>3 DEF NoZeroHours, NoRequest
  <2> QED BY <1>1, <1>2, <1>5, <2>1, <2>2 DEF NoZeroHours
<1>6. CASE r.cmd # "unlock"
  <2>1. Ttl(r) = ResolveTtl(NoHours)
    BY <1>6 DEF Ttl
  <2> QED BY <1>2, <1>3, <1>6, <2>1 DEF NoZeroHours
<1> QED BY <1>4, <1>5, <1>6

(* What is minted is a token, and what is agreed to an agreement.          *)
LEMMA MintType ==
  ASSUME TypeOK, NEW p \in Procs, job[p].seen \in Lock,
         NEW ai \in BOOLEAN, NEW ttl \in Nat, Mint(p, ai, ttl)
  PROVE  tokens' \in [Scope -> Token \cup {NoToken}]
<1> DEFINE t == [start |-> StartTime(job[p].scope), boot |-> boot, lock |-> job[p].seen,
                 ai |-> ai, password |-> job[p].seen # NoLock, ttl |-> ttl, age |-> 0]
<1>1. boot \in Nat
  BY DEF TypeOK
<1>2. t \in Token
  BY <1>1, StartTimeType DEF Token
<1>3. tokens' = [tokens EXCEPT ![job[p].scope] = t]
  BY DEF Mint
<1> HIDE DEF t
<1> QED BY <1>2, <1>3 DEF TypeOK

(* What a human agrees to is an agreement.                                 *)
LEMMA AgreeType ==
  ASSUME TypeOK, NEW p \in Procs, job[p].seen \in Lock, job[p].scope \in Scope,
         NEW what \in SUBSET {"password", "ai"}, Agree(p, what)
  PROVE  agreed' \in [Scope -> Agreement \cup {Nothing}]
<1> DEFINE a == [leader |-> leader[job[p].scope], bound |-> StartTime(job[p].scope) # 0,
                 lock |-> job[p].seen, what |-> what,
                 left |-> IF job[p].req.cmd = "unlock" /\ job[p].req.forever
                          THEN NoHours ELSE HardCapHours]
<1>1. a \in Agreement
  BY DEF Agreement, TypeOK
<1>2. agreed' = [agreed EXCEPT ![job[p].scope] = a]
  BY DEF Agree
<1> HIDE DEF a
<1> QED BY <1>1, <1>2 DEF TypeOK

(* Removing a token keeps the types.                                       *)
LEMMA RemoveType ==
  ASSUME TypeOK, NEW s, Remove(s)
  PROVE  tokens' \in [Scope -> Token \cup {NoToken}]
BY DEF TypeOK, Remove

----------------------------------------------------------------------------
(* One command moves.                                                      *)

(* A step that takes one command to a point where its job fits keeps the   *)
(* types.                                                                  *)
LEMMA OneMoves ==
  ASSUME Typed, NEW p \in Procs, NEW to \in PC, NEW j, Fits(j, to),
         pc' = [pc EXCEPT ![p] = to],
         job' = [job EXCEPT ![p] = j],
         verifier' \in ProfileLock,
         newest' \in 0..MaxVerifiers,
         tokens' \in [Scope -> Token \cup {NoToken}],
         agreed' \in [Scope -> Agreement \cup {Nothing}],
         UNCHANGED machine
  PROVE  Typed'
<1>1. pc' \in [Procs -> PC] /\ job' \in [Procs -> Job]
  BY DEF Typed, TypeOK, Fits
<1>2. ASSUME NEW q \in Procs PROVE Fits(job[q], pc[q])'
  <2>1. CASE q = p
    <3>1. job'[q] = j /\ pc'[q] = to
      BY <2>1 DEF Typed, TypeOK
    <3> QED BY <3>1 DEF Fits
  <2>2. CASE q # p
    <3>1. job'[q] = job[q] /\ pc'[q] = pc[q]
      BY <2>2 DEF Typed, TypeOK
    <3> QED BY <3>1 DEF Typed, Fits
  <2> QED BY <2>1, <2>2
<1>3. TypeOK'
  BY <1>1 DEF Typed, TypeOK, machine
<1> QED BY <1>2, <1>3 DEF Typed

(* The same, of a step of the command alone.                               *)
LEMMA OneMovesAlone ==
  ASSUME Typed, NEW p \in Procs, NEW to \in PC, NEW j, Fits(j, to),
         pc' = [pc EXCEPT ![p] = to],
         job' = [job EXCEPT ![p] = j],
         UNCHANGED <<profile, tokens, machine, agreed>>
  PROVE  Typed'
BY OneMoves DEF Typed, TypeOK, profile

(* What Typed says of one command.                                         *)
LEMMA OneFits ==
  ASSUME Typed, NEW p \in Procs
  PROVE  /\ TypeOK
         /\ Fits(job[p], pc[p])
         /\ job[p] \in Job /\ pc[p] \in PC
         /\ UNCHANGED pc => pc' = [pc EXCEPT ![p] = pc[p]]
         /\ UNCHANGED job => job' = [job EXCEPT ![p] = job[p]]
BY DEF Typed, TypeOK

----------------------------------------------------------------------------
(* Each action keeps the types.                                            *)

(* The start of a command keeps the types.                                 *)
LEMMA StartTyped ==
  ASSUME Typed, NEW p \in Procs, NEW r \in Requests, NEW s \in Scope, Start(p, r, s)
  PROVE  Typed'
<1> USE OneFits, NoJobFits
<1>1. ASSUME NEW loaded, NEW to \in PC, Begin(p, r, s, loaded, to),
             Fits([loaded EXCEPT !.req = r, !.scope = s], to)
      PROVE  Typed'
  BY <1>1, OneMovesAlone DEF Begin, Goto
<1>2. verifier \in ProfileLock
  BY DEF TypeOK
<1>3. CASE StartUse(p, r, s)
  <2> DEFINE j == [NoJob EXCEPT !.seen = verifier]
  <2>1. Fits([j EXCEPT !.req = r, !.scope = s], "gate")
    BY <1>2, <1>3 DEF StartUse, Fits, NoJob, Job, ProfileLock
  <2> QED BY <1>1, <1>3, <2>1 DEF StartUse, PC
<1>4. CASE StartUnlock(p, r, s)
  <2> DEFINE j == [NoJob EXCEPT !.seen = verifier, !.todo = Scope]
  <2>1. Fits([j EXCEPT !.req = r, !.scope = s], "gc")
    BY <1>2, <1>4 DEF StartUnlock, Fits, NoJob, Job, ProfileLock
  <2> QED BY <1>1, <1>4, <2>1 DEF StartUnlock, PC
<1>5. CASE StartLock(p, r, s)
  <2> DEFINE j == [NoJob EXCEPT !.todo = Scope]
  <2>1. Fits([j EXCEPT !.req = r, !.scope = s], "gc")
    BY <1>5 DEF StartLock, Fits, NoJob, Job, ProfileLock
  <2> QED BY <1>1, <1>5, <2>1 DEF StartLock, PC
<1>6. CASE StartSetPassword(p, r, s)
  <2> DEFINE j == [NoJob EXCEPT !.seen = verifier]
             to == IF verifier = NoLock THEN "new_password" ELSE "old_password"
  <2>1. Fits([j EXCEPT !.req = r, !.scope = s], to)
    BY <1>2 DEF Fits, NoJob, Job, ProfileLock
  <2> QED BY <1>1, <1>6, <2>1 DEF StartSetPassword, PC
<1>7. CASE StartDelete(p, r, s)
  <2>1. Fits([NoJob EXCEPT !.req = r, !.scope = s], "save")
    BY DEF Fits, NoJob, Job, ProfileLock
  <2> QED BY <1>1, <1>7, <2>1 DEF StartDelete, PC
<1>8. CASE StartConfigure(p, r, s)
  <2> DEFINE kept == IF verifier = NoProfile THEN NoLock ELSE verifier
             j == [NoJob EXCEPT !.draft = kept]
  <2>1. Fits([j EXCEPT !.req = r, !.scope = s], "save")
    BY <1>2 DEF Fits, NoJob, Job, ProfileLock, Lock
  <2> QED BY <1>1, <1>8, <2>1 DEF StartConfigure, PC
<1> QED BY <1>3, <1>4, <1>5, <1>6, <1>7, <1>8 DEF Start

(* The command ends.                                                       *)
LEMMA EndsTyped ==
  ASSUME Typed, NEW p \in Procs, Ends(p),
         UNCHANGED <<profile, machine>>,
         tokens' \in [Scope -> Token \cup {NoToken}],
         agreed' \in [Scope -> Agreement \cup {Nothing}]
  PROVE  Typed'
BY OneMoves, OneFits, NoJobFits DEF Ends, Goto, PC, profile, TypeOK

(* What the gate decides takes the command where its job fits.             *)
LEMMA DecideTyped ==
  ASSUME Typed, NEW p \in Procs, NEW t, pc[p] \in {"gate", "discard"}, Decide(p, t),
         UNCHANGED <<profile, machine, agreed>>,
         tokens' \in [Scope -> Token \cup {NoToken}]
  PROVE  Typed'
<1> USE OneFits
<1>1. CASE Ends(p)
  BY <1>1, EndsTyped DEF TypeOK
<1>2. CASE /\ UNCHANGED job
           /\ \/ Goto(p, "through")
              \/ job[p].seen # NoLock /\ Goto(p, "password")
              \/ job[p].seen = NoLock /\ Goto(p, "consent")
  <2>1. ASSUME NEW to \in PC, Goto(p, to), Fits(job[p], to) PROVE Typed'
    BY <1>2, <2>1, OneMoves DEF Goto, TypeOK, profile
  <2> QED BY <1>2, <2>1 DEF Fits, PC
<1> QED BY <1>1, <1>2 DEF Decide

(* The gate keeps them.                                                    *)
LEMMA GateTyped ==
  ASSUME Typed, NEW p \in Procs, Gate(p) \/ Discard(p)
  PROVE  Typed'
<1> USE OneFits
<1>1. CASE Gate(p) /\ Goto(p, "through") /\ UNCHANGED job
  BY <1>1, OneMovesAlone DEF Gate, Fits, PC, Goto
<1>2. CASE Gate(p) /\ Decide(p, tokens[job[p].scope])
  BY <1>2, DecideTyped DEF Gate, TypeOK
<1>3. CASE Gate(p) /\ Goto(p, "discard") /\ UNCHANGED job
  BY <1>3, OneMovesAlone DEF Gate, Fits, PC, Goto
<1>4. CASE Discard(p)
  BY <1>4, RemoveType, DecideTyped DEF Discard
<1> QED BY <1>1, <1>2, <1>3, <1>4 DEF Gate

(* A password typed in keeps them.                                         *)
LEMMA TypePasswordTyped ==
  ASSUME Typed, NEW p \in Procs, TypePassword(p)
  PROVE  Typed'
<1> USE OneFits
<1>1. /\ job[p].req \in Request
      /\ job[p].scope \in Scope /\ job[p].seen \in Lock
  BY NoJobFits DEF TypePassword, Fits, Job
<1>2. job[p].req.allow \in BOOLEAN /\ Ttl(job[p].req) \in Nat
  BY <1>1 DEF Request, Ttl, ResolveTtl
<1>3. tokens' \in [Scope -> Token \cup {NoToken}]
  BY <1>1, <1>2, MintType DEF TypePassword
<1>4. agreed' \in [Scope -> Agreement \cup {Nothing}]
  BY <1>1, AgreeType DEF TypePassword
<1>5. CASE Goto(p, "through") /\ UNCHANGED job
  BY <1>1, <1>3, <1>4, <1>5, OneMoves DEF TypePassword, Goto, PC, Fits, profile, TypeOK
<1>6. CASE Ends(p)
  BY <1>3, <1>4, <1>6, EndsTyped DEF TypePassword
<1> QED BY <1>5, <1>6 DEF TypePassword

(* An answer about AI use keeps them.                                      *)
LEMMA ConsentTyped ==
  ASSUME Typed, NEW p \in Procs, Consent(p)
  PROVE  Typed'
<1> USE OneFits
<1>1. /\ job[p].req \in Request
      /\ job[p].scope \in Scope /\ job[p].seen \in Lock
  BY NoJobFits DEF Consent, Fits, Job
<1>2. Ttl(job[p].req) \in Nat
  BY <1>1 DEF Request, Ttl, ResolveTtl
<1>3. tokens' \in [Scope -> Token \cup {NoToken}]
  BY <1>1, <1>2, MintType DEF Consent, TypeOK
<1>4. agreed' \in [Scope -> Agreement \cup {Nothing}]
  BY <1>1, AgreeType DEF Consent, TypeOK
<1>5. CASE Goto(p, "through") /\ UNCHANGED job
  BY <1>1, <1>3, <1>4, <1>5, OneMoves DEF Consent, Goto, PC, Fits, profile, TypeOK
<1>6. CASE Ends(p)
  BY <1>3, <1>4, <1>6, EndsTyped DEF Consent
<1> QED BY <1>5, <1>6 DEF Consent

(* The collection of stale tokens.                                         *)
LEMMA GcTyped ==
  ASSUME Typed, NEW p \in Procs,
         (\E s \in Scope : GcLook(p, s)) \/ GcDrop(p) \/ GcDone(p)
  PROVE  Typed'
<1> USE OneFits
<1>1. ASSUME NEW s \in Scope, GcLook(p, s) PROVE Typed'
  <2>1. CASE Goto(p, "gc_drop") /\ job' = [job EXCEPT ![p].todo = @ \ {s}, ![p].at = s]
    <3> DEFINE j == [job[p] EXCEPT !.todo = @ \ {s}, !.at = s]
    <3>1. Fits(j, "gc_drop")
      BY <1>1 DEF GcLook, Fits, Job
    <3>2. job' = [job EXCEPT ![p] = j]
      BY <2>1 DEF TypeOK
    <3> QED BY <1>1, <2>1, <3>1, <3>2, OneMovesAlone DEF GcLook, Goto, PC
  <2>2. CASE UNCHANGED pc /\ job' = [job EXCEPT ![p].todo = @ \ {s}]
    <3> DEFINE j == [job[p] EXCEPT !.todo = @ \ {s}]
    <3>1. Fits(j, "gc")
      BY <1>1 DEF GcLook, Fits, Job
    <3>2. job' = [job EXCEPT ![p] = j]
      BY <2>2 DEF TypeOK
    <3>3. pc' = [pc EXCEPT ![p] = "gc"]
      BY <1>1, <2>2 DEF GcLook, TypeOK
    <3> QED BY <1>1, <3>1, <3>2, <3>3, OneMovesAlone DEF GcLook, PC
  <2>3. \/ Goto(p, "gc_drop") /\ job' = [job EXCEPT ![p].todo = @ \ {s}, ![p].at = s]
        \/ UNCHANGED pc /\ job' = [job EXCEPT ![p].todo = @ \ {s}]
    BY <1>1, Zenon DEF GcLook
  <2> QED BY <2>1, <2>2, <2>3
<1>2. CASE GcDrop(p)
  <2> DEFINE j == [job[p] EXCEPT !.at = NoScope]
  <2>1. Fits(j, "gc")
    BY <1>2 DEF GcDrop, Fits, Job
  <2>2. job' = [job EXCEPT ![p] = j]
    BY <1>2 DEF GcDrop, TypeOK
  <2> QED BY <1>2, <2>1, <2>2, RemoveType, OneMoves DEF GcDrop, Goto, PC, profile, TypeOK
<1>3. CASE GcDone(p)
  <2>1. ASSUME NEW to \in PC, Goto(p, to), UNCHANGED job, Fits(job[p], to) PROVE Typed'
    BY <1>3, <2>1, OneMovesAlone DEF GcDone, Goto
  <2>2. CASE Ends(p)
    BY <1>3, <2>2, EndsTyped DEF GcDone, TypeOK
  <2> QED BY <1>3, <2>1, <2>2 DEF GcDone, Fits, PC
<1> QED BY <1>1, <1>2, <1>3

(* The command `lock` keeps them.                                          *)
LEMMA UnlinkTyped ==
  ASSUME Typed, NEW p \in Procs, Unlink(p)
  PROVE  Typed'
<1>1. agreed' \in [Scope -> Agreement \cup {Nothing}]
  BY OneFits DEF Unlink, TypeOK
<1> QED BY <1>1, OneFits, RemoveType, EndsTyped DEF Unlink

(* The commands that change the lock.                                      *)
LEMMA ChangeTyped ==
  ASSUME Typed, NEW p \in Procs,
         OldPassword(p) \/ NewPassword(p) \/ Save(p)
  PROVE  Typed'
<1> USE OneFits
<1>1. CASE OldPassword(p)
  <2>1. CASE UNCHANGED job /\ Goto(p, "new_password")
    <3>1. Fits(job[p], "new_password")
      BY <1>1 DEF OldPassword, Fits
    <3> QED BY <1>1, <2>1, <3>1, OneMovesAlone DEF OldPassword, Goto, PC
  <2>2. CASE job' = [job EXCEPT ![p].draft = NoLock] /\ Goto(p, "save")
    <3> DEFINE j == [job[p] EXCEPT !.draft = NoLock]
    <3>1. Fits(j, "save")
      BY <1>1 DEF OldPassword, Fits, Job, ProfileLock, Lock
    <3>2. job' = [job EXCEPT ![p] = j]
      BY <2>2 DEF TypeOK
    <3> QED BY <1>1, <2>2, <3>1, <3>2, OneMovesAlone DEF OldPassword, Goto, PC
  <2> QED BY <1>1, <2>1, <2>2 DEF OldPassword
<1>2. CASE NewPassword(p)
  <2> DEFINE j == [job[p] EXCEPT !.draft = newest + 1]
  <2>0. newest \in 0..MaxVerifiers /\ newest < MaxVerifiers /\ newest' = newest + 1
    BY <1>2 DEF NewPassword, TypeOK
  <2>1. newest' \in 0..MaxVerifiers /\ newest + 1 \in ProfileLock
    BY <2>0 DEF ProfileLock, Lock, Verifier
  <2>2. Fits(j, "save")
    BY <1>2, <2>1 DEF NewPassword, Fits, Job
  <2>3. job' = [job EXCEPT ![p] = j]
    BY <1>2 DEF NewPassword, TypeOK
  <2> QED BY <1>2, <2>1, <2>2, <2>3, OneMoves DEF NewPassword, Goto, PC, TypeOK
<1>3. CASE Save(p)
  <2>1. verifier' \in ProfileLock
    BY <1>3 DEF Save, Job
  <2>2. CASE Ends(p)
    BY <1>3, <2>1, <2>2, NoJobFits, OneMoves DEF Save, Ends, Goto, PC, TypeOK
  <2>3. CASE ~Ends(p)
    <3> DEFINE j == [NoJob EXCEPT !.req = job[p].req, !.scope = job[p].scope, !.todo = Scope]
    <3>1. Fits(j, "revoke")
      BY <1>3, NoJobFits DEF Save, Fits, NoJob, Job
    <3>2. job' = [job EXCEPT ![p] = j] /\ Goto(p, "revoke")
      BY <1>3, <2>3 DEF Save
    <3> QED BY <1>3, <2>1, <3>1, <3>2, OneMoves DEF Save, Goto, PC, TypeOK
  <2> QED BY <2>2, <2>3
<1> QED BY <1>1, <1>2, <1>3

(* A revocation, file by file, keeps them.                                 *)
LEMMA RevokeTyped ==
  ASSUME Typed, NEW p \in Procs, NEW s \in Scope, NEW removed \in BOOLEAN,
         Revoke(p, s, removed)
  PROVE  Typed'
<1> USE OneFits
<1>1. tokens' \in [Scope -> Token \cup {NoToken}]
  BY RemoveType DEF Revoke, TypeOK
<1>2. CASE Ends(p)
  BY <1>1, <1>2, EndsTyped DEF Revoke, TypeOK
<1>3. CASE job' = [job EXCEPT ![p].todo = @ \ {s}] /\ UNCHANGED pc
  <2> DEFINE j == [job[p] EXCEPT !.todo = @ \ {s}]
  <2>1. Fits(j, pc[p])
    BY DEF Revoke, Fits, Job
  <2>2. job' = [job EXCEPT ![p] = j]
    BY <1>3 DEF TypeOK
  <2> QED BY <1>1, <1>3, <2>1, <2>2, OneMoves DEF Revoke, TypeOK, profile
<1> QED BY <1>2, <1>3 DEF Revoke

(* A command that stops at any point keeps them.                           *)
LEMMA StopTyped ==
  ASSUME Typed, NEW p \in Procs, Leave(p) \/ Stops(p)
  PROVE  Typed'
BY OneFits, EndsTyped DEF Leave, Stops, TypeOK

(* The clock, the sessions and the machine.                                *)
LEMMA SurroundingsTyped ==
  ASSUME Typed,
         \/ Tick
         \/ \E s \in Scope : LeaderDies(s) \/ NewLeader(s)
         \/ \E wiped \in BOOLEAN : Reboot(wiped)
  PROVE  Typed'
<1> USE DEF Typed
<1>1. CASE Tick
  <2>1. ASSUME NEW s \in Scope PROVE tokens'[s] \in Token \cup {NoToken}
    BY <1>1, <2>1 DEF Tick, TypeOK, Token
  <2>2. ASSUME NEW s \in Scope PROVE agreed'[s] \in Agreement \cup {Nothing}
    BY <1>1, <2>2 DEF Tick, TypeOK, Agreement
  <2>3. TypeOK'
    BY <1>1, <2>1, <2>2 DEF Tick, TypeOK, profile, machine
  <2> QED BY <1>1, <2>3 DEF Tick, Fits
<1>2. ASSUME NEW s \in Scope, LeaderDies(s) \/ NewLeader(s) PROVE Typed'
  BY <1>2 DEF LeaderDies, NewLeader, TypeOK, profile, Fits
<1>3. ASSUME NEW wiped \in BOOLEAN, Reboot(wiped) PROVE Typed'
  <2>1. TypeOK'
    BY <1>3, NoJobFits DEF Reboot, TypeOK, profile, PC
  <2> QED BY <1>3, <2>1, NoJobFits DEF Reboot
<1> QED BY <1>1, <1>2, <1>3

(* Every step keeps them.                                                  *)
LEMMA NextTyped == Typed /\ [Next]_vars => Typed'
<1> SUFFICES ASSUME Typed, [Next]_vars PROVE Typed'
  OBVIOUS
<1>1. CASE UNCHANGED vars
  BY <1>1 DEF vars, Typed, TypeOK, Fits
<1>2. ASSUME NEW p \in Procs, Step(p) PROVE Typed'
  BY <1>2, GateTyped, TypePasswordTyped, ConsentTyped, GcTyped, UnlinkTyped,
     ChangeTyped, RevokeTyped, StopTyped DEF Step
<1> QED BY <1>1, <1>2, StartTyped, SurroundingsTyped DEF Next

(* The types, and what a command has at each point, are invariant.         *)
LEMMA Typing == Spec => []Typed
<1>1. Init => Typed
  <2>1. Init => TypeOK
    BY NoJobFits DEF Init, TypeOK, ProfileLock, Lock, PC
  <2> QED BY <2>1, NoJobFits DEF Init, Typed
<1> QED BY <1>1, NextTyped, PTL DEF Spec

(* Every variable of the lock keeps its type, in every interleaving of     *)
(* commands, session leaders and boots.                                    *)
THEOREM TypeCorrect == Spec => []TypeOK
BY Typing, PTL DEF Typed

----------------------------------------------------------------------------
(* Every token that counts rests on an agreement.                          *)

(* A step that at most removes tokens.                                     *)
LEMMA RemovalKeepsBacked ==
  ASSUME Backed, UNCHANGED <<boot, agreed>>,
         \A s \in Scope : tokens'[s] \in {tokens[s], NoToken}
  PROVE  Backed'
<1> SUFFICES ASSUME NEW s \in Scope
             PROVE  /\ InBounds(tokens'[s], boot')
                    /\ Counts(tokens'[s], boot') => RestsOn(tokens'[s], agreed'[s])
  BY DEF Backed
<1>1. CASE tokens'[s] = NoToken
  BY <1>1 DEF Counts, InBounds
<1>2. CASE tokens'[s] = tokens[s]
  BY <1>2 DEF Backed
<1> QED BY <1>1, <1>2

(* A human agrees, and the token minted says no more than that.            *)
LEMMA MintKeepsBacked ==
  ASSUME Typed, NoZeroHours, Backed, UNCHANGED boot,
         NEW p \in Procs, pc[p] # "idle", job[p].seen \in Lock,
         NEW ai \in BOOLEAN, NEW what \in SUBSET {"password", "ai"},
         Mint(p, ai, Ttl(job[p].req)), Agree(p, what),
         job[p].req \in Requests \cup {NoRequest},
         job[p].seen # NoLock => "password" \in what,
         ai => "ai" \in what
  PROVE  Backed'
<1> DEFINE r == job[p].req
           s == job[p].scope
           t == [start |-> StartTime(s), boot |-> boot, lock |-> job[p].seen,
                 ai |-> ai, password |-> job[p].seen # NoLock, ttl |-> Ttl(r), age |-> 0]
           a == [leader |-> leader[s], bound |-> StartTime(s) # 0,
                 lock |-> job[p].seen, what |-> what,
                 left |-> IF r.cmd = "unlock" /\ r.forever THEN NoHours ELSE HardCapHours]
<1>1. s \in Scope /\ boot \in Nat /\ leader[s] \in Nat
  BY OneFits DEF Fits, TypeOK
<1>2. Ttl(r) \in 0..HardCapHours /\ (~(r.cmd = "unlock" /\ r.forever) => Ttl(r) # 0)
  BY TtlType
<1>3. /\ tokens' = [tokens EXCEPT ![s] = t]
      /\ agreed' = [agreed EXCEPT ![s] = a]
  BY DEF Mint, Agree
<1>4. /\ \A q \in Scope : tokens'[q] = IF q = s THEN t ELSE tokens[q]
      /\ \A q \in Scope : agreed'[q] = IF q = s THEN a ELSE agreed[q]
  <2> HIDE DEF t, a, s
  <2> QED BY <1>3, OneFits DEF TypeOK
<1>5. InBounds(t, boot')
  BY <1>1, <1>2 DEF InBounds
<1>6. RestsOn(t, a)
  <2>1. a # Nothing
    <3>1. a \in Agreement
      BY <1>1 DEF Agreement
    <3> QED BY <3>1
  <2>2. a.left # NoHours => t.ttl # 0 /\ t.ttl - t.age <= a.left
    BY <1>2
  <2>3. t.start # 0 => t.start = a.leader
    BY DEF StartTime
  <2> QED BY <2>1, <2>2, <2>3 DEF RestsOn
<1> HIDE DEF t, a, s
<1> SUFFICES ASSUME NEW q \in Scope
             PROVE  /\ InBounds(tokens'[q], boot')
                    /\ Counts(tokens'[q], boot') => RestsOn(tokens'[q], agreed'[q])
  BY DEF Backed
<1>7. CASE q = s
  BY <1>4, <1>5, <1>6, <1>7
<1>8. CASE q # s
  BY <1>4, <1>8 DEF Backed
<1> QED BY <1>7, <1>8

(* An hour takes as much from a token as from the agreement under it.      *)
LEMMA TickKeepsBacked ==
  ASSUME Typed, Backed, Tick
  PROVE  Backed'
<1> SUFFICES ASSUME NEW s \in Scope
             PROVE  /\ InBounds(tokens'[s], boot')
                    /\ Counts(tokens'[s], boot') => RestsOn(tokens'[s], agreed'[s])
  BY DEF Backed
<1> DEFINE t == tokens[s]
           a == agreed[s]
<1>1. /\ t \in Token \cup {NoToken} /\ a \in Agreement \cup {Nothing}
      /\ boot' = boot
  BY DEF Typed, TypeOK, Tick, machine
<1>2. /\ tokens'[s] = IF t = NoToken \/ t.age >= HardCapHours THEN t
                      ELSE [t EXCEPT !.age = @ + 1]
      /\ agreed'[s] = IF a = Nothing THEN Nothing
                      ELSE IF a.left = NoHours THEN a
                      ELSE IF a.left <= 1 THEN Nothing
                      ELSE [a EXCEPT !.left = @ - 1]
  BY DEF Tick
<1>3. InBounds(t, boot) /\ (Counts(t, boot) => RestsOn(t, a))
  BY DEF Backed
<1> HIDE DEF t, a
<1>4. CASE t = NoToken
  BY <1>2, <1>4 DEF Counts, InBounds
<1>5. CASE t # NoToken
  <2>1. t \in Token /\ t.ttl \in Nat /\ t.age \in Nat
    BY <1>1, <1>5 DEF Token
  <2> DEFINE u == tokens'[s]
  <2>2. /\ u \in Token /\ u # NoToken
        /\ u.boot = t.boot /\ u.ttl = t.ttl /\ u.lock = t.lock /\ u.start = t.start
        /\ u.password = t.password /\ u.ai = t.ai
        /\ (u.age = t.age /\ t.age >= HardCapHours) \/ u.age = t.age + 1
    BY <1>2, <1>5, <2>1 DEF Token
  <2> HIDE DEF u
  <2>3. InBounds(u, boot')
    BY <1>1, <1>3, <1>5, <2>2 DEF InBounds
  <2>4. ASSUME Counts(u, boot') PROVE RestsOn(u, agreed'[s])
    <3>1. u.ttl # 0 => u.age < u.ttl
      BY <2>1, <2>2, <2>4 DEF Counts, Expired
    <3>2. t.ttl # 0 => u.age = t.age + 1
      BY <1>3, <1>5, <2>1, <2>2, <3>1 DEF InBounds
    <3>3. Counts(t, boot)
      BY <1>1, <1>5, <2>1, <2>2, <2>4, <3>1, <3>2 DEF Counts, Expired
    <3>4. RestsOn(t, a) /\ a \in Agreement
      BY <1>1, <1>3, <3>3 DEF RestsOn
    <3>5. CASE a.left = NoHours
      BY <1>2, <2>2, <3>4, <3>5 DEF RestsOn
    <3>6. CASE a.left # NoHours
      <4>1. a.left \in Nat /\ t.ttl # 0 /\ t.ttl - t.age <= a.left
        BY <3>4, <3>6 DEF RestsOn, Agreement
      <4>2. a.left > 1
        BY <2>1, <2>2, <3>1, <3>2, <4>1
      <4>3. agreed'[s] = [a EXCEPT !.left = @ - 1]
        BY <1>2, <3>4, <3>6, <4>1, <4>2 DEF RestsOn
      <4> DEFINE b == [a EXCEPT !.left = @ - 1]
      <4>4. /\ b \in Agreement /\ b # Nothing
            /\ b.lock = a.lock /\ b.what = a.what /\ b.bound = a.bound
            /\ b.leader = a.leader /\ b.left = a.left - 1
        BY <3>4, <4>1, <4>2 DEF Agreement
      <4> HIDE DEF b
      <4>5. u.ttl # 0 /\ u.ttl - u.age <= b.left
        BY <2>1, <2>2, <3>2, <4>1, <4>4
      <4> QED BY <2>2, <3>4, <4>3, <4>4, <4>5 DEF RestsOn, b
    <3> QED BY <3>5, <3>6
  <2> QED BY <2>3, <2>4 DEF u
<1> QED BY <1>4, <1>5

(* No token survives a reboot but as one of another boot.                  *)
LEMMA RebootKeepsBacked ==
  ASSUME Typed, Backed, NEW wiped \in BOOLEAN, Reboot(wiped)
  PROVE  Backed'
<1>1. boot \in Nat /\ boot' = boot + 1 /\ tokens \in [Scope -> Token \cup {NoToken}]
  BY DEF Typed, TypeOK, Reboot
<1>2. ASSUME NEW s \in Scope
      PROVE  /\ tokens'[s] \in {tokens[s], NoToken}
             /\ tokens[s] # NoToken => tokens[s].boot \in Nat
                  /\ tokens[s].boot <= boot /\ tokens[s].ttl <= HardCapHours
  <2>1. tokens[s] # NoToken => tokens[s].boot \in Nat
    BY <1>1 DEF Token
  <2> QED BY <2>1 DEF Reboot, Backed, InBounds
<1> SUFFICES ASSUME NEW s \in Scope
             PROVE  InBounds(tokens'[s], boot') /\ ~Counts(tokens'[s], boot')
  BY DEF Backed
<1>3. CASE tokens'[s] = NoToken
  BY <1>3 DEF Counts, InBounds
<1>4. CASE tokens'[s] = tokens[s] /\ tokens[s] # NoToken
  BY <1>1, <1>2, <1>4 DEF Counts, InBounds
<1> QED BY <1>2, <1>3, <1>4

(* A step of one process keeps Backed, the two that mint included.         *)
LEMMA StepKeepsBacked ==
  ASSUME Typed, NoZeroHours, Backed, NEW p \in Procs, Step(p)
  PROVE  Backed'
<1>0. /\ tokens \in [Scope -> Token \cup {NoToken}]
      /\ job[p].req \in Requests \cup {NoRequest} /\ job[p].req \in Request
  BY NoJobFits, OneFits DEF Typed, TypeOK, Job
<1>1. CASE TypePassword(p)
  <2> DEFINE ai == job[p].req.cmd = "unlock" /\ job[p].req.allow
  <2>1. pc[p] = "password" /\ job[p].seen \in Lock
    BY <1>1, OneFits DEF TypePassword, Fits
  <2>2. ai \in BOOLEAN
    OBVIOUS
  <2>3. /\ Mint(p, ai, Ttl(job[p].req)) /\ UNCHANGED boot
        /\ \E what \in SUBSET {"password", "ai"} :
             /\ Agree(p, what)
             /\ "password" \in what
             /\ ai => "ai" \in what
    BY <1>1 DEF TypePassword, machine
  <2> HIDE DEF ai
  <2> QED BY <1>0, <2>1, <2>2, <2>3, MintKeepsBacked
<1>2. CASE Consent(p) /\ Mint(p, TRUE, Ttl(job[p].req)) /\ Agree(p, {"ai"})
  <2>1. pc[p] = "consent" /\ job[p].seen \in Lock /\ job[p].seen = NoLock /\ UNCHANGED boot
    BY <1>2, OneFits DEF Consent, Fits, machine
  <2>2. {"ai"} \in SUBSET {"password", "ai"} /\ "ai" \in {"ai"}
    OBVIOUS
  <2> QED BY <1>0, <1>2, <2>1, <2>2, MintKeepsBacked
<1>3. CASE Unlink(p)
  <2> DEFINE s == job[p].scope
  <2>1. /\ tokens' = [tokens EXCEPT ![s] = NoToken]
        /\ agreed' = [agreed EXCEPT ![s] = Nothing]
        /\ boot' = boot
    BY <1>3 DEF Unlink, Remove, machine
  <2> SUFFICES ASSUME NEW q \in Scope
               PROVE  /\ InBounds(tokens'[q], boot')
                      /\ Counts(tokens'[q], boot') => RestsOn(tokens'[q], agreed'[q])
    BY DEF Backed
  <2>2. CASE q = s
    BY <1>0, <2>1, <2>2 DEF Counts, InBounds
  <2>3. CASE q # s
    <3>1. tokens'[q] = tokens[q] /\ agreed'[q] = agreed[q]
      BY <2>1, <2>3, OneFits DEF TypeOK
    <3> QED BY <2>1, <3>1 DEF Backed
  <2> QED BY <2>2, <2>3
<1>4. CASE /\ UNCHANGED <<boot, agreed>>
           /\ UNCHANGED tokens \/ \E s : Remove(s)
  <2>1. \A s \in Scope : tokens'[s] \in {tokens[s], NoToken}
    BY <1>0, <1>4 DEF Remove
  <2> QED BY <1>4, <2>1, RemovalKeepsBacked
<1>5. CASE Consent(p) /\ UNCHANGED <<tokens, agreed>>
  BY <1>4, <1>5 DEF Consent, machine
<1>6. CASE Gate(p) \/ Discard(p) \/ Leave(p) \/ Stops(p)
  BY <1>4, <1>6 DEF Gate, Discard, Leave, Stops, machine
<1>7. CASE (\E s \in Scope : GcLook(p, s)) \/ GcDrop(p) \/ GcDone(p)
  BY <1>4, <1>7 DEF GcLook, GcDrop, GcDone, machine
<1>8. CASE OldPassword(p) \/ NewPassword(p) \/ Save(p)
  BY <1>4, <1>8 DEF OldPassword, NewPassword, Save, machine
<1>9. CASE \E s \in Scope, removed \in BOOLEAN : Revoke(p, s, removed)
  BY <1>4, <1>9 DEF Revoke, machine
<1>10. Consent(p) => \/ Mint(p, TRUE, Ttl(job[p].req)) /\ Agree(p, {"ai"})
                     \/ UNCHANGED <<tokens, agreed>>
  BY DEF Consent
<1> QED BY <1>1, <1>2, <1>3, <1>5, <1>6, <1>7, <1>8, <1>9, <1>10 DEF Step

(* Every step keeps Backed.                                                *)
LEMMA NextBacked ==
  ASSUME Typed, NoZeroHours, Backed, [Next]_vars
  PROVE  Backed'
<1>1. ASSUME UNCHANGED <<tokens, agreed, boot>> PROVE Backed'
  BY <1>1 DEF Backed
<1>2. CASE UNCHANGED vars
  BY <1>1, <1>2 DEF vars
<1>3. ASSUME NEW p \in Procs, NEW r \in Requests, NEW s \in Scope, Start(p, r, s)
      PROVE  Backed'
  BY <1>1, <1>3 DEF Start, StartUse, StartUnlock, StartLock, StartSetPassword,
     StartDelete, StartConfigure, Begin, machine
<1>4. ASSUME NEW s \in Scope, LeaderDies(s) \/ NewLeader(s) PROVE Backed'
  BY <1>1, <1>4 DEF LeaderDies, NewLeader
<1> QED
  BY <1>2, <1>3, <1>4, StepKeepsBacked, TickKeepsBacked, RebootKeepsBacked DEF Next

(* Without lifetimes of zero hours every token rests on an agreement.      *)
LEMMA Backing == NoZeroHours => (Spec => []Backed)
<1> SUFFICES ASSUME NoZeroHours PROVE Spec => []Backed
  OBVIOUS
<1>1. Init => Backed
  BY DEF Init, Backed, Counts, InBounds
<1>2. Typed /\ Backed /\ [Next]_vars => Backed'
  BY NextBacked
<1> QED BY <1>1, <1>2, Typing, PTL DEF Spec

----------------------------------------------------------------------------
(* The gate.                                                               *)

(* Only a token that was read and honoured opens the gate unasked.         *)
LEMMA WavedThroughByToken ==
  ASSUME Typed, [Next]_vars, NEW p \in Procs, WavedThrough(p), Protected(p)
  PROVE  LET t == tokens[job[p].scope]
         IN  /\ job[p].scope \in Scope
             /\ t # NoToken /\ Valid(t, job[p].scope)
             /\ Opens(t, job[p].seen, job[p].req.ai)
<1>0. pc \in [Procs -> PC] /\ pc[p] \in {"gate", "discard"} /\ pc'[p] = "through"
  BY DEF WavedThrough, Typed, TypeOK
<1>1. ASSUME NEW q \in Procs, NEW to, pc' = [pc EXCEPT ![q] = to] PROVE q = p /\ to = "through"
  BY <1>0, <1>1
<1>2. Gate(p) \/ Discard(p)
  <2>1. ~UNCHANGED pc
    BY <1>0
  <2>2. ASSUME NEW q \in Procs, NEW r \in Requests, NEW s \in Scope, Start(q, r, s)
        PROVE  FALSE
    BY <1>0, <1>1, <2>2 DEF Start, StartUse, StartUnlock, StartLock, StartSetPassword,
       StartDelete, StartConfigure, Begin, Goto
  <2>3. ASSUME NEW q \in Procs, Step(q) PROVE Gate(p) \/ Discard(p)
    <3>1. ASSUME NEW to, Goto(q, to) PROVE q = p /\ to = "through"
      BY <1>1, <3>1 DEF Goto
    <3>2. ~Ends(q)
      BY <3>1 DEF Ends
    <3>3. CASE Gate(q) \/ Discard(q)
      <4>1. Gate(q) \/ Discard(q) => q = p
        BY <3>1, <3>2 DEF Gate, Discard, Decide
      <4> QED BY <3>3, <4>1
    <3>4. CASE TypePassword(q) \/ Consent(q) \/ Leave(q) \/ Stops(q)
      BY <1>0, <3>1, <3>2, <3>4 DEF TypePassword, Consent, Leave, Stops
    <3>5. CASE (\E s \in Scope : GcLook(q, s)) \/ GcDrop(q) \/ GcDone(q) \/ Unlink(q)
      <4>1. ASSUME NEW s \in Scope, GcLook(q, s) PROVE FALSE
        BY <2>1, <3>1, <4>1 DEF GcLook
      <4>2. ~GcDrop(q) /\ ~Unlink(q)
        BY <3>1, <3>2 DEF GcDrop, Unlink
      <4>3. ~GcDone(q)
        BY <3>1, <3>2 DEF GcDone
      <4> QED BY <3>5, <4>1, <4>2, <4>3
    <3>6. CASE OldPassword(q) \/ NewPassword(q) \/ Save(q)
      BY <3>1, <3>2, <3>6 DEF OldPassword, NewPassword, Save
    <3>7. CASE \E s \in Scope, removed \in BOOLEAN : Revoke(q, s, removed)
      BY <2>1, <3>2, <3>7 DEF Revoke
    <3> QED BY <2>3, <3>3, <3>4, <3>5, <3>6, <3>7 DEF Step
  <2>4. ASSUME NEW wiped \in BOOLEAN, Reboot(wiped) PROVE FALSE
    BY <1>0, <2>4 DEF Reboot
  <2> QED BY <2>1, <2>2, <2>3, <2>4 DEF Next, Tick, LeaderDies, NewLeader, vars
<1>3. ASSUME NEW to, Goto(p, to) PROVE to = "through"
  BY <1>1, <1>3 DEF Goto
<1>4. ASSUME NEW t, Decide(p, t) PROVE Opens(t, job[p].seen, job[p].req.ai)
  BY <1>3, <1>4 DEF Decide, Ends
<1>5. ~Discard(p)
  BY <1>4 DEF Discard, Opens
<1>6. Gate(p)
  BY <1>2, <1>5
<1>7. job[p].scope \in Scope
  BY <1>6, OneFits DEF Gate, Fits
<1>8. LET t == tokens[job[p].scope]
      IN  (t = NoToken \/ Valid(t, job[p].scope)) /\ Decide(p, t)
  BY <1>3, <1>6 DEF Gate, Protected
<1> QED BY <1>4, <1>7, <1>8 DEF Opens

(* With the invariant, that token rests on what was agreed to.             *)
LEMMA WavedThroughByAgreement ==
  ASSUME Typed, Backed, [Next]_vars, NEW p \in Procs, WavedThrough(p), Protected(p)
  PROVE  LET s == job[p].scope
         IN  /\ s \in Scope
             /\ RestsOn(tokens[s], agreed[s])
             /\ Valid(tokens[s], s)
             /\ Opens(tokens[s], job[p].seen, job[p].req.ai)
BY WavedThroughByToken DEF Valid, Counts, Backed

(* A locked profile, or any profile under an AI agent, is opened without a *)
(* question only by what a human last agreed to in that session scope:     *)
(* that lock, that use, not withdrawn and not outlived.                    *)
THEOREM AgreedGate == NoZeroHours => (Spec => OnlyWhatWasAgreed)
<1> SUFFICES ASSUME NoZeroHours PROVE Spec => OnlyWhatWasAgreed
  OBVIOUS
<1>1. ASSUME Typed, Backed, [Next]_vars, NEW p \in Procs, WavedThrough(p), Protected(p)
      PROVE  LET a == agreed[job[p].scope]
             IN  /\ a # Nothing
                 /\ a.lock = job[p].seen
                 /\ job[p].seen # NoLock => "password" \in a.what
                 /\ job[p].req.ai => "ai" \in a.what
  BY <1>1, WavedThroughByAgreement DEF RestsOn, Opens
<1>2. Typed /\ Backed /\ [Next]_vars =>
        [\A p \in Procs :
           LET a == agreed[job[p].scope]
           IN  WavedThrough(p) /\ Protected(p) =>
                 /\ a # Nothing
                 /\ a.lock = job[p].seen
                 /\ job[p].seen # NoLock => "password" \in a.what
                 /\ job[p].req.ai => "ai" \in a.what]_vars
  BY <1>1
<1> QED BY <1>2, Typing, Backing, PTL DEF Spec, OnlyWhatWasAgreed

(* A token opens the gate only in its boot and, wherever both start times  *)
(* can be read, only for the session leader it was minted under.           *)
THEOREM SessionGate == NoZeroHours => (Spec => OnlyInItsSession)
<1> SUFFICES ASSUME NoZeroHours PROVE Spec => OnlyInItsSession
  OBVIOUS
<1>1. ASSUME Typed, Backed, [Next]_vars, NEW p \in Procs, WavedThrough(p), Protected(p)
      PROVE  LET s == job[p].scope
             IN  /\ agreed[s] # Nothing
                 /\ agreed[s].bound /\ StartTime(s) # 0 => agreed[s].leader = leader[s]
  BY <1>1, WavedThroughByAgreement DEF RestsOn, Valid, StartTime
<1>2. Typed /\ Backed /\ [Next]_vars =>
        [\A p \in Procs :
           LET s == job[p].scope
           IN  WavedThrough(p) /\ Protected(p) =>
                 /\ agreed[s] # Nothing
                 /\ agreed[s].bound /\ StartTime(s) # 0
                      => agreed[s].leader = leader[s]]_vars
  BY <1>1
<1> QED BY <1>2, Typing, Backing, PTL DEF Spec, OnlyInItsSession

(* A lifetime of zero hours is the only way to what the clamp is to rule   *)
(* out: without one, nothing opens the gate unasked once the hard cap has  *)
(* passed or `lock` was run, unless it was minted with --no-expire.        *)
THEOREM OnlyZeroHoursNeverEnd == NoZeroHours => (Spec => NoOneTimePin)
<1> SUFFICES ASSUME NoZeroHours PROVE Spec => NoOneTimePin
  OBVIOUS
<1>1. Typed /\ Backed /\ [Next]_vars =>
        [\A p \in Procs :
           WavedThrough(p) /\ Protected(p) => agreed[job[p].scope] # Nothing]_vars
  BY WavedThroughByAgreement DEF RestsOn
<1> QED BY <1>1, Typing, Backing, PTL DEF Spec, NoOneTimePin
=============================================================================
