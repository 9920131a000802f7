------------------------ MODULE ConfigManager_proofs ------------------------
(***************************************************************************)
(* What holds of ConfigManager for any profiles, settings, files, budgets  *)
(* and number of other managers.  The invariant comes in layers, each      *)
(* proved by itself: Awzars and InSync are about config.toml and the form  *)
(* that edits it, Aws about ~/.aws/config and the form and dialogs that    *)
(* edit it, and the rest about what a save in progress has worked out.     *)
(***************************************************************************)
EXTENDS ConfigManager, FiniteSetTheorems, SequenceTheorems,
        WellFoundedInduction, TLAPS

USE AwsConfigAssumption, ConfigManagerAssumption

----------------------------------------------------------------------------
(* The inductive invariant.                                                *)

(* What the manager knows of config.toml, and the form it edits it with.   *)
Awzars ==
  /\ disk \in AwzarsConfig /\ config \in AwzarsConfig
  /\ names \subseteq AwzarsName
  /\ touched \subseteq AwzarsName /\ stale \subseteq AwzarsName
  /\ form \in ProfileForm /\ form.original \in {Blank, form.name}
  /\ pending \in AwzarsName \cup {Blank}
  /\ mode \in {"DeleteAwzars", "SetPasswordPrompt"} => focus \in AwzarsName

Forms == {"EditAws", "AddAws", "UnsavedAws"}
Dialogs == {"LinkPicker", "DeleteAws"}

(* What a form or dialog asks for: it creates, edits or deletes a profile, *)
(* and changes no setting the form does not show.                          *)
ValidOp(op) ==
  /\ op.before # NoEntry \/ op.after # NoEntry
  /\ op.before # NoEntry /\ op.after # NoEntry =>
       Changes(op.before, op.after) \subseteq FormSetting

(* The types of the other half, and where the op of a save comes from.     *)
Aws ==
  /\ file \in Document \cup {NoFile}
  /\ IsFiniteSet(backups) /\ backups \subseteq [slot: Slot, doc: Document]
  /\ contested \subseteq Slot
  /\ now \in 0..MaxClock /\ left \in Budget
  /\ pc \in [Savers -> {"idle", "read", "look", "copy", "prune", "replace", "done"}]
  /\ job \in [Savers -> Job]
  /\ \A s \in Savers : pc[s] # "idle" => ValidOp(job[s].op)
  /\ \A s \in Savers : pc[s] \in {"look", "copy"} => job[s].read # NoFile
  /\ mode \in Mode
  /\ mode \notin {"DeleteAwzars", "SetPasswordPrompt"} => focus \in EntryOrNone
  /\ mode \in Dialogs => focus \in Entry
  /\ entries \subseteq Entry /\ awsForm \in AwsProfileForm

FormOp == [before |-> awsForm.original, after |-> ToEntry(awsForm)]

(* A save from the form is of what the form still shows.                   *)
FromForm == pc[Tui] # "idle" /\ mode \in Forms => job[Tui].op = FormOp

(* A save that goes on has applied its op to the file as it was read.      *)
Worked(s) ==
  LET applied == Apply(Contents(job[s].read), job[s].op)
  IN  pc[s] \in {"look", "copy", "prune", "replace"} =>
        /\ applied.verdict = "ok"
        /\ job[s].doc = applied.doc
        /\ job[s].overridden = applied.overridden

(* The name a saver chose is free unless it is contested.                  *)
SlotIsFree(s) ==
  pc[s] = "copy" /\ job[s].slot \notin contested =>
    /\ \A b \in backups : b.slot # job[s].slot
    /\ \A t \in Savers \ {s} : pc[t] = "copy" => job[t].slot # job[s].slot

(* The copy a saver made is there, or has been displaced.                  *)
Copied(s) ==
  \/ \E b \in backups : b.slot = job[s].slot /\ b.doc = job[s].read
  \/ Cardinality(Newer(backups, job[s].slot)) >= BackupCount
  \/ job[s].slot \in contested

CopyMade(s) ==
  \/ pc[s] = "prune"
  \/ pc[s] = "replace" /\ job[s].read \notin {NoFile, job[s].doc}
  => Copied(s)

Copies ==
  /\ \A b, c \in backups : b.slot = c.slot => b = c
  /\ \A s \in Savers : SlotIsFree(s) /\ CopyMade(s)
AllWorked == \A s \in Savers : Worked(s)
----------------------------------------------------------------------------
(* config.toml.                                                            *)

(* A profile that is not there looks like none.                            *)
LEMMA LookType ==
  ASSUME NEW c \in AwzarsConfig
  PROVE  /\ DOMAIN c \subseteq AwzarsName
         /\ \A n \in DOMAIN c : c[n] \in Profile /\ Look(c, n) = c[n]
         /\ \A n : n \notin DOMAIN c => Look(c, n) = NoProfile
         /\ \A n : Look(c, n).lock \in BOOLEAN
<1>1. PICK some \in SUBSET AwzarsName : c \in [some -> Profile]
  BY DEF AwzarsConfig
<1> QED BY <1>1 DEF Look, NoProfile, Profile

(* Setting a profile changes this one only.                                *)
LEMMA SetProfileIs ==
  ASSUME NEW c \in AwzarsConfig, NEW n \in AwzarsName, NEW profile \in Profile
  PROVE  LET d == SetProfile(c, n, profile)
         IN  /\ d \in AwzarsConfig
             /\ DOMAIN d = DOMAIN c \cup {n}
             /\ \A m : Look(d, m) = IF m = n THEN profile ELSE Look(c, m)
<1> DEFINE d == SetProfile(c, n, profile)
<1>1. DOMAIN d = DOMAIN c \cup {n} /\ DOMAIN d \subseteq AwzarsName
  BY LookType DEF SetProfile
<1>2. d \in [DOMAIN d -> Profile]
  BY LookType DEF SetProfile
<1>3. d \in AwzarsConfig
  BY <1>1, <1>2 DEF AwzarsConfig
<1>4. ASSUME NEW m PROVE Look(d, m) = IF m = n THEN profile ELSE Look(c, m)
  BY <1>1 DEF Look, SetProfile
<1> QED BY <1>1, <1>3, <1>4

(* So does removing one.                                                   *)
LEMMA RemoveProfileIs ==
  ASSUME NEW c \in AwzarsConfig, NEW n
  PROVE  LET d == RemoveProfile(c, n)
         IN  /\ d \in AwzarsConfig
             /\ \A m : Look(d, m) = IF m = n THEN NoProfile ELSE Look(c, m)
<1> DEFINE d == RemoveProfile(c, n)
<1>1. DOMAIN d = DOMAIN c \ {n} /\ DOMAIN d \subseteq AwzarsName
  BY LookType DEF RemoveProfile
<1>2. d \in [DOMAIN d -> Profile]
  BY LookType DEF RemoveProfile
<1>3. d \in AwzarsConfig
  BY <1>1, <1>2 DEF AwzarsConfig
<1>4. ASSUME NEW m PROVE Look(d, m) = IF m = n THEN NoProfile ELSE Look(c, m)
  BY <1>1 DEF Look, RemoveProfile
<1> QED BY <1>1, <1>3, <1>4

(* And so does locking one.                                                *)
LEMMA LockedIs ==
  ASSUME NEW c \in AwzarsConfig, NEW n \in DOMAIN c
  PROVE  [c EXCEPT ![n].lock = TRUE] \in AwzarsConfig
<1>1. PICK some \in SUBSET AwzarsName : c \in [some -> Profile]
  BY DEF AwzarsConfig
<1>2. [c[n] EXCEPT !.lock = TRUE] \in Profile
  BY <1>1 DEF Profile
<1>3. [c EXCEPT ![n].lock = TRUE] \in [some -> Profile]
  BY <1>1, <1>2
<1> QED BY <1>1, <1>3 DEF AwzarsConfig

(* The layer and InSync need nothing but that what they are about stays,   *)
(* and that the dialogs on an awzars profile name one.                     *)
LEMMA AwzarsStays ==
  ASSUME Awzars, InSync, UNCHANGED awzars,
         mode' \in {"DeleteAwzars", "SetPasswordPrompt"} => focus' \in AwzarsName
  PROVE  Awzars' /\ InSync'
BY DEF Awzars, InSync, awzars

(* The actions that only move between forms and dialogs, or save.          *)
LEMMA OthersKeepAwzars ==
  ASSUME Awzars, InSync,
         \/ StartEditAws \/ StartAddAws \/ PickType \/ EditAwsField \/ SaveAwsForm
         \/ StartLink \/ ApplyLink \/ StartDeleteAws \/ ConfirmDeleteAws
         \/ StartDeleteAwzars \/ Cancel \/ FinishSave \/ IoFails \/ EditFile
         \/ \E s \in Savers : Save(s)
         \/ \E s \in Others : OtherBegins(s) \/ OtherEnds(s)
  PROVE  Awzars' /\ InSync'
<1>1. UNCHANGED awzars
  <2>1. CASE \E s \in Savers : Save(s)
    BY <2>1 DEF Save, ReadFile, LookForSlot, WriteBackup, Prune, Replace
  <2>2. CASE \E s \in Others : OtherBegins(s) \/ OtherEnds(s)
    BY <2>2 DEF OtherBegins, OtherEnds
  <2>3. CASE \/ StartEditAws \/ StartAddAws \/ PickType \/ EditAwsField \/ SaveAwsForm
             \/ StartLink \/ ApplyLink \/ StartDeleteAws \/ ConfirmDeleteAws
    BY <2>3 DEF StartEditAws, StartAddAws, PickType, EditAwsField, SaveAwsForm,
       StartLink, ApplyLink, StartDeleteAws, ConfirmDeleteAws
  <2>4. CASE StartDeleteAwzars \/ Cancel \/ FinishSave \/ IoFails \/ EditFile
    BY <2>4 DEF StartDeleteAwzars, Cancel, FinishSave, IoFails, EditFile
  <2> QED BY <2>1, <2>2, <2>3, <2>4
<1>2. mode' \in {"DeleteAwzars", "SetPasswordPrompt"} => focus' \in AwzarsName
  <2>1. CASE \E s \in Savers : Save(s)
    BY <2>1 DEF Save, ReadFile, LookForSlot, WriteBackup, Prune, Replace, Manager, Awzars
  <2>2. CASE \E s \in Others : OtherBegins(s) \/ OtherEnds(s)
    BY <2>2 DEF OtherBegins, OtherEnds, Manager, Awzars
  <2>3. CASE \/ StartEditAws \/ StartAddAws \/ PickType \/ EditAwsField \/ SaveAwsForm
             \/ StartLink \/ ApplyLink \/ StartDeleteAws \/ ConfirmDeleteAws
    BY <2>3 DEF StartEditAws, StartAddAws, PickType, EditAwsField, SaveAwsForm,
       StartLink, ApplyLink, StartDeleteAws, ConfirmDeleteAws, Show, Awzars
  <2>4. CASE StartDeleteAwzars \/ Cancel \/ FinishSave \/ IoFails \/ EditFile
    BY <2>4 DEF StartDeleteAwzars, Cancel, FinishSave, IoFails, EditFile, Show,
       Manager, Awzars
  <2> QED BY <2>1, <2>2, <2>3, <2>4
<1> QED BY <1>1, <1>2, AwzarsStays

(* The form of an awzars profile is opened, edited and left.               *)
LEMMA FormKeepsAwzars ==
  ASSUME Awzars, InSync,
         \/ StartAddAwzars \/ StartEditAwzars \/ EditAwzarsField
         \/ AnswerPrompt \/ LeaveForm \/ AnswerUnsaved
  PROVE  Awzars' /\ InSync'
<1>1. UNCHANGED <<disk, config, names, touched, stale>>
  BY DEF StartAddAwzars, StartEditAwzars, EditAwzarsField, AnswerPrompt,
     LeaveForm, AnswerUnsaved
<1>2. mode' \in {"DeleteAwzars", "SetPasswordPrompt"} => focus' \in AwzarsName
  BY DEF StartAddAwzars, StartEditAwzars, EditAwzarsField, AnswerPrompt,
     LeaveForm, AnswerUnsaved, Show, Awzars, At
<1>3. pending' \in AwzarsName \cup {Blank}
  BY DEF StartAddAwzars, StartEditAwzars, EditAwzarsField, AnswerPrompt,
     LeaveForm, AnswerUnsaved, Awzars, At
<1>4. form' \in ProfileForm /\ form'.original \in {Blank, form'.name}
  <2>0. NoForm \in ProfileForm /\ NoForm.original = Blank
    BY DEF NoForm, ProfileForm
  <2>1. ASSUME NEW n \in names \cap DOMAIN config
        PROVE  /\ FromProfile(n, config[n].azure) \in ProfileForm
               /\ FromProfile(n, config[n].azure).original
                    = FromProfile(n, config[n].azure).name
               /\ CloneFrom(n, config[n].azure) \in ProfileForm
               /\ CloneFrom(n, config[n].azure).original = Blank
    <3>1. config[n].azure \in Azure /\ n \in AwzarsName
      BY LookType DEF Awzars, Profile
    <3> QED BY <3>1 DEF FromProfile, CloneFrom, ProfileForm
  <2>2. CASE StartAddAwzars
    BY <2>0, <2>1, <2>2 DEF StartAddAwzars
  <2>3. CASE StartEditAwzars
    BY <2>1, <2>3 DEF StartEditAwzars
  <2>4. CASE EditAwzarsField
    BY <2>4 DEF EditAwzarsField, Awzars, ProfileForm
  <2>5. CASE AnswerPrompt \/ LeaveForm \/ AnswerUnsaved
    BY <2>0, <2>5 DEF AnswerPrompt, LeaveForm, AnswerUnsaved, Awzars
  <2> QED BY <2>2, <2>3, <2>4, <2>5
<1> QED BY <1>1, <1>2, <1>3, <1>4 DEF Awzars, InSync

(* What a save of the form writes: the form's profile, with the lock it    *)
(* had, and for every other what the copy has.                             *)
LEMMA UpdatedIs ==
  ASSUME Awzars, InSync, IsValid(form)
  PROVE  LET updated == SetProfile(config, form.name, ToProfile(form, config))
         IN  /\ form.name \in AwzarsName
             /\ updated \in AwzarsConfig
             /\ DOMAIN updated \subseteq AwzarsName
             /\ \A m : Look(updated, m) = IF m = form.name THEN ToProfile(form, config)
                                                           ELSE Look(config, m)
             /\ ToProfile(form, config).lock = Look(config, form.original).lock
<1>1. form.name \in AwzarsName /\ form.azure \in Azure
  BY DEF Awzars, IsValid, ProfileForm
<1>2. ToProfile(form, config) \in Profile
  BY <1>1, LookType DEF ToProfile, Profile, Awzars
<1>3. ToProfile(form, config).lock = Look(config, form.original).lock
  BY DEF ToProfile
<1>4. config \in AwzarsConfig /\ DOMAIN config \subseteq AwzarsName
  BY LookType DEF Awzars
<1> DEFINE n == form.name
           profile == ToProfile(form, config)
           updated == SetProfile(config, n, profile)
<1> HIDE DEF n, profile
<1>5. /\ updated \in AwzarsConfig /\ DOMAIN updated = DOMAIN config \cup {n}
      /\ \A m : Look(updated, m) = IF m = n THEN profile ELSE Look(config, m)
  BY <1>1, <1>2, <1>4, SetProfileIs DEF n, profile
<1> QED BY <1>1, <1>3, <1>4, <1>5 DEF n, profile

(* A save of ~/.aws/config leaves the half of config.toml alone.           *)
LEMMA SaveKeepsAwzars ==
  ASSUME Awzars, InSync, SaveAwzarsForm
  PROVE  Awzars' /\ InSync'
<1> DEFINE updated == SetProfile(config, form.name, ToProfile(form, config))
<1>0. NoForm \in ProfileForm /\ NoForm.original = Blank
  BY DEF NoForm, ProfileForm
<1>1. /\ form.name \in AwzarsName
      /\ updated \in AwzarsConfig
      /\ DOMAIN updated \subseteq AwzarsName
      /\ \A m : m # form.name => Look(updated, m) = Look(config, m)
  BY UpdatedIs DEF SaveAwzarsForm
<1>2. disk' = updated
  BY DEF SaveAwzarsForm
<1>3. \/ /\ config' = updated /\ names' = DOMAIN updated
         /\ touched' = {} /\ stale' = {} /\ form' = NoForm
         /\ mode' \in {"SetPasswordPrompt", "Browse"}
         /\ mode' = "SetPasswordPrompt" => focus' = form.name
      \/ /\ touched' = {} /\ stale' = {form.name}
         /\ UNCHANGED <<config, names, form, mode, focus>>
  BY DEF SaveAwzarsForm, Show
<1>4. pending' = pending
  BY DEF SaveAwzarsForm
<1> HIDE DEF updated
<1>5. CASE config' = updated /\ form' = NoForm /\ touched' = {} /\ stale' = {}
           /\ names' = DOMAIN updated
           /\ mode' \in {"SetPasswordPrompt", "Browse"}
           /\ (mode' = "SetPasswordPrompt" => focus' = form.name)
  BY <1>0, <1>1, <1>2, <1>4, <1>5 DEF Awzars, InSync
<1>6. CASE touched' = {} /\ stale' = {form.name} /\ UNCHANGED <<config, names, form, mode, focus>>
  BY <1>1, <1>2, <1>4, <1>6 DEF Awzars, InSync
<1> QED BY <1>3, <1>5, <1>6

(* set-password and the deletion of a profile work on the file itself.     *)
LEMMA FileStepsKeepAwzars ==
  ASSUME Awzars, InSync, RunPendingAction \/ ConfirmDeleteAwzars
  PROVE  Awzars' /\ InSync'
<1>1. CASE RunPendingAction
  <2>1. disk' \in AwzarsConfig
    BY <1>1, LockedIs DEF RunPendingAction, Awzars
  <2>2. \A m : m # pending => Look(disk', m) = Look(disk, m)
    BY <1>1 DEF RunPendingAction, Look
  <2>3. pending \in AwzarsName
    BY <1>1 DEF RunPendingAction, Awzars
  <2>4. /\ UNCHANGED <<names, form, mode, focus>> /\ pending' = Blank
        /\ \/ config' = disk' /\ touched' = {} /\ stale' = {}
           \/ /\ stale' = IF disk' = disk THEN stale ELSE stale \cup {pending}
              /\ UNCHANGED <<config, touched>>
    BY <1>1 DEF RunPendingAction
  <2>5. Awzars'
    BY <2>1, <2>3, <2>4 DEF Awzars
  <2>6. InSync'
    BY <2>2, <2>4 DEF InSync
  <2> QED BY <2>5, <2>6
<1>2. CASE ConfirmDeleteAwzars
  <2>1. /\ RemoveProfile(disk, focus) \in AwzarsConfig
        /\ \A m : m # focus => Look(RemoveProfile(disk, focus), m) = Look(disk, m)
    BY RemoveProfileIs DEF Awzars
  <2>2. focus \in AwzarsName
    BY <1>2 DEF ConfirmDeleteAwzars, At, Awzars
  <2>3. /\ mode' = "Browse" /\ UNCHANGED <<form, pending>>
        /\ \/ /\ disk' = RemoveProfile(disk, focus)
              /\ \/ /\ config' = disk' /\ names' = DOMAIN disk'
                    /\ touched' = {} /\ stale' = {}
                 \/ /\ names' \in {names, DOMAIN config}
                    /\ stale' = stale \cup {focus}
                    /\ UNCHANGED <<config, touched>>
           \/ UNCHANGED <<disk, config, names, touched, stale>>
    BY <1>2 DEF ConfirmDeleteAwzars, Show
  <2>4. DOMAIN config \subseteq AwzarsName
    BY LookType DEF Awzars
  <2>5. disk' \in AwzarsConfig /\ DOMAIN disk' \subseteq AwzarsName
    BY <2>1, <2>3, LookType DEF Awzars
  <2>6. Awzars'
    BY <2>2, <2>3, <2>4, <2>5 DEF Awzars
  <2>7. InSync'
    BY <2>1, <2>3 DEF InSync
  <2> QED BY <2>6, <2>7
<1> QED BY <1>1, <1>2

(* The manager is closed or opened, and other commands change the file.    *)
LEMMA OutsideKeepsAwzars ==
  ASSUME Awzars, InSync, Close \/ Open \/ EditConfig
  PROVE  Awzars' /\ InSync'
<1>1. CASE Close
  BY <1>1 DEF Close, Awzars, InSync, Show, NoForm, ProfileForm
<1>2. CASE Open
  BY <1>2, LookType DEF Open, Awzars, InSync, Show
<1>3. CASE EditConfig
  <2>1. PICK n \in AwzarsName :
          /\ \/ \E a \in Azure, locked \in BOOLEAN :
                  disk' = SetProfile(disk, n, [azure |-> a, lock |-> locked])
             \/ disk' = RemoveProfile(disk, n)
          /\ touched' = IF mode = "Closed" THEN {} ELSE touched \cup {n}
    BY <1>3 DEF EditConfig
  <2>2. disk' \in AwzarsConfig /\ \A m : m # n => Look(disk', m) = Look(disk, m)
    <3>1. ASSUME NEW a \in Azure, NEW locked \in BOOLEAN,
                 disk' = SetProfile(disk, n, [azure |-> a, lock |-> locked])
          PROVE  disk' \in AwzarsConfig /\ \A m : m # n => Look(disk', m) = Look(disk, m)
      <4> DEFINE profile == [azure |-> a, lock |-> locked]
                 d == SetProfile(disk, n, profile)
      <4>1. profile \in Profile /\ disk' = d /\ disk \in AwzarsConfig
        BY <3>1 DEF Profile, Awzars
      <4> HIDE DEF profile
      <4>2. /\ d \in AwzarsConfig /\ DOMAIN d = DOMAIN disk \cup {n}
            /\ \A m : Look(d, m) = IF m = n THEN profile ELSE Look(disk, m)
        BY <2>1, <4>1, SetProfileIs
      <4> HIDE DEF d
      <4> QED BY <4>1, <4>2
    <3>2. ASSUME disk' = RemoveProfile(disk, n)
          PROVE  disk' \in AwzarsConfig /\ \A m : m # n => Look(disk', m) = Look(disk, m)
      BY <3>2, RemoveProfileIs DEF Awzars
    <3> QED BY <2>1, <3>1, <3>2
  <2>3. /\ config' = IF mode = "Closed" THEN disk' ELSE config
        /\ UNCHANGED <<names, form, pending, stale, mode, focus>>
    BY <1>3 DEF EditConfig
  <2>4. Awzars'
    BY <2>1, <2>2, <2>3 DEF Awzars
  <2>5. InSync'
    BY <2>1, <2>2, <2>3 DEF InSync
  <2> QED BY <2>4, <2>5
<1> QED BY <1>1, <1>2, <1>3

(* Every step keeps that half and its copy.                                *)
LEMMA NextAwzars == Awzars /\ InSync /\ [Next]_vars => Awzars' /\ InSync'
<1> SUFFICES ASSUME Awzars, InSync, [Next]_vars PROVE Awzars' /\ InSync'
  OBVIOUS
<1>1. CASE UNCHANGED vars
  BY <1>1 DEF vars, Awzars, InSync
<1>2. CASE Next
  BY <1>2, OthersKeepAwzars, FormKeepsAwzars, SaveKeepsAwzars,
     FileStepsKeepAwzars, OutsideKeepsAwzars DEF Next, Key
<1> QED BY <1>1, <1>2

(* The half of the manager that edits config.toml (save_profile, delete    *)
(* and set-password), whatever happens to ~/.aws/config meanwhile.         *)
THEOREM AwzarsHalf == Spec => [](Awzars /\ InSync)
<1>1. Init => Awzars /\ InSync
  BY DEF Init, Awzars, InSync, NoForm, ProfileForm
<1> QED BY <1>1, NextAwzars, PTL DEF Spec

(* The manager's copy of config.toml is out of date only where others      *)
(* changed the file, or where an action of its own ended in an error of    *)
(* reading or writing: it follows the saves, deletions and set-password    *)
(* that did not.                                                           *)
THEOREM CopyInSync == Spec => []InSync
BY AwzarsHalf, PTL

(* Where the copy is up to date, a save of the form leaves the other       *)
(* profiles alone and keeps the password lock of the one it edits.         *)
THEOREM FormSavesItself == Spec => SavesOnlyTheForm
<1> DEFINE Same ==
      SaveAwzarsForm =>
        \A n \in AwzarsName \ (touched \cup stale) :
          IF n = form.name THEN Look(disk', n).lock = Look(disk, n).lock
                           ELSE Look(disk', n) = Look(disk, n)
<1>1. Awzars /\ InSync /\ [Next]_vars => [Same]_vars
  <2> SUFFICES ASSUME Awzars, InSync, SaveAwzarsForm,
                      NEW n \in AwzarsName \ (touched \cup stale)
               PROVE  IF n = form.name THEN Look(disk', n).lock = Look(disk, n).lock
                                       ELSE Look(disk', n) = Look(disk, n)
    OBVIOUS
  <2>1. /\ \A m : Look(disk', m) = IF m = form.name THEN ToProfile(form, config)
                                                    ELSE Look(config, m)
        /\ ToProfile(form, config).lock = Look(config, form.original).lock
    BY UpdatedIs DEF SaveAwzarsForm
  <2>2. Look(config, n) = Look(disk, n)
    BY DEF InSync
  <2>3. Look(config, form.original).lock = Look(config, form.name).lock
    <3>1. CASE form.original = form.name
      BY <3>1
    <3>2. CASE form.original # form.name
      <4>1. form.original = Blank /\ form.name \notin DOMAIN config
        BY <3>2 DEF SaveAwzarsForm, Awzars
      <4>2. Blank \notin DOMAIN config
        BY LookType DEF Awzars
      <4> QED BY <4>1, <4>2, LookType DEF Awzars
    <3> QED BY <3>1, <3>2
  <2> QED BY <2>1, <2>2, <2>3
<1> QED BY <1>1, AwzarsHalf, PTL DEF Spec, SavesOnlyTheForm

----------------------------------------------------------------------------
(* ~/.aws/config: the operators.                                           *)

(* A non-empty set of natural numbers has a least element.                 *)
LEMMA NatMin ==
  ASSUME NEW T \in SUBSET Nat, T # {}
  PROVE  \E m \in T : \A n \in T : m <= n
<1> DEFINE R == OpToRel(<, Nat)
<1>1. IsWellFoundedOn(R, Nat)
  BY NatLessThanWellFounded
<1> HIDE DEF R
<1>2. PICK m \in T : \A n \in T : ~(<<n, m>> \in R)
  BY <1>1, WFMin
<1>3. \A n \in T : ~(n < m)
  BY <1>2 DEF R, OpToRel
<1> QED BY <1>2, <1>3

(* A position is that of the first section of a name.                      *)
LEMMA PositionIs ==
  ASSUME NEW doc \in Document, NEW name
  PROVE  /\ Position(doc, name) \in 0..Len(doc)
         /\ Position(doc, name) # 0 => doc[Position(doc, name)].name = name
<1> DEFINE I == {i \in 1..Len(doc) : doc[i].name = name}
<1>0. Len(doc) \in Nat
  BY DEF Document
<1>1. Position(doc, name) = IF I # {} THEN Min(I) ELSE 0
  BY DEF Position, SelectInSeq
<1>2. I # {} => Min(I) \in I
  <2>1. I \in SUBSET Nat
    BY <1>0
  <2> HIDE DEF I
  <2> QED BY <2>1, NatMin DEF Min
<1> QED BY <1>0, <1>1, <1>2

(* Removing one section leaves the others in order.                        *)
LEMMA RemoveAtIs ==
  ASSUME NEW doc \in Document, NEW i \in 1..Len(doc)
  PROVE  /\ RemoveAt(doc, i) \in Document
         /\ Len(RemoveAt(doc, i)) = Len(doc) - 1
         /\ \A k \in 1..(Len(doc) - 1) :
              RemoveAt(doc, i)[k] = IF k < i THEN doc[k] ELSE doc[k + 1]
<1> DEFINE a == SubSeq(doc, 1, i - 1)
           b == SubSeq(doc, i + 1, Len(doc))
<1>0. Len(doc) \in Nat /\ i \in Int /\ \A k \in 1..Len(doc) : doc[k] \in Section
  BY DEF Document
<1>1. /\ a \in Seq(Section) /\ Len(a) = i - 1
      /\ \A k \in 1..(i - 1) : a[k] = doc[k]
  <2>1. \A k \in 1..(i - 1) : doc[k] \in Section
    BY <1>0
  <2>2. /\ a \in Seq(Section)
        /\ Len(a) = IF 1 <= i - 1 THEN (i - 1) - 1 + 1 ELSE 0
        /\ \A k \in 1 .. (i - 1) - 1 + 1 : a[k] = doc[1 + k - 1]
    BY <1>0, <2>1, SubSeqProperties
  <2> HIDE DEF a
  <2> QED BY <1>0, <2>2
<1>2. /\ b \in Seq(Section) /\ Len(b) = Len(doc) - i
      /\ \A k \in 1..(Len(doc) - i) : b[k] = doc[i + k]
  <2>1. \A k \in (i + 1)..Len(doc) : doc[k] \in Section
    BY <1>0
  <2>2. /\ b \in Seq(Section)
        /\ Len(b) = IF i + 1 <= Len(doc) THEN Len(doc) - (i + 1) + 1 ELSE 0
        /\ \A k \in 1 .. Len(doc) - (i + 1) + 1 : b[k] = doc[(i + 1) + k - 1]
    BY <1>0, <2>1, SubSeqProperties
  <2> HIDE DEF b
  <2> QED BY <1>0, <2>2
<1>3. RemoveAt(doc, i) = a \o b
  BY DEF RemoveAt
<1> HIDE DEF a, b
<1>4. /\ a \o b \in Seq(Section)
      /\ Len(a \o b) = Len(a) + Len(b)
      /\ \A k \in 1 .. Len(a) + Len(b) :
           (a \o b)[k] = IF k <= Len(a) THEN a[k] ELSE b[k - Len(a)]
  <2>1. a \in Seq(Section) /\ b \in Seq(Section)
    BY <1>1, <1>2
  <2> QED BY <2>1, ConcatProperties
<1>5. ASSUME NEW k \in 1..(Len(doc) - 1)
      PROVE  (a \o b)[k] = IF k < i THEN doc[k] ELSE doc[k + 1]
  <2>1. CASE k < i
    BY <1>0, <1>1, <1>2, <1>4, <2>1
  <2>2. CASE ~(k < i)
    <3>1. (a \o b)[k] = b[k - (i - 1)] /\ k - (i - 1) \in 1..(Len(doc) - i)
      BY <1>0, <1>1, <1>2, <1>4, <2>2
    <3>2. b[k - (i - 1)] = doc[i + (k - (i - 1))] /\ i + (k - (i - 1)) = k + 1
      BY <1>0, <1>2, <3>1
    <3> QED BY <3>1, <3>2, <2>2
  <2> QED BY <2>1, <2>2
<1> QED BY <1>0, <1>1, <1>2, <1>3, <1>4, <1>5 DEF Document

(* A changed section is a section.                                         *)
LEMMA MergedType ==
  ASSUME NEW current \in Props, NEW op, op.before \in Entry, op.after \in Entry
  PROVE  Merged(current, op) \in Props
BY DEF Merged, Props, Entry

(* Applying a change to a document gives a document, and can only go wrong *)
(* in the two ways the code names.                                         *)
LEMMA ApplyType ==
  ASSUME NEW doc \in Document, NEW op,
         op.before \in EntryOrNone, op.after \in EntryOrNone, ValidOp(op)
  PROVE  /\ Apply(doc, op).doc \in Document
         /\ Apply(doc, op).verdict \in {"ok", "missing", "exists"}
         /\ Apply(doc, op).overridden \subseteq FormSetting
<1> DEFINE i == Position(doc, op.before.name)
           a == Apply(doc, op)
           merged == [name |-> op.after.name, props |-> Merged(doc[i].props, op)]
<1>0. i \in 0..Len(doc) /\ Len(doc) \in Nat
  BY PositionIs DEF Document
<1> HIDE DEF i
<1>1. \/ a = Applied("missing", doc, {})
      \/ a = Applied("exists", doc, {})
      \/ /\ op.before \in Entry /\ i # 0
         /\ a = Applied("ok", RemoveAt(doc, i), {})
      \/ /\ op.after \in Entry
         /\ a = Applied("ok", Append(doc, op.after), {})
      \/ /\ op.before \in Entry /\ op.after \in Entry /\ i # 0
         /\ a = Applied("ok", [doc EXCEPT ![i] = merged], Overridden(doc[i].props, op))
  BY DEF Apply, EntryOrNone, i, ValidOp
<1>2. CASE a = Applied("missing", doc, {}) \/ a = Applied("exists", doc, {})
  BY <1>2 DEF Applied
<1>3. CASE op.before \in Entry /\ i # 0 /\ a = Applied("ok", RemoveAt(doc, i), {})
  BY <1>0, <1>3, RemoveAtIs DEF Applied
<1>4. CASE op.after \in Entry /\ a = Applied("ok", Append(doc, op.after), {})
  <2>1. op.after \in Section
    BY <1>4 DEF Entry, Section
  <2> QED BY <1>4, <2>1 DEF Applied, Document
<1>5. CASE /\ op.before \in Entry /\ op.after \in Entry /\ i # 0
           /\ a = Applied("ok", [doc EXCEPT ![i] = merged], Overridden(doc[i].props, op))
  <2>1. i \in 1..Len(doc)
    BY <1>0, <1>5
  <2>2. doc[i].props \in Props
    <3>1. doc[i] \in Section
      BY <2>1, ElementOfSeq DEF Document
    <3> QED BY <3>1 DEF Section
  <2>3. Merged(doc[i].props, op) \in Props
    BY <1>5, <2>2, MergedType
  <2>4. merged \in Section
    BY <1>5, <2>3 DEF Section, Entry
  <2> HIDE DEF merged
  <2>5. [doc EXCEPT ![i] = merged] \in Document
    BY <2>1, <2>4, ExceptSeq DEF Document
  <2>6. Overridden(doc[i].props, op) \subseteq FormSetting
    <3>1. op.before # NoEntry /\ op.after # NoEntry
      BY <1>5
    <3> QED BY <3>1 DEF Overridden, ValidOp
  <2> QED BY <1>5, <2>5, <2>6 DEF Applied
<1> QED BY <1>1, <1>2, <1>3, <1>4, <1>5

(* The profiles of a file are entries.                                     *)
LEMMA ProfilesType ==
  ASSUME NEW f \in Document \cup {NoFile}
  PROVE  Contents(f) \in Document /\ Profiles(Contents(f)) \subseteq Entry
<1>1. Contents(f) \in Document
  BY DEF Contents, Document
<1>2. ASSUME NEW i \in 1..Len(Contents(f)), Contents(f)[i].name # OtherSection
      PROVE  Contents(f)[i] \in Entry
  <2>1. Contents(f)[i] \in Section
    BY <1>1, <1>2, ElementOfSeq DEF Document
  <2> QED BY <1>2, <2>1 DEF Section, Entry
<1>3. DOMAIN Contents(f) = 1..Len(Contents(f))
  BY <1>1 DEF Document
<1> HIDE DEF Contents
<1> QED BY <1>1, <1>2, <1>3 DEF Profiles, Range

(* What another program makes of a file is a file.                         *)
LEMMA EditedType ==
  ASSUME file \in Document \cup {NoFile}, EditFile
  PROVE  file' \in Document
<1> DEFINE doc == Contents(file)
           Only(s, v) == [t \in Setting |-> IF t = s THEN v ELSE Unset]
<1>1. \/ \E i \in DOMAIN doc, s \in Setting, v \in Value \cup {Unset} :
           file' = [doc EXCEPT ![i].props[s] = v]
      \/ \E i \in DOMAIN doc : file' = RemoveAt(doc, i)
      \/ \E n \in AwsName, s \in Setting, v \in Value :
           file' = Append(doc, [name |-> n, props |-> Only(s, v)])
  BY DEF EditFile
<1>2. doc \in Document
  BY DEF Contents, Document
<1> HIDE DEF doc
<1>3. DOMAIN doc = 1..Len(doc) /\ \A i \in 1..Len(doc) : doc[i] \in Section
  BY <1>2, ElementOfSeq DEF Document
<1>4. ASSUME NEW i \in DOMAIN doc, NEW s \in Setting, NEW v \in Value \cup {Unset},
             file' = [doc EXCEPT ![i].props[s] = v]
      PROVE  file' \in Document
  <2> DEFINE section == [doc[i] EXCEPT !.props[s] = v]
  <2>1. section \in Section
    BY <1>3 DEF Section, Props
  <2>2. file' = [doc EXCEPT ![i] = section]
    BY <1>4
  <2> HIDE DEF section
  <2> QED BY <1>2, <1>3, <2>1, <2>2, ExceptSeq DEF Document
<1>5. ASSUME NEW i \in DOMAIN doc, file' = RemoveAt(doc, i)
      PROVE  file' \in Document
  BY <1>2, <1>3, <1>5, RemoveAtIs
<1>6. ASSUME NEW n \in AwsName, NEW s \in Setting, NEW v \in Value,
             file' = Append(doc, [name |-> n, props |-> Only(s, v)])
      PROVE  file' \in Document
  <2> DEFINE section == [name |-> n, props |-> Only(s, v)]
  <2>1. section \in Section
    BY DEF Section, Props
  <2>2. file' = Append(doc, section)
    BY <1>6
  <2> HIDE DEF section
  <2> QED BY <1>2, <2>1, <2>2 DEF Document
<1> HIDE DEF Only
<1> QED BY <1>1, <1>4, <1>5, <1>6

(* The form of an AWS profile.                                             *)
LEMMA FormType ==
  /\ NoAwsForm \in AwsProfileForm /\ NoAwsForm.original = NoEntry
  /\ \A entry \in Entry : FromEntry(entry) \in AwsProfileForm
<1>1. Fields(NoEntry) \in [FormSetting -> Value]
  BY DEF Fields
<1>2. ASSUME NEW entry \in Entry PROVE Fields(entry) \in [FormSetting -> Value]
  BY DEF Fields, Entry, Props
<1>3. NoAwsForm \in AwsProfileForm /\ NoAwsForm.original = NoEntry
  BY <1>1 DEF NoAwsForm, AwsProfileForm, EntryOrNone
<1>4. ASSUME NEW entry \in Entry PROVE FromEntry(entry) \in AwsProfileForm
  BY <1>2 DEF FromEntry, AwsProfileForm, EntryOrNone, Entry
<1> QED BY <1>3, <1>4

(* What a form saves is an entry, and differs from what the form was       *)
(* opened from only where the user edited it, where it had an empty text,  *)
(* or in the command that a source profile excludes.                       *)
LEMMA ToEntryIs ==
  ASSUME NEW f \in AwsProfileForm, f.name # Blank
  PROVE  /\ ToEntry(f) \in Entry
         /\ f.original # NoEntry =>
              \A t \in Changes(f.original, ToEntry(f)) :
                /\ t \in FormSetting
                /\ \/ t \in EditedSettings(f)
                   \/ f.original.props[t] = Blank
                   \/ t = "credential_process" /\ f.fields["source_profile"] # Blank
<1> DEFINE excluded == IF f.fields["source_profile"] = Blank THEN {} ELSE {"credential_process"}
           filled == {s \in FormSetting : f.fields[s] # Blank} \ excluded
           Carried(s) == IF f.original = NoEntry THEN Unset ELSE f.original.props[s]
           After(s) == IF s \in filled THEN f.fields[s]
                       ELSE IF s \in FormSetting THEN Unset ELSE Carried(s)
<1>0. /\ f.original \in EntryOrNone /\ f.name \in AwsName
      /\ f.fields \in [FormSetting -> Value]
  BY DEF AwsProfileForm
<1>1. /\ ToEntry(f).name = f.name
      /\ ToEntry(f).props = [s \in Setting |-> After(s)]
      /\ ToEntry(f) = [name |-> f.name, props |-> [s \in Setting |-> After(s)]]
  BY DEF ToEntry
<1>2. ASSUME NEW s \in Setting PROVE After(s) \in Value \cup {Unset}
  <2>1. f.original # NoEntry => f.original.props[s] \in Value \cup {Unset}
    BY <1>0 DEF EntryOrNone, Entry, Props
  <2> QED BY <1>0, <2>1
<1>3. ToEntry(f) \in Entry
  <2> HIDE DEF After
  <2> QED BY <1>0, <1>1, <1>2 DEF Entry, Props
<1>4. ASSUME f.original # NoEntry, NEW t \in Changes(f.original, ToEntry(f))
      PROVE  /\ t \in FormSetting
             /\ \/ t \in EditedSettings(f)
                \/ f.original.props[t] = Blank
                \/ t = "credential_process" /\ f.fields["source_profile"] # Blank
  <2>1. t \in Setting /\ f.original.props[t] # After(t)
    BY <1>1 DEF Changes
  <2>2. t \in FormSetting
    BY <1>4, <2>1
  <2>3. ASSUME t \notin EditedSettings(f), f.original.props[t] # Blank,
               t \notin excluded
        PROVE  FALSE
    <3>1. f.fields[t] = IF f.original.props[t] = Unset THEN Blank ELSE f.original.props[t]
      BY <1>4, <2>2, <2>3 DEF EditedSettings, Fields
    <3>2. CASE f.original.props[t] = Unset
      BY <2>1, <2>2, <3>1, <3>2
    <3>3. CASE f.original.props[t] # Unset
      BY <2>1, <2>2, <2>3, <3>1, <3>3
    <3> QED BY <3>2, <3>3
  <2> QED BY <2>2, <2>3
<1> QED BY <1>3, <1>4

(* The name found for a copy is free.                                      *)
LEMMA FreeSlotIs ==
  ASSUME NEW bs, IsFiniteSet(bs), bs \subseteq [slot: Slot, doc: Document],
         NEW t \in Nat
  PROVE  /\ FreeSlot(bs, t) \in Slot /\ FreeSlot(bs, t)[1] = t
         /\ \A b \in bs : b.slot # FreeSlot(bs, t)
<1> DEFINE C == {c \in bs : c.slot[1] = t}
           taken == {b.slot[2] : b \in C}
           k == Cardinality(taken)
           Free(n) == n \notin taken /\ \A m \in 0..(n - 1) : m \in taken
<1>1. taken \subseteq Nat
  BY DEF Slot
<1>2. IsFiniteSet(taken) /\ k \in Nat
  <2>1. IsFiniteSet(C)
    BY FS_Subset
  <2>2. [b \in C |-> b.slot[2]] \in Surjection(C, taken)
    BY DEF Surjection
  <2> HIDE DEF C, taken
  <2>3. IsFiniteSet(taken)
    BY <2>1, <2>2, FS_Surjection
  <2> QED BY <2>3, FS_CardinalityType
<1> HIDE DEF taken
<1>3. ASSUME NEW n \in Nat, \A m \in 0..(n - 1) : m \in taken
      PROVE  n <= k
  <2>1. 0..(n - 1) \in SUBSET taken
    BY <1>3
  <2>2. Cardinality(0..(n - 1)) = IF 0 > n - 1 THEN 0 ELSE (n - 1) - 0 + 1
    BY FS_Interval
  <2>3. Cardinality(0..(n - 1)) <= k
    BY <1>2, <2>1, FS_Subset
  <2> QED BY <1>2, <2>2, <2>3
<1>4. Nat \ taken # {}
  <2>1. SUFFICES ASSUME Nat \subseteq taken PROVE FALSE
    OBVIOUS
  <2>2. k + 1 <= k
    BY <1>2, <1>3, <2>1
  <2> QED BY <1>2, <2>2
<1>5. \E n \in 0..k : Free(n)
  <2>1. PICK n \in Nat \ taken : \A m \in Nat \ taken : n <= m
    BY <1>4, NatMin
  <2>2. \A m \in 0..(n - 1) : m \in taken
    BY <2>1
  <2>3. n <= k
    BY <1>3, <2>1, <2>2
  <2> QED BY <1>2, <2>1, <2>2, <2>3
<1>6. FreeSlot(bs, t) = <<t, CHOOSE n \in 0..k : Free(n)>>
  BY DEF FreeSlot, taken
<1> HIDE DEF Free
<1>7. PICK n \in 0..k : Free(n) /\ FreeSlot(bs, t) = <<t, n>>
  BY <1>5, <1>6
<1>8. ASSUME NEW b \in bs, b.slot = <<t, n>> PROVE FALSE
  BY <1>7, <1>8 DEF taken, Free
<1> QED BY <1>2, <1>7, <1>8 DEF Slot

(* The copies are finitely many.                                           *)
LEMMA SavedType ==
  ASSUME NEW bs, IsFiniteSet(bs), bs \subseteq [slot: Slot, doc: Document],
         NEW slot \in Slot, NEW doc \in Document
  PROVE  /\ IsFiniteSet(Saved(bs, slot, doc))
         /\ Saved(bs, slot, doc) \subseteq [slot: Slot, doc: Document]
<1>1. IsFiniteSet({b \in bs : b.slot # slot})
  BY FS_Subset
<1> DEFINE b == [slot |-> slot, doc |-> doc]
<1>2. b \in [slot: Slot, doc: Document]
  OBVIOUS
<1> HIDE DEF b
<1>3. IsFiniteSet({b})
  BY FS_Singleton
<1>4. IsFiniteSet({c \in bs : c.slot # slot} \cup {b})
  BY <1>1, <1>3, FS_Union
<1>5. Saved(bs, slot, doc) = {c \in bs : c.slot # slot} \cup {b}
  BY DEF Saved, b
<1> QED BY <1>2, <1>4, <1>5

----------------------------------------------------------------------------
(* ~/.aws/config: types, and where the op of a save comes from.            *)

(* The blank job is a job.                                                 *)
LEMMA NoJobIs ==
  NoJob \in Job /\ NoJob.slot = NoSlot /\ NoJob.read = NoFile
<1>1. <<>> \in Document
  BY DEF Document
<1> QED BY <1>1 DEF NoJob, Job, NoSlot, Slot, EntryOrNone

(* A save begins with nothing but its op.                                  *)
LEMMA BeginKeepsAws ==
  ASSUME Aws, NEW s \in Savers, NEW op, Begin(s, op),
         op \in [before: EntryOrNone, after: EntryOrNone], ValidOp(op),
         UNCHANGED <<awsDisk, mode, focus, entries, awsForm>>
  PROVE  Aws'
<1> DEFINE started == [NoJob EXCEPT !.op = op]
           which == IF s = Tui THEN "saves" ELSE "others"
<1>1. started \in Job /\ started.op = op
  BY NoJobIs DEF Job
<1>2. /\ pc' = [pc EXCEPT ![s] = "read"] /\ job' = [job EXCEPT ![s] = started]
      /\ left' = [left EXCEPT ![which] = @ - 1] /\ left[which] > 0
  BY DEF Begin
<1> HIDE DEF started
<1>3. left' \in Budget
  BY <1>2 DEF Aws, Budget
<1>4. /\ pc' \in [Savers -> {"idle", "read", "look", "copy", "prune", "replace", "done"}]
      /\ job' \in [Savers -> Job]
      /\ \A t \in Savers : pc'[t] # "idle" => ValidOp(job'[t].op)
      /\ \A t \in Savers : pc'[t] \in {"look", "copy"} => job'[t].read # NoFile
  BY <1>1, <1>2 DEF Aws
<1> QED BY <1>3, <1>4 DEF Aws, awsDisk

(* The steps of a save.                                                    *)
LEMMA SaveKeepsAws ==
  ASSUME Aws, NEW s \in Savers, Save(s)
  PROVE  Aws'
<1>0. job[s] \in Job
  BY DEF Aws
<1>1. CASE ReadFile(s)
  <2> DEFINE applied == Apply(Contents(file), job[s].op)
             worked == [job[s] EXCEPT !.read = file, !.doc = applied.doc,
                                      !.overridden = applied.overridden,
                                      !.verdict = applied.verdict]
  <2>1. /\ applied.doc \in Document
        /\ applied.verdict \in {"ok", "missing", "exists"}
        /\ applied.overridden \subseteq FormSetting
    <3>1. Contents(file) \in Document
      BY ProfilesType DEF Aws
    <3>2. /\ job[s].op.before \in EntryOrNone /\ job[s].op.after \in EntryOrNone
          /\ ValidOp(job[s].op)
      BY <1>0, <1>1 DEF ReadFile, Aws, Job
    <3> QED BY <3>1, <3>2, ApplyType
  <2>2. /\ job' = [job EXCEPT ![s] = worked]
        /\ \E next \in {"done", "look", "replace"} :
             /\ pc' = [pc EXCEPT ![s] = next]
             /\ next = "look" => file # NoFile
    BY <1>1 DEF ReadFile
  <2> HIDE DEF applied
  <2>3. worked \in Job /\ worked.op = job[s].op /\ worked.read = file
    BY <1>0, <2>1 DEF Job, Aws
  <2>4. ValidOp(job[s].op)
    BY <1>1 DEF ReadFile, Aws
  <2>5. UNCHANGED <<awsDisk, awzars, Manager>>
    BY <1>1 DEF ReadFile
  <2> HIDE DEF worked
  <2> QED BY <1>0, <2>2, <2>3, <2>4, <2>5 DEF Aws, awsDisk, awzars, Manager
<1>2. CASE LookForSlot(s)
  <2> DEFINE slot == FreeSlot(backups, now')
  <2>1. now' \in 0..MaxClock
    BY <1>2 DEF LookForSlot, Aws
  <2>2. slot \in Slot
    BY <2>1, FreeSlotIs DEF Aws
  <2>3. /\ pc[s] = "look" /\ pc' = [pc EXCEPT ![s] = "copy"]
        /\ job' = [job EXCEPT ![s].slot = slot]
        /\ contested' \in {contested, contested \cup {slot}}
        /\ UNCHANGED <<file, backups, awzars, Manager>>
    BY <1>2 DEF LookForSlot
  <2> HIDE DEF slot
  <2>4. /\ job' \in [Savers -> Job]
        /\ \A t \in Savers : job'[t].op = job[t].op /\ job'[t].read = job[t].read
    BY <1>0, <2>2, <2>3 DEF Aws, Job
  <2> QED BY <2>1, <2>2, <2>3, <2>4 DEF Aws, awzars, Manager
<1>3. CASE WriteBackup(s)
  <2>1. job[s].slot \in Slot /\ job[s].read \in Document
    BY <1>0, <1>3 DEF WriteBackup, Aws, Job
  <2>2. /\ IsFiniteSet(Saved(backups, job[s].slot, job[s].read))
        /\ Saved(backups, job[s].slot, job[s].read) \subseteq [slot: Slot, doc: Document]
    BY <2>1, SavedType DEF Aws
  <2> QED BY <1>3, <2>2 DEF WriteBackup, Aws, awzars, Manager
<1>4. CASE Prune(s)
  <2>1. PICK removed \in SUBSET Excess(backups) : backups' = backups \ removed
    BY <1>4 DEF Prune
  <2>2. IsFiniteSet(backups') /\ backups' \subseteq [slot: Slot, doc: Document]
    BY <2>1, FS_Difference DEF Aws
  <2> QED BY <1>4, <2>2 DEF Prune, Aws, awzars, Manager
<1>5. CASE Replace(s)
  <2>1. PICK verdict \in {"ok", "io"} : job' = [job EXCEPT ![s].verdict = verdict]
    BY <1>5 DEF Replace
  <2>2. /\ job' \in [Savers -> Job]
        /\ \A t \in Savers : job'[t].op = job[t].op /\ job'[t].read = job[t].read
    BY <1>0, <2>1 DEF Aws, Job
  <2>3. file' \in Document
    BY <1>0, <1>5 DEF Replace, Job
  <2> QED BY <1>5, <2>2, <2>3 DEF Replace, Aws, awzars, Manager
<1> QED BY <1>1, <1>2, <1>3, <1>4, <1>5 DEF Save

(* A save ends, fails, or is abandoned.                                    *)
LEMMA EndKeepsAws ==
  ASSUME Aws, FinishSave \/ Close \/ IoFails \/ \E s \in Others : OtherEnds(s)
  PROVE  Aws'
<1>0. Tui \in Savers /\ Others \subseteq Savers
  BY DEF Savers
<1>1. CASE FinishSave
  <2>1. entries' \subseteq Entry
    BY <1>1, ProfilesType DEF FinishSave, Loaded, Aws
  <2> QED BY <1>0, <1>1, <2>1, FormType, NoJobIs
      DEF FinishSave, Aws, awsDisk, awzars, Show, Mode, EntryOrNone, Dialogs
<1>2. CASE Close
  BY <1>0, <1>2, FormType, NoJobIs
  DEF Close, Aws, awsDisk, Show, Mode, EntryOrNone, Dialogs
<1>3. CASE IoFails
  <2>1. /\ job' \in [Savers -> Job]
        /\ \A t \in Savers : job'[t].op = job[t].op /\ job'[t].read = job[t].read
    <3>1. job[Tui] \in Job
      BY <1>0 DEF Aws
    <3>2. [job[Tui] EXCEPT !.verdict = "io"] \in Job
      BY <3>1 DEF Job
    <3> QED BY <1>0, <1>3, <3>1, <3>2 DEF IoFails, Aws
  <2> QED BY <1>0, <1>3, <2>1 DEF IoFails, Aws, awsDisk, awzars, Manager
<1>4. CASE \E s \in Others : OtherEnds(s)
  BY <1>0, <1>4, NoJobIs DEF OtherEnds, Aws, awsDisk, awzars, Manager
<1> QED BY <1>1, <1>2, <1>3, <1>4

(* A saver starts a save of what it shows.                                 *)
LEMMA FormOpIs ==
  ASSUME Aws, awsForm.name # Blank
  PROVE  FormOp \in [before: EntryOrNone, after: EntryOrNone] /\ ValidOp(FormOp)
<1>1. awsForm \in AwsProfileForm /\ awsForm.original \in EntryOrNone
  BY DEF Aws, AwsProfileForm
<1>2. /\ ToEntry(awsForm) \in Entry
      /\ awsForm.original # NoEntry =>
           \A t \in Changes(awsForm.original, ToEntry(awsForm)) : t \in FormSetting
  BY <1>1, ToEntryIs
<1>3. ToEntry(awsForm) # NoEntry
  BY <1>2
<1> QED BY <1>1, <1>2, <1>3 DEF FormOp, ValidOp, EntryOrNone

(* Linking or unlinking changes only a setting the form shows.             *)
LEMMA LinkOpIs ==
  ASSUME NEW entry \in Entry, NEW v \in AwzarsName \cup {Unset}
  PROVE  LET op == [before |-> entry,
                    after |-> [entry EXCEPT !.props["credential_process"] = v]]
         IN  /\ op \in [before: EntryOrNone, after: EntryOrNone] /\ ValidOp(op)
             /\ op.after # NoEntry
<1> DEFINE after == [entry EXCEPT !.props["credential_process"] = v]
<1>1. "credential_process" \in Setting /\ v \in Value \cup {Unset}
  OBVIOUS
<1>2. after \in Entry
  BY <1>1 DEF Entry, Props
<1>3. Changes(entry, after) \subseteq FormSetting
  BY <1>1 DEF Changes, Entry, Props
<1>4. after # NoEntry
  BY <1>2
<1> DEFINE op == [before |-> entry, after |-> after]
<1> HIDE DEF after
<1>5. op.before = entry /\ op.after = after
  OBVIOUS
<1>6. op \in [before: EntryOrNone, after: EntryOrNone]
  BY <1>2 DEF EntryOrNone
<1> HIDE DEF op
<1>7. ValidOp(op)
  BY <1>3, <1>4, <1>5 DEF ValidOp
<1> USE DEF op, after
<1> QED BY <1>4, <1>5, <1>6, <1>7

(* Deleting one asks for its section to go.                                *)
LEMMA DeleteOpIs ==
  ASSUME NEW entry \in Entry
  PROVE  LET op == [before |-> entry, after |-> NoEntry]
         IN  op \in [before: EntryOrNone, after: EntryOrNone] /\ ValidOp(op)
BY DEF ValidOp, EntryOrNone

(* The handlers that begin a save, and another manager that does.          *)
LEMMA BeginsKeepAws ==
  ASSUME Aws, Awzars,
         SaveAwsForm \/ ApplyLink \/ ConfirmDeleteAws \/ \E s \in Others : OtherBegins(s)
  PROVE  Aws'
<1>0. Tui \in Savers /\ Others \subseteq Savers
  BY DEF Savers
<1>1. CASE SaveAwsForm
  <2>1. awsForm.name # Blank /\ Begin(Tui, FormOp)
    BY <1>1 DEF SaveAwsForm, FormOp
  <2>2. UNCHANGED <<awsDisk, mode, focus, entries, awsForm>>
    BY <1>1 DEF SaveAwsForm
  <2> QED BY <1>0, <2>1, <2>2, FormOpIs, BeginKeepsAws
<1>2. CASE ApplyLink
  <2>1. focus \in Entry /\ names \subseteq AwzarsName
    BY <1>2 DEF ApplyLink, At, Aws, Dialogs, Awzars
  <2>2. PICK v \in AwzarsName \cup {Unset} :
          Begin(Tui, [before |-> focus,
                      after |-> [focus EXCEPT !.props["credential_process"] = v]])
    BY <1>2, <2>1 DEF ApplyLink
  <2>3. UNCHANGED <<awsDisk, mode, focus, entries, awsForm>>
    BY <1>2 DEF ApplyLink
  <2> QED BY <1>0, <2>1, <2>2, <2>3, LinkOpIs, BeginKeepsAws
<1>3. CASE ConfirmDeleteAws
  <2>1. focus \in Entry
    BY <1>3 DEF ConfirmDeleteAws, At, Aws, Dialogs
  <2>2. Begin(Tui, [before |-> focus, after |-> NoEntry])
    BY <1>3 DEF ConfirmDeleteAws
  <2>3. UNCHANGED <<awsDisk, mode, focus, entries, awsForm>>
    BY <1>3 DEF ConfirmDeleteAws
  <2> QED BY <1>0, <2>1, <2>2, <2>3, DeleteOpIs, BeginKeepsAws
<1>4. CASE \E s \in Others : OtherBegins(s)
  <2>1. PICK s \in Others : OtherBegins(s)
    BY <1>4
  <2>2. PICK entry \in Profiles(Contents(file)) :
          \/ \E v \in AwzarsName \cup {Unset} :
               Begin(s, [before |-> entry,
                         after |-> [entry EXCEPT !.props["credential_process"] = v]])
          \/ Begin(s, [before |-> entry, after |-> NoEntry])
    BY <2>1 DEF OtherBegins
  <2>3. entry \in Entry
    BY <2>2, ProfilesType DEF Aws
  <2>4. UNCHANGED <<awsDisk, mode, focus, entries, awsForm>>
    BY <2>1 DEF OtherBegins
  <2>5. ASSUME NEW v \in AwzarsName \cup {Unset},
               Begin(s, [before |-> entry,
                         after |-> [entry EXCEPT !.props["credential_process"] = v]])
        PROVE  Aws'
    BY <1>0, <2>3, <2>4, <2>5, LinkOpIs, BeginKeepsAws
  <2>6. ASSUME Begin(s, [before |-> entry, after |-> NoEntry])
        PROVE  Aws'
    BY <1>0, <2>3, <2>4, <2>6, DeleteOpIs, BeginKeepsAws
  <2> QED BY <2>2, <2>5, <2>6
<1> QED BY <1>1, <1>2, <1>3, <1>4

(* The form and the dialogs are opened, edited and left.                   *)
LEMMA FormKeepsAws ==
  ASSUME Aws,
         \/ StartEditAws \/ StartAddAws \/ PickType \/ EditAwsField \/ StartLink
         \/ StartDeleteAws \/ LeaveForm \/ AnswerUnsaved \/ Cancel \/ Open
  PROVE  Aws'
<1>1. UNCHANGED <<awsDisk, saving, left>>
  BY DEF StartEditAws, StartAddAws, PickType, EditAwsField, StartLink,
     StartDeleteAws, LeaveForm, AnswerUnsaved, Cancel, Open
<1>2. entries' \subseteq Entry
  <2>1. \A shown \in Loaded : shown \subseteq Entry
    BY ProfilesType DEF Loaded, Aws
  <2> QED BY <2>1 DEF StartEditAws, StartAddAws, PickType, EditAwsField, StartLink,
          StartDeleteAws, LeaveForm, AnswerUnsaved, Cancel, Open, Aws
<1>3. awsForm' \in AwsProfileForm
  <2>1. CASE StartEditAws
    BY <2>1, FormType DEF StartEditAws, Aws
  <2>2. CASE PickType
    BY <2>2, FormType DEF PickType, AwsProfileForm
  <2>3. CASE EditAwsField
    <3>1. ASSUME NEW s \in Visible(awsForm), NEW v \in Domain[s] \cup {Blank}
          PROVE  [awsForm EXCEPT !.fields[s] = v] \in AwsProfileForm
      <4>1. s \in FormSetting /\ v \in Value
        BY DEF Visible
      <4> QED BY <4>1 DEF Aws, AwsProfileForm
    <3>2. ASSUME NEW n \in AwsName \cup {Blank}
          PROVE  [awsForm EXCEPT !.name = n] \in AwsProfileForm
      BY DEF Aws, AwsProfileForm
    <3> QED BY <2>3, <3>1, <3>2 DEF EditAwsField
  <2>4. CASE \/ StartAddAws \/ StartLink \/ StartDeleteAws \/ LeaveForm
             \/ AnswerUnsaved \/ Cancel \/ Open
    BY <2>4, FormType DEF StartAddAws, StartLink, StartDeleteAws, LeaveForm,
       AnswerUnsaved, Cancel, Open, Aws
  <2> QED BY <2>1, <2>2, <2>3, <2>4
<1>4. /\ mode' \in Mode
      /\ mode' \notin {"DeleteAwzars", "SetPasswordPrompt"} => focus' \in EntryOrNone
      /\ mode' \in Dialogs => focus' \in Entry
  <2>1. entries \subseteq Entry
    BY DEF Aws
  <2>2. CASE StartEditAws \/ StartAddAws \/ PickType \/ EditAwsField
    BY <2>2 DEF StartEditAws, StartAddAws, PickType, EditAwsField, Aws, Show, At,
       Mode, Dialogs, EntryOrNone
  <2>3. CASE StartLink \/ StartDeleteAws
    BY <2>1, <2>3 DEF StartLink, StartDeleteAws, Show, Mode, Dialogs, EntryOrNone
  <2>4. CASE LeaveForm \/ AnswerUnsaved \/ Cancel \/ Open
    BY <2>4 DEF LeaveForm, AnswerUnsaved, Cancel, Open, Show, Mode, Dialogs, EntryOrNone
  <2> QED BY <2>2, <2>3, <2>4
<1> QED BY <1>1, <1>2, <1>3, <1>4 DEF Aws, awsDisk, saving

(* The other half of the manager, and everybody else.                      *)
LEMMA OthersKeepAws ==
  ASSUME Aws, Awzars,
         \/ StartAddAwzars \/ StartEditAwzars \/ EditAwzarsField \/ SaveAwzarsForm
         \/ AnswerPrompt \/ StartDeleteAwzars \/ ConfirmDeleteAwzars
         \/ RunPendingAction \/ EditFile \/ EditConfig
  PROVE  Aws'
<1>1. CASE EditFile
  <2>1. file' \in Document
    BY <1>1, EditedType DEF Aws
  <2> QED BY <1>1, <2>1 DEF EditFile, Aws, Budget, saving
<1>2. CASE EditConfig
  BY <1>2 DEF EditConfig, Aws, Budget, saving, awsDisk
<1>3. CASE RunPendingAction
  BY <1>3 DEF RunPendingAction, Aws, saving, awsDisk
<1>4. CASE \/ StartAddAwzars \/ StartEditAwzars \/ EditAwzarsField \/ SaveAwzarsForm
           \/ AnswerPrompt \/ StartDeleteAwzars \/ ConfirmDeleteAwzars
  <2>1. UNCHANGED <<awsDisk, saving, entries, awsForm>>
    BY <1>4 DEF StartAddAwzars, StartEditAwzars, EditAwzarsField, SaveAwzarsForm,
       AnswerPrompt, StartDeleteAwzars, ConfirmDeleteAwzars
  <2>2. left' \in Budget
    BY <1>4 DEF StartAddAwzars, StartEditAwzars, EditAwzarsField, SaveAwzarsForm,
       AnswerPrompt, StartDeleteAwzars, ConfirmDeleteAwzars, Aws, Budget
  <2>3. /\ mode' \in Mode
        /\ mode' \notin {"DeleteAwzars", "SetPasswordPrompt"} => focus' \in EntryOrNone
        /\ mode' \in Dialogs => focus' \in Entry
    BY <1>4 DEF StartAddAwzars, StartEditAwzars, EditAwzarsField, SaveAwzarsForm,
       AnswerPrompt, StartDeleteAwzars, ConfirmDeleteAwzars, Aws, At, Show, Mode,
       Dialogs, EntryOrNone
  <2> QED BY <2>1, <2>2, <2>3 DEF Aws, awsDisk, saving
<1> QED BY <1>1, <1>2, <1>3, <1>4

(* Every step keeps the other half.                                        *)
LEMMA NextAws ==
  ASSUME Aws, Awzars, [Next]_vars
  PROVE  Aws'
<1>1. CASE Key
  BY <1>1, BeginsKeepAws, FormKeepsAws, OthersKeepAws DEF Key
<1>2. CASE \E s \in Savers : Save(s)
  BY <1>2, SaveKeepsAws
<1>3. CASE \/ FinishSave \/ Close \/ IoFails \/ Open \/ RunPendingAction
           \/ EditFile \/ EditConfig
  BY <1>3, EndKeepsAws, FormKeepsAws, OthersKeepAws
<1>4. CASE \E s \in Others : OtherBegins(s) \/ OtherEnds(s)
  BY <1>4, EndKeepsAws, BeginsKeepAws
<1>5. CASE UNCHANGED vars
  BY <1>5 DEF vars, Aws
<1> QED BY <1>1, <1>2, <1>3, <1>4, <1>5 DEF Next

(* The other half is well typed in every behaviour, and so are both: what  *)
(* a save works on is a document, its op names settings the form shows,    *)
(* and the dialogs are about a profile.                                    *)
THEOREM TypeCorrect == Spec => [](Aws /\ TypeOK)
<1>1. Init => Aws
  <2> SUFFICES ASSUME Init PROVE Aws
    OBVIOUS
  <2>1. /\ IsFiniteSet(backups) /\ backups \subseteq [slot: Slot, doc: Document]
    BY FS_EmptySet DEF Init
  <2>2. pc \in [Savers -> {"idle", "read", "look", "copy", "prune", "replace", "done"}]
    BY DEF Init
  <2>3. job \in [Savers -> Job] /\ \A s \in Savers : pc[s] = "idle"
    BY NoJobIs DEF Init
  <2>4. awsForm \in AwsProfileForm /\ left \in Budget /\ now \in 0..MaxClock
    BY FormType DEF Init
  <2> QED BY <2>1, <2>2, <2>3, <2>4 DEF Init, Aws, Mode, EntryOrNone, Dialogs
<1>2. Awzars /\ Aws /\ [Next]_vars => Aws'
  BY NextAws
<1>3. Awzars /\ Aws => TypeOK
  BY DEF Awzars, Aws, TypeOK
<1> QED BY <1>1, <1>2, <1>3, AwzarsHalf, PTL DEF Spec

----------------------------------------------------------------------------
(* What a save changes.                                                    *)

(* A change that goes through adds a section, removes one, or merges the   *)
(* changed settings into one as it is.                                     *)
LEMMA ApplyIs ==
  ASSUME NEW doc \in Document, NEW op,
         op.before \in EntryOrNone, op.after \in EntryOrNone, ValidOp(op),
         Apply(doc, op).verdict = "ok"
  PROVE  LET i == Position(doc, op.before.name)
             a == Apply(doc, op)
         IN  \/ op.before = NoEntry /\ op.after \in Entry /\ a.doc = Append(doc, op.after)
             \/ /\ op.before \in Entry /\ op.after = NoEntry /\ i \in 1..Len(doc)
                /\ a.doc = RemoveAt(doc, i)
             \/ /\ op.before \in Entry /\ op.after \in Entry /\ i \in 1..Len(doc)
                /\ a.doc = [doc EXCEPT ![i] = [name |-> op.after.name,
                                               props |-> Merged(doc[i].props, op)]]
                /\ a.overridden = Overridden(doc[i].props, op)
<1> DEFINE i == Position(doc, op.before.name)
           a == Apply(doc, op)
           merged == [name |-> op.after.name, props |-> Merged(doc[i].props, op)]
<1>0. i \in 0..Len(doc) /\ Len(doc) \in Nat
  BY PositionIs DEF Document
<1> HIDE DEF i
<1>1. \/ a = Applied("missing", doc, {})
      \/ a = Applied("exists", doc, {})
      \/ /\ op.before \in Entry /\ op.after = NoEntry /\ i # 0
         /\ a = Applied("ok", RemoveAt(doc, i), {})
      \/ /\ op.before = NoEntry /\ op.after \in Entry
         /\ a = Applied("ok", Append(doc, op.after), {})
      \/ /\ op.before \in Entry /\ op.after \in Entry /\ i # 0
         /\ a = Applied("ok", [doc EXCEPT ![i] = merged], Overridden(doc[i].props, op))
  BY DEF Apply, EntryOrNone, i, ValidOp
<1>2. i # 0 => i \in 1..Len(doc)
  BY <1>0
<1> HIDE DEF merged
<1>3. \/ op.before = NoEntry /\ op.after \in Entry /\ a.doc = Append(doc, op.after)
      \/ /\ op.before \in Entry /\ op.after = NoEntry /\ i \in 1..Len(doc)
         /\ a.doc = RemoveAt(doc, i)
      \/ /\ op.before \in Entry /\ op.after \in Entry /\ i \in 1..Len(doc)
         /\ a.doc = [doc EXCEPT ![i] = merged]
         /\ a.overridden = Overridden(doc[i].props, op)
  BY <1>1, <1>2 DEF Applied
<1> QED BY <1>3 DEF i, merged

(* Without the section it is about, the document is what it was.           *)
LEMMA AppendedIs ==
  ASSUME NEW doc \in Document, NEW section \in Section
  PROVE  RemoveAt(Append(doc, section), Len(Append(doc, section))) = doc
<1> DEFINE long == Append(doc, section)
           short == RemoveAt(long, Len(long))
<1>0. Len(doc) \in Nat /\ doc \in Seq(Section)
  BY DEF Document
<1>1. /\ long \in Document /\ Len(long) = Len(doc) + 1
      /\ \A k \in 1..Len(doc) : long[k] = doc[k]
  BY <1>0, AppendProperties DEF Document
<1> HIDE DEF long
<1>2. Len(long) \in 1..Len(long)
  BY <1>0, <1>1
<1>3. /\ short \in Document /\ Len(short) = Len(long) - 1
      /\ \A k \in 1..(Len(long) - 1) :
           short[k] = IF k < Len(long) THEN long[k] ELSE long[k + 1]
  BY <1>1, <1>2, RemoveAtIs
<1> HIDE DEF short
<1>4. Len(short) = Len(doc) /\ \A k \in 1..Len(short) : short[k] = doc[k]
  BY <1>0, <1>1, <1>3
<1>5. short \in Seq(Section)
  BY <1>3 DEF Document
<1>6. short = doc
  BY <1>0, <1>4, <1>5, SeqEqual
<1> QED BY <1>6 DEF short, long

(* Removing a section, it does not matter what it was replaced by before.  *)
LEMMA ReplacedIs ==
  ASSUME NEW doc \in Document, NEW i \in 1..Len(doc), NEW section \in Section
  PROVE  RemoveAt([doc EXCEPT ![i] = section], i) = RemoveAt(doc, i)
<1> DEFINE new == [doc EXCEPT ![i] = section]
           a == RemoveAt(new, i)
           b == RemoveAt(doc, i)
<1>0. Len(doc) \in Nat /\ i \in Nat
  BY DEF Document
<1>1. /\ new \in Document /\ Len(new) = Len(doc)
      /\ \A k \in 1..Len(doc) : new[k] = IF k = i THEN section ELSE doc[k]
  BY ExceptSeq DEF Document
<1> HIDE DEF new
<1>2. /\ a \in Document /\ Len(a) = Len(new) - 1
      /\ \A k \in 1..(Len(new) - 1) : a[k] = IF k < i THEN new[k] ELSE new[k + 1]
  BY <1>1, RemoveAtIs
<1>3. /\ b \in Document /\ Len(b) = Len(doc) - 1
      /\ \A k \in 1..(Len(doc) - 1) : b[k] = IF k < i THEN doc[k] ELSE doc[k + 1]
  BY RemoveAtIs
<1> HIDE DEF a, b
<1>4. Len(a) = Len(b) /\ \A k \in 1..Len(a) : a[k] = b[k]
  BY <1>0, <1>1, <1>2, <1>3
<1>5. a \in Seq(Section) /\ b \in Seq(Section)
  BY <1>2, <1>3 DEF Document
<1>6. a = b
  BY <1>4, <1>5, SeqEqual
<1> QED BY <1>6 DEF a, b, new

(* An op stays that of the form while its save is on the way.              *)
LEMMA NextFromForm ==
  ASSUME Aws, FromForm, [Next]_vars
  PROVE  FromForm'
<1>0. Tui \in Savers /\ Tui \notin Others /\ pc \in [Savers -> {"idle", "read", "look",
        "copy", "prune", "replace", "done"}] /\ job \in [Savers -> Job]
  BY DEF Savers, Aws
<1>1. ASSUME UNCHANGED <<awsForm, mode>>, job'[Tui].op = job[Tui].op,
             pc'[Tui] # "idle" => pc[Tui] # "idle"
      PROVE  FromForm'
  BY <1>1 DEF FromForm, FormOp
<1>2. CASE \E s \in Savers : Save(s)
  <2>1. PICK s \in Savers : Save(s)
    BY <1>2
  <2>2. job'[Tui].op = job[Tui].op /\ (pc'[Tui] # "idle" => pc[Tui] # "idle")
    <3>1. CASE s # Tui
      BY <1>0, <2>1, <3>1 DEF Save, ReadFile, LookForSlot, WriteBackup, Prune, Replace
    <3>2. CASE s = Tui
      <4>1. pc[Tui] # "idle"
        BY <2>1, <3>2 DEF Save, ReadFile, LookForSlot, WriteBackup, Prune, Replace
      <4>2. CASE ReadFile(s)
        BY <1>0, <3>2, <4>1, <4>2 DEF ReadFile, Job
      <4>3. CASE LookForSlot(s) \/ WriteBackup(s) \/ Prune(s) \/ Replace(s)
        BY <1>0, <3>2, <4>1, <4>3 DEF LookForSlot, WriteBackup, Prune, Replace, Job
      <4> QED BY <2>1, <4>2, <4>3 DEF Save
    <3> QED BY <3>1, <3>2
  <2>3. UNCHANGED <<awsForm, mode>>
    BY <2>1 DEF Save, ReadFile, LookForSlot, WriteBackup, Prune, Replace, Manager
  <2> QED BY <1>1, <2>2, <2>3
<1>3. CASE \E s \in Others : OtherBegins(s) \/ OtherEnds(s)
  <2>1. job'[Tui] = job[Tui] /\ pc'[Tui] = pc[Tui] /\ UNCHANGED <<awsForm, mode>>
    BY <1>0, <1>3 DEF OtherBegins, OtherEnds, Begin, Manager
  <2> QED BY <1>1, <2>1
<1>4. CASE EditFile \/ EditConfig \/ RunPendingAction \/ UNCHANGED vars \/ IoFails
  <2>1. job'[Tui].op = job[Tui].op /\ (pc'[Tui] # "idle" => pc[Tui] # "idle")
    BY <1>0, <1>4 DEF EditFile, EditConfig, RunPendingAction, vars, IoFails, saving, Job
  <2>2. UNCHANGED <<awsForm, mode>>
    BY <1>4 DEF EditFile, EditConfig, RunPendingAction, vars, IoFails, Manager
  <2> QED BY <1>1, <2>1, <2>2
<1>5. CASE FinishSave \/ Close
  BY <1>0, <1>5 DEF FinishSave, Close, FromForm
<1>6. CASE Open
  BY <1>6 DEF Open, Show, FromForm, Forms
<1>7. CASE SaveAwsForm
  <2>1. job'[Tui].op = FormOp
    BY <1>0, <1>7, NoJobIs DEF SaveAwsForm, Begin, FormOp, Job
  <2>2. UNCHANGED awsForm
    BY <1>7 DEF SaveAwsForm
  <2> QED BY <2>1, <2>2 DEF FromForm, FormOp
<1>8. CASE ApplyLink \/ ConfirmDeleteAws
  BY <1>8 DEF ApplyLink, ConfirmDeleteAws, At, FromForm, Forms
<1>9. CASE Key /\ ~SaveAwsForm /\ ~ApplyLink /\ ~ConfirmDeleteAws
  <2>1. pc' = pc /\ pc[Tui] = "idle"
    BY <1>9 DEF Key, At, Idle, saving, StartEditAws, StartAddAws, PickType,
       EditAwsField, StartLink, StartDeleteAws, StartAddAwzars, StartEditAwzars,
       EditAwzarsField, SaveAwzarsForm, AnswerPrompt, StartDeleteAwzars,
       ConfirmDeleteAwzars, LeaveForm, AnswerUnsaved, Cancel
  <2> QED BY <2>1 DEF FromForm
<1> QED BY <1>2, <1>3, <1>4, <1>5, <1>6, <1>7, <1>8, <1>9 DEF Next

(* What a save has worked out stays what its op makes of what it read.     *)
LEMMA NextWorked ==
  ASSUME Aws, AllWorked, [Next]_vars
  PROVE  AllWorked'
<1>0. /\ Tui \in Savers /\ Others \subseteq Savers
      /\ pc \in [Savers -> {"idle", "read", "look", "copy", "prune", "replace", "done"}]
      /\ job \in [Savers -> Job]
  BY DEF Savers, Aws
<1> SUFFICES ASSUME NEW t \in Savers PROVE Worked(t)'
  BY DEF AllWorked
<1> DEFINE Later == {"look", "copy", "prune", "replace"}
<1>1. Worked(t)
  BY DEF AllWorked
<1>2. ASSUME pc'[t] \notin Later PROVE Worked(t)'
  BY <1>2 DEF Worked
<1>3. ASSUME pc[t] \in Later,
             job'[t].read = job[t].read, job'[t].op = job[t].op,
             job'[t].doc = job[t].doc, job'[t].overridden = job[t].overridden
      PROVE  Worked(t)'
  BY <1>1, <1>3 DEF Worked
<1>4. ASSUME job'[t] = job[t], pc'[t] = pc[t] PROVE Worked(t)'
  BY <1>1, <1>4 DEF Worked
<1>5. CASE \E s \in Savers : Save(s)
  <2>1. PICK s \in Savers : Save(s)
    BY <1>5
  <2>2. CASE s # t
    <3>1. job'[t] = job[t] /\ pc'[t] = pc[t]
      BY <1>0, <2>1, <2>2 DEF Save, ReadFile, LookForSlot, WriteBackup, Prune, Replace
    <3> QED BY <1>4, <3>1
  <2>3. CASE s = t /\ ReadFile(s)
    <3> DEFINE applied == Apply(Contents(file), job[t].op)
    <3>1. /\ job'[t].read = file /\ job'[t].op = job[t].op /\ job'[t].doc = applied.doc
          /\ job'[t].overridden = applied.overridden
          /\ pc'[t] \in Later => applied.verdict = "ok"
      BY <1>0, <2>3 DEF ReadFile, Job
    <3>2. Apply(Contents(job[t].read), job[t].op)' = applied
      BY <3>1
    <3> HIDE DEF applied
    <3> QED BY <3>1, <3>2 DEF Worked
  <2>4. CASE s = t /\ ~ReadFile(s)
    <3>1. /\ pc[t] \in Later
          /\ job'[t].read = job[t].read /\ job'[t].op = job[t].op
          /\ job'[t].doc = job[t].doc /\ job'[t].overridden = job[t].overridden
      BY <1>0, <2>1, <2>4 DEF Save, LookForSlot, WriteBackup, Prune, Replace, Job
    <3> QED BY <1>3, <3>1
  <2> QED BY <2>2, <2>3, <2>4
<1>6. ASSUME NEW s \in Savers, NEW op, Begin(s, op) PROVE Worked(t)'
  <2>1. CASE s = t
    <3>1. pc'[t] = "read"
      BY <1>0, <1>6, <2>1 DEF Begin
    <3> QED BY <1>2, <3>1
  <2>2. CASE s # t
    BY <1>0, <1>4, <1>6, <2>2 DEF Begin
  <2> QED BY <2>1, <2>2
<1>7. CASE \E s \in Others : OtherBegins(s)
  BY <1>0, <1>6, <1>7 DEF OtherBegins
<1>8. CASE SaveAwsForm \/ ApplyLink \/ ConfirmDeleteAws
  BY <1>0, <1>6, <1>8 DEF SaveAwsForm, ApplyLink, ConfirmDeleteAws
<1>9. CASE FinishSave \/ Close \/ IoFails \/ \E s \in Others : OtherEnds(s)
  <2>1. \/ pc'[t] \in {"idle", "done"}
        \/ job'[t] = job[t] /\ pc'[t] = pc[t]
    BY <1>0, <1>9 DEF FinishSave, Close, IoFails, OtherEnds
  <2> QED BY <1>2, <1>4, <2>1
<1>10. CASE Key /\ ~SaveAwsForm /\ ~ApplyLink /\ ~ConfirmDeleteAws
  <2>1. UNCHANGED saving
    BY <1>10 DEF Key, StartEditAws, StartAddAws, PickType,
       EditAwsField, StartLink, StartDeleteAws, StartAddAwzars, StartEditAwzars,
       EditAwzarsField, SaveAwzarsForm, AnswerPrompt, StartDeleteAwzars,
       ConfirmDeleteAwzars, LeaveForm, AnswerUnsaved, Cancel
  <2> QED BY <1>4, <2>1 DEF saving
<1>11. CASE Open \/ RunPendingAction \/ EditFile \/ EditConfig \/ UNCHANGED vars
  <2>1. UNCHANGED saving
    BY <1>11 DEF Open, RunPendingAction, EditFile, EditConfig, vars, saving
  <2> QED BY <1>4, <2>1 DEF saving
<1> QED BY <1>5, <1>7, <1>8, <1>9, <1>10, <1>11 DEF Next


(* Only the last step of a save replaces the file and is done.             *)
LEMMA WritesIs ==
  ASSUME Aws, [Next]_vars, NEW s \in Savers,
         pc[s] # "done", pc'[s] = "done", file' # file
  PROVE  Replace(s)
<1>0. /\ Tui \in Savers /\ Others \subseteq Savers
      /\ pc \in [Savers -> {"idle", "read", "look", "copy", "prune", "replace", "done"}]
  BY DEF Savers, Aws
<1>1. CASE \E t \in Savers : Save(t)
  <2>1. PICK t \in Savers : Save(t)
    BY <1>1
  <2>2. Replace(t)
    BY <2>1 DEF Save, ReadFile, LookForSlot, WriteBackup, Prune, awsDisk
  <2>3. t = s
    BY <1>0, <2>2 DEF Replace
  <2> QED BY <2>2, <2>3
<1>2. CASE EditFile
  BY <1>2 DEF EditFile, saving
<1>3. CASE Key
  BY <1>3 DEF Key, StartEditAws, StartAddAws, PickType, EditAwsField, SaveAwsForm,
     StartLink, ApplyLink, StartDeleteAws, ConfirmDeleteAws, StartAddAwzars,
     StartEditAwzars, EditAwzarsField, SaveAwzarsForm, AnswerPrompt,
     StartDeleteAwzars, ConfirmDeleteAwzars, LeaveForm, AnswerUnsaved, Cancel, awsDisk
<1>4. CASE \/ FinishSave \/ RunPendingAction \/ Close \/ Open \/ IoFails \/ EditConfig
           \/ UNCHANGED vars
  BY <1>4 DEF FinishSave, RunPendingAction, Close, Open, IoFails, EditConfig, vars, awsDisk
<1>5. CASE \E t \in Others : OtherBegins(t) \/ OtherEnds(t)
  BY <1>5 DEF OtherBegins, OtherEnds, awsDisk
<1> QED BY <1>1, <1>2, <1>3, <1>4, <1>5 DEF Next

(* It replaces the file it read, if that is still there, by what its op    *)
(* makes of it.                                                            *)
LEMMA WrittenIs ==
  ASSUME Aws, AllWorked, [Next]_vars, NEW s \in Savers, Writes(s)
  PROVE  LET op == job[s].op
             doc == Contents(file)
             i == Position(doc, op.before.name)
         IN  /\ doc \in Document /\ pc[s] # "idle"
             /\ op.before \in EntryOrNone /\ op.after \in EntryOrNone
             /\ op.before # NoEntry => file = doc
             /\ \/ op.before = NoEntry /\ op.after \in Entry /\ file' = Append(doc, op.after)
                \/ /\ op.before \in Entry /\ op.after = NoEntry /\ i \in 1..Len(doc)
                   /\ file' = RemoveAt(doc, i)
                \/ /\ op.before \in Entry /\ op.after \in Entry /\ i \in 1..Len(doc)
                   /\ file' = [doc EXCEPT ![i] = [name |-> op.after.name,
                                                  props |-> Merged(doc[i].props, op)]]
                   /\ job[s].overridden = Overridden(doc[i].props, op)
<1> DEFINE op == job[s].op
           doc == Contents(file)
           i == Position(doc, op.before.name)
           a == Apply(doc, op)
<1>1. Replace(s) /\ file = job[s].read
  BY WritesIs DEF Writes
<1>2. pc[s] = "replace" /\ file' = job[s].doc
  BY <1>1 DEF Replace
<1>3. a.verdict = "ok" /\ job[s].doc = a.doc /\ job[s].overridden = a.overridden
  BY <1>1, <1>2 DEF AllWorked, Worked
<1>4. doc \in Document
  BY ProfilesType DEF Aws
<1>5. op.before \in EntryOrNone /\ op.after \in EntryOrNone /\ ValidOp(op)
  BY <1>2 DEF Aws, Job
<1>6. i \in 1..Len(doc) => file = doc
  <2>1. CASE file = NoFile
    <3>1. Len(doc) = 0
      BY <2>1 DEF Contents
    <3> HIDE DEF doc, i
    <3> QED BY <3>1
  <2>2. CASE file # NoFile
    BY <2>2 DEF Contents
  <2> QED BY <2>1, <2>2
<1> HIDE DEF op, doc
<1>7. \/ op.before = NoEntry /\ op.after \in Entry /\ a.doc = Append(doc, op.after)
      \/ /\ op.before \in Entry /\ op.after = NoEntry /\ i \in 1..Len(doc)
         /\ a.doc = RemoveAt(doc, i)
      \/ /\ op.before \in Entry /\ op.after \in Entry /\ i \in 1..Len(doc)
         /\ a.doc = [doc EXCEPT ![i] = [name |-> op.after.name,
                                        props |-> Merged(doc[i].props, op)]]
         /\ a.overridden = Overridden(doc[i].props, op)
  BY <1>3, <1>4, <1>5, ApplyIs
<1> HIDE DEF i, a
<1>8. op.before # NoEntry => file = doc
  BY <1>6, <1>7
<1>9. \/ op.before = NoEntry /\ op.after \in Entry /\ file' = Append(doc, op.after)
      \/ /\ op.before \in Entry /\ op.after = NoEntry /\ i \in 1..Len(doc)
         /\ file' = RemoveAt(doc, i)
      \/ /\ op.before \in Entry /\ op.after \in Entry /\ i \in 1..Len(doc)
         /\ file' = [doc EXCEPT ![i] = [name |-> op.after.name,
                                        props |-> Merged(doc[i].props, op)]]
         /\ job[s].overridden = Overridden(doc[i].props, op)
  BY <1>2, <1>3, <1>7
<1>10. pc[s] # "idle"
  BY <1>2
<1> QED BY <1>4, <1>5, <1>8, <1>9, <1>10 DEF op, doc, i

(* What the op of a save changes is what the user asked for.               *)
LEMMA ChangesAreAsked ==
  ASSUME Aws, FromForm, NEW s \in Savers, pc[s] # "idle",
         job[s].op.before \in Entry, job[s].op.after \in Entry
  PROVE  Changes(job[s].op.before, job[s].op.after) \subseteq Asked(s)
<1>1. CASE s # Tui \/ mode \notin Forms
  BY <1>1 DEF Asked, Forms
<1>2. CASE s = Tui /\ mode \in Forms
  <2> DEFINE f == awsForm
             empty == {t \in FormSetting : f.original # NoEntry
                                           /\ f.original.props[t] = Blank}
  <2>1. job[s].op.before = f.original /\ job[s].op.after = ToEntry(f)
    BY <1>2 DEF FromForm, FormOp
  <2>2. Asked(s) = EditedSettings(f) \cup empty
           \cup (IF f.fields["source_profile"] = Blank THEN {} ELSE {"credential_process"})
    BY <1>2 DEF Asked, Forms
  <2>3. f \in AwsProfileForm /\ f.original # NoEntry
    BY <2>1 DEF Aws
  <2>4. f.name # Blank
    <3>1. ToEntry(f).name = f.name
      BY DEF ToEntry
    <3> QED BY <2>1, <3>1 DEF Entry
  <2> HIDE DEF f
  <2>5. \A t \in Changes(f.original, ToEntry(f)) :
          /\ t \in FormSetting
          /\ \/ t \in EditedSettings(f)
             \/ f.original.props[t] = Blank
             \/ t = "credential_process" /\ f.fields["source_profile"] # Blank
    BY <2>3, <2>4, ToEntryIs
  <2> QED BY <2>1, <2>2, <2>3, <2>5
<1> QED BY <1>1, <1>2

(* A save works on what its user asked for, in every behaviour.            *)
THEOREM SavesAsAsked == Spec => [](FromForm /\ AllWorked)
<1>1. Init => FromForm /\ AllWorked
  BY DEF Init, FromForm, AllWorked, Worked, Savers
<1>2. Aws /\ FromForm /\ AllWorked /\ [Next]_vars => (FromForm /\ AllWorked)'
  BY NextFromForm, NextWorked
<1> QED BY <1>1, <1>2, TypeCorrect, PTL DEF Spec

(* "preserving other sections": a save changes the file only where its     *)
(* user asked, however old the list and the form it was made from.         *)
THEOREM ForeignEditsKept == Spec => KeepsForeignEdits
<1> DEFINE Kept(s) ==
      LET i == Target(s)
          j == IF job[s].op.after = NoEntry THEN 0
               ELSE IF i = 0 THEN Len(file') ELSE i
      IN  /\ Without(Contents(file), i) = Without(file', j)
          /\ i # 0 /\ j # 0 =>
               \A t \in Setting \ Asked(s) :
                 file'[j].props[t] = file[i].props[t]
<1>1. ASSUME Aws, FromForm, AllWorked, [Next]_vars, NEW s \in Savers, Writes(s)
      PROVE  Kept(s)
  <2> DEFINE op == job[s].op
             doc == Contents(file)
             p == Position(doc, op.before.name)
             merged == [name |-> op.after.name, props |-> Merged(doc[p].props, op)]
  <2>1. /\ doc \in Document /\ pc[s] # "idle"
        /\ op.before # NoEntry => file = doc
        /\ \/ op.before = NoEntry /\ op.after \in Entry /\ file' = Append(doc, op.after)
           \/ /\ op.before \in Entry /\ op.after = NoEntry /\ p \in 1..Len(doc)
              /\ file' = RemoveAt(doc, p)
           \/ /\ op.before \in Entry /\ op.after \in Entry /\ p \in 1..Len(doc)
              /\ file' = [doc EXCEPT ![p] = merged]
    BY <1>1, WrittenIs
  <2>2. Target(s) = IF op.before = NoEntry THEN 0 ELSE p
    BY <2>1 DEF Target
  <2>3. CASE op.before = NoEntry /\ op.after \in Entry /\ file' = Append(doc, op.after)
    <3>1. Target(s) = 0 /\ op.after # NoEntry
      BY <2>2, <2>3
    <3>2. op.after \in Section
      BY <2>3 DEF Entry, Section
    <3> HIDE DEF doc, op
    <3>3. RemoveAt(file', Len(file')) = doc /\ Len(file') # 0
      <4>1. Len(file') = Len(doc) + 1 /\ Len(doc) \in Nat
        BY <2>1, <2>3, <3>2, AppendProperties DEF Document
      <4> QED BY <2>1, <2>3, <3>2, <4>1, AppendedIs
    <3> QED BY <3>1, <3>3 DEF Without, op, doc
  <2>4. CASE /\ op.before \in Entry /\ op.after = NoEntry /\ p \in 1..Len(doc)
             /\ file' = RemoveAt(doc, p)
    <3>1. Target(s) = p /\ p # 0
      BY <2>2, <2>4
    <3> HIDE DEF p
    <3> QED BY <2>4, <3>1 DEF Without
  <2>5. CASE /\ op.before \in Entry /\ op.after \in Entry /\ p \in 1..Len(doc)
             /\ file' = [doc EXCEPT ![p] = merged]
    <3>1. Target(s) = p /\ p # 0 /\ op.after # NoEntry /\ file = doc
      BY <2>1, <2>2, <2>5
    <3>2. doc[p] \in Section
      BY <2>1, <2>5, ElementOfSeq DEF Document
    <3>3. merged \in Section
      <4>1. Merged(doc[p].props, op) \in Props
        BY <2>5, <3>2, MergedType DEF Section
      <4> QED BY <2>5, <4>1 DEF Entry, Section
    <3>4. Changes(op.before, op.after) \subseteq Asked(s)
      BY <1>1, <2>1, <2>5, ChangesAreAsked
    <3>5. ASSUME NEW t \in Setting \ Asked(s)
          PROVE  merged.props[t] = doc[p].props[t]
      BY <3>4 DEF Merged
    <3> HIDE DEF merged, p, doc, op
    <3>6. RemoveAt(file', p) = RemoveAt(doc, p)
      BY <2>1, <2>5, <3>3, ReplacedIs
    <3>7. file'[p] = merged
      BY <2>1, <2>5 DEF Document
    <3> QED BY <3>1, <3>5, <3>6, <3>7 DEF Without, op, doc
  <2> QED BY <2>1, <2>3, <2>4, <2>5
<1>2. Aws /\ FromForm /\ AllWorked /\ [Next]_vars
        => [\A s \in Savers : Writes(s) => Kept(s)]_vars
  BY <1>1
<1> QED BY <1>2, TypeCorrect, SavesAsAsked, PTL DEF Spec, KeepsForeignEdits

(* A save that says it succeeded names every setting that it overrode      *)
(* although others had changed it since the user saw the profile.          *)
THEOREM OverridesNamed == Spec => OverridesAreNamed
<1>1. ASSUME Aws, AllWorked, [Next]_vars, NEW s \in Savers, Edited(s),
             job'[s].verdict = "ok"
      PROVE  Overrides(s) \subseteq Named(job'[s])
  <2> DEFINE op == job[s].op
             doc == Contents(file)
             p == Position(doc, op.before.name)
             merged == [name |-> op.after.name, props |-> Merged(doc[p].props, op)]
  <2>0. Writes(s) /\ op.after # NoEntry /\ Target(s) # 0
    BY <1>1 DEF Edited
  <2>1. op.before # NoEntry
    BY <2>0 DEF Target
  <2>2. /\ doc \in Document /\ file = doc /\ p \in 1..Len(doc)
        /\ file' = [doc EXCEPT ![p] = merged]
        /\ job[s].overridden = Overridden(doc[p].props, op)
    BY <1>1, <2>0, <2>1, WrittenIs
  <2>3. Target(s) = p
    BY <2>1, <2>2 DEF Target
  <2>4. ASSUME NEW t \in Setting \ job[s].overridden
        PROVE  doc[p].props[t] \in {op.before.props[t], merged.props[t]}
    BY <2>2 DEF Overridden, Merged
  <2>5. Named(job'[s]) = job[s].overridden
    <3>1. Replace(s)
      BY <1>1, <2>0, WritesIs DEF Writes
    <3>2. job'[s].overridden = job[s].overridden
      BY <3>1 DEF Replace, Aws, Job
    <3> QED BY <1>1, <3>2 DEF Named
  <2> HIDE DEF merged, p, doc, op
  <2>6. file'[p] = merged
    BY <2>2 DEF Document
  <2> QED BY <2>2, <2>3, <2>4, <2>5, <2>6 DEF Overrides, op
<1>2. Aws /\ AllWorked /\ [Next]_vars
        => [\A s \in Savers : Edited(s) /\ job'[s].verdict = "ok" =>
              Overrides(s) \subseteq Named(job'[s])]_vars
  BY <1>1
<1> QED BY <1>2, TypeCorrect, SavesAsAsked, PTL DEF Spec, OverridesAreNamed

----------------------------------------------------------------------------
(* The copies.                                                             *)

Backup == [slot: Slot, doc: Document]

(* Names are ordered.                                                      *)
LEMMA EarlierIs ==
  ASSUME NEW a \in Slot, NEW b \in Slot, NEW c \in Slot
  PROVE  ~Earlier(a, a) /\ (Earlier(a, b) /\ Earlier(b, c) => Earlier(a, c))
BY DEF Earlier, Slot

(* The copies newer than a name.                                           *)
LEMMA NewerIs ==
  ASSUME NEW bs, IsFiniteSet(bs), NEW x
  PROVE  /\ Newer(bs, x) \subseteq bs /\ IsFiniteSet(Newer(bs, x))
         /\ Cardinality(Newer(bs, x)) \in Nat
<1>1. Newer(bs, x) \in SUBSET bs
  BY DEF Newer
<1>2. IsFiniteSet(Newer(bs, x))
  BY <1>1, FS_Subset
<1> QED BY <1>1, <1>2, FS_CardinalityType

(* Making a copy takes no place from those it finds.                       *)
LEMMA SavedKeeps ==
  ASSUME NEW bs, IsFiniteSet(bs), bs \subseteq Backup,
         \A b, c \in bs : b.slot = c.slot => b = c,
         NEW slot \in Slot, NEW doc \in Document, NEW x
  PROVE  Cardinality(Newer(bs, x)) <= Cardinality(Newer(Saved(bs, slot, doc), x))
<1> DEFINE new == [slot |-> slot, doc |-> doc]
           S == Newer(bs, x)
           T == Newer(Saved(bs, slot, doc), x)
           f == [b \in S |-> IF b.slot = slot THEN new ELSE b]
<1>1. IsFiniteSet(T)
  BY SavedType, NewerIs DEF Backup
<1>2. \A b \in S : f[b] \in T
  BY DEF Newer, Saved
<1>3. \A b, c \in S : f[b] = f[c] => b = c
  <2> SUFFICES ASSUME NEW b \in S, NEW c \in S, f[b] = f[c] PROVE b = c
    OBVIOUS
  <2>1. f[b].slot = b.slot /\ f[c].slot = c.slot
    OBVIOUS
  <2>2. b \in bs /\ c \in bs
    BY DEF Newer
  <2> QED BY <2>1, <2>2
<1> HIDE DEF S, T
<1>4. f \in Injection(S, T)
  BY <1>2, <1>3 DEF Injection, IsInjective
<1> HIDE DEF f
<1>5. Cardinality(S) <= Cardinality(T)
  BY <1>1, <1>4, FS_Injection
<1> QED BY <1>5 DEF S, T

(* Removing what has BackupCount newer copies leaves as many: the newest   *)
(* of what is removed still has them.                                      *)
LEMMA PrunedKeeps ==
  ASSUME NEW bs, IsFiniteSet(bs), bs \subseteq Backup,
         NEW removed \in SUBSET Excess(bs), NEW x \in Slot,
         Cardinality(Newer(bs, x)) >= BackupCount
  PROVE  Cardinality(Newer(bs \ removed, x)) >= BackupCount
<1> DEFINE Count(y) == Cardinality(Newer(bs, y))
           crowd == Newer(bs, x) \cap Excess(bs)
<1>0. IsFiniteSet(bs \ removed) /\ BackupCount \in Nat
  BY FS_Difference
<1>1. CASE crowd = {}
  <2>1. Newer(bs \ removed, x) = Newer(bs, x)
    BY <1>1 DEF Newer
  <2> QED BY <2>1
<1>2. CASE crowd # {}
  <2> DEFINE counts == {Count(b.slot) : b \in crowd}
  <2>1. counts \in SUBSET Nat /\ counts # {}
    BY <1>2, NewerIs
  <2>2. PICK least \in counts : \A n \in counts : least <= n
    <3> HIDE DEF counts
    <3> QED BY <2>1, NatMin
  <2>3. PICK b \in crowd : \A c \in crowd : Count(b.slot) <= Count(c.slot)
    BY <2>2
  <2>4. /\ b \in bs /\ b.slot \in Slot /\ Earlier(x, b.slot)
        /\ Count(b.slot) >= BackupCount
    BY <2>3 DEF Newer, Excess, Backup
  <2>5. ASSUME NEW c \in Newer(bs, b.slot)
        PROVE  c \in Newer(bs \ removed, x)
    <3>1. c \in bs /\ c.slot \in Slot /\ Earlier(b.slot, c.slot)
      BY DEF Newer, Backup
    <3>2. c \in Newer(bs, x)
      BY <2>4, <3>1, EarlierIs DEF Newer
    <3>3. Newer(bs, c.slot) \in SUBSET Newer(bs, b.slot)
      BY <2>4, <3>1, EarlierIs DEF Newer, Backup
    <3>4. c \notin Newer(bs, c.slot)
      BY <3>1, EarlierIs DEF Newer
    <3>5. IsFiniteSet(Newer(bs, b.slot)) /\ Count(b.slot) \in Nat /\ Count(c.slot) \in Nat
      BY NewerIs
    <3>6. Count(c.slot) <= Count(b.slot) /\ Count(c.slot) # Count(b.slot)
      BY <3>3, <3>4, <3>5, FS_Subset
    <3>7. c \notin crowd
      BY <2>3, <3>5, <3>6
    <3>8. c \notin Excess(bs)
      BY <3>2, <3>7
    <3> QED BY <3>1, <3>2, <3>8 DEF Newer
  <2>6. Newer(bs, b.slot) \in SUBSET Newer(bs \ removed, x)
    BY <2>5
  <2>7. IsFiniteSet(Newer(bs \ removed, x)) /\ Cardinality(Newer(bs \ removed, x)) \in Nat
    BY <1>0, NewerIs
  <2>8. Count(b.slot) <= Cardinality(Newer(bs \ removed, x))
    BY <2>6, <2>7, FS_Subset
  <2>9. Count(b.slot) \in Nat
    BY NewerIs
  <2> QED BY <1>0, <2>4, <2>7, <2>8, <2>9
<1> QED BY <1>1, <1>2

(* A copy stays, or is displaced by newer ones.                            *)
LEMMA CopiedStays ==
  ASSUME Aws, NEW s \in Savers, Copied(s), job'[s].slot = job[s].slot,
         job'[s].read = job[s].read, contested \subseteq contested',
         backups' = backups \/ \E removed \in SUBSET Excess(backups) :
                                 backups' = backups \ removed
  PROVE  Copied(s)'
<1>1. CASE backups' = backups
  BY <1>1 DEF Copied
<1>2. ASSUME NEW removed \in SUBSET Excess(backups), backups' = backups \ removed
      PROVE  Copied(s)'
  <2>1. job[s].slot \in Slot
    BY DEF Aws, Job
  <2>2. Cardinality(Newer(backups, job[s].slot)) >= BackupCount
          => Cardinality(Newer(backups \ removed, job[s].slot)) >= BackupCount
    BY <2>1, PrunedKeeps DEF Aws, Backup
  <2>3. ASSUME NEW b \in backups, b.slot = job[s].slot, b.doc = job[s].read
        PROVE  Copied(s)'
    <3>1. CASE b \in removed
      <4>1. Cardinality(Newer(backups, job[s].slot)) >= BackupCount
        BY <2>3, <3>1 DEF Excess
      <4> QED BY <1>2, <2>2, <4>1 DEF Copied
    <3>2. CASE b \notin removed
      BY <1>2, <2>3, <3>2 DEF Copied
    <3> QED BY <3>1, <3>2
  <2> QED BY <1>2, <2>2, <2>3 DEF Copied
<1> QED BY <1>1, <1>2

(* A saver that does nothing while the copies stay.                        *)
LEMMA CopiesStay ==
  ASSUME Aws, Copies, UNCHANGED <<backups, contested>>,
         \A t \in Savers :
            \/ pc'[t] \notin {"copy", "prune", "replace"}
            \/ pc'[t] = pc[t] /\ job'[t] = job[t]
            \/ pc'[t] = "replace" /\ job'[t].read \in {NoFile, job'[t].doc}
  PROVE  Copies'
<1>1. ASSUME NEW t \in Savers PROVE SlotIsFree(t)'
  BY DEF Copies, SlotIsFree
<1>2. ASSUME NEW t \in Savers PROVE CopyMade(t)'
  <2>1. CASE pc'[t] = pc[t] /\ job'[t] = job[t]
    BY <2>1, CopiedStays DEF Copies, CopyMade
  <2>2. CASE pc'[t] \notin {"copy", "prune", "replace"}
    BY <2>2 DEF CopyMade
  <2>3. CASE pc'[t] = "replace" /\ job'[t].read \in {NoFile, job'[t].doc}
    BY <2>3 DEF CopyMade
  <2> QED BY <2>1, <2>2, <2>3
<1> QED BY <1>1, <1>2 DEF Copies

(* A name is chosen: it is free, or contested.                             *)
LEMMA LookKeepsCopies ==
  ASSUME Aws, Copies, NEW s \in Savers, LookForSlot(s)
  PROVE  Copies'
<1> DEFINE slot == FreeSlot(backups, now')
           others == {t \in Savers \ {s} : pc[t] = "copy" /\ job[t].slot = slot}
<1>1. slot \in Slot /\ \A b \in backups : b.slot # slot
  <2>1. now' \in Nat
    BY DEF LookForSlot, Aws
  <2> QED BY <2>1, FreeSlotIs DEF Aws
<1>2. /\ pc[s] = "look" /\ pc' = [pc EXCEPT ![s] = "copy"]
      /\ job' = [job EXCEPT ![s].slot = slot]
      /\ contested' = IF others = {} THEN contested ELSE contested \cup {slot}
      /\ backups' = backups
  BY DEF LookForSlot
<1>3. /\ pc'[s] = "copy" /\ job'[s].slot = slot
      /\ \A t \in Savers \ {s} : pc'[t] = pc[t] /\ job'[t] = job[t]
  BY <1>2 DEF Aws, Job
<1>4. slot \notin contested' => \A t \in Savers \ {s} : pc[t] = "copy" => job[t].slot # slot
  BY <1>2
<1>5. contested \subseteq contested'
  BY <1>2
<1> HIDE DEF slot, others
<1>6. ASSUME NEW t \in Savers PROVE SlotIsFree(t)'
  <2>1. CASE t = s
    BY <1>1, <1>2, <1>3, <1>4, <2>1 DEF SlotIsFree
  <2>2. CASE t # s
    BY <1>2, <1>3, <1>4, <1>5, <2>2 DEF SlotIsFree, Copies
  <2> QED BY <2>1, <2>2
<1>7. ASSUME NEW t \in Savers PROVE CopyMade(t)'
  <2>1. CASE t = s
    BY <1>3, <2>1 DEF CopyMade
  <2>2. CASE t # s
    BY <1>2, <1>3, <1>5, <2>2, CopiedStays DEF CopyMade, Copies
  <2> QED BY <2>1, <2>2
<1> QED BY <1>2, <1>6, <1>7 DEF Copies

(* A copy is made.                                                         *)
LEMMA WriteKeepsCopies ==
  ASSUME Aws, Copies, NEW s \in Savers, WriteBackup(s)
  PROVE  Copies'
<1> DEFINE slot == job[s].slot
           made == [slot |-> slot, doc |-> job[s].read]
<1>1. /\ pc[s] = "copy" /\ pc' = [pc EXCEPT ![s] = "prune"]
      /\ UNCHANGED <<job, contested>>
      /\ backups' = Saved(backups, slot, job[s].read)
  BY DEF WriteBackup
<1>2. slot \in Slot /\ job[s].read \in Document
  BY <1>1 DEF Aws, Job
<1>3. /\ pc'[s] = "prune"
      /\ \A t \in Savers \ {s} : pc'[t] = pc[t]
  BY <1>1 DEF Aws
<1>4. backups' = {b \in backups : b.slot # slot} \cup {made}
  BY <1>1 DEF Saved
<1>5. made.slot = slot /\ made.doc = job[s].read
  OBVIOUS
<1> HIDE DEF made
<1>6. slot \notin contested =>
        /\ \A b \in backups : b.slot # slot
        /\ \A t \in Savers \ {s} : pc[t] = "copy" => job[t].slot # slot
  BY <1>1 DEF Copies, SlotIsFree
<1>7. ASSUME NEW t \in Savers PROVE SlotIsFree(t)'
  <2>1. CASE t = s
    BY <1>3, <2>1 DEF SlotIsFree
  <2>2. CASE t # s
    <3> SUFFICES ASSUME pc[t] = "copy", job[t].slot \notin contested
                 PROVE  /\ \A b \in backups' : b.slot # job[t].slot
                        /\ \A u \in Savers \ {t} :
                             pc'[u] = "copy" => job[u].slot # job[t].slot
      BY <1>1, <1>3, <2>2 DEF SlotIsFree
    <3>1. /\ \A b \in backups : b.slot # job[t].slot
          /\ \A u \in Savers \ {t} : pc[u] = "copy" => job[u].slot # job[t].slot
      BY DEF Copies, SlotIsFree
    <3>2. slot # job[t].slot
      BY <1>1, <2>2, <3>1
    <3> HIDE DEF slot
    <3> QED BY <1>3, <1>4, <1>5, <3>1, <3>2
  <2> QED BY <2>1, <2>2
<1>8. ASSUME NEW t \in Savers PROVE CopyMade(t)'
  <2>1. CASE t = s
    <3>1. Copied(s)'
      BY <1>1, <1>4, <1>5 DEF Copied
    <3> QED BY <2>1, <3>1 DEF CopyMade
  <2>2. CASE t # s
    <3>1. ASSUME Copied(t) PROVE Copied(t)'
      <4>1. Cardinality(Newer(backups, job[t].slot))
              <= Cardinality(Newer(backups', job[t].slot))
        BY <1>1, <1>2, SavedKeeps DEF Aws, Copies, Backup
      <4>2. /\ Cardinality(Newer(backups, job[t].slot)) \in Nat
            /\ Cardinality(Newer(backups', job[t].slot)) \in Nat
        <5>1. IsFiniteSet(backups) /\ IsFiniteSet(backups')
          BY <1>1, <1>2, SavedType DEF Aws
        <5> QED BY <5>1, NewerIs
      <4>3. ASSUME NEW b \in backups, b.slot = job[t].slot, b.doc = job[t].read
            PROVE  Copied(t)'
        <5>1. CASE b.slot = slot
          BY <1>1, <1>6, <4>3, <5>1 DEF Copied
        <5>2. CASE b.slot # slot
          BY <1>1, <1>4, <4>3, <5>2 DEF Copied
        <5> QED BY <5>1, <5>2
      <4> QED BY <1>1, <3>1, <4>1, <4>2, <4>3 DEF Copied
    <3> QED BY <1>1, <1>3, <2>2, <3>1 DEF CopyMade, Copies
  <2> QED BY <2>1, <2>2
<1>9. \A b, c \in backups' : b.slot = c.slot => b = c
  BY <1>4, <1>5 DEF Copies
<1> QED BY <1>7, <1>8, <1>9 DEF Copies

(* Copies are removed.                                                     *)
LEMMA PruneKeepsCopies ==
  ASSUME Aws, Copies, NEW s \in Savers, Prune(s)
  PROVE  Copies'
<1>1. PICK removed \in SUBSET Excess(backups) : backups' = backups \ removed
  BY DEF Prune
<1>2. /\ pc[s] = "prune" /\ pc'[s] = "replace" /\ UNCHANGED <<job, contested>>
      /\ \A t \in Savers \ {s} : pc'[t] = pc[t]
  BY DEF Prune, Aws
<1>3. ASSUME NEW t \in Savers PROVE SlotIsFree(t)'
  BY <1>1, <1>2 DEF SlotIsFree, Copies
<1>4. ASSUME NEW t \in Savers PROVE CopyMade(t)'
  <2>1. Copied(t) => Copied(t)'
    BY <1>1, <1>2, CopiedStays
  <2>2. CopyMade(t) /\ (t = s => Copied(t))
    BY <1>2 DEF Copies, CopyMade
  <2> QED BY <1>2, <2>1, <2>2 DEF CopyMade
<1> QED BY <1>1, <1>3, <1>4 DEF Copies

(* Every step keeps what is known of the copies.                           *)
LEMMA NextCopies ==
  ASSUME Aws, Copies, [Next]_vars
  PROVE  Copies'
<1>0. /\ Tui \in Savers /\ Others \subseteq Savers
      /\ pc \in [Savers -> {"idle", "read", "look", "copy", "prune", "replace", "done"}]
      /\ job \in [Savers -> Job]
  BY DEF Savers, Aws
<1>1. CASE \E s \in Savers : Save(s)
  <2>1. PICK s \in Savers : Save(s)
    BY <1>1
  <2>2. CASE LookForSlot(s) \/ WriteBackup(s) \/ Prune(s)
    BY <2>2, LookKeepsCopies, WriteKeepsCopies, PruneKeepsCopies
  <2>3. CASE ReadFile(s)
    <3> DEFINE applied == Apply(Contents(file), job[s].op)
    <3>1. UNCHANGED <<backups, contested>>
      BY <2>3 DEF ReadFile, awsDisk
    <3>2. /\ job'[s].read = file /\ job'[s].doc = applied.doc
          /\ pc'[s] \in {"done", "look", "replace"}
          /\ pc'[s] = "replace" => file = NoFile \/ applied.doc = file
          /\ \A t \in Savers \ {s} : pc'[t] = pc[t] /\ job'[t] = job[t]
      BY <1>0, <2>3 DEF ReadFile, Job
    <3> HIDE DEF applied
    <3> QED BY <3>1, <3>2, CopiesStay
  <2>4. CASE Replace(s)
    <3>1. UNCHANGED <<backups, contested>> /\ pc'[s] = "done"
          /\ \A t \in Savers \ {s} : pc'[t] = pc[t] /\ job'[t] = job[t]
      BY <1>0, <2>4 DEF Replace
    <3> QED BY <3>1, CopiesStay
  <2> QED BY <2>1, <2>2, <2>3, <2>4 DEF Save
<1>2. CASE SaveAwsForm \/ ApplyLink \/ ConfirmDeleteAws \/ \E s \in Others : OtherBegins(s)
  <2>1. UNCHANGED <<backups, contested>>
    BY <1>2 DEF SaveAwsForm, ApplyLink, ConfirmDeleteAws, OtherBegins, awsDisk
  <2>2. \E s \in Savers : \E op : Begin(s, op)
    BY <1>0, <1>2 DEF SaveAwsForm, ApplyLink, ConfirmDeleteAws, OtherBegins
  <2>3. \A t \in Savers : pc'[t] = "read" \/ (pc'[t] = pc[t] /\ job'[t] = job[t])
    BY <1>0, <2>2 DEF Begin
  <2> QED BY <2>1, <2>3, CopiesStay
<1>3. CASE FinishSave \/ Close \/ IoFails \/ \E s \in Others : OtherEnds(s)
  <2>1. UNCHANGED <<backups, contested>>
    BY <1>3 DEF FinishSave, Close, IoFails, OtherEnds, awsDisk
  <2>2. \A t \in Savers : pc'[t] \in {"idle", "done"} \/ (pc'[t] = pc[t] /\ job'[t] = job[t])
    BY <1>0, <1>3 DEF FinishSave, Close, IoFails, OtherEnds
  <2> QED BY <2>1, <2>2, CopiesStay
<1>4. CASE Key /\ ~SaveAwsForm /\ ~ApplyLink /\ ~ConfirmDeleteAws
  <2>1. UNCHANGED <<backups, contested, pc, job>>
    BY <1>4 DEF Key, StartEditAws, StartAddAws, PickType, saving, awsDisk,
       EditAwsField, StartLink, StartDeleteAws, StartAddAwzars, StartEditAwzars,
       EditAwzarsField, SaveAwzarsForm, AnswerPrompt, StartDeleteAwzars,
       ConfirmDeleteAwzars, LeaveForm, AnswerUnsaved, Cancel
  <2> QED BY <2>1, CopiesStay
<1>5. CASE Open \/ RunPendingAction \/ EditFile \/ EditConfig \/ UNCHANGED vars
  <2>1. UNCHANGED <<backups, contested, pc, job>>
    BY <1>5 DEF Open, RunPendingAction, EditFile, EditConfig, vars, saving, awsDisk
  <2> QED BY <2>1, CopiesStay
<1> QED BY <1>1, <1>2, <1>3, <1>4, <1>5 DEF Next

(* Copies have names of their own, and a save that has made one finds it   *)
(* or newer ones, in every behaviour.                                      *)
THEOREM CopiesThere == Spec => []Copies
<1>1. Init => Copies
  BY DEF Init, Copies, SlotIsFree, CopyMade, Savers
<1>2. Aws /\ Copies /\ [Next]_vars => Copies'
  BY NextCopies
<1> QED BY <1>1, <1>2, TypeCorrect, PTL DEF Spec

(* What a save replaces is there in a copy, unless newer copies or another *)
(* manager displaced that, or another program wrote to the file since the  *)
(* save read it.                                                           *)
THEOREM ReplacedIsCopied == Spec => BackedUp
<1> DEFINE CopyIsThere(s) ==
      \/ \E b \in backups : b.slot = job[s].slot /\ b.doc = file
      \/ Cardinality(Newer(backups, job[s].slot)) >= BackupCount
      \/ job[s].slot \in contested
<1>1. ASSUME Aws, Copies, [Next]_vars, NEW s \in Savers, Replaces(s), Writes(s)
      PROVE  CopyIsThere(s)
  <2>1. Replace(s) /\ file' # file /\ file # NoFile /\ file = job[s].read
    BY <1>1, WritesIs DEF Replaces, Writes
  <2>2. pc[s] = "replace" /\ job[s].read \notin {NoFile, job[s].doc}
    BY <2>1 DEF Replace
  <2>3. Copied(s)
    BY <1>1, <2>2 DEF Copies, CopyMade
  <2> QED BY <2>1, <2>3 DEF Copied
<1> HIDE DEF CopyIsThere
<1>2. Aws /\ Copies /\ [Next]_vars
        => [\A s \in Savers : Replaces(s) /\ Writes(s) => CopyIsThere(s)]_vars
  BY <1>1
<1> QED BY <1>2, TypeCorrect, CopiesThere, PTL DEF Spec, BackedUp, CopyIsThere

(* A copy is lost only to newer ones, or to a contest for its name.        *)
THEOREM CopiesKept == Spec => CopiesSurvive
<1>1. ASSUME Aws, Copies, [Next]_vars, NEW b \in backups \ backups'
      PROVE  Cardinality(Newer(backups', b.slot)) >= BackupCount \/ b.slot \in contested
  <2>1. PICK s \in Savers : WriteBackup(s) \/ Prune(s)
    <3>1. CASE \E s \in Savers : Save(s)
      BY <1>1, <3>1 DEF Save, ReadFile, LookForSlot, Replace, awsDisk
    <3>2. CASE Key
      BY <1>1, <3>2 DEF Key, StartEditAws, StartAddAws, PickType, EditAwsField,
         SaveAwsForm, StartLink, ApplyLink, StartDeleteAws, ConfirmDeleteAws,
         StartAddAwzars, StartEditAwzars, EditAwzarsField, SaveAwzarsForm,
         AnswerPrompt, StartDeleteAwzars, ConfirmDeleteAwzars, LeaveForm,
         AnswerUnsaved, Cancel, awsDisk
    <3>3. CASE \/ FinishSave \/ RunPendingAction \/ Close \/ Open \/ IoFails
               \/ EditFile \/ EditConfig \/ UNCHANGED vars
      BY <1>1, <3>3 DEF FinishSave, RunPendingAction, Close, Open, IoFails,
         EditFile, EditConfig, vars, awsDisk
    <3>4. CASE \E s \in Others : OtherBegins(s) \/ OtherEnds(s)
      BY <1>1, <3>4 DEF OtherBegins, OtherEnds, awsDisk
    <3> QED BY <1>1, <3>1, <3>2, <3>3, <3>4 DEF Next
  <2>2. CASE WriteBackup(s)
    <3>1. b.slot = job[s].slot /\ pc[s] = "copy"
      BY <1>1, <2>2 DEF WriteBackup, Saved
    <3> QED BY <1>1, <3>1 DEF Copies, SlotIsFree
  <2>3. CASE Prune(s)
    <3>1. PICK removed \in SUBSET Excess(backups) : backups' = backups \ removed
      BY <2>3 DEF Prune
    <3>2. b \in Excess(backups) /\ b.slot \in Slot
      BY <1>1, <3>1 DEF Aws
    <3>3. Cardinality(Newer(backups, b.slot)) >= BackupCount
      BY <3>2 DEF Excess
    <3> QED BY <1>1, <3>1, <3>2, <3>3, PrunedKeeps DEF Aws, Backup
  <2> QED BY <2>1, <2>2, <2>3
<1>2. Aws /\ Copies /\ [Next]_vars
        => [\A b \in backups \ backups' :
              Cardinality(Newer(backups', b.slot)) >= BackupCount
                \/ b.slot \in contested]_vars
  BY <1>1
<1> QED BY <1>2, TypeCorrect, CopiesThere, PTL DEF Spec, CopiesSurvive

=============================================================================
