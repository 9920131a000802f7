--------------------------- MODULE ConfigManager ---------------------------
(***************************************************************************)
(* The profile manager of the TUI: its modes and forms, the copy of        *)
(* config.toml it works on, and its edits of ~/.aws/config.  Other         *)
(* programs change both files meanwhile, and other instances of the        *)
(* manager save to ~/.aws/config as this one does.                         *)
(*                                                                         *)
(* Which row of a list is highlighted, which field has the focus and how a *)
(* field is typed are not represented: a row, a field, a value is chosen.  *)
(*                                                                         *)
(* History variables: `touched` are the profiles of config.toml that other *)
(* commands changed since the manager read the file, `stale` those that a  *)
(* save, a deletion or set-password of its own changed without the copy    *)
(* following, `contested` the names that two managers chose for their      *)
(* copies before either made one.                                          *)
(***************************************************************************)
EXTENDS AwsConfigFile

CONSTANTS
  Tui,           \* this manager
  Others,        \* other instances of it, which save to ~/.aws/config
  AwzarsName,    \* the names of awzars profiles
  Azure,         \* what identifies a profile to Azure AD and AWS
  FormSetting,   \* the settings the form of an AWS profile shows
  Domain,        \* the values of each setting
  Blank,         \* the empty text
  NoFile,        \* ~/.aws/config does not exist
  InitialFiles,  \* ~/.aws/config at first
  InitialConfigs,\* config.toml at first
  MaxClock,      \* bound: milliseconds
  MaxEdits,      \* bound: what a form changes of the original
  Budgets        \* bound: saves and changes of either file, by anybody

VARIABLES
  file, backups,   \* ~/.aws/config and its copies
  now,             \* the clock that names the copies
  disk,            \* config.toml
  pc, job,         \* per instance: where its save of ~/.aws/config stands
  mode, focus,     \* what the manager shows, and of which profile
  config,          \* its copy of config.toml
  names, entries,  \* the lists it shows
  form, awsForm,   \* the forms
  pending,         \* the profile whose password is to be set next
  touched, stale, contested,
  left             \* what remains of the budget

vars == <<file, backups, now, disk, pc, job, mode, focus, config, names,
          entries, form, awsForm, pending, touched, stale, contested, left>>
awsDisk == <<file, backups, now, contested>>
awzars == <<disk, config, names, form, pending, touched, stale>>
saving == <<pc, job>>

----------------------------------------------------------------------------
(* Data.                                                                   *)

Savers == {Tui} \cup Others

(* How often this manager saves ~/.aws/config, another program edits it,   *)
(* other managers save it, and anybody changes config.toml.                *)
Budget == [saves: Nat, edits: Nat, others: Nat, awzars: Nat]

(* Command lines are values: a name in AwzarsName is the command that asks *)
(* awzars for that profile.                                                *)
Profile == [azure: Azure, lock: BOOLEAN]
AwzarsConfig == UNION {[some -> Profile] : some \in SUBSET AwzarsName}

ASSUME ConfigManagerAssumption ==
  /\ Tui \notin Others
  /\ {"credential_process", "source_profile"} \subseteq FormSetting
  /\ FormSetting \subseteq Setting
  /\ Domain \in [Setting -> SUBSET Value]
  /\ AwzarsName \subseteq Domain["credential_process"]
  /\ Blank \in Value \ AwzarsName /\ Blank \notin AwsName \cup Azure
  /\ NoEntry \notin AwzarsName
  /\ NoFile \notin Document /\ InitialFiles \subseteq Document \cup {NoFile}
  /\ InitialConfigs \subseteq AwzarsConfig
  /\ MaxClock \in Nat \ {0} /\ Budgets \subseteq Budget
  /\ MaxEdits \in Nat

NoProfile == [azure |-> Blank, lock |-> FALSE]
Look(c, n) == IF n \in DOMAIN c THEN c[n] ELSE NoProfile
SetProfile(c, n, profile) ==
  [m \in DOMAIN c \cup {n} |-> IF m = n THEN profile ELSE c[m]]
RemoveProfile(c, n) == [m \in DOMAIN c \ {n} |-> c[m]]

Mode == {"Browse", "EditAwzars", "AddAwzars", "EditAws", "AddAws",
         "DeleteAwzars", "DeleteAws", "LinkPicker", "ProfileTypePicker",
         "UnsavedAwzars", "UnsavedAws", "SetPasswordPrompt", "Closed"}

(* The form of an awzars profile; `azure0` is what it was opened with.     *)
NoForm == [original |-> Blank, name |-> Blank, azure |-> Blank, azure0 |-> Blank]
ProfileForm == [original: AwzarsName \cup {Blank}, name: AwzarsName \cup {Blank},
                azure: Azure \cup {Blank}, azure0: Azure \cup {Blank}]

FromProfile(n, azure) ==
  [original |-> n, name |-> n, azure |-> azure, azure0 |-> azure]
CloneFrom(n, azure) == [FromProfile(n, azure) EXCEPT !.original = Blank, !.name = Blank]

IsDirty(f) == f.name # f.original \/ f.azure # f.azure0
IsValid(f) == f.name # Blank /\ f.azure # Blank

(* VARIANT: the form has no lock and takes none from the profile.          *)
ToProfileUnlocked(f, c) == [azure |-> f.azure, lock |-> FALSE]

(* to_profile, with the lock of the profile the form was opened from.      *)
ToProfile(f, c) == [azure |-> f.azure, lock |-> Look(c, f.original).lock]

(* VARIANT: a setting that is absent has no text.                          *)
FieldsUnset(entry) ==
  [s \in FormSetting |-> IF entry = NoEntry THEN Blank ELSE entry.props[s]]

(* The form of an AWS profile: absent and empty settings look the same.    *)
Fields(entry) ==
  [s \in FormSetting |->
     IF entry = NoEntry \/ entry.props[s] = Unset THEN Blank ELSE entry.props[s]]

NoAwsForm == [original |-> NoEntry, name |-> Blank, assume |-> FALSE,
              fields |-> Fields(NoEntry)]
AwsProfileForm == [original: EntryOrNone, name: AwsName \cup {Blank},
                   assume: BOOLEAN, fields: [FormSetting -> Value]]

FromEntry(entry) ==
  [original |-> entry, name |-> entry.name,
   assume |-> entry.props["source_profile"] # Unset, fields |-> Fields(entry)]

(* A profile that assumes a role shows its source, any other its command.  *)
Visible(f) ==
  FormSetting \ {IF f.assume THEN "credential_process" ELSE "source_profile"}

EditedSettings(f) == {s \in FormSetting : f.fields[s] # Fields(f.original)[s]}

IsAwsDirty(f) ==
  \/ f.name # (IF f.original = NoEntry THEN Blank ELSE f.original.name)
  \/ EditedSettings(f) # {}

(* to_entry: a source profile excludes a command, and settings that the    *)
(* form does not show are carried over.                                    *)
ToEntry(f) ==
  LET excluded == IF f.fields["source_profile"] = Blank THEN {} ELSE {"credential_process"}
      filled == {s \in FormSetting : f.fields[s] # Blank} \ excluded
      Carried(s) == IF f.original = NoEntry THEN Unset ELSE f.original.props[s]
  IN  [name |-> f.name,
       props |-> [s \in Setting |->
                    IF s \in filled THEN f.fields[s]
                    ELSE IF s \in FormSetting THEN Unset ELSE Carried(s)]]

UsesAwzars(entry) == entry.props["credential_process"] \in AwzarsName

Contents(f) == IF f = NoFile THEN <<>> ELSE f

NoSlot == <<0, 0>>
NoJob == [op |-> [before |-> NoEntry, after |-> NoEntry], read |-> NoFile,
          doc |-> <<>>, overridden |-> {}, slot |-> NoSlot, verdict |-> "none"]

Job == [op: [before: EntryOrNone, after: EntryOrNone],
        read: Document \cup {NoFile}, doc: Document,
        overridden: SUBSET FormSetting, slot: Slot,
        verdict: {"none", "ok", "missing", "exists", "io"}]

----------------------------------------------------------------------------
(* save_aws_config, step by step: another program may act between any two. *)

(* A saver is in the middle of a save.                                     *)
Idle(s) == pc[s] = "idle"

Begin(s, op) ==
  /\ Idle(s) /\ left[IF s = Tui THEN "saves" ELSE "others"] > 0
  /\ pc' = [pc EXCEPT ![s] = "read"]
  /\ job' = [job EXCEPT ![s] = [NoJob EXCEPT !.op = op]]
  /\ left' = [left EXCEPT ![IF s = Tui THEN "saves" ELSE "others"] = @ - 1]

Manager == <<mode, focus, entries, awsForm, left>>

(* An existing file that would change is copied first.                     *)
ReadFile(s) ==
  LET applied == Apply(Contents(file), job[s].op)
      next == IF applied.verdict # "ok" THEN "done"
              ELSE IF file # NoFile /\ applied.doc # file THEN "look" ELSE "replace"
  IN  /\ pc[s] = "read"
      /\ pc' = [pc EXCEPT ![s] = next]
      /\ job' = [job EXCEPT ![s] = [@ EXCEPT !.read = file, !.doc = applied.doc,
                                     !.overridden = applied.overridden,
                                     !.verdict = applied.verdict]]
      /\ UNCHANGED <<awsDisk, awzars, Manager>>

(* VARIANT: the file is replaced before the copy is made.                  *)
ReplaceEarly(s) ==
  /\ pc[s] = "look"
  /\ pc' = [pc EXCEPT ![s] = "done"]
  /\ file' = job[s].doc
  /\ UNCHANGED <<backups, now, contested, job, awzars, Manager>>

(* The clock is read and a name for the copy is looked for.                *)
LookForSlot(s) ==
  /\ pc[s] = "look"
  /\ pc' = [pc EXCEPT ![s] = "copy"]
  /\ now' \in now..MaxClock
  /\ LET slot == FreeSlot(backups, now')
         others == {t \in Savers \ {s} : pc[t] = "copy" /\ job[t].slot = slot}
     IN  /\ job' = [job EXCEPT ![s].slot = slot]
         /\ contested' = IF others = {} THEN contested ELSE contested \cup {slot}
  /\ UNCHANGED <<file, backups, awzars, Manager>>

WriteBackup(s) ==
  /\ pc[s] = "copy"
  /\ pc' = [pc EXCEPT ![s] = "prune"]
  /\ backups' = Saved(backups, job[s].slot, job[s].read)
  /\ UNCHANGED <<file, now, contested, job, awzars, Manager>>

(* Best effort: it may fail, for any of the oldest.                        *)
Prune(s) ==
  /\ pc[s] = "prune"
  /\ pc' = [pc EXCEPT ![s] = "replace"]
  /\ \E removed \in SUBSET Excess(backups) : backups' = backups \ removed
  /\ UNCHANGED <<file, now, contested, job, awzars, Manager>>

(* The directory is synced after the rename: the file may be replaced and  *)
(* the save fail, and with it the list of what it overrode is gone.        *)
Replace(s) ==
  /\ pc[s] = "replace"
  /\ pc' = [pc EXCEPT ![s] = "done"]
  /\ file' = job[s].doc
  /\ \E verdict \in {"ok", "io"} :
       /\ s # Tui => verdict = "ok"
       /\ job' = [job EXCEPT ![s].verdict = verdict]
  /\ UNCHANGED <<backups, now, contested, awzars, Manager>>

(* aws_save_status: the settings that the status line names as overridden. *)
Named(j) == IF j.verdict = "ok" THEN j.overridden ELSE {}

Save(s) ==
  \/ ReadFile(s) \/ LookForSlot(s) \/ WriteBackup(s) \/ Prune(s) \/ Replace(s)

(* Any step may fail; so it may for others, who may also be killed.        *)
IoFails ==
  /\ pc[Tui] \in {"read", "look", "copy", "replace"}
  /\ pc' = [pc EXCEPT ![Tui] = "done"]
  /\ job' = [job EXCEPT ![Tui].verdict = "io"]
  /\ UNCHANGED <<awsDisk, awzars, Manager>>

----------------------------------------------------------------------------
(* The AWS profiles of this manager.                                       *)

(* The manager waits for a key.  Dialogs are used while the budget lasts. *)
At(m) == mode \in m /\ Idle(Tui) /\ pending = Blank

Show(m, subject) == mode' = m /\ focus' = subject

StartEditAws ==
  /\ At({"Browse"}) /\ left.saves > 0
  /\ \E entry \in entries :
       /\ Show("EditAws", NoEntry)
       /\ awsForm' = FromEntry(entry)
  /\ UNCHANGED <<awsDisk, awzars, saving, entries, left>>

StartAddAws ==
  /\ At({"Browse"}) /\ left.saves > 0
  /\ Show("ProfileTypePicker", NoEntry)
  /\ UNCHANGED <<awsDisk, awzars, saving, entries, awsForm, left>>

PickType ==
  /\ At({"ProfileTypePicker"})
  /\ Show("AddAws", NoEntry)
  /\ \E assume \in BOOLEAN : awsForm' = [NoAwsForm EXCEPT !.assume = assume]
  /\ UNCHANGED <<awsDisk, awzars, saving, entries, left>>

(* Bound: how far a form is from what it was opened from.                  *)
Edits(f) ==
  Cardinality(EditedSettings(f))
  + (IF f.original # NoEntry /\ f.name # f.original.name THEN 1 ELSE 0)

EditAwsField ==
  /\ At({"EditAws", "AddAws"}) /\ left.saves > 0
  /\ \/ \E n \in AwsName \cup {Blank} : awsForm' = [awsForm EXCEPT !.name = n]
     \/ \E s \in Visible(awsForm) : \E v \in Domain[s] \cup {Blank} :
          awsForm' = [awsForm EXCEPT !.fields[s] = v]
  /\ Edits(awsForm') <= MaxEdits
  /\ UNCHANGED <<awsDisk, awzars, saving, mode, focus, entries, left>>

(* Ctrl+S, or `y` when asked about unsaved changes.                        *)
SaveAwsForm ==
  /\ At({"EditAws", "AddAws", "UnsavedAws"})
  /\ awsForm.name # Blank
  /\ Begin(Tui, [before |-> awsForm.original, after |-> ToEntry(awsForm)])
  /\ UNCHANGED <<awsDisk, awzars, mode, focus, entries, awsForm>>

StartLink ==
  /\ At({"Browse"}) /\ names # {} /\ left.saves > 0
  /\ \E entry \in entries : Show("LinkPicker", entry)
  /\ UNCHANGED <<awsDisk, awzars, saving, entries, awsForm, left>>

ApplyLink ==
  /\ At({"LinkPicker"})
  /\ \E v \in names \cup {Unset} :
       Begin(Tui, [before |-> focus,
                   after |-> [focus EXCEPT !.props["credential_process"] = v]])
  /\ UNCHANGED <<awsDisk, awzars, mode, focus, entries, awsForm>>

StartDeleteAws ==
  /\ At({"Browse"}) /\ left.saves > 0
  /\ \E entry \in entries : UsesAwzars(entry) /\ Show("DeleteAws", entry)
  /\ UNCHANGED <<awsDisk, awzars, saving, entries, awsForm, left>>

ConfirmDeleteAws ==
  /\ At({"DeleteAws"})
  /\ Begin(Tui, [before |-> focus, after |-> NoEntry])
  /\ UNCHANGED <<awsDisk, awzars, mode, focus, entries, awsForm>>

(* load_aws_integration: a file that cannot be read shows as empty.        *)
Loaded == {Profiles(Contents(file)), {}}

(* The list is loaded again after every attempt; a form stays open after   *)
(* an error, unless the profile is gone.                                   *)
FinishSave ==
  LET stays == /\ mode \in {"EditAws", "AddAws", "UnsavedAws"}
               /\ job[Tui].verdict \in {"exists", "io"}
  IN  /\ pc[Tui] = "done"
      /\ pc' = [pc EXCEPT ![Tui] = "idle"]
      /\ job' = [job EXCEPT ![Tui] = NoJob]
      /\ entries' \in Loaded
      /\ IF stays THEN UNCHANGED <<mode, focus, awsForm>>
                  ELSE Show("Browse", NoEntry) /\ awsForm' = NoAwsForm
      /\ UNCHANGED <<awsDisk, awzars, left>>

----------------------------------------------------------------------------
(* The awzars profiles of this manager.                                    *)

StartAddAwzars ==
  /\ At({"Browse"}) /\ left.awzars > 0
  /\ Show("AddAwzars", NoEntry)
  /\ \/ form' = NoForm
     \/ \E n \in names \cap DOMAIN config : form' = CloneFrom(n, config[n].azure)
  /\ UNCHANGED <<awsDisk, saving, disk, config, names, entries, awsForm, pending,
                 touched, stale, left>>

StartEditAwzars ==
  /\ At({"Browse"}) /\ left.awzars > 0
  /\ \E n \in names \cap DOMAIN config :
       Show("EditAwzars", NoEntry) /\ form' = FromProfile(n, config[n].azure)
  /\ UNCHANGED <<awsDisk, saving, disk, config, names, entries, awsForm, pending,
                 touched, stale, left>>

(* An existing profile keeps its name.                                     *)
EditAwzarsField ==
  /\ At({"EditAwzars", "AddAwzars"})
  /\ \/ /\ form.original = Blank
        /\ \E n \in AwzarsName \cup {Blank} : form' = [form EXCEPT !.name = n]
     \/ \E a \in Azure \cup {Blank} : form' = [form EXCEPT !.azure = a]
  /\ UNCHANGED <<awsDisk, saving, disk, config, names, entries, awsForm, pending,
                 touched, stale, left, mode, focus>>

(* The whole copy is written, with the form's profile in it.  It may be    *)
(* written and the save fail; then the copy stays as it was.               *)
SaveAwzarsForm ==
  LET updated == SetProfile(config, form.name, ToProfile(form, config))
      added == form.original = Blank
  IN  /\ At({"EditAwzars", "AddAwzars", "UnsavedAwzars"})
      /\ left.awzars > 0
      /\ IsValid(form)
      /\ form.original # form.name => form.name \notin DOMAIN config
      /\ disk' = updated
      /\ \/ /\ config' = updated /\ names' = DOMAIN updated
            /\ touched' = {} /\ stale' = {} /\ form' = NoForm
            /\ IF added THEN Show("SetPasswordPrompt", form.name) ELSE Show("Browse", NoEntry)
         \/ /\ touched' = {} /\ stale' = {form.name}
            /\ UNCHANGED <<config, names, form, mode, focus>>
      /\ left' = [left EXCEPT !.awzars = @ - 1]
      /\ UNCHANGED <<awsDisk, saving, entries, awsForm, pending>>

AnswerPrompt ==
  /\ At({"SetPasswordPrompt"})
  /\ pending' \in {focus, Blank}
  /\ Show("Browse", NoEntry)
  /\ UNCHANGED <<awsDisk, saving, disk, config, names, form, entries, awsForm,
                 touched, stale, left>>

(* VARIANT: config.toml is not loaded again after the password is set.     *)
SetPasswordOnly ==
  /\ pending # Blank
  /\ disk' = IF pending \in DOMAIN disk
             THEN [disk EXCEPT ![pending].lock = TRUE] ELSE disk
  /\ pending' = Blank
  /\ UNCHANGED <<awsDisk, saving, config, names, form, entries, awsForm, mode, focus,
                 touched, stale, left>>

(* set-password, which works on the file and may fail; then the file is    *)
(* loaded again, which may fail, but not the list of names.                *)
RunPendingAction ==
  /\ pending # Blank
  /\ \/ /\ pending \in DOMAIN disk
        /\ disk' = [disk EXCEPT ![pending].lock = TRUE]
     \/ disk' = disk
  /\ \/ config' = disk' /\ touched' = {} /\ stale' = {}
     \/ /\ stale' = IF disk' = disk THEN stale ELSE stale \cup {pending}
        /\ UNCHANGED <<config, touched>>
  /\ pending' = Blank
  /\ UNCHANGED <<awsDisk, saving, names, form, entries, awsForm, mode, focus, left>>

StartDeleteAwzars ==
  /\ At({"Browse"}) /\ left.awzars > 0
  /\ \E n \in names : Show("DeleteAwzars", n)
  /\ UNCHANGED <<awsDisk, awzars, saving, entries, awsForm, left>>

(* delete_awzars_profile works on the file.  If it succeeds the copy is    *)
(* loaded again, which may fail; it may also fail with the file replaced.  *)
ConfirmDeleteAwzars ==
  /\ At({"DeleteAwzars"})
  /\ left.awzars > 0
  /\ \/ /\ focus \in DOMAIN disk
        /\ disk' = RemoveProfile(disk, focus)
        /\ \/ /\ config' = disk' /\ names' = DOMAIN disk'
              /\ touched' = {} /\ stale' = {}
           \/ /\ names' \in {names, DOMAIN config}
              /\ stale' = stale \cup {focus}
              /\ UNCHANGED <<config, touched>>
     \/ UNCHANGED <<disk, config, names, touched, stale>>
  /\ Show("Browse", NoEntry)
  /\ left' = [left EXCEPT !.awzars = @ - 1]
  /\ UNCHANGED <<awsDisk, saving, form, entries, awsForm, pending>>

----------------------------------------------------------------------------
(* Leaving forms and dialogs.                                              *)

(* Esc in a form asks about unsaved changes.                               *)
LeaveForm ==
  /\ \/ At({"EditAws", "AddAws"}) /\ IsAwsDirty(awsForm) /\ Show("UnsavedAws", NoEntry)
        /\ UNCHANGED <<form, awsForm>>
     \/ At({"EditAwzars", "AddAwzars"}) /\ IsDirty(form) /\ Show("UnsavedAwzars", NoEntry)
        /\ UNCHANGED <<form, awsForm>>
     \/ At({"EditAws", "AddAws"}) /\ ~IsAwsDirty(awsForm) /\ Show("Browse", NoEntry)
        /\ awsForm' = NoAwsForm /\ UNCHANGED form
     \/ At({"EditAwzars", "AddAwzars"}) /\ ~IsDirty(form) /\ Show("Browse", NoEntry)
        /\ form' = NoForm /\ UNCHANGED awsForm
  /\ UNCHANGED <<awsDisk, saving, disk, config, names, entries, pending, touched, stale,
                 left>>

(* `n`: the form is discarded; Esc: back to it.                            *)
AnswerUnsaved ==
  /\ \/ At({"UnsavedAws"}) /\ awsForm' = NoAwsForm /\ Show("Browse", NoEntry)
        /\ UNCHANGED form
     \/ At({"UnsavedAwzars"}) /\ form' = NoForm /\ Show("Browse", NoEntry)
        /\ UNCHANGED awsForm
     \/ /\ At({"UnsavedAws"})
        /\ Show(IF awsForm.original = NoEntry THEN "AddAws" ELSE "EditAws", NoEntry)
        /\ UNCHANGED <<form, awsForm>>
     \/ /\ At({"UnsavedAwzars"})
        /\ Show(IF form.original = Blank THEN "AddAwzars" ELSE "EditAwzars", NoEntry)
        /\ UNCHANGED <<form, awsForm>>
  /\ UNCHANGED <<awsDisk, saving, disk, config, names, entries, pending, touched, stale,
                 left>>

Cancel ==
  /\ At({"DeleteAws", "DeleteAwzars", "LinkPicker", "ProfileTypePicker"})
  /\ Show("Browse", NoEntry)
  /\ UNCHANGED <<awsDisk, awzars, saving, entries, awsForm, left>>

(* The manager quits, or is killed anywhere, and is opened again.          *)
Close ==
  /\ mode # "Closed"
  /\ Show("Closed", NoEntry)
  /\ pc' = [pc EXCEPT ![Tui] = "idle"]
  /\ job' = [job EXCEPT ![Tui] = NoJob]
  /\ config' = disk /\ names' = {} /\ entries' = {}
  /\ touched' = {} /\ stale' = {}
  /\ form' = NoForm /\ awsForm' = NoAwsForm /\ pending' = Blank
  /\ UNCHANGED <<awsDisk, disk, left>>

Open ==
  /\ mode = "Closed"
  /\ Show("Browse", NoEntry)
  /\ config' = disk /\ names' = DOMAIN disk /\ touched' = {} /\ stale' = {}
  /\ entries' \in Loaded
  /\ UNCHANGED <<awsDisk, saving, disk, form, awsForm, pending, left>>

----------------------------------------------------------------------------
(* Everybody else.                                                         *)

IsPlausible(doc) ==
  \A i \in DOMAIN doc : \A s \in Setting : doc[i].props[s] \in Domain[s] \cup {Unset}

(* One change of ~/.aws/config by an editor or another tool.               *)
EditFile ==
  LET doc == Contents(file)
      Only(s, v) == [t \in Setting |-> IF t = s THEN v ELSE Unset]
  IN  /\ left.edits > 0
      /\ \/ \E i \in {j \in DOMAIN doc : doc[j].name # OtherSection},
               s \in Setting, v \in Value \cup {Unset} :
               file' = [doc EXCEPT ![i].props[s] = v]
         \/ \E i \in DOMAIN doc : file' = RemoveAt(doc, i)
         \/ \E n \in {m \in AwsName : Position(doc, m) = 0},
               s \in Setting, v \in Value :
               file' = Append(doc, [name |-> n, props |-> Only(s, v)])
      /\ IsPlausible(file')
      /\ left' = [left EXCEPT !.edits = @ - 1]
      /\ UNCHANGED <<backups, now, contested, saving, awzars, mode, focus, entries,
                     awsForm>>

(* Another command changes, adds, locks or deletes an awzars profile.      *)
EditConfig ==
  /\ left.awzars > 0
  /\ \E n \in AwzarsName :
       /\ \/ \E a \in Azure, locked \in BOOLEAN :
               disk' = SetProfile(disk, n, [azure |-> a, lock |-> locked])
          \/ n \in DOMAIN disk /\ disk' = RemoveProfile(disk, n)
       /\ touched' = IF mode = "Closed" THEN {} ELSE touched \cup {n}
  /\ config' = IF mode = "Closed" THEN disk' ELSE config
  /\ left' = [left EXCEPT !.awzars = @ - 1]
  /\ UNCHANGED <<awsDisk, saving, names, form, pending, stale, mode, focus, entries,
                 awsForm>>

(* Another manager, with a fresh list, links, unlinks or deletes a profile. *)
OtherBegins(s) ==
  /\ \E entry \in Profiles(Contents(file)) :
       \/ \E v \in AwzarsName \cup {Unset} :
            Begin(s, [before |-> entry,
                      after |-> [entry EXCEPT !.props["credential_process"] = v]])
       \/ UsesAwzars(entry) /\ Begin(s, [before |-> entry, after |-> NoEntry])
  /\ UNCHANGED <<awsDisk, awzars, mode, focus, entries, awsForm>>

OtherEnds(s) ==
  /\ pc[s] = "done"
  /\ pc' = [pc EXCEPT ![s] = "idle"]
  /\ job' = [job EXCEPT ![s] = NoJob]
  /\ UNCHANGED <<awsDisk, awzars, Manager>>

----------------------------------------------------------------------------
Init ==
  /\ file \in InitialFiles /\ backups = {} /\ now = 1
  /\ disk \in InitialConfigs
  /\ pc = [s \in Savers |-> "idle"] /\ job = [s \in Savers |-> NoJob]
  /\ mode = "Closed" /\ focus = NoEntry
  /\ config = disk /\ names = {} /\ entries = {} /\ contested = {}
  /\ form = NoForm /\ awsForm = NoAwsForm /\ pending = Blank
  /\ touched = {} /\ stale = {} /\ left \in Budgets

Key ==
  \/ StartEditAws \/ StartAddAws \/ PickType \/ EditAwsField \/ SaveAwsForm
  \/ StartLink \/ ApplyLink \/ StartDeleteAws \/ ConfirmDeleteAws
  \/ StartAddAwzars \/ StartEditAwzars \/ EditAwzarsField \/ SaveAwzarsForm
  \/ AnswerPrompt \/ StartDeleteAwzars \/ ConfirmDeleteAwzars
  \/ LeaveForm \/ AnswerUnsaved \/ Cancel

Next ==
  \/ Key \/ FinishSave \/ RunPendingAction \/ Close \/ Open
  \/ IoFails \/ \E s \in Savers : Save(s)
  \/ \E s \in Others : OtherBegins(s) \/ OtherEnds(s)
  \/ EditFile \/ EditConfig

Spec == Init /\ [][Next]_vars

----------------------------------------------------------------------------
(***************************************************************************)
(* Properties.                                                             *)
(***************************************************************************)

(* Type invariant.                                                         *)
TypeOK ==
  /\ file \in Document \cup {NoFile}
  /\ IsFiniteSet(backups) /\ backups \subseteq [slot: Slot, doc: Document]
  /\ now \in 0..MaxClock /\ left \in Budget
  /\ disk \in AwzarsConfig /\ config \in AwzarsConfig /\ names \subseteq AwzarsName
  /\ touched \subseteq AwzarsName /\ stale \subseteq AwzarsName
  /\ contested \subseteq Slot
  /\ pc \in [Savers -> {"idle", "read", "look", "copy", "prune", "replace", "done"}]
  /\ job \in [Savers -> Job]
  /\ mode \in Mode
  /\ IF mode \in {"DeleteAwzars", "SetPasswordPrompt"}
     THEN focus \in AwzarsName ELSE focus \in EntryOrNone
  /\ entries \subseteq Entry
  /\ form \in ProfileForm
  /\ awsForm \in AwsProfileForm
  /\ pending \in AwzarsName \cup {Blank}

(* s replaces the file, and nobody wrote to it since s read it.            *)
Writes(s) ==
  pc[s] # "done" /\ pc'[s] = "done" /\ file' # file /\ file = job[s].read

Target(s) ==
  LET before == job[s].op.before
  IN  IF before = NoEntry THEN 0 ELSE Position(file, before.name)

Without(doc, i) == IF i = 0 THEN doc ELSE RemoveAt(doc, i)

(* What the user of s asked to change.  A form cannot tell an empty        *)
(* setting from none, and a source profile rules out a command.            *)
Asked(s) ==
  LET f == awsForm
      empty == {t \in FormSetting : f.original # NoEntry
                                    /\ f.original.props[t] = Blank}
  IN  IF s # Tui \/ mode \notin {"EditAws", "AddAws", "UnsavedAws"}
      THEN Changes(job[s].op.before, job[s].op.after)
      ELSE EditedSettings(f) \cup empty
           \cup (IF f.fields["source_profile"] = Blank THEN {} ELSE {"credential_process"})

(* "preserving other sections": however old the list and the form a save   *)
(* was made from, it changes the file as it is only where the user asked:  *)
(* other sections and settings keep what others wrote meanwhile, unless    *)
(* they wrote between the reading and the replacing of the file.           *)
KeepsForeignEdits ==
  [][\A s \in Savers : Writes(s) =>
       LET i == Target(s)
           j == IF job[s].op.after = NoEntry THEN 0
                ELSE IF i = 0 THEN Len(file') ELSE i
       IN  /\ Without(Contents(file), i) = Without(file', j)
           /\ i # 0 /\ j # 0 =>
                \A t \in Setting \ Asked(s) :
                  file'[j].props[t] = file[i].props[t]]_vars

(* s writes an edit of a profile over a change made to it by others since  *)
(* the user saw it: these are the settings.                                *)
Overrides(s) ==
  LET i == Target(s)
  IN  {t \in Setting : file[i].props[t] \notin {job[s].op.before.props[t],
                                               file'[i].props[t]}}

Edited(s) == Writes(s) /\ job[s].op.after # NoEntry /\ Target(s) # 0

(* "a warning naming any outside change it overrode": a save that says it  *)
(* succeeded names in the status line every change by others since the     *)
(* user saw the profile that it overrode, unless that change was made      *)
(* between the reading and the replacing of the file.  A save that fails   *)
(* after the rename has overridden them too, and names none.               *)
OverridesAreNamed ==
  [][\A s \in Savers : Edited(s) /\ job'[s].verdict = "ok" =>
       Overrides(s) \subseteq Named(job'[s])]_vars

(* A save replaces a file by another.                                      *)
Replaces(s) ==
  pc[s] # "done" /\ pc'[s] = "done" /\ file' # file /\ file # NoFile

(* What a save replaces has been copied, whatever step of it fails, and    *)
(* the copy is there unless newer ones have taken its place or another     *)
(* manager its name -- if nobody wrote to the file since it was read.      *)
BackedUp ==
  [][\A s \in Savers : Replaces(s) /\ Writes(s) =>
       \/ \E b \in backups : b.slot = job[s].slot /\ b.doc = file
       \/ Cardinality(Newer(backups, job[s].slot)) >= BackupCount
       \/ job[s].slot \in contested]_vars

(* A copy is lost only once BACKUP_COUNT newer ones exist, also when saves *)
(* follow each other within a millisecond.                                 *)
CopiesSurvive ==
  [][\A b \in backups \ backups' :
       Cardinality(Newer(backups', b.slot)) >= BackupCount \/ b.slot \in contested]_vars

(* The copy of config.toml the manager saves from differs from the file    *)
(* only where others changed it, or where a save, a deletion or            *)
(* set-password of its own ended in an error of reading or writing: it     *)
(* follows those that did not.                                             *)
InSync ==
  \A n \in AwzarsName \ (touched \cup stale) : Look(config, n) = Look(disk, n)

(* Saving a form writes back the whole copy: where the copy is up to date  *)
(* nothing but the form's profile changes, and that keeps its lock.        *)
SavesOnlyTheForm ==
  [][SaveAwzarsForm =>
       \A n \in AwzarsName \ (touched \cup stale) :
         IF n = form.name THEN Look(disk', n).lock = Look(disk, n).lock
                          ELSE Look(disk', n) = Look(disk, n)]_vars
=============================================================================
