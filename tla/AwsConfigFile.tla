--------------------------- MODULE AwsConfigFile ---------------------------
(***************************************************************************)
(* ~/.aws/config as the editor of the TUI sees it: a sequence of sections, *)
(* the change of one profile applied to the file as it is, and the         *)
(* time-stamped copies of what a save replaced.                            *)
(*                                                                         *)
(* The text of a section -- comments, spacing, the order of its lines --   *)
(* is not represented: a section is its settings.                          *)
(***************************************************************************)
EXTENDS Integers, FiniteSets, Sequences, SequencesExt

CONSTANTS
  AwsName,        \* the names of AWS profiles
  OtherSection,   \* a section that is not a profile
  Setting,        \* what a section can set
  Value,          \* what it can set it to
  Unset,          \* ... and if it does not
  BackupCount,    \* BACKUP_COUNT: the copies kept, 10 in the code
  NoEntry

(* A section sets some of the settings.                                    *)
Props == [Setting -> Value \cup {Unset}]
Section == [name: AwsName \cup {OtherSection}, props: Props]
Document == Seq(Section)

(* AwsProfileEntry, if there is one.  An AwsProfileOp has the entry before *)
(* and after: it creates (no `before`), edits, renames, or deletes (no     *)
(* `after`) a profile.                                                     *)
Entry == [name: AwsName, props: Props]
EntryOrNone == Entry \cup {NoEntry}

ASSUME AwsConfigAssumption ==
  /\ OtherSection \notin AwsName
  /\ Unset \notin Value
  /\ NoEntry \notin Entry
  /\ BackupCount \in Nat \ {0}

(* parse_aws_config: the profiles, in whatever order they are shown.       *)
Profiles(doc) == {s \in Range(doc) : s.name # OtherSection}

(* Document::position: of sections with one name the first counts; 0 if    *)
(* there is none.                                                          *)
Position(doc, name) == SelectInSeq(doc, LAMBDA s : s.name = name)

(* changes: the settings that the editor changed.                          *)
Changes(before, after) ==
  {s \in Setting : before.props[s] # after.props[s]}

(* VARIANT: the section becomes what the form was opened from, and then    *)
(* edited.                                                                 *)
MergedBlindly(current, op) == op.after.props

(* The changes, made to the section as it is now.                          *)
Merged(current, op) ==
  [s \in Setting |->
     IF s \in Changes(op.before, op.after) THEN op.after.props[s] ELSE current[s]]

(* VARIANT: compared with the new values only.                             *)
OverriddenLate(current, op) ==
  {s \in Changes(op.before, op.after) : current[s] = op.after.props[s]}

(* The settings whose outside change the save overrides.                   *)
Overridden(current, op) ==
  {s \in Changes(op.before, op.after) :
     current[s] \notin {op.before.props[s], op.after.props[s]}}

Applied(verdict, doc, overridden) ==
  [verdict |-> verdict, doc |-> doc, overridden |-> overridden]

(* Document::apply.                                                        *)
Apply(doc, op) ==
  LET i == IF op.before = NoEntry THEN 0 ELSE Position(doc, op.before.name)
      renamed == op.after # NoEntry /\ (op.before = NoEntry \/ op.after.name # op.before.name)
  IN  IF op.before # NoEntry /\ i = 0 THEN Applied("missing", doc, {})
      ELSE IF renamed /\ Position(doc, op.after.name) # 0 THEN Applied("exists", doc, {})
      ELSE IF op.after = NoEntry THEN Applied("ok", RemoveAt(doc, i), {})
      ELSE IF op.before = NoEntry THEN Applied("ok", Append(doc, op.after), {})
      ELSE Applied("ok",
             [doc EXCEPT ![i] = [name |-> op.after.name, props |-> Merged(doc[i].props, op)]],
             Overridden(doc[i].props, op))

----------------------------------------------------------------------------
(* Copies are named by the millisecond, and by a number if the name is     *)
(* taken.                                                                  *)
Slot == Nat \X Nat
Earlier(a, b) == a[1] < b[1] \/ (a[1] = b[1] /\ a[2] < b[2])

(* VARIANT: the name is not looked up first.                               *)
FirstSlot(backups, now) == <<now, 0>>

FreeSlot(backups, now) ==
  LET taken == {b.slot[2] : b \in {c \in backups : c.slot[1] = now}}
  IN  <<now, CHOOSE n \in 0..Cardinality(taken) :
               n \notin taken /\ \A m \in 0..(n - 1) : m \in taken>>

(* A file is replaced by the rename of a finished sibling.                 *)
Saved(backups, slot, doc) ==
  {b \in backups : b.slot # slot} \cup {[slot |-> slot, doc |-> doc]}

Newer(backups, slot) == {b \in backups : Earlier(slot, b.slot)}

Excess(backups) ==
  {b \in backups : Cardinality(Newer(backups, b.slot)) >= BackupCount}
=============================================================================
