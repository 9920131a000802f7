SPECIFICATION Spec
CONSTANTS
  AwsName = {"dev", "ops"}
  OtherSection = OtherSection
  Setting <- Settings
  Value <- Values
  Unset = Unset
  BackupCount = 1
  NoEntry = NoEntry
  Tui = tui
  Others = {other}
  AwzarsName = {"a", "b"}
  Azure = {"app", "app2"}
  FormSetting <- Fillable
  Domain <- Domains
  Blank = ""
  NoFile = NoFile
  InitialFiles <- Files
  InitialConfigs <- Configs
  MaxClock = 2
  MaxEdits = 2
  Budgets <- SmallBudgets
INVARIANTS
  TypeOK
  InSync
PROPERTIES
  KeepsForeignEdits
  OverridesAreNamed
  BackedUp
  CopiesSurvive
  SavesOnlyTheForm
