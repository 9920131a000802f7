-------------------------- MODULE MCConfigManager --------------------------
(* A small instance of ConfigManager for TLC.                              *)
EXTENDS ConfigManager

(* `sso_session` stands for the settings that the form does not show.      *)
Settings == {"region", "credential_process", "source_profile", "sso_session"}
Fillable == {"region", "credential_process", "source_profile"}
Domains ==
  [s \in Settings |->
     CASE s = "region" -> {"eu", ""}
       [] s = "credential_process" -> {"a", "b"}
       [] s = "source_profile" -> {"dev"}
       [] OTHER -> {"corp"}]
Values == (UNION {Domains[s] : s \in Settings}) \cup {""}

Linked == [name |-> "dev",
           props |-> [s \in Settings |-> CASE s = "region" -> "eu"
                                            [] s = "credential_process" -> "a"
                                            [] OTHER -> Unset]]
Sso == [name |-> OtherSection,
        props |-> [s \in Settings |-> IF s = "sso_session" THEN "corp" ELSE Unset]]

(* no file, or a linked profile between others                             *)
Files == {NoFile, <<Sso, Linked>>}

Locked == [azure |-> "app", lock |-> TRUE]
Configs == {[n \in {} |-> Locked], [n \in {"a"} |-> Locked],
            [n \in {"a", "b"} |-> [Locked EXCEPT !.lock = (n = "a")]]}

(* two saves, one against an edit or another save, changes of config.toml *)
Only(s, e, o, a) == [saves |-> s, edits |-> e, others |-> o, awzars |-> a]
SmallBudgets ==
  {Only(2, 0, 0, 0), Only(1, 1, 0, 0), Only(1, 0, 1, 0), Only(0, 0, 0, 2)}
=============================================================================
