----------------------------- MODULE MCSettings -----------------------------
(* Bounds for Settings: a number and a text in two sections. The files are *)
(* a complete one whose number is a word, as in the file shipped, one with *)
(* a field twice and the sections interleaved, one with a loose header,    *)
(* and one with the same key in both sections, of which one is unknown.    *)
(* "long" is a text of which the parser keeps less than the manager.       *)
EXTENDS Settings, TLC

level == <<"logging", "level">>
scheme == <<"ui", "color_scheme">>
Loose(s) == [Header(s) EXCEPT !.kind = "loose"]

MCFields == {level, scheme}
MCNumbers == {level}
MCValues == {"", "0", "1", "INFO", "dark", "long", "lo"}
MCAtoi == [v \in MCValues |-> IF v = "1" THEN "1" ELSE "0"]
MCKept == [f \in MCFields |-> [v \in MCValues |-> IF v = "long" THEN "lo" ELSE v]]
MCFragments == [v \in MCValues |-> IF v = "long" THEN {"", "lo"} ELSE {""}]
MCDefaults == (level :> "1") @@ (scheme :> "dark")
MCFiles == {
    <<Header("logging"), Item("level", "INFO"), Header("ui"), Item("color_scheme", "dark")>>,
    <<Header("ui"), Item("color_scheme", "dark"), Header("logging"), Item("level", "1"),
      Header("ui"), Item("color_scheme", "lo")>>,
    <<Header("logging"), Item("level", "1"), Loose("ui"), Item("color_scheme", "dark")>>,
    <<Header("ui"), Item("level", "dark"), Header("logging"), Item("level", "1")>>}
MCOtherFiles == {<<Header("ui"), Item("color_scheme", "lo")>>}
MCInputs == {"1", "INFO", "long"}

(* What the words of the shipped file stand for: INFO is LOG_INFO. *)
Meaning == [MCAtoi EXCEPT !["INFO"] = "1"]

(* A start reads the words that the shipped configuration file documents   *)
(* for its numbers as what they stand for (set_config_value takes atoi of  *)
(* them).                                                                  *)
WordsAreRead ==
    [][~running /\ running' /\ file # NoFile =>
          \A f \in Numbers : \A i \in Of(file, f) :
              Cardinality(Of(file, f)) = 1 => config'[f] = Meaning[file[i].value]]_vars
=============================================================================
