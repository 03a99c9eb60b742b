---------------------------- MODULE ConfigLoader ----------------------------
(***************************************************************************)
(* What main() does with app_config.json before it starts the modules:     *)
(* ConfigLoader finds sections and keys by searching the text, and the     *)
(* modules are constructed from what it returns.                           *)
(*                                                                         *)
(* A value is named by where it comes from: the section of the file that   *)
(* gives it, "zero" for a value-initialized member and "built-in" for the  *)
(* functions default_*_config.  A few keys stand for those of each         *)
(* section; min_speed is a key of two sections, as in the program.         *)
(***************************************************************************)
EXTENDS Naturals, Sequences, FiniteSets, SequencesExt, FiniteSetsExt

KeysOf ==
  [process |-> {"mqtt_host"}, dem |-> {"dt"}, breakage |-> {"type"},
   optimization |-> {"min_speed"}, thresholds |-> {"low_yield", "min_speed"}]

Sections == DOMAIN KeysOf

Entries(sections) == UNION {{s} \X KeysOf[s] : s \in sections}

VARIABLES
  step,       \* where main() is: "load", "build", "run"
  file,       \* app_config.json: whether it can be opened, the order of its
              \* sections and the entries they give
  app_cfg,
  built       \* what each module is constructed from

vars == <<step, file, app_cfg, built>>

-----------------------------------------------------------------------------

\* The search of one key: the first place in the text where it is given.
Lookup(f, text, key) ==
  LET places == {i \in DOMAIN text : <<text[i], key>> \in f.given} IN
  IF places = {} THEN "zero" ELSE text[Min(places)]

\* The text from the section's opening brace.  The brace is counted twice, so the
\* search for the closing one runs through the sections that follow.
ExtractSection(f, section) ==
  IF section \in Range(f.order)
  THEN SubSeq(f.order, CHOOSE i \in DOMAIN f.order : f.order[i] = section, Len(f.order))
  ELSE <<>>

Read(f, text, keys) == [k \in keys |-> Lookup(f, text, k)]

Every(value) == [s \in Sections |-> [k \in KeysOf[s] |-> value]]

\* AppConfig has two members for the thresholds: process.thresholds, here
\* process_thresholds, and thresholds, which nothing assigns.
Defaults == [section |-> Every("zero"), process_thresholds |-> Every("zero").thresholds]

\* For optimization and thresholds the section found is replaced by the whole text.
LoadFromString(f) ==
  LET text(s) == IF s = "optimization" THEN f.order ELSE ExtractSection(f, s) IN
  [section |-> [s \in Sections |-> IF s = "thresholds" THEN Defaults.section[s]
                                   ELSE Read(f, text(s), KeysOf[s])],
   process_thresholds |-> Read(f, f.order, KeysOf.thresholds)]

\* An optional, as the set of its value.  A file that cannot be opened is no error:
\* no call returns the empty one.
LoadFromFile(f) == {IF f.opens THEN LoadFromString(f) ELSE Defaults}

BuiltIn == [section |-> Every("built-in"), process_thresholds |-> Every("built-in").thresholds]

LoadConfig ==
  /\ step = "load"
  /\ app_cfg' = LET cfg_opt == LoadFromFile(file) IN
                IF cfg_opt # {} THEN CHOOSE cfg \in cfg_opt : TRUE ELSE BuiltIn
  /\ step' = "build"
  /\ UNCHANGED <<file, built>>

\* MqttReceiver and AlarmMqtt also get process, but AlarmMqtt makes its AlertSystem
\* of the other member alone.
Modules(cfg) ==
  [receiver |-> cfg.section.process,
   dem_sim |-> <<cfg.section.dem, cfg.section.breakage>>,
   optimizer |-> <<cfg.section.optimization, cfg.section.breakage>>,
   alarm |-> cfg.section.thresholds]

BuildModules ==
  /\ step = "build"
  /\ built' = Modules(app_cfg)
  /\ step' = "run"
  /\ UNCHANGED <<file, app_cfg>>

Init ==
  /\ step = "load"
  /\ \E opens \in BOOLEAN, S \in SUBSET Sections :
       \E o \in SetToSeqs(S), g \in SUBSET Entries(S) :
         file = [opens |-> opens, order |-> o, given |-> g]
  /\ app_cfg = Defaults
  /\ built = Modules(Defaults)

Next == LoadConfig \/ BuildModules

Spec == Init /\ [][Next]_vars

-----------------------------------------------------------------------------

\* Alarms are raised by the thresholds that the configuration file gives in its
\* section thresholds (README.md:272 calls the file the external configuration;
\* config_loader.cpp:148-156, main.cpp:162).  Violated.
ThresholdsApplied ==
  step = "run" /\ file.opens =>
    \A e \in file.given : e[1] = "thresholds" => built.alarm[e[2]] = "thresholds"
=============================================================================
