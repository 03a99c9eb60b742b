------------------------------- MODULE WebApp -------------------------------
(***************************************************************************)
(* StoneMillApp of the web client: the optimization panel, whose run is a  *)
(* chain of generations 50 ms apart that clicks come between, and the      *)
(* timer that refreshes the view.  JavaScript runs one event at a time, so *)
(* an action is the code from one await, click or timer to the next.       *)
(*                                                                         *)
(* A run waiting in delay() is a member of chains: the code bounds their   *)
(* number by its flags and buttons only.  Fitness values stand for the     *)
(* candidate of a generation, Settings for the values of the sliders.      *)
(***************************************************************************)
EXTENDS Integers, Sequences, FiniteSetsExt

CONSTANTS Fitness,         \* fitness values, greater than 0
          Settings,        \* slider values of a run that binMin <= binMax accepts
          Generations,     \* values of the slider maxGen, at least 1
          ChartLength,     \* generations that the chart keeps
          Intervals,       \* values of the slider refreshInterval
          MaxRuns,         \* bound: runs started
          MaxTimers        \* bound: intervals set

ASSUME WebAppAssumption ==
  /\ Fitness \subseteq Nat \ {0} /\ Generations \subseteq Nat \ {0}
  /\ ChartLength \in Nat \ {0} /\ MaxRuns \in Nat /\ MaxTimers \in Nat

VARIABLES
  optimizationRunning, optimizationCancelled,
  startEnabled, cancelEnabled,   \* the two buttons
  chains,                        \* runs in delay(): [number -> [gen, maxGen, best, params]]
  chart,                         \* charts.fitness
  shown,                         \* opt-result-content
  toast,                         \* the last message about a run
  asked, seen,                   \* history: settings of the last run, its fitness values
  cancelledAt,                   \* history: generation after which it was cancelled
  started,                       \* number of runs started
  autoRefresh, refreshInterval,
  refreshTimer,                  \* number of the interval it holds, 0 for null
  live,                          \* intervals that fire: [number -> period]
  timers                         \* number of intervals set

runVars == <<optimizationRunning, optimizationCancelled, startEnabled, cancelEnabled,
             chains, chart, shown, toast, asked, seen, cancelledAt, started>>
refreshVars == <<autoRefresh, refreshInterval, refreshTimer, live, timers>>
appVars == <<runVars, refreshVars>>

Nothing == [fitness |-> 0, generations |-> 0, params |-> "none"]

AppInit ==
  /\ optimizationRunning = FALSE /\ optimizationCancelled = FALSE
  /\ startEnabled = TRUE /\ cancelEnabled = FALSE
  /\ chains = <<>> /\ chart = <<>> /\ shown = Nothing /\ toast = "none"
  /\ asked = Nothing /\ seen = <<>> /\ cancelledAt = 0 /\ started = 0
  /\ autoRefresh = TRUE
  /\ refreshInterval \in Intervals
  /\ refreshTimer = 1 /\ timers = 1
  /\ live = [i \in {1} |-> refreshInterval]

-----------------------------------------------------------------------------
(* The optimization panel *)

AddGeneration(line, f) ==
  LET longer == Append(line, f) IN
  IF Len(longer) > ChartLength THEN Tail(longer) ELSE longer

Better(best, f) == IF f > best THEN f ELSE best

\* The first generation runs in the same event as the click.
StartOptimization(s, n, f) ==
  /\ started < MaxRuns
  /\ startEnabled
  /\ ~ optimizationRunning
  /\ optimizationRunning' = TRUE /\ optimizationCancelled' = FALSE
  /\ startEnabled' = FALSE /\ cancelEnabled' = TRUE
  /\ shown' = Nothing /\ toast' = "started"
  /\ chart' = AddGeneration(<<>>, f)
  /\ started' = started + 1
  /\ chains' = [c \in DOMAIN chains \cup {started'} |->
                  IF c = started'
                  THEN [gen |-> 1, maxGen |-> n, best |-> Better(0, f), params |-> s]
                  ELSE chains[c]]
  /\ asked' = [fitness |-> 0, generations |-> n, params |-> s]
  /\ seen' = <<f>> /\ cancelledAt' = 0
  /\ UNCHANGED refreshVars

\* The delay is over and neither the last generation nor a cancellation came.
RunGeneration(c, f) ==
  /\ ~ optimizationCancelled
  /\ chains[c].gen < chains[c].maxGen
  /\ chains' = [chains EXCEPT ![c].gen = @ + 1, ![c].best = Better(@, f)]
  /\ chart' = AddGeneration(chart, f)
  /\ seen' = IF c = started THEN Append(seen, f) ELSE seen
  /\ UNCHANGED <<optimizationRunning, optimizationCancelled, startEnabled, cancelEnabled,
                 shown, toast, asked, cancelledAt, started, refreshVars>>

Forget(c) == Restrict(chains, DOMAIN chains \ {c})

\* A cancellation is reported only where the loop tests it, before another
\* generation; the result is withheld in either case.
EndOptimization_Return(c) ==   \* faulty: a cancelled run returns from the loop
  /\ optimizationCancelled \/ chains[c].gen = chains[c].maxGen
  /\ IF optimizationCancelled
     THEN UNCHANGED <<shown, optimizationRunning, startEnabled, cancelEnabled>>
     ELSE /\ shown' = [fitness |-> chains[c].best, generations |-> chains[c].maxGen,
                       params |-> chains[c].params]
          /\ optimizationRunning' = FALSE /\ startEnabled' = TRUE /\ cancelEnabled' = FALSE
  /\ toast' = IF ~ optimizationCancelled THEN "done" ELSE "cancelled"
  /\ chains' = Forget(c)
  /\ UNCHANGED <<optimizationCancelled, chart, asked, seen, cancelledAt, started, refreshVars>>

EndOptimization(c) ==
  /\ optimizationCancelled \/ chains[c].gen = chains[c].maxGen
  /\ shown' = IF optimizationCancelled THEN shown
              ELSE [fitness |-> chains[c].best, generations |-> chains[c].maxGen,
                    params |-> chains[c].params]
  /\ toast' = IF ~ optimizationCancelled THEN "done"
              ELSE IF chains[c].gen < chains[c].maxGen THEN "cancelled"
              ELSE toast
  /\ optimizationRunning' = FALSE
  /\ startEnabled' = TRUE /\ cancelEnabled' = FALSE
  /\ chains' = Forget(c)
  /\ UNCHANGED <<optimizationCancelled, chart, asked, seen, cancelledAt, started, refreshVars>>

CancelOptimization_Idle ==   \* faulty: lets the next run start at once
  /\ cancelEnabled
  /\ optimizationCancelled' = TRUE
  /\ optimizationRunning' = FALSE
  /\ startEnabled' = TRUE /\ cancelEnabled' = FALSE
  /\ cancelledAt' = IF optimizationCancelled THEN cancelledAt ELSE Len(seen)
  /\ UNCHANGED <<chains, chart, shown, toast, asked, seen, started, refreshVars>>

CancelOptimization ==
  /\ cancelEnabled
  /\ optimizationCancelled' = TRUE
  /\ cancelledAt' = IF optimizationCancelled THEN cancelledAt ELSE Len(seen)
  /\ UNCHANGED <<optimizationRunning, startEnabled, cancelEnabled, chains, chart, shown,
                 toast, asked, seen, started, refreshVars>>

Resume(c) ==
  /\ c \in DOMAIN chains
  /\ EndOptimization(c) \/ \E f \in Fitness : RunGeneration(c, f)

-----------------------------------------------------------------------------
(* The refresh timer.  on and period are the values just set.                *)

StopDataRefresh ==
  /\ live' = Restrict(live, DOMAIN live \ {refreshTimer})
  /\ refreshTimer' = 0
  /\ UNCHANGED timers

StartDataRefresh_NoStop(on, period) ==   \* faulty: the old interval goes on
  IF on
  THEN /\ timers' = timers + 1
       /\ refreshTimer' = timers'
       /\ live' = [i \in DOMAIN live \cup {timers'} |->
                     IF i = timers' THEN period ELSE live[i]]
  ELSE StopDataRefresh

\* It stops the interval it knows before it sets another.
StartDataRefresh(on, period) ==
  IF on
  THEN /\ timers' = timers + 1
       /\ refreshTimer' = timers'
       /\ live' = [i \in (DOMAIN live \ {refreshTimer}) \cup {timers'} |->
                     IF i = timers' THEN period ELSE live[i]]
  ELSE StopDataRefresh

ToggleRefresh ==
  /\ timers < MaxTimers
  /\ autoRefresh' = ~ autoRefresh
  /\ IF autoRefresh' THEN StartDataRefresh(TRUE, refreshInterval) ELSE StopDataRefresh
  /\ UNCHANGED <<runVars, refreshInterval>>

ChooseInterval(period) ==
  /\ timers < MaxTimers
  /\ refreshInterval' = period
  /\ StartDataRefresh(autoRefresh, period)
  /\ UNCHANGED <<runVars, autoRefresh>>

-----------------------------------------------------------------------------

AppNext ==
  \/ \E s \in Settings, n \in Generations, f \in Fitness : StartOptimization(s, n, f)
  \/ \E c \in 1..MaxRuns : Resume(c)
  \/ CancelOptimization
  \/ ToggleRefresh
  \/ \E period \in Intervals : ChooseInterval(period)

\* A delay that has begun ends; nobody has to click.
AppFairness == \A c \in 1..MaxRuns : WF_appVars(Resume(c))

AppSpec == AppInit /\ [][AppNext]_appVars /\ AppFairness

-----------------------------------------------------------------------------
(* Properties *)

\* What the panel shows is the last run alone: its chart, and once the run is over
\* its best fitness, its generations and the settings it was started with, or
\* nothing if it was cancelled, in which case no later generation ran.  No late
\* step of an earlier run shows through (app.js:620-727).
PanelShowsLastRun ==
  /\ chart = SubSeq(seen, Max({1, Len(seen) - ChartLength + 1}), Len(seen))
  /\ optimizationRunning <=> DOMAIN chains = {started}
  /\ ~ optimizationRunning => chains = <<>>
  /\ shown # Nothing <=> toast = "done"
  /\ shown # Nothing => /\ shown = [asked EXCEPT !.fitness = Max(Range(seen))]
                        /\ Len(seen) = shown.generations
  /\ started > 0 /\ ~ optimizationRunning /\ shown = Nothing => cancelledAt = Len(seen)

\* One interval fires, with the chosen period, when automatic refresh is on, and
\* none when it is off: no interval that refreshTimer has lost goes on
\* (app.js:355-382, 425-443).
RefreshAsSet ==
  IF autoRefresh
  THEN DOMAIN live = {refreshTimer} /\ live[refreshTimer] = refreshInterval
  ELSE live = <<>>

\* A run ends, cancelled or not, and the panel can start another: no path leaves the
\* flag or the buttons behind (app.js:663-723).
PanelComesFree ==
  optimizationRunning ~> (~ optimizationRunning /\ startEnabled /\ ~ cancelEnabled)
=============================================================================
