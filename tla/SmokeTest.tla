------------------------------ MODULE SmokeTest ------------------------------
(***************************************************************************)
(* main(): the only client of the two services.  Its smoke test sends one  *)
(* request to each service in turn and polls for an answer a bounded       *)
(* number of times; then main() ticks until a signal, and stops and joins  *)
(* the services in the opposite order.                                     *)
(***************************************************************************)
EXTENDS RequestServices

CONSTANTS SmokeOrder,   \* the services in the order of their requests: dem, opt
          MaxPolls      \* [Services -> Nat \ {0}]: 200 and 500 in the program

\* main() uses every service it starts, each once; all queues have room for thousands.
ASSUME SmokeAssumption ==
  /\ SmokeOrder \in Seq(Services) /\ SmokeOrder # <<>>
  /\ \A i, j \in 1..Len(SmokeOrder) : i # j => SmokeOrder[i] # SmokeOrder[j]
  /\ \A s \in Services : \E i \in 1..Len(SmokeOrder) : SmokeOrder[i] = s
  /\ MaxPolls \in [Services -> Nat \ {0}]
  /\ MaxRequests >= 1 /\ ReqCapacity >= 1 /\ RespCapacity >= 1

VARIABLES main,         \* where main() is
          at,           \* the service it deals with, an index of SmokeOrder
          polls,        \* pops that found nothing
          g_shutdown

mainVars == <<main, at, polls, g_shutdown>>
vars == <<serviceVars, mainVars>>

Current == SmokeOrder[at]

Init ==
  /\ ServiceInit
  /\ main = "start"
  /\ at = 1
  /\ polls = 0
  /\ g_shutdown = FALSE

-----------------------------------------------------------------------------

\* The first test of while (!g_shutdown): a signal that comes before it skips the
\* smoke test.
Begin ==
  /\ main = "start"
  /\ IF g_shutdown THEN main' = "stop" /\ at' = Len(SmokeOrder)
                   ELSE main' = "submit" /\ UNCHANGED at
  /\ UNCHANGED <<serviceVars, polls, g_shutdown>>

SendRequest ==
  /\ main = "submit"
  /\ \E kind \in Kinds[Current] \ {"generate"} : Submit(Current, kind)
  /\ main' = "poll"
  /\ polls' = 0
  /\ UNCHANGED <<at, g_shutdown>>

\* On to the next service, or to the ticks.
Advance ==
  /\ IF at < Len(SmokeOrder) THEN main' = "submit" /\ at' = at + 1
                             ELSE main' = "tick" /\ UNCHANGED at
  /\ UNCHANGED <<polls, g_shutdown>>

TakeAnswer ==
  /\ main = "poll"
  /\ polls < MaxPolls[Current]
  /\ Collect(Current)
  /\ Advance

PollAgain_Forever ==   \* faulty: a poll that does not count
  /\ main = "poll" /\ resp_q[Current] = <<>>
  /\ UNCHANGED <<serviceVars, mainVars>>

\* Nothing yet: main() sleeps before it looks again ...
PollAgain ==
  /\ main = "poll"
  /\ polls < MaxPolls[Current]
  /\ resp_q[Current] = <<>>
  /\ polls' = polls + 1
  /\ UNCHANGED <<serviceVars, main, at, g_shutdown>>

\* ... and not at all after its last sleep: an answer of that moment stays behind.
TimeOut ==
  /\ main = "poll"
  /\ polls = MaxPolls[Current]
  /\ GiveUp(Current)
  /\ Advance

sigint_handler ==
  /\ ~ g_shutdown
  /\ g_shutdown' = TRUE
  /\ UNCHANGED <<serviceVars, main, at, polls>>

\* The loop of main() sees the signal: the last service is stopped first.
EndTicks ==
  /\ main = "tick"
  /\ g_shutdown
  /\ main' = "stop"
  /\ UNCHANGED <<serviceVars, at, polls, g_shutdown>>

StopService_NoFlag ==   \* faulty: joins without clearing running_
  /\ main = "stop"
  /\ main' = "join"
  /\ UNCHANGED <<serviceVars, at, polls, g_shutdown>>

StopService ==
  /\ main = "stop"
  /\ Stop(Current)
  /\ main' = "join"
  /\ UNCHANGED <<at, polls, g_shutdown>>

JoinService_Detached ==   \* faulty: does not wait for the thread
  /\ main = "join"
  /\ IF at > 1 THEN main' = "stop" /\ at' = at - 1
               ELSE main' = "done" /\ UNCHANGED at
  /\ UNCHANGED <<serviceVars, polls, g_shutdown>>

JoinService ==
  /\ main = "join"
  /\ worker[Current] = "exited"
  /\ IF at > 1 THEN main' = "stop" /\ at' = at - 1
               ELSE main' = "done" /\ UNCHANGED at
  /\ UNCHANGED <<serviceVars, polls, g_shutdown>>

MainStep ==
  \/ Begin \/ SendRequest \/ TakeAnswer \/ PollAgain \/ TimeOut
  \/ EndTicks \/ StopService \/ JoinService

Next ==
  \/ MainStep
  \/ \E s \in Services : WorkerStep(s) /\ UNCHANGED mainVars
  \/ sigint_handler

\* Only main() is sure to run: a computation may take for ever.
Spec == Init /\ [][Next]_vars /\ WF_vars(MainStep)

-----------------------------------------------------------------------------
(* Properties *)

\* When main() returns and destroys the queues, no thread is left that could touch
\* them (main.cpp:204-212).
NoThreadOutlivesMain == main = "done" => \A s \in Services : worker[s] = "exited"

\* A request that timed out is not half done at the end: either the thread never
\* took it, or its answer is in the response queue for good (main.cpp:77-92 and
\* 106-121 against dem_simulator.cpp:118-135).
TimedOutIsQueued ==
  main = "done" =>
    \A s \in Services : runs[s].timeout = 1 => Len(req_q[s]) + Len(resp_q[s]) = 1

\* The smoke test ends even if a service never answers, and is not run again
\* (main.cpp:78, 107, 178-181).
SmokeEnds == <>[](main \notin {"start", "submit", "poll"})

\* A signal, whenever it comes, leads to the end of the process, provided that the
\* threads run and their computations return (main.cpp:178-212).
ShutdownJoinsServices ==
  (\A s \in Services : WF_serviceVars(WorkerStep(s))) => (g_shutdown ~> main = "done")
=============================================================================
