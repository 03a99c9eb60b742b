--------------------------- MODULE RequestServices ---------------------------
(***************************************************************************)
(* DemSimulator and SizeOptimizer: a thread each, which takes requests     *)
(* from a queue in batches (16 simulations, one optimization), computes    *)
(* and pushes one answer per request into the response queue.  stop()      *)
(* clears a flag that the thread reads between batches only, and joins.    *)
(*                                                                         *)
(* The clients push requests and pop answers through the two queues, each  *)
(* a MessageQueue; SmokeTest is the client the program has.  The result of *)
(* a computation is reduced to whether it succeeded.                       *)
(***************************************************************************)
EXTENDS QueueOps

CONSTANTS Services,
          Kinds,          \* [Services -> the kinds of request it takes]
          BatchMax,       \* [Services -> Nat \ {0}]
          ReqCapacity, RespCapacity,
          MaxRequests     \* bound: requests sent to one service

ASSUME ServicesAssumption ==
  /\ \A s \in Services : Kinds[s] \subseteq {"simulate", "generate", "optimize"}
  /\ BatchMax \in [Services -> Nat \ {0}]
  /\ ReqCapacity \in Nat /\ RespCapacity \in Nat /\ MaxRequests \in Nat

VARIABLES       \* every one is a function of the service
  req_q, resp_q,
  req_dropped, resp_dropped,   \* dropped() of the two queues
  sent,                        \* requests offered so far: the last request_id
  collected,                   \* history: answers popped by the clients
  running,                     \* running_
  worker,                      \* where the thread is
  batch,                       \* requests popped and not handled
  answer,                      \* the answer being pushed, if any
  runs,                        \* stonemill_{dem_simulations,optimizations}_total{status}
  resp_drop_metric             \* stonemill_queue_dropped_total{queue="..._resp"}

clientVars == <<req_dropped, sent, collected>>
threadVars == <<worker, batch, answer>>
metricVars == <<runs, resp_drop_metric>>
serviceVars == <<req_q, resp_q, resp_dropped, running, clientVars, threadVars, metricVars>>

Everywhere(x) == [s \in Services |-> x]

ServiceInit ==
  /\ req_q = Everywhere(<<>>) /\ resp_q = Everywhere(<<>>)
  /\ req_dropped = Everywhere(0) /\ resp_dropped = Everywhere(0)
  /\ sent = Everywhere(0)
  /\ collected = Everywhere(<<>>)
  /\ running = Everywhere(TRUE)
  /\ worker = Everywhere("test")
  /\ batch = Everywhere(<<>>)
  /\ answer = Everywhere(<<>>)
  /\ runs = Everywhere([ok |-> 0, error |-> 0, timeout |-> 0])
  /\ resp_drop_metric = Everywhere(0)

-----------------------------------------------------------------------------
(* The clients *)

\* A client pushes a request; it does not look at what push() returned.
Submit(s, kind) ==
  /\ sent[s] < MaxRequests
  /\ sent' = [sent EXCEPT ![s] = @ + 1]
  /\ \/ /\ MayAccept(req_q[s], ReqCapacity)
        /\ req_q' = [req_q EXCEPT ![s] = Append(@, [id |-> sent[s] + 1, kind |-> kind])]
        /\ UNCHANGED req_dropped
     \/ /\ MayRefuse(req_q[s], ReqCapacity)
        /\ req_dropped' = [req_dropped EXCEPT ![s] = @ + 1]
        /\ UNCHANGED req_q
  /\ UNCHANGED <<resp_q, resp_dropped, collected, running, threadVars, metricVars>>

\* A client pops the oldest answer; nothing ties it to the request it waits for.  It
\* counts as a run that is ok, whatever it says.
Collect(s) ==
  /\ resp_q[s] # <<>>
  /\ collected' = [collected EXCEPT ![s] = Append(@, Head(resp_q[s]))]
  /\ resp_q' = [resp_q EXCEPT ![s] = Tail(@)]
  /\ runs' = [runs EXCEPT ![s].ok = @ + 1]
  /\ UNCHANGED <<req_q, req_dropped, resp_dropped, sent, running, threadVars,
                 resp_drop_metric>>

\* A client stops waiting for an answer, which may still come.
GiveUp(s) ==
  /\ runs[s].timeout < sent[s]
  /\ runs' = [runs EXCEPT ![s].timeout = @ + 1]
  /\ UNCHANGED <<req_q, resp_q, resp_dropped, running, clientVars, threadVars,
                 resp_drop_metric>>

\* The first half of stop(); the second waits for worker[s] = "exited".
Stop(s) ==
  /\ running[s]
  /\ running' = [running EXCEPT ![s] = FALSE]
  /\ UNCHANGED <<req_q, resp_q, resp_dropped, clientVars, threadVars, metricVars>>

-----------------------------------------------------------------------------
(* The threads *)

TestRunning(s) ==
  /\ worker[s] = "test"
  /\ worker' = [worker EXCEPT ![s] = IF running[s] THEN "pop" ELSE "exited"]
  /\ UNCHANGED <<req_q, resp_q, resp_dropped, running, clientVars, batch, answer, metricVars>>

PopRequests_Newest(s) ==   \* faulty: takes the newest requests first
  LET n == BulkSize(req_q[s], BatchMax[s]) IN
  /\ worker[s] = "pop"
  /\ batch' = [batch EXCEPT ![s] = SubSeq(req_q[s], Len(req_q[s]) - n + 1, Len(req_q[s]))]
  /\ req_q' = [req_q EXCEPT ![s] = SubSeq(@, 1, Len(@) - n)]
  /\ worker' = [worker EXCEPT ![s] = IF req_q[s] = <<>> THEN "test" ELSE "next"]
  /\ UNCHANGED <<resp_q, resp_dropped, running, clientVars, answer, metricVars>>

\* pop_bulk (or pop); when it returns nothing the thread sleeps and tests again.
PopRequests(s) ==
  /\ worker[s] = "pop"
  /\ batch' = [batch EXCEPT ![s] = BulkOf(req_q[s], BatchMax[s])]
  /\ req_q' = [req_q EXCEPT ![s] = BulkRest(@, BatchMax[s])]
  /\ worker' = [worker EXCEPT ![s] = IF req_q[s] = <<>> THEN "test" ELSE "next"]
  /\ UNCHANGED <<resp_q, resp_dropped, running, clientVars, answer, metricVars>>

Handle_Throws(s) ==   \* faulty: the exception leaves the loop without an answer
  /\ worker[s] = "next" /\ batch[s] # <<>>
  /\ \E success \in BOOLEAN :
       answer' = [answer EXCEPT ![s] =
         IF success THEN <<[id |-> Head(batch[s]).id, success |-> TRUE]>> ELSE <<>>]
  /\ batch' = [batch EXCEPT ![s] = Tail(@)]
  /\ worker' = [worker EXCEPT ![s] = "reply"]
  /\ UNCHANGED <<req_q, resp_q, resp_dropped, running, clientVars, metricVars>>

\* handle_simulate, handle_generate, run_optimization: an exception becomes an
\* answer that says so.  Generating particles is in no metric.
Handle(s) ==
  /\ worker[s] = "next"
  /\ batch[s] # <<>>
  /\ LET req == Head(batch[s]) IN \E success \in BOOLEAN :
       /\ answer' = [answer EXCEPT ![s] = <<[id |-> req.id, success |-> success]>>]
       /\ runs' = IF req.kind = "generate" THEN runs
                  ELSE [runs EXCEPT ![s][IF success THEN "ok" ELSE "error"] = @ + 1]
  /\ batch' = [batch EXCEPT ![s] = Tail(@)]
  /\ worker' = [worker EXCEPT ![s] = "reply"]
  /\ UNCHANGED <<req_q, resp_q, resp_dropped, running, clientVars, resp_drop_metric>>

PushAnswer_Retry(s) ==   \* faulty: a refused answer is offered again
  /\ worker[s] = "reply" /\ MayAccept(resp_q[s], RespCapacity)
  /\ resp_q' = [resp_q EXCEPT ![s] = @ \o answer[s]]
  /\ worker' = [worker EXCEPT ![s] = "next"]
  /\ answer' = [answer EXCEPT ![s] = <<>>]
  /\ UNCHANGED <<req_q, resp_dropped, running, clientVars, batch, metricVars>>

\* The answer goes to the response queue, or is lost with it full.
PushAnswer(s) ==
  /\ worker[s] = "reply"
  /\ \/ /\ MayAccept(resp_q[s], RespCapacity)
        /\ resp_q' = [resp_q EXCEPT ![s] = @ \o answer[s]]
        /\ worker' = [worker EXCEPT ![s] = "next"]
        /\ UNCHANGED resp_dropped
     \/ /\ MayRefuse(resp_q[s], RespCapacity)
        /\ resp_dropped' = [resp_dropped EXCEPT ![s] = @ + 1]
        /\ worker' = [worker EXCEPT ![s] = "count"]
        /\ UNCHANGED resp_q
  /\ answer' = [answer EXCEPT ![s] = <<>>]
  /\ UNCHANGED <<req_q, running, clientVars, batch, metricVars>>

ExportDrop_Twice(s) ==   \* faulty: exports the counter of the queue on top
  /\ worker[s] = "count"
  /\ resp_drop_metric' = [resp_drop_metric EXCEPT ![s] = @ + resp_dropped[s]]
  /\ worker' = [worker EXCEPT ![s] = "next"]
  /\ UNCHANGED <<req_q, resp_q, resp_dropped, running, clientVars, batch, answer, runs>>

ExportDrop(s) ==
  /\ worker[s] = "count"
  /\ resp_drop_metric' = [resp_drop_metric EXCEPT ![s] = @ + 1]
  /\ worker' = [worker EXCEPT ![s] = "next"]
  /\ UNCHANGED <<req_q, resp_q, resp_dropped, running, clientVars, batch, answer, runs>>

EndBatch_Exit(s) ==   \* faulty: the thread ends with its first batch
  /\ worker[s] = "next" /\ batch[s] = <<>>
  /\ worker' = [worker EXCEPT ![s] = "exited"]
  /\ UNCHANGED <<req_q, resp_q, resp_dropped, running, clientVars, batch, answer, metricVars>>

EndBatch(s) ==
  /\ worker[s] = "next"
  /\ batch[s] = <<>>
  /\ worker' = [worker EXCEPT ![s] = "test"]
  /\ UNCHANGED <<req_q, resp_q, resp_dropped, running, clientVars, batch, answer, metricVars>>

WorkerStep(s) ==
  \/ TestRunning(s) \/ PopRequests(s) \/ Handle(s)
  \/ PushAnswer(s) \/ ExportDrop(s) \/ EndBatch(s)

-----------------------------------------------------------------------------
(* The services on their own, under any client *)

ServiceNext ==
  \E s \in Services :
    \/ \E kind \in Kinds[s] : Submit(s, kind)
    \/ Collect(s) \/ GiveUp(s)
    \/ Stop(s)
    \/ WorkerStep(s)

\* Each thread keeps running, and every computation returns.
ServiceFairness == \A s \in Services : WF_serviceVars(WorkerStep(s))

ServiceSafe == ServiceInit /\ [][ServiceNext]_serviceVars
ServiceSpec == ServiceSafe /\ ServiceFairness

-----------------------------------------------------------------------------
(* Properties *)

Ids == 1..MaxRequests
Answers == [id : Ids, success : BOOLEAN]
Requests == [id : Ids, kind : UNION {Kinds[s] : s \in Services}]

ServiceTypeOK ==
  /\ \A f \in {req_dropped, resp_dropped, resp_drop_metric} : f \in [Services -> Nat]
  /\ sent \in [Services -> 0..MaxRequests]
  /\ running \in [Services -> BOOLEAN]
  /\ worker \in [Services -> {"test", "pop", "next", "reply", "count", "exited"}]
  /\ runs \in [Services -> [{"ok", "error", "timeout"} -> Nat]]
  /\ \A f \in {req_q, batch} : f \in [Services -> Seq(Requests)]
  /\ \A f \in {resp_q, collected, answer} : f \in [Services -> Seq(Answers)]

\* Each request pushed is refused, queued, in the batch, being answered, answered,
\* or its answer was dropped, and counted where it was refused or dropped
\* (dem_simulator.cpp:115-137, size_optimizer.cpp:44-88).
RequestsAccountedFor ==
  \A s \in Services :
    sent[s] = req_dropped[s] + Len(req_q[s]) + Len(batch[s]) + Len(answer[s])
                + Len(resp_q[s]) + Len(collected[s]) + resp_dropped[s]

\* What a service was asked and what it said, oldest first.
IdsOf(q) == [i \in 1..Len(q) |-> q[i].id]
Ledger(s) == IdsOf(collected[s]) \o IdsOf(resp_q[s]) \o IdsOf(answer[s])
               \o IdsOf(batch[s]) \o IdsOf(req_q[s])

Increasing(q) == \A i, j \in 1..Len(q) : i < j => q[i] < q[j]

\* Answers come in the order of the requests and never twice, whatever was refused
\* or dropped in between: a client that counts can tell which ones it lost
\* (dem_simulator.cpp:119-135, size_optimizer.cpp:46-86).
AnsweredInOrder ==
  \A s \in Services : Increasing(Ledger(s))

\* The metric counts each dropped answer once (dem_simulator.cpp:130-133,
\* size_optimizer.cpp:83-86).
AnswerDropsCounted ==
  \A s \in Services :
    resp_dropped[s] = resp_drop_metric[s] + (IF worker[s] = "count" THEN 1 ELSE 0)

\* stop() leaves requests in the queue but none half done: a thread that exited was
\* told to, and answered everything it had popped (dem_simulator.cpp:118-135).
ExitsOnlyWhenToldAndDone ==
  \A s \in Services :
    worker[s] = "exited" => ~ running[s] /\ batch[s] = <<>> /\ answer[s] = <<>>

\* A full response queue blocks nobody: the thread takes every request while it is
\* not stopped, though no client may ever collect an answer
\* (dem_simulator.cpp:118-135, size_optimizer.cpp:45-86).
RequestsTaken ==
  \A s \in Services : req_q[s] # <<>> ~> req_q[s] = <<>> \/ ~ running[s]

\* stop() returns: the thread exits, however full the queues are
\* (dem_simulator.cpp:27-32, size_optimizer.cpp:27-32).
StopReturns == \A s \in Services : ~ running[s] ~> worker[s] = "exited"
=============================================================================
