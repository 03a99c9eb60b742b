------------------------ MODULE RequestServicesProofs ------------------------
(***************************************************************************)
(* For any services, batch sizes, capacities and clients: no request is    *)
(* lost unseen, answers keep the order of the requests, drops are counted  *)
(* once, no thread leaves with work in its hands, and a response queue is  *)
(* used as the MessageQueue it is (ResponseQueue).                         *)
(*                                                                         *)
(* main() is one of these clients (MainIsAClient), so all of that holds    *)
(* under it.  Of main() itself: it outlives every thread, because the      *)
(* services behind the one it stops have exited (Stopped), and what it     *)
(* stopped waiting for is queued, because it sends one request to each     *)
(* service and never comes back for a late answer (OneEach).               *)
(***************************************************************************)
EXTENDS SmokeTest, BulkOpsProofs

USE ServicesAssumption

\* What a thread holds where: an answer only while it offers it, requests only
\* inside its batch loop.
Hands ==
  \A s \in Services :
    /\ worker[s] = "reply" => Len(answer[s]) = 1
    /\ worker[s] # "reply" => answer[s] = <<>>
    /\ worker[s] \in {"test", "pop", "exited"} => batch[s] = <<>>

TypeInv == ServiceTypeOK /\ Hands

LEMMA Types ==
  ASSUME TypeInv
  PROVE  /\ req_dropped \in [Services -> Nat]
         /\ resp_dropped \in [Services -> Nat]
         /\ resp_drop_metric \in [Services -> Nat]
         /\ req_q \in [Services -> Seq(Requests)]
         /\ batch \in [Services -> Seq(Requests)]
         /\ resp_q \in [Services -> Seq(Answers)]
         /\ collected \in [Services -> Seq(Answers)]
         /\ answer \in [Services -> Seq(Answers)]
         /\ sent \in [Services -> 0..MaxRequests]
         /\ running \in [Services -> BOOLEAN]
         /\ worker \in [Services -> {"test", "pop", "next", "reply", "count", "exited"}]
         /\ runs \in [Services -> [{"ok", "error", "timeout"} -> Nat]]
BY DEF TypeInv, ServiceTypeOK

LEMMA InitTypeInv == ServiceInit => TypeInv
<1> SUFFICES ASSUME ServiceInit PROVE TypeInv
  OBVIOUS
<1>1. /\ <<>> \in Seq(Requests) /\ <<>> \in Seq(Answers)
      /\ 0 \in 0..MaxRequests
  BY EmptySeq
<1>2. runs \in [Services -> [{"ok", "error", "timeout"} -> Nat]]
  BY DEF ServiceInit, Everywhere
<1>3. ServiceTypeOK
  BY <1>1, <1>2 DEF ServiceInit, Everywhere, ServiceTypeOK
<1> QED BY <1>3 DEF ServiceInit, Everywhere, TypeInv, Hands

\* Counting one more run keeps the types.
LEMMA CountingTypes ==
  ASSUME TypeInv, NEW s \in Services, NEW status \in {"ok", "error", "timeout"}
  PROVE  [runs EXCEPT ![s] = [runs[s] EXCEPT ![status] = runs[s][status] + 1]]
           \in [Services -> [{"ok", "error", "timeout"} -> Nat]]
<1>1. runs[s] \in [{"ok", "error", "timeout"} -> Nat]
  BY Types
<1>2. [runs[s] EXCEPT ![status] = runs[s][status] + 1] \in [{"ok", "error", "timeout"} -> Nat]
  BY <1>1
<1> QED BY <1>2, Types

LEMMA ClientTypes ==
  ASSUME TypeInv, NEW s \in Services,
         \/ \E kind \in Kinds[s] : Submit(s, kind)
         \/ Collect(s)
         \/ GiveUp(s)
         \/ Stop(s)
  PROVE  TypeInv'
<1> USE DEF clientVars, threadVars, metricVars
<1>1. ASSUME NEW kind \in Kinds[s], Submit(s, kind) PROVE TypeInv'
  <2>1. sent[s] \in 0..MaxRequests /\ sent[s] < MaxRequests /\ MaxRequests \in Nat
    BY <1>1, Types DEF Submit
  <2>2. sent[s] + 1 \in Ids /\ sent[s] + 1 \in 0..MaxRequests
    BY <2>1 DEF Ids
  <2> DEFINE request == [id |-> sent[s] + 1, kind |-> kind]
  <2>3. request \in Requests
    BY <2>2 DEF Requests
  <2>4. req_q[s] \in Seq(Requests)
    BY Types
  <2>5. Append(req_q[s], request) \in Seq(Requests)
    BY <2>3, <2>4, AppendProperties
  <2>6. req_q' = req_q \/ req_q' = [req_q EXCEPT ![s] = Append(req_q[s], request)]
    BY <1>1 DEF Submit
  <2>7. req_q' \in [Services -> Seq(Requests)]
    BY <2>5, <2>6, Types
  <2>8. sent' \in [Services -> 0..MaxRequests]
    BY <1>1, <2>2, Types DEF Submit
  <2>9. req_dropped' \in [Services -> Nat]
    <3>1. req_dropped' = req_dropped \/ req_dropped' = [req_dropped EXCEPT ![s] = req_dropped[s] + 1]
      BY <1>1 DEF Submit
    <3>2. req_dropped \in [Services -> Nat]
      BY Types
    <3>3. [req_dropped EXCEPT ![s] = req_dropped[s] + 1] \in [Services -> Nat]
      BY <3>2
    <3> QED BY <3>1, <3>2, <3>3
  <2>10. UNCHANGED <<resp_q, resp_dropped, collected, running, worker, batch, answer, runs,
                     resp_drop_metric>>
    BY <1>1 DEF Submit
  <2> QED BY <2>7, <2>8, <2>9, <2>10 DEF TypeInv, ServiceTypeOK, Hands
<1>2. CASE Collect(s)
  <2>1. resp_q[s] \in Seq(Answers) /\ resp_q[s] # <<>> /\ collected[s] \in Seq(Answers)
    BY <1>2, Types DEF Collect
  <2>2. Head(resp_q[s]) \in Answers /\ Tail(resp_q[s]) \in Seq(Answers)
    BY <2>1, HeadTailProperties
  <2>3. Append(collected[s], Head(resp_q[s])) \in Seq(Answers)
    BY <2>1, <2>2, AppendProperties
  <2>4. /\ collected' \in [Services -> Seq(Answers)]
        /\ resp_q' \in [Services -> Seq(Answers)]
    BY <1>2, <2>2, <2>3, Types DEF Collect
  <2>5. runs' = [runs EXCEPT ![s] = [runs[s] EXCEPT !.ok = runs[s].ok + 1]]
    BY <1>2 DEF Collect
  <2>6. runs' \in [Services -> [{"ok", "error", "timeout"} -> Nat]]
    BY <2>5, CountingTypes
  <2> QED BY <1>2, <2>4, <2>6 DEF Collect, TypeInv, ServiceTypeOK, Hands
<1>4. CASE GiveUp(s)
  <2>1. runs' = [runs EXCEPT ![s] = [runs[s] EXCEPT !.timeout = runs[s].timeout + 1]]
    BY <1>4 DEF GiveUp
  <2>2. runs' \in [Services -> [{"ok", "error", "timeout"} -> Nat]]
    BY <2>1, CountingTypes
  <2> QED BY <1>4, <2>2 DEF GiveUp, TypeInv, ServiceTypeOK, Hands
<1>3. CASE Stop(s)
  <2>1. running' \in [Services -> BOOLEAN]
    BY <1>3, Types DEF Stop
  <2> QED BY <1>3, <2>1 DEF Stop, TypeInv, ServiceTypeOK, Hands
<1> QED BY <1>1, <1>2, <1>3, <1>4

LEMMA WorkerTypes ==
  ASSUME TypeInv, NEW s \in Services, WorkerStep(s)
  PROVE  TypeInv'
<1> USE DEF clientVars, threadVars, metricVars
<1> DEFINE W == {"test", "pop", "next", "reply", "count", "exited"}
<1>w. worker \in [Services -> W]
  BY Types
<1>1. CASE TestRunning(s)
  <2>1. worker' \in [Services -> W]
    BY <1>1, <1>w DEF TestRunning
  <2>2. Hands'
    BY <1>1, <1>w DEF TestRunning, TypeInv, Hands
  <2> QED BY <1>1, <2>1, <2>2 DEF TestRunning, TypeInv, ServiceTypeOK
<1>2. CASE PopRequests(s)
  <2>1. req_q[s] \in Seq(Requests) /\ BatchMax[s] \in Nat \ {0}
    BY Types
  <2>2. /\ BulkOf(req_q[s], BatchMax[s]) \in Seq(Requests)
        /\ BulkRest(req_q[s], BatchMax[s]) \in Seq(Requests)
        /\ req_q[s] = <<>> <=> BulkOf(req_q[s], BatchMax[s]) = <<>>
    BY <2>1, BulkSplits, BulkOfEmpty
  <2>3. batch' \in [Services -> Seq(Requests)] /\ req_q' \in [Services -> Seq(Requests)]
    BY <1>2, <2>2, Types DEF PopRequests
  <2>4. worker' \in [Services -> W]
    BY <1>2, <1>w DEF PopRequests
  <2>5. Hands'
    BY <1>2, <1>w, <2>2, Types DEF PopRequests, TypeInv, Hands
  <2> QED BY <1>2, <2>3, <2>4, <2>5 DEF PopRequests, TypeInv, ServiceTypeOK
<1>3. CASE Handle(s)
  <2>1. batch[s] \in Seq(Requests) /\ batch[s] # <<>>
    BY <1>3, Types DEF Handle
  <2>2. Head(batch[s]) \in Requests /\ Tail(batch[s]) \in Seq(Requests)
    BY <2>1, HeadTailProperties
  <2>3. batch' \in [Services -> Seq(Requests)] /\ worker' \in [Services -> W]
    BY <1>3, <1>w, <2>2, Types DEF Handle
  <2>4. PICK success \in BOOLEAN :
          /\ answer' = [answer EXCEPT ![s] = <<[id |-> Head(batch[s]).id, success |-> success]>>]
          /\ runs' = IF Head(batch[s]).kind = "generate" THEN runs
                     ELSE [runs EXCEPT ![s][IF success THEN "ok" ELSE "error"] = @ + 1]
    BY <1>3 DEF Handle
  <2>5. [id |-> Head(batch[s]).id, success |-> success] \in Answers
    BY <2>2 DEF Requests, Answers
  <2>6. <<[id |-> Head(batch[s]).id, success |-> success]>> \in Seq(Answers)
    BY <2>5
  <2>7. answer' \in [Services -> Seq(Answers)]
    BY <2>4, <2>6, Types
  <2>8. runs' \in [Services -> [{"ok", "error", "timeout"} -> Nat]]
    <3>1. runs[s] \in [{"ok", "error", "timeout"} -> Nat]
      BY Types
    <3>2. [runs[s] EXCEPT ![IF success THEN "ok" ELSE "error"] = @ + 1]
            \in [{"ok", "error", "timeout"} -> Nat]
      BY <3>1
    <3> QED BY <2>4, <3>2, Types
  <2>9. Hands'
    BY <1>3, <1>w, <2>4, Types DEF Handle, TypeInv, Hands
  <2>10. UNCHANGED <<req_q, resp_q, resp_dropped, running, req_dropped, sent, collected,
                     resp_drop_metric>>
    BY <1>3 DEF Handle
  <2> QED BY <2>3, <2>7, <2>8, <2>9, <2>10 DEF TypeInv, ServiceTypeOK
<1>4. CASE PushAnswer(s)
  <2>1. resp_q[s] \in Seq(Answers) /\ answer[s] \in Seq(Answers) /\ <<>> \in Seq(Answers)
    BY Types, EmptySeq
  <2>2. resp_q[s] \o answer[s] \in Seq(Answers)
    BY <2>1, ConcatProperties
  <2>3. resp_q' = resp_q \/ resp_q' = [resp_q EXCEPT ![s] = resp_q[s] \o answer[s]]
    BY <1>4 DEF PushAnswer
  <2>4. resp_q' \in [Services -> Seq(Answers)]
    BY <2>2, <2>3, Types
  <2>5. answer' \in [Services -> Seq(Answers)]
    BY <1>4, <2>1, Types DEF PushAnswer
  <2>6. worker' \in [Services -> W] /\ resp_dropped' \in [Services -> Nat]
    <3>1. \/ worker' = [worker EXCEPT ![s] = "next"]
          \/ worker' = [worker EXCEPT ![s] = "count"]
      BY <1>4 DEF PushAnswer
    <3>2. \/ resp_dropped' = resp_dropped
          \/ resp_dropped' = [resp_dropped EXCEPT ![s] = resp_dropped[s] + 1]
      BY <1>4 DEF PushAnswer
    <3>3. resp_dropped \in [Services -> Nat]
      BY Types
    <3>4. [resp_dropped EXCEPT ![s] = resp_dropped[s] + 1] \in [Services -> Nat]
      BY <3>3
    <3>5. worker' \in [Services -> W]
      BY <3>1, <1>w
    <3> QED BY <3>2, <3>3, <3>4, <3>5
  <2>7. Hands'
    BY <1>4, <1>w, Types DEF PushAnswer, TypeInv, Hands
  <2>8. UNCHANGED <<req_q, running, req_dropped, sent, collected, batch, runs, resp_drop_metric>>
    BY <1>4 DEF PushAnswer
  <2> QED BY <2>4, <2>5, <2>6, <2>7, <2>8 DEF TypeInv, ServiceTypeOK
<1>5. CASE ExportDrop(s)
  <2>1. worker' \in [Services -> W] /\ resp_drop_metric' \in [Services -> Nat]
    BY <1>5, <1>w, Types DEF ExportDrop
  <2>2. Hands'
    BY <1>5, <1>w DEF ExportDrop, TypeInv, Hands
  <2>3. UNCHANGED <<req_q, resp_q, resp_dropped, running, req_dropped, sent, collected,
                    batch, answer, runs>>
    BY <1>5 DEF ExportDrop
  <2> QED BY <2>1, <2>2, <2>3 DEF TypeInv, ServiceTypeOK
<1>6. CASE EndBatch(s)
  <2>1. worker' \in [Services -> W]
    BY <1>6, <1>w DEF EndBatch
  <2>2. Hands'
    BY <1>6, <1>w DEF EndBatch, TypeInv, Hands
  <2> QED BY <1>6, <2>1, <2>2 DEF EndBatch, TypeInv, ServiceTypeOK
<1> QED BY <1>1, <1>2, <1>3, <1>4, <1>5, <1>6 DEF WorkerStep

LEMMA StepTypes == TypeInv /\ [ServiceNext]_serviceVars => TypeInv'
<1> SUFFICES ASSUME TypeInv, [ServiceNext]_serviceVars PROVE TypeInv'
  OBVIOUS
<1>1. CASE ServiceNext
  BY <1>1, ClientTypes, WorkerTypes DEF ServiceNext
<1>2. CASE UNCHANGED serviceVars
  BY <1>2 DEF serviceVars, clientVars, threadVars, metricVars, TypeInv, ServiceTypeOK, Hands
<1> QED BY <1>1, <1>2

\* Every state has its type, and threads hold work only inside their loops
\* (dem_simulator.cpp:115-137, size_optimizer.cpp:44-88).
THEOREM TypeCorrect == ServiceSafe => []TypeInv
<1> QED BY InitTypeInv, StepTypes, PTL DEF ServiceSafe

THEOREM ServiceTypes == ServiceSafe => []ServiceTypeOK
<1>1. TypeInv => ServiceTypeOK
  BY DEF TypeInv
<1> QED BY <1>1, TypeCorrect, PTL
-----------------------------------------------------------------------------
(* Steps of one service do not concern another *)

StepOf(s) ==
  \/ \E kind \in Kinds[s] : Submit(s, kind)
  \/ Collect(s)
  \/ GiveUp(s)
  \/ Stop(s)
  \/ WorkerStep(s)

LEMMA NextIsAStep == ServiceNext <=> \E s \in Services : StepOf(s)
BY DEF ServiceNext, StepOf

LEMMA OthersUntouched ==
  ASSUME TypeInv, NEW s \in Services, StepOf(s), NEW t \in Services, t # s
  PROVE  /\ req_q'[t] = req_q[t] /\ resp_q'[t] = resp_q[t]
         /\ batch'[t] = batch[t] /\ answer'[t] = answer[t]
         /\ collected'[t] = collected[t] /\ sent'[t] = sent[t]
         /\ req_dropped'[t] = req_dropped[t] /\ resp_dropped'[t] = resp_dropped[t]
         /\ resp_drop_metric'[t] = resp_drop_metric[t]
         /\ worker'[t] = worker[t] /\ running'[t] = running[t]
<1> USE DEF clientVars, threadVars, metricVars
<1>1. ASSUME NEW kind \in Kinds[s], Submit(s, kind)
      PROVE  /\ req_q'[t] = req_q[t] /\ sent'[t] = sent[t] /\ req_dropped'[t] = req_dropped[t]
             /\ UNCHANGED <<resp_q, batch, answer, collected, resp_dropped, resp_drop_metric,
                            worker, running>>
  BY <1>1, Types DEF Submit
<1>2. CASE Collect(s)
  BY <1>2, Types DEF Collect
<1>3. CASE Stop(s)
  BY <1>3, Types DEF Stop
<1>10. CASE GiveUp(s)
  BY <1>10, Types DEF GiveUp
<1>4. CASE TestRunning(s)
  BY <1>4, Types DEF TestRunning
<1>5. CASE PopRequests(s)
  BY <1>5, Types DEF PopRequests
<1>6. CASE Handle(s)
  BY <1>6, Types DEF Handle
<1>7. CASE PushAnswer(s)
  BY <1>7, Types DEF PushAnswer
<1>8. CASE ExportDrop(s)
  BY <1>8, Types DEF ExportDrop
<1>9. CASE EndBatch(s)
  BY <1>9, Types DEF EndBatch
<1> QED BY <1>1, <1>2, <1>3, <1>4, <1>5, <1>6, <1>7, <1>8, <1>9, <1>10 DEF StepOf, WorkerStep

-----------------------------------------------------------------------------
(* The drop counters and the end of the threads *)

\* The exported counter of dropped answers is exact, but for the drop whose counting
\* is under way (dem_simulator.cpp:130-133, size_optimizer.cpp:83-86).
THEOREM DropsCounted == ServiceSafe => []AnswerDropsCounted
<1>1. ServiceInit => AnswerDropsCounted
  BY DEF ServiceInit, Everywhere, AnswerDropsCounted
<1>2. TypeInv /\ AnswerDropsCounted /\ [ServiceNext]_serviceVars => AnswerDropsCounted'
  <2> SUFFICES ASSUME TypeInv, AnswerDropsCounted, NEW s \in Services, StepOf(s),
                      NEW t \in Services
               PROVE  resp_dropped'[t] = resp_drop_metric'[t]
                                           + (IF worker'[t] = "count" THEN 1 ELSE 0)
    <3>1. UNCHANGED serviceVars => (AnswerDropsCounted => AnswerDropsCounted')
      BY DEF serviceVars, threadVars, metricVars, AnswerDropsCounted
    <3> QED BY <3>1, NextIsAStep DEF AnswerDropsCounted
  <2>0. resp_dropped[t] = resp_drop_metric[t] + (IF worker[t] = "count" THEN 1 ELSE 0)
    BY DEF AnswerDropsCounted
  <2>t. /\ resp_dropped \in [Services -> Nat] /\ resp_drop_metric \in [Services -> Nat]
        /\ DOMAIN worker = Services
    BY Types
  <2>1. CASE t # s
    BY <2>0, <2>1, OthersUntouched
  <2>2. CASE t = s
    <3> USE DEF clientVars, threadVars, metricVars
    <3>1. CASE PushAnswer(s)
      <4>1. worker[s] = "reply" /\ resp_drop_metric' = resp_drop_metric
        BY <3>1 DEF PushAnswer
      <4>2. \/ worker' = [worker EXCEPT ![s] = "next"] /\ resp_dropped' = resp_dropped
            \/ /\ worker' = [worker EXCEPT ![s] = "count"]
               /\ resp_dropped' = [resp_dropped EXCEPT ![s] = resp_dropped[s] + 1]
        BY <3>1 DEF PushAnswer
      <4>3. \/ worker'[s] = "next" /\ resp_dropped'[s] = resp_dropped[s]
            \/ worker'[s] = "count" /\ resp_dropped'[s] = resp_dropped[s] + 1
        BY <4>2, <2>t
      <4> QED BY <2>0, <2>2, <2>t, <4>1, <4>3
    <3>2. CASE ExportDrop(s)
      <4>1. /\ worker[s] = "count" /\ worker'[s] = "next"
            /\ resp_drop_metric'[s] = resp_drop_metric[s] + 1 /\ resp_dropped' = resp_dropped
        BY <3>2, <2>t DEF ExportDrop
      <4> QED BY <2>0, <2>2, <2>t, <4>1
    <3>3. CASE ~ PushAnswer(s) /\ ~ ExportDrop(s)
      <4>1. UNCHANGED <<resp_dropped, resp_drop_metric>>
        BY <3>3 DEF StepOf, WorkerStep, Submit, Collect, GiveUp, Stop, TestRunning, PopRequests, Handle,
           EndBatch
      <4>2. worker'[s] = "count" <=> worker[s] = "count"
        BY <3>3, <2>t DEF StepOf, WorkerStep, Submit, Collect, GiveUp, Stop, TestRunning, PopRequests,
           Handle, EndBatch
      <4> QED BY <2>0, <2>2, <4>1, <4>2
    <3> QED BY <3>1, <3>2, <3>3
  <2> QED BY <2>1, <2>2
<1> QED BY <1>1, <1>2, TypeCorrect, PTL DEF ServiceSafe

\* stop() can be trusted by those who destroy the queues afterwards: a thread that
\* has exited was told to, and left nothing half done (dem_simulator.cpp:27-32,
\* 115-137, size_optimizer.cpp:27-32, 44-88).
THEOREM ExitsCorrect == ServiceSafe => []ExitsOnlyWhenToldAndDone
<1> DEFINE Told == \A s \in Services : worker[s] = "exited" => ~ running[s]
<1>1. ServiceInit => Told
  BY DEF ServiceInit, Everywhere
<1>2. TypeInv /\ Told /\ [ServiceNext]_serviceVars => Told'
  <2> SUFFICES ASSUME TypeInv, Told, NEW s \in Services, StepOf(s),
                      NEW t \in Services, worker'[t] = "exited"
               PROVE  ~ running'[t]
    <3>1. UNCHANGED serviceVars => (Told => Told')
      BY DEF serviceVars, threadVars
    <3> QED BY <3>1, NextIsAStep
  <2>t. DOMAIN worker = Services /\ running \in [Services -> BOOLEAN]
    BY Types
  <2>1. CASE t # s
    BY <2>1, OthersUntouched
  <2>2. CASE t = s
    <3> USE DEF clientVars, threadVars, metricVars
    <3>1. worker[s] = "exited" \/ TestRunning(s)
      BY <2>2, <2>t DEF StepOf, WorkerStep, Submit, Collect, GiveUp, Stop, PopRequests, Handle, PushAnswer,
         ExportDrop, EndBatch
    <3>2. worker[s] = "exited" => ~ running'[s]
      BY <2>t DEF StepOf, WorkerStep, Submit, Collect, GiveUp, Stop, TestRunning, PopRequests, Handle,
         PushAnswer, ExportDrop, EndBatch
    <3>3. TestRunning(s) => ~ running'[s]
      BY <2>2, <2>t DEF TestRunning
    <3> QED BY <2>2, <3>1, <3>2, <3>3
  <2> QED BY <2>1, <2>2
<1>3. TypeInv /\ Told => ExitsOnlyWhenToldAndDone
  BY DEF TypeInv, Hands, ExitsOnlyWhenToldAndDone
<1> HIDE DEF Told
<1> QED BY <1>1, <1>2, <1>3, TypeCorrect, PTL DEF ServiceSafe

-----------------------------------------------------------------------------
(* Every request is somewhere *)

LEMMA Lengths ==
  ASSUME TypeInv, NEW s \in Services
  PROVE  /\ Len(req_q[s]) \in Nat /\ Len(batch[s]) \in Nat /\ Len(answer[s]) \in Nat
         /\ Len(resp_q[s]) \in Nat /\ Len(collected[s]) \in Nat
         /\ sent[s] \in Nat /\ req_dropped[s] \in Nat /\ resp_dropped[s] \in Nat
<1>1. /\ req_q[s] \in Seq(Requests) /\ batch[s] \in Seq(Requests)
      /\ answer[s] \in Seq(Answers) /\ resp_q[s] \in Seq(Answers)
      /\ collected[s] \in Seq(Answers)
      /\ sent[s] \in Nat /\ req_dropped[s] \in Nat /\ resp_dropped[s] \in Nat
  BY Types
<1> QED BY <1>1, LenProperties

Whereabouts(s) ==
  req_dropped[s] + Len(req_q[s]) + Len(batch[s]) + Len(answer[s])
    + Len(resp_q[s]) + Len(collected[s]) + resp_dropped[s]

LEMMA StepKeepsAccount ==
  ASSUME TypeInv, NEW s \in Services, StepOf(s), sent[s] = Whereabouts(s)
  PROVE  sent'[s] = Whereabouts(s)'
<1> USE DEF clientVars, threadVars, metricVars
<1> DEFINE a == req_dropped[s]  b == Len(req_q[s])   c == Len(batch[s])   d == Len(answer[s])
           e == Len(resp_q[s])  f == Len(collected[s])  g == resp_dropped[s]
<1>0. /\ a \in Nat /\ b \in Nat /\ c \in Nat /\ d \in Nat /\ e \in Nat /\ f \in Nat /\ g \in Nat
      /\ sent[s] = a + b + c + d + e + f + g
  BY Lengths DEF Whereabouts
<1>p. Whereabouts(s)' = req_dropped'[s] + Len(req_q'[s]) + Len(batch'[s]) + Len(answer'[s])
                          + Len(resp_q'[s]) + Len(collected'[s]) + resp_dropped'[s]
  BY DEF Whereabouts
<1>t. /\ req_q[s] \in Seq(Requests) /\ batch[s] \in Seq(Requests)
      /\ answer[s] \in Seq(Answers) /\ resp_q[s] \in Seq(Answers)
      /\ collected[s] \in Seq(Answers)
  BY Types
<1>1. ASSUME NEW kind \in Kinds[s], Submit(s, kind) PROVE sent'[s] = Whereabouts(s)'
  <2>1. sent'[s] = sent[s] + 1
    BY <1>1, Types DEF Submit
  <2>2. /\ Len(batch'[s]) = c /\ Len(answer'[s]) = d /\ Len(resp_q'[s]) = e
        /\ Len(collected'[s]) = f /\ resp_dropped'[s] = g
    BY <1>1 DEF Submit
  <2>3. Len(Append(req_q[s], [id |-> sent[s] + 1, kind |-> kind])) = b + 1
    OBVIOUS
  <2>4. \/ Len(req_q'[s]) = b + 1 /\ req_dropped'[s] = a
        \/ Len(req_q'[s]) = b /\ req_dropped'[s] = a + 1
    BY <1>1, <2>3, Types DEF Submit
  <2> HIDE DEF a, b, c, d, e, f, g
  <2>5. CASE Len(req_q'[s]) = b + 1 /\ req_dropped'[s] = a
    <3>1. Whereabouts(s)' = a + (b + 1) + c + d + e + f + g
      BY <1>p, <2>2, <2>5
    <3> QED BY <1>0, <2>1, <3>1
  <2>6. CASE Len(req_q'[s]) = b /\ req_dropped'[s] = a + 1
    <3>1. Whereabouts(s)' = (a + 1) + b + c + d + e + f + g
      BY <1>p, <2>2, <2>6
    <3> QED BY <1>0, <2>1, <3>1
  <2> QED BY <2>4, <2>5, <2>6
<1>2. CASE Collect(s)
  <2>1. resp_q[s] # <<>> /\ Head(resp_q[s]) \in Answers /\ Len(Tail(resp_q[s])) = e - 1
    BY <1>2, <1>t, HeadTailProperties DEF Collect
  <2>2. Len(Append(collected[s], Head(resp_q[s]))) = f + 1
    BY <1>t, <2>1, AppendProperties
  <2>3. Len(resp_q'[s]) = e - 1 /\ Len(collected'[s]) = f + 1
    BY <1>2, <2>1, <2>2, Types DEF Collect
  <2>4. /\ Len(req_q'[s]) = b /\ Len(batch'[s]) = c /\ Len(answer'[s]) = d
        /\ resp_dropped'[s] = g /\ sent'[s] = sent[s] /\ req_dropped'[s] = a
    BY <1>2 DEF Collect
  <2> HIDE DEF a, b, c, d, e, f, g
  <2>5. Whereabouts(s)' = a + b + c + d + (e - 1) + (f + 1) + g
    BY <1>p, <2>3, <2>4
  <2> QED BY <1>0, <2>4, <2>5
<1>3. CASE Stop(s)
  BY <1>3 DEF Stop, Whereabouts
<1>8. CASE GiveUp(s)
  BY <1>8 DEF GiveUp, Whereabouts
<1>4. CASE TestRunning(s) \/ ExportDrop(s) \/ EndBatch(s)
  BY <1>4 DEF TestRunning, ExportDrop, EndBatch, Whereabouts
<1>5. CASE PopRequests(s)
  <2>1. BatchMax[s] \in Nat
    OBVIOUS
  <2> DEFINE k == BulkSize(req_q[s], BatchMax[s])
  <2>2. /\ Len(BulkOf(req_q[s], BatchMax[s])) = k /\ Len(BulkRest(req_q[s], BatchMax[s])) = b - k
        /\ k \in 0..b
    BY <1>t, <2>1, BulkSplits, BulkSizeBounds
  <2> HIDE DEF k
  <2>3. Len(batch'[s]) = k /\ Len(req_q'[s]) = b - k
    BY <1>5, <2>2, Types DEF PopRequests
  <2>4. c = 0
    BY <1>5, EmptySeq DEF PopRequests, TypeInv, Hands
  <2>5. /\ Len(answer'[s]) = d /\ Len(resp_q'[s]) = e /\ Len(collected'[s]) = f
        /\ resp_dropped'[s] = g /\ sent'[s] = sent[s] /\ req_dropped'[s] = a
    BY <1>5 DEF PopRequests
  <2> HIDE DEF a, b, c, d, e, f, g
  <2>6. k \in Int
    BY <1>0, <2>2
  <2>7. Whereabouts(s)' = a + (b - k) + k + d + e + f + g
    BY <1>p, <2>3, <2>5
  <2>8. sent'[s] = a + b + 0 + d + e + f + g
    BY <1>0, <2>4, <2>5
  <2> QED BY <1>0, <2>6, <2>7, <2>8
<1>6. CASE Handle(s)
  <2>1. batch[s] # <<>> /\ worker[s] = "next" /\ Len(Tail(batch[s])) = c - 1
    BY <1>6, <1>t, HeadTailProperties DEF Handle
  <2>2. Len(batch'[s]) = c - 1 /\ d = 0
    BY <1>6, <2>1, Types, EmptySeq DEF Handle, TypeInv, Hands
  <2>3. PICK success \in BOOLEAN :
          answer' = [answer EXCEPT ![s] = <<[id |-> Head(batch[s]).id, success |-> success]>>]
    BY <1>6 DEF Handle
  <2>4. Len(answer'[s]) = 1
    BY <2>3, Types
  <2>5. /\ Len(req_q'[s]) = b /\ Len(resp_q'[s]) = e /\ Len(collected'[s]) = f
        /\ resp_dropped'[s] = g /\ sent'[s] = sent[s] /\ req_dropped'[s] = a
    BY <1>6 DEF Handle
  <2> HIDE DEF a, b, c, d, e, f, g
  <2>6. Whereabouts(s)' = a + b + (c - 1) + 1 + e + f + g
    BY <1>p, <2>2, <2>4, <2>5
  <2>7. sent'[s] = a + b + c + 0 + e + f + g
    BY <1>0, <2>2, <2>5
  <2> QED BY <1>0, <2>6, <2>7
<1>7. CASE PushAnswer(s)
  <2>1. d = 1
    BY <1>7 DEF PushAnswer, TypeInv, Hands
  <2>2. Len(answer'[s]) = 0
    BY <1>7, Types, EmptySeq DEF PushAnswer
  <2>3. Len(resp_q[s] \o answer[s]) = e + 1
    <3>1. Len(resp_q[s] \o answer[s]) = Len(resp_q[s]) + Len(answer[s])
      OBVIOUS
    <3> QED BY <2>1, <3>1
  <2>4. \/ Len(resp_q'[s]) = e + 1 /\ resp_dropped'[s] = g
        \/ Len(resp_q'[s]) = e /\ resp_dropped'[s] = g + 1
    BY <1>7, <2>3, Types DEF PushAnswer
  <2>5. /\ Len(req_q'[s]) = b /\ Len(batch'[s]) = c /\ Len(collected'[s]) = f
        /\ sent'[s] = sent[s] /\ req_dropped'[s] = a
    BY <1>7 DEF PushAnswer
  <2> HIDE DEF a, b, c, d, e, f, g
  <2>6. CASE Len(resp_q'[s]) = e + 1 /\ resp_dropped'[s] = g
    <3>1. Whereabouts(s)' = a + b + c + 0 + (e + 1) + f + g
      BY <1>p, <2>2, <2>5, <2>6
    <3>2. sent'[s] = a + b + c + 1 + e + f + g
      BY <1>0, <2>1, <2>5
    <3> QED BY <1>0, <3>1, <3>2
  <2>7. CASE Len(resp_q'[s]) = e /\ resp_dropped'[s] = g + 1
    <3>1. Whereabouts(s)' = a + b + c + 0 + e + f + (g + 1)
      BY <1>p, <2>2, <2>5, <2>7
    <3>2. sent'[s] = a + b + c + 1 + e + f + g
      BY <1>0, <2>1, <2>5
    <3> QED BY <1>0, <3>1, <3>2
  <2> QED BY <2>4, <2>6, <2>7
<1> QED BY <1>1, <1>2, <1>3, <1>4, <1>5, <1>6, <1>7, <1>8 DEF StepOf, WorkerStep

\* No request and no answer is lost without being counted, whatever the capacities
\* (dem_simulator.cpp:115-137, size_optimizer.cpp:44-88).
THEOREM AccountingCorrect == ServiceSafe => []RequestsAccountedFor
<1>1. ServiceInit => RequestsAccountedFor
  BY EmptySeq DEF ServiceInit, Everywhere, RequestsAccountedFor
<1>2. TypeInv /\ RequestsAccountedFor /\ [ServiceNext]_serviceVars => RequestsAccountedFor'
  <2>1. ASSUME UNCHANGED serviceVars PROVE RequestsAccountedFor => RequestsAccountedFor'
    BY <2>1 DEF serviceVars, clientVars, threadVars, RequestsAccountedFor
  <2>2. ASSUME TypeInv, RequestsAccountedFor, NEW s \in Services, StepOf(s), NEW t \in Services
        PROVE  sent'[t] = Whereabouts(t)'
    <3>0. sent[t] = Whereabouts(t)
      BY <2>2 DEF RequestsAccountedFor, Whereabouts
    <3>1. CASE t = s
      BY <2>2, <3>0, <3>1, StepKeepsAccount
    <3>2. CASE t # s
      BY <2>2, <3>0, <3>2, OthersUntouched DEF Whereabouts
    <3> QED BY <3>1, <3>2
  <2> QED BY <2>1, <2>2, NextIsAStep DEF RequestsAccountedFor, Whereabouts
<1> QED BY <1>1, <1>2, TypeCorrect, PTL DEF ServiceSafe

-----------------------------------------------------------------------------
(* The order of the answers *)

LEMMA IdsOfSeq ==
  ASSUME NEW R, \A r \in R : r.id \in Int, NEW q \in Seq(R)
  PROVE  /\ IdsOf(q) \in Seq(Int) /\ Len(IdsOf(q)) = Len(q)
         /\ \A i \in 1..Len(q) : IdsOf(q)[i] = q[i].id
<1>1. Len(q) \in Nat /\ \A i \in 1..Len(q) : q[i] \in R
  BY LenProperties, ElementOfSeq
<1>2. IdsOf(q) \in [1..Len(q) -> Int]
  BY <1>1 DEF IdsOf
<1>3. IdsOf(q) \in Seq(Int)
  BY <1>1, <1>2, SeqDef
<1>4. Len(IdsOf(q)) = Len(q)
  BY <1>1, <1>2, <1>3, LenProperties
<1> QED BY <1>3, <1>4 DEF IdsOf

LEMMA IdsOfConcat ==
  ASSUME NEW R, \A r \in R : r.id \in Int, NEW p \in Seq(R), NEW q \in Seq(R)
  PROVE  IdsOf(p \o q) = IdsOf(p) \o IdsOf(q)
<1>1. /\ IdsOf(p) \in Seq(Int) /\ Len(IdsOf(p)) = Len(p)
      /\ \A i \in 1..Len(p) : IdsOf(p)[i] = p[i].id
  BY IdsOfSeq
<1>2. /\ IdsOf(q) \in Seq(Int) /\ Len(IdsOf(q)) = Len(q)
      /\ \A i \in 1..Len(q) : IdsOf(q)[i] = q[i].id
  BY IdsOfSeq
<1>3. p \o q \in Seq(R) /\ Len(p \o q) = Len(p) + Len(q)
      /\ \A i \in 1..(Len(p) + Len(q)) : (p \o q)[i] = IF i <= Len(p) THEN p[i] ELSE q[i - Len(p)]
  BY ConcatProperties
<1>4. /\ IdsOf(p \o q) \in Seq(Int) /\ Len(IdsOf(p \o q)) = Len(p \o q)
      /\ \A i \in 1..Len(p \o q) : IdsOf(p \o q)[i] = (p \o q)[i].id
  BY <1>3, IdsOfSeq
<1>5. /\ IdsOf(p) \o IdsOf(q) \in Seq(Int) /\ Len(IdsOf(p) \o IdsOf(q)) = Len(p) + Len(q)
      /\ \A i \in 1..(Len(p) + Len(q)) : (IdsOf(p) \o IdsOf(q))[i] =
            IF i <= Len(p) THEN IdsOf(p)[i] ELSE IdsOf(q)[i - Len(p)]
  BY <1>1, <1>2, ConcatProperties
<1>6. Len(p) \in Nat /\ Len(q) \in Nat
  BY LenProperties
<1>7. ASSUME NEW i \in 1..(Len(p) + Len(q))
      PROVE  IdsOf(p \o q)[i] = (IdsOf(p) \o IdsOf(q))[i]
  <2>1. CASE i <= Len(p)
    <3>1. i \in 1..Len(p)
      BY <1>6, <2>1
    <3> QED BY <1>1, <1>3, <1>4, <1>5, <2>1, <3>1
  <2>2. CASE ~ (i <= Len(p))
    <3>1. i - Len(p) \in 1..Len(q)
      BY <1>6, <2>2
    <3> QED BY <1>2, <1>3, <1>4, <1>5, <2>2, <3>1
  <2> QED BY <2>1, <2>2
<1> QED BY <1>3, <1>4, <1>5, <1>7, SeqEqual

LEMMA IdsOfSmall ==
  /\ IdsOf(<<>>) = <<>>
  /\ \A r : IdsOf(<<r>>) = <<r.id>>
<1>1. IdsOf(<<>>) = <<>>
  BY DEF IdsOf
<1>2. ASSUME NEW r PROVE IdsOf(<<r>>) = <<r.id>>
  BY DEF IdsOf
<1> QED BY <1>1, <1>2

LEMMA HeadThenTail ==
  ASSUME NEW R, NEW q \in Seq(R), q # <<>>
  PROVE  q = <<Head(q)>> \o Tail(q) /\ <<Head(q)>> \in Seq(R) /\ Tail(q) \in Seq(R)
<1>1. Head(q) \in R /\ Tail(q) \in Seq(R) /\ Len(Tail(q)) = Len(q) - 1
      /\ \A i \in 1..Len(Tail(q)) : Tail(q)[i] = q[i + 1]
  BY HeadTailProperties
<1>2. <<Head(q)>> \in Seq(R) /\ Len(<<Head(q)>>) = 1 /\ <<Head(q)>>[1] = q[1]
  BY <1>1
<1>3. Len(q) \in Nat \ {0}
  BY EmptySeq
<1>4. /\ <<Head(q)>> \o Tail(q) \in Seq(R) /\ Len(<<Head(q)>> \o Tail(q)) = Len(q)
      /\ \A i \in 1..Len(q) : (<<Head(q)>> \o Tail(q))[i] =
            IF i <= 1 THEN q[1] ELSE Tail(q)[i - 1]
  <2>1. Len(<<Head(q)>>) + Len(Tail(q)) = Len(q)
    BY <1>1, <1>2, <1>3
  <2> QED BY <1>1, <1>2, <2>1, ConcatProperties
<1>5. ASSUME NEW i \in 1..Len(q) PROVE (<<Head(q)>> \o Tail(q))[i] = q[i]
  <2>1. CASE i = 1
    BY <1>4, <2>1
  <2>2. CASE i # 1
    <3>1. i - 1 \in 1..Len(Tail(q)) /\ (i - 1) + 1 = i /\ ~ (i <= 1)
      BY <1>1, <1>3, <2>2
    <3> QED BY <1>1, <1>4, <3>1
  <2> QED BY <2>1, <2>2
<1> QED BY <1>1, <1>2, <1>4, <1>5, SeqEqual

LEMMA IdsArePositions ==
  (\A r \in Requests : r.id \in Int) /\ (\A r \in Answers : r.id \in Int)
BY DEF Requests, Answers, Ids

\* A sequence stays in order when something greater is added at its end, and when
\* an element of it is taken out.
LEMMA AppendIncreases ==
  ASSUME NEW q \in Seq(Int), Increasing(q), NEW x \in Int, \A i \in 1..Len(q) : q[i] < x
  PROVE  Increasing(Append(q, x))
<1>1. /\ Len(q) \in Nat /\ Len(Append(q, x)) = Len(q) + 1
      /\ \A i \in 1..Len(q) : Append(q, x)[i] = q[i]
      /\ Append(q, x)[Len(q) + 1] = x
  BY LenProperties, AppendProperties
<1> SUFFICES ASSUME NEW i \in 1..Len(q) + 1, NEW j \in 1..Len(q) + 1, i < j
             PROVE  Append(q, x)[i] < Append(q, x)[j]
  BY <1>1 DEF Increasing
<1>2. i \in 1..Len(q) /\ (j \in 1..Len(q) \/ j = Len(q) + 1)
  BY <1>1
<1> QED BY <1>1, <1>2 DEF Increasing

LEMMA TakingOutIncreases ==
  ASSUME NEW u \in Seq(Int), NEW v \in Seq(Int), NEW x \in Int, NEW n \in Int,
         Increasing((u \o <<x>>) \o v), \A i \in 1..Len((u \o <<x>>) \o v) : ((u \o <<x>>) \o v)[i] <= n
  PROVE  Increasing(u \o v) /\ \A i \in 1..Len(u \o v) : (u \o v)[i] <= n
<1> DEFINE w == (u \o <<x>>) \o v
           m == Len(u)
           up(i) == IF i <= m THEN i ELSE i + 1
<1>1. <<x>> \in Seq(Int) /\ Len(<<x>>) = 1
  OBVIOUS
<1>2. m \in Nat /\ Len(v) \in Nat
  BY LenProperties
<1>3. /\ u \o <<x>> \in Seq(Int) /\ Len(u \o <<x>>) = m + 1
      /\ \A i \in 1..m : (u \o <<x>>)[i] = u[i]
  <2>1. \A i \in 1..m : i \in 1..m + Len(<<x>>) /\ i <= m
    BY <1>1, <1>2
  <2> QED BY <1>1, <2>1, ConcatProperties
<1>4. /\ Len(w) = m + 1 + Len(v)
      /\ \A i \in 1..m + 1 + Len(v) :
           w[i] = IF i <= m + 1 THEN (u \o <<x>>)[i] ELSE v[i - (m + 1)]
  BY <1>3, ConcatProperties
<1>5. /\ u \o v \in Seq(Int) /\ Len(u \o v) = m + Len(v)
      /\ \A i \in 1..m + Len(v) : (u \o v)[i] = IF i <= m THEN u[i] ELSE v[i - m]
  BY ConcatProperties
<1>6. ASSUME NEW i \in 1..m + Len(v)
      PROVE  up(i) \in 1..Len(w) /\ (u \o v)[i] = w[up(i)]
  <2>1. up(i) \in 1..m + 1 + Len(v)
    BY <1>2
  <2>2. CASE i <= m
    <3>1. i \in 1..m /\ up(i) = i /\ i <= m + 1
      BY <1>2, <2>2
    <3> QED BY <1>3, <1>4, <1>5, <2>1, <2>2, <3>1
  <2>3. CASE ~ (i <= m)
    <3>1. up(i) = i + 1 /\ ~ (i + 1 <= m + 1) /\ (i + 1) - (m + 1) = i - m
      BY <1>2, <2>3
    <3> QED BY <1>4, <1>5, <2>1, <2>3, <3>1
  <2> QED BY <2>2, <2>3
<1>7. ASSUME NEW i \in 1..m + Len(v), NEW j \in 1..m + Len(v), i < j
      PROVE  up(i) < up(j)
  BY <1>2, <1>7
<1> HIDE DEF w, up
<1>8. Increasing(w) /\ \A i \in 1..Len(w) : w[i] <= n
  BY DEF w
<1>9. Increasing(u \o v)
  BY <1>5, <1>6, <1>7, <1>8 DEF Increasing
<1> QED BY <1>5, <1>6, <1>8, <1>9

\* The ledger of a service is in order and ends at the last request sent.
InOrderUpTo(q, n) == Increasing(q) /\ \A i \in 1..Len(q) : q[i] <= n

\* Five sequences of ids, as Ledger strings them together.
Strung(c, r, a, b, q) == c \o r \o a \o b \o q

LEMMA StrungIds ==
  ASSUME TypeInv, NEW s \in Services
  PROVE  /\ IdsOf(collected[s]) \in Seq(Int) /\ IdsOf(resp_q[s]) \in Seq(Int)
         /\ IdsOf(answer[s]) \in Seq(Int) /\ IdsOf(batch[s]) \in Seq(Int)
         /\ IdsOf(req_q[s]) \in Seq(Int)
         /\ Ledger(s) \in Seq(Int) /\ sent[s] \in Int
         /\ Ledger(s) = Strung(IdsOf(collected[s]), IdsOf(resp_q[s]), IdsOf(answer[s]),
                               IdsOf(batch[s]), IdsOf(req_q[s]))
<1>1. /\ req_q[s] \in Seq(Requests) /\ batch[s] \in Seq(Requests)
      /\ answer[s] \in Seq(Answers) /\ resp_q[s] \in Seq(Answers)
      /\ collected[s] \in Seq(Answers) /\ sent[s] \in Int
  BY Types
<1>2. /\ IdsOf(collected[s]) \in Seq(Int) /\ IdsOf(resp_q[s]) \in Seq(Int)
      /\ IdsOf(answer[s]) \in Seq(Int)
  BY <1>1, IdsOfSeq, IdsArePositions
<1>3. IdsOf(batch[s]) \in Seq(Int) /\ IdsOf(req_q[s]) \in Seq(Int)
  BY <1>1, IdsOfSeq, IdsArePositions
<1>4. Ledger(s) \in Seq(Int)
  BY <1>2, <1>3, ConcatProperties DEF Ledger
<1> QED BY <1>1, <1>2, <1>3, <1>4 DEF Ledger, Strung

LEMMA Glue == \A s, t \in Seq(Int) : s \o t \in Seq(Int)
BY ConcatProperties

LEMMA Reglue == \A s, t, u \in Seq(Int) : (s \o t) \o u = s \o (t \o u)
BY ConcatAssociative

LEMMA NoGlue == <<>> \in Seq(Int) /\ \A s \in Seq(Int) : s \o <<>> = s
BY EmptySeq, ConcatEmptySeq

\* Ids that move along the string leave it as it is: a request sent, an answer
\* collected, an answer queued, a request handled, a batch taken.
LEMMA Sent ==
  ASSUME NEW x \in Seq(Int), NEW q \in Seq(Int), NEW t \in Seq(Int)
  PROVE  x \o (q \o t) = (x \o q) \o t
<1>1. (x \o q) \o t = x \o (q \o t)
  BY Reglue, Zenon
<1> QED BY <1>1

LEMMA Collected ==
  ASSUME NEW c \in Seq(Int), NEW r \in Seq(Int), NEW a, NEW b, NEW q, NEW t \in Seq(Int)
  PROVE  Strung(c \o t, r, a, b, q) = Strung(c, t \o r, a, b, q)
<1>1. (c \o t) \o r = c \o (t \o r)
  BY Reglue, Zenon
<1> QED BY <1>1 DEF Strung

LEMMA Queued ==
  ASSUME NEW c \in Seq(Int), NEW r \in Seq(Int), NEW a \in Seq(Int), NEW b, NEW q
  PROVE  Strung(c, r \o a, <<>>, b, q) = Strung(c, r, a, b, q)
<1>1. (c \o r) \o a = c \o (r \o a)
  BY Reglue, Zenon
<1>2. c \o (r \o a) \in Seq(Int)
  BY Glue, Zenon
<1>3. (c \o (r \o a)) \o <<>> = c \o (r \o a)
  BY <1>2, NoGlue, Zenon
<1> QED BY <1>1, <1>3 DEF Strung

LEMMA Handled ==
  ASSUME NEW c \in Seq(Int), NEW r \in Seq(Int), NEW b \in Seq(Int), NEW q, NEW t \in Seq(Int)
  PROVE  Strung(c, r, t, b, q) = Strung(c, r, <<>>, t \o b, q)
<1> DEFINE x == c \o r
<1>1. x \in Seq(Int)
  BY Glue
<1> HIDE DEF x
<1>2. (x \o t) \o b = x \o (t \o b)
  BY <1>1, Reglue, Zenon
<1>3. x \o <<>> = x
  BY <1>1, NoGlue, Zenon
<1> QED BY <1>2, <1>3 DEF Strung, x

LEMMA Taken ==
  ASSUME NEW c \in Seq(Int), NEW r \in Seq(Int), NEW a \in Seq(Int), NEW q \in Seq(Int),
         NEW t \in Seq(Int)
  PROVE  Strung(c, r, a, t, q) = Strung(c, r, a, <<>>, t \o q)
<1> DEFINE x == c \o r \o a
<1>1. x \in Seq(Int)
  BY Glue
<1> HIDE DEF x
<1>2. (x \o t) \o q = x \o (t \o q)
  BY <1>1, Reglue, Zenon
<1>3. x \o <<>> = x
  BY <1>1, NoGlue, Zenon
<1> QED BY <1>2, <1>3 DEF Strung, x

\* An answer that is dropped leaves the others in order.
LEMMA TakenOut ==
  ASSUME NEW c \in Seq(Int), NEW r \in Seq(Int), NEW a \in Seq(Int), NEW b \in Seq(Int),
         NEW q \in Seq(Int), NEW n \in Int,
         InOrderUpTo(Strung(c, r, a, b, q), n), Len(a) = 1
  PROVE  InOrderUpTo(Strung(c, r, <<>>, b, q), n)
<1> DEFINE u == c \o r
           v == b \o q
           e == a[1]
<1>1. u \in Seq(Int) /\ v \in Seq(Int)
  BY Glue
<1>2. e \in Int
  <2>1. 1 \in 1..Len(a)
    OBVIOUS
  <2> QED BY <2>1, ElementOfSeq
<1>3. a = <<e>>
  <2>1. <<e>> \in Seq(Int) /\ Len(<<e>>) = 1 /\ <<e>>[1] = e
    BY <1>2
  <2>2. \A i \in 1..Len(a) : a[i] = <<e>>[i]
    BY <2>1
  <2> HIDE DEF e
  <2> QED BY <2>1, <2>2, SeqEqual
<1> HIDE DEF u, v, e
<1>4. Strung(c, r, a, b, q) = (u \o <<e>>) \o v
  <2> DEFINE w == u \o a
  <2>1. w \in Seq(Int)
    BY <1>1, Glue
  <2> HIDE DEF w
  <2>2. (w \o b) \o q = w \o (b \o q)
    BY <2>1, Reglue, Zenon
  <2> QED BY <1>3, <2>2 DEF Strung, u, v, w
<1>5. Strung(c, r, <<>>, b, q) = u \o v
  <2>1. u \o <<>> = u
    BY <1>1, NoGlue, Zenon
  <2>2. (u \o b) \o q = u \o (b \o q)
    <3>1. \A y, z \in Seq(Int) : (u \o y) \o z = u \o (y \o z)
      BY <1>1, Reglue, Zenon
    <3> QED BY <3>1, Zenon
  <2> QED BY <2>1, <2>2 DEF Strung, u, v
<1>6. /\ Increasing((u \o <<e>>) \o v)
      /\ \A i \in 1..Len((u \o <<e>>) \o v) : ((u \o <<e>>) \o v)[i] <= n
  BY <1>4 DEF InOrderUpTo
<1>7. Increasing(u \o v) /\ \A i \in 1..Len(u \o v) : (u \o v)[i] <= n
  BY <1>1, <1>2, <1>6, TakingOutIncreases
<1> QED BY <1>5, <1>7 DEF InOrderUpTo

LEMMA StepKeepsOrder ==
  ASSUME TypeInv, NEW s \in Services, StepOf(s), InOrderUpTo(Ledger(s), sent[s])
  PROVE  InOrderUpTo(Ledger(s)', sent'[s])
<1> USE DEF clientVars, threadVars, metricVars
<1> DEFINE C == IdsOf(collected[s])  R == IdsOf(resp_q[s])  A == IdsOf(answer[s])
           B == IdsOf(batch[s])      Q == IdsOf(req_q[s])   n == sent[s]
<1>0. /\ C \in Seq(Int) /\ R \in Seq(Int) /\ A \in Seq(Int) /\ B \in Seq(Int) /\ Q \in Seq(Int)
      /\ n \in Int /\ Ledger(s) \in Seq(Int) /\ Ledger(s) = Strung(C, R, A, B, Q)
  BY StrungIds
<1>p. Ledger(s)' = Strung(IdsOf(collected'[s]), IdsOf(resp_q'[s]), IdsOf(answer'[s]),
                          IdsOf(batch'[s]), IdsOf(req_q'[s]))
  BY DEF Ledger, Strung, IdsOf
<1>t. /\ req_q[s] \in Seq(Requests) /\ batch[s] \in Seq(Requests)
      /\ answer[s] \in Seq(Answers) /\ resp_q[s] \in Seq(Answers)
      /\ collected[s] \in Seq(Answers)
  BY Types
<1>1. ASSUME NEW kind \in Kinds[s], Submit(s, kind) PROVE InOrderUpTo(Ledger(s)', sent'[s])
  <2> DEFINE request == [id |-> n + 1, kind |-> kind]
  <2>1. sent'[s] = n + 1
    BY <1>1, Types DEF Submit
  <2>2. UNCHANGED <<batch, answer, resp_q, collected>>
    BY <1>1 DEF Submit
  <2>3. req_q'[s] = req_q[s] \/ req_q'[s] = Append(req_q[s], request)
    BY <1>1, Types DEF Submit
  <2>4. request \in Requests /\ request.id = n + 1
    <3>1. n \in 0..MaxRequests /\ n < MaxRequests
      BY <1>1, Types DEF Submit
    <3>2. n + 1 \in Ids
      BY <3>1 DEF Ids
    <3> QED BY <3>2 DEF Requests
  <2>5. CASE req_q'[s] = req_q[s]
    <3>1. Ledger(s)' = Ledger(s)
      BY <1>0, <1>p, <2>2, <2>5
    <3>2. \A i \in 1..Len(Ledger(s)) : Ledger(s)[i] \in Int
      BY <1>0, ElementOfSeq
    <3>3. \A i \in 1..Len(Ledger(s)) : Ledger(s)[i] <= n + 1
      BY <1>0, <3>2 DEF InOrderUpTo
    <3> QED BY <2>1, <3>1, <3>3 DEF InOrderUpTo
  <2>6. CASE req_q'[s] = Append(req_q[s], request)
    <3> HIDE DEF request
    <3>1. req_q'[s] = req_q[s] \o <<request>> /\ <<request>> \in Seq(Requests)
      BY <1>t, <2>4, <2>6, AppendIsConcat
    <3>2. IdsOf(req_q'[s]) = Q \o <<n + 1>>
      BY <1>t, <2>4, <3>1, IdsOfConcat, IdsOfSmall, IdsArePositions
    <3>3. <<n + 1>> \in Seq(Int) /\ n + 1 \in Int
      BY <1>0
    <3>4. Ledger(s)' = Strung(C, R, A, B, Q \o <<n + 1>>)
      BY <1>p, <2>2, <3>2
    <3> DEFINE last == <<n + 1>>
    <3> HIDE DEF C, R, A, B, Q, last
    <3>a. Strung(C, R, A, B, Q \o last) = Strung(C, R, A, B, Q) \o last
      <4> DEFINE x == C \o R \o A \o B
      <4>1. last \in Seq(Int)
        BY <3>3 DEF last
      <4>2. C \o R \in Seq(Int)
        BY <1>0, Glue, Zenon
      <4>3. C \o R \o A \in Seq(Int)
        BY <1>0, <4>2, Glue, Zenon
      <4>4. x \in Seq(Int)
        BY <1>0, <4>3, Glue, Zenon
      <4>5. Q \in Seq(Int)
        BY <1>0
      <4> HIDE DEF x
      <4>6. x \o (Q \o last) = (x \o Q) \o last
        BY <4>1, <4>4, <4>5, Sent, Zenon
      <4> QED BY <4>6 DEF Strung, x
    <3>5. Ledger(s)' = Ledger(s) \o <<n + 1>>
      BY <1>0, <3>4, <3>a DEF last
    <3>6. Ledger(s)' = Append(Ledger(s), n + 1)
      BY <1>0, <3>3, <3>5, AppendIsConcat
    <3>7. \A i \in 1..Len(Ledger(s)) : Ledger(s)[i] \in Int /\ Ledger(s)[i] <= n
      BY <1>0, ElementOfSeq DEF InOrderUpTo
    <3>8. \A i \in 1..Len(Ledger(s)) : Ledger(s)[i] < n + 1 /\ Ledger(s)[i] <= n + 1
      BY <1>0, <3>7
    <3>9. Increasing(Ledger(s)')
      BY <1>0, <3>3, <3>6, <3>8, AppendIncreases DEF InOrderUpTo
    <3>10. \A i \in 1..Len(Ledger(s)') : Ledger(s)'[i] <= n + 1
      <4> DEFINE L == Ledger(s)
      <4>1. /\ Len(L) \in Nat /\ Len(Append(L, n + 1)) = Len(L) + 1
            /\ \A i \in 1..Len(L) : Append(L, n + 1)[i] = L[i]
            /\ Append(L, n + 1)[Len(L) + 1] = n + 1
        BY <1>0, <3>3, AppendProperties, LenProperties
      <4>2. \A i \in 1..Len(L) + 1 : i \in 1..Len(L) \/ i = Len(L) + 1
        BY <4>1
      <4>3. n + 1 <= n + 1
        BY <3>3
      <4> QED BY <3>6, <3>8, <4>1, <4>2, <4>3
    <3> QED BY <2>1, <3>9, <3>10 DEF InOrderUpTo
  <2> QED BY <2>3, <2>5, <2>6
<1>2. CASE Collect(s)
  <2> DEFINE h == <<Head(resp_q[s])>>
  <2>1. /\ resp_q[s] # <<>> /\ resp_q'[s] = Tail(resp_q[s])
        /\ collected'[s] = Append(collected[s], Head(resp_q[s]))
        /\ UNCHANGED <<batch, answer, req_q, sent>>
    BY <1>2, Types DEF Collect
  <2>2. resp_q[s] = h \o resp_q'[s] /\ h \in Seq(Answers) /\ resp_q'[s] \in Seq(Answers)
    BY <1>t, <2>1, HeadThenTail
  <2>3. Head(resp_q[s]) \in Answers
    BY <1>t, <2>1, HeadTailProperties
  <2>4. collected'[s] = collected[s] \o h
    BY <1>t, <2>1, <2>3, AppendIsConcat
  <2> HIDE DEF h
  <2>5. /\ R = IdsOf(h) \o IdsOf(resp_q'[s]) /\ IdsOf(collected'[s]) = C \o IdsOf(h)
        /\ IdsOf(h) \in Seq(Int) /\ IdsOf(resp_q'[s]) \in Seq(Int)
    BY <1>t, <2>2, <2>4, IdsOfConcat, IdsOfSeq, IdsArePositions
  <2>6. Ledger(s)' = Strung(C \o IdsOf(h), IdsOf(resp_q'[s]), A, B, Q) /\ sent'[s] = n
    BY <1>p, <2>1, <2>5
  <2>7. Ledger(s) = Strung(C, IdsOf(h) \o IdsOf(resp_q'[s]), A, B, Q)
    BY <1>0, <2>5
  <2> HIDE DEF C, A, B, Q, n
  <2>8. Ledger(s)' = Ledger(s)
    BY <1>0, <2>5, <2>6, <2>7, Collected
  <2> QED BY <2>6, <2>8 DEF n
<1>3. CASE GiveUp(s) \/ Stop(s) \/ TestRunning(s) \/ ExportDrop(s) \/ EndBatch(s)
  <2>1. UNCHANGED <<collected, resp_q, answer, batch, req_q, sent>>
    BY <1>3 DEF GiveUp, Stop, TestRunning, ExportDrop, EndBatch
  <2> QED BY <1>0, <1>p, <2>1
<1>4. CASE PopRequests(s)
  <2>1. /\ batch'[s] = BulkOf(req_q[s], BatchMax[s]) /\ req_q'[s] = BulkRest(req_q[s], BatchMax[s])
        /\ UNCHANGED <<collected, resp_q, answer, sent>>
    BY <1>4, Types DEF PopRequests
  <2>2. batch'[s] \in Seq(Requests) /\ req_q'[s] \in Seq(Requests) /\ batch'[s] \o req_q'[s] = req_q[s]
    <3>1. BatchMax[s] \in Nat
      OBVIOUS
    <3>2. LET q == req_q[s]  m == BatchMax[s] IN
          BulkOf(q, m) \in Seq(Requests) /\ BulkRest(q, m) \in Seq(Requests)
            /\ BulkOf(q, m) \o BulkRest(q, m) = q
      BY <1>t, <3>1, BulkSplits
    <3> QED BY <2>1, <3>2
  <2>3. /\ IdsOf(batch'[s]) \o IdsOf(req_q'[s]) = Q
        /\ IdsOf(batch'[s]) \in Seq(Int) /\ IdsOf(req_q'[s]) \in Seq(Int)
    BY <2>2, IdsOfConcat, IdsOfSeq, IdsArePositions
  <2>4. B = <<>>
    BY <1>4, IdsOfSmall DEF PopRequests, TypeInv, Hands
  <2>5. Ledger(s)' = Strung(C, R, A, IdsOf(batch'[s]), IdsOf(req_q'[s])) /\ sent'[s] = n
    BY <1>p, <2>1
  <2>6. Ledger(s) = Strung(C, R, A, <<>>, IdsOf(batch'[s]) \o IdsOf(req_q'[s]))
    BY <1>0, <2>3, <2>4
  <2> HIDE DEF C, R, A, n
  <2>7. Ledger(s)' = Ledger(s)
    <3>1. IdsOf(batch'[s]) \in Seq(Int) /\ IdsOf(req_q'[s]) \in Seq(Int)
      BY <2>3
    <3>2. Strung(C, R, A, IdsOf(batch'[s]), IdsOf(req_q'[s]))
            = Strung(C, R, A, <<>>, IdsOf(batch'[s]) \o IdsOf(req_q'[s]))
      <4>1. C \in Seq(Int) /\ R \in Seq(Int) /\ A \in Seq(Int)
        BY <1>0
      <4> QED BY <3>1, <4>1, Taken
    <3> QED BY <2>5, <2>6, <3>2, Zenon
  <2> QED BY <2>5, <2>7 DEF n
<1>5. CASE Handle(s)
  <2> DEFINE h == <<Head(batch[s])>>
  <2>1. PICK success \in BOOLEAN :
          answer' = [answer EXCEPT ![s] = <<[id |-> Head(batch[s]).id, success |-> success]>>]
    BY <1>5 DEF Handle
  <2>2. /\ batch[s] # <<>> /\ batch'[s] = Tail(batch[s]) /\ worker[s] = "next"
        /\ answer'[s] = <<[id |-> Head(batch[s]).id, success |-> success]>>
        /\ UNCHANGED <<collected, resp_q, req_q, sent>>
    BY <1>5, <2>1, Types DEF Handle
  <2>3. batch[s] = h \o batch'[s] /\ h \in Seq(Requests) /\ batch'[s] \in Seq(Requests)
    BY <1>t, <2>2, HeadThenTail
  <2>4. IdsOf(answer'[s]) = <<Head(batch[s]).id>>
    BY <2>2, IdsOfSmall
  <2>5. IdsOf(h) = <<Head(batch[s]).id>>
    BY IdsOfSmall
  <2>6. A = <<>>
    BY <2>2, IdsOfSmall DEF TypeInv, Hands
  <2> HIDE DEF h
  <2>7. B = IdsOf(h) \o IdsOf(batch'[s]) /\ IdsOf(h) \in Seq(Int) /\ IdsOf(batch'[s]) \in Seq(Int)
    BY <2>3, IdsOfConcat, IdsOfSeq, IdsArePositions
  <2>8. Ledger(s)' = Strung(C, R, IdsOf(h), IdsOf(batch'[s]), Q) /\ sent'[s] = n
    BY <1>p, <2>2, <2>4, <2>5
  <2>9. Ledger(s) = Strung(C, R, <<>>, IdsOf(h) \o IdsOf(batch'[s]), Q)
    BY <1>0, <2>6, <2>7
  <2> HIDE DEF C, R, Q, n
  <2>10. Ledger(s)' = Ledger(s)
    BY <1>0, <2>7, <2>8, <2>9, Handled
  <2> QED BY <2>8, <2>10 DEF n
<1>6. CASE PushAnswer(s)
  <2>1. /\ answer'[s] = <<>> /\ Len(answer[s]) = 1
        /\ resp_q'[s] = resp_q[s] \o answer[s] \/ resp_q'[s] = resp_q[s]
        /\ UNCHANGED <<collected, batch, req_q, sent>>
    BY <1>6, Types DEF PushAnswer, TypeInv, Hands
  <2>2. IdsOf(answer'[s]) = <<>> /\ Len(A) = 1
    BY <1>t, <2>1, IdsOfSmall, IdsOfSeq, IdsArePositions
  <2>3. CASE resp_q'[s] = resp_q[s] \o answer[s]
    <3>1. IdsOf(resp_q'[s]) = R \o A
      BY <1>t, <2>3, IdsOfConcat, IdsArePositions
    <3>2. Ledger(s)' = Strung(C, R \o A, <<>>, B, Q) /\ sent'[s] = n
      BY <1>p, <2>1, <2>2, <3>1
    <3> HIDE DEF C, R, A, B, Q, n
    <3>3. Ledger(s)' = Ledger(s)
      BY <1>0, <3>2, Queued
    <3> QED BY <3>2, <3>3 DEF n
  <2>4. CASE resp_q'[s] = resp_q[s]
    <3>1. Ledger(s)' = Strung(C, R, <<>>, B, Q) /\ sent'[s] = n
      BY <1>p, <2>1, <2>2, <2>4
    <3>2. InOrderUpTo(Strung(C, R, A, B, Q), n)
      BY <1>0
    <3> HIDE DEF C, R, A, B, Q, n
    <3> QED BY <1>0, <2>2, <3>1, <3>2, TakenOut
  <2> QED BY <2>1, <2>3, <2>4
<1> QED BY <1>1, <1>2, <1>3, <1>4, <1>5, <1>6 DEF StepOf, WorkerStep

\* Answers never overtake each other and no request is answered twice, for any batch
\* size, capacity and client (dem_simulator.cpp:119-135, size_optimizer.cpp:46-86).
THEOREM OrderCorrect == ServiceSafe => []AnsweredInOrder
<1> DEFINE OrderInv == \A s \in Services : InOrderUpTo(Ledger(s), sent[s])
<1>1. ServiceInit => OrderInv
  <2> SUFFICES ASSUME ServiceInit, NEW s \in Services PROVE InOrderUpTo(Ledger(s), sent[s])
    OBVIOUS
  <2>1. Ledger(s) = <<>> \o <<>> \o <<>> \o <<>> \o <<>>
    BY IdsOfSmall DEF ServiceInit, Everywhere, Ledger
  <2>2. <<>> \in Seq(Int)
    BY EmptySeq
  <2>3. Ledger(s) = <<>>
    BY <2>1, <2>2, ConcatEmptySeq
  <2>4. Len(Ledger(s)) = 0
    BY <2>3, EmptySeq
  <2> QED BY <2>4 DEF InOrderUpTo, Increasing
<1>2. TypeInv /\ OrderInv /\ [ServiceNext]_serviceVars => OrderInv'
  <2>1. ASSUME UNCHANGED serviceVars PROVE OrderInv => OrderInv'
    BY <2>1 DEF serviceVars, clientVars, threadVars, Ledger, IdsOf
  <2>2. ASSUME TypeInv, OrderInv, NEW s \in Services, StepOf(s), NEW t \in Services
        PROVE  InOrderUpTo(Ledger(t), sent[t])'
    <3>0. InOrderUpTo(Ledger(t), sent[t])
      BY <2>2
    <3>1. CASE t = s
      BY <2>2, <3>0, <3>1, StepKeepsOrder DEF InOrderUpTo, Increasing
    <3>2. CASE t # s
      BY <2>2, <3>0, <3>2, OthersUntouched DEF InOrderUpTo, Increasing, Ledger, IdsOf
    <3> QED BY <3>1, <3>2
  <2> QED BY <2>1, <2>2, NextIsAStep
<1>3. OrderInv => AnsweredInOrder
  BY DEF AnsweredInOrder, InOrderUpTo
<1> HIDE DEF OrderInv
<1> QED BY <1>1, <1>2, <1>3, TypeCorrect, PTL DEF ServiceSafe

-----------------------------------------------------------------------------
(* Each response queue is a MessageQueue *)

\* What the clients collected is what it handed over.
ResponseQueue(s) == INSTANCE MessageQueue WITH
  Messages <- Answers, Capacity <- RespCapacity, BulkMax <- 1,
  queue <- resp_q[s], dropped <- resp_dropped[s], received <- collected[s]

LEMMA ResponseQueueSteps ==
  ASSUME NEW s \in Services, TypeInv, [ServiceNext]_serviceVars
  PROVE  [ResponseQueue(s)!Next]_(ResponseQueue(s)!vars)
<1> DEFINE Same == UNCHANGED <<resp_q[s], resp_dropped[s], collected[s]>>
<1>1. CASE PushAnswer(s)
  <2>1. answer[s] \in Seq(Answers) /\ Len(answer[s]) = 1 /\ resp_q[s] \in Seq(Answers)
    BY <1>1, Types DEF PushAnswer, TypeInv, Hands
  <2>2. PICK a \in Answers : answer[s] = <<a>>
    <3> DEFINE one == answer[s]
    <3>1. one \in Seq(Answers) /\ Len(one) = 1
      BY <2>1
    <3> HIDE DEF one
    <3>2. one[1] \in Answers
      BY <3>1, ElementOfSeq
    <3>3. <<one[1]>> \in Seq(Answers) /\ Len(<<one[1]>>) = 1 /\ <<one[1]>>[1] = one[1]
      BY <3>2
    <3>4. one = <<one[1]>>
      BY <3>1, <3>3, SeqEqual
    <3> QED BY <3>2, <3>4 DEF one
  <2>3. resp_q[s] \o answer[s] = Append(resp_q[s], a)
    BY <2>1, <2>2, AppendIsConcat
  <2>4. collected'[s] = collected[s]
    BY <1>1 DEF PushAnswer, clientVars
  <2>5. ResponseQueue(s)!Push(a) \/ ResponseQueue(s)!Refuse
    BY <1>1, <2>3, <2>4, Types DEF PushAnswer, MayAccept, MayRefuse, ResponseQueue!Push,
       ResponseQueue!Refuse, ResponseQueue!MayAccept, ResponseQueue!MayRefuse
  <2> QED BY <2>5 DEF ResponseQueue!Next
<1>2. CASE Collect(s)
  <2>1. resp_q[s] \in Seq(Answers) /\ collected[s] \in Seq(Answers)
    BY Types
  <2>2. /\ resp_q[s] # <<>> /\ resp_q'[s] = Tail(resp_q[s])
        /\ resp_dropped'[s] = resp_dropped[s]
        /\ collected'[s] = Append(collected[s], Head(resp_q[s]))
    BY <1>2, Types DEF Collect
  <2>3. BulkOf(resp_q[s], 1) = <<Head(resp_q[s])>> /\ BulkRest(resp_q[s], 1) = Tail(resp_q[s])
    BY <2>1, <2>2, PopIsBulkOfOne
  <2>4. collected'[s] = collected[s] \o BulkOf(resp_q[s], 1)
    <3>1. Head(resp_q[s]) \in Answers
      BY <2>1, <2>2, HeadTailProperties
    <3>2. Append(collected[s], Head(resp_q[s])) = collected[s] \o <<Head(resp_q[s])>>
      BY <2>1, <3>1, AppendIsConcat
    <3> QED BY <2>2, <2>3, <3>2
  <2>5. ResponseQueue(s)!PopBulk(1)
    BY <2>2, <2>3, <2>4 DEF ResponseQueue!PopBulk, BulkOf, BulkRest, BulkSize,
       ResponseQueue!BulkOf, ResponseQueue!BulkRest, ResponseQueue!BulkSize
  <2> QED BY <2>5 DEF ResponseQueue!Next
<1>3. CASE StepOf(s) /\ ~ PushAnswer(s) /\ ~ Collect(s)
  <2>1. Same
    BY <1>3, Types DEF StepOf, WorkerStep, Submit, GiveUp, Stop, TestRunning, PopRequests, Handle,
       ExportDrop, EndBatch, clientVars
  <2> QED BY <2>1 DEF ResponseQueue!vars
<1>4. ASSUME NEW t \in Services, t # s, StepOf(t) PROVE Same
  BY <1>4, OthersUntouched
<1>5. CASE UNCHANGED serviceVars
  BY <1>5 DEF serviceVars, clientVars, ResponseQueue!vars
<1> QED BY <1>1, <1>2, <1>3, <1>4, <1>5, NextIsAStep DEF ResponseQueue!vars

\* The thread of a service and its clients, whatever else they do, do with the response
\* queue what a MessageQueue allows (dem_simulator.cpp:131-134, main.cpp:78).
THEOREM ResponseQueueCorrect ==
  ASSUME NEW s \in Services
  PROVE  ServiceSafe => ResponseQueue(s)!Spec
<1>1. ServiceInit => ResponseQueue(s)!Init
  BY DEF ServiceInit, Everywhere, ResponseQueue!Init
<1> QED BY <1>1, ResponseQueueSteps, TypeCorrect, PTL DEF ServiceSafe, ResponseQueue!Spec

-----------------------------------------------------------------------------
(* main() is such a client *)

MainTypeOK ==
  /\ main \in {"start", "submit", "poll", "tick", "stop", "join", "done"}
  /\ at \in 1..Len(SmokeOrder)
  /\ main = "tick" => at = Len(SmokeOrder)

LEMMA OrderLength == Len(SmokeOrder) \in Nat /\ Len(SmokeOrder) >= 1
<1>1. SmokeOrder \in Seq(Services) /\ SmokeOrder # <<>>
  BY SmokeAssumption
<1> QED BY <1>1, EmptySeq, LenProperties

LEMMA CurrentIsAService ==
  ASSUME MainTypeOK
  PROVE  Current \in Services
<1>1. SmokeOrder \in Seq(Services)
  BY SmokeAssumption
<1> QED BY <1>1, ElementOfSeq DEF MainTypeOK, Current

LEMMA InitMainTypes == Init => MainTypeOK
BY OrderLength DEF Init, MainTypeOK

LEMMA StepMainTypes == MainTypeOK /\ [Next]_vars => MainTypeOK'
<1> SUFFICES ASSUME MainTypeOK, [Next]_vars PROVE MainTypeOK'
  OBVIOUS
<1> USE OrderLength DEF MainTypeOK
<1>1. CASE Begin
  BY <1>1 DEF Begin
<1>2. CASE SendRequest
  BY <1>2 DEF SendRequest
<1>3. CASE TakeAnswer \/ TimeOut
  <2>1. Advance
    BY <1>3 DEF TakeAnswer, TimeOut
  <2> QED BY <2>1 DEF Advance
<1>4. CASE PollAgain
  BY <1>4 DEF PollAgain
<1>5. CASE EndTicks
  BY <1>5 DEF EndTicks
<1>6. CASE StopService
  BY <1>6 DEF StopService
<1>7. CASE JoinService
  BY <1>7 DEF JoinService
<1>8. ASSUME UNCHANGED mainVars PROVE MainTypeOK'
  BY <1>8 DEF mainVars
<1>9. CASE sigint_handler
  BY <1>9 DEF sigint_handler
<1> QED BY <1>1, <1>2, <1>3, <1>4, <1>5, <1>6, <1>7, <1>8, <1>9 DEF Next, MainStep, vars

\* Every step of main() is one the services allow their clients, or none of theirs.
LEMMA StepIsAllowed == MainTypeOK /\ [Next]_vars => [ServiceNext]_serviceVars
<1> SUFFICES ASSUME MainTypeOK, [Next]_vars PROVE [ServiceNext]_serviceVars
  OBVIOUS
<1>c. Current \in Services
  BY CurrentIsAService
<1>1. CASE Begin \/ PollAgain \/ EndTicks \/ JoinService \/ sigint_handler \/ UNCHANGED vars
  <2>1. UNCHANGED serviceVars
    BY <1>1 DEF Begin, PollAgain, EndTicks, JoinService, sigint_handler, vars
  <2> QED BY <2>1
<1>2. CASE SendRequest
  <2>1. \E kind \in Kinds[Current] : Submit(Current, kind)
    BY <1>2 DEF SendRequest
  <2> QED BY <1>c, <2>1 DEF ServiceNext
<1>3. CASE TakeAnswer
  <2>1. Collect(Current)
    BY <1>3 DEF TakeAnswer
  <2> QED BY <1>c, <2>1 DEF ServiceNext
<1>4. CASE TimeOut
  <2>1. GiveUp(Current)
    BY <1>4 DEF TimeOut
  <2> QED BY <1>c, <2>1 DEF ServiceNext
<1>5. CASE StopService
  <2>1. Stop(Current)
    BY <1>5 DEF StopService
  <2> QED BY <1>c, <2>1 DEF ServiceNext
<1>6. CASE \E s \in Services : WorkerStep(s) /\ UNCHANGED mainVars
  BY <1>6 DEF ServiceNext
<1> QED BY <1>1, <1>2, <1>3, <1>4, <1>5, <1>6 DEF Next, MainStep

LEMMA MainTypes == Spec => []MainTypeOK
BY InitMainTypes, StepMainTypes, PTL DEF Spec

\* What is proved of the services under any client holds in the program that main()
\* makes of them (main.cpp:57-122, 175-212).
THEOREM MainIsAClient == Spec => ServiceSafe
<1>1. Init => ServiceInit
  BY DEF Init
<1> QED BY <1>1, StepIsAllowed, MainTypes, PTL DEF Spec, ServiceSafe

\* So the smoke test and the shutdown lose no request unseen, mix up no answers and
\* leave no thread with work in its hands (main.cpp:57-122, 205-208).
THEOREM ServicesUnderMain ==
  Spec => [](RequestsAccountedFor /\ AnsweredInOrder /\ AnswerDropsCounted
               /\ ExitsOnlyWhenToldAndDone)
BY MainIsAClient, AccountingCorrect, OrderCorrect, DropsCounted, ExitsCorrect, PTL

-----------------------------------------------------------------------------
(* The order of the shutdown *)

\* The services that main() has stopped: those behind the one it deals with.
Stopped ==
  /\ main \in {"stop", "join"} =>
       \A i \in 1..Len(SmokeOrder) : i > at => worker[SmokeOrder[i]] = "exited"
  /\ main = "done" => \A s \in Services : worker[s] = "exited"

LEMMA ExitedForGood ==
  ASSUME TypeInv, [ServiceNext]_serviceVars, NEW t \in Services, worker[t] = "exited"
  PROVE  worker'[t] = "exited"
<1>1. CASE UNCHANGED serviceVars
  BY <1>1 DEF serviceVars, threadVars
<1>2. ASSUME NEW s \in Services, StepOf(s), s # t PROVE worker'[t] = "exited"
  BY <1>2, OthersUntouched
<1>3. CASE StepOf(t)
  <2>1. DOMAIN worker = Services
    BY Types
  <2> QED BY <1>3, <2>1 DEF StepOf, WorkerStep, Submit, Collect, GiveUp, Stop, TestRunning,
        PopRequests, Handle, PushAnswer, ExportDrop, EndBatch, threadVars
<1> QED BY <1>1, <1>2, <1>3, NextIsAStep

LEMMA StepKeepsStopped == TypeInv /\ MainTypeOK /\ Stopped /\ [Next]_vars => Stopped'
<1> SUFFICES ASSUME TypeInv, MainTypeOK, Stopped, [Next]_vars PROVE Stopped'
  OBVIOUS
<1> USE OrderLength
<1>0. \A i \in 1..Len(SmokeOrder) : SmokeOrder[i] \in Services
  BY SmokeAssumption, ElementOfSeq
<1>e. \A t \in Services : worker[t] = "exited" => worker'[t] = "exited"
  BY StepIsAllowed, ExitedForGood
<1>1. CASE Begin \/ EndTicks
  <2>1. main' \in {"stop", "join", "done"} => at' = Len(SmokeOrder) /\ main' = "stop"
    BY <1>1 DEF Begin, EndTicks, MainTypeOK
  <2> QED BY <2>1 DEF Stopped
<1>2. CASE SendRequest \/ TakeAnswer \/ TimeOut
  <2>1. main' \in {"poll", "submit", "tick"}
    BY <1>2 DEF SendRequest, TakeAnswer, TimeOut, Advance
  <2> QED BY <2>1 DEF Stopped
<1>3. CASE StopService
  BY <1>0, <1>3, <1>e DEF StopService, Stopped
<1>4. CASE JoinService
  <2>1. \A i \in 1..Len(SmokeOrder) : i >= at => worker[SmokeOrder[i]] = "exited"
    BY <1>4 DEF JoinService, Stopped, Current, MainTypeOK
  <2>2. CASE at > 1
    <3>1. main' = "stop" /\ at' = at - 1
      BY <1>4, <2>2 DEF JoinService
    <3>2. \A i \in 1..Len(SmokeOrder) : i > at - 1 => i >= at
      BY DEF MainTypeOK
    <3> QED BY <1>0, <1>e, <2>1, <3>1, <3>2 DEF Stopped
  <2>3. CASE ~ (at > 1)
    <3>1. main' = "done" /\ at = 1
      BY <1>4, <2>3 DEF JoinService, MainTypeOK
    <3>2. \A i \in 1..Len(SmokeOrder) : worker[SmokeOrder[i]] = "exited"
      BY <2>1, <3>1
    <3>3. \A s \in Services : \E i \in 1..Len(SmokeOrder) : SmokeOrder[i] = s
      BY SmokeAssumption
    <3>4. \A s \in Services : worker[s] = "exited"
      BY <3>2, <3>3, Zenon
    <3> QED BY <1>e, <3>1, <3>4 DEF Stopped
  <2> QED BY <2>2, <2>3
<1>5. ASSUME main' = main, at' = at PROVE Stopped'
  BY <1>0, <1>5, <1>e DEF Stopped
<1> QED BY <1>1, <1>2, <1>3, <1>4, <1>5 DEF Next, MainStep, PollAgain, sigint_handler, mainVars,
      vars

\* No thread is left when main() returns and destroys the queues the threads use, at
\* whatever moment the signal came (main.cpp:178-212).
THEOREM ShutdownOrder == Spec => []NoThreadOutlivesMain
<1>1. Init => Stopped
  BY DEF Init, Stopped
<1>2. Stopped => NoThreadOutlivesMain
  BY DEF Stopped, NoThreadOutlivesMain
<1> QED BY <1>1, <1>2, StepKeepsStopped, MainTypes, MainIsAClient, TypeCorrect, PTL DEF Spec

-----------------------------------------------------------------------------
(* Requests that timed out *)

\* The services whose request is still to come.
Ahead(i) ==
  \/ main = "start"
  \/ main = "submit" /\ i >= at
  \/ main = "poll" /\ i > at

\* One request per service and no more; nobody collects an answer that was given up;
\* and with one request under way no queue is ever full.
OneRequest(i) ==
  LET s == SmokeOrder[i] IN
  /\ sent[s] \in {0, 1}
  /\ Ahead(i) => sent[s] = 0
  /\ main = "poll" /\ i = at => runs[s].timeout = 0 /\ collected[s] = <<>>
  /\ runs[s].timeout > 0 => sent[s] = 1 /\ collected[s] = <<>>
  /\ req_dropped[s] = 0 /\ resp_dropped[s] = 0

OneEach == \A i \in 1..Len(SmokeOrder) : OneRequest(i)

LEMMA InOrderIsAService ==
  ASSUME NEW i \in 1..Len(SmokeOrder)
  PROVE  SmokeOrder[i] \in Services
<1>1. SmokeOrder \in Seq(Services)
  BY SmokeAssumption
<1> QED BY <1>1, ElementOfSeq

\* A step that leaves a service's requests alone keeps its part, unless main() turns
\* to it or back to it.
LEMMA RequestKept ==
  ASSUME NEW i \in 1..Len(SmokeOrder), OneRequest(i),
         LET s == SmokeOrder[i] IN
           /\ sent'[s] = sent[s] /\ collected'[s] = collected[s]
           /\ runs'[s].timeout = runs[s].timeout
           /\ req_dropped'[s] = req_dropped[s] /\ resp_dropped'[s] = resp_dropped[s],
         Ahead(i)' => Ahead(i),
         main' = "poll" /\ i = at' => main = "poll" /\ i = at
  PROVE  OneRequest(i)'
BY DEF OneRequest

\* With one request sent no answer is refused, and with none nothing is anywhere.
LEMMA NothingIsFull ==
  ASSUME TypeInv, RequestsAccountedFor, NEW s \in Services, sent[s] \in {0, 1}
  PROVE  /\ sent[s] = 0 => Len(req_q[s]) = 0 /\ collected[s] = <<>>
         /\ ~ (worker[s] = "reply" /\ MayRefuse(resp_q[s], RespCapacity))
<1> DEFINE a == req_dropped[s]  b == Len(req_q[s])   c == Len(batch[s])   d == Len(answer[s])
           e == Len(resp_q[s])  f == Len(collected[s])  g == resp_dropped[s]
<1>1. /\ a \in Nat /\ b \in Nat /\ c \in Nat /\ d \in Nat /\ e \in Nat /\ f \in Nat /\ g \in Nat
      /\ sent[s] = a + b + c + d + e + f + g
  BY Lengths DEF RequestsAccountedFor
<1>2. collected[s] \in Seq(Answers) /\ (f = 0 => collected[s] = <<>>)
  BY Types, EmptySeq
<1>3. worker[s] = "reply" => d = 1
  BY DEF TypeInv, Hands
<1>4. MayRefuse(resp_q[s], RespCapacity) => e >= 1
  <2>1. RespCapacity \in Nat /\ RespCapacity >= 1
    BY SmokeAssumption
  <2>2. MayRefuse(resp_q[s], RespCapacity) => e >= RespCapacity
    BY DEF MayRefuse
  <2> HIDE DEF e
  <2> QED BY <1>1, <2>1, <2>2
<1> HIDE DEF a, b, c, d, e, f, g
<1>5. /\ sent[s] = 0 => b = 0 /\ f = 0
      /\ ~ (d = 1 /\ e >= 1)
  BY <1>1
<1> QED BY <1>2, <1>3, <1>4, <1>5 DEF b, f

LEMMA WorkerKeepsRequests ==
  ASSUME TypeInv, RequestsAccountedFor, OneEach, NEW t \in Services, WorkerStep(t),
         UNCHANGED mainVars
  PROVE  OneEach'
<1> USE DEF clientVars, threadVars, metricVars
<1> SUFFICES ASSUME NEW i \in 1..Len(SmokeOrder) PROVE OneRequest(i)'
  BY DEF OneEach
<1> DEFINE s == SmokeOrder[i]
<1>0. s \in Services /\ OneRequest(i) /\ sent[s] \in {0, 1}
  BY InOrderIsAService DEF OneEach, OneRequest
<1>1. UNCHANGED <<sent, collected, req_dropped>>
  BY DEF WorkerStep, TestRunning, PopRequests, Handle, PushAnswer, ExportDrop, EndBatch
<1>2. runs'[s].timeout = runs[s].timeout
  <2>1. CASE Handle(t)
    <3>1. runs \in [Services -> [{"ok", "error", "timeout"} -> Nat]]
      BY Types
    <3>2. PICK success \in BOOLEAN :
            runs' = runs \/ runs' = [runs EXCEPT ![t][IF success THEN "ok" ELSE "error"] = @ + 1]
      BY <2>1 DEF Handle
    <3> DEFINE status == IF success THEN "ok" ELSE "error"
    <3>3. status # "timeout"
      OBVIOUS
    <3>4. runs[s] \in [{"ok", "error", "timeout"} -> Nat]
      BY <1>0, <3>1
    <3> HIDE DEF status
    <3>5. [runs[s] EXCEPT ![status] = @ + 1].timeout = runs[s].timeout
      BY <3>3, <3>4
    <3>6. \/ runs' = runs
          \/ runs' = [runs EXCEPT ![t] = [runs[t] EXCEPT ![status] = @ + 1]]
      BY <3>2 DEF status
    <3> QED BY <1>0, <3>1, <3>5, <3>6
  <2>2. CASE ~ Handle(t)
    BY <2>2 DEF WorkerStep, TestRunning, PopRequests, PushAnswer, ExportDrop, EndBatch
  <2> QED BY <2>1, <2>2
<1>3. resp_dropped'[s] = resp_dropped[s]
  <2>1. CASE t = s
    <3>1. ~ (worker[t] = "reply" /\ MayRefuse(resp_q[t], RespCapacity))
      BY <1>0, <2>1, NothingIsFull
    <3>2. resp_dropped' = resp_dropped
      BY <3>1 DEF WorkerStep, TestRunning, PopRequests, Handle, PushAnswer, ExportDrop, EndBatch
    <3> QED BY <3>2
  <2>2. CASE t # s
    BY <1>0, <2>2, OthersUntouched DEF StepOf
  <2> QED BY <2>1, <2>2
<1> QED BY <1>0, <1>1, <1>2, <1>3, RequestKept DEF mainVars, Ahead

LEMMA SendKeepsRequests ==
  ASSUME TypeInv, RequestsAccountedFor, MainTypeOK, OneEach, SendRequest
  PROVE  OneEach'
<1> USE DEF clientVars, threadVars, metricVars
<1> SUFFICES ASSUME NEW i \in 1..Len(SmokeOrder) PROVE OneRequest(i)'
  BY DEF OneEach
<1> DEFINE s == SmokeOrder[i]
<1>0. s \in Services /\ OneRequest(i) /\ Current \in Services
  BY InOrderIsAService, CurrentIsAService DEF OneEach
<1>1. main = "submit" /\ main' = "poll" /\ at' = at
  BY DEF SendRequest
<1>2. PICK kind \in Kinds[Current] : Submit(Current, kind)
  BY DEF SendRequest
<1>3. UNCHANGED <<collected, runs, resp_dropped>>
  BY <1>2 DEF Submit
<1>4. CASE i = at
  <2>1. s = Current /\ sent[s] = 0
    BY <1>0, <1>1, <1>4, OrderLength DEF Current, OneRequest, Ahead
  <2>2. Len(req_q[s]) = 0 /\ collected[s] = <<>>
    BY <1>0, <2>1, NothingIsFull
  <2>3. ~ MayRefuse(req_q[s], ReqCapacity)
    BY <2>2, SmokeAssumption DEF MayRefuse
  <2>4. req_dropped' = req_dropped
    BY <1>2, <2>1, <2>3 DEF Submit
  <2>5. sent'[s] = 1
    BY <1>0, <1>2, <2>1, Types DEF Submit
  <2>6. runs[s].timeout = 0
    <3>1. runs[s].timeout \in Nat
      BY <1>0, Types
    <3> QED BY <1>0, <2>1, <3>1 DEF OneRequest
  <2>7. ~ Ahead(i)'
    BY <1>1, <1>4, OrderLength DEF Ahead
  <2> QED BY <1>0, <1>3, <2>1, <2>2, <2>4, <2>5, <2>6, <2>7 DEF OneRequest
<1>5. CASE i # at
  <2>1. s # Current
    BY <1>5, SmokeAssumption DEF Current, MainTypeOK
  <2>2. sent'[s] = sent[s] /\ req_dropped'[s] = req_dropped[s]
    BY <1>0, <1>2, <2>1, OthersUntouched DEF StepOf
  <2>3. Ahead(i)' => Ahead(i)
    BY <1>1, OrderLength DEF Ahead, MainTypeOK
  <2> QED BY <1>0, <1>1, <1>3, <1>5, <2>2, <2>3, RequestKept
<1> QED BY <1>4, <1>5

\* Taking the answer or giving up: both count a run and turn to the next service.
LEMMA AdvanceKeepsRequests ==
  ASSUME TypeInv, MainTypeOK, OneEach, TakeAnswer \/ TimeOut
  PROVE  OneEach'
<1> USE DEF clientVars, threadVars, metricVars
<1> SUFFICES ASSUME NEW i \in 1..Len(SmokeOrder) PROVE OneRequest(i)'
  BY DEF OneEach
<1> DEFINE s == SmokeOrder[i]
<1>0. /\ s \in Services /\ OneRequest(i) /\ Current \in Services
      /\ runs \in [Services -> [{"ok", "error", "timeout"} -> Nat]]
  BY InOrderIsAService, CurrentIsAService, Types DEF OneEach
<1>1. /\ main = "poll" /\ main' # "poll"
      /\ Collect(Current) \/ GiveUp(Current)
      /\ main' = "submit" => at' = at + 1
      /\ main' \in {"submit", "tick"}
  BY DEF TakeAnswer, TimeOut, Advance
<1>2. UNCHANGED <<sent, req_dropped, resp_dropped>>
  BY <1>1 DEF Collect, GiveUp
<1>3. Ahead(i)' => Ahead(i) /\ i # at
  BY <1>1, OrderLength DEF Ahead, MainTypeOK
<1>4. CASE i = at
  <2>1. s = Current /\ runs[s].timeout = 0 /\ collected[s] = <<>> /\ sent[s] \in {0, 1}
    BY <1>0, <1>1, <1>4 DEF Current, OneRequest
  <2>2. CASE Collect(Current)
    <3>1. runs'[s].timeout = 0
      BY <1>0, <2>1, <2>2 DEF Collect
    <3> QED BY <1>0, <1>1, <1>2, <1>3, <1>4, <3>1 DEF OneRequest
  <2>3. CASE GiveUp(Current)
    <3>1. sent[s] = 1 /\ collected' = collected
      BY <2>1, <2>3 DEF GiveUp
    <3> QED BY <1>0, <1>1, <1>2, <1>3, <1>4, <2>1, <3>1 DEF OneRequest
  <2> QED BY <1>1, <2>2, <2>3
<1>5. CASE i # at
  <2>1. s # Current
    BY <1>5, SmokeAssumption DEF Current, MainTypeOK
  <2>2. collected'[s] = collected[s] /\ runs'[s].timeout = runs[s].timeout
    <3>1. CASE Collect(Current)
      BY <1>0, <2>1, <3>1, Types DEF Collect
    <3>2. CASE GiveUp(Current)
      BY <1>0, <2>1, <3>2 DEF GiveUp
    <3> QED BY <1>1, <3>1, <3>2
  <2> QED BY <1>0, <1>1, <1>2, <1>3, <2>2, RequestKept
<1> QED BY <1>4, <1>5

LEMMA StepKeepsRequests ==
  TypeInv /\ RequestsAccountedFor /\ MainTypeOK /\ OneEach /\ [Next]_vars => OneEach'
<1> SUFFICES ASSUME TypeInv, RequestsAccountedFor, MainTypeOK, OneEach, [Next]_vars
             PROVE  OneEach'
  OBVIOUS
<1>1. CASE \E s \in Services : WorkerStep(s) /\ UNCHANGED mainVars
  BY <1>1, WorkerKeepsRequests
<1>2. CASE SendRequest
  BY <1>2, SendKeepsRequests
<1>3. CASE TakeAnswer \/ TimeOut
  BY <1>3, AdvanceKeepsRequests
<1>4. ASSUME Begin \/ PollAgain \/ EndTicks \/ StopService \/ JoinService \/ sigint_handler
               \/ UNCHANGED vars,
             NEW i \in 1..Len(SmokeOrder)
      PROVE  OneRequest(i)'
  <2>1. UNCHANGED <<sent, collected, runs, req_dropped, resp_dropped>>
    BY <1>4 DEF Begin, PollAgain, EndTicks, StopService, Stop, JoinService, sigint_handler, vars,
       serviceVars, clientVars, threadVars, metricVars
  <2>2. /\ Ahead(i)' => Ahead(i)
        /\ main' = "poll" /\ i = at' => main = "poll" /\ i = at
    BY <1>4 DEF Begin, PollAgain, EndTicks, StopService, JoinService, sigint_handler, vars,
       mainVars, Ahead
  <2> QED BY <2>1, <2>2, RequestKept DEF OneEach
<1> QED BY <1>1, <1>2, <1>3, <1>4 DEF Next, MainStep, OneEach

\* A request that main() gave up is, at the end, still in its queue or answered in the
\* other: the thread neither kept it nor dropped the answer (main.cpp:77-92, 106-121
\* against dem_simulator.cpp:118-135).
THEOREM TimedOutCorrect == Spec => []TimedOutIsQueued
<1>1. Init => OneEach
  <2> SUFFICES ASSUME Init, NEW i \in 1..Len(SmokeOrder) PROVE OneRequest(i)
    BY DEF OneEach
  <2>1. SmokeOrder[i] \in Services
    BY InOrderIsAService
  <2> QED BY <2>1 DEF Init, ServiceInit, Everywhere, OneRequest, Ahead
<1>2. /\ TypeInv /\ RequestsAccountedFor /\ ExitsOnlyWhenToldAndDone
      /\ NoThreadOutlivesMain /\ OneEach
      => TimedOutIsQueued
  <2> SUFFICES ASSUME TypeInv, RequestsAccountedFor, ExitsOnlyWhenToldAndDone,
                      NoThreadOutlivesMain, OneEach, main = "done",
                      NEW s \in Services, runs[s].timeout = 1
               PROVE  Len(req_q[s]) + Len(resp_q[s]) = 1
    BY DEF TimedOutIsQueued
  <2>1. batch[s] = <<>> /\ answer[s] = <<>>
    BY DEF NoThreadOutlivesMain, ExitsOnlyWhenToldAndDone
  <2>2. PICK i \in 1..Len(SmokeOrder) : SmokeOrder[i] = s
    BY SmokeAssumption
  <2>3. sent[s] = 1 /\ collected[s] = <<>> /\ req_dropped[s] = 0 /\ resp_dropped[s] = 0
    BY <2>2 DEF OneEach, OneRequest
  <2>4. Len(batch[s]) = 0 /\ Len(answer[s]) = 0 /\ Len(collected[s]) = 0
    BY <2>1, <2>3, EmptySeq
  <2>5. Len(req_q[s]) \in Nat /\ Len(resp_q[s]) \in Nat
    BY Lengths
  <2>6. sent[s] = req_dropped[s] + Len(req_q[s]) + Len(batch[s]) + Len(answer[s])
                    + Len(resp_q[s]) + Len(collected[s]) + resp_dropped[s]
    BY DEF RequestsAccountedFor
  <2>7. 1 = 0 + Len(req_q[s]) + 0 + 0 + Len(resp_q[s]) + 0 + 0
    BY <2>3, <2>4, <2>6
  <2> DEFINE x == Len(req_q[s])  y == Len(resp_q[s])
  <2>8. x \in Nat /\ y \in Nat /\ 1 = 0 + x + 0 + 0 + y + 0 + 0
    BY <2>5, <2>7
  <2> HIDE DEF x, y
  <2>9. x + y = 1
    BY <2>8
  <2> QED BY <2>9 DEF x, y
<1> QED BY <1>1, <1>2, StepKeepsRequests, MainTypes, MainIsAClient, TypeCorrect,
      AccountingCorrect, ExitsCorrect, ShutdownOrder, PTL DEF Spec
=============================================================================
