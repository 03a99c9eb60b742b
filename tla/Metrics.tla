------------------------------- MODULE Metrics -------------------------------
(***************************************************************************)
(* One histogram of the registry, and the HTTP thread that exports it.     *)
(*                                                                         *)
(* histogram_observe holds mu_ only while it looks the histogram up; it    *)
(* then adds to each bucket, to +Inf and to the count, one atomic at a     *)
(* time.  The HTTP thread holds mu_ for a whole collection, reads the      *)
(* buckets one by one and prints running sums.                             *)
(*                                                                         *)
(* A value is its level: the first of the NumEdges edges that it does not  *)
(* exceed, or NumEdges + 1.  Counters and gauges are atomics, modelled by  *)
(* the modules that use them.  Client and socket behaviour is external.    *)
(***************************************************************************)
EXTENDS Integers, Sequences, FiniteSets

CONSTANTS Observers,          \* the threads that observe values
          NumEdges,           \* buckets declared, without +Inf
          MaxObservations,    \* bound: observations of each thread
          Clients,            \* each connects once
          Nobody              \* no client

ASSUME MetricsAssumption ==
  /\ IsFiniteSet(Observers)
  /\ NumEdges \in Nat /\ MaxObservations \in Nat
  /\ Nobody \notin Clients

Buckets == 1..NumEdges + 1    \* the last is +Inf

VARIABLES
  created,      \* histograms_ has the entry
  buckets, count,
  seen,         \* history: observations that found the entry, with a value up to each edge
  observer,     \* [Observers -> "idle" | "find" | "fill" | "count"]
  value, edge,  \* what an observer adds, and the bucket it is at
  begun,        \* observations of each observer
  http,         \* where the HTTP thread is
  http_running, \* http_running_
  main,         \* "serve" | "join" | "stopped"
  client, pending, current,   \* the clients, those to be accepted, the one accepted
  read, text,   \* buckets read by the collection, and the running sums printed
  scrape        \* history: the last complete export

histogramVars == <<created, buckets, count, seen>>
observerVars == <<observer, value, edge, begun>>
collectVars == <<read, text, scrape>>
serverVars == <<http, http_running, main, client, pending, current>>
vars == <<histogramVars, observerVars, serverVars, collectVars>>

Zeros == [b \in {0} \cup Buckets |-> 0]

Init ==
  /\ created = FALSE /\ buckets = [b \in Buckets |-> 0] /\ count = 0
  /\ seen = [b \in Buckets |-> 0]
  /\ observer = [o \in Observers |-> "idle"]
  /\ value = [o \in Observers |-> 1] /\ edge = [o \in Observers |-> 1]
  /\ begun = [o \in Observers |-> 0]
  /\ http = "setup" /\ http_running = TRUE
  /\ main = "serve"
  /\ client = [c \in Clients |-> "away"] /\ pending = <<>> /\ current = Nobody
  /\ read = 0 /\ text = Zeros
  /\ scrape = [sums |-> Zeros, count |-> 0]

\* mu_: the only holder that keeps it over several steps is a collection.
Unlocked == http # "collect"

-----------------------------------------------------------------------------
(* histogram_observe *)

\* The definition of the metric is copied under the lock.
BeginObserve(o, level) ==
  /\ observer[o] = "idle"
  /\ begun[o] < MaxObservations
  /\ Unlocked
  /\ begun' = [begun EXCEPT ![o] = @ + 1]
  /\ value' = [value EXCEPT ![o] = level]
  /\ observer' = [observer EXCEPT ![o] = "find"]
  /\ UNCHANGED <<edge, histogramVars, serverVars, collectVars>>

FindState_Recreate(o) ==   \* faulty: a new entry each time
  /\ observer[o] = "find" /\ Unlocked
  /\ created' = TRUE
  /\ buckets' = [b \in Buckets |-> 0] /\ count' = 0
  /\ seen' = [b \in Buckets |-> IF value[o] <= b THEN seen[b] + 1 ELSE seen[b]]
  /\ edge' = [edge EXCEPT ![o] = 1]
  /\ observer' = [observer EXCEPT ![o] = "fill"]
  /\ UNCHANGED <<value, begun, serverVars, collectVars>>

\* The entry is found, or made, under the lock again.
FindState(o) ==
  /\ observer[o] = "find"
  /\ Unlocked
  /\ created' = TRUE
  /\ seen' = [b \in Buckets |-> IF value[o] <= b THEN seen[b] + 1 ELSE seen[b]]
  /\ edge' = [edge EXCEPT ![o] = 1]
  /\ observer' = [observer EXCEPT ![o] = "fill"]
  /\ UNCHANGED <<buckets, count, value, begun, serverVars, collectVars>>

FillBucket_Strict(o) ==   \* faulty: < for <=
  /\ observer[o] = "fill"
  /\ buckets' = [buckets EXCEPT ![edge[o]] =
       IF value[o] < edge[o] \/ edge[o] = NumEdges + 1 THEN @ + 1 ELSE @]
  /\ IF edge[o] = NumEdges + 1
     THEN observer' = [observer EXCEPT ![o] = "count"] /\ UNCHANGED edge
     ELSE edge' = [edge EXCEPT ![o] = @ + 1] /\ UNCHANGED observer
  /\ UNCHANGED <<created, count, seen, value, begun, serverVars, collectVars>>

\* One turn of the loop over the edges; the last turn stands for the +Inf bucket,
\* which counts every value.
FillBucket(o) ==
  /\ observer[o] = "fill"
  /\ buckets' = [buckets EXCEPT ![edge[o]] = IF value[o] <= edge[o] THEN @ + 1 ELSE @]
  /\ IF edge[o] = NumEdges + 1
     THEN observer' = [observer EXCEPT ![o] = "count"] /\ UNCHANGED edge
     ELSE edge' = [edge EXCEPT ![o] = @ + 1] /\ UNCHANGED observer
  /\ UNCHANGED <<created, count, seen, value, begun, serverVars, collectVars>>

AddCount(o) ==
  /\ observer[o] = "count"
  /\ count' = count + 1
  /\ observer' = [observer EXCEPT ![o] = "idle"]
  /\ UNCHANGED <<created, buckets, seen, value, edge, begun, serverVars, collectVars>>

-----------------------------------------------------------------------------
(* The clients (external) *)

Listening == http \notin {"setup", "dead"}

Connect(c) ==
  /\ client[c] = "away"
  /\ Listening
  /\ client' = [client EXCEPT ![c] = "connected"]
  /\ pending' = Append(pending, c)
  /\ UNCHANGED <<http, http_running, main, current, histogramVars, observerVars, collectVars>>

\* A connected client asks for the metrics or for something else, or leaves.
Talk(c, words) ==
  /\ client[c] = "connected"
  /\ client' = [client EXCEPT ![c] = words]
  /\ UNCHANGED <<http, http_running, main, pending, current,
                 histogramVars, observerVars, collectVars>>

ClientTalks(c) == \E words \in {"metrics", "other", "left"} : Talk(c, words)

-----------------------------------------------------------------------------
(* http_worker *)

\* socket, bind and listen; if one fails the thread ends, and http_running_ stays.
SetUp ==
  /\ http = "setup"
  /\ http' \in {"test", "dead"}
  /\ UNCHANGED <<http_running, main, client, pending, current,
                 histogramVars, observerVars, collectVars>>

\* while (http_running_): after the loop the socket is closed, and with it every
\* connection that nobody accepted.
TestRunning ==
  /\ http = "test"
  /\ IF http_running
     THEN http' = "select" /\ UNCHANGED <<client, pending>>
     ELSE /\ http' = "dead"
          /\ pending' = <<>>
          /\ client' = [c \in Clients |->
               IF \E i \in 1..Len(pending) : pending[i] = c THEN "refused" ELSE client[c]]
  /\ UNCHANGED <<http_running, main, current, histogramVars, observerVars, collectVars>>

\* select() times out.
SelectNothing ==
  /\ http = "select"
  /\ pending = <<>>
  /\ http' = "test"
  /\ UNCHANGED <<http_running, main, client, pending, current,
                 histogramVars, observerVars, collectVars>>

Accept_Lost ==   \* faulty: accepts and goes on without looking at the connection
  /\ http = "select" /\ pending # <<>>
  /\ pending' = Tail(pending)
  /\ http' = "test"
  /\ UNCHANGED <<http_running, main, client, current, histogramVars, observerVars, collectVars>>

Accept ==
  /\ http = "select"
  /\ pending # <<>>
  /\ current' = Head(pending)
  /\ pending' = Tail(pending)
  /\ http' = "recv"
  /\ UNCHANGED <<http_running, main, client, histogramVars, observerVars, collectVars>>

\* accept() fails, as it may if the client has left meanwhile: back to the test.
AcceptFails ==
  /\ http = "select"
  /\ pending # <<>> /\ client[Head(pending)] = "left"
  /\ pending' = Tail(pending)
  /\ http' = "test"
  /\ UNCHANGED <<http_running, main, client, current, histogramVars, observerVars, collectVars>>

\* recv() blocks until the client says something or leaves.  "GET /metrics" takes
\* mu_ and starts a collection.
Receive ==
  /\ http = "recv"
  /\ client[current] # "connected"
  /\ http' = IF client[current] = "metrics" THEN "collect" ELSE "send"
  /\ UNCHANGED <<http_running, main, client, pending, current,
                 histogramVars, observerVars, collectVars>>

\* collect_prometheus_text: each le="..." line shows the sum of the buckets read.
ReadBucket ==
  /\ http = "collect"
  /\ created /\ read < NumEdges + 1
  /\ text' = [text EXCEPT ![read + 1] = text[read] + buckets[read + 1]]
  /\ read' = read + 1
  /\ UNCHANGED <<scrape, histogramVars, observerVars, serverVars>>

\* The count comes last; without an entry nothing is printed.
EndCollect ==
  /\ http = "collect"
  /\ created => read = NumEdges + 1
  /\ scrape' = [sums |-> text, count |-> count]
  /\ read' = 0 /\ text' = Zeros
  /\ http' = "send"
  /\ UNCHANGED <<http_running, main, client, pending, current, histogramVars, observerVars>>

\* The answer is sent and the connection closed.
Respond ==
  /\ http = "send"
  /\ client' = [client EXCEPT ![current] = IF @ = "left" THEN @ ELSE "answered"]
  /\ current' = Nobody
  /\ http' = "test"
  /\ UNCHANGED <<http_running, main, pending, histogramVars, observerVars, collectVars>>

-----------------------------------------------------------------------------
(* stop_http_server, the first thing main() does when it shuts down *)

Stop_NoFlag ==   \* faulty: joins without clearing the flag
  /\ main = "serve" /\ main' = "join"
  /\ UNCHANGED <<http, http_running, client, pending, current,
                 histogramVars, observerVars, collectVars>>

Stop ==
  /\ main = "serve"
  /\ http_running' = FALSE
  /\ main' = "join"
  /\ UNCHANGED <<http, client, pending, current, histogramVars, observerVars, collectVars>>

Join ==
  /\ main = "join"
  /\ http = "dead"
  /\ main' = "stopped"
  /\ UNCHANGED <<http, http_running, client, pending, current,
                 histogramVars, observerVars, collectVars>>

-----------------------------------------------------------------------------

ObserverStep(o) ==
  \/ \E level \in Buckets : BeginObserve(o, level)
  \/ FindState(o) \/ FillBucket(o) \/ AddCount(o)

HttpStep ==
  \/ SetUp \/ TestRunning \/ SelectNothing \/ Accept \/ AcceptFails \/ Receive
  \/ ReadBucket \/ EndCollect \/ Respond

Next ==
  \/ \E o \in Observers : ObserverStep(o)
  \/ \E c \in Clients : Connect(c) \/ ClientTalks(c)
  \/ HttpStep
  \/ Stop \/ Join

\* The HTTP thread and main() run; no client is sure to do anything.
Spec == Init /\ [][Next]_vars /\ WF_vars(HttpStep) /\ WF_vars(Join)

-----------------------------------------------------------------------------
(* Properties *)

TypeOK ==
  /\ created \in BOOLEAN
  /\ buckets \in [Buckets -> Nat] /\ seen \in [Buckets -> Nat] /\ count \in Nat
  /\ observer \in [Observers -> {"idle", "find", "fill", "count"}]
  /\ value \in [Observers -> Buckets] /\ edge \in [Observers -> Buckets]
  /\ begun \in [Observers -> 0..MaxObservations]
  /\ http \in {"setup", "test", "select", "recv", "collect", "send", "dead"}
  /\ http_running \in BOOLEAN /\ main \in {"serve", "join", "stopped"}
  /\ client \in [Clients -> {"away", "connected", "metrics", "other", "left",
                             "answered", "refused"}]
  /\ pending \in Seq(Clients) /\ current \in Clients \cup {Nobody}
  /\ read \in 0..NumEdges + 1
  /\ text \in [{0} \cup Buckets -> Nat]
  /\ scrape \in [sums : [{0} \cup Buckets -> Nat], count : Nat]

\* The observations that have found the entry and are still to add to bucket b.
Owed(b) ==
  {o \in Observers : observer[o] = "fill" /\ edge[o] <= b /\ value[o] <= b}

\* Each bucket holds the observations up to its edge, but for those that are on their
\* way through the loop: no overlap of observers and no first use of a label loses or
\* repeats one (metrics.cpp:103-124).
BucketsCumulative ==
  \A b \in Buckets : buckets[b] + Cardinality(Owed(b)) = seen[b]

\* A later export never shows less than an earlier one, for any bucket or for the count,
\* although both are taken while observers are half-way: Prometheus takes a decrease
\* for a restart of the process (metrics.cpp:161-182).
ScrapesGrow ==
  [][/\ \A b \in Buckets : scrape'.sums[b] >= scrape.sums[b]
     /\ scrape'.count >= scrape.count]_vars

\* Clients do not keep a connection open in silence.
ClientsTalk == \A c \in Clients : WF_vars(ClientTalks(c))

\* If no client stays silent, every request that is made is answered, or refused
\* because the server shut down (metrics.cpp:254-295).
RequestsAnswered ==
  ClientsTalk => \A c \in Clients :
    client[c] \in {"metrics", "other"} ~> client[c] \in {"answered", "refused"}

\* If no client stays silent, stop_http_server returns (metrics.cpp:199-202).  The
\* premise is needed: recv() waits for the client that is being served.
ServerStops == ClientsTalk => (main = "join" ~> main = "stopped")
=============================================================================
