# Stone mill service: specifications and proofs

TLA+ models of the stone mill monitoring service (`src/backend`), the TLC runs that
check them on small instances, and TLAPS proofs for every value of the constants.

- `*.tla` without prefix: one module per component (or per composition of components).
- `MC*.tla`, `MC*.cfg`: instances for TLC. `*Proofs.tla`: theorems with their proofs.
- `PROJECT.json`: the runs, the faulty variants ("mutants") each property rejects, the
  source lines behind every definition, findings, hazards, theorems.

Run `tlc -config MCAlarmPipeline.cfg MCAlarmPipeline.tla` (likewise the others; the module
of a cfg without an `MC` module of its name is the one `PROJECT.json` gives) and `tlapm AlarmPipelineProofs.tla`.

## 1. The system

The built program (`src/CMakeLists.txt`) is one process with six threads:

```
main --inject--> [sensor queue] --> AlarmMqtt/AlertSystem --> [alert queue] --> main
main ----------> [dem_req]      --> DemSimulator          --> [dem_resp]    --> main
main ----------> [opt_req]      --> SizeOptimizer         --> [opt_resp]    --> main
all of them ---> Metrics (counters, gauges, histograms) <--- HTTP thread
```

| Component | State | Operations | Hard behaviour | Correct if |
|---|---|---|---|---|
| MessageQueue (`message_queue.h`) | queue, `dropped_`, `size_` | push, pop, pop_bulk, dropped, approx_size | relaxed counters updated after the queue; unsigned wrap; capacity that is soft in the lock-free build | FIFO, each message once, losses counted, counters converge |
| MqttReceiver | `running_` | inject_test_message, validate, an idle thread | refused readings | every reading is queued or counted |
| AlarmMqtt | `running_`, `active_per_mill`, the batch | worker loop, stop | stop seen between batches only; several alerts per reading, each refused or not; gauges shared with main | alerts in order, none lost uncounted; the thread ends |
| AlertSystem | `last_alert_times_`, `active_alerts_`, `thresholds_` | check_all, create_alert | timer and alert stored in two steps; system clock set back; severities share a timer | spacing of alerts, no timer without an alert |
| DemSimulator, SizeOptimizer | `running_`, the batch | worker loop, stop | batches, exceptions, full response queue, stop during a computation | one answer per request, in order, or a counted loss; stop returns |
| main | local queues, `g_shutdown`, `ran_smoke`, tick | smoke test, ticks, shutdown | bounded polls racing late answers; signal at any moment; order of the joins | smoke test ends; threads gone before the queues |
| Metrics | maps of counters, gauges, histograms | counter_inc, gauge_set, histogram_observe, collect, HTTP thread | maps grown without the mutex; several writers of one metric; cumulative buckets | metrics mean what their HELP says |
| GeneticOptimizer | population, best, rng | optimize | endless draw of a second parent | the result is the best ever evaluated, elites survive, settings in range |
| DEMModel | particles, forces, `next_particle_id_` | generate, coarse-grain, simulate, reconstruct | ids from three places; order of forces, integration and breakage; remainder of coarse-graining; uninitialized configuration | ids unique, counts follow from breaks |
| ConfigLoader | none | load_from_file/string, save | keys of two sections, missing keys, missing file, two members for the thresholds | configured values reach the modules |
| ClickHouseClient, MQTTClient (legacy, not built) | queues under a condition variable, `running_`, `connected_`, `should_reconnect` | insert/publish, writer thread, reconnecting thread, start, stop | stop flag cleared outside the lock; notifications lost or early; a reconnection that overlaps a stop | entries written in order, each once; stop returns and is final |
| Frontend (`app.js`) | flags and buttons of the optimization panel, chart, result; refresh timer | start, cancel, the generations in between; toggle and re-time the refresh | clicks between two awaits; timers whose handle is lost | the panel shows the last run alone; one interval fires |
| HTTPServer (legacy, not built) | latest readings | handlers that nothing calls | | see section 7 |
| Logger, simulator, SQL, deployment | | | | see section 7 |

Some places do not compile as committed, and the models take the evident meaning:
`alert_q.pop(am)` (`main.cpp:57`; `pop` has no parameter), `AlertType::OVERSPEED` and
`OVERPRESSURE` (`alarm_mqtt.cpp:54-55`; the enumerators are `ABNORMAL_SPEED` and
`ABNORMAL_PRESSURE`), `mqtt_broker_host` and `mqtt_broker_port` (`alarm_mqtt.cpp:26`, `mqtt_receiver.cpp:23`; the members are
`mqtt_host` and `mqtt_port`), `emplace` of a `std::atomic` (`metrics.cpp:78,88`), `resize` of a vector of
atomics (`metrics.cpp:110`), and `fcntl` without `<fcntl.h>` (`metrics.cpp:247-248`). The list is of what was met
while modelling; nothing was compiled.

In the built service the two computations get no particles: `dem_simulator.cpp:47-48` drops the list that
`generate_particles` returns and calls the `simulate` that starts from an empty one (`dem_model.cpp:720-722`), and
`size_optimizer.cpp:40-41` runs the `optimize` that passes an empty list on. `DEMModel` and `GeneticOptimizer` are
about these classes for any caller, particles included; what they show of particles is not reached from the
service as committed.

## 2. Modules

| Module | Models | Composes |
|---|---|---|
| `BulkOps` | what a bulk takes from a queue and leaves | |
| `QueueOps` | when a push may be accepted or refused | BulkOps |
| `MessageQueue` | the abstract FIFO queue; also the mutex build, where each operation is one critical section | QueueOps |
| `LockFreeQueue` | the lock-free build, two steps per operation | QueueOps, refines MessageQueue |
| `AlertSystem` | checks, timers, alerts (an open module: state and actions) | |
| `AlarmPipeline` | main's smoke test (alert part), MqttReceiver, AlarmMqtt, the two queues, drop counters, gauge | AlertSystem, QueueOps |
| `RequestServices` | DemSimulator and SizeOptimizer as one parameterised loop | QueueOps |
| `SmokeTest` | main as their client | RequestServices, whose clients it implements |
| `Metrics` | one histogram from its first use on, the collector, the HTTP thread with its clients, `stop_http_server` | |
| `GeneticOptimizer` | `optimize()`: evaluation, best, elites, tournaments, crossover, mutation | |
| `DEMModel` | the particle list through generation, coarse-graining, time steps with breakage, reconstruction | |
| `AsyncWriter` | ClickHouseClient and MQTTClient: callers, writer thread, reconnecting thread, the owner that starts and stops | BulkOps |
| `ConfigLoader` | from the text of `app_config.json` to what each module is constructed from | |
| `WebApp` | the optimization panel and the refresh timer of `app.js` | |

`GeneticOptimizer` and `DEMModel` are what the computations inside RequestServices do; they share no state with
another thread, so RequestServices keeps of them only that they succeed or fail.

**Correspondence.** A state variable has the name of the member it stands for
(`size_`, `dropped_`, `last_alert_times`, `active_per_mill`, `g_shutdown`). Where a thread is
between two statements is `worker`, `main`, `producer[p]` or `consumer`; an action is what
a thread does between two such points. A point separates two accesses to shared state
(a queue, a flag, a metric, the alert store): for example
`should_suppress_alert` (`RunCheck`), `create_alert`, `push` (`PushAlert`) and
`counter_inc` (`ExportDrop`) are four steps of the worker; a refused injection (`inject_test_message`,
`CountRefusal`) is two steps of `main`, and a report (`ReadDropped` and `AddDropped` of each queue) four. History variables are `received`,
`drained`, `collected`, `reported`; they are written and never read by an action (so are `written` and `missed` of `AsyncWriter`, `asked`, `seen`
and `cancelledAt` of `WebApp`).

**Abstractions.** A reading is its mill, whether it passes `validate()`, and the level its
values reach for each alert type (that is, the thresholds are applied when the reading is
made; they do not change while the built service runs). An alert is its position in
`active_alerts`; ids are unique because of `alert_counter_++`. Time is a clock that goes
anywhere in `0..MaxClock`. A simulation or optimization is a success flag. Sleeps are left
out: no property depends on how long one is, and everything that may happen in one may
happen between two steps. A queue operation inside AlarmPipeline and RequestServices
is one step; that this is sound for the lock-free build is the refinement proved in
`LockFreeQueueProofs` (`Growable` chooses the build). The other side of the contract, that the threads use a queue
only as `MessageQueue` allows, is proved for the alert queue and the response queues, where the models keep what was handed over.

Metrics: a value is the first bucket edge that it does not exceed. `FillBucket` is one atomic
increment, `ReadBucket` one atomic load, so every overlap of observers with a collection is
explored; the mutex is held where `Unlocked` says it is not free. A client connects, and
then sends a request or leaves, or stays silent; sockets are external. `send` to a client that has left
is taken to fail quietly (the process would get SIGPIPE; nothing in the source handles it). `accept` may fail for a
client that has left (`AcceptFails`); that the process runs out of descriptors is not modelled.

RequestServices: a client submits, collects an answer (counted as "ok"), or gives up (`GiveUp`, counted as
"timeout"), in any order; `main` in `SmokeTest` takes these same actions behind its own guards.

GeneticOptimizer: integers stand for reals and every draw is a choice over its range; two blends
lie between the parents and add up to them. The two settings go through the same code, so one is
modelled. A fitness may be anything at each evaluation, since a simulation draws random numbers.
`EliteCount` is the truncated product of size and rate.

DEMModel: of a particle its id, its broken flag and the sign of its strength (a normal
deviate around 5e6, so a negative one is possible, though rare); of a force whether it is none, light, or above a sound
strength. `load` and `spared` are history. Ids are natural numbers: that `uint32_t` wraps after
2^32 ids is not modelled. `CountSize` is the number of values of `size_t`, so that `newly_broken` wraps as in the code.

AsyncWriter: the two clients share one module, because they are the same monitor; `client` says
which one runs, and each difference is a condition on it (`QueuesOf`, `Leaves`, the second thread, the steps of the
stop call). An entry is its number in its queue. The mutex is held where it matters: a writer
that found the predicate false and does not sleep yet (`block`) excludes a push, but not the stop call, which
clears `running_` and notifies without the mutex. Waits may also end without a notification. Writing
prints an entry, one step each. The owner is one thread, since assigning a `std::thread` that was not
joined ends the process; the 5 s and 1 s of the reconnecting thread are places where anything may happen.

WebApp: JavaScript runs one event to its end, so an action is the code between two awaits, and the first
generation belongs to the click. A run in `delay()` is a member of `chains`: nothing in the model, as nothing in
the code, keeps two of them apart but the flag and the disabled buttons. A fitness is one of a few values at
each generation, as it is partly random. Of the chart the best line is kept.

ConfigLoader: a value is named by its origin (section and key, `"zero"`, or `"built-in"`). Files have any of the five
sections in any order, each with any of its keys. `ExtractSection` yields what the source yields: the text
from the section to the end, since the opening brace is counted twice.

Two simplifications of `main`: an exception in the smoke test (caught at `main.cpp:184-188`, the tick loop
follows) is not modelled; the shutdown starts after `metrics.stop_http_server()`, which is `Stop`
and `Join` of `Metrics`.

## 3. Runs

| Run | Instance | Checks |
|---|---|---|
| `lock_free_queue` | 2 producers of 3 messages, capacity 2, bulk 2, 4-bit counter | `SizeTracksQueue`, `WrapsOnlyBehindAPush`, `PerProducerOrder`, `EveryPushAccountedFor`, refinement `ImplementsMessageQueue`, `GaugeSettles` |
| `alarm_pipeline` | 2 mills, 3 readings (two alerts at once; other mill; invalid), 2 of them injected, both capacities 1, batch 2, period 1, clock 0..1, 2 reports | `SuppressionSpacing`, `TimerHasAlert`, `AlertsAccountedFor`, `AlertsInOrder`, `DropsCountedAgain`, `ExitWithEmptyHands`, `ShutdownCompletes`, `ReadingsTaken` |
| `request_services` | one service with both kinds of requests, batch 2, 4 requests, request capacity 3, response capacity 1 | `RequestsAccountedFor`, `AnsweredInOrder`, `AnswerDropsCounted`, `ExitsOnlyWhenToldAndDone`, `RequestsTaken`, `StopReturns` |
| `smoke_test` | both services, 2 and 3 polls | `NoThreadOutlivesMain`, `TimedOutIsQueued`, `SmokeEnds`, `ShutdownJoinsServices` |
| `metrics` | 2 observers of one value each, 2 edges and +Inf, 2 clients | `BucketsCumulative`, `ScrapesGrow`, `RequestsAnswered`, `ServerStops` |
| `genetic_optimizer` | 4 individuals, 2 generations, 1 elite, 2 settings, fitness 0 or 1 | `BestEver`, `ElitesSurvive`, `Finishes` |
| `dem_model` | 4 calls of 0 to 4 particles, scale 1 or 2, 1 step, 3 or 4 fragments | `IdsUnique`, `ResultCounted` |
| `async_writer` | either client, 2 callers, 3 readings in batches of 2, 1 alert, 2 messages, 2 starts | `EntriesInOrder`, `StoppedMeansSilent`, `EntriesWritten`, `StopReturnsUnlessMissed` |
| `frontend` | 3 runs of 1 or 3 generations, 2 settings, 2 fitnesses, a chart of 2, 3 timers of 2 periods | `PanelShowsLastRun`, `RefreshAsSet`, `PanelComesFree` |
| `active_metric` | pipeline that never drops | finding: the gauge of active alerts ends too low |
| `loaded_breaks` | 2 calls of up to 2 particles, no coarse-graining | finding: a loaded particle does not break |
| `config_applied` | every file of the five sections, in any order, with any of 6 keys | finding: thresholds of the file are not applied |

Type invariants (`TypeOK`, `ServiceTypeOK`) are proved for all values of the constants (section 5), so no
run repeats them. So are those of `SmokeTest` and `WebApp`, `MainTypeOK` and `AppTypeOK`, which stand in the proof
modules. `ConfigLoader`, one computation without an invariant, has none.

**Bounds, and why they are enough.** Every bound is a constant: `MaxPushes`, `MaxClock`,
`NumInjected`, `MaxReports`, `MaxRequests`, `SizeBits`. The queues of the program hold hundreds to
thousands of messages and its batches 32 and 16; the instances make both so small that refusal,
growth past the capacity, a partial batch, an empty pop and a full one all occur within
a few messages. Two producers are enough to overlap a finished push with an unfinished one;
three messages each fill the queue beyond its capacity and let the counter wrap. Two readings
are enough for a repeated, a suppressed and a spaced alert of one type, and for one
reading whose second alert is refused; a clock of two values stands still, passes the period, or is set
back behind a timer. Two reports are one that repeats drops which the first has repeated already. Two observers create the histogram at the same time and
overlap in every bucket; two clients need two exports, one after the other, for `ScrapesGrow` to
compare. Four individuals leave three places behind the elite, an odd number, so that a second child is
dropped, and two generations are one selection; fitnesses tie. Four particles of scale 2 make two groups, three leave one over, and four calls allow a
result to be simulated again, at another scale. For `AsyncWriter` three readings make a full batch with one left over, or two of
one call and one of another; an alert beside them shows that one notification serves two queues; two
starts are a restart that finds what the first run left queued. For `WebApp` three generations exceed the chart
and leave a delay to cancel in before, between and after, three runs let a late step meet two
later ones, and three timers are two changes. A signal may come in every state. The
safety invariants are proved for all values besides (section 5).

**Deadlock** is checked where a run does not turn it off. `MCRequestServices.cfg`,
`MCSmokeTest.cfg`, `MCMetrics.cfg`, `MCGeneticOptimizer.cfg`,
`MCDEMModel.cfg`, `MCLoadedBreaks.cfg`, `MCConfigLoader.cfg`, `MCAsyncWriter.cfg` and `MCWebApp.cfg` do: there the system really stops, when the thread has exited and the
clients have nothing left, when `main` has returned, when the search is done, when `main` has built its modules, when a stop call waits for a
writer that missed its notification (the hang is in the code; `StopReturnsUnlessMissed` names it), or when the calls
of the instance are used up.

## 4. Fairness

Weak fairness of each thread: the operating system schedules it, and no step of a thread
waits for a condition that could come and go (the only blocking operation is a join, whose condition stays true).
A signal is never promised, nor is a client that submits, collects or stops, nor a tick of
the clock. `LockFreeQueue` asks for the end of a push but not for its start, and for a
consumer that keeps polling. `SmokeTest` states fairness of `main` only: `SmokeEnds` holds
even if a computation never returns, and `ShutdownJoinsServices` names the fairness of the
services as its premise, since `stop()` waits for the computation under way.

`Metrics` asks for the HTTP thread and for the join; that a connected client talks is
the premise of both liveness properties (`ClientsTalk`), since `recv` waits for it without a
limit. Observers are not fair: nothing waits for them. `GeneticOptimizer` runs on one thread, which
is scheduled; a simulation is taken to return. `Finishes` needs two individuals, as the ASSUME says: with one, the loop
at `genetic_optimizer.cpp:230` never ends. `DEMModel` has no liveness property.

`AsyncWriter` asks for the steps of the writer, of the reconnecting thread, of a stop call that has begun, and for the
notification that follows a push; nobody has to insert, connect, start or stop, and no wait has to
end without a notification. `StopReturnsUnlessMissed` is as strong as the code allows: a stop call returns, or waits for
ever for a writer that had tested the flag before, and slept after the notification. `WebApp` asks only that
a delay that has begun ends.

## 5. What is proved

For every value of the constants that satisfies the modules' ASSUMEs:

| Module | Theorems | Argument |
|---|---|---|
| `BulkOpsProofs` | `BulkSplits` | what a bulk takes and leaves are together the queue |
| `LockFreeQueueProofs` | `TypeCorrect`, `SizeCorrect`, `WrapCorrect`, `OrderCorrect`, `AccountingCorrect`, `Refinement` | `IInv` = types and `SizeTracksQueue`; the sets of producers between the two steps of a push are finite and change by one. A wrapped `size_` needs more producers between the push and its count than there are messages queued, so the message of one of them has been popped (`QueuedAreFew`). Order: what was received and what is queued form one line, which a pop leaves alone and a push extends. The refinement maps the abstract `dropped` to `dropped_` plus the refusals not counted yet; a push takes effect when the node is in, a bulk pop message by message |
| `AlarmPipelineProofs` | `TypesAndHands`, `SpacingCorrect`, `TimersCorrect`, `AccountingCorrect`, `OrderCorrect`, `DropsCorrect`, `AlertQueueCorrect` | `Hands` says what the worker holds at each location (a reading from "check" on, alerts only from "create" to "push"). Spacing needs `TimersCover` (the timer of a mill and type is no earlier than its latest alert) and `CreatingIsDue` (an alert being created is due), since the decision and the creation are two steps. Frame lemmas say that no other step touches the alerts. `AlertQueue` instantiates `MessageQueue` with `drained` for what was handed over; a pop is a bulk of one (`PopIsBulkOfOne`). The account of the drop metric (`Balanced`) is kept by each of its writers; a report needs `NothingRead` besides: before it reads, it holds nothing that is still to be added |
| `RequestServicesProofs` | `ServiceTypes`, `DropsCounted`, `ExitsCorrect`, `AccountingCorrect`, `OrderCorrect`, `ResponseQueueCorrect` | a step of one service leaves the others alone (`OthersUntouched`); `Hands` as above; `Told`: the thread has exited only after stop(). Order: the ids of a service, read from the answers collected back to the requests queued, form one increasing sequence that never exceeds `sent`; each step moves an id along it, appends a new one or takes one out |
| | `MainIsAClient`, `ServicesUnderMain`, `ShutdownOrder`, `TimedOutCorrect` (`SmokeTest`) | each step of `main` is a step of the general client or leaves the services alone, so the theorems above hold under it. `Stopped`: the services behind the one `main` deals with have exited, and an exited thread stays so. `OneEach`: one request per service, none before `main` comes to it, none collected after it was given up; with one request under way no queue is full, so the answer that came late is still there |
| `MetricsProofs` | `TypeCorrect`, `CumulativeCorrect`, `ScrapesCorrect` | `BucketsCumulative` counts the observers that still owe a bucket its increment. `ScrapesGrow` needs `ExportsLag`: a running sum grows by no more than the bucket holds, and the one being printed is ahead of the last export as far as it goes |
| `OptimizationProofs` | `TypeCorrect`, `BestCorrect`, `ElitesCorrect` (`GeneticOptimizer`) | `Records` says which populations are recorded in each phase; `Carries`, that the population being built opens with the elites of the last record, through evaluation, which changes fitnesses and no settings |
| | `PanelCorrect`, `RefreshCorrect` (`WebApp`) | `PanelInv`: the buttons follow the flag; while it is set, the last run is the only one in `delay()`, is as far as the fitness values seen and holds their best (`RunUnderWay`), otherwise no run is left (`RunOver`). The chart is always the end of what was seen (`LatestGrows`). For the timer: the interval it holds is the only one that fires |
| `DEMModelProofs` | `TypeCorrect`, `IdsCorrect`, `ResultCorrect` | every list a function makes is numbered from the counter on (`Fresh`); appending such a list to one whose ids lie below the counter keeps them unique and below the new counter (`AppendFresh`); `Pending` says when fragments are pending. `Counted` says during a call what `ResultCounted` says at its end; a breakage adds one broken particle and whole fragments, and the broken grains after reconstruction are in bijection with pairs of a broken group and a place in it (`ReconstructBroken`), so their number is a product |
| `AsyncWriterProofs` | `TypeCorrect`, `EntriesStayInOrder`, `StopIsFinal` | `IInv` = types, `EntriesInOrder`, `BatchHeld` (a batch is held only between taking and the end of writing) and `OwnerKnows` (what each step of the stop call has established: from the join of the writer on there is none, after the join of the other thread nobody reconnects). A push extends the line at its end, a bulk and a write move a cut in it (`BulkSplits`) |

Only model-checked: every liveness property (`GaugeSettles`, `ReadingsTaken`,
`ShutdownCompletes`, `ShutdownJoinsServices`, `RequestsTaken`, `StopReturns`, `StopReturnsUnlessMissed`, `SmokeEnds`, `RequestsAnswered`, `ServerStops`,
`Finishes`, `EntriesWritten`, `PanelComesFree`), which are beyond the prover, and the violations of section 6. Every
invariant and every action property of a passing run is stated by a theorem. Two theorems rest on the
assumptions of `SmokeTest`: `main` deals with every service it starts and with each once, and a
queue has room for a message; `main.cpp:153-166` makes queues of 1024 and 256 and starts two services, both of which the smoke test asks.

## 6. Findings

Each is shown by a run that expects the violation.

1. `stonemill_alerts_active` ("Currently active alerts") is overwritten by `main.cpp:59` with the
   number of alerts it drained before; alerts of the meantime vanish from the gauge
   until the next batch that raises one.
2. In `DEMModel`, `integrate()` clears the forces (`dem_model.cpp:612`) before `handle_breakage()` computes
   the stress from them (617). A sound particle never breaks, whatever its load: the breakage
   that `README.md:74` names, and `dem_model.cpp:628` decides, does not take place.
3. The thresholds of `app_config.json` are not applied: the loader stores them in `process.thresholds`
   (`config_loader.cpp:150-156`), `main.cpp:162` passes `app_cfg.thresholds`, which stays zero. No yield is
   below zero, so `low_yield` is never raised, and every reading is a critical wear. Besides, `min_speed` and
   `max_speed` are taken from the first section that has them, which in the committed file is `optimization`.

Seen while modelling, and not the subject of a run:

- `stonemill_queue_dropped_total` is not the "Total messages dropped in queues" of `metrics.cpp:38` (nor the count of
  `README.md:221`): it counts each drop when it happens, and at every 200th tick it adds the cumulative
  `dropped()` again (`main.cpp:198-199`), so one drop shows as one more with each report, without limit.
  `DropsCountedAgain` says so, exactly: the metric is the drops plus what all reports read, but for what is under way.
- A run is counted in the worker and again in `main` (`main.cpp:87,117`), there as "ok" whatever the answer says.
- The bucket `le="+Inf"` shows more than the observations made: they are added to all buckets above
  the value (`metrics.cpp:119-124`), and the export sums the buckets up again (`metrics.cpp:167,174`). The model
  exports these sums; `ScrapesGrow` is about them.
- `load_from_file` returns zeros for a missing file, so the defaults that `main.cpp:143-150` announces are never used.
- `stop_async_writer` and `MQTTClient::stop` may hang: the flag is cleared outside the mutex. `StopReturnsUnlessMissed`
  shows that this is the only way they can. What is queued when the writer leaves stays queued until the next start, and
  `should_reconnect` is never set again, so a restarted MQTTClient does not reconnect.
- A cancellation during the last delay of a run withholds the result without a message (`app.js:672,707`).

## 7. Not modelled, and the plan

In this order:

1. **Proofs**: abstract specifications beside `MessageQueue` that are worth a refinement proof: the log of accepted
   entries behind `AsyncWriter`, the numbered answers behind `RequestServices`.
2. **Metrics**: lookup and insertion of a label without the mutex (`metrics.cpp:74-92`).
3. **Spatial grid**: that it finds the contacts that the brute-force search finds (`dem_model.cpp:27-128`).
4. **Frontend**: requests to the API whose answers may arrive out of order (`app.js:605`, `app.js:822`), the views and the
   alert list.

Left out for good: the HTTP server (legacy, not built, and no request reaches it: `worker_thread` registers
routes and sleeps, `http_server.cpp:404-421`, and nothing calls the handlers) with the operations of AlertSystem that only it uses;
the Logger (output behind a mutex), rendering in the frontend, the load generator
`sensor_simulator.py` (nothing in the built service receives its messages), SQL, deployment
files, `ConfigLoader::save_to_file` (nothing calls it), and the formulas of forces and integration (floating point,
out of TLC's reach).
