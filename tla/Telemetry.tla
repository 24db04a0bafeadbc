------------------------------ MODULE Telemetry ------------------------------
(***************************************************************************)
(* How a measurement reaches the capture file.  Tasks of the runtime call  *)
(* counter! and gauge!: look the metric up in the registry, change it      *)
(* through the handle, and only then raise its generation.  The capture    *)
(* manager of captures.rs, a thread of its own, visits every metric once a *)
(* second, expires the ones whose generation stands still, and writes the  *)
(* others as lines.  One of the tasks is the target_metrics server, which  *)
(* scrapes the target once the experiment has started.                     *)
(* The registry and its recency are of metrics-util, and so external.      *)
(***************************************************************************)
EXTENDS TargetMetrics

CONSTANTS
  Workers,      \* tasks of generators and blackholes, counting bytes
  Servers,      \* target_metrics servers to consider: "none", "expvar", "prometheus"
  Texts, Jsons, \* what the target's endpoint may answer
  Metrics,      \* the names the configuration lets through
  ExpVars,      \* the variables the configuration names, in their order
  WallTimes,    \* what SystemTime may say of a record: it may be set back, and
                \* below zero stands for a time before the epoch
  Expiration,   \* capture expiration, in seconds
  MaxTime,      \* bound: seconds
  MaxCount,     \* bound: calls per worker, in runs without a server
  MaxScrapes,   \* bound: answers of the target
  MaxFailures   \* bound: failing flushes

ASSUME TelemetryAssumption ==
  /\ Servers \subseteq {"none", "expvar", "prometheus"}
  /\ WallTimes \subseteq Int
  /\ Expiration \in Nat
  /\ {MaxTime, MaxCount, MaxScrapes, MaxFailures} \subseteq Nat

VARIABLES
  now,                      \* the monotone clock of Instant and the recency
  running, started, shutdown,  \* the phase signals
  registry,                 \* metric |-> its value, generation and birth
  births,                   \* metrics created so far
  recency,                  \* metric |-> generation and when it was new
  handle,                   \* what each task is doing to which metric
  count,                    \* calls each worker has made
  server,                   \* the target_metrics server
  capture,                  \* the capture manager's thread
  fetch_index, buffer, capture_file,
  failures,
  touched                   \* auxiliary: when a metric last changed
  (* capture.before is auxiliary too: the registry as a record begins.     *)

signals == <<running, started, shutdown>>
metricVars == <<registry, births, recency, touched>>
fileVars == <<fetch_index, buffer, capture_file, failures>>
vars == <<now, signals, metricVars, handle, count, server, capture, fileVars>>

Tasks == Workers \cup {"server"}
NoHandle == [at |-> "none"]
BytesWritten == [kind |-> "counter", labels |-> "none",
                 name |-> [base |-> "bytes_written", suffix |-> "", sep |-> "_"]]
KeyOf(update) ==
  [kind |-> update.kind, name |-> update.name, labels |-> update.labels]
Live(k) == k \in DOMAIN registry
Zero == [form |-> "int", n |-> 0]

Idle(at, start) ==
  [at |-> at, start |-> start, time |-> 0, todo |-> {}, before |-> <<>>,
   key |-> BytesWritten, gen |-> 0, lines |-> <<>>]

(* CaptureManager::new and start: the recorder is installed and the thread *)
(* spawned before any task runs.  target_metrics::Server::new picks one.   *)
Init ==
  /\ now = 0
  /\ running = FALSE
  /\ started = FALSE
  /\ shutdown = FALSE
  /\ registry = <<>>
  /\ births = 0
  /\ recency = <<>>
  /\ handle = [t \in Tasks |-> NoHandle]
  /\ count = [w \in Workers |-> 0]
  /\ server \in [kind : Servers, at : {"warmup"}, updates : {NoUpdates},
                 panicked : {FALSE}, scrapes : {0}]
  /\ capture = Idle("await_target", 0)
  /\ fetch_index = 0
  /\ buffer = <<>>
  /\ capture_file = <<>>
  /\ failures = 0
  /\ touched = <<>>
-----------------------------------------------------------------------------
(* The rest of lading: time passes, the target starts, warmup ends, and at *)
(* some moment the run is over.                                            *)
Tick ==
  /\ now < MaxTime
  /\ now' = now + 1
  /\ UNCHANGED <<signals, metricVars, handle, count, server, capture, fileVars>>

TargetStarts ==
  /\ ~running
  /\ running' = TRUE
  /\ UNCHANGED <<now, started, shutdown, metricVars, handle, count, server,
                 capture, fileVars>>

ExperimentStarts ==
  /\ running /\ ~started
  /\ started' = TRUE
  /\ UNCHANGED <<now, running, shutdown, metricVars, handle, count, server,
                 capture, fileVars>>

RunEnds ==
  /\ started /\ ~shutdown
  /\ shutdown' = TRUE
  /\ UNCHANGED <<now, running, started, metricVars, handle, count, server,
                 capture, fileVars>>
-----------------------------------------------------------------------------
(* register_counter and register_gauge: the task now holds the metric,     *)
(* found or made, whatever becomes of the registry.                        *)
Register(t, k, value) ==
  /\ handle[t] = NoHandle
  /\ handle' = [handle EXCEPT ![t] =
       [at |-> "held", key |-> k, value |-> value,
        born |-> IF Live(k) THEN registry[k].born ELSE births]]
  /\ IF Live(k)
     THEN UNCHANGED <<registry, births, touched>>
     ELSE /\ registry' = (k :> [value |-> Zero, gen |-> 0, born |-> births]) @@ registry
          /\ touched' = (k :> now) @@ touched
          /\ births' = births + 1

(* Variant: a scraped counter is set.                                      *)
ChangedBySetting(t, old, value) ==
  IF handle[t].key.kind = "gauge" THEN value
  ELSE IF t \in Workers THEN [old EXCEPT !.n = @ + 1]
  ELSE value

(* A counter is incremented by a worker and raised (absolute) by a scrape; *)
(* a gauge is set.                                                         *)
Changed(t, old, value) ==
  IF handle[t].key.kind = "gauge" THEN value
  ELSE IF t \in Workers THEN [old EXCEPT !.n = @ + 1]
  ELSE IF value.n > old.n THEN value ELSE old

HandleIsLive(t) ==
  Live(handle[t].key) /\ registry[handle[t].key].born = handle[t].born

(* The two halves of a change through a handle: the value, then the        *)
(* generation.  A metric that has expired meanwhile changes out of sight.  *)
Change(t) ==
  /\ handle[t].at = "held"
  /\ registry' = IF HandleIsLive(t)
                 THEN [registry EXCEPT ![handle[t].key].value =
                         Changed(t, @, handle[t].value)]
                 ELSE registry
  /\ handle' = [handle EXCEPT ![t].at = "changed"]
  /\ UNCHANGED <<now, signals, births, recency, touched, count, server, capture,
                 fileVars>>

Generation(t) ==
  /\ handle[t].at = "changed"
  /\ IF HandleIsLive(t)
     THEN /\ registry' = [registry EXCEPT ![handle[t].key].gen = @ + 1]
          /\ touched' = [touched EXCEPT ![handle[t].key] = now]
     ELSE UNCHANGED <<registry, touched>>
  /\ handle' = [handle EXCEPT ![t] = NoHandle]
  /\ UNCHANGED <<now, signals, births, recency, count, server, capture, fileVars>>

(* counter!("bytes_written").increment(1) in a generator or blackhole.     *)
WorkerCounts(w) ==
  /\ server.kind = "none" /\ count[w] < MaxCount
  /\ Register(w, BytesWritten, Zero)
  /\ count' = [count EXCEPT ![w] = @ + 1]
  /\ UNCHANGED <<now, signals, recency, server, capture, fileVars>>
-----------------------------------------------------------------------------
ServerMoves ==
  UNCHANGED <<now, signals, recency, count, capture, fileVars>>

(* Both servers wait for the warmup to end and for nothing else.           *)
ServerStarts ==
  /\ server.at = "warmup" /\ server.kind # "none" /\ started
  /\ server' = [server EXCEPT !.at = "idle"]
  /\ ServerMoves /\ UNCHANGED <<registry, births, touched, handle>>

(* A second has passed: ask the target.                                    *)
Poll ==
  /\ server.at = "idle" /\ server.scrapes < MaxScrapes
  /\ server' = [server EXCEPT !.at = "asking"]
  /\ ServerMoves /\ UNCHANGED <<registry, births, touched, handle>>

(* No answer within the timeout, or one that is not text or JSON.          *)
PollFails ==
  /\ server.at = "asking"
  /\ server' = [server EXCEPT !.at = "idle", !.scrapes = @ + 1]
  /\ ServerMoves /\ UNCHANGED <<registry, births, touched, handle>>

Answered(read) ==
  server' = [server EXCEPT !.at = "recording", !.updates = read.updates,
                           !.panicked = read.panicked, !.scrapes = @ + 1]

PrometheusAnswers(text) ==
  /\ server.at = "asking" /\ server.kind = "prometheus"
  /\ Answered(ScrapePrometheus(text, Metrics))
  /\ ServerMoves /\ UNCHANGED <<registry, births, touched, handle>>

ExpvarAnswers(json) ==
  /\ server.at = "asking" /\ server.kind = "expvar"
  /\ Answered(ScrapeExpvar(json, ExpVars))
  /\ ServerMoves /\ UNCHANGED <<registry, births, touched, handle>>

(* The next gauge! or counter! of the scrape.                              *)
ServerRegisters ==
  /\ server.at = "recording" /\ server.updates # NoUpdates
  /\ Register("server", KeyOf(Head(server.updates)), Head(server.updates).value)
  /\ server' = [server EXCEPT !.updates = Tail(@)]
  /\ ServerMoves

(* The text has been read; a panic ends the task, and nobody joins it.     *)
ServerDone ==
  /\ server.at = "recording" /\ server.updates = NoUpdates
  /\ handle["server"] = NoHandle
  /\ server' = [server EXCEPT !.at = IF server.panicked THEN "panicked" ELSE "idle"]
  /\ ServerMoves /\ UNCHANGED <<registry, births, touched, handle>>

(* Prometheus::run looks at the shutdown signal between two scrapes, the   *)
(* select of Expvar::run also while it waits for an answer.                *)
ServerStops ==
  /\ shutdown
  /\ server.at = "idle" \/ (server.at = "asking" /\ server.kind = "expvar")
  /\ server' = [server EXCEPT !.at = "done"]
  /\ ServerMoves /\ UNCHANGED <<registry, births, touched, handle>>
-----------------------------------------------------------------------------
CaptureMoves == UNCHANGED <<now, signals, births, handle, count, server>>
KeysOf(kind) == {k \in DOMAIN registry : k.kind = kind}

(* The thread of CaptureManager::start polls target_running alone ...      *)
CaptureStarts ==
  /\ capture.at = "await_target" /\ running
  /\ capture' = [capture EXCEPT !.at = "poll"]
  /\ CaptureMoves /\ UNCHANGED <<registry, recency, touched, fileVars>>

(* ... then ends, without another record, when the run is over, or starts  *)
(* record_captures: the wall clock is read once, for all lines, and the    *)
(* handles of the counters are taken.                                      *)
PollShutdown ==
  /\ capture.at = "poll"
  /\ IF shutdown
     THEN capture' = Idle("done", 0)
     ELSE \E time \in WallTimes :
            /\ time >= 0
            /\ capture' = [capture EXCEPT !.at = "counters", !.start = now,
                             !.time = time, !.todo = KeysOf("counter"),
                             !.before = registry]
  /\ CaptureMoves /\ UNCHANGED <<registry, recency, touched, fileVars>>

(* The wall clock stands before the epoch: nothing is recorded, and the    *)
(* index moves on.                                                         *)
RecordFails ==
  /\ capture.at = "poll" /\ ~shutdown
  /\ \E time \in WallTimes : time < 0
  /\ capture' = Idle("sleep", now)
  /\ fetch_index' = fetch_index + 1
  /\ CaptureMoves
  /\ UNCHANGED <<registry, recency, touched, buffer, capture_file, failures>>

(* counter.get_generation() of one of the handles.                         *)
ReadGeneration ==
  /\ capture.at \in {"counters", "gauges"}
  /\ \E k \in capture.todo :
       capture' = [capture EXCEPT !.at = IF @ = "counters" THEN "counter" ELSE "gauge",
                     !.key = k, !.gen = registry[k].gen, !.todo = @ \ {k}]
  /\ CaptureMoves /\ UNCHANGED <<registry, recency, touched, fileVars>>

Without(f, k) == [x \in DOMAIN f \ {k} |-> f[x]]
BackToHandles ==
  [capture EXCEPT !.at = IF capture.key.kind = "counter" THEN "counters" ELSE "gauges",
                  !.key = BytesWritten, !.gen = 0]

(* Variant: a change does not make the metric new again.                   *)
ShouldStoreSinceFirstSeen ==
  /\ capture.at \in {"counter", "gauge"}
  /\ LET k == capture.key
         known == k \in DOMAIN recency
     IN IF known /\ recency[k].gen = capture.gen /\ now - recency[k].at > Expiration
        THEN /\ registry' = Without(registry, k)
             /\ touched' = Without(touched, k)
             /\ recency' = Without(recency, k)
             /\ capture' = BackToHandles
        ELSE /\ recency' = (k :> [gen |-> capture.gen,
                                 at |-> IF known THEN recency[k].at ELSE now]) @@ recency
             /\ capture' = [capture EXCEPT !.at = "load"]
             /\ UNCHANGED <<registry, touched>>
  /\ CaptureMoves /\ UNCHANGED fileVars

(* should_store of the recency: a metric whose generation has stood still  *)
(* for longer than the expiration leaves the registry and is not written.  *)
ShouldStore ==
  /\ capture.at \in {"counter", "gauge"}
  /\ LET k == capture.key
         known == k \in DOMAIN recency
         still == known /\ recency[k].gen = capture.gen
     IN IF still /\ now - recency[k].at > Expiration
        THEN /\ registry' = Without(registry, k)
             /\ touched' = Without(touched, k)
             /\ recency' = Without(recency, k)
             /\ capture' = BackToHandles
        ELSE /\ recency' = IF still THEN recency
                           ELSE (k :> [gen |-> capture.gen, at |-> now]) @@ recency
             /\ capture' = [capture EXCEPT !.at = "load"]
             /\ UNCHANGED <<registry, touched>>
  /\ CaptureMoves /\ UNCHANGED fileVars

(* The line takes the value as it is now, and the record's index and time. *)
LoadValue ==
  /\ capture.at = "load"
  /\ capture' = [BackToHandles EXCEPT
       !.lines = Append(@, [fetch_index |-> fetch_index, time |-> capture.time,
                            key |-> capture.key, value |-> registry[capture.key].value,
                            born |-> registry[capture.key].born])]
  /\ CaptureMoves /\ UNCHANGED <<registry, recency, touched, fileVars>>

(* Variant: the gauges are left out.                                       *)
GaugeHandlesNone ==
  /\ capture.at = "counters" /\ capture.todo = {}
  /\ capture' = [capture EXCEPT !.at = "gauges"]
  /\ CaptureMoves /\ UNCHANGED <<registry, recency, touched, fileVars>>

(* The counters are done: the handles of the gauges.                       *)
GaugeHandles ==
  /\ capture.at = "counters" /\ capture.todo = {}
  /\ capture' = [capture EXCEPT !.at = "gauges", !.todo = KeysOf("gauge")]
  /\ CaptureMoves /\ UNCHANGED <<registry, recency, touched, fileVars>>

LinesDone == capture.at = "gauges" /\ capture.todo = {}

(* Each line goes into the BufWriter, which is then flushed.  The index    *)
(* moves on, and the thread sleeps.                                        *)
WriteLines ==
  /\ LinesDone
  /\ IF capture.lines = <<>>
     THEN UNCHANGED <<buffer, capture_file>>
     ELSE /\ capture_file' = capture_file \o buffer \o capture.lines
          /\ buffer' = <<>>
  /\ capture' = Idle("sleep", capture.start)
  /\ fetch_index' = fetch_index + 1
  /\ CaptureMoves /\ UNCHANGED <<registry, recency, touched, failures>>

(* The flush after line n fails: the rest of the record is given up, but   *)
(* what the BufWriter holds stays in it, and goes out with the first line  *)
(* of a later record.                                                      *)
FlushFails(n) ==
  LET written == IF n = 1 THEN <<>> ELSE buffer \o SubSeq(capture.lines, 1, n - 1)
  IN /\ capture_file' = capture_file \o written
     /\ buffer' = IF n = 1 THEN Append(buffer, capture.lines[1])
                  ELSE <<capture.lines[n]>>

(* Variant: only a record that succeeded is counted.                       *)
WriteFailsUncounted ==
  /\ LinesDone /\ failures < MaxFailures
  /\ \E n \in DOMAIN capture.lines : FlushFails(n)
  /\ failures' = failures + 1
  /\ capture' = Idle("sleep", capture.start)
  /\ CaptureMoves /\ UNCHANGED <<registry, recency, touched, fetch_index>>

WriteFails ==
  /\ LinesDone /\ failures < MaxFailures
  /\ \E n \in DOMAIN capture.lines : FlushFails(n)
  /\ failures' = failures + 1
  /\ capture' = Idle("sleep", capture.start)
  /\ fetch_index' = fetch_index + 1
  /\ CaptureMoves /\ UNCHANGED <<registry, recency, touched>>

(* The rest of the second, or nothing when the record took longer.         *)
CaptureWakes ==
  /\ capture.at = "sleep" /\ now > capture.start
  /\ capture' = [capture EXCEPT !.at = "poll"]
  /\ CaptureMoves /\ UNCHANGED <<registry, recency, touched, fileVars>>
-----------------------------------------------------------------------------
ServerNext ==
  \/ ServerStarts \/ Poll \/ PollFails
  \/ \E text \in Texts : PrometheusAnswers(text)
  \/ \E json \in Jsons : ExpvarAnswers(json)
  \/ ServerRegisters \/ ServerDone \/ ServerStops

CaptureNext ==
  \/ CaptureStarts \/ PollShutdown \/ RecordFails \/ ReadGeneration \/ ShouldStore \/ LoadValue
  \/ GaugeHandles \/ WriteLines \/ WriteFails \/ CaptureWakes

Next ==
  \/ Tick \/ TargetStarts \/ ExperimentStarts \/ RunEnds
  \/ \E w \in Workers : WorkerCounts(w)
  \/ \E t \in Tasks : Change(t) \/ Generation(t)
  \/ ServerNext
  \/ CaptureNext

Spec == Init /\ [][Next]_vars
-----------------------------------------------------------------------------
Lines == 1..Len(capture_file)

(* An index names one record (captures.rs, fetch_index): lines that share  *)
(* it share their time and are about different metrics, and a later line   *)
(* never has a smaller index, whichever flushes fail, whatever a failed    *)
(* one leaves in the buffer, and however the wall clock is set.            *)
IndexNamesOneRecord ==
  \A i, j \in Lines : i < j =>
    LET a == capture_file[i]
        b == capture_file[j]
    IN /\ a.fetch_index <= b.fetch_index
       /\ a.fetch_index = b.fetch_index => a.time = b.time /\ a.key # b.key

(* A record written to its end (record_captures) has a line for every      *)
(* metric that was there when it began and has not expired, and a          *)
(* counter's line holds all that was counted by then: the interleaving     *)
(* with the tasks that count may add to a record, never take from it.      *)
RecordIsComplete ==
  [][WriteLines =>
       \A k \in DOMAIN capture.before :
         Live(k) /\ registry[k].born = capture.before[k].born =>
           \E i \in DOMAIN capture_file' :
             /\ capture_file'[i].key = k
             /\ capture_file'[i].fetch_index = fetch_index
             /\ k.kind = "counter" =>
                  capture_file'[i].value.n >= capture.before[k].value.n]_vars

(* Counters are "a monotonically increasing value" (lading_capture's       *)
(* MetricKind), also those scraped from a target that restarts: from one   *)
(* line to a later one of the same counter the value does not fall, unless *)
(* the metric expired and was made anew in between.                        *)
CounterIsMonotonic ==
  \A i, j \in Lines : i < j =>
    LET a == capture_file[i]
        b == capture_file[j]
    IN a.key = b.key /\ a.key.kind = "counter" /\ a.born = b.born =>
         a.value.n <= b.value.n

(* A metric expires (should_store) only when nothing has changed it for    *)
(* longer than the expiration, except by a change that completes while the *)
(* record is looking at that very metric.                                  *)
ExpiresOnlyIdle ==
  [][\A k \in DOMAIN registry \ DOMAIN registry' :
       registry[k].gen = capture.gen => now - touched[k] > Expiration]_vars

(* The line by line reading of scrape_metrics finds what the text says:    *)
(* the updates are the samples ahead of the first unreadable line whose    *)
(* last TYPE line makes them gauges or counters and whose value can be     *)
(* taken, in their order; and it panics exactly on an unreadable line.     *)
ScrapeReadsTheText ==
  [][\A text \in Texts : PrometheusAnswers(text) =>
       LET effective == Effective(text, Metrics)
           Rank(i) == Cardinality({j \in effective : j <= i})
       IN /\ server'.panicked = \E i \in DOMAIN text : Unreadable(text[i])
          /\ Len(server'.updates) = Cardinality(effective)
          /\ \A i \in effective :
               LET update == server'.updates[Rank(i)]
               IN /\ update.kind = TypeAt(text, i)
                  /\ update.name = Replaced(text[i].name)
                  /\ update.labels = text[i].labels]_vars
=============================================================================
