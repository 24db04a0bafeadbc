---------------------------- MODULE TargetMetrics ----------------------------
(***************************************************************************)
(* What one answer of the target's metrics endpoint does to lading's own   *)
(* metrics: scrape_metrics of target_metrics/prometheus.rs, which reads    *)
(* the Prometheus text format line by line, and the body of the loop of    *)
(* target_metrics/expvar.rs, which picks variables out of a JSON document. *)
(* The text of a line is reduced to what the scraper tells apart; a line   *)
(* it cannot take apart panics (expect).                                   *)
(*                                                                         *)
(* A line is one of                                                        *)
(*   [line |-> "help"]                       HELP comments, empty lines    *)
(*   [line |-> "type", name, type]           type may be unknown to lading *)
(*   [line |-> "sample", name, labels, value]                              *)
(* A name is [base, suffix, sep]: a base name, what a histogram or a       *)
(* summary appends to it, and whether it holds a separator.  A value is    *)
(* [form, n]: an integer, a float that is not a number, a text f64 does    *)
(* not parse, one with a hash sign, or nothing.                            *)
(***************************************************************************)
EXTENDS Integers, Sequences, SequencesExt

MaxCounter == 3  \* stands for u64::MAX

Types == {"counter", "gauge", "histogram", "summary"}
PartSuffixes == {"_sum", "_count", "_bucket"}
NoUpdates == <<>>

Suffixed(name, suffix) == [name EXCEPT !.suffix = suffix]

(* name.replace("__", ".")                                                 *)
Replaced(name) == IF name.sep = "__" THEN [name EXCEPT !.sep = "."] ELSE name

(* Where the loop over the lines stands: the types seen so far, the calls  *)
(* made on lading's metrics, and whether an expect has failed.             *)
NothingRead == [typemap |-> <<>>, updates |-> NoUpdates, panicked |-> FALSE]

(* A TYPE line: histograms and summaries also name their parts.            *)
TypeLine(read, line) ==
  IF line.type \notin Types
  THEN [read EXCEPT !.panicked = TRUE]
  ELSE LET named == {line.name} \cup
             IF line.type \in {"histogram", "summary"}
             THEN {Suffixed(line.name, s) : s \in PartSuffixes} ELSE {}
       IN [read EXCEPT !.typemap = [n \in named |-> line.type] @@ @]

(* What is done with the parsed value: a gauge is set to it; a counter,    *)
(* refused below zero and above u64::MAX, is raised to it, the cast to u64 *)
(* turning what is not a number into zero.                                 *)
Accepted(kind, value) ==
  \/ value.form = "nan"
  \/ value.form = "int" /\ (kind = "gauge" \/ value.n \in 0..MaxCounter)

MetricUpdate(kind, name, line) ==
  [kind |-> kind, name |-> name, labels |-> line.labels,
   value |-> IF kind = "counter" /\ line.value.form = "nan"
             THEN [form |-> "int", n |-> 0] ELSE line.value]

(* The match on the metric's type, after the filter of the configuration.  *)
RecordSample(read, line, name, type) ==
  IF type \in {"gauge", "counter"} /\ Accepted(type, line.value)
  THEN [read EXCEPT !.updates = Append(@, MetricUpdate(type, name, line))]
  ELSE read

(* Variant: the type is looked up under the name lading reports.           *)
SampleLineRenamed(read, line, metrics) ==
  LET name == Replaced(line.name)
      type == IF name \in DOMAIN read.typemap THEN read.typemap[name] ELSE "none"
  IN IF line.value.form = "missing" THEN [read EXCEPT !.panicked = TRUE]
     ELSE IF line.value.form = "hash" THEN read
     ELSE IF line.labels = "malformed" THEN [read EXCEPT !.panicked = TRUE]
     ELSE IF name \notin metrics THEN read
     ELSE RecordSample(read, line, name, type)

(* A sample: the type is looked up under the name the target wrote, the    *)
(* filter under the one lading reports.  metrics are the names to scrape,  *)
(* all of them when the configuration leaves them unset.                   *)
SampleLine(read, line, metrics) ==
  LET name == Replaced(line.name)
      type == IF line.name \in DOMAIN read.typemap
              THEN read.typemap[line.name] ELSE "none"
  IN IF line.value.form = "missing" THEN [read EXCEPT !.panicked = TRUE]
     ELSE IF line.value.form = "hash" THEN read
     ELSE IF line.labels = "malformed" THEN [read EXCEPT !.panicked = TRUE]
     ELSE IF name \notin metrics THEN read
     ELSE RecordSample(read, line, name, type)

ReadLine(read, line, metrics) ==
  IF read.panicked \/ line.line = "help" THEN read
  ELSE IF line.line = "type" THEN TypeLine(read, line)
  ELSE SampleLine(read, line, metrics)

(* scrape_metrics, once it has the text of the answer.                     *)
ScrapePrometheus(text, metrics) ==
  FoldLeft(LAMBDA read, line : ReadLine(read, line, metrics), NothingRead, text)

(* The loop over vars of Expvar::run: json.pointer(..).as_f64() or nothing. *)
ScrapeExpvar(json, vars) ==
  LET found == SelectSeq(vars, LAMBDA v : v \in DOMAIN json)
  IN [NothingRead EXCEPT !.updates =
        [i \in DOMAIN found |-> [kind |-> "gauge", name |-> found[i],
                                 labels |-> "none",
                                 value |-> [form |-> "int", n |-> json[found[i]]]]]]
-----------------------------------------------------------------------------
(* The reference: a sample counts under the type of the last TYPE line     *)
(* before it that names it, itself or as part of a histogram or summary.   *)
Names(typeLine, name) ==
  \/ typeLine.name = name
  \/ /\ typeLine.type \in {"histogram", "summary"}
     /\ \E s \in PartSuffixes : name = Suffixed(typeLine.name, s)

TypeAt(text, i) ==
  LET naming == {j \in 1..(i - 1) :
                   text[j].line = "type" /\ Names(text[j], text[i].name)}
  IN IF naming = {} THEN "none"
     ELSE text[CHOOSE j \in naming : \A k \in naming : k <= j].type

Unreadable(line) ==
  \/ line.line = "type" /\ line.type \notin Types
  \/ line.line = "sample" /\ line.value.form = "missing"
  \/ line.line = "sample" /\ line.labels = "malformed" /\ line.value.form # "hash"

(* The samples of a text that change a metric, in their order: those ahead *)
(* of the first line that cannot be read.                                  *)
Effective(text, metrics) ==
  {i \in DOMAIN text :
     /\ \A j \in 1..i : ~Unreadable(text[j])
     /\ text[i].line = "sample"
     /\ Replaced(text[i].name) \in metrics
     /\ TypeAt(text, i) \in {"gauge", "counter"}
     /\ Accepted(TypeAt(text, i), text[i].value)}
=============================================================================
