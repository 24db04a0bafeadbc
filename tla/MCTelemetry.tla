----------------------------- MODULE MCTelemetry -----------------------------
EXTENDS Telemetry

N(base, sep) == [base |-> base, suffix |-> "", sep |-> sep]
Type(name, type) == [line |-> "type", name |-> name, type |-> type]
Sample(name, labels, form, n) ==
  [line |-> "sample", name |-> name, labels |-> labels,
   value |-> [form |-> form, n |-> n]]

Heap == N("heap", "__")
Hits == N("hits", "")
Wait == N("wait", "")

(* Answers of a target that is well behaved, that has restarted, and with  *)
(* the lines the scraper skips before one it cannot read.                  *)
MCTexts == {
  <<[line |-> "help"], Type(Hits, "counter"), Sample(Hits, "one", "int", 2)>>,
  <<Type(Hits, "counter"), Sample(Hits, "one", "int", 1),
    Sample(Hits, "none", "missing", 0), Sample(Hits, "one", "int", 2)>>,
  <<Sample(Hits, "none", "int", 1), Type(Wait, "histogram"),
    Sample(Suffixed(Wait, "_sum"), "none", "int", 1), Type(Hits, "counter"),
    Sample(Hits, "one", "int", -1), Sample(Hits, "malformed", "hash", 0),
    Type(Heap, "counter"), Type(Heap, "gauge"), Sample(Heap, "none", "nan", 0),
    Sample(Heap, "none", "unparsable", 0), Type(Wait, "untyped"),
    Sample(Heap, "none", "int", 1)>> }

MCJsons == { <<>>, (Hits :> 1) }
MCMetrics == {Replaced(Heap), Hits, Suffixed(Wait, "_sum")}
MCExpVars == <<Wait, Hits>>

(* A time, one before it, and one before the epoch.                        *)
MCWallTimes == {1, 0, -1}
=============================================================================
