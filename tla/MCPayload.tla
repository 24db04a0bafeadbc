------------------------------ MODULE MCPayload ------------------------------
(* An instance of Payload for TLC.                                           *)
EXTENDS Payloads

\* Formats written line by line.
Lines == {"ascii", "json", "splunk_hec", "apache_common", "syslog5424", "dogstatsd"}

\* Their envelope is sized for length prefixes that grow at 128 bytes.
Otlp == {"opentelemetry_traces", "opentelemetry_logs", "opentelemetry_metrics"}

TraceAgent == {"trace_agent_json", "trace_agent_msgpack"}

MCKinds == Lines \cup Otlp \cup TraceAgent \cup {"datadog_log", "fluent", "static"}

\* Also a block of 0, and blocks larger than the cache or than a u32.
MCLimitsOf ==
  [k \in MCKinds |->
     CASE k = "ascii" -> {<<0, 5>>, <<300, 300>>, <<6, 8>>}
       [] k \in Lines \ {"ascii"} -> {<<6, 8>>}
       [] k = "opentelemetry_traces" -> {<<138, 138>>}
       [] k \in Otlp \ {"opentelemetry_traces"} -> {<<12, 13>>}
       [] k \in TraceAgent -> {<<8, 9>>}
       [] k = "datadog_log" -> {<<12, 14>>}
       [] k = "fluent" -> {<<18, 1>>, <<18, 20>>}
       [] OTHER -> {<<18, 20>>}]

MCLensOf ==
  [k \in MCKinds \cup {"metric", "event", "service_check", "trace_agent"} |->
     CASE k = "opentelemetry_traces" -> {60, 128}
       [] k \in {"trace_agent", "event"} -> {2}
       [] k = "datadog_log" -> {1, 4}
       [] k = "fluent" -> {3, 9}
       [] OTHER -> {1, 3}]

MCLimits == UNION {MCLimitsOf[k] : k \in MCKinds}

MCDraws == {0, 1, 2, 5, 6, 7, 11, 16, 17, 137}

R(lo, hi) == [constant |-> FALSE, min |-> lo, max |-> hi]

MCDog ==
  [contexts |-> R(1, 2), service_check_names |-> R(1, 2), name_length |-> R(1, 200),
   tag_length |-> R(3, 100), tags_per_msg |-> R(2, 50), multivalue_count |-> R(2, 32),
   value |-> R(0, 9), sampling_range |-> R(1, 10), sampling_probability |-> 5,
   unique_tag_ratio_valid |-> TRUE, length_prefix_framed |-> FALSE,
   kind_weights |-> [metric |-> 8, event |-> 1, service_check |-> 1], metric_weights |-> 1]

\* The defaults, framed messages, a configuration with no service check names,
\* one with no sample rates and ones that are refused.
MCDogConfs ==
  {MCDog,
   [MCDog EXCEPT !.length_prefix_framed = TRUE],
   [MCDog EXCEPT !.service_check_names = R(0, 1)],
   [MCDog EXCEPT !.sampling_range = R(10, 1)],
   [MCDog EXCEPT !.contexts = R(0, 1)],
   [MCDog EXCEPT !.tag_length = R(2, 100)],
   [MCDog EXCEPT !.kind_weights = [metric |-> 0, event |-> 0, service_check |-> 0]]}
============================================================================
