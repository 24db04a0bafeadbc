------------------------------- MODULE Payload -------------------------------
(***************************************************************************)
(* The payload formats of lading_payload and the blocks made of them: the  *)
(* to_bytes of every serializer, run by construct_block for each block of  *)
(* the cache of module BlockCache.                                         *)
(*                                                                         *)
(* A generated member (a log line, a span, a metric) is the length of its  *)
(* encoding.  What is kept is how each format accounts for                 *)
(* the bytes it writes: line by line until a line does not fit, a list     *)
(* halved until its encoding fits, a protobuf message of which the         *)
(* envelope is estimated, a file sent if it was small enough.              *)
(***************************************************************************)
EXTENDS BlockCache, FiniteSets

CONSTANTS
  Kinds,            \* the formats tried, names of lading_payload::Config
  LimitsOf,         \* those of Limits tried with each of them
  LensOf,           \* the lengths of the encoded members of each format, and of
                    \* the "metric", "event" and "service_check" of DogStatsD
  ApproxMember,     \* approx_member_encoded_size of datadog_logs.rs
  DatadogSpare,     \* the members it makes beyond the estimate
  FluentBatch,      \* the members fluent.rs makes at a time
  TraceSpans,       \* the spans trace_agent.rs starts from
  TraceBatch,       \* the spans it adds at a time
  MaxGroups,        \* bound: groups of spans after which none is empty
  Files,            \* the sizes of the files under static_path
  BufferSize,       \* the bytes a BufReader reads at once
  DogConfs          \* the DogStatsD configurations tried

ASSUME LensAssumption == \A k \in DOMAIN LensOf : LensOf[k] \subseteq Nat \ {0}

VARIABLES
  kind,     \* the format configured
  dog,      \* the DogStatsD configuration
  made,     \* the numbers of metric contexts and service check names made for it
  ser       \* the locals of the to_bytes under way

vars == <<cacheVars, kind, dog, made, ser>>

\* used: bytes accounted for; text: bytes of the members in the encoding;
\* members: encoded lengths of the members held; todo: spans still to group;
\* shrinking: whether the list is complete; high: how much of it to keep.
Fresh == [used |-> 0, text |-> 0, members |-> <<>>, todo |-> TraceSpans,
          shrinking |-> FALSE, high |-> 0]

Init ==
  /\ CacheInit
  /\ kind \in Kinds
  /\ <<max_block_size, total_bytes>> \in LimitsOf[kind]
  /\ dog \in DogConfs
  /\ overhead = IF kind = "dogstatsd" /\ dog.length_prefix_framed THEN 4 ELSE 0
  /\ (kind # "dogstatsd" => dog = CHOOSE d \in DogConfs : TRUE)
  /\ made = [contexts |-> 0, names |-> 0]
  /\ ser = Fresh

----------------------------------------------------------------------------
(* What the serializers share.                                             *)

Serializing(k) == pc = "serialize" /\ kind = k

\* to_bytes returns, having written n bytes: construct_block keeps them.
Return(n) ==
  /\ Constructed(n)
  /\ ser' = Fresh
  /\ UNCHANGED <<kind, dog, made>>

\* to_bytes goes round its loop.
Loop == UNCHANGED <<cacheVars, kind, dog, made>>

WriteLineBare(len) ==
  IF ser.used + len <= block_size
    THEN /\ ser' = [ser EXCEPT !.used = @ + len + 1]
         /\ Loop
    ELSE Return(ser.used)

\* A line and its newline are written if they still fit; the first line that
\* does not ends the payload.
WriteLine(len) ==
  IF ser.used + len + 1 <= block_size
    THEN /\ ser' = [ser EXCEPT !.used = @ + len + 1]
         /\ Loop
    ELSE Return(ser.used)

\* The length of the JSON array of the first n members.
JsonArray(s, n) == 2 + SumOf(SubSeq(s, 1, n)) + (IF n = 0 THEN 0 ELSE n - 1)

\* The length of a protobuf or MsgPack length prefix.
Varint(n) == IF n < 128 THEN 1 ELSE IF n < 16384 THEN 2 ELSE 3
MsgPackHeader(n) == IF n < 16 THEN 1 ELSE 3

----------------------------------------------------------------------------
(* What the generators make, known by the length of its encoding.  No      *)
(* member encodes to nothing.                                              *)

AsciiString == LensOf["ascii"]

JsonMember == LensOf["json"]

SplunkHecMember == LensOf["splunk_hec"]

ApacheCommonMember == LensOf["apache_common"]

SyslogMember == LensOf["syslog5424"]

DogMetric == LensOf["metric"]

DogEvent == LensOf["event"]

DogServiceCheck == LensOf["service_check"]

OtlpSpan == LensOf["opentelemetry_traces"]

OtlpLogRecord == LensOf["opentelemetry_logs"]

OtlpMetric == LensOf["opentelemetry_metrics"]

DatadogLogMember == LensOf["datadog_log"]

FluentMember == LensOf["fluent"]

TraceSpan == LensOf["trace_agent"]

----------------------------------------------------------------------------
(* Formats written line by line.                                           *)

AsciiToBytes == Serializing("ascii") /\ \E len \in AsciiString : WriteLine(len)

JsonToBytes == Serializing("json") /\ \E len \in JsonMember : WriteLine(len)

SplunkHecToBytes ==
  Serializing("splunk_hec") /\ \E len \in SplunkHecMember : WriteLine(len)

ApacheCommonToBytes ==
  Serializing("apache_common") /\ \E len \in ApacheCommonMember : WriteLine(len)

Syslog5424ToBytes ==
  /\ Serializing("syslog5424")
  /\ IF block_size < 2 THEN Return(0) ELSE \E len \in SyslogMember : WriteLine(len)

----------------------------------------------------------------------------
(* DogStatsD.  A range of the configuration is a constant or min..max.     *)

RangeValid(r) == r.constant \/ r.min < r.max
Sample(r) == r.min .. r.max

MAX_CONTEXTS == 1000000
MAX_NAME_LENGTH == 4096

\* Config::valid.  It does not look at sampling_range.
DogValid(c) ==
  /\ \A f \in {"contexts", "service_check_names", "tag_length", "name_length",
               "tags_per_msg", "multivalue_count", "value"} : RangeValid(c[f])
  /\ c.contexts.min # 0
  /\ c.contexts.max <= MAX_CONTEXTS
  /\ c.tag_length.min # 0
  /\ c.name_length.min # 0
  /\ c.name_length.max <= MAX_NAME_LENGTH

\* MemberGenerator::new fails on tags too short to hold a key, a colon and a
\* value, on a ratio of unique tags out of range, and on weights that are all 0.
DogGeneratorFails(c) ==
  \/ c.tag_length.min < 3
  \/ ~c.unique_tag_ratio_valid
  \/ \A k \in DOMAIN c.kind_weights : c.kind_weights[k] = 0
  \/ c.metric_weights = 0

\* What a member of each kind is made from: the templates of the contexts, and
\* the service check names.
DogStock == [metric |-> made.contexts, event |-> 1, service_check |-> made.names]

\* A member of a kind chosen by its weight.
DogMembers ==
  UNION {CASE k = "metric" -> DogMetric
           [] k = "event" -> DogEvent
           [] OTHER -> DogServiceCheck :
         k \in {k \in DOMAIN DogStock : dog.kind_weights[k] > 0 /\ DogStock[k] > 0}}

\* The lists of contexts and names that something may be chosen from.
DogStockMissing ==
  \E k \in DOMAIN DogStock : dog.kind_weights[k] > 0 /\ DogStock[k] = 0

\* A metric may be given a sample rate, and there is none in the range.
DogSamplingEmpty ==
  /\ dog.kind_weights["metric"] > 0
  /\ dog.sampling_probability > 0
  /\ ~dog.sampling_range.constant
  /\ Sample(dog.sampling_range) = {}

\* Choosing from an empty list panics, and so does drawing from an empty range.
DogGeneratePanics ==
  /\ Serializing("dogstatsd")
  /\ DogStockMissing \/ DogSamplingEmpty
  /\ ConstructPanics
  /\ UNCHANGED <<kind, dog, made, ser>>

\* With framing the members are held back and written behind their length.
DogStatsDToBytes ==
  /\ Serializing("dogstatsd")
  /\ \E len \in DogMembers :
       IF ser.used + len + 1 <= block_size
         THEN /\ ser' = [ser EXCEPT !.used = @ + len + 1]
              /\ Loop
         ELSE Return(IF dog.length_prefix_framed /\ ser.used > 0
                       THEN 4 + ser.used
                       ELSE ser.used)

----------------------------------------------------------------------------
(* OpenTelemetry: an Export*ServiceRequest of one resource, of one         *)
(* instrumentation library, of the members.                                *)

\* What is left for the members once the envelope is allowed for; negative
\* when there is no room.
OtlpFits(used) == used + 5 + (block_size + 126) \div 127 <= block_size

\* The request around b bytes of members.
OtlpEncoded(b) ==
  LET library == 1 + Varint(b) + b
  IN  1 + Varint(library) + library

\* A member is taken if its length and two bytes fit.
OtlpToBytes(lens) ==
  IF ~OtlpFits(0) THEN Return(0)
  ELSE \E len \in lens :
         IF OtlpFits(ser.used + len + 2)
           THEN /\ ser' = [ser EXCEPT !.used = @ + len + 2,
                                      !.text = @ + 1 + Varint(len) + len]
                /\ Loop
           ELSE Return(OtlpEncoded(ser.text))

OpentelemetryTracesToBytes ==
  Serializing("opentelemetry_traces") /\ OtlpToBytes(OtlpSpan)

OpentelemetryLogsToBytes ==
  Serializing("opentelemetry_logs") /\ OtlpToBytes(OtlpLogRecord)

OpentelemetryMetricsToBytes ==
  Serializing("opentelemetry_metrics") /\ OtlpToBytes(OtlpMetric)

----------------------------------------------------------------------------
(* Formats that make a list of members and halve it until it fits.         *)

\* The list is complete: the search starts with all of it.
StartShrinking == ser' = [ser EXCEPT !.shrinking = TRUE, !.high = Len(ser.members)]

HalveUp == ser' = [ser EXCEPT !.high = (@ + 1) \div 2]

Halve == ser' = [ser EXCEPT !.high = @ \div 2]

DatadogLogToBytes ==
  /\ Serializing("datadog_log")
  /\ \/ /\ block_size < ApproxMember
        /\ Return(0)
     \/ /\ block_size >= ApproxMember
        /\ ~ser.shrinking
        /\ \E ms \in [1..(block_size \div ApproxMember + DatadogSpare) -> DatadogLogMember] :
             ser' = [ser EXCEPT !.members = ms, !.shrinking = TRUE, !.high = Len(ms)]
        /\ Loop
     \/ /\ ser.shrinking
        /\ CASE ser.high = 0 -> Return(0)
             [] ser.high > 0 /\ JsonArray(ser.members, ser.high) > block_size -> Halve /\ Loop
             [] OTHER -> Return(JsonArray(ser.members, ser.high))

\* Members are added in batches until there are too many.
FluentToBytes ==
  LET encoding_len(n) == SumOf(SubSeq(ser.members, 1, n))
  IN  /\ Serializing("fluent")
      /\ \/ /\ block_size < 16
            /\ Return(0)
         \/ /\ block_size >= 16
            /\ ~ser.shrinking
            /\ IF encoding_len(Len(ser.members)) > block_size
                 THEN StartShrinking
                 ELSE \E ms \in [1..FluentBatch -> FluentMember] :
                        ser' = [ser EXCEPT !.members = @ \o ms]
            /\ Loop
         \/ /\ ser.shrinking
            /\ IF encoding_len(ser.high) > block_size
                 THEN Halve /\ Loop
                 ELSE Return(encoding_len(ser.high))

\* A group of n spans of the given length, and the list of the first n groups.
GroupEncoding(n, len) ==
  IF kind = "trace_agent_json" THEN 2 + n * len + (IF n = 0 THEN 0 ELSE n - 1)
                               ELSE MsgPackHeader(n) + n * len

TraceEncoding(n) ==
  IF kind = "trace_agent_json" THEN JsonArray(ser.members, n)
                               ELSE MsgPackHeader(n) + SumOf(SubSeq(ser.members, 1, n))

\* Spans are grouped at random, groups are added until there are too many, and
\* the list is halved.  The encoding of an empty list is not empty: when it does
\* not fit either, the search never ends.
TraceAgentToBytes ==
  /\ \E k \in {"trace_agent_json", "trace_agent_msgpack"} : Serializing(k)
  /\ \/ /\ ser.todo > 0
        /\ \E n \in 0..ser.todo, len \in TraceSpan :
             /\ n = 0 => Len(ser.members) < MaxGroups
             /\ ser' = [ser EXCEPT !.members = Append(@, GroupEncoding(n, len)), !.todo = @ - n]
        /\ Loop
     \/ /\ ser.todo = 0 /\ ~ser.shrinking
        /\ IF TraceEncoding(Len(ser.members)) > block_size
             THEN StartShrinking
             ELSE \E len \in TraceSpan :
                    ser' = [ser EXCEPT !.members = Append(@, GroupEncoding(TraceBatch, len))]
        /\ Loop
     \/ /\ ser.shrinking
        /\ IF TraceEncoding(ser.high) > block_size
             THEN Halve /\ Loop
             ELSE Return(TraceEncoding(ser.high))

----------------------------------------------------------------------------
(* Static files.                                                           *)

\* One of the files smaller than the block is sent, as far as one read of the
\* buffered reader goes.
StaticToBytes ==
  LET subset == {size \in Files : size < block_size}
  IN  /\ Serializing("static")
      /\ IF subset = {} THEN Return(0)
         ELSE \E size \in subset : Return(IF size < BufferSize THEN size ELSE BufferSize)

\* The file is gone, or is a directory: it opens but cannot be read.
StaticFails ==
  /\ Serializing("static")
  /\ \E size \in Files : size < block_size
  /\ ConstructFails
  /\ UNCHANGED <<kind, dog, made, ser>>

----------------------------------------------------------------------------
(* Cache::fixed with the serializers in it.                                *)

\* The configuration is checked, the serializer is made.
PayloadFixed ==
  /\ Fixed
  /\ kind = "dogstatsd" => DogValid(dog) /\ ~DogGeneratorFails(dog)
  /\ made' \in IF kind = "dogstatsd"
                  THEN [contexts : Sample(dog.contexts), names : Sample(dog.service_check_names)]
                  ELSE {made}
  /\ UNCHANGED <<kind, dog, ser>>

\* A static path may turn out not to be readable.
PayloadFixedFails ==
  /\ FixedFails
  /\ \/ LimitsRejected
     \/ kind = "dogstatsd" /\ ~DogValid(dog)
     \/ kind = "dogstatsd" /\ DogGeneratorFails(dog)
     \/ kind = "static"
  /\ UNCHANGED <<kind, dog, made, ser>>

ToBytes ==
  \/ AsciiToBytes
  \/ JsonToBytes
  \/ SplunkHecToBytes
  \/ ApacheCommonToBytes
  \/ Syslog5424ToBytes
  \/ DogStatsDToBytes
  \/ DogGeneratePanics
  \/ OpentelemetryTracesToBytes
  \/ OpentelemetryLogsToBytes
  \/ OpentelemetryMetricsToBytes
  \/ DatadogLogToBytes
  \/ FluentToBytes
  \/ TraceAgentToBytes
  \/ StaticToBytes
  \/ StaticFails

\* Steps of the cache that do not involve the serializer.
CacheStep ==
  /\ Draw \/ DrawPanics \/ Filled \/ CacheUse
  /\ UNCHANGED <<kind, dog, made, ser>>

\* A cache that could not be made, or whose making panicked, stays that way.
Stopped ==
  /\ pc \in {"error", "panic"}
  /\ UNCHANGED vars

Next ==
  \/ PayloadFixed
  \/ PayloadFixedFails
  \/ ToBytes
  \/ CacheStep
  \/ Stopped

\* Cache::fixed and read_at run on one thread that nothing blocks.
Spec == Init /\ [][Next]_vars /\ WF_vars(Next)

----------------------------------------------------------------------------
(* Properties.                                                             *)

\* Every serializer keeps the contract construct_block_cache_inner relies on:
\* to_bytes writes no more than max_bytes, with 4 bytes more where DogStatsD
\* frames its messages, and so the whole of Cache::fixed is a behaviour of
\* module BlockCache.
ImplementsCache == CacheSpec

\* to_bytes returns, whatever is generated, and does not panic, but in three
\* cases: a trace agent payload is asked for fewer bytes than the encoding of an
\* empty list takes, in which the search for an encoding that fits ends; the
\* range of DogStatsD's service check names starts at 0, and a service check may
\* find no name to choose; and its sampling_range is the wrong way round, and a
\* metric with a sample rate finds none to draw.  Config::valid accepts both.
SerializerReturns ==
  (/\ pc = "serialize"
   /\ kind = "trace_agent_json" => block_size >= 2
   /\ kind = "trace_agent_msgpack" => block_size >= 1
   /\ kind = "dogstatsd" =>
        /\ dog.service_check_names.min > 0
        /\ dog.sampling_range.min <= dog.sampling_range.max)
    ~> pc \notin {"serialize", "panic"}
============================================================================
