# lading in TLA+

lading runs a load test: it starts or finds a *target*, sends it load from
*generators*, takes in what the target sends in *blackholes*, watches it with an
*observer* and writes its own metrics to a *capture* file, through a warm-up, an
experiment and a shutdown. This directory models the parts of it that are
concurrent, stateful or numerically delicate, checks them with TLC on small
instances, and proves with TLAPS what can be stated without liveness of the ones
that matter most: the signal, the throttle, the block cache, the end of a run,
the HTTP generators, the file tree and the integration tests.

    cd tla
    tlc -workers 2 -config Signal.cfg MCSignal        # any run of PROJECT.json
    tlapm SignalProofs.tla                            # any *Proofs module

## The system and its models

| part of lading | sources (under `src/`) | module | status |
|---|---|---|---|
| phase signal | `lading_signal/src/lib.rs` | `Signal`, abstract `PhaseLatch`, `SignalProofs` | modelled, proved |
| throttle | `lading_throttle/src/{lib,stable}.rs` | `Throttle`, `ThrottleProofs` | modelled, proved |
| one run of the binary, inspector | `lading/src/bin/lading.rs`, `target.rs`, `inspector.rs`, `generator.rs`, `observer.rs`, `captures.rs` | `Lading` over `PhaseLatch`, `LadingProofs` | modelled in its phases, safety proved |
| process_tree generator | `generator/process_tree.rs` | `ProcessTree`, in `Generators` | modelled |
| file_tree generator | `generator/file_tree.rs` | `FileTree`, in `Generators`, `FileTreeProofs`, `GeneratorsProofs` | modelled, layout proved |
| procfs generator and payload | `generator/procfs.rs`, `lading_payload/src/procfs.rs` | `ProcFs`, in `Generators` | modelled without the numbers |
| logrotate_fs generator | `generator/file_gen/logrotate_fs.rs`, `logrotate_fs/model.rs` | `LogrotateFs` | modelled |
| logrotate and traditional file generators | `generator/file_gen/{logrotate,traditional}.rs` | `RotatedFiles`, in `BlockWriters` | modelled |
| socket generators and blackholes | `generator/{tcp,udp,unix_stream,unix_datagram,passthru_file,grpc}.rs`, `blackhole/{tcp,udp,unix_stream,unix_datagram}.rs` | `SocketGenerator`, in `BlockWriters` | modelled |
| HTTP and Splunk HEC generators | `generator/http.rs`, `splunk_hec.rs`, `splunk_hec/acknowledgements.rs` | `HttpGenerator`, `HttpProofs` | modelled without encodings, safety proved |
| HTTP blackholes | `blackhole/{common,http,splunk_hec}.rs` | `Httpd`, composed into `HttpGenerator` | modelled without answers' text |
| observer | `observer.rs`, `observer/linux/**` | `Observer` | modelled, gauges not told apart |
| capture manager | `captures.rs`, `lading_capture/src/json.rs` | `Telemetry` | modelled |
| target metrics | `target_metrics/{expvar,prometheus}.rs` | `TargetMetrics`, in `Telemetry` | modelled below HTTP by the parts of a line |
| block cache | `lading_payload/src/block.rs` | `BlockCache`, `BlockCacheProofs` | modelled, proved in part |
| payload formats | `lading_payload/src/*.rs`, `dogstatsd/**` | `Payload` over `BlockCache`, in `Payloads` | modelled by the lengths of what they encode |
| DogStatsD tags | `dogstatsd/common/tags.rs` | `Tags`, in `Payloads` | modelled |
| integration tests | `integration/{sheepdog,ducks,shared}` | `Harness`, `HarnessProofs` | modelled, proved |
| SQS, memory maps, codec, configuration, tools | | | not modelled, see below |

How they meet: `inner_main` makes three signals (target running, experiment
started, shutdown), hands watchers of the shutdown signal to every server it
spawns, and passes the target's PID through a broadcast channel. A generator
draws blocks from a cache that runs on a thread of its own, pays a throttle for
each block and writes it to the target or, in a loop-back configuration, to a
blackhole. Everybody counts in one registry, which the capture thread records
once a second. The modules that compose others are `Lading` (phases), `HttpGenerator`
(a generator and a server), `SocketGenerator` (cache thread, generator and
blackhole), `Telemetry` (tasks, scraper and capture thread), `Harness` (test,
ducks and lading), and `Generators`, `BlockWriters` and `Payloads`, which hold
one of several components by a choice of the configuration, as the `Server`
enumerations of the code do.

### Signal, PhaseLatch

`peers` is the `AtomicU32`, `senderOpen` the broadcast sender, `wpc` and `bpc`
where the watchers and the broadcaster are. Each access to the counter and to
the `Notify` is an action: `LoadOld`, `Exchange` and `NotifyWaiters` are
`decrease_peer_count`; `LoadPeers`, `Listen`, `Wake` are `signal_and_wait`.
`PhaseLatch` is what the signal promises: watchers come and go, the signal is
given once, and the wait ends only when nobody is outstanding. `Lading` uses the
latch in place of the signal.

### Throttle

`Valve::request` with its intervals (`Grant`, `Defer`, `Reject`), `wait_for` with
its sleep, and the all-out throttle (`PassThrough`). The clock ticks at any time,
so a sleeper may be late, and a task may be slow between reading the clock and
acting on it.

### Lading

The select loop of `inner_main`, the experiment sequence, the target server for each
kind of target (none, PID, docker container, binary), generators that begin when
they get the PID, the inspector with its child process, the observer, and the
capture thread, up to the shutdown of the runtime. Tasks may fail, panic or never
finish; the target may exit at any time; ctrl-c may come at any time. The wait in
`signal_and_wait` is three steps over the latch (`wait`: load the counter, make the
future, await it), and `NotifyWaiters` wakes only who awaits, so that the lost
wake-up of the signal is in this model too. `Dropped` is what the shutdown of the
runtime makes of a task, and of the process it holds with `kill_on_drop`.

### Generators: ProcessTree, FileTree, ProcFs, Throttle

The server holding a generator that makes processes or files, or one of which only
its throttle matters. `ProcessTree` is `generate_tree` as a fold over its stack,
and `spawn_tree` in every process it forks: each has its own position in the one
list, forks may fail, and `Lineages` says which processes a whole tree consists of.
`FileTree` lays the tree out one node per action
(`GenerateNode`), then opens, creates and renames, a rename being two actions with
the folder away in between; a path is the sequence of its components, and random
names may meet a name in use. Depth is counted in separators, as in the code, and a
root that ends with one (`trailing`) has them counted differently from what is below
it. `ProcFs` writes the directories of its processes one
file per action; the fields that two files share are modelled, so that a directory
made of two processes' files is told apart.

### LogrotateFs

The model of the file system in `model.rs`: ticks write bytes, rotate groups and
collect unlinked files. `Open`, `Release` and `ReadHandle` are the FUSE handlers
of `logrotate_fs.rs` with their own table of handles, `Lookup`, `Attr` and
`Entries` the answers of those that only look; a listing is fetched in pages by
offset, with ticks between them. A handler always catches up with
the clock first, so ticks and handlers alternate in any order.

### BlockWriters: RotatedFiles, SocketGenerator

`RotatedFiles` has the children of a `logrotate`, a rotating or a keeping
`traditional` server. A rotation is one action per file operation (test, remove,
test, rename, reopen), so that a tailer that deletes files, another child or a
failing operation can come between. `Buffered` is tokio's `BufWriter`, which loses
what it holds when it is dropped.

`SocketGenerator` has one generator of six kinds and its peer. Blocks go from the
thread of the cache through a bounded channel; streams are written in parts into a
bounded socket; datagrams may be lost, refused when they are longer than UDP allows
(`UdpBytes`, 65507 in the world) or cut to the buffer of the blackhole that receives
them (`ReceiveBytes`, 65536), and `cut` counts what is; connections break. Where the
kinds differ, the action of the kind says so (`Connect`, `ConnectDatagram`,
`ConnectGrpc`, `OpenFile`, `Bind`, and the writes).

### HttpGenerator, Httpd

One generator, `http` or `splunk_hec`, whose requests are tasks with a permit,
against a server: `run_httpd` of a blackhole, or an indexer that is not lading's and
need not do anything. The composition has both ends of every connection, headers and
body of an answer (`SendBody`), shedding above the limit, client timeouts, the
acknowledgement services of the HEC generator with their retries, and the shutdown of
both ends.

### Observer

Two samplers over a changing set of processes. `Fork`, `Exit` and `Tick` are the
system's and come between any two reads of `/proc`; a PID may return as another
process. `Scan` is one turn of the loop of `procfs::Sampler::poll`, with the
`retain` that is part of it; `ReadStatus`, `InitInfo`, `ReadUptime`, `ReadStat`
and `ReadMemory` are the reads of `handle_process` in order; `CgroupScan` to
`CgroupsOver` are the cgroup sampler. A process has user and system ticks, and how
many of each it has got is chosen when they are read: anything its threads can have run
on `Cores` processors since the last time. Time is in hundredths of a second, as
`/proc/uptime` has it, so that `UptimeTicks`, the rounding of `stat.rs`, is exact
for the 100 ticks a second of Linux. `usage` of a cgroup stands for its three
counters, which are treated alike; cgroups live as long as the run. Children are
pushed in one fixed order.
Threads do not occur among the children the kernel lists, so the test for them in
`handle_process` is left out.

### Telemetry, TargetMetrics

A call of `counter!` or `gauge!` is three steps of its task: look the metric up,
change it, raise its generation. `record_captures` visits the metrics in any order,
each in three steps (`ReadGeneration`, `ShouldStore`, `LoadValue`), so tasks come
between; a flush may fail and leave lines in the buffer. Sleeps and expiry go by a
monotone clock (`now`); the time of a record is read from the wall clock, which may
say anything, before the epoch included (`WallTimes`, `RecordFails`). The registry
and its recency rule belong to `metrics-util` and are external. `TargetMetrics` is
`scrape_metrics` as a fold over lines, each reduced to what the scraper tells apart,
and the loop of `expvar.rs` over its variables; `Telemetry` applies the updates one
call at a time.

### Harness

One test of sheepdog: `run_inner` with its RPCs to ducks, the main task of ducks,
its listener and handlers, and lading, seen only through what it sends and when it
exits. A request, datagram or connection passes through stages (sent, counted,
answered, unheard, lost; reading, counting and dropped for TCP). A `tcp_handler` reads
some of what has arrived into its buffer (`TcpRead`), adds the length of the buffer to
the counters and clears it (`TcpCount`), and others come between the two. Every step
may fail: the launches, the port of `start_test`, `accept`, a read, the wait for a
child; a timeout may end the test, and an answer may be lost.

### BlockCache, Payload, Tags

`BlockCache` is `block.rs`: `Cache::fixed` checks its limits, draws a block size
between the floor and the maximum, has a block of that size made and goes on
until the total is reached (`Fixed`, `Draw`, `Constructed`, `Filled`); `read_at`
copies block by block (`ReadAt`, `ReadStep`). A block is its length, and a
serializer is known by its contract alone: at most `block_size + overhead` bytes.

`Payload` has the serializers. A member (a log line, a span, a metric) is the
length of its encoding, one operator per format (`JsonMember`, `DogMetric`, ...);
`to_bytes` of each format is an action that goes round its loop one member at a
time: line formats write until a line does not fit, OpenTelemetry estimates its
envelope before it encodes, Datadog logs, Fluent and the trace agent make a list
and halve it until it fits, `Static` sends what one read of a file returns. `dog`
is a DogStatsD configuration, refused by `DogValid` or by the constructors, and
`made` is what the generator then has to choose from. `Varint`, `JsonArray` and
`MsgPackHeader` are the sizes the encoding libraries produce. That all of it
implements `BlockCache` is the property `ImplementsCache`.

`Tags` is the tag generator with the random numbers of its seed, drawn when first
asked for and drawn again in the same order after a reseed; a tag is a pair of
offsets into the pool of characters. `Payloads` puts the two side by side.

## Runs

The bounds are the CONSTANTS of each `.cfg`, each named in its module.

| run | checks | instance, and why it is enough |
|---|---|---|
| `signal` | the counter is exactly the number of watchers outstanding; refinement of the latch, so the wait ends only when all have acknowledged | three watchers: two that race on the counter while a third registers or is dropped; the counter wraps at 4 in place of 2^32, so an underflow would show |
| `signal_lost_wakeup` | **violated**: `signal_and_wait` returns when every watcher is dropped | two watchers |
| `generators` | no interval grants more than the capacity; process trees are spawned whole; procfs entries are of one process; file trees are laid out within their limits, and renaming leaves every path where it was planned; every generator returns | intervals of 4 ticks, capacity 3, requests up to one too large, four intervals; two process trees of depth three, one failing fork; two processes over two PIDs, so that they collide; a file tree of five nodes besides its root and two names, so that names collide, one level deep or two when the root ends with a separator, roots with and without an extension, two renames, one error |
| `block_writers` | logs read back in order without gaps; blocks in order, paid as written; bytes conserved; streams carry whole blocks; every writer returns | files: two children, two rotations, four blocks larger and smaller than the buffer, one deletion, one fault; sockets: all six kinds, blocks of several sizes over a socket of 4 bytes, so that writes are partial, datagrams up to 2 bytes, so that some are refused or cut, two breaks |
| `logrotate_fs` | chains of rotated files, listings whole and in pages, sizes per tick, handles, reads, inode life cycle | two groups of two files, ticks 1 to 6, two opens: rotation, unlinking and collection with open handles and between pages all happen; ordinals stay far below 255, where they saturate |
| `lading` | nothing is left behind; a dead target ends the run; every finite run ends; both but for the lost wake-up | one generator with all four kinds of targets, both telemetries, finite and infinite; for a binary and for no target also two generators, or one with an inspector |
| `http` | permits come back; acknowledgement ids in one place with exact retries; everybody returns whose server answers, which lading's own does | both generators, against lading's servers and an indexer; two parallel requests against a limit of one, so that shedding occurs; three connections; one retry |
| `telemetry` | an index is one record; counters do not fall; records are complete; only idle metrics expire; the scraper reads what the text says | two workers and no server, or a server of each kind with two answers, among them a restart, every kind of line it skips and one it cannot read; two seconds, a wall clock with two times and one before the epoch, expiration at once, one failing flush |
| `observer` | whoever lives through a poll is sampled, nobody twice; CPU reports possible, cgroup usage counted once | four sets of bounds, one per question, with two cores and two cgroups: a target with child and grandchild, one poll and four events (fork, exit or unreadable file), enough for a PID to move within the tree while it is walked; a child whose PID is taken over by a process that runs, over two polls; a cgroup whose file is read, not read and read again, over three polls; the target alone over three polls. Up to 3 hundredths of a second pass |
| `observer_reinit` | **violated**: a `ProcessInfo` is initialised once per process | a target with child and grandchild, one cgroup, two polls |
| `payload` | every format implements the cache's contract and returns; the cache is never empty, and as large as asked for up to one block; `read_at` returns the slice asked for; tag sets repeat | all formats with members of two lengths; limits of 0, above a u32 (200 here) and above the total; blocks up to 137 bytes for OpenTelemetry, whose length prefixes grow at 128; estimates and batches scaled down with the members; five tag sets of a cycle of two |
| `harness` | a request whose answer arrived is in the metrics; bytes counted were sent | all four ways to listen; two requests, connections or datagrams of one or three bytes, so that a connection is read in up to three parts while the other is, reads of closed connections up to four counts, and datagrams longer than the buffer |

`CHECK_DEADLOCK FALSE` is set but in `payload`: programs end, and the bounds end
the rest. In `payload` a deadlock would be an offset that `read_at` finds in no
block, so its final states stutter by an action of their own.

### Fairness

Weak fairness stands for a runtime that polls ready tasks, timers that fire and
an operating system that runs processes and threads. Strong fairness is used for
arms of `tokio::select!` alone, which picks at random among the ready ones, so an
arm that is ready again and again is taken. Nothing is assumed of ctrl-c,
failures, the target, or the times at which the shutdown comes. In `lading` weak
fairness is of the next step of `main` as a whole, its setup and its joins included,
and of each task; no fairness prevents the lost wake-up, and `RunEnds` and
`DeadTargetEndsRun` name it as the one alternative. In `http` a server that is not
lading's gets no fairness: `EverybodyReturns` has as its hypothesis (`Answers`) that
it does not owe an answer, or a body, for ever where the generator has no timeout.
`block_writers`
assumes that a peer reads and a grpc server answers, since the generators have no
timeout for one that does not; `generators` that the configured executables end;
`signal_lost_wakeup` that every watcher is dropped in the end. Liveness in `lading`
does not include docker targets, which are polled for without end. `payload` runs
on one thread that nothing blocks, so weak fairness of its next step is enough.
`signal`, `logrotate_fs`, `telemetry`, `observer` and `harness` check safety alone
and assume none.

## What the violated runs show

* **A lost wake-up in `signal_and_wait`** (`lading_signal/src/lib.rs:93`). The
  counter is loaded before the `Notified` future exists, and `notify_waiters`
  stores no permit. When the last watcher goes in between, the call never returns.
* **Previous samples thrown away** (`observer/linux/procfs.rs:121`). `retain`
  runs inside the loop over a set that never holds the target, so the target's
  CPU is computed from a zero sample at every poll: an average since boot.

Met while modelling, and not the subject of a run:

* A shutdown may not complete (`captures.rs:245`, `target.rs:211`,
  `bin/lading.rs:582`). The capture thread and the docker watcher wait for the
  target without looking at the shutdown, and `signal_and_wait` waits for them
  without a limit; `max_shutdown_delay` ("the maximum time to wait, in seconds,
  for controlled shutdown") applies only later. Ctrl-c before the container shows
  up leads there; `RunEnds` therefore excepts docker targets.
* `dogstatsd.rs:727`: with `length_prefix_framed` a payload is four bytes longer
  than `max_bytes` allows. The test for it (line 809, "the serialized size of the
  payload does not exceed `max_bytes` if framing is enabled") calls the method
  that does not frame. `overhead` in `BlockCache` is these four bytes.
* `trace_agent.rs:258`: asked for fewer bytes than the encoding of an empty list
  takes (two in JSON, one in MsgPack), `to_bytes` never returns, and such sizes are
  drawn: sizes start at 0. `SerializerReturns` excepts the case.
* `block.rs:545`: `InsufficientBlockSizes` is never returned (`CacheNeverEmpty`);
  when nothing fits the maximum block size, construction goes on without end.
* `block.rs:504`: a `maximum_block_bytes` of 0 is accepted and panics.
* `block.rs:166`: the cache is documented as "up to `total_bytes`" and goes past it by
  up to one block, as `CacheBudget` says.
* `dogstatsd.rs:311`: `Config::valid` accepts a range of service check names that
  starts at 0, which may panic when one is chosen, and does not look at
  `sampling_range`: the wrong way round, or not finite, it panics when a sample rate is
  drawn (`metric.rs:112`).
* `statik.rs:84`: a file is "faithfully transmitted", but only as far as the first
  read of a `BufReader` goes, and the size it is chosen by is that at start.
* `dogstatsd/common/tags.rs:149`: "after `num_tagsets` have been produced, the
  tagsets will loop and produce identical tagsets", but the tags made so far
  outlive the reseeding and are added to, so with a ratio of unique tags below 1 the
  next cycle differs. `TagsetsLoop` states what is left.
* `process_tree.rs:500`: `goto_next_sibling` passes the end of a subtree, so a
  process may adopt cousins and exceed `max_children`.
* `logrotate_fs/model.rs:230`: ordinals saturate at 255, so with a `max_rotations` of
  255 no file is ever unlinked, and the oldest ones share an ordinal and a name. With
  `OrdinalMax` equal to `MaxRotations` TLC finds `PeerChain` violated.
* `file_gen/logrotate.rs:253`: the server joins its children only after the
  shutdown, while its documentation (line 247) says that it terminates with an
  error when a file cannot be written.
* The loops that connect (`tcp.rs:159`, `unix_stream.rs:160`,
  `unix_datagram.rs:214`, `grpc.rs:255`, `passthru_file.rs:150`) do not look at
  the shutdown; `WriterReturns` states what is left.
* Generators ignore the error of the throttle for a block above the rate, as in
  `http.rs:230`, and send the block unpaid.
* `target.rs:423`, `inspector.rs:151`: SIGTERM is sent "so that the child has a
  chance to clean up", but nobody waits for the two tasks at the end, and dropping
  them kills the children. The inspector does not look at the shutdown while it
  waits for the PID.
* `generator/file_tree.rs`: the limit on nodes does not count the root; a root whose
  name has a dot is taken for a file; a random name that is in use makes a rename
  replace an empty folder, or fail and end the generator. `AccessStillWorks` excepts
  it. A root that ends with a separator is allowed one level more than `max_depth`.
* `udp.rs`, `unix_datagram.rs`: a block longer than 65507 bytes is never sent over UDP,
  and the unix blackhole counts 65536 bytes of a longer one.
* `generator/procfs.rs:48`: "Total number of processes created" is met only if no
  two random PIDs are equal: the later process overwrites the files of the earlier.
* `captures.rs`: a call that completes after its metric was visited for the last
  time is not recorded, nor is anything after the last second; a call on a handle
  whose metric has expired is lost, and the counter starts again at zero.
* `target_metrics/prometheus.rs:99`: "Panics: None are known", but a TYPE lading does
  not know or a sample without a value panics. A gauge that is not a number is
  written as `null`.
* `integration/ducks/src/main.rs:308`: "Read & count metrics until connection closes",
  but a closed connection is read without end, each read counted; `total_bytes` of
  HTTP (line 144) is the last body's. The answer to the shutdown RPC may be lost.
* `blackhole/sqs.rs:117`: `Action` denies unknown fields, so a request with more than
  an action is not recognised.
* `blackhole/unix_datagram.rs:76` makes a future that removes a stale socket and
  never awaits it.
* `cgroup/v2/cpu.rs:35`: the first report of a cgroup divides all of its usage by
  the few microseconds since its entry was made.

## Proofs

Proved for every value of the constants that the named assumptions allow.

**SignalProofs** (assuming a finite, non-empty set of watchers smaller than the
range of the counter). The claim that the counter is the number of outstanding
watchers is not inductive by itself: a step of `compare_exchange` preserves it
only if the watcher that makes it is still outstanding and the value it read was
positive. `IInv` adds that (`Deciding`, `OldPositive`), that the channel's state
fits the broadcaster's (`SenderPhase`), and the types. From `IInvHolds` follow
`PeersExact`, `ReceivedIsAcked`, `NoUnderflow` (the guard against zero in
`decrease_peer_count` is never what ends its loop), the action property
`WaitIsSound`, and step simulation: `SignalImplementsLatch`, the refinement on
which `Lading` relies. That the set of outstanding watchers grows and shrinks by
one is a lemma on cardinalities used by every action.

**ThrottleProofs** (assuming a positive capacity and interval). `IInv` is the
types, `Budget` (what the valve holds and what it has granted in its interval add
up to the capacity, and the valve is never ahead of the clock) and `Sleeper` (a
sleeper wakes no earlier than the next interval, where its request fits). The
arithmetic of intervals is in the lemmas on `IntervalOf` and `Slop`. It gives
`RateBound`, `OneSleep` and `UnspentCapacity`.

**BlockCacheProofs** (assuming natural numbers for sizes and a positive total, the
`NonZeroU32` of the code). `NeverEmpty` alone is not inductive: that the loop does
not end before a block is made needs the floor to stay below the maximum
(a quarter of a size that was itself below it), the maximum to be within the total
(the check of `Cache::fixed`) and nothing to be taken off the total before the
first block. `CacheIInv` says so, and gives `CacheNeverEmpty`,
`CacheBlocksWithinMaximum` and `CacheSizeToDraw`. They hold of every format because
`ImplementsCache` does, which is model-checked.

**LadingProofs** (assuming only the types of the configurations; there may be
any number of generators).
`NothingLeftBehind` needs two invariants: `CaptureIsWaitedFor`, that the capture
thread is among the outstanding watchers of the latch from before anyone can wait
until it ends, and `ProcessesAreHeld`, that a process lading started is held by a
task that is still there, or is gone. The theorem `LeavesNothingBehind` is about
`PhaseLatch`, and holds of the signal by `SignalImplementsLatch`.

**HttpProofs** (assuming at least one connection). Permits first: `Tasks` is finite
and every action adds a task and takes a permit, removes one and returns it, or does
neither, which gives `PermitsComeBack` and `ParallelismIsBounded`. For the ids, `IInv`
follows one from the server that issues it: ids in replies are distinct and below
the next one (`RepliesOK`); one on its way to its task is used nowhere (`UsedOK`); a
service has one query at a time, which asks for exactly the ids it holds
(`QueriesOK`), so that an answer cannot acknowledge what was not asked for or
arrive for a table that has changed. `AckIdsAreSettledOnce` follows.

**FileTreeProofs, GeneratorsProofs** (assuming positive limits and a root that is a
path). `IInv` adds to `TreeIsLaidOut` what is on the stack: its parents are listed
already (`Listed`), it is no deeper than it may be (`Fits`), and for every path what is
listed and stacked of its files and of its folders is at most the limit for each time
the path itself is listed (`Brought`). A round of the loop takes one node off the
stack, which moves one place from one count to the other, and pushes files and
folders, which raises the counts of that node alone, and it has just been listed once
more. It is kept whatever names are drawn, and by the server that holds the
generator: `TreeIsWithinLimits`.

**HarnessProofs** (assuming a finite set of requests and positive sizes). `IInv` says
when lading may run between the RPCs (`Phases`), that the HTTP counter is the number
of requests seen, that the bytes counted over TCP, those not read and those in the
handlers' buffers are the bytes sent, that datagrams on their way are still to be
counted, and that no report exceeds what was sent. Bytes are counted as the members of
a set (`Uncounted`, `Flight`), so that sums over connections are cardinalities: a read
leaves the set alone, a count takes out the places of one buffer, a write adds those
of one message. It gives `MetricsCoverAnswers` and `NoByteIsInvented`.

Only model-checked: every liveness property (fairness and ENABLED are out of the
prover's reach), `CacheBudget` and `ReadIsSlice`, which are about sums over
sequences and need an induction over data, and all of `ProcessTree`, `ProcFs`,
`LogrotateFs`, `RotatedFiles`, `SocketGenerator`, `Observer`, `Telemetry`,
`TargetMetrics`, `Tags` and `Payload`.

## Not modelled

* **The content of payloads**: random strings, numbers and their encodings; a
  member is its length. Files under a static path do not change while lading runs.
* **The block cache in its users**: generators take a cyclic list of block sizes
  for it, and `LogrotateFs` a length per read.
* **The rate of generators**: they wait for the throttle at any time, which is more
  than `Throttle` allows; the rate of one is that of its throttle, less what it
  sends unpaid.
* **SQS blackhole**: stateless answers on top of `run_httpd`, which is `Httpd`.
* **Memory maps of the observer** (`smaps`, `rollup`): parsers of text without state.
* **Text of the procfs files**, of RPC messages and of HTTP bodies.
* **Blackholes and target metrics in `Lading`**: servers that take part in the
  phases as generators do.
* **Configuration, codec, command line and tools**: they run before or after the
  system does, and keep no state.
