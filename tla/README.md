# TLA+ models of the NEMEA modules

This directory holds TLA+ specifications of modules of this repository, the TLC configurations
that check them, and proofs for the TLA+ proof system.  A NEMEA module is a process that
receives flow records (UniRec) or raw messages on input interfaces of libtrap, keeps some state
about them, and sends records on output interfaces.  The modules do not call each other: they
are joined by links of libtrap, outside this repository.  What is modelled is therefore one
process at a time, its threads and its error paths (and `mux` and `demux` together, since they
share a message format), with libtrap as an environment that may deliver, time out, fail, end,
or lose.

    tlc -workers 2 -config Aggregator.cfg Aggregator.tla
    tlc -workers 2 -config Tools.cfg MCTools.tla
    tlapm Aggregator_proofs.tla          # and the same for every *_proofs.tla

## 1. Inventory

| component | state it keeps | operations | threads, interaction | what is hard |
|---|---|---|---|---|
| `aggregator` | one stored record per key, the passive clock `time_last_from_record`, `stop`, key and output templates | receive and merge, window end, format change, timeout scan, flush at exit | main and `check_timeouts` share the storage under `storage_mutex`, the clock under another mutex (which one reader does not take) | interleavings, failed sends, format changes, termination |
| `natpair` | queue `q`, semaphore `q_empty`, `th_alive`, the cache of unpaired flows | receive and prepare a flow per interface, pair, complete, send, clean | two receiving threads and main | wake-ups, the end of the threads, order of arrival, cleaning by the time of the flows |
| `scalar-aggregator` | per rule a ring of time windows (`timedb.c`) | save a flow over the windows it touches, roll and send, soft restart | sequential; several databases that have to move together; retries | boundaries, partial failures, long sequences of calls |
| `mux` / `demux` | the shared `ret`, a buffer per thread / the last message | wrap, hello on a new format / unwrap, set the format | a thread per input of `mux`; one raw link between the two | shared result, lost and interleaved messages, header sizes |
| `bloom_history` | Bloom filters per tag | insert, swap and upload | receive loop and upload thread; condition variable, two mutexes | lost wake-ups, the last upload |
| `merger` | a template per input, one output template and record | receive the first messages, expand the output template, copy, send | a thread per input under `unirec_mutex` | errors of the receive that go unnoticed, formats that change under the others |
| `unirecfilter` | per output a template, a record and a compiled filter; the parser's `main_tree` | match, copy the fields, send; read the file again by SIGUSR1 | sequential with one signal | compiled late, reused records, reload in the middle of a stream |
| `topn` | the N largest flows as sorted arrays, counters of ports, sampled hash tables of addresses and networks, each also per watched port | insert in order, report and clear by an alarm | sequential with SIGALRM | sorted arrays of slots, full rows, what is cleared |
| `link_traffic`, `proto_traffic` | counters per link or protocol; a buffer for the reply | count; answer a client with all counters | main and a server thread, no lock | replies put together while main counts, the order and the length of a reply, failed set-up |
| `logger`, `logreplay` | a file of lines | quote and write a record; split and send a line | two processes, joined by a file | quotes, formats, delays |
| `ipv6stats` | counters and Bloom filters of a short and a long window | count, flush a window, flush by inactivity | sequential with receive timeouts | two windows that rely on each other |
| `traffic_repeater`, `endiverter`, `prefix_tags`, `anonymizer` | the formats, a buffer, counters | receive, rewrite, send | sequential with a signal | format changes, ends, refused sends |
| Crypto-PAn (`anonymizer/panonymizer.c`) | key and pad | anonymize and deanonymize an address bit by bit | none | bit arithmetic in two versions |
| `device_classifier` | a tree of addresses with their peers and ports; labels and their ids in files | add both ends of a flow, report, train | sequential with SIGUSR1; files kept from run to run | what an output covers, ids over several runs |
| `flowcounter`, `luamodule`, `nfreader`, `nfwriter`, Python modules | counters, user scripts, file formats | convert, print | little | the data, not the control |

What makes each of the first ones correct:

- *aggregator*: every record ends in exactly one group of its key; what a group says (COUNT,
  TIME_FIRST, TIME_LAST) is true of exactly its records; groups are cut only where the timeouts say so; a stored
  record is only read through the template it was made with; a stop ends the process.
- *natpair*: a flow is paired at most once, with the other side of the same connection; no flow
  stays in the queue without a wake-up; two flows that fit never both wait; only old flows are
  cleaned out; the end of the inputs ends the process.
- *scalar-aggregator*: the ring covers a gapless stretch of time; all rules cover the same one; no
  window is skipped or sent twice; the windows together carry the value of the flow.
- *bloom_history*: every inserted address is posted exactly once, for its tag, in an interval that ends after it was
  seen; the last upload takes what is left; a stop ends the process, if the service it posts to answers.
- *mux/demux*: what enters at input *i* leaves at output *i*, in order, in its format, and nothing else with it.
- *merger*: a record leaves with the values of the message it is made of and of no other one.
- *unirecfilter*: a record goes to the outputs whose filter, as read last, holds of it; it carries its own values
  or the defaults; SIGUSR1 brings the filter of the file.
- *topn*: flows and ports are exact for the interval; sampled addresses never show more than they had.
- *link_traffic*, *proto_traffic*: each value of a reply is a count of the link it stands for, under its header.
- *logger/logreplay*: what is replayed is what was logged, no faster.
- *ipv6stats*: the distinct addresses and prefixes of a window are counted exactly.
- *the forwarders*: records go on in order, in the format announced for them.
- *Crypto-PAn*: deanonymizing undoes anonymizing; prefixes are preserved, and nothing else is shared.
- *device_classifier*: an output tells of the flows since the one before; an id means one label.

The hazards, each at its line and with the properties meant to catch it, are listed in
`PROJECT.json`.

## 2. Plan

Done: 1. `Aggregator`, its abstract specification `KeyedGroups`, the refinement and the first proofs;
2. `NatPair`; 3. `TimeDB` and `ScalarAggregator`; 4. `MuxDemux`; 5. `BloomHistory`; 6. `UrFilter` and
`UnirecFilter`; 7. `TopN`; 8. `Merger`; 9. `KeyedCipher` and `CryptoPAn`;
10. `TrafficStats`, `LogReplay`, `Ipv6Stats`, `Forwarders`, `DeviceClassifier`; 11. the proofs of section 5: every safety
property of Aggregator, NatPair, BloomHistory, MuxDemux, ScalarAggregator, UnirecFilter, Merger, TrafficStats, LogReplay, Ipv6Stats,
Forwarders and CryptoPAn, the ids of DeviceClassifier, and the refinement.

Left, and not part of this project:

1. proofs of `ReportAccurate` and `TablesNeverOvercount` of TopN and `ReportsExact` of DeviceClassifier, which TLC checks;
2. the promise of BloomHistory, "every insert is in exactly one upload", as an abstract specification;
3. the configuration of `prefix_tags` and the search of `ip_prefix_search.h`; several interfaces of `logger`.

Modules that are proved about have constants with named assumptions, one action per step of the
code, invariants as conjunctions of named parts, and no RECURSIVE operator: what is recursive is a recursive function or a fold.  The only
recursive operators are in `UrFilter`, which walks trees of expressions.  `UnirecFilter` does not extend it but takes the library as constant operators,
so that it can be proved about; `MCUnirecFilter` gives it the library of `UrFilter`.

## 3. Modules and code

**Aggregator** (`aggregator/aggregator.cpp`).  `mpc` and `tpc` are the positions of the main thread
and of `check_timeouts`.  A section under `storage_mutex` is one action when it reads nothing
another thread may write meanwhile; the passive scan reads `time_last_from_record` without
the mutex of that variable and takes one step per key (`TimerExpire`, `TimerKeep`).  The body of the
loop of `main` is cut where it takes or gives back a lock: `RecvRecord`, `FormatFlush`, `TemplateOk`/`TemplateFail`,
`SetTime`, and one `Process...` action per way through the rest.  A group is a stored record: the numbers of the records
merged into it (`ids`, a history), `count`, `first`, `last`, how often its averages were computed (`avgs`), and the
output template it was made with (`format`).  `out` and `dropped` are histories of what was sent
and of what was lost in a send that failed, or with an abort.  `timeout` is chosen by `Init`, so one run covers all
types of `-t`.  At least one field is taken to be averaged (`-a`).

**KeyedGroups** is what the aggregator promises with threads, clocks, locks and templates taken away:
numbered records join the open group of their key, groups leave as a whole.  `ImplementsKeyedGroups` in
`Aggregator` maps `open` to the ids of the stored records and `n` to the number of records decided.

**NatPair** (`natpair/natpair.cpp`).  `ppc` are the positions of the two receiving threads, `mpc` that of
main.  `Push` and `Post` are two actions, as the mutex is released between them; so are `Leave` (the
decrement of `th_alive`) and `LastPost`.  Flows are numbered when they are queued; the queue holds their numbers in that order, and a
vector of the cache is a set of numbers (flows join it at its end, so it comes in their order).  An address stands for itself
with its port and protocol; the router of a complete flow is the address the user gave (`g_router_ip`), whatever the WAN side says.
`l_mut` only keeps calls of the UniRec library apart and is left out.  A thread that fails does so in the body of its loop, which it enters
only while `stop` is not set (`FormatFails`).

**TimeDB** (`scalar-aggregator/timedb.c`) is a library of operators on one database, named after the C
functions; **ScalarAggregator** (`aggregator.c` there) has a database per rule.  Time stamps of flows are
in half seconds, so that they have the fraction the code cuts off; the value of a flow is a multiple of its
duration, so that shares are integers.  `rule_create` rejects every rule with a filter
(`aggregator.c:524-528` takes memory it got for a failure), so every rule sees every flow.  `SaveNeedsRollout` is a save that
returns `TIMEDB_SAVE_NEED_ROLLOUT`, with the part of the database's preparation that was done by then; `Flush` rolls
and sends, up to the output at which a send error breaks the loop.  Values are of numeric types, and a
flow of no duration has a value other than zero (the code computes 0/0 otherwise; it is an assumption of the module).

**MuxDemux** (`mux/mux.cpp`, `demux/demux.cpp`).  The threads of `mux` store the result of every libtrap
call in one global `ret`; a test of it may see the thread's own result, in a register, or
whatever another thread stored since, or one in one load and the other in the next.  The link
holds `Capacity` messages, and a send that finds no room loses its message (TRAP_NO_WAIT).  Lengths count: mux adds the six bytes of the
padded header and demux takes off five (`Padding`).

**BloomHistory** (`bloom_history/bloom_history.c`, `bloom_history_functions.c`).  `mpc` is the position of main, `upc` that of
`pthread_entry_upload`.  A filter is the set of the records inserted in it; the swap and the insert are one action
each, under `MUTEX_BLOOM_SWAP`; the swap, the time stamp after it and the post are three.  `woken` says that
`CV_TIMER_STOP` was signalled during the current wait: a signal that comes before the wait is lost, as in the code.
`MUTEX_TIMER_STOP` is a variable because the upload thread unlocks it a second time (line 178).

**UrFilter** (`unirecfilter/lib`: `parser.y`, `functions.c`) builds the tree of a filter as the grammar does, binds it to the fields known at
that time, and evaluates it with the widths and the signs of the C code: elements of arrays are compared without their signs, differences of
int64 as ints, in the binary search of `bsearch`.  A text is the sequence of its terms, each with
the operator before it: the lexer is left out.  An array of a field that is not known reads the type of no field, and is taken or not (`taken`).
`Meaning` is the reference the verdicts are compared with, for the texts that are `Plain`.
**UnirecFilter** (`unirecfilter.c`, `liburfilter.c`) is the program: `program` are its options and the versions of its file,
`edit` the version on disk, `loaded` the one read last.  The pieces of a turn of the loop are actions of their own, so that
SIGUSR1 and edits of the file come anywhere between them.  No other handler is registered: SIGTERM ends the process as it stands and is no action.
A value of variable length is cut to `MaxDynamic` (`Cut`), all others are copied.  The library's calls are constant operators
(`TreeOf`, `Evaluate`, `Says`), and `FilterLibrary` is what the module relies on: a plain text, compiled when some fields were known, holds of the
records it says it does.  TLC evaluates that assumption for `UrFilter`.  `mainTree` is the global of the parser.  A field that is known
but not in the record is read as something else (`Junk`), and so is a float, which the code reads as a double.

**TopN** (`topn/topn.c`).  `order` are the sorted pointers into the slots; scopes are all flows (0) and each watched port.  The hash
tables are external: a row of `FlowCols` entries that forgets the one used least recently.  Chance (`randomMT`) is a
choice of the set of tables that let a new address in.  A report is put together and everything is cleared in one
action, since the signal handler only sets a flag.

**Merger** (`merger/merger.c`).  `msg[i]` is what the last receive of thread *i* left behind, whatever its result; `Forward` is the critical
section.  A receive that fails (`ReceiveFails`), for a termination or any other reason, leaves the message before in place, which is sent again, or what
was on the stack if there was none.  `pc[0]` is main, which sends the first messages itself without `-u`.

**TrafficStats** is `link_traffic` and `proto_traffic`: one skeleton, chosen by `tool`.  A counter and the
bytes behind it are two steps of main, as no lock keeps the server thread out, and a reply reads link by link.
The sort of the links is any order in which no two links compare the wrong way; the search walks the interval of `bsearch`.
The buffer of the reply has room for `BufferLinks` links; behind its end link_traffic overwrites the heap (`Overrun`), and crashes, prints
something else, or is lucky.

**LogReplay** is `logger` writing a file and `logreplay` reading it.  A line is a sequence of marks: a quote, a backslash, a
comma, the delimiter, a letter, a digit; there are as many digits as times at which a record is logged.  `Scanned` is the body of the loop of
`get_next_field`, one mark at a time, and `GetNextField` the loop.  A signal ends the delay of `Replay` anywhere; the record is sent
all the same, but with a second signal the send fails.

**Ipv6Stats** (`ipv6stats/ipv6stats.cpp`).  A Bloom filter is a set: there are no false positives in the model.

**Forwarders** are the four modules that send on what they receive, with what each does to a record (`Diverted`, `Anonymized`, `Tags`).
Whether a record has strings in it (`filled`) is its own affair: prefix_tags refuses the format by the record that comes with it, and a later
record may have strings that are written behind its buffer (`Written`, and a crash).
**KeyedCipher** and **CryptoPAn** (`anonymizer/panonymizer.c`): an address is a function from positions to bits, and the
cipher is any function of a block; Rijndael and MurmurHash3 are two of them.  Each turn of a loop over the bits is an action.  `ComparedFrom` keeps
the difference between `deanonymize`, which compares one bit, and `deanonymize_v6`, whose shift of a byte that was made an
`int` compares the bits before it as well.

**DeviceClassifier** (`device_classifier/device_classifier.c`): `launches` of the program follow each other and share the list of models (`listed`) and
the training database (`train_db`); `tree` has a node for each address, with the end of the last flow of each peer.  `Timestamp` multiplies in 32 bits and
wraps around at `TimeWrap`; `Far` is `abs()` of a difference that was made an `int`; an IPv6 destination, whose version nobody asks for, stands under
the word of it that an IPv4 address would have.

**SmallTools** composes the last six small ones (Merger, TrafficStats, LogReplay, Ipv6Stats, Forwarders, DeviceClassifier): one of them is
active in a behaviour, chosen at its start, and the variables of the others stay idle.  Its theorems are about all six; **MCTools** only gives
its constants values.

The MC modules give TLC its inputs; no definition is replaced.

## 4. Runs

| run | asks | shows |
|---|---|---|
| `aggregator` | two keys, two records, two formats, all four timeout types, five ticks, a passive timeout of two | `InputPartition`, `AggregatesExact`, `TemplateCurrent`, `WindowBounded`, `SplitOnlyAtWindow` hold, and the module implements `KeyedGroups`; the passive timeout is never early if its thread makes its first step before the first record, and no format comes with a record that ended after a round under way began (`PassiveNeverEarlyOnTime`); the unlocked read is harmless (`ScanClockStable`); a stop ends the process but for the leaked mutex (`StopLeadsToEnd`) |
| `natpair` | three flows out of nine records, in every order, with a cache of one key | `FlowsAccounted` (which also says that only old flows are cleaned out), `PairsSound`, `NoPairWaits`, `NoFlowStranded`, `InputsEndLeadsToExit` |
| `scalar` | four flows out of nine, three rules on two outputs, windows of 3 s, a delay of 5 s | `InStep`, `RowsContiguous`, `CountedOnce`, `WholeSecondsKept`, `RolloutEnds` |
| `mux` | two interfaces, three messages, one failed receive, a link of one message | `RoutedInOrder`, `GoesThrough` |
| `bloom` | two tags, two records, two intervals of a second | `InsertedOnce`, `SeenInInterval`; `StopLeadsToExit`, be it an interval late, if no post hangs |
| `topn_cryptopan` | `topn` in three settings: addresses that overflow their rows, networks and a watched port, the ranking of five flows; and two calls of Crypto-PAn, every pad, addresses of three bits in bytes of two, a set of ciphers | `ReportAccurate`, `TablesNeverOvercount`; `Restores`, `PrefixPreserving` |
| `unirecfilter` | every kind of term and operator on the command line; a file for two outputs, edited twice, with a broken section, a malformed default, a missing filter; three records and a timeout | `VerdictsMeanFilter`, `FieldsFollowRecord` |
| `tools` | each of the small tools | `SentAsReceived` (merger), `RepliesTruthful`, `SetupFailureEnds` (link_traffic, proto_traffic), `ReplayedAsLogged` (logger and logreplay), `UniquesExact` (ipv6stats), `SentOnAsReceived` (the forwarders), `ReportsExact`, `TrainingUnambiguous` (device_classifier) |
| `natpair_threads` | does the end of the threads end natpair? | **no**: a thread that returns early (`natpair.cpp:468`, 475, 483) does not count itself out |
| `unirecfilter_reload` | does SIGUSR1 bring the filter of the file? | **no**: a signal that comes while the file is being read is cleared with the one before (`unirecfilter.c:749`) |
| `mux_payload` | does demux give back what mux took (`mux/README.md:24`, `demux.cpp:213`)? | **no**: each message comes out a byte longer (`mux.cpp:135`, `demux.cpp:214`) |
| `link_headers` | do the values of a reply stand under their headers (`link_traffic/README.md:22-26`)? | **no**: names are in the order of the sort, values in that of the file (`link_traffic.c:336`, 350); they differ for the file `link_traff_conf.cfg.example` |

Each property of a passing run has a mutant of the code (operators marked *Mutant* beside the
definitions they stand for) that violates it.

**Bounds.**  `MaxRecords`, `MaxFlows`, `MaxTotal` bound the input: two records of the aggregator are enough for a group that is
opened and joined, replaced, or expired beside another one; two formats for one change; three
flows for a pair and one that competes for either side, or is cleaned out by it; four flows for a ring of three windows to wrap around, to fall
behind and to be restarted.  `MaxTime` stops the clock of the aggregator after a second scan.  `MaxEnd` bounds only the rolling
that goes on without end once a send error has cut a flush short (`broken`).  `Lags` and
`Durations` make records late, so that the order of arrival is not that of their times.
In `topn_cryptopan` the numbers of `topn` wrap around at `Width` = 8 in place of 2^32, which some of the flows reach (the property ranks by the wrapped numbers); a row has two columns
(one in the tables of packets), so that a third address pushes one out, and `MaxAge` lets the age of the interval pass one
of its limits.  In `unirecfilter` the integer types have 5, 7, 9 and 12 bits, so that a number of a filter may not fit its
field and an `int` is narrower than an int64; strings are cut at `MaxDynamic`, which some exceed;
three records are enough for one that is compiled with, one in another format, and one after a reload.  `CryptoPAn` takes
bytes of two bits and addresses of three, so that there is a whole byte and one that is cut.  In `tools` the
bounds are those at which each tool has a first, a next and a changed input; `MaxText` is the length at which logreplay cuts,
`Width` the range of the `int` of the link comparison, `BufferLinks` the links that fit in the buffer of a reply, of which one file has one too many, and
`TimeWrap` the period of the 32-bit timestamps of device_classifier, which its flows cross.  A receive of merger fails once in a behaviour, for each input.

**Deadlock** is not checked: every model may stop, by the end of its process or at the bounds.

**Symmetry** is not used.

**Fairness.**  Threads are scheduled by the system and no lock is held for ever by a thread that can
run, so each thread's steps are weakly fair.  In the aggregator a receive ends by its own time limit at the latest
(`RecvTimeout` is among the fair steps) and time passes (`Tick`); a sleep ends early when stop is set, which is needed
only because the clock of the model stops at `MaxTime`.  Nothing obliges the environment to deliver, to signal, or to fail.
In NatPair and the scalar aggregator the end of a blocked receive after a signal is fair
(`trap_terminate` in the handler).  In BloomHistory both threads, the clock and the end of a blocked receive after a signal are fair, but not the post
itself: curl is given no time limit (`bloom_history_functions.c:46-47` has it commented out), and a service that does not answer keeps the upload thread,
and main which joins it, for ever.  `StopLeadsToExit` is therefore about the behaviours in which a post that has begun ends again.  After stop a wait also ends
when the clock of the model has stopped.  In MuxDemux the threads and demux are fair once they have a message.
In TrafficStats main's counting and the server's printing run on, and a receive ends when main has been woken; no client need come.
UnirecFilter has no liveness property and no fairness.

## 5. Proofs

`Aggregator_proofs` proves, for any set of keys, any timeouts and bounds:

- `TypeCorrect`: `Spec => []TypeOK`.  The inductive form `TypeInv` adds that main has a record at hand
  when it works on one.
- `StoredInCurrentTemplate`: `Spec => []TemplateCurrent`.  By itself `TemplateCurrent` is not
  inductive: the templates are replaced after the flush.  `Synchronised` says
  who holds `storage_mutex` at each position of both threads, that the storage is empty
  while the templates are made, and that the scan's `todo` is within the stored keys; with it, no step between the
  flush and the new template can store anything.
- `ScanReadsStableClock`: `Spec => ScanClockStable`, from the same invariant.  Main writes the clock only just
  after the flush, when it can have stored nothing since, so a scan under way then has nothing left to look at.
- `PassiveIsNeverEarly`: `Spec => PassiveNeverEarlyOnTime`.  `ClockBehind` bounds the passive clock at each position of the
  timeout thread: by the begin of the round under way, while it sleeps by that of the next one.  An idle group is then idle
  on the wall clock too.
- `EveryRecordPlacedOnce`: `Spec => []InputPartition`, with the inductive `PartInv`: records of the storage, of
  the output and the dropped ones are apart and together are the decided ones.  Its lemmas treat the ways a record can be placed (`AcceptPartition`,
  `RestartPartition`, `LosePartition`) and the ways groups leave (`SendAndFreePartition`, `FlushPartition`); each action is one
  of them.

Its second part, about the groups, goes on from there, and proves:

- `GroupsImplemented`: `Spec => ImplementsKeyedGroups`, the refinement.  Each step maps to one of `KeyedGroups` or to a
  stutter: a record joins the group of its key, replaces it (the old group leaves), is lost, or groups leave together; that
  the numbers in `out` and `dropped` are those the abstract groups had needs `PartInv`.
- `AggregatesExactCorrect`, `WindowBoundedCorrect`, `SplitOnlyAtWindowCorrect`.  The invariant `ContentInv` adds to `PartInv`
  what is in the groups, stored or sent: `AvgsOnce` ties the number of times the averages were taken to the failed send;
  `Later` says that what is stored of a key came after what has left; `Followed`, with the active timeout alone, that a key
  which sent a group in the format in force has its next one stored, since neither the timeout thread nor a flush can have taken
  it.  Without `Followed`, `Splits` is not inductive: a new group could open right behind one that had left.

`NatPair_proofs` proves all four invariants of natpair, for any addresses, times and sizes:
`FlowsAccountedCorrect`, `PairsSoundCorrect`, `NoPairWaitsCorrect`, `NoFlowStrandedCorrect`.  In `NatPairInv`, `Placed` says of a
queued flow that it is in one of the four places, and there once; `Aged` that the clock of the cleaning is the
end of a flow that was paired.  The wake-ups that main has still to use, or a thread has still to give, are *as many* as the
queue is long (`Balanced`) until a thread has failed or both are done, when there are more: that the last thread's extra post finds the queue empty
(`LoopLeft`) follows only from the equality, not from the inequality the property states.  `TypeInv` has the count of
the threads: `th_alive` is the number of those that have not counted themselves out, and the one that posts last is the last.

`BloomHistory_proofs` proves `InsertedOnceCorrect` and `SeenInIntervalCorrect`, for any tags, numbers of records and times.
`Filed`: what is in a filter or under way was inserted for its tag and is nowhere else.  `InTime` orders the
times of inserts, swaps, stamps and posts by the clock; `Follows` carries the order of two uploads of a tag through the swap: what is
still in a filter was seen after the last swap of it, also while that upload is under way.  `LastUpload` says which filters are
empty already at each position of the upload thread once main's signal has ended its wait.

`MuxDemux_proofs` proves `RoutedInOrderCorrect`, for any number of interfaces and any capacity of the link.  `Ordered`
follows the numbers of an interface's messages back from the output over demux and the link to the thread of mux.  `InForm` does
so for formats, which travel apart from the data: a message on the link is in the format of the last hello of its interface before
it (`Announced`), or in the one demux knows if there is none; the thread may send data only if that would be the format
announced last.  It is claimed only of interfaces none of whose messages was lost and whose thread saw its own results, which is where the global `ret` and
the send that does not wait break it.

`ScalarAggregator_proofs` proves `InStepCorrect`, `RowsContiguousCorrect`, `CountedOnceCorrect` and `WholeSecondsKeptCorrect`, for any rules,
steps, delays and flows.
Lemmas about `TimeDB` come first: a database keeps its type, and a roll keeps its ring in order (`RollRing`: every window
but the newest is where the next one was, modulo the size).  In `ScalarInv`, `Started` says that once the first flow has come no begin is
0, so that only the inactivity time initialises a database again; `Successive` relates the last row of an
output to the begin of the database of its first rule; `Fresh` that the flow at work is in no database from `at` on, however
often it was tried, which is why counters count it once.
`WholeSecondsKept` is about the sum of all windows and rows of a rule, so lemmas about sums come first: `SumFunctionOnSet` has the equation of a
fold (`SumPick`), hence may take its elements in any order (`SumRemove`), and adds up (`SumPlus`).  They are proved from the existence of a least
counterexample (`Least`, `Climb`, `Build`), not by induction over an operator.  The shares of a flow of whole seconds over the windows telescope to its value
(`Telescope`, `Shares`), if the ring covers the flow, that is, begins no later than it.  This holds of flows that come within the delay because
a ring still begins with the first flow or ends less than a step after some flow (`Reach`), for which a flush is made only when the ring ends before the
flow at work (`Due`), and the ring that asks for it is behind no other (`Behind`).  `Kept` says that the windows and rows of a rule hold the values of the flows done
so far; `Made`, that only the first flow can meet a tree that was never made.

`UnirecFilter_proofs` proves `VerdictsMeanFilterCorrect` and `FieldsFollowRecordCorrect`, for any programs, versions of the file, records and junk.
Neither a verdict nor an output is right all the time: while the file is being read, and after that failed, filters and
specifiers are of different versions.  `Settled` says at which positions of main they are those of the version read last; `TreeRight` that a filter in use is the
tree of its text, compiled with no more fields than are known now, and `OutputRight` that a field the input never had still has its
default.  A reload begins and ends between two records, so each verdict is given by one version.  Besides `UnirecFilterAssumption`, types of the
programs, the theorem rests on `FilterLibrary`, which is about `Plain` texts only: where documentation and code differ (arrays of int64 and of negative numbers)
or the documentation leaves a text open (both `and` and `or` in a list), nothing is claimed.  An output's strings follow the record as far as `DYN_FIELD_MAX_SIZE` reaches.

`SmallTools_proofs` is about the six small tools together; a step of the whole is a step of the active one.

- `SentAsReceivedCorrect` (merger), for any number of inputs, any formats and user's templates.  `AtLock` says of
  a thread that waits for `unirec_mutex` which of its message and its template is the newer one: unless the receive announced a
  format they agree, so that with `Grown` (the output's template has the fields of every input's) the copy is complete whatever the other threads
  have done to the output in between.  `FirstMessages` counts through the first messages that main takes and sends.  A receive that failed leaves
  the message before at hand, which is then one that was sent already: until then `AtLock` has exactly one message to send, and at most one afterwards.  Assumed: there is an
  input, and inputs are numbered from 1 (`InputsNumbered`).
- `RepliesTruthfulCorrect` (link_traffic, proto_traffic), for any links and protocols.  `Counted` ties each counter, with the step main has half done
  (`Pending`), to the records that belong to the link; `Answered` says that each value of a reply lies between the counts when the
  client came and those now, though they are read one by one without a lock.  The values of the links may rise or fall in the file, as the example that comes
  with the module has them rise; they are to be distinct and small enough for the `int` of the comparison (`Legible`), and the reply is to fit in its buffer (`Fits`).
  The values are then those of the file's order, which is not that of the headers (run `link_headers`).  Assumed: what the configuration may be (`LinksTyped`).
- `UniquesExactCorrect` (ipv6stats), for any addresses, tunnel types, sizes, times and numbers of records.  A value the filter of the
  long window does not know is counted for the short one without asking its filter, so the filter of the short window must never hold what the
  long one has forgotten (`CountedIn`).  That the long one is cleared only together with the short one follows from `Together`: the
  end of the long window is that of the short one or a multiple of its size later, which the first record establishes and both ways of moving on
  keep, given that the long size is a multiple.  `Quiet` says that nothing is in the filters while nothing comes: the second flush by inactivity leaves
  them alone, and is right only for that.  An address that is known is not looked for by its prefixes (`AddV6Right`), which `HeldBy` justifies.
  Assumed: what main checks of the sizes (`WindowsChecked`).
- `SentOnAsReceivedCorrect` (the forwarders), for any formats, records and prefixes.  `InOrder` says that what was sent
  is right and in rising order, `NotYet` that the record at work is neither sent nor refused yet, `FormatKnown` that the format announced is that of the record
  received last.  The strings of a record prefix_tags has no room for are excepted.  Assumed: the fields of a format are
  typed (`FieldsTyped`).
- `ReplayedAsLoggedCorrect` (logger and logreplay), for any formats, texts, delimiters and numbers of lines, while logger goes on writing the file.  The first
  part is about one line, with no state in it.  `StaticColumn` and `DynamicColumn` say how far `get_next_field` comes when a column stands
  at a place in a sequence of marks and a comma or the end behind it: in a quoted text the two counts of quotes run in parity with the
  text (`Parity`), so neither a comma nor a quote of the text ends it.  `RowAt` says where the columns of a record stand in the line made of them,
  and `SplitsAs` puts the two together: a line whose texts have no backslash before a quote is split into the columns it was made of
  (`PlainColumns`, behind the time if there is one).  The second part is the invariant `LogInv`.  `Written`: below its header the file has the line
  of each record.  `Reads`: the header is the format of the first record, and what was sent is of lines read before and not from the future.  `Stamped`: the
  time kept is that of the line before, on which `PaceKept` rests, until a signal ends a delay.  The last line may be lost to a second signal (`Lost`).  Assumed:
  the marks of numbers are distinct and neither quote nor comma, and a format has fields (`LinesTyped`).
- `TrainingUnambiguousCorrect` (device_classifier), over any number of launches.  `TrainInv`: the ids of the list rise and are distinct, the models of
  a training are the list and what it adds, and the database has ids only of the list or of the training under way.  Assumed: the same of the
  first list (`ModelListTyped`).

TLC evaluates each of these assumptions for the instance of the run.

`CryptoPAn_proofs` proves, for any cipher function, any pad, and addresses and bytes of any number of bits:

- `RestoresCorrect`: `Spec => []Restores`, and `PrefixPreservingCorrect`: `Spec => []PrefixPreserving`.  Neither is
  inductive: both speak of the results of finished calls.  `IInv` says what the loops have done so far.  `PadSoFar`: the bits of the pad
  are those of the cipher over the first bits of the address.  `OrigSoFar`: the bits recovered anonymize to the bits given,
  the others are still 0, and they agree with every address that anonymizes to what was given.  The last part makes
  the inverse unique: by it a miss at a position inverts the one bit that differs.  `Histories` carries that over to the finished
  pairs.  The step of `deanonymize_v6` uses that the bits before in the byte agree already, so that its wider comparison
  finds the same misses.
- `TypeCorrect` and `Invariant` are the type invariant and `Spec => []IInv`.

They rest on `KeyedCipherAssumption` (lengths are naturals, ciphers are functions from blocks to bits).  A block is
as long as an address in the model; the code fills the rest of it with the pad, which is fixed with the key.

Only model-checked:

- liveness (`StopLeadsToEnd`, `InputsEndLeadsToExit`, `RolloutEnds`, `GoesThrough`, `StopLeadsToExit`, `SetupFailureEnds`): the prover
  has no rules for fairness and ENABLED;
- `ReportAccurate` and `TablesNeverOvercount` of TopN: sums over rows that lose entries, a binary search in arrays that are sorted by
  wrapped numbers, and sampled tables together; their inductive invariant would be as long as the module, and no proof was begun;
- `ReportsExact`: each statistic of a tree as a sum or a count over the flows since the last output;
- what `UrFilter` computes, against `Meaning`: its operators are RECURSIVE, which the prover does not take.  `FilterLibrary` states the result
  as an assumption, and TLC evaluates it for the texts, fields and records of the runs;
- what the runs with a violation show.

The library's induction theorems take an operator as a parameter, which the provers cannot instantiate.  What is proved here about sums, sequences and
recursive functions goes by a least counterexample (`WFMin` and `NatLessThanWellFounded`), with sets in the place of operators.

Apart from the assumptions named above, the theorems rest on those of the modules on their constants (naturals, types of the inputs; in
`ScalarAggregator` also that the rules come output by output and every output has a first one), which TLC evaluates in the runs, and nothing else.

## 6. What the code does otherwise than expected

Four disagreements are findings, each with the run that shows it: `natpair_threads`, `unirecfilter_reload`, `mux_payload` and `link_headers` (section 4).

The others were met while modelling, are part of the models, and are kept out of the properties by a stated condition:

- *aggregator*: a send of a closed window that fails leaves the loop with `storage_mutex` locked (`aggregator.cpp:676`), so a stop may not
  end the process (`Leaked` in `StopLeadsToEnd`); the averages of what it could not send are computed again by the last flush (340).
  The passive clock is a timeout ahead when the thread starts after the first record; when a format comes during a round of the
  thread, with a record that ended after the round began (414), it is ahead by the time between.  Groups then leave early by as much
  (`late` in `PassiveNeverEarlyOnTime`).
- *scalar-aggregator*: the windows of a flow are chosen by whole seconds (`timedb.c:347`) and shared out by exact times: a start at
  a fraction of a second gives a negative share to the window before (`WholeSecondsKept` is about whole seconds).
- *bloom_history*: a post has no time limit (`bloom_history_functions.c:46-47`): a service that hangs keeps the process from ending.
- *merger*: the result of the receive is not looked at (`merger.c:91`): after a receive that failed, for a change of format it cannot follow as for a termination,
  the record before is sent once more (149-151), or what was on the stack, if there was none; the
  first messages share a record that is not cleared between them; with `-I` the message of the end is taken for a record.
- *unirecfilter*: a text of white space leaves the tree of the text parsed before in use (`functions.c:1269`); a default that does not parse ends
  `create_templates` with success, and outputs behind it have no filter (a null pointer is matched, `unirecfilter.c:692`); a field that is known
  but missing is read from somewhere else; an output field the record lacks keeps an older record's value, though the comment says "set null" (701);
  a dynamic field is cut to `DYN_FIELD_MAX_SIZE` bytes without a word (717); a SIGTERM handler is there, but never registered (428-431 register SIGUSR1 alone).
  `README.md:121-122` allows arrays of int8 to int64 and of float, but int8, int16 and int32 are looked up without their signs, so negative values are missed
  (`functions.c:1005-1013`), differences of int64 are cut to an `int` (260-263), so that they may be missed or taken for one another, and floats are read as doubles (1027, 1091);
  an array of a field that is not known asks for the type of no field (305).  `and` and `or` bind alike, from the left, which no documentation says.
- *topn*: flows are ranked by 32-bit numbers; a network that was pushed out comes back under an unmasked address (`topn.c:1279`); a report is
  printed only when a record comes after the alarm; nothing of the tables is printed when no flow was sampled.
- *link_traffic*: the comparison subtracts in an `int` (171), so that values further apart are not found; the README has no limit on the number of headers (`link_traffic/README.md:22`),
  but the buffer is of 4096 bytes (`link_traffic.c:324`), and behind its end the room left is a negative number taken for a large one (336, 350).
  *proto_traffic* does not wake main when its socket cannot be set up.
- *logger/logreplay*: a backslash before a quote breaks the line; a format that changes gets no new header; the time is followed by a comma
  whatever the delimiter; the first SIGTERM only sets a flag, the second one ends the receive; `sleep()` ends early at a signal (`logreplay.cpp:373`), and the record
  is sent at once (379), or lost to a second signal.
- *ipv6stats*: tunnel types with the bits 6 or 7 index past the counters (`ipv6stats.cpp:500`); a long window that is no multiple of the short one
  overcounts; the record that brings a format is dropped.
- *forwarders*: of a text only the first IPv4 address (else the first IPv6 one) is anonymized; endiverter ignores the result of a send;
  the repeater drops a record it has when SIGTERM comes and `-n` was given; prefix_tags ends at a record with strings that brings a format
  (`prefix_tags_functions.c:38`), but takes a later one, whose strings it writes behind its buffer (45, `prefix_tags.c:96`).
- *device_classifier*: devices need more than N peers, its help says "equal or greater" (`device_classifier.c:71`) and its README `>= N` (21); the property leaves open which it is;
  timestamps are milliseconds in 32 bits (75-76) and wrap around every 49 days, and the period is measured by `abs()` of a difference that was made an `int` (1084), so biflows are exact
  only where no timestamp wrapped; a flow from IPv4 to IPv6 enters its destination under one word of it (1057 looks at the source alone); overlapping flows of two peers count as new connections
  (an unsigned difference); with `-m` the flows of the last period are not reported; labels of a rule lie in memory that is not cleared; a
  crash between the output and the update of the list of models leaves ids in the database that the next run may give away again.

## 7. Not modelled

- libtrap and UniRec: their calls return what the code distinguishes; the format negotiation, the
  buffers and the template contents are left out.
- The arithmetic of the single aggregation functions (`agg_functions.h`), their overflow, and keys as bytes.
- The text interfaces: options, configuration files (of aggregator, prefix_tags, bloom_history), logging, the lexer of the filter language.
- Rijndael, MurmurHash3 and the support vector machine: any function, or any decision, in their place.
- Allocation failures, but for the ones of the aggregator.
- Some hazards have no property, because the code promises nothing about them: the cache of natpair outgrows its size as long as keys are new
  (`natpair.cpp:665`); a Bloom filter whose post fails is freed (`bloom_history_functions.c:167`); what is inserted while the loop before was still
  posting lies before the begin of its interval (131).
- A receiving thread of natpair that cannot be created (`natpair.cpp:611-618`): the clean-up then joins a thread that never was.
- The soft restart of a time database is in the model, but what holds afterwards is not stated: slot 0 gets the
  first window wherever the ring begins (`timedb.c:182`), so the ring is out of order until it has wrapped around, and
  the trees of distinct values keep what they had.
- The modules listed as `not_modelled` in `PROJECT.json`, each with its reason.
