----------------------------- MODULE SmallTools -----------------------------
(***************************************************************************)
(* The small tools of the repository side by side: one of them is active   *)
(* in a behaviour, chosen at the start, and the variables of the others    *)
(* stay idle.  Each is an instance of its own module; variables two        *)
(* modules name alike are renamed here.                                    *)
(***************************************************************************)
EXTENDS Integers, Sequences, FiniteSets

CONSTANTS
  MergerIfcs, MergerFormats, UserTemplates, NoTemplate, MaxMessages,   \* merger
  Tools, LinkFiles, LinkValues, Protocols, ProtoValues, Width,         \* link_traffic
  BufferLinks, MaxRecords, MaxReplies,                                 \* and proto_traffic
  LogFormats, Digits, Texts, Delimiters, MaxText, MaxLines, MaxClock,  \* logger, logreplay
  V4Sources, V6Sources, TunnelTypes, Sizes, MaxSeconds, MaxFlows,      \* ipv6stats
  FwdFormats, Addresses, TagPrefixes, FwdMessages,                     \* the forwarders
  DeviceFlows, DeviceOptions, FirstModels, Untrained, AddressBits,     \* device_classifier
  TimeWrap, UsageThreshold, MaxDeviceFlows, MaxLaunches

VARIABLES
  active,   \* the tool of this behaviour
  user, ignoreineof, mpc, ready, msg, inFields, outFields, outRec, sent, taken, over,
  tool, lfile, pc, server, stop, woken, slot, dir, stats, values, asked, records, replies,
  title, time, delimiter, cut, timing, writer, reader, format, titled, file, logged,
  clock, header, line, stamp, signals, output,
  size, noLast, loop, initFlag, inactive, wait, ends, flows, uni, filters, results, window,
  came,
  module, noEof, checkSrc, checkDst, at, rec, tmplt, outTmplt, buffer, anonFields, quit,
  cntR, cntS, cntT, forwarded, refused,
  launches, opt, listed, models, phase, tree, start, flow_cnt, append, generate_output,
  received, reports, json, train_db

merger == <<user, ignoreineof, mpc, ready, msg, inFields, outFields, outRec, sent, taken, over>>
traffic == <<tool, lfile, pc, server, stop, woken, slot, dir, stats, values, asked, records, replies>>
log == <<title, time, delimiter, cut, timing, writer, reader, format, titled, file, logged,
         clock, header, line, stamp, signals, output>>
ipv6 == <<size, noLast, loop, initFlag, inactive, wait, ends, flows, uni, filters, results,
          window, came>>
forward == <<module, noEof, checkSrc, checkDst, at, rec, tmplt, outTmplt, buffer, anonFields,
             quit, cntR, cntS, cntT, forwarded, refused>>
device == <<launches, opt, listed, models, phase, tree, start, flow_cnt, append,
            generate_output, received, reports, json, train_db>>
vars == <<active, merger, traffic, log, ipv6, forward, device>>

-----------------------------------------------------------------------------
(* The instances                                                           *)

M == INSTANCE Merger WITH pc <- mpc
T == INSTANCE TrafficStats WITH file <- lfile
L == INSTANCE LogReplay
I == INSTANCE Ipv6Stats
F == INSTANCE Forwarders WITH output <- forwarded
D == INSTANCE DeviceClassifier

\* What the proofs about the small tools assume.
ASSUME InputsNumbered == M!Numbered
ASSUME WindowsChecked == I!SizesChecked
ASSUME FieldsTyped == F!FormatsTyped
ASSUME LinksTyped == T!ConfigurationsTyped
ASSUME LinesTyped == L!MarksTyped
ASSUME ModelListTyped == D!ModelsTyped

-----------------------------------------------------------------------------
(* One of them is active                                                   *)

MergerIdle ==
  /\ user = "idle" /\ ignoreineof = "idle" /\ mpc = "idle" /\ ready = "idle"
  /\ msg = "idle" /\ inFields = "idle" /\ outFields = "idle" /\ outRec = "idle"
  /\ sent = "idle" /\ taken = "idle" /\ over = "idle"

TrafficIdle ==
  /\ tool = "idle" /\ lfile = "idle" /\ pc = "idle" /\ server = "idle"
  /\ stop = "idle" /\ woken = "idle" /\ slot = "idle" /\ dir = "idle"
  /\ stats = "idle" /\ values = "idle" /\ asked = "idle" /\ records = "idle"
  /\ replies = "idle"

LogIdle ==
  /\ title = "idle" /\ time = "idle" /\ delimiter = "idle" /\ cut = "idle"
  /\ timing = "idle" /\ writer = "idle" /\ reader = "idle" /\ format = "idle"
  /\ titled = "idle" /\ file = "idle" /\ logged = "idle" /\ clock = "idle"
  /\ header = "idle" /\ line = "idle" /\ stamp = "idle" /\ signals = "idle"
  /\ output = "idle"

Ipv6Idle ==
  /\ size = "idle" /\ noLast = "idle" /\ loop = "idle" /\ initFlag = "idle"
  /\ inactive = "idle" /\ wait = "idle" /\ ends = "idle" /\ flows = "idle"
  /\ uni = "idle" /\ filters = "idle" /\ results = "idle" /\ window = "idle"
  /\ came = "idle"

ForwardIdle ==
  /\ module = "idle" /\ noEof = "idle" /\ checkSrc = "idle" /\ checkDst = "idle"
  /\ at = "idle" /\ rec = "idle" /\ tmplt = "idle" /\ outTmplt = "idle"
  /\ buffer = "idle" /\ anonFields = "idle" /\ quit = "idle" /\ cntR = "idle"
  /\ cntS = "idle" /\ cntT = "idle" /\ forwarded = "idle" /\ refused = "idle"

DeviceIdle ==
  /\ launches = "idle" /\ opt = "idle" /\ listed = "idle" /\ models = "idle"
  /\ phase = "idle" /\ tree = "idle" /\ start = "idle" /\ flow_cnt = "idle"
  /\ append = "idle" /\ generate_output = "idle" /\ received = "idle"
  /\ reports = "idle" /\ json = "idle" /\ train_db = "idle"

Init ==
  \/ active = "merger" /\ M!Init
     /\ TrafficIdle /\ LogIdle /\ Ipv6Idle /\ ForwardIdle /\ DeviceIdle
  \/ active = "traffic" /\ T!Init
     /\ MergerIdle /\ LogIdle /\ Ipv6Idle /\ ForwardIdle /\ DeviceIdle
  \/ active = "log" /\ L!Init
     /\ MergerIdle /\ TrafficIdle /\ Ipv6Idle /\ ForwardIdle /\ DeviceIdle
  \/ active = "ipv6" /\ I!Init
     /\ MergerIdle /\ TrafficIdle /\ LogIdle /\ ForwardIdle /\ DeviceIdle
  \/ active = "forward" /\ F!Init
     /\ MergerIdle /\ TrafficIdle /\ LogIdle /\ Ipv6Idle /\ DeviceIdle
  \/ active = "device" /\ D!Init
     /\ MergerIdle /\ TrafficIdle /\ LogIdle /\ Ipv6Idle /\ ForwardIdle

Next ==
  \/ active = "merger" /\ M!Next
     /\ UNCHANGED <<active, traffic, log, ipv6, forward, device>>
  \/ active = "traffic" /\ T!Next
     /\ UNCHANGED <<active, merger, log, ipv6, forward, device>>
  \/ active = "log" /\ L!Next
     /\ UNCHANGED <<active, merger, traffic, ipv6, forward, device>>
  \/ active = "ipv6" /\ I!Next
     /\ UNCHANGED <<active, merger, traffic, log, forward, device>>
  \/ active = "forward" /\ F!Next
     /\ UNCHANGED <<active, merger, traffic, log, ipv6, device>>
  \/ active = "device" /\ D!Next
     /\ UNCHANGED <<active, merger, traffic, log, ipv6, forward>>

Spec == Init /\ [][Next]_vars /\ T!Fairness

-----------------------------------------------------------------------------
(* What each promises, while it is the active one                          *)

\* merger: records go out with the values of the message they are of and none is left
\* behind, whatever the other threads do to the shared template; none is sent twice unless
\* a receive of its input failed.
SentAsReceived == active = "merger" => M!SentAsReceived

\* link_traffic and proto_traffic: the values of a reply are the counts of the links, in
\* the order of the configuration, or of the protocols, at some moment since the client
\* came.
RepliesTruthful == active = "traffic" => T!RepliesTruthful

\* link_traffic: when its socket cannot be set up, main ends without another record.
SetupFailureEnds == T!SetupFailureEnds

\* logger and logreplay: what was logged comes back, line by line, as it was, and until a
\* signal comes no faster than it was logged.
ReplayedAsLogged == active = "log" => L!ReplayedAsLogged /\ L!PaceKept

\* ipv6stats: the distinct addresses and prefixes counted are those of the window.
UniquesExact == active = "ipv6" => I!UniquesExact

\* traffic_repeater, endiverter, anonymizer and prefix_tags: records go on in order, with
\* their values, in the format announced for them, and none but the refused ones is missing.
SentOnAsReceived == active = "forward" => F!SentOnAsReceived

\* device_classifier: a report has the addresses and the statistics of the flows since
\* the one before it, and each flow is in one.
ReportsExact == active = "device" => D!ReportsExact

\* device_classifier: an id of the training database stands for one label, over all runs.
TrainingUnambiguous == active = "device" => D!TrainingUnambiguous
=============================================================================
