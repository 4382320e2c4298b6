--------------------------- MODULE DeviceClassifier ---------------------------
(***************************************************************************)
(* src/device_classifier: statistics of every address seen in the flows,   *)
(* collected in a tree, are turned into features and labelled by models    *)
(* (or, in training, written to a database together with the labels the    *)
(* rules give) once per period, on SIGUSR1 and at the end.  A time unit is *)
(* a minute, which is also PAUSE_THRESHOLD; the code counts milliseconds   *)
(* in 32 bits, which wrap around every 49 days.  An address is <<word>> in *)
(* IPv4 and <<rest, word>> in IPv6.                                        *)
(***************************************************************************)
EXTENDS Integers, SequencesExt, FiniteSetsExt

CONSTANTS
  DeviceFlows,    \* flows: [src, dst, sport, dport, tcp, packets, first, last]
  DeviceOptions,  \* command lines: [rules, train, accumulate, peers, minutes]
  FirstModels,    \* the list of models before the first start
  Untrained,      \* ids of models without a file
  AddressBits,    \* width of an address, 32 in the code
  TimeWrap,       \* the time after which a timestamp begins again, 2^32 in the code
  UsageThreshold, \* percent of an address's flows that makes a port a feature
  MaxDeviceFlows, \* bound: flows of the first start, one less in each later one
  MaxLaunches     \* bound: starts of the module

Model == [id : Nat, name : STRING]
RuleType == [ip : Nat, subnet : Int, labels : Seq(STRING), readable : BOOLEAN]

\* The first list of models has each id once.
ModelsTyped ==
  /\ FirstModels \in Seq(Model)
  /\ \A i, j \in DOMAIN FirstModels : i # j => FirstModels[i].id # FirstModels[j].id
  /\ \A o \in DeviceOptions : o.rules \in Seq(RuleType)
  /\ TimeWrap \in Nat \ {0}

VARIABLES launches, opt, listed, models, phase, tree, start, flow_cnt, append,
          generate_output, received, reports, json, train_db

dvars == <<launches, opt, listed, models, phase, tree, start, flow_cnt, append,
           generate_output, received, reports, json, train_db>>

PORT_CNT == 49152
PAUSE_THRESHOLD == 1

\* TIMESTAMP: the seconds are multiplied in 32 bits.
Timestamp(time) == time % TimeWrap

\* A difference of timestamps, as the int that abs() takes; of the lowest int abs() is
\* undefined, and the result compares in either way.
AsInt(d) == LET half == TimeWrap \div 2 IN ((d + half) % TimeWrap) - half
Far(d, limit) ==
  IF AsInt(d) = AsInt(TimeWrap \div 2) THEN BOOLEAN
  ELSE {AsInt(d) > limit \/ -AsInt(d) > limit}

\* ip_get_v4_as_int: the word it takes is there in an IPv6 address, too.
IsV4(address) == Len(address) = 1
V4Word(address) == Last(address)

\* A rule is [ip, subnet, labels, readable]; it covers the addresses that agree
\* with it in the first subnet bits (at least one), or its own alone (subnet = -1).
Covers(rule, a) ==
  LET drop == 2 ^ (AddressBits - rule.subnet)
  IN  IF rule.subnet = -1 THEN a = rule.ip ELSE a \div drop = rule.ip \div drop

GetRule(rules, a) == SelectInSeq(rules, LAMBDA r : Covers(r, a))

Selected(a) == opt.rules = <<>> \/ GetRule(opt.rules, a) # 0

-----------------------------------------------------------------------------
(* Rules and models *)

\* Mutant: the new id counts the models and ignores the gaps of the list.
AddLabelCounted(list, label) ==
  IF \E m \in Range(list) : m.name = label THEN list
  ELSE Append(list, [id |-> Len(list) + 1, name |-> label])

AddLabel(list, label) ==
  IF \E m \in Range(list) : m.name = label THEN list
  ELSE Append(list, [id   |-> IF list = <<>> THEN 1 ELSE Last(list).id + 1,
                     name |-> label])

LoadRulesFails(o) ==
  \E r \in Range(o.rules) : ~ r.readable \/ (o.train /\ r.labels = <<>>)

AddLabels(list, labels) ==
  LET after[i \in 0 .. Len(labels)] ==
        IF i = 0 THEN list ELSE AddLabel(after[i - 1], labels[i])
  IN after[Len(labels)]

LoadRules(o, list) ==
  LET after[i \in 0 .. Len(o.rules)] ==
        IF i = 0 THEN list ELSE AddLabels(after[i - 1], o.rules[i].labels)
  IN IF o.train THEN after[Len(o.rules)] ELSE list

\* qsort, by rising id.
InitModelList(list) ==
  CHOOSE s \in Bijection(DOMAIN list, Range(list)) :
    \A i, j \in DOMAIN list : i < j => s[i].id <= s[j].id

-----------------------------------------------------------------------------
(* The tree *)

NoFlows == [flows |-> 0, packets |-> 0, packets_2 |-> 0, msec |-> 0, msec_2 |-> 0]

NewNode == [inits |-> 0, biflows |-> 0, src |-> NoFlows, dst |-> NoFlows,
            tcp |-> 0, ports |-> <<>>, peers |-> <<>>]

Sum(s, f) ==
  [flows |-> s.flows + 1, packets |-> s.packets + f.packets,
   packets_2 |-> s.packets_2 + f.packets * f.packets,
   msec |-> s.msec + (f.last - f.first),
   msec_2 |-> s.msec_2 + (f.last - f.first) * (f.last - f.first)]

\* The difference is unsigned: a flow that starts before the end of the one
\* before it is a new biflow as well.
NewBiflow(time_last, f) ==
  f.first < time_last \/ f.first - time_last > PAUSE_THRESHOLD

AddPort(ports, port) ==
  (port :> (IF port \in DOMAIN ports THEN ports[port] + 1 ELSE 1)) @@ ports

\* A new peer has time_last 0.
AddFlow(t, f, side, host, peer, port) ==
  LET node  == IF host \in DOMAIN t THEN t[host] ELSE NewNode
      begun == NewBiflow(IF peer \in DOMAIN node.peers THEN node.peers[peer] ELSE 0, f)
  IN  (host :> [node EXCEPT
         !.inits   = IF begun /\ side = "src" THEN @ + 1 ELSE @,
         !.biflows = IF begun THEN @ + 1 ELSE @,
         !.peers   = (peer :> f.last) @@ @,
         !.tcp     = IF f.tcp THEN @ + 1 ELSE @,
         ![side]   = Sum(@, f),
         !.ports   = AddPort(@, port)]) @@ t

ComputeFeatures(node) ==
  [inits |-> node.inits, biflows |-> node.biflows,
   src |-> node.src, dst |-> node.dst, tcp |-> node.tcp,
   ports |-> {p \in DOMAIN node.ports :
                100 * node.ports[p] > UsageThreshold * (node.src.flows + node.dst.flows)}]

\* libsvm: some decision over the features; a model tells initiators or others.
SvmPredict(id, features) ==
  (2 * features.inits >= features.biflows) = (id % 2 = 0)

Predict(features) ==
  {m \in Range(models) : m.id \notin Untrained /\ SvmPredict(m.id, features)}

-----------------------------------------------------------------------------
(* Outputs *)

\* process_tree: the addresses with more peers than the threshold (the help says as
\* many or more).
Devices == {a \in DOMAIN tree : Cardinality(DOMAIN tree[a].peers) > opt.peers}

\* The labels of a rule lie in memory from malloc() that nobody clears: besides
\* those of its line any of the known ones may be set.
TrainedLabels(a, garbage) ==
  {m \in Range(models) :
     \/ m.name \in Range(opt.rules[GetRule(opt.rules, a)].labels)
     \/ m \in garbage}

ProcessTree(garbage) ==
  [devices |-> [a \in Devices |-> ComputeFeatures(tree[a])],
   labels  |-> [a \in Devices |-> IF opt.train THEN TrainedLabels(a, garbage)
                                  ELSE Predict(ComputeFeatures(tree[a]))],
   upto    |-> Len(received)]

\* Mutant: what was collected stays in the tree.
ClearedNever(t) == t

Cleared(t) == IF opt.accumulate THEN t ELSE <<>>

Output ==
  \E garbage \in IF opt.train THEN SUBSET Range(models) ELSE {{}} :
    LET r == ProcessTree(garbage)
    IN  /\ reports' = Append(reports, r)
        /\ train_db' = IF opt.train
                       THEN train_db \cup UNION {r.labels[a] : a \in Devices}
                       ELSE train_db
        /\ json' = IF opt.train THEN json
                   ELSE json \o (IF append THEN <<",[">> ELSE <<"[", "[">>) \o <<"]">>

Launch(o) ==
  /\ phase = "off" /\ launches < MaxLaunches
  /\ launches' = launches + 1 /\ opt' = o
  /\ models' = LoadRules(o, InitModelList(listed))
  /\ phase' = IF LoadRulesFails(o) THEN "off" ELSE "loop"
  /\ tree' = <<>> /\ start' = 0 /\ flow_cnt' = 0 /\ append' = FALSE
  /\ generate_output' = FALSE /\ received' = <<>> /\ reports' = <<>> /\ json' = <<>>
  /\ UNCHANGED <<listed, train_db>>

\* A flow of an IPv4 address; the destination is not asked for its version.
Receive(f) ==
  LET port(p) == IF p < PORT_CNT THEN p ELSE PORT_CNT
      flow  == [f EXCEPT !.first = Timestamp(@), !.last = Timestamp(@)]
      src   == V4Word(f.src)
      dst   == V4Word(f.dst)
      t1 == IF Selected(src)
            THEN AddFlow(tree, flow, "src", src, dst, port(f.sport)) ELSE tree
      t2 == IF Selected(dst)
            THEN AddFlow(t1, flow, "dst", dst, src, port(f.dport)) ELSE t1
      since == IF start = 0 THEN flow.first ELSE start
  IN  /\ phase = "loop" /\ Len(received) + launches <= MaxDeviceFlows
      /\ IsV4(f.src)
      /\ flow_cnt' = flow_cnt + 1 /\ received' = Append(received, f)
      /\ tree' = t2
      /\ \E far \in Far(flow.first - since, opt.minutes) :
           LET due == (opt.minutes > 0 /\ far) \/ generate_output
           IN  /\ start' = IF due THEN flow.first ELSE since
               /\ phase' = IF due THEN "report" ELSE phase
      /\ UNCHANGED <<launches, opt, listed, models, append, generate_output,
                     reports, json, train_db>>

\* An IPv6 source: the flow only counts.
ReceiveV6 ==
  /\ phase = "loop" /\ flow_cnt = 0 /\ flow_cnt' = 1
  /\ UNCHANGED <<launches, opt, listed, models, phase, tree, start, append,
                 generate_output, received, reports, json, train_db>>

Report ==
  /\ phase = "report" /\ phase' = "loop"
  /\ Output
  /\ tree' = Cleared(tree) /\ append' = TRUE /\ generate_output' = FALSE
  /\ UNCHANGED <<launches, opt, listed, models, start, flow_cnt, received>>

\* SIGUSR1; one that comes during an output is cleared with it.
Signal ==
  /\ phase \in {"loop", "report"} /\ ~ generate_output
  /\ generate_output' = TRUE
  /\ UNCHANGED <<launches, opt, listed, models, phase, tree, start, flow_cnt, append,
                 received, reports, json, train_db>>

\* The end of data or a signal to stop ends the loop; what is left is put out
\* only without a period, and the labels met in training join the list.
Finish ==
  /\ phase = "loop" /\ phase' = "off"
  /\ IF opt.minutes = 0 /\ flow_cnt > 0 THEN Output
     ELSE UNCHANGED <<reports, json, train_db>>
  /\ listed' = IF opt.train /\ flow_cnt > 0 THEN models ELSE listed
  /\ tree' = <<>>
  /\ UNCHANGED <<launches, opt, models, start, flow_cnt, append, generate_output,
                 received>>

Init ==
  /\ launches = 0 /\ opt = (CHOOSE o \in DeviceOptions : TRUE) /\ listed = FirstModels /\ models = <<>>
  /\ phase = "off" /\ tree = <<>> /\ start = 0 /\ flow_cnt = 0 /\ append = FALSE
  /\ generate_output = FALSE /\ received = <<>> /\ reports = <<>> /\ json = <<>>
  /\ train_db = {}

Next ==
  \/ \E o \in DeviceOptions : Launch(o)
  \/ \E f \in DeviceFlows : Receive(f)
  \/ ReceiveV6
  \/ Report
  \/ Signal
  \/ Finish

Spec == Init /\ [][Next]_dvars

-----------------------------------------------------------------------------
(* What a report says, from the flows themselves *)

\* The flows behind a report: those since the one before, or all with -a.
Basis(k) ==
  IF opt.accumulate \/ k = 1 THEN 1..reports[k].upto
  ELSE (reports[k - 1].upto + 1)..reports[k].upto

\* The ends of those flows that lie on address a, in the order of their time.
EndsOf(a, k) ==
  {e \in Basis(k) \X {"src", "dst"} : V4Word(received[e[1]][e[2]]) = a /\ Selected(a)}

PeerOf(e) == V4Word(received[e[1]][IF e[2] = "src" THEN "dst" ELSE "src"])

\* No timestamp of those flows wrapped around since another, or just before.
Unwrapped(k) ==
  \A i, j \in Basis(k) :
    /\ received[i].first \div TimeWrap = received[j].last \div TimeWrap
    /\ received[i].first % TimeWrap > PAUSE_THRESHOLD

Before(d, e) == d[1] < e[1] \/ (d[1] = e[1] /\ d[2] = "src" /\ e[2] = "dst")

\* An end opens a biflow unless the last flow with that peer ended no more than
\* the pause before it.
Opens(e, ends) ==
  \A d \in ends :
    (/\ PeerOf(d) = PeerOf(e) /\ Before(d, e)
     /\ ~ \E c \in ends : PeerOf(c) = PeerOf(e) /\ Before(d, c) /\ Before(c, e))
    => NewBiflow(received[d[1]].last, received[e[1]])

PeersOf(a, k) == {PeerOf(e) : e \in EndsOf(a, k)}

AsSeen(feature, a, k) ==
  LET ends == EndsOf(a, k)
      of(s) == {e \in ends : e[2] = s}
      opens == {e \in ends : Opens(e, ends)}
  IN  /\ Unwrapped(k) => /\ feature.biflows = Cardinality(opens)
                         /\ feature.inits = Cardinality({e \in opens : e[2] = "src"})
      /\ feature.tcp = Cardinality({e \in ends : received[e[1]].tcp})
      /\ \A s \in {"src", "dst"} :
           /\ feature[s].flows = Cardinality(of(s))
           /\ feature[s].packets = MapThenSumSet(LAMBDA e : received[e[1]].packets, of(s))

\* Every output names the addresses with enough peers in the flows since the last
\* one (all flows with -a) and no others, with the statistics of just those flows;
\* the first opens the JSON array and only the first.  Without -m nothing stays
\* unreported at the end.  Whether as many peers as -p says are enough is left
\* open, the help and the code differ; an IPv6 destination stands under the IPv4
\* address that its word is; and biflows are told apart as long as no timestamp
\* wraps around.
\* About add_flow(), process_tree(), clear_tree() and the loop of main().
ReportsExact ==
  /\ \A k \in DOMAIN reports :
       LET r == reports[k]
       IN  /\ \A i \in DOMAIN received :
                \A a \in {V4Word(received[i].src), V4Word(received[i].dst)} :
                  LET peers == Cardinality(PeersOf(a, k))
                  IN  /\ peers > opt.peers => a \in DOMAIN r.devices
                      /\ a \in DOMAIN r.devices => peers >= opt.peers
           /\ \A a \in DOMAIN r.devices : AsSeen(r.devices[a], a, k)
  /\ phase = "off" /\ received # <<>> /\ opt.minutes = 0
       => reports # <<>> /\ Last(reports).upto = Len(received)
  /\ \A i \in DOMAIN json : json[i] = "[" <=> i \in {1, 2}

\* An id of the training database stands for one label, over all runs of the
\* training, and when no run is under way the list of models explains it.
\* About add_label(), export_trained_data() and update_models_list().
TrainingUnambiguous ==
  /\ \A m, n \in train_db \cup Range(models) \cup Range(listed) :
       m.id = n.id => m.name = n.name
  /\ phase = "off" => train_db \subseteq Range(listed)
=============================================================================
