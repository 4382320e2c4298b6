------------------------------ MODULE NatPair ------------------------------
(***************************************************************************)
(* The NAT pairing module (natpair/): one thread per input interface (LAN  *)
(* and WAN) turns records into partial flows and queues them; the main     *)
(* thread pairs them through a cache and sends the complete ones out.  The *)
(* threads share the queue q under q_mut, the semaphore q_empty and the    *)
(* number th_alive of receiving threads.                                   *)
(*                                                                         *)
(* Sections under q_mut are one action each.  l_mut only keeps calls of    *)
(* the UniRec library apart and is not modelled.  A port stands for itself *)
(* and the protocol; times are in milliseconds.                            *)
(*                                                                         *)
(* Flows are numbered in the order in which they are queued, which is that *)
(* of every vector of the cache too: flows join one at its end.  So a      *)
(* vector is the set of its numbers, and comes in their order.             *)
(***************************************************************************)
EXTENDS Integers, Sequences, FiniteSets

CONSTANTS
  Private,    \* the addresses is_ip_priv accepts
  Public,     \* the others but the router's
  Router,     \* g_router_ip
  Ports,      \* ports, each with a protocol
  Inputs,     \* the records that may arrive: [scope, src, dst, first, last]
  CheckTime,  \* g_check_time
  FreeTime,   \* g_free_time
  CacheSize,  \* g_cache_size
  MaxFlows    \* bound on the flows taken in

Scopes == {"LAN", "WAN"}
Addresses == Private \cup Public \cup {Router}
Endpoints == [ip : Addresses, port : Ports]

ASSUME NatPairAssumption ==
  /\ Private \cap Public = {} /\ Router \notin Private \cup Public
  /\ Inputs \subseteq [scope : Scopes, src : Endpoints, dst : Endpoints,
                       first : Nat, last : Nat]
  /\ CheckTime \in Nat \ {0} /\ FreeTime \in Nat \ {0} /\ CacheSize \in Nat \ {0}
  /\ MaxFlows \in Nat

VARIABLES
  stop,
  ppc,     \* [Scopes -> where the receiving thread is]
  flow,    \* [Scopes -> the flow it has just prepared, or NoFlow]
  mpc,     \* where the main thread is
  flows,   \* history: the flows queued, numbered
  q,       \* the shared queue, of numbers
  sem,     \* the value of q_empty
  alive,   \* th_alive
  cache,   \* flowcache: [keys -> vector, a set], empty for an absent key
  tNow, tLast,
  sent,    \* history: the complete flows sent, or whose send failed
  evicted  \* history: the numbers cleaned out of the cache

vars == <<stop, ppc, flow, mpc, flows, q, sem, alive, cache, tNow, tLast, sent,
          evicted>>

threads == <<stop, ppc, flow, flows, alive>>
pairing == <<cache, tNow, tLast, sent, evicted>>

Keys == [wan : Endpoints, direction : {"LANtoWAN", "WANtoLAN"}]

Diff(a, b) == IF a < b THEN b - a ELSE a - b   \* ur_timediff
-----------------------------------------------------------------------------
\* Partial flows.

NoFlow == [scope |-> "none"]

\* setDirection
DirectionOf(src, dst) ==
  IF (src \in Private /\ dst \notin Private) \/ src = Router THEN "LANtoWAN"
  ELSE IF (src \notin Private /\ dst \in Private) \/ dst = Router THEN "WANtoLAN"
  ELSE "NONE"

\* prepare and adjustDirection.  The near side is the client's in a flow seen
\* in LAN; of one seen in WAN only its port is kept, as the router's.
Prepare(r) ==
  LET d == DirectionOf(r.src.ip, r.dst.ip) IN
  [scope |-> r.scope, direction |-> d,
   wan  |-> IF d = "WANtoLAN" THEN r.src ELSE r.dst,
   near |-> IF d = "WANtoLAN" THEN r.dst ELSE r.src,
   first |-> r.first, last |-> r.last]

\* hashKey
KeyOf(f) == [wan |-> f.wan, direction |-> f.direction]

\* Mutant: the order of the time stamps is not looked at.
TimesMatchUnordered(lan, wan) ==
  /\ Diff(lan.first, wan.first) < 2
  /\ Diff(lan.last, wan.last) < 3

\* The time stamps of the two sides of one flow, in operator==.
TimesMatch(lan, wan) ==
  /\ \/ /\ lan.direction = "LANtoWAN"
        /\ lan.first <= wan.first /\ lan.last <= wan.last
     \/ /\ lan.direction = "WANtoLAN"
        /\ lan.first >= wan.first /\ lan.last >= wan.last
  /\ Diff(lan.first, wan.first) < 2
  /\ Diff(lan.last, wan.last) < 3

\* operator==
Matches(f, g) ==
  /\ f.scope # g.scope
  /\ KeyOf(f) = KeyOf(g)
  /\ IF f.scope = "LAN" THEN TimesMatch(f, g) ELSE TimesMatch(g, f)

\* complete and sendToOutput: flow number i completed with the stored one, j.
\* The router's address is the one given at the start, whatever the flow had.
Complete(i, j) ==
  LET l == IF flows[i].scope = "LAN" THEN i ELSE j
      w == IF flows[i].scope = "LAN" THEN j ELSE i
      out == flows[i].direction = "LANtoWAN"
  IN [ids |-> {i, j}, wan |-> flows[i].wan,
      lan |-> flows[l].near,
      rtr |-> [ip |-> Router, port |-> flows[w].near.port],
      first |-> IF out THEN flows[l].first ELSE flows[w].first,
      last  |-> IF out THEN flows[w].last ELSE flows[l].last]
-----------------------------------------------------------------------------
Init ==
  /\ stop = FALSE
  /\ ppc = [s \in Scopes |-> "start"]
  /\ flow = [s \in Scopes |-> NoFlow]
  /\ mpc = "start"
  /\ flows = <<>>
  /\ q = <<>>
  /\ sem = 0
  /\ alive = 2
  /\ cache = [k \in Keys |-> {}]
  /\ tNow = 0 /\ tLast = 0
  /\ sent = {}
  /\ evicted = {}

\* The signal handler sets stop and ends every receive (trap_terminate).
Signal ==
  /\ ~stop
  /\ mpc # "exited"
  /\ stop' = TRUE
  /\ UNCHANGED <<ppc, flow, mpc, flows, q, sem, alive, pairing>>
-----------------------------------------------------------------------------
\* process_incoming_data, the thread of input interface s.

GoTo(s, pc) == ppc' = [ppc EXCEPT ![s] = pc]

CreateTemplate(s) ==
  /\ ppc[s] = "start"
  /\ GoTo(s, "loop")
  /\ UNCHANGED <<stop, flow, mpc, flows, q, sem, alive, pairing>>

\* The thread wakes up main and returns, still counted in th_alive.
CreateTemplateFails(s) ==
  /\ ppc[s] = "start"
  /\ sem' = sem + 1
  /\ GoTo(s, "failed")
  /\ UNCHANGED <<stop, flow, mpc, flows, q, alive, pairing>>

\* A record of a flow through the NAT; others are skipped.
Receive(s) ==
  /\ ppc[s] = "loop"
  /\ ~stop
  /\ Len(flows) + Cardinality({t \in Scopes : flow[t] # NoFlow}) < MaxFlows
  /\ \E r \in Inputs :
       /\ r.scope = s
       /\ DirectionOf(r.src.ip, r.dst.ip) # "NONE"
       /\ flow' = [flow EXCEPT ![s] = Prepare(r)]
  /\ GoTo(s, "push")
  /\ UNCHANGED <<stop, mpc, flows, q, sem, alive, pairing>>

\* Mutant: main is woken up only when the queue was empty.
PushQuietly(s) ==
  /\ ppc[s] = "push"
  /\ flows' = Append(flows, flow[s])
  /\ q' = Append(q, Len(flows) + 1)
  /\ flow' = [flow EXCEPT ![s] = NoFlow]
  /\ GoTo(s, IF q = <<>> THEN "post" ELSE "loop")
  /\ UNCHANGED <<stop, mpc, sem, alive, pairing>>

Push(s) ==
  /\ ppc[s] = "push"
  /\ flows' = Append(flows, flow[s])
  /\ q' = Append(q, Len(flows) + 1)
  /\ flow' = [flow EXCEPT ![s] = NoFlow]
  /\ GoTo(s, "post")
  /\ UNCHANGED <<stop, mpc, sem, alive, pairing>>

Post(s) ==
  /\ ppc[s] = "post"
  /\ sem' = sem + 1
  /\ GoTo(s, "loop")
  /\ UNCHANGED <<stop, flow, mpc, flows, q, alive, pairing>>

\* A new input format cannot be loaded: the thread returns as it is.
FormatFails(s) ==
  /\ ppc[s] = "loop"
  /\ ~stop
  /\ GoTo(s, "failed")
  /\ UNCHANGED <<stop, flow, mpc, flows, q, sem, alive, pairing>>

\* stop is set, and the receive, if any, is terminated.
LoopStops(s) ==
  /\ ppc[s] = "loop"
  /\ stop
  /\ GoTo(s, "leave")
  /\ UNCHANGED <<stop, flow, mpc, flows, q, sem, alive, pairing>>

\* The end of the input, a record of a wrong size or an error of the receive.
InputEnds(s) ==
  /\ ppc[s] = "loop"
  /\ GoTo(s, "leave")
  /\ UNCHANGED <<stop, flow, mpc, flows, q, sem, alive, pairing>>

\* Mutant: no leaving thread wakes up main.
LeaveQuietly(s) ==
  /\ ppc[s] = "leave"
  /\ alive' = alive - 1
  /\ GoTo(s, IF alive = 0 THEN "last" ELSE "done")
  /\ UNCHANGED <<stop, flow, mpc, flows, q, sem, pairing>>

\* --th_alive; the last thread is to wake main up.
Leave(s) ==
  /\ ppc[s] = "leave"
  /\ alive' = alive - 1
  /\ GoTo(s, IF alive = 1 THEN "last" ELSE "done")
  /\ UNCHANGED <<stop, flow, mpc, flows, q, sem, pairing>>

LastPost(s) ==
  /\ ppc[s] = "last"
  /\ sem' = sem + 1
  /\ GoTo(s, "done")
  /\ UNCHANGED <<stop, flow, mpc, flows, q, alive, pairing>>

Ended(s) == ppc[s] \in {"done", "failed"}
-----------------------------------------------------------------------------
\* The main thread.

CreateOutput ==
  /\ mpc = "start"
  /\ mpc' = "wait"
  /\ UNCHANGED <<threads, q, sem, pairing>>

CreateOutputFails ==
  /\ mpc = "start"
  /\ mpc' = "giveup"
  /\ UNCHANGED <<threads, q, sem, pairing>>

SemWait ==
  /\ mpc = "wait"
  /\ sem > 0
  /\ sem' = sem - 1
  /\ mpc' = "take"
  /\ UNCHANGED <<threads, q, pairing>>

\* Woken up with nothing queued: the loop is over.
NothingQueued ==
  /\ mpc = "take"
  /\ q = <<>>
  /\ mpc' = "join"
  /\ UNCHANGED <<threads, q, sem, pairing>>

Stored(k) == cache[k] # {}

\* The cleaning of cache c at time t: the vectors keep what is young enough.
Young(i, t) == flows[i].last >= t \/ Diff(flows[i].last, t) < FreeTime
Cleaned(c, t) == [k \in Keys |-> {i \in c[k] : Young(i, t)}]
MustClean(c, t) ==
  \/ Cardinality({k \in Keys : c[k] # {}}) > CacheSize
  \/ t >= tLast /\ Diff(t, tLast) >= CheckTime

Numbers(c) == UNION {c[k] : k \in Keys}

\* c is what the pairing left of the cache, t the time of the last match.
MaybeClean(c, t) ==
  /\ tNow' = t
  /\ IF MustClean(c, t)
     THEN /\ cache' = Cleaned(c, t)
          /\ evicted' = evicted \cup (Numbers(c) \ Numbers(Cleaned(c, t)))
          /\ tLast' = t
     ELSE /\ cache' = c
          /\ UNCHANGED <<evicted, tLast>>

Take ==
  /\ mpc = "take"
  /\ q # <<>>
  /\ q' = Tail(q)
  /\ mpc' = "wait"
  /\ UNCHANGED <<threads, sem>>

\* The first flow of its key is stored, and nothing else is done.
TakeNewKey ==
  /\ Take
  /\ LET k == KeyOf(flows[Head(q)]) IN
       /\ ~Stored(k)
       /\ cache' = [cache EXCEPT ![k] = {Head(q)}]
  /\ UNCHANGED <<tNow, tLast, sent, evicted>>

\* Mutant: only the flow stored last is compared.
CandidatesLast ==
  LET k == KeyOf(flows[Head(q)]) IN
  {j \in cache[k] : (\A l \in cache[k] : l <= j) /\ Matches(flows[j], flows[Head(q)])}

\* The stored flows that the flow at the head of the queue matches.
Candidates ==
  LET k == KeyOf(flows[Head(q)]) IN
  {j \in cache[k] : Matches(flows[j], flows[Head(q)])}

\* Mutant: the stored flow is not erased.
TakeMatchedKept ==
  /\ Take
  /\ LET i == Head(q)
         k == KeyOf(flows[i])
     IN \E j \in Candidates :
          /\ \A l \in Candidates : j <= l
          /\ sent' = sent \cup {Complete(i, j)}
          /\ MaybeClean(cache, flows[i].last)

\* The first stored flow that matches leaves with it, be the send a success
\* or not.
TakeMatched ==
  /\ Take
  /\ LET i == Head(q)
         k == KeyOf(flows[i])
     IN \E j \in Candidates :
          /\ \A l \in Candidates : j <= l
          /\ sent' = sent \cup {Complete(i, j)}
          /\ MaybeClean([cache EXCEPT ![k] = @ \ {j}], flows[i].last)

TakeUnmatched ==
  /\ Take
  /\ LET i == Head(q)
         k == KeyOf(flows[i])
     IN /\ Stored(k)
        /\ Candidates = {}
        /\ MaybeClean([cache EXCEPT ![k] = @ \cup {i}], tNow)
  /\ UNCHANGED sent

JoinAndExit ==
  /\ mpc \in {"join", "giveup"}
  /\ \A s \in Scopes : Ended(s)
  /\ mpc' = "exited"
  /\ UNCHANGED <<threads, q, sem, pairing>>
-----------------------------------------------------------------------------
Thread(s) ==
  \/ Push(s) \/ Post(s) \/ LoopStops(s) \/ Leave(s) \/ LastPost(s)

Input(s) ==
  \/ CreateTemplate(s) \/ CreateTemplateFails(s)
  \/ Receive(s) \/ FormatFails(s) \/ InputEnds(s)

Main ==
  \/ SemWait \/ NothingQueued \/ TakeNewKey \/ TakeMatched \/ TakeUnmatched
  \/ JoinAndExit

Next ==
  \/ \E s \in Scopes : Thread(s) \/ Input(s)
  \/ CreateOutput \/ CreateOutputFails
  \/ Main
  \/ Signal

\* Every thread keeps running; the inputs owe nothing.
Fairness ==
  /\ \A s \in Scopes :
       WF_vars(Thread(s)) /\ WF_vars(CreateTemplate(s) \/ CreateTemplateFails(s))
  /\ WF_vars(CreateOutput \/ CreateOutputFails)
  /\ WF_vars(Main)

Spec == Init /\ [][Next]_vars /\ Fairness
-----------------------------------------------------------------------------
\* Properties.

FlowType == [scope : Scopes, direction : {"LANtoWAN", "WANtoLAN"},
             wan : Endpoints, near : Endpoints, first : Nat, last : Nat]

\* Every variable has its type.
TypeOK ==
  /\ stop \in BOOLEAN
  /\ ppc \in [Scopes -> {"start", "loop", "push", "post", "leave", "last",
                         "done", "failed"}]
  /\ mpc \in {"start", "wait", "take", "join", "giveup", "exited"}
  /\ flows \in Seq(FlowType)
  /\ flow \in [Scopes -> FlowType \cup {NoFlow}]
  /\ q \in Seq(1 .. Len(flows))
  /\ sem \in Nat /\ alive \in 0 .. 2
  /\ cache \in [Keys -> SUBSET (1 .. Len(flows))]
  /\ tNow \in Nat /\ tLast \in Nat
  /\ evicted \subseteq 1 .. Len(flows)

\* How often flow number i is there.
Places(i) ==
  Cardinality({n \in DOMAIN q : q[n] = i})
  + Cardinality({k \in Keys : i \in cache[k]})
  + Cardinality({e \in evicted : e = i})
  + Cardinality({o \in sent : i \in o.ids})

\* A flow is in one place only: queued, cached under its own key, cleaned out,
\* or in one complete flow; and it is cleaned out only after a flow that ended
\* FreeTime later, or more, has been paired.
FlowsAccounted ==
  /\ TypeOK
  /\ \A i \in evicted : \E o \in sent : \E j \in o.ids :
       flows[j].last >= flows[i].last + FreeTime
  /\ \A i \in 1 .. Len(flows) : Places(i) = 1
  /\ \A k \in Keys : \A i \in cache[k] : KeyOf(flows[i]) = k

\* A complete flow has one side from LAN and one from WAN, which meet the same
\* host in the same direction.  It takes the client's address and port from the
\* former and the router's port from the latter, with the router's address, and
\* lasts as long as both together.
PairsSound ==
  \A o \in sent : \E l, w \in o.ids :
    /\ flows[l].scope = "LAN" /\ flows[w].scope = "WAN"
    /\ KeyOf(flows[l]) = KeyOf(flows[w])
    /\ o.lan = flows[l].near /\ o.wan = flows[l].wan
    /\ o.rtr = [ip |-> Router, port |-> flows[w].near.port]
    /\ \A i \in {l, w} : o.first <= flows[i].first /\ flows[i].last <= o.last

\* Two flows that could be paired never wait in the cache together.
NoPairWaits ==
  \A k \in Keys : \A i, j \in cache[k] : ~Matches(flows[i], flows[j])

\* The semaphore never falls behind the queue: a queued flow always has a
\* wake-up that main has still to use or a thread has still to give.  And while
\* no receiving thread has failed, main leaves its loop only when both are past
\* theirs and everything they queued has been looked at.
NoFlowStranded ==
  /\ mpc \in {"start", "wait", "take"} =>
       sem + (IF mpc = "take" THEN 1 ELSE 0)
           + Cardinality({s \in Scopes : ppc[s] = "post"}) >= Len(q)
  /\ mpc = "join" /\ (\A s \in Scopes : ppc[s] # "failed") => alive = 0 /\ q = <<>>

\* Without a failed thread, the end of both inputs ends the process.
InputsEndLeadsToExit ==
  (\A s \in Scopes : ppc[s] = "done") ~> (mpc = "exited")

\* "The last thread increases the semaphore, resulting in shutting down the
\* main thread."
ThreadsEndLeadsToExit ==
  (\A s \in Scopes : Ended(s)) ~> (mpc = "exited")
=============================================================================
