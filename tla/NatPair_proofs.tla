--------------------------- MODULE NatPair_proofs ---------------------------
(***************************************************************************)
(* Proofs about the NAT pairing module, for every network, every stream of *)
(* records, every cache size and every time.                               *)
(***************************************************************************)
EXTENDS NatPair, SequenceTheorems, FiniteSetTheorems, TLAPS

Ids == 1 .. Len(flows)

PPCs == {"start", "loop", "push", "post", "leave", "last", "done", "failed"}

\* A thread that has counted itself out.
Gone(s) == IF ppc[s] \in {"last", "done"} THEN 1 ELSE 0

\* th_alive counts the threads that have not; the one that brings it to zero is the
\* last, and a thread about to queue a flow has one.
TypeInv ==
  /\ TypeOK
  /\ alive = 2 - Gone("LAN") - Gone("WAN")
  /\ \A s, t \in Scopes : ppc[s] = "last" => alive = 0 /\ (t = s \/ ppc[t] = "done")
  /\ \A s \in Scopes : ppc[s] = "push" => flow[s] \in FlowType

Queued(i) == \E n \in DOMAIN q : q[n] = i
Cached(i) == \E k \in Keys : i \in cache[k]
Paired(i) == \E o \in sent : i \in o.ids

\* Each flow is in one place, and there once.
Placed ==
  /\ \A m, n \in DOMAIN q : q[m] = q[n] => m = n
  /\ \A k \in Keys : \A i \in cache[k] : KeyOf(flows[i]) = k
  /\ \A o, p \in sent : (\E i \in o.ids : i \in p.ids) => o = p
  /\ \A o \in sent : o.ids \subseteq Ids
  /\ \A i \in Ids :
       /\ Queued(i) => ~Cached(i) /\ i \notin evicted /\ ~Paired(i)
       /\ Cached(i) => i \notin evicted /\ ~Paired(i)
       /\ i \in evicted => ~Paired(i)
       /\ Queued(i) \/ Cached(i) \/ i \in evicted \/ Paired(i)

\* The clock of the cleaning is the end of a flow that was paired.
Aged ==
  /\ tNow = 0 \/ \E o \in sent : \E j \in o.ids : flows[j].last = tNow
  /\ \A i \in evicted : \E o \in sent : \E j \in o.ids :
       flows[j].last >= flows[i].last + FreeTime

Posting(s) == IF ppc[s] = "post" THEN 1 ELSE 0

NoneFailed == \A s \in Scopes : ppc[s] # "failed"
AllDone == \A s \in Scopes : ppc[s] = "done"

\* The wake-ups main has still to use or a thread has still to give.
Looping == mpc \in {"start", "wait", "take"}
Taking == IF mpc = "take" THEN 1 ELSE 0
Posts == Posting("LAN") + Posting("WAN")
Ups == sem + Taking + Posts

\* They are those of the queued flows, and, once the last thread has given its own or one
\* has failed, some more.
Balanced ==
  Looping => /\ Ups >= Len(q)
             /\ NoneFailed /\ ~AllDone => Ups = Len(q)

LoopLeft == mpc = "join" /\ NoneFailed => AllDone /\ q = <<>>

NatPairInv ==
  TypeInv /\ Placed /\ Aged /\ PairsSound /\ NoPairWaits /\ Balanced /\ LoopLeft
-----------------------------------------------------------------------------
(***************************************************************************)
(* Types.                                                                  *)
(***************************************************************************)

\* A record of a flow through the NAT becomes a partial flow.
LEMMA PrepareType ==
  ASSUME NEW r \in Inputs, DirectionOf(r.src.ip, r.dst.ip) # "NONE"
  PROVE  Prepare(r) \in FlowType
<1>1. r \in [scope : Scopes, src : Endpoints, dst : Endpoints, first : Nat, last : Nat]
  BY NatPairAssumption
<1>2. DirectionOf(r.src.ip, r.dst.ip) \in {"LANtoWAN", "WANtoLAN"}
  BY DEF DirectionOf
<1> QED BY <1>1, <1>2 DEF Prepare, FlowType

\* The flows queued so far keep their numbers.
LEMMA PushedFlows ==
  ASSUME TypeInv, NEW s \in Scopes, Push(s)
  PROVE  /\ flows' \in Seq(FlowType) /\ Len(flows) \in Nat
         /\ Len(flows') = Len(flows) + 1 /\ Ids' = Ids \cup {Len(flows) + 1}
         /\ Len(flows) + 1 \notin Ids
         /\ \A i \in Ids : flows'[i] = flows[i]
         /\ q' \in Seq(Ids') /\ Len(q) \in Nat /\ Len(q') = Len(q) + 1
         /\ \A n \in DOMAIN q : n \in DOMAIN q' /\ q'[n] = q[n] /\ q[n] \in Ids
         /\ DOMAIN q' = DOMAIN q \cup {Len(q) + 1} /\ q'[Len(q) + 1] = Len(flows) + 1
<1>1. /\ flows \in Seq(FlowType) /\ flow[s] \in FlowType
      /\ flows' = Append(flows, flow[s]) /\ q' = Append(q, Len(flows) + 1)
      /\ q \in Seq(Ids)
  BY DEF Push, TypeInv, TypeOK, Ids
<1>2. /\ flows' \in Seq(FlowType) /\ Len(flows) \in Nat /\ Len(flows') = Len(flows) + 1
      /\ \A i \in Ids : flows'[i] = flows[i]
  BY <1>1, AppendProperties, LenProperties DEF Ids
<1>3. Ids' = Ids \cup {Len(flows) + 1} /\ Len(flows) + 1 \notin Ids
  BY <1>2 DEF Ids
<1>4. q \in Seq(Ids') /\ Len(flows) + 1 \in Ids'
  BY <1>1, <1>3, SeqMonotonic
<1>5. /\ q' \in Seq(Ids') /\ Len(q') = Len(q) + 1 /\ Len(q) \in Nat
      /\ \A n \in 1 .. Len(q) : q'[n] = q[n]
      /\ q'[Len(q) + 1] = Len(flows) + 1
  BY <1>1, <1>4, AppendProperties, LenProperties
<1>6. DOMAIN q = 1 .. Len(q) /\ DOMAIN q' = 1 .. Len(q) + 1
  BY <1>1, <1>5, LenProperties
<1>7. \A n \in DOMAIN q : q[n] \in Ids
  BY <1>1, <1>6, ElementOfSeq
<1>8. DOMAIN q' = DOMAIN q \cup {Len(q) + 1}
  BY <1>5, <1>6
<1> QED BY <1>2, <1>3, <1>5, <1>6, <1>7, <1>8

\* The queue loses its head.
LEMMA TakenQueue ==
  ASSUME TypeInv, Take
  PROVE  /\ q' \in Seq(Ids) /\ Head(q) \in Ids /\ Head(q) = q[1]
         /\ Len(q) \in Nat /\ Len(q') = Len(q) - 1 /\ 1 \in DOMAIN q
         /\ DOMAIN q' = 1 .. Len(q) - 1 /\ DOMAIN q = 1 .. Len(q)
         /\ \A n \in DOMAIN q' : n + 1 \in DOMAIN q /\ q'[n] = q[n + 1]
         /\ \A n \in DOMAIN q : n = 1 \/ (n - 1 \in DOMAIN q' /\ q'[n - 1] = q[n])
<1>1. q \in Seq(Ids) /\ q # <<>> /\ q' = Tail(q)
  BY DEF Take, TypeInv, TypeOK, Ids
<1>2. /\ q' \in Seq(Ids) /\ Head(q) \in Ids /\ Len(q) \in Nat /\ Len(q') = Len(q) - 1
      /\ \A n \in 1 .. Len(q') : q'[n] = q[n + 1]
      /\ DOMAIN q = 1 .. Len(q) /\ DOMAIN q' = 1 .. Len(q')
  BY <1>1, HeadTailProperties, LenProperties
<1>3. Head(q) = q[1]
  BY <1>1
<1>4. \A n \in DOMAIN q : n = 1 \/ n - 1 \in DOMAIN q'
  BY <1>2
<1> QED BY <1>2, <1>3, <1>4

LEMMA FlowsTyped ==
  ASSUME TypeInv
  PROVE  \A i \in Ids : flows[i] \in FlowType /\ KeyOf(flows[i]) \in Keys
<1>1. flows \in Seq(FlowType)
  BY DEF TypeInv, TypeOK
<1>2. \A i \in Ids : flows[i] \in FlowType
  BY <1>1, ElementOfSeq DEF Ids
<1> QED BY <1>2 DEF FlowType, KeyOf, Keys

\* What a cleaning leaves, and what it takes out.
LEMMA CleanedCache ==
  ASSUME TypeInv, NEW c \in [Keys -> SUBSET Ids], NEW t \in Nat, MaybeClean(c, t)
  PROVE  /\ cache' \in [Keys -> SUBSET Ids]
         /\ \A k \in Keys : cache'[k] \subseteq c[k]
         /\ \A i \in Ids : i \in evicted' <=>
              i \in evicted \/ ((\E k \in Keys : i \in c[k]) /\ ~(\E k \in Keys : i \in cache'[k]))
         /\ evicted' \subseteq Ids
         /\ \A i \in evicted' \ evicted : flows[i].last + FreeTime <= t
         /\ tNow' = t /\ tLast' \in Nat
<1>0. /\ evicted \subseteq Ids /\ tLast \in Nat
      /\ \A i \in Ids : flows[i].last \in Nat
  BY FlowsTyped DEF TypeInv, TypeOK, FlowType, Ids
<1>1. CASE ~MustClean(c, t)
  BY <1>0, <1>1 DEF MaybeClean
<1>2. CASE MustClean(c, t)
  <2>1. /\ cache' = [k \in Keys |-> {i \in c[k] : Young(i, t)}]
        /\ evicted' = evicted \cup (Numbers(c) \ Numbers(cache')) /\ tLast' = t /\ tNow' = t
    BY <1>2 DEF MaybeClean, Cleaned
  <2>2. \A k \in Keys : cache'[k] = {i \in c[k] : Young(i, t)}
    BY <2>1
  <2>3. \A i : /\ i \in Numbers(c) <=> \E k \in Keys : i \in c[k]
               /\ i \in Numbers(cache') <=> \E k \in Keys : i \in cache'[k]
    BY DEF Numbers
  <2>4. \A i \in evicted' \ evicted : i \in Ids /\ ~Young(i, t)
    BY <2>1, <2>2, <2>3
  <2>5. \A i \in Ids : ~Young(i, t) => flows[i].last + FreeTime <= t
    BY <1>0, NatPairAssumption DEF Young, Diff
  <2>6. cache' \in [Keys -> SUBSET Ids] /\ \A k \in Keys : cache'[k] \subseteq c[k]
    BY <2>1
  <2>7. \A i \in Ids : i \in evicted' <=>
          i \in evicted \/ ((\E k \in Keys : i \in c[k]) /\ ~(\E k \in Keys : i \in cache'[k]))
    BY <2>1, <2>3
  <2>8. evicted' \subseteq Ids
    BY <1>0, <2>4
  <2> QED BY <2>1, <2>4, <2>5, <2>6, <2>7, <2>8
<1> QED BY <1>1, <1>2

LEMMA InitType == Init => TypeInv
<1> SUFFICES ASSUME Init PROVE TypeInv
  OBVIOUS
<1>1. flows \in Seq(FlowType) /\ q \in Seq(1 .. Len(flows))
  BY DEF Init
<1>2. flow \in [Scopes -> FlowType \cup {NoFlow}]
  BY DEF Init
<1>3. cache \in [Keys -> SUBSET (1 .. Len(flows))]
  BY DEF Init
<1>4. alive = 2 - Gone("LAN") - Gone("WAN")
  BY DEF Init, Gone, Scopes
<1>5. ppc \in [Scopes -> PPCs]
  BY DEF Init, PPCs
<1>6. stop \in BOOLEAN
  BY DEF Init
<1>7. evicted \subseteq 1 .. Len(flows) /\ sem \in Nat /\ alive \in 0 .. 2 /\ tNow \in Nat /\ tLast \in Nat
  BY DEF Init
<1>8. mpc \in {"start", "wait", "take", "join", "giveup", "exited"}
  BY DEF Init
<1>9. TypeOK
  BY <1>1, <1>2, <1>3, <1>5, <1>6, <1>7, <1>8 DEF TypeOK, PPCs
<1>10. \A s \in Scopes : ppc[s] = "start"
  BY DEF Init
<1> QED BY <1>4, <1>9, <1>10 DEF TypeInv

\* The steps of a receiving thread that leave the data as they are.
LEMMA ThreadMoves ==
  ASSUME TypeInv, NEW s \in Scopes, NEW l \in PPCs \ {"last", "done", "push"},
         ppc[s] \notin {"last", "done"}, GoTo(s, l),
         UNCHANGED <<flow, mpc, flows, q, alive, pairing>>, stop' \in BOOLEAN, sem' \in Nat
  PROVE  TypeInv'
<1>1. ppc' \in [Scopes -> PPCs] /\ \A t \in Scopes : ppc'[t] = IF t = s THEN l ELSE ppc[t]
  BY DEF TypeInv, TypeOK, GoTo, PPCs
<1>2. UNCHANGED <<Gone("LAN"), Gone("WAN")>>
  BY <1>1 DEF Gone, Scopes, PPCs
<1>3. \A t, u \in Scopes : ppc'[t] = "last" => alive' = 0 /\ (u = t \/ ppc'[u] = "done")
  BY <1>1 DEF TypeInv, Scopes
<1>4. \A t \in Scopes : ppc'[t] = "push" => flow'[t] \in FlowType
  BY <1>1 DEF TypeInv
<1>5. TypeOK'
  BY <1>1 DEF TypeInv, TypeOK, pairing, PPCs
<1> QED BY <1>2, <1>3, <1>4, <1>5 DEF TypeInv

LEMMA ThreadType ==
  ASSUME TypeInv, NEW s \in Scopes, Thread(s) \/ Input(s)
  PROVE  TypeInv'
<1>0. /\ TypeOK /\ stop \in BOOLEAN /\ sem \in Nat /\ sem + 1 \in Nat
      /\ ppc \in [Scopes -> PPCs] /\ flow \in [Scopes -> FlowType \cup {NoFlow}]
  BY DEF TypeInv, TypeOK, PPCs
<1>1. CASE CreateTemplate(s) \/ CreateTemplateFails(s) \/ Post(s) \/ FormatFails(s)
             \/ LoopStops(s) \/ InputEnds(s)
  <2>1. /\ ppc[s] \notin {"last", "done"}
        /\ \E l \in PPCs \ {"last", "done", "push"} : GoTo(s, l)
        /\ UNCHANGED <<flow, mpc, flows, q, alive, pairing>> /\ stop' = stop /\ sem' \in {sem, sem + 1}
    BY <1>1 DEF CreateTemplate, CreateTemplateFails, Post, FormatFails, LoopStops,
                InputEnds, PPCs
  <2> QED BY <1>0, <2>1, ThreadMoves
<1>2. CASE Receive(s)
  <2>1. PICK f \in FlowType : flow' = [flow EXCEPT ![s] = f]
    BY <1>2, PrepareType DEF Receive
  <2>2. ppc[s] = "loop" /\ \A t \in Scopes : ppc'[t] = IF t = s THEN "push" ELSE ppc[t]
    BY <1>0, <1>2 DEF Receive, GoTo
  <2>3. \A t \in Scopes : flow'[t] = IF t = s THEN f ELSE flow[t]
    BY <1>0, <2>1
  <2>4. UNCHANGED <<Gone("LAN"), Gone("WAN")>>
    BY <2>2 DEF Gone, Scopes
  <2>5. ppc' \in [Scopes -> PPCs] /\ flow' \in [Scopes -> FlowType \cup {NoFlow}]
    BY <1>0, <1>2, <2>1 DEF Receive, GoTo, PPCs
  <2>6. TypeOK'
    BY <1>0, <1>2, <2>5 DEF Receive, TypeOK, PPCs, pairing
  <2>7. UNCHANGED alive
    BY <1>2 DEF Receive
  <2> QED BY <2>2, <2>3, <2>4, <2>6, <2>7 DEF TypeInv, Scopes
<1>3. CASE Push(s)
  <2>1. /\ flows' \in Seq(FlowType) /\ q' \in Seq(Ids') /\ Ids \subseteq Ids'
    BY <1>3, PushedFlows
  <2>2. cache' \in [Keys -> SUBSET Ids'] /\ evicted' \subseteq Ids'
    BY <1>0, <1>3, <2>1 DEF Push, pairing, TypeOK, Ids
  <2>3. ppc[s] = "push" /\ \A t \in Scopes : ppc'[t] = IF t = s THEN "post" ELSE ppc[t]
    BY <1>0, <1>3 DEF Push, GoTo
  <2>4. ppc' \in [Scopes -> PPCs] /\ flow' \in [Scopes -> FlowType \cup {NoFlow}]
    BY <1>0, <1>3 DEF Push, GoTo, PPCs
  <2>5. \A t \in Scopes : t # s => flow'[t] = flow[t]
    BY <1>0, <1>3 DEF Push
  <2>6. UNCHANGED <<Gone("LAN"), Gone("WAN")>>
    BY <2>3 DEF Gone, Scopes
  <2>7. TypeOK'
    BY <1>0, <1>3, <2>1, <2>2, <2>4 DEF Push, pairing, TypeOK, Ids, PPCs
  <2>8. UNCHANGED alive
    BY <1>3 DEF Push
  <2> QED BY <2>3, <2>5, <2>6, <2>7, <2>8 DEF TypeInv, Scopes
<1>4. CASE Leave(s)
  <2>1. /\ ppc[s] = "leave" /\ alive' = alive - 1
        /\ \A t \in Scopes : ppc'[t] = IF t # s THEN ppc[t] ELSE IF alive = 1 THEN "last" ELSE "done"
        /\ ppc' \in [Scopes -> PPCs]
    BY <1>0, <1>4 DEF Leave, GoTo, PPCs
  <2>2. /\ Gone("LAN") \in {0, 1} /\ Gone("WAN") \in {0, 1} /\ Gone(s) = 0 /\ Gone(s)' = 1
        /\ \A t \in Scopes : t # s => Gone(t)' = Gone(t)
    BY <2>1 DEF Gone
  <2>3. alive' = 2 - Gone("LAN")' - Gone("WAN")' /\ alive' \in 0 .. 2
    BY <2>1, <2>2 DEF TypeInv, Scopes
  <2>4. ppc'[s] = "last" => \A u \in Scopes : u = s \/ ppc'[u] = "done"
    <3> SUFFICES ASSUME alive = 1, NEW u \in Scopes, u # s PROVE ppc[u] = "done"
      BY <2>1
    <3>1. Gone(u) = 1
      BY <2>2 DEF TypeInv, Scopes
    <3>2. ppc[u] # "last"
      BY DEF TypeInv
    <3> QED BY <3>1, <3>2 DEF Gone
  <2>5. \A t \in Scopes : ppc'[t] = "last" => t = s /\ alive' = 0
    BY <2>1, <2>3 DEF TypeInv
  <2>6. TypeOK'
    BY <1>0, <1>4, <2>1, <2>3 DEF Leave, TypeOK, PPCs, pairing
  <2>7. UNCHANGED flow
    BY <1>4 DEF Leave
  <2> QED BY <2>1, <2>3, <2>4, <2>5, <2>6, <2>7 DEF TypeInv
<1>5. CASE LastPost(s)
  <2>1. /\ ppc[s] = "last"
        /\ \A t \in Scopes : ppc'[t] = IF t = s THEN "done" ELSE ppc[t]
        /\ ppc' \in [Scopes -> PPCs]
    BY <1>0, <1>5 DEF LastPost, GoTo, PPCs
  <2>2. UNCHANGED <<Gone("LAN"), Gone("WAN")>>
    BY <2>1 DEF Gone, Scopes
  <2>3. TypeOK'
    BY <1>0, <1>5, <2>1 DEF LastPost, TypeOK, PPCs, pairing
  <2>4. UNCHANGED <<flow, alive>>
    BY <1>5 DEF LastPost
  <2> QED BY <2>1, <2>2, <2>3, <2>4 DEF TypeInv
<1> QED BY <1>1, <1>2, <1>3, <1>4, <1>5 DEF Thread, Input

\* What main and the signals leave of the threads keeps its type.
LEMMA PairingType ==
  ASSUME TypeInv, UNCHANGED <<ppc, flow, flows, alive>>, stop' \in BOOLEAN,
         mpc' \in {"start", "wait", "take", "join", "giveup", "exited"},
         q' \in Seq(Ids), sem' \in Nat, cache' \in [Keys -> SUBSET Ids],
         tNow' \in Nat, tLast' \in Nat, evicted' \subseteq Ids
  PROVE  TypeInv'
<1>1. TypeOK'
  BY DEF TypeInv, TypeOK, Ids
<1> QED BY <1>1 DEF TypeInv, Gone

LEMMA HeadFlow ==
  ASSUME TypeInv, Take
  PROVE  /\ Head(q) \in Ids /\ KeyOf(flows[Head(q)]) \in Keys
         /\ flows[Head(q)] \in FlowType /\ flows[Head(q)].last \in Nat
         /\ UNCHANGED <<stop, ppc, flow, flows, alive, sem>> /\ mpc' = "wait"
  BY TakenQueue, FlowsTyped DEF Take, threads, FlowType

LEMMA StepType == TypeInv /\ [Next]_vars => TypeInv'
<1> SUFFICES ASSUME TypeInv, [Next]_vars PROVE TypeInv'
  OBVIOUS
<1> USE DEF threads, pairing
<1>0. /\ stop \in BOOLEAN /\ q \in Seq(Ids) /\ sem \in Nat /\ cache \in [Keys -> SUBSET Ids]
      /\ tNow \in Nat /\ tLast \in Nat /\ evicted \subseteq Ids
      /\ mpc \in {"start", "wait", "take", "join", "giveup", "exited"}
  BY DEF TypeInv, TypeOK, Ids
<1>1. CASE TakeNewKey
  <2>1. cache' \in [Keys -> SUBSET Ids]
    BY <1>0, <1>1, HeadFlow DEF TakeNewKey
  <2> QED BY <1>0, <1>1, <2>1, HeadFlow, TakenQueue, PairingType DEF TakeNewKey
<1>2. CASE TakeMatched
  <2>1. PICK j \in Candidates :
          MaybeClean([cache EXCEPT ![KeyOf(flows[Head(q)])] = @ \ {j}], flows[Head(q)].last)
    BY <1>2 DEF TakeMatched
  <2>2. [cache EXCEPT ![KeyOf(flows[Head(q)])] = @ \ {j}] \in [Keys -> SUBSET Ids]
    BY <1>0
  <2>3. Take /\ flows[Head(q)].last \in Nat
    BY <1>2, HeadFlow DEF TakeMatched
  <2>4. /\ cache' \in [Keys -> SUBSET Ids] /\ evicted' \subseteq Ids
        /\ tNow' \in Nat /\ tLast' \in Nat
    BY <2>1, <2>2, <2>3, CleanedCache
  <2> QED BY <1>0, <2>3, <2>4, HeadFlow, TakenQueue, PairingType
<1>3. CASE TakeUnmatched
  <2>1. /\ MaybeClean([cache EXCEPT ![KeyOf(flows[Head(q)])] = @ \cup {Head(q)}], tNow)
        /\ Take
    BY <1>3 DEF TakeUnmatched
  <2>2. [cache EXCEPT ![KeyOf(flows[Head(q)])] = @ \cup {Head(q)}] \in [Keys -> SUBSET Ids]
    BY <1>0, <2>1, HeadFlow
  <2>3. /\ cache' \in [Keys -> SUBSET Ids] /\ evicted' \subseteq Ids
        /\ tNow' \in Nat /\ tLast' \in Nat
    BY <1>0, <2>1, <2>2, CleanedCache
  <2> QED BY <1>0, <2>1, <2>3, HeadFlow, TakenQueue, PairingType
<1>4. CASE SemWait
  BY <1>0, <1>4, PairingType DEF SemWait
<1>5. CASE NothingQueued \/ JoinAndExit \/ CreateOutput \/ CreateOutputFails \/ Signal
             \/ UNCHANGED vars
  BY <1>0, <1>5, PairingType
     DEF NothingQueued, JoinAndExit, CreateOutput, CreateOutputFails, Signal, vars
<1> QED BY <1>1, <1>2, <1>3, <1>4, <1>5, ThreadType DEF Next, Main
-----------------------------------------------------------------------------
(***************************************************************************)
(* Where the flows are.                                                    *)
(***************************************************************************)

\* The taken flow leaves the queue, the others stay.
LEMMA TakenPlaces ==
  ASSUME TypeInv, Placed, Take
  PROVE  /\ flows' = flows /\ Ids' = Ids
         /\ \A m, n \in DOMAIN q' : q'[m] = q'[n] => m = n
         /\ Head(q) \in Ids /\ Queued(Head(q))
         /\ \A i \in Ids : Queued(i)' <=> Queued(i) /\ i # Head(q)
<1>1. flows' = flows /\ Ids' = Ids
  BY DEF Take, threads, Ids
<1>2. \A m, n \in DOMAIN q : q[m] = q[n] => m = n
  BY DEF Placed
<1>3. /\ Head(q) \in Ids /\ Head(q) = q[1] /\ 1 \in DOMAIN q
      /\ DOMAIN q' = 1 .. Len(q) - 1 /\ DOMAIN q = 1 .. Len(q) /\ Len(q) \in Nat
      /\ \A n \in DOMAIN q' : n + 1 \in DOMAIN q /\ q'[n] = q[n + 1]
      /\ \A n \in DOMAIN q : n = 1 \/ (n - 1 \in DOMAIN q' /\ q'[n - 1] = q[n])
  BY TakenQueue
<1>4. ASSUME NEW m \in DOMAIN q', NEW n \in DOMAIN q', q'[m] = q'[n] PROVE m = n
  <2>1. m + 1 = n + 1
    BY <1>2, <1>3, <1>4
  <2> QED BY <2>1, <1>3
<1>5. ASSUME NEW i \in Ids, NEW n \in DOMAIN q', q'[n] = i
      PROVE  Queued(i) /\ i # Head(q)
  <2>1. n + 1 \in DOMAIN q /\ q[n + 1] = i /\ n + 1 # 1
    BY <1>3, <1>5
  <2> QED BY <1>2, <1>3, <2>1 DEF Queued
<1>6. ASSUME NEW i \in Ids, Queued(i), i # Head(q) PROVE \E n \in DOMAIN q' : q'[n] = i
  BY <1>3, <1>6 DEF Queued
<1>7. Queued(Head(q))
  BY <1>3 DEF Queued
<1> QED BY <1>1, <1>3, <1>4, <1>5, <1>6, <1>7 DEF Queued

\* A step of main that moves the flow at the head of the queue to the cache, or out of it
\* with a stored one, keeps each flow in its place; what it cleans out, it moves.
LEMMA PlacedTaken ==
  ASSUME TypeInv, Placed, Take, evicted' \subseteq Ids,
         NEW c \in [Keys -> SUBSET Ids],
         \A k \in Keys : \A i \in c[k] : KeyOf(flows[i]) = k,
         \A k \in Keys : cache'[k] \subseteq c[k],
         \A i \in Ids : i \in evicted' <=>
           i \in evicted \/ ((\E k \in Keys : i \in c[k]) /\ ~Cached(i)'),
         \/ /\ sent' = sent
            /\ \A i \in Ids : (\E k \in Keys : i \in c[k]) <=> Cached(i) \/ i = Head(q)
         \/ \E j \in Ids :
              /\ Cached(j) /\ \E o : o.ids = {Head(q), j} /\ sent' = sent \cup {o}
              /\ \A i \in Ids : (\E k \in Keys : i \in c[k]) <=> Cached(i) /\ i # j
  PROVE  Placed'
<1> DEFINE h == Head(q)
           In(i) == \E k \in Keys : i \in c[k]
<1>1. /\ flows' = flows /\ Ids' = Ids /\ h \in Ids /\ Queued(h)
      /\ \A m, n \in DOMAIN q' : q'[m] = q'[n] => m = n
      /\ \A i \in Ids : Queued(i)' <=> Queued(i) /\ i # h
  BY TakenPlaces
<1>2. ~Cached(h) /\ h \notin evicted /\ ~Paired(h)
  BY <1>1 DEF Placed
<1>3. \A k \in Keys : \A i \in cache'[k] : KeyOf(flows'[i]) = k
  BY <1>1
<1>4. \A i \in Ids : Cached(i)' => In(i)
  BY DEF Cached
<1>5. \A i \in Ids : i \in evicted' <=> i \in evicted \/ (In(i) /\ ~Cached(i)')
  OBVIOUS
<1>6. CASE /\ sent' = sent
           /\ \A i \in Ids : In(i) <=> Cached(i) \/ i = h
  <2>1. \A i : Paired(i)' = Paired(i)
    BY <1>6 DEF Paired
  <2>2. /\ \A o, p \in sent' : (\E i \in o.ids : i \in p.ids) => o = p
        /\ \A o \in sent' : o.ids \subseteq Ids
    BY <1>6 DEF Placed
  <2>3. ASSUME NEW i \in Ids
        PROVE  /\ Queued(i)' => ~Cached(i)' /\ i \notin evicted' /\ ~Paired(i)'
               /\ Cached(i)' => i \notin evicted' /\ ~Paired(i)'
               /\ i \in evicted' => ~Paired(i)'
               /\ Queued(i)' \/ Cached(i)' \/ i \in evicted' \/ Paired(i)'
    <3>1. /\ Queued(i)' <=> Queued(i) /\ i # h
          /\ In(i) <=> Cached(i) \/ i = h
          /\ Cached(i)' => In(i)
          /\ i \in evicted' <=> i \in evicted \/ (In(i) /\ ~Cached(i)')
          /\ Paired(i)' <=> Paired(i)
      BY <1>1, <1>4, <1>5, <1>6, <2>1
    <3>2. /\ Queued(i) => ~Cached(i) /\ i \notin evicted /\ ~Paired(i)
          /\ Cached(i) => i \notin evicted /\ ~Paired(i)
          /\ i \in evicted => ~Paired(i)
          /\ Queued(i) \/ Cached(i) \/ i \in evicted \/ Paired(i)
      BY DEF Placed
    <3> HIDE DEF In
    <3> QED BY <1>2, <3>1, <3>2
  <2> QED BY <1>1, <1>3, <2>2, <2>3 DEF Placed
<1>7. ASSUME NEW j \in Ids, NEW o, Cached(j), o.ids = {h, j}, sent' = sent \cup {o},
             \A i \in Ids : In(i) <=> Cached(i) /\ i # j
      PROVE  Placed'
  <2>0. ~Queued(j) /\ j \notin evicted /\ ~Paired(j)
    BY <1>7 DEF Placed
  <2>1. \A i : Paired(i)' <=> Paired(i) \/ i \in {h, j}
    BY <1>7 DEF Paired
  <2>2. \A p \in sent : h \notin p.ids /\ j \notin p.ids
    BY <1>2, <2>0 DEF Paired
  <2>3. /\ \A p, r \in sent' : (\E i \in p.ids : i \in r.ids) => p = r
        /\ \A p \in sent' : p.ids \subseteq Ids
    BY <1>1, <1>7, <2>2 DEF Placed
  <2>4. ASSUME NEW i \in Ids
        PROVE  /\ Queued(i)' => ~Cached(i)' /\ i \notin evicted' /\ ~Paired(i)'
               /\ Cached(i)' => i \notin evicted' /\ ~Paired(i)'
               /\ i \in evicted' => ~Paired(i)'
               /\ Queued(i)' \/ Cached(i)' \/ i \in evicted' \/ Paired(i)'
    <3>1. /\ Queued(i)' <=> Queued(i) /\ i # h
          /\ In(i) <=> Cached(i) /\ i # j
          /\ Cached(i)' => In(i)
          /\ i \in evicted' <=> i \in evicted \/ (In(i) /\ ~Cached(i)')
          /\ Paired(i)' <=> Paired(i) \/ i = h \/ i = j
      BY <1>1, <1>4, <1>5, <1>7, <2>1
    <3>2. /\ Queued(i) => ~Cached(i) /\ i \notin evicted /\ ~Paired(i)
          /\ Cached(i) => i \notin evicted /\ ~Paired(i)
          /\ i \in evicted => ~Paired(i)
          /\ Queued(i) \/ Cached(i) \/ i \in evicted \/ Paired(i)
      BY DEF Placed
    <3> HIDE DEF In
    <3> QED BY <1>1, <1>2, <1>7, <2>0, <3>1, <3>2
  <2> QED BY <1>1, <1>3, <2>3, <2>4 DEF Placed
<1> QED BY <1>6, <1>7

\* What main does with the flow it takes, in the words of PlacedTaken: c is the cache
\* before the cleaning.
LEMMA TakeCases ==
  ASSUME TypeInv, Placed, TakeNewKey \/ TakeMatched \/ TakeUnmatched
  PROVE  /\ Take
         /\ \E c \in [Keys -> SUBSET Ids] :
              /\ \A k \in Keys : \A i \in c[k] : KeyOf(flows[i]) = k
              /\ \A k \in Keys : cache'[k] \subseteq c[k]
              /\ evicted' \subseteq Ids
              /\ \A i \in Ids : i \in evicted' <=>
                   i \in evicted \/ ((\E k \in Keys : i \in c[k]) /\ ~Cached(i)')
              /\ \/ /\ sent' = sent
                    /\ \A i \in Ids : (\E k \in Keys : i \in c[k]) <=> Cached(i) \/ i = Head(q)
                 \/ \E j \in Ids :
                      /\ Cached(j) /\ \E o : o.ids = {Head(q), j} /\ sent' = sent \cup {o}
                      /\ \A i \in Ids : (\E k \in Keys : i \in c[k]) <=> Cached(i) /\ i # j
<1> DEFINE h == Head(q)
           K == KeyOf(flows[h])
<1>1. Take
  BY DEF TakeNewKey, TakeMatched, TakeUnmatched
<1>2. /\ h \in Ids /\ K \in Keys /\ cache \in [Keys -> SUBSET Ids] /\ evicted \subseteq Ids
      /\ flows[h].last \in Nat /\ tNow \in Nat
  BY <1>1, HeadFlow DEF TypeInv, TypeOK, Ids
<1>3. \A k \in Keys : \A i \in cache[k] : KeyOf(flows[i]) = k
  BY DEF Placed
<1> HIDE DEF K, h
<1>4. CASE TakeNewKey
  <2> DEFINE c == [cache EXCEPT ![K] = {h}]
  <2>1. cache' = c /\ cache[K] = {} /\ sent' = sent /\ evicted' = evicted
    BY <1>4 DEF TakeNewKey, Stored, K, h
  <2>2. c \in [Keys -> SUBSET Ids] /\ \A k \in Keys : c[k] = IF k = K THEN {h} ELSE cache[k]
    BY <1>2
  <2> HIDE DEF c
  <2>3. \A k \in Keys : \A i \in c[k] : KeyOf(flows[i]) = k
    BY <1>3, <2>2 DEF K
  <2>4. \A i \in Ids : (\E k \in Keys : i \in c[k]) <=> Cached(i) \/ i = h
    BY <1>2, <2>1, <2>2 DEF Cached
  <2>5. \A i \in Ids : i \in evicted' <=>
          i \in evicted \/ ((\E k \in Keys : i \in c[k]) /\ ~Cached(i)')
    BY <2>1 DEF Cached
  <2> QED BY <1>1, <1>2, <2>1, <2>2, <2>3, <2>4, <2>5 DEF h
<1>5. CASE TakeMatched
  <2>1. PICK j \in Candidates :
          /\ sent' = sent \cup {Complete(h, j)}
          /\ MaybeClean([cache EXCEPT ![K] = @ \ {j}], flows[h].last)
    BY <1>5 DEF TakeMatched, h, K
  <2> DEFINE c == [cache EXCEPT ![K] = @ \ {j}]
  <2>2. j \in cache[K] /\ j \in Ids
    BY <1>2 DEF Candidates, K, h
  <2>3. c \in [Keys -> SUBSET Ids]
        /\ \A k \in Keys : c[k] = IF k = K THEN cache[k] \ {j} ELSE cache[k]
    BY <1>2
  <2>4. MaybeClean(c, flows[h].last)
    BY <2>1
  <2> HIDE DEF c
  <2>5. /\ \A k \in Keys : cache'[k] \subseteq c[k]
        /\ \A i \in Ids : i \in evicted' <=>
             i \in evicted \/ ((\E k \in Keys : i \in c[k]) /\ ~(\E k \in Keys : i \in cache'[k]))
        /\ evicted' \subseteq Ids
    BY <1>2, <2>3, <2>4, CleanedCache
  <2>6. \A i \in Ids : (\E k \in Keys : i \in c[k]) <=> Cached(i) /\ i # j
    BY <1>2, <1>3, <2>2, <2>3 DEF Cached
  <2>7. Cached(j) /\ Complete(h, j).ids = {h, j}
    BY <1>2, <2>2 DEF Cached, Complete
  <2>8. \A k \in Keys : \A i \in c[k] : KeyOf(flows[i]) = k
    BY <1>3, <2>3
  <2>9. \E o : o.ids = {h, j} /\ sent' = sent \cup {o}
    BY <2>1, <2>7
  <2>10. \A i \in Ids : i \in evicted' <=>
          i \in evicted \/ ((\E k \in Keys : i \in c[k]) /\ ~Cached(i)')
    BY <2>5 DEF Cached
  <2> QED BY <1>1, <2>2, <2>3, <2>5, <2>6, <2>7, <2>8, <2>9, <2>10 DEF h
<1>6. CASE TakeUnmatched
  <2> DEFINE c == [cache EXCEPT ![K] = @ \cup {h}]
  <2>1. MaybeClean(c, tNow) /\ sent' = sent
    BY <1>6 DEF TakeUnmatched, K, h
  <2>2. c \in [Keys -> SUBSET Ids]
        /\ \A k \in Keys : c[k] = IF k = K THEN cache[k] \cup {h} ELSE cache[k]
    BY <1>2
  <2> HIDE DEF c
  <2>3. /\ \A k \in Keys : cache'[k] \subseteq c[k]
        /\ \A i \in Ids : i \in evicted' <=>
             i \in evicted \/ ((\E k \in Keys : i \in c[k]) /\ ~(\E k \in Keys : i \in cache'[k]))
        /\ evicted' \subseteq Ids
    BY <1>2, <2>1, <2>2, CleanedCache
  <2>4. \A i \in Ids : (\E k \in Keys : i \in c[k]) <=> Cached(i) \/ i = h
    BY <1>2, <2>2 DEF Cached
  <2>5. \A k \in Keys : \A i \in c[k] : KeyOf(flows[i]) = k
    BY <1>3, <2>2 DEF K
  <2>6. \A i \in Ids : i \in evicted' <=>
          i \in evicted \/ ((\E k \in Keys : i \in c[k]) /\ ~Cached(i)')
    BY <2>3 DEF Cached
  <2> QED BY <1>1, <2>1, <2>2, <2>3, <2>4, <2>5, <2>6 DEF h
<1> QED BY <1>4, <1>5, <1>6

\* A flow that is queued is in no other place.
LEMMA PlacedPushed ==
  ASSUME TypeInv, Placed, NEW s \in Scopes, Push(s)
  PROVE  Placed'
<1>1. /\ Ids' = Ids \cup {Len(flows) + 1} /\ Len(flows) + 1 \notin Ids
      /\ \A i \in Ids : flows'[i] = flows[i]
      /\ \A n \in DOMAIN q : n \in DOMAIN q' /\ q'[n] = q[n] /\ q[n] \in Ids
      /\ DOMAIN q' = DOMAIN q \cup {Len(q) + 1} /\ q'[Len(q) + 1] = Len(flows) + 1
  BY PushedFlows
<1>2. /\ cache' = cache /\ evicted' = evicted /\ sent' = sent
      /\ cache \in [Keys -> SUBSET Ids] /\ evicted \subseteq Ids
      /\ \A o \in sent : o.ids \subseteq Ids
  BY DEF Push, pairing, TypeInv, TypeOK, Ids, Placed
<1>3. \A m, n \in DOMAIN q' : q'[m] = q'[n] => m = n
  BY <1>1 DEF Placed
<1>4. \A k \in Keys : \A i \in cache'[k] : KeyOf(flows'[i]) = k
  BY <1>1, <1>2 DEF Placed
<1>5. \A o, p \in sent' : (\E i \in o.ids : i \in p.ids) => o = p
  BY <1>2 DEF Placed
<1>6. \A o \in sent' : o.ids \subseteq Ids'
  BY <1>1, <1>2
<1>7. \A i : (Cached(i)' <=> Cached(i)) /\ (Paired(i)' <=> Paired(i))
  BY <1>2 DEF Cached, Paired
<1>8. ASSUME NEW i \in Ids'
      PROVE  /\ Queued(i)' => ~Cached(i)' /\ i \notin evicted' /\ ~Paired(i)'
             /\ Cached(i)' => i \notin evicted' /\ ~Paired(i)'
             /\ i \in evicted' => ~Paired(i)'
             /\ Queued(i)' \/ Cached(i)' \/ i \in evicted' \/ Paired(i)'
  <2>1. CASE i \in Ids
    <3>1. Queued(i)' <=> Queued(i)
      BY <1>1, <2>1 DEF Queued
    <3>2. /\ Queued(i) => ~Cached(i) /\ i \notin evicted /\ ~Paired(i)
          /\ Cached(i) => i \notin evicted /\ ~Paired(i)
          /\ i \in evicted => ~Paired(i)
          /\ Queued(i) \/ Cached(i) \/ i \in evicted \/ Paired(i)
      BY <2>1 DEF Placed
    <3> QED BY <1>2, <1>7, <3>1, <3>2
  <2>2. CASE i = Len(flows) + 1
    <3>1. Queued(i)'
      BY <1>1, <2>2 DEF Queued
    <3>2. ~Cached(i) /\ i \notin evicted /\ ~Paired(i)
      BY <1>1, <1>2, <2>2 DEF Cached, Paired
    <3> QED BY <1>2, <1>7, <3>1, <3>2
  <2> QED BY <1>1, <2>1, <2>2
<1> QED BY <1>3, <1>4, <1>5, <1>6, <1>8 DEF Placed

\* The steps that move no flow.
Quiet == UNCHANGED <<flows, q, cache, evicted, sent, tNow>>

LEMMA Steps ==
  ASSUME [Next]_vars
  PROVE  \/ Quiet
         \/ \E s \in Scopes : Push(s)
         \/ TakeNewKey \/ TakeMatched \/ TakeUnmatched
BY DEF Next, Thread, Input, Main, Quiet, threads, pairing, vars, CreateTemplate,
       CreateTemplateFails, Receive, FormatFails, InputEnds, Post, LoopStops, Leave,
       LastPost, CreateOutput, CreateOutputFails, SemWait, NothingQueued, JoinAndExit,
       Signal

LEMMA StepPlaced == TypeInv /\ Placed /\ [Next]_vars => Placed'
<1> SUFFICES ASSUME TypeInv, Placed, [Next]_vars PROVE Placed'
  OBVIOUS
<1>1. CASE Quiet
  BY <1>1 DEF Quiet, Placed, Queued, Cached, Paired, Ids
<1>2. CASE \E s \in Scopes : Push(s)
  BY <1>2, PlacedPushed
<1>3. CASE TakeNewKey \/ TakeMatched \/ TakeUnmatched
  BY <1>3, TakeCases, PlacedTaken
<1> QED BY <1>1, <1>2, <1>3, Steps

LEMMA InitPlaced == Init => Placed
BY DEF Init, Placed, Ids, Queued, Cached, Paired
-----------------------------------------------------------------------------
(***************************************************************************)
(* What is paired, and what waits.                                         *)
(***************************************************************************)

LEMMA InitPaired == Init => Aged /\ PairsSound /\ NoPairWaits
BY DEF Init, Aged, PairsSound, NoPairWaits

\* Quiet steps and the queueing of a flow leave the flows paired, cleaned out and cached as
\* they are.
LEMMA PairedKept ==
  ASSUME TypeInv, Placed, Quiet \/ \E s \in Scopes : Push(s)
  PROVE  /\ UNCHANGED <<cache, evicted, sent, tNow>>
         /\ cache \in [Keys -> SUBSET Ids] /\ evicted \subseteq Ids
         /\ \A o \in sent : o.ids \subseteq Ids
         /\ \A i \in Ids : flows'[i] = flows[i]
<1>1. /\ cache \in [Keys -> SUBSET Ids] /\ evicted \subseteq Ids
      /\ \A o \in sent : o.ids \subseteq Ids
  BY DEF TypeInv, TypeOK, Ids, Placed
<1>2. UNCHANGED <<cache, evicted, sent, tNow>> /\ \A i \in Ids : flows'[i] = flows[i]
  BY PushedFlows DEF Quiet, Push, pairing
<1> QED BY <1>1, <1>2

LEMMA StepAged ==
  ASSUME TypeInv, Placed, Aged, [Next]_vars
  PROVE  Aged'
<1>1. CASE Quiet \/ \E s \in Scopes : Push(s)
  BY <1>1, PairedKept DEF Aged
<1>2. CASE TakeNewKey
  BY <1>2 DEF TakeNewKey, Take, threads, Aged
<1>3. CASE TakeMatched
  <2> DEFINE h == Head(q)
             K == KeyOf(flows[h])
  <2>1. PICK j \in Candidates :
          /\ sent' = sent \cup {Complete(h, j)}
          /\ MaybeClean([cache EXCEPT ![K] = @ \ {j}], flows[h].last)
    BY <1>3 DEF TakeMatched
  <2>2. flows' = flows /\ flows[h].last \in Nat
        /\ [cache EXCEPT ![K] = @ \ {j}] \in [Keys -> SUBSET Ids] /\ evicted \subseteq Ids
    BY <1>3, HeadFlow DEF TakeMatched, TypeInv, TypeOK, Ids
  <2>3. /\ \A i \in evicted' \ evicted : flows[i].last + FreeTime <= flows[h].last
        /\ tNow' = flows[h].last
    BY <2>1, <2>2, CleanedCache
  <2>4. Complete(h, j) \in sent' /\ h \in Complete(h, j).ids
    BY <2>1 DEF Complete
  <2>5. \E o \in sent' : \E i \in o.ids : flows'[i].last = tNow'
    BY <2>2, <2>3, <2>4
  <2>6. ASSUME NEW i \in evicted'
        PROVE  \E o \in sent' : \E l \in o.ids : flows'[l].last >= flows'[i].last + FreeTime
    <3>1. CASE i \in evicted
      BY <2>1, <2>2, <3>1 DEF Aged
    <3>2. CASE i \notin evicted
      <4>1. i \in Ids
        BY <2>1, <2>2, <2>6, CleanedCache
      <4>2. flows[i].last \in Nat
        BY <4>1, FlowsTyped DEF FlowType
      <4>3. flows[h].last >= flows[i].last + FreeTime
        BY <2>2, <2>3, <3>2, <4>2, NatPairAssumption
      <4> QED BY <2>2, <2>4, <4>3
    <3> QED BY <3>1, <3>2
  <2> QED BY <2>5, <2>6 DEF Aged
<1>4. CASE TakeUnmatched
  <2> DEFINE h == Head(q)
             K == KeyOf(flows[h])
  <2>1. MaybeClean([cache EXCEPT ![K] = @ \cup {h}], tNow) /\ sent' = sent
    BY <1>4 DEF TakeUnmatched
  <2>2. flows' = flows /\ tNow \in Nat
        /\ [cache EXCEPT ![K] = @ \cup {h}] \in [Keys -> SUBSET Ids] /\ evicted \subseteq Ids
    BY <1>4, HeadFlow DEF TakeUnmatched, TypeInv, TypeOK, Ids
  <2>3. /\ \A i \in evicted' \ evicted : flows[i].last + FreeTime <= tNow
        /\ tNow' = tNow /\ evicted' \subseteq Ids
    BY <2>1, <2>2, CleanedCache
  <2>4. ASSUME NEW i \in evicted'
        PROVE  \E o \in sent' : \E l \in o.ids : flows'[l].last >= flows'[i].last + FreeTime
    <3>1. CASE i \in evicted
      BY <2>1, <2>2, <3>1 DEF Aged
    <3>2. CASE i \notin evicted
      <4>1. flows[i].last \in Nat /\ flows[i].last + FreeTime <= tNow /\ tNow # 0
        <5>1. flows[i].last \in Nat
          BY <2>3, <2>4, FlowsTyped DEF FlowType
        <5> QED BY <2>2, <2>3, <2>4, <3>2, <5>1, NatPairAssumption
      <4>2. PICK o \in sent : \E l \in o.ids : flows[l].last = tNow
        BY <4>1 DEF Aged
      <4>3. tNow >= flows[i].last + FreeTime
        BY <2>2, <4>1, NatPairAssumption
      <4> QED BY <2>1, <2>2, <4>2, <4>3
    <3> QED BY <3>1, <3>2
  <2> QED BY <2>1, <2>2, <2>3, <2>4 DEF Aged
<1> QED BY <1>1, <1>2, <1>3, <1>4, Steps

\* A flow completed with one it matches.
LEMMA CompleteSound ==
  ASSUME TypeInv, NEW i \in Ids, NEW j \in Ids, Matches(flows[j], flows[i])
  PROVE  \E l, w \in Complete(i, j).ids :
           LET o == Complete(i, j) IN
           /\ flows[l].scope = "LAN" /\ flows[w].scope = "WAN"
           /\ KeyOf(flows[l]) = KeyOf(flows[w])
           /\ o.lan = flows[l].near /\ o.wan = flows[l].wan
           /\ o.rtr = [ip |-> Router, port |-> flows[w].near.port]
           /\ \A n \in {l, w} : o.first <= flows[n].first /\ flows[n].last <= o.last
<1>1. /\ flows[i] \in FlowType /\ flows[j] \in FlowType /\ flows[i].scope # flows[j].scope
      /\ KeyOf(flows[i]) = KeyOf(flows[j])
  BY FlowsTyped DEF Matches
<1>2. /\ flows[i].wan = flows[j].wan /\ flows[i].direction = flows[j].direction
      /\ flows[i].direction \in {"LANtoWAN", "WANtoLAN"}
      /\ flows[i].scope \in {"LAN", "WAN"} /\ flows[j].scope \in {"LAN", "WAN"}
      /\ flows[i].first \in Nat /\ flows[i].last \in Nat
      /\ flows[j].first \in Nat /\ flows[j].last \in Nat
  BY <1>1 DEF KeyOf, FlowType, Scopes
<1>3. CASE flows[i].scope = "LAN"
  <2>1. flows[j].scope = "WAN" /\ TimesMatch(flows[i], flows[j])
    BY <1>1, <1>2, <1>3 DEF Matches
  <2>2. \/ /\ flows[i].direction = "LANtoWAN"
           /\ flows[i].first <= flows[j].first /\ flows[i].last <= flows[j].last
        \/ /\ flows[i].direction = "WANtoLAN"
           /\ flows[i].first >= flows[j].first /\ flows[i].last >= flows[j].last
    BY <2>1 DEF TimesMatch
  <2> DEFINE o == Complete(i, j)
  <2>3. /\ o.ids = {i, j} /\ o.lan = flows[i].near
        /\ o.rtr = [ip |-> Router, port |-> flows[j].near.port]
        /\ o.wan = flows[i].wan
        /\ o.first = IF flows[i].direction = "LANtoWAN" THEN flows[i].first ELSE flows[j].first
        /\ o.last = IF flows[i].direction = "LANtoWAN" THEN flows[j].last ELSE flows[i].last
    BY <1>3 DEF Complete
  <2>4. /\ o.first <= flows[i].first /\ o.first <= flows[j].first
        /\ flows[i].last <= o.last /\ flows[j].last <= o.last
    BY <1>2, <2>2, <2>3
  <2> HIDE DEF o
  <2> QED BY <1>1, <1>3, <2>1, <2>3, <2>4 DEF o
<1>4. CASE flows[i].scope = "WAN"
  <2>1. flows[j].scope = "LAN" /\ TimesMatch(flows[j], flows[i])
    BY <1>1, <1>2, <1>4 DEF Matches
  <2>2. \/ /\ flows[i].direction = "LANtoWAN"
           /\ flows[j].first <= flows[i].first /\ flows[j].last <= flows[i].last
        \/ /\ flows[i].direction = "WANtoLAN"
           /\ flows[j].first >= flows[i].first /\ flows[j].last >= flows[i].last
    BY <1>2, <2>1 DEF TimesMatch
  <2> DEFINE o == Complete(i, j)
  <2>3. /\ o.ids = {i, j} /\ o.lan = flows[j].near
        /\ o.rtr = [ip |-> Router, port |-> flows[i].near.port]
        /\ o.wan = flows[j].wan
        /\ o.first = IF flows[i].direction = "LANtoWAN" THEN flows[j].first ELSE flows[i].first
        /\ o.last = IF flows[i].direction = "LANtoWAN" THEN flows[i].last ELSE flows[j].last
    BY <1>2, <1>4 DEF Complete
  <2>4. /\ o.first <= flows[i].first /\ o.first <= flows[j].first
        /\ flows[i].last <= o.last /\ flows[j].last <= o.last
    BY <1>2, <2>2, <2>3
  <2> HIDE DEF o
  <2> QED BY <1>1, <1>4, <2>1, <2>3, <2>4 DEF o
<1> QED BY <1>2, <1>3, <1>4

LEMMA StepPairsSound ==
  ASSUME TypeInv, Placed, PairsSound, [Next]_vars
  PROVE  PairsSound'
<1>1. CASE Quiet \/ \E s \in Scopes : Push(s)
  <2>1. ASSUME NEW o \in sent'
        PROVE  o \in sent /\ \A l \in o.ids : flows'[l] = flows[l]
    BY <1>1, <2>1, PairedKept
  <2>2. ASSUME NEW o \in sent'
        PROVE  \E l, w \in o.ids :
           /\ flows'[l].scope = "LAN" /\ flows'[w].scope = "WAN"
           /\ KeyOf(flows'[l]) = KeyOf(flows'[w])
           /\ o.lan = flows'[l].near /\ o.wan = flows'[l].wan
           /\ o.rtr = [ip |-> Router, port |-> flows'[w].near.port]
           /\ \A n \in {l, w} : o.first <= flows'[n].first /\ flows'[n].last <= o.last
    <3>1. PICK l \in o.ids, w \in o.ids :
           /\ flows[l].scope = "LAN" /\ flows[w].scope = "WAN"
           /\ KeyOf(flows[l]) = KeyOf(flows[w])
           /\ o.lan = flows[l].near /\ o.wan = flows[l].wan
           /\ o.rtr = [ip |-> Router, port |-> flows[w].near.port]
           /\ \A n \in {l, w} : o.first <= flows[n].first /\ flows[n].last <= o.last
      BY <2>1, <2>2 DEF PairsSound
    <3>2. flows'[l] = flows[l] /\ flows'[w] = flows[w]
      BY <2>1, <2>2
    <3> QED BY <3>1, <3>2
  <2> QED BY <2>2 DEF PairsSound, KeyOf
<1>2. CASE TakeNewKey \/ TakeUnmatched
  <2>1. sent' = sent /\ flows' = flows
    BY <1>2 DEF TakeNewKey, TakeUnmatched, Take, threads
  <2> QED BY <2>1 DEF PairsSound, KeyOf
<1>3. CASE TakeMatched
  <2>1. PICK j \in Candidates : sent' = sent \cup {Complete(Head(q), j)}
    BY <1>3 DEF TakeMatched
  <2>2. flows' = flows /\ Head(q) \in Ids /\ KeyOf(flows[Head(q)]) \in Keys
        /\ cache \in [Keys -> SUBSET Ids]
    BY <1>3, HeadFlow DEF TakeMatched, TypeInv, TypeOK, Ids
  <2>3. j \in Ids /\ Matches(flows[j], flows[Head(q)])
    BY <2>2 DEF Candidates
  <2>4. ASSUME NEW o \in sent'
        PROVE  \E l, w \in o.ids :
           /\ flows[l].scope = "LAN" /\ flows[w].scope = "WAN"
           /\ KeyOf(flows[l]) = KeyOf(flows[w])
           /\ o.lan = flows[l].near /\ o.wan = flows[l].wan
           /\ o.rtr = [ip |-> Router, port |-> flows[w].near.port]
           /\ \A n \in {l, w} : o.first <= flows[n].first /\ flows[n].last <= o.last
    <3>1. CASE o \in sent
      BY <3>1 DEF PairsSound
    <3>2. CASE o = Complete(Head(q), j)
      BY <2>2, <2>3, <3>2, CompleteSound
    <3> QED BY <2>1, <3>1, <3>2
  <2> QED BY <2>2, <2>4 DEF PairsSound, KeyOf
<1> QED BY <1>1, <1>2, <1>3, Steps

\* The comparison does not depend on the order.
LEMMA MatchesBothWays ==
  ASSUME NEW f \in FlowType, NEW g \in FlowType, Matches(f, g)
  PROVE  Matches(g, f)
BY DEF Matches, FlowType, Scopes

LEMMA StepNoPairWaits ==
  ASSUME TypeInv, Placed, NoPairWaits, [Next]_vars
  PROVE  NoPairWaits'
<1>0. cache \in [Keys -> SUBSET Ids] /\ \A i \in Ids : flows[i] \in FlowType
  BY FlowsTyped DEF TypeInv, TypeOK, Ids
<1> SUFFICES ASSUME NEW k \in Keys, NEW i \in cache'[k], NEW j \in cache'[k]
             PROVE  ~Matches(flows'[i], flows'[j])
  BY DEF NoPairWaits, Matches, KeyOf, TimesMatch
<1>1. CASE Quiet \/ \E s \in Scopes : Push(s)
  <2>1. cache' = cache /\ flows'[i] = flows[i] /\ flows'[j] = flows[j]
    BY <1>1, PairedKept
  <2> QED BY <2>1 DEF NoPairWaits
<1>2. CASE TakeNewKey
  <2>1. /\ flows' = flows /\ ~Stored(KeyOf(flows[Head(q)]))
        /\ cache' = [cache EXCEPT ![KeyOf(flows[Head(q)])] = {Head(q)}]
    BY <1>2 DEF TakeNewKey, Take, threads
  <2>2. (i \in cache[k] /\ j \in cache[k]) \/ i = j
    BY <1>0, <2>1
  <2> QED BY <2>1, <2>2 DEF NoPairWaits, Matches
<1>3. CASE TakeMatched
  <2>1. PICK l \in Candidates :
          MaybeClean([cache EXCEPT ![KeyOf(flows[Head(q)])] = @ \ {l}], flows[Head(q)].last)
    BY <1>3 DEF TakeMatched
  <2>2. flows' = flows /\ flows[Head(q)].last \in Nat
        /\ [cache EXCEPT ![KeyOf(flows[Head(q)])] = @ \ {l}] \in [Keys -> SUBSET Ids]
    BY <1>0, <1>3, HeadFlow DEF TakeMatched
  <2>3. cache'[k] \subseteq [cache EXCEPT ![KeyOf(flows[Head(q)])] = @ \ {l}][k]
    BY <2>1, <2>2, CleanedCache
  <2>4. i \in cache[k] /\ j \in cache[k]
    BY <1>0, <2>3
  <2> QED BY <2>2, <2>4 DEF NoPairWaits
<1>4. CASE TakeUnmatched
  <2> DEFINE h == Head(q)
             K == KeyOf(flows[h])
  <2>1. MaybeClean([cache EXCEPT ![K] = @ \cup {h}], tNow) /\ Candidates = {}
    BY <1>4 DEF TakeUnmatched
  <2>2. flows' = flows /\ tNow \in Nat /\ h \in Ids /\ K \in Keys
        /\ [cache EXCEPT ![K] = @ \cup {h}] \in [Keys -> SUBSET Ids]
    BY <1>0, <1>4, HeadFlow DEF TakeUnmatched, TypeInv, TypeOK
  <2>3. cache'[k] \subseteq [cache EXCEPT ![K] = @ \cup {h}][k]
    BY <2>1, <2>2, CleanedCache
  <2>4. \A l \in {i, j} : l \in cache[k] \/ (k = K /\ l = h)
    BY <1>0, <2>2, <2>3
  <2>5. \A l \in cache[K] : ~Matches(flows[l], flows[h])
    BY <2>1 DEF Candidates
  <2>6. \A l \in cache[K] : ~Matches(flows[h], flows[l])
    BY <1>0, <2>2, <2>5, MatchesBothWays
  <2>7. ~Matches(flows[h], flows[h])
    BY DEF Matches
  <2> QED BY <2>2, <2>4, <2>5, <2>6, <2>7 DEF NoPairWaits
<1> QED BY <1>1, <1>2, <1>3, <1>4, Steps
-----------------------------------------------------------------------------
(***************************************************************************)
(* The wake-ups.                                                           *)
(***************************************************************************)

LEMMA InitBalanced == Init => Balanced /\ LoopLeft
BY DEF Init, Balanced, LoopLeft, Looping, NoneFailed, AllDone, Ups, Taking, Posts, Posting, Scopes

\* Counts are numbers.
LEMMA UpsType ==
  ASSUME TypeInv
  PROVE  /\ sem \in Nat /\ Len(q) \in Nat /\ Taking \in 0 .. 1
         /\ Posts \in 0 .. 2 /\ Ups \in Nat /\ \A t \in Scopes : Posting(t) \in 0 .. 1
<1>1. sem \in Nat /\ Len(q) \in Nat /\ Taking \in 0 .. 1
  BY LenProperties DEF TypeInv, TypeOK, Taking
<1>2. \A t \in Scopes : Posting(t) \in 0 .. 1
  BY DEF Posting
<1>3. Posts \in 0 .. 2
  BY <1>2 DEF Posts, Scopes
<1> QED BY <1>1, <1>2, <1>3 DEF Ups

\* What a thread does to its own wake-up.
LEMMA PostingOf ==
  ASSUME TypeInv, NEW s \in Scopes, NEW l, GoTo(s, l)
  PROVE  /\ \A t \in Scopes : ppc'[t] = IF t = s THEN l ELSE ppc[t]
         /\ Posts' = Posts - Posting(s) + (IF l = "post" THEN 1 ELSE 0)
<1>1. \A t \in Scopes : ppc'[t] = IF t = s THEN l ELSE ppc[t]
  BY DEF GoTo, TypeInv, TypeOK
<1>2. /\ Posting(s)' = (IF l = "post" THEN 1 ELSE 0)
      /\ \A t \in Scopes : t # s => Posting(t)' = Posting(t)
      /\ \A t \in Scopes : Posting(t) \in 0 .. 1
  BY <1>1 DEF Posting
<1>3. CASE s = "LAN"
  BY <1>1, <1>2, <1>3 DEF Scopes, Posts
<1>4. CASE s = "WAN"
  BY <1>1, <1>2, <1>4 DEF Scopes, Posts
<1> QED BY <1>3, <1>4 DEF Scopes, Posts

\* A thread moves from where it is; one that failed or is done does not.
LEMMA ThreadGoes ==
  ASSUME NEW s \in Scopes, Thread(s) \/ Input(s)
  PROVE  /\ ppc[s] \notin {"failed", "done"} /\ mpc' = mpc
         /\ \E l \in PPCs : GoTo(s, l)
BY DEF Thread, Input, CreateTemplate, CreateTemplateFails, Receive, FormatFails,
       InputEnds, Push, Post, LoopStops, Leave, LastPost, PPCs

LEMMA EndsStay ==
  ASSUME TypeInv, [Next]_vars
  PROVE  /\ NoneFailed' => NoneFailed
         /\ AllDone => ppc' = ppc /\ q' \in {q, Tail(q)}
<1>1. CASE \E s \in Scopes : Thread(s) \/ Input(s)
  <2>1. PICK s \in Scopes : Thread(s) \/ Input(s)
    BY <1>1
  <2>2. ppc[s] \notin {"failed", "done"} /\ \E l : GoTo(s, l)
    BY <2>1, ThreadGoes
  <2>3. \A t \in Scopes : t # s => ppc'[t] = ppc[t]
    BY <2>2, PostingOf
  <2> QED BY <2>2, <2>3 DEF NoneFailed, AllDone
<1>2. CASE UNCHANGED ppc /\ q' \in {q, Tail(q)}
  BY <1>2 DEF NoneFailed, AllDone
<1>3. CASE Main \/ CreateOutput \/ CreateOutputFails \/ Signal \/ UNCHANGED vars
  <2>1. UNCHANGED ppc /\ q' \in {q, Tail(q)}
    BY <1>3 DEF Main, SemWait, NothingQueued, JoinAndExit, TakeNewKey, TakeMatched,
                TakeUnmatched, Take, CreateOutput, CreateOutputFails, Signal, vars, threads
  <2> QED BY <1>2, <2>1
<1> QED BY <1>1, <1>3 DEF Next

\* A step that leaves the wake-ups as far ahead of the queue as they were, or, where a
\* thread fails or all are done by it, further, keeps the balance.
LEMMA BalanceKept ==
  ASSUME TypeInv, Balanced, Ups' \in Int, Len(q') \in Int, Looping' => Looping,
         NoneFailed' => NoneFailed, AllDone => AllDone',
         Looping' => Ups' - Len(q') >= Ups - Len(q),
         Looping' /\ NoneFailed' /\ ~AllDone' => Ups' - Len(q') = Ups - Len(q)
  PROVE  Balanced'
<1>1. Ups \in Int /\ Len(q) \in Int
  BY UpsType DEF Ups
<1>2. Looping => Ups >= Len(q) /\ (NoneFailed /\ ~AllDone => Ups = Len(q))
  BY DEF Balanced
<1>3. Looping' => Ups' >= Len(q')
  BY <1>1, <1>2
<1>4. Looping' /\ NoneFailed' /\ ~AllDone' => Ups' = Len(q')
  BY <1>1, <1>2
<1> QED BY <1>3, <1>4 DEF Balanced

LEMMA ThreadBalanced ==
  ASSUME TypeInv, TypeInv', Balanced, [Next]_vars, NEW s \in Scopes, Thread(s) \/ Input(s)
  PROVE  Balanced'
<1>0. /\ sem \in Nat /\ Len(q) \in Nat /\ sem' \in Nat /\ Len(q') \in Nat
      /\ Taking \in Int /\ Posts \in Int /\ Posts' \in Int /\ Posting(s) \in Int
      /\ Ups = sem + Taking + Posts /\ Ups' = sem' + Taking' + Posts'
      /\ Ups \in Int /\ Ups' \in Int
  <2>1. sem' \in Nat /\ Len(q') \in Nat
    BY LenProperties DEF TypeInv, TypeOK
  <2>2. Posts' \in Int
    BY DEF Posts, Posting
  <2>3. Taking' \in Int
    BY DEF Taking
  <2>4. Ups' \in Int
    BY <2>1, <2>2, <2>3 DEF Ups
  <2> QED BY <2>1, <2>2, <2>4, UpsType DEF Ups
<1>1. Looping' = Looping /\ Taking' = Taking /\ ppc[s] # "done" /\ ppc[s] # "failed"
  BY ThreadGoes DEF Looping, Taking
<1>2. (NoneFailed' => NoneFailed) /\ ~AllDone
  BY <1>1, EndsStay DEF AllDone
<1>3. ASSUME NEW l, GoTo(s, l)
      PROVE  /\ \A t \in Scopes : ppc'[t] = IF t = s THEN l ELSE ppc[t]
             /\ Posts' = Posts - Posting(s) + (IF l = "post" THEN 1 ELSE 0)
  BY <1>3, PostingOf
<1>4. ASSUME Ups' - Len(q') >= Ups - Len(q),
             NoneFailed' /\ ~AllDone' => Ups' - Len(q') = Ups - Len(q)
      PROVE  Balanced'
  BY <1>0, <1>1, <1>2, <1>4, BalanceKept
<1>5. CASE CreateTemplate(s) \/ Receive(s) \/ LoopStops(s) \/ InputEnds(s) \/ FormatFails(s)
             \/ Leave(s)
  <2>1. PICK l : GoTo(s, l) /\ l # "post"
    BY <1>5 DEF CreateTemplate, Receive, LoopStops, InputEnds, FormatFails, Leave
  <2>2. ppc[s] # "post" /\ q' = q /\ sem' = sem
    BY <1>5 DEF CreateTemplate, Receive, LoopStops, InputEnds, FormatFails, Leave
  <2>3. Posting(s) = 0
    BY <2>2 DEF Posting
  <2>4. Posts' = Posts
    BY <1>0, <1>3, <2>1, <2>3
  <2>5. Ups' = Ups /\ Len(q') = Len(q)
    BY <1>0, <1>1, <2>2, <2>4
  <2>6. Ups' - Len(q') = Ups - Len(q)
    BY <1>0, <2>5
  <2>7. Ups' - Len(q') >= Ups - Len(q)
    BY <1>0, <2>5
  <2> QED BY <1>4, <2>6, <2>7
<1>6. CASE CreateTemplateFails(s)
  <2>1. GoTo(s, "failed") /\ ppc[s] = "start" /\ q' = q /\ sem' = sem + 1
    BY <1>6 DEF CreateTemplateFails
  <2>2. Posting(s) = 0
    BY <2>1 DEF Posting
  <2>3. Posts' = Posts /\ ~NoneFailed'
    BY <1>0, <1>3, <2>1, <2>2 DEF NoneFailed
  <2>4. Ups' = Ups + 1 /\ Len(q') = Len(q)
    BY <1>0, <1>1, <2>1, <2>3
  <2>6. Ups' - Len(q') >= Ups - Len(q)
    BY <1>0, <2>4
  <2> QED BY <1>4, <2>3, <2>6
<1>7. CASE Push(s)
  <2>1. GoTo(s, "post") /\ ppc[s] = "push" /\ sem' = sem /\ Len(q') = Len(q) + 1
    BY <1>7, PushedFlows DEF Push
  <2>2. Posting(s) = 0
    BY <2>1 DEF Posting
  <2>3. Posts' = Posts + 1
    BY <1>0, <1>3, <2>1, <2>2
  <2>4. Ups' = Ups + 1
    BY <1>0, <1>1, <2>1, <2>3
  <2>6. Ups' - Len(q') = Ups - Len(q)
    BY <1>0, <2>1, <2>4
  <2>7. Ups' - Len(q') >= Ups - Len(q)
    BY <1>0, <2>1, <2>4
  <2> QED BY <1>4, <2>6, <2>7
<1>8. CASE Post(s)
  <2>1. GoTo(s, "loop") /\ ppc[s] = "post" /\ q' = q /\ sem' = sem + 1
    BY <1>8 DEF Post
  <2>2. Posting(s) = 1
    BY <2>1 DEF Posting
  <2>3. Posts' = Posts - 1
    BY <1>0, <1>3, <2>1, <2>2
  <2>4. Ups' = Ups /\ Len(q') = Len(q)
    BY <1>0, <1>1, <2>1, <2>3
  <2>6. Ups' - Len(q') = Ups - Len(q)
    BY <1>0, <2>4
  <2>7. Ups' - Len(q') >= Ups - Len(q)
    BY <1>0, <2>4
  <2> QED BY <1>4, <2>6, <2>7
\* The wake-up of the last thread is the one too many.
<1>9. CASE LastPost(s)
  <2>1. GoTo(s, "done") /\ ppc[s] = "last" /\ q' = q /\ sem' = sem + 1
    BY <1>9 DEF LastPost
  <2>2. Posting(s) = 0
    BY <2>1 DEF Posting
  <2>3. Posts' = Posts
    BY <1>0, <1>3, <2>1, <2>2
  <2>4. Ups' = Ups + 1 /\ Len(q') = Len(q)
    BY <1>0, <1>1, <2>1, <2>3
  <2>5. AllDone'
    BY <1>3, <2>1 DEF TypeInv, AllDone
  <2>6. Ups' - Len(q') >= Ups - Len(q)
    BY <1>0, <2>4
  <2> QED BY <1>4, <2>5, <2>6
<1> QED BY <1>5, <1>6, <1>7, <1>8, <1>9 DEF Thread, Input

LEMMA StepBalanced ==
  ASSUME TypeInv, TypeInv', Balanced, [Next]_vars
  PROVE  Balanced'
<1>0. /\ sem \in Nat /\ Len(q) \in Nat /\ Taking \in Int /\ Posts \in Int /\ sem' \in Nat
  BY UpsType DEF TypeInv, TypeOK
<1>1. CASE \E s \in Scopes : Thread(s) \/ Input(s)
  BY <1>1, ThreadBalanced
<1>2. ASSUME UNCHANGED ppc PROVE UNCHANGED <<Posts, NoneFailed, AllDone>>
  BY <1>2 DEF Posts, Posting, NoneFailed, AllDone
<1>3. CASE Signal \/ UNCHANGED vars \/ CreateOutput
  <2>1. ppc' = ppc /\ Looping' = Looping /\ Taking' = Taking /\ q' = q /\ sem' = sem
    BY <1>3 DEF Signal, vars, CreateOutput, threads, Looping, Taking
  <2>2. Ups' = Ups /\ Len(q') = Len(q) /\ Ups \in Int
    BY <1>0, <1>2, <2>1 DEF Ups
  <2> QED BY <1>0, <1>2, <2>1, <2>2, BalanceKept
<1>4. CASE CreateOutputFails \/ NothingQueued \/ JoinAndExit
  <2>1. ~Looping'
    BY <1>4 DEF CreateOutputFails, NothingQueued, JoinAndExit, Looping
  <2> QED BY <2>1 DEF Balanced
<1>5. CASE SemWait
  <2>1. /\ ppc' = ppc /\ Looping' /\ Looping /\ Taking = 0 /\ Taking' = 1 /\ q' = q /\ sem' = sem - 1
    BY <1>5 DEF SemWait, threads, Looping, Taking
  <2>2. Ups' = Ups /\ Len(q') = Len(q) /\ Ups \in Int
    BY <1>0, <1>2, <2>1 DEF Ups
  <2> QED BY <1>0, <1>2, <2>1, <2>2, BalanceKept
<1>6. CASE Take
  <2>1. /\ ppc' = ppc /\ Looping' /\ Looping /\ Taking = 1 /\ Taking' = 0 /\ sem' = sem
        /\ Len(q') = Len(q) - 1
    BY <1>6, TakenQueue DEF Take, threads, Looping, Taking
  <2>2. Ups' = Ups - 1 /\ Ups \in Int
    BY <1>0, <1>2, <2>1 DEF Ups
  <2>3. Ups' - Len(q') = Ups - Len(q) /\ Ups' \in Int /\ Len(q') \in Int
    BY <1>0, <2>1, <2>2
  <2> QED BY <1>0, <1>2, <2>1, <2>2, <2>3, BalanceKept
<1> QED BY <1>1, <1>3, <1>4, <1>5, <1>6 DEF Next, Main, TakeNewKey, TakeMatched, TakeUnmatched

\* Main that finds nothing queued has been given the wake-up of the last thread.
LEMMA StepLoopLeft ==
  ASSUME TypeInv, Balanced, LoopLeft, [Next]_vars
  PROVE  LoopLeft'
<1>1. CASE mpc = "join"
  <2>1. NoneFailed => AllDone /\ q = <<>>
    BY <1>1 DEF LoopLeft
  <2>2. AllDone => ppc' = ppc /\ (NoneFailed' => NoneFailed)
    BY EndsStay
  <2>3. mpc' = "join" => q' = q \/ \E s \in Scopes : Thread(s) \/ Input(s)
    BY <1>1 DEF Next, Main, SemWait, NothingQueued, JoinAndExit, TakeNewKey, TakeMatched,
                TakeUnmatched, Take, CreateOutput, CreateOutputFails, Signal, vars, threads
  <2>4. (\E s \in Scopes : Thread(s) \/ Input(s)) => ~AllDone
    BY ThreadGoes DEF AllDone
  <2>5. NoneFailed' => NoneFailed
    BY EndsStay
  <2> QED BY <2>1, <2>2, <2>3, <2>4, <2>5 DEF LoopLeft, AllDone
<1>2. CASE NothingQueued
  <2>1. /\ mpc = "take" /\ q = <<>> /\ q' = q /\ ppc' = ppc /\ Looping /\ Taking = 1
    BY <1>2 DEF NothingQueued, threads, Looping, Taking
  <2>2. Len(q) = 0
    BY <2>1
  <2>3. Ups # 0
    BY <2>1, UpsType DEF Ups
  <2>4. NoneFailed => AllDone
    BY <2>1, <2>2, <2>3 DEF Balanced
  <2> QED BY <2>1, <2>4 DEF LoopLeft, AllDone, NoneFailed
<1>3. CASE mpc # "join" /\ ~NothingQueued
  <2>1. mpc' # "join"
    <3>1. CASE \E s \in Scopes : Thread(s) \/ Input(s)
      BY <1>3, <3>1, ThreadGoes
    <3>2. CASE ~\E s \in Scopes : Thread(s) \/ Input(s)
      BY <1>3, <3>2
         DEF Next, Main, SemWait, JoinAndExit, TakeNewKey, TakeMatched,
             TakeUnmatched, Take, CreateOutput, CreateOutputFails, Signal, vars
    <3> QED BY <3>1, <3>2
  <2> QED BY <2>1 DEF LoopLeft
<1> QED BY <1>1, <1>2, <1>3

\* The inductive invariant of the module holds.
LEMMA Inductive == Spec => []NatPairInv
<1>1. Init => NatPairInv
  BY InitType, InitPlaced, InitPaired, InitBalanced DEF NatPairInv
<1>2. NatPairInv /\ [Next]_vars => NatPairInv'
  BY StepType, StepPlaced, StepAged, StepPairsSound, StepNoPairWaits, StepBalanced,
     StepLoopLeft DEF NatPairInv
<1> QED BY <1>1, <1>2, PTL DEF Spec
-----------------------------------------------------------------------------
(***************************************************************************)
(* The results.                                                            *)
(***************************************************************************)

\* A set with one element, as a count.
LEMMA OneOf ==
  ASSUME NEW S, NEW x, x \in S, \A y \in S : y = x
  PROVE  Cardinality(S) = 1
<1>1. S = {x}
  OBVIOUS
<1> QED BY <1>1, FS_Singleton

LEMMA NoneOf ==
  ASSUME NEW S, \A y \in S : FALSE
  PROVE  Cardinality(S) = 0
<1>1. S = {}
  OBVIOUS
<1> QED BY <1>1, FS_EmptySet

LEMMA PlacedOnce ==
  ASSUME Placed, NEW i \in Ids
  PROVE  Places(i) = 1
<1> DEFINE Q == {n \in DOMAIN q : q[n] = i}
           C == {k \in Keys : i \in cache[k]}
           E == {e \in evicted : e = i}
           O == {o \in sent : i \in o.ids}
<1>1. Queued(i) => Cardinality(Q) = 1
  <2>1. ASSUME NEW n \in Q PROVE Cardinality(Q) = 1
    <3>1. \A m \in Q : m = n
      BY DEF Placed
    <3> HIDE DEF Q
    <3> QED BY <2>1, <3>1, OneOf
  <2> QED BY <2>1 DEF Queued
<1>2. Cached(i) => Cardinality(C) = 1
  <2>1. ASSUME NEW k \in C PROVE Cardinality(C) = 1
    <3>1. \A m \in C : m = k
      BY DEF Placed
    <3> HIDE DEF C
    <3> QED BY <2>1, <3>1, OneOf
  <2> QED BY <2>1 DEF Cached
<1>3. i \in evicted => Cardinality(E) = 1
  <2>1. ASSUME i \in evicted PROVE i \in E /\ \A m \in E : m = i
    BY <2>1
  <2> HIDE DEF E
  <2> QED BY <2>1, OneOf
<1>4. Paired(i) => Cardinality(O) = 1
  <2>1. ASSUME NEW o \in O PROVE Cardinality(O) = 1
    <3>1. \A p \in O : p = o
      BY DEF Placed
    <3> HIDE DEF O
    <3> QED BY <2>1, <3>1, OneOf
  <2> QED BY <2>1 DEF Paired
<1>5. /\ ~Queued(i) => \A m \in Q : FALSE
      /\ ~Cached(i) => \A m \in C : FALSE
      /\ i \notin evicted => \A m \in E : FALSE
      /\ ~Paired(i) => \A m \in O : FALSE
  BY DEF Queued, Cached, Paired
<1>6. Places(i) = Cardinality(Q) + Cardinality(C) + Cardinality(E) + Cardinality(O)
  BY DEF Places
<1> HIDE DEF Q, C, E, O
<1>7. /\ ~Queued(i) => Cardinality(Q) = 0
      /\ ~Cached(i) => Cardinality(C) = 0
      /\ i \notin evicted => Cardinality(E) = 0
      /\ ~Paired(i) => Cardinality(O) = 0
  BY <1>5, NoneOf
<1>8. /\ Queued(i) => ~Cached(i) /\ i \notin evicted /\ ~Paired(i)
      /\ Cached(i) => i \notin evicted /\ ~Paired(i)
      /\ i \in evicted => ~Paired(i)
      /\ Queued(i) \/ Cached(i) \/ i \in evicted \/ Paired(i)
  BY DEF Placed
<1> QED BY <1>1, <1>2, <1>3, <1>4, <1>6, <1>7, <1>8

\* No flow handed over by a receiving thread is lost or doubled: it waits in the queue, is
\* cached under its own key, has left in one complete flow, or was cleaned out, and that
\* only after a flow that ended g_free_time later was paired (process_outgoing_data).
THEOREM FlowsAccountedCorrect == Spec => []FlowsAccounted
<1>1. NatPairInv => FlowsAccounted
  <2> SUFFICES ASSUME NatPairInv PROVE FlowsAccounted
    OBVIOUS
  <2>1. TypeInv /\ Placed /\ Aged
    BY DEF NatPairInv
  <2>2. \A i \in Ids : Places(i) = 1
    BY <2>1, PlacedOnce
  <2> QED BY <2>1, <2>2 DEF FlowsAccounted, TypeInv, Placed, Aged, Ids
<1> QED BY <1>1, Inductive, PTL

\* Each complete flow is made of one side from LAN and one from WAN that have the same key,
\* with the addresses taken from the right side and the time of both (operator==, complete
\* and sendToOutput).
THEOREM PairsSoundCorrect == Spec => []PairsSound
<1>1. NatPairInv => PairsSound
  BY DEF NatPairInv
<1> QED BY <1>1, Inductive, PTL

\* Two flows that make a pair never wait in the cache together: the second is compared with
\* all that are stored under its key before it is stored (process_outgoing_data).
THEOREM NoPairWaitsCorrect == Spec => []NoPairWaits
<1>1. NatPairInv => NoPairWaits
  BY DEF NatPairInv
<1> QED BY <1>1, Inductive, PTL

\* The wake-ups cover the queue in every interleaving of the threads, and main, unless a
\* receiving thread failed, takes an empty queue for the end only when both threads are past
\* their loops (process_incoming_data, sem_post and th_alive).
THEOREM NoFlowStrandedCorrect == Spec => []NoFlowStranded
<1>1. NatPairInv => NoFlowStranded
  <2> SUFFICES ASSUME NatPairInv PROVE NoFlowStranded
    OBVIOUS
  <2>0. TypeInv /\ Balanced /\ LoopLeft
    BY DEF NatPairInv
  <2> DEFINE S == {s \in Scopes : ppc[s] = "post"}
  <2>1. Cardinality(S) = Posts
    <3>1. "LAN" \in S <=> Posting("LAN") = 1
      BY DEF Posting, Scopes
    <3>2. "WAN" \in S <=> Posting("WAN") = 1
      BY DEF Posting, Scopes
    <3>3. Posting("LAN") \in {0, 1} /\ Posting("WAN") \in {0, 1}
      BY DEF Posting
    <3>4. S \subseteq {"LAN", "WAN"}
      BY DEF Scopes
    <3> HIDE DEF S
    <3>5. Posts = Posting("LAN") + Posting("WAN")
      BY DEF Posts
    <3>6. CASE "LAN" \in S /\ "WAN" \in S
      <4>1. S = {"LAN"} \cup {"WAN"} /\ "WAN" \notin {"LAN"}
        BY <3>4, <3>6
      <4>2. IsFiniteSet({"LAN"}) /\ Cardinality({"LAN"}) = 1
        BY FS_Singleton
      <4>3. Cardinality(S) = 2
        BY <4>1, <4>2, FS_AddElement
      <4> QED BY <3>1, <3>2, <3>5, <3>6, <4>3
    <3>7. CASE "LAN" \in S /\ "WAN" \notin S
      <4>1. \A y \in S : y = "LAN"
        BY <3>4, <3>7
      <4>2. Cardinality(S) = 1
        BY <3>7, <4>1, OneOf
      <4> QED BY <3>1, <3>2, <3>3, <3>5, <3>7, <4>2
    <3>8. CASE "LAN" \notin S /\ "WAN" \in S
      <4>1. \A y \in S : y = "WAN"
        BY <3>4, <3>8
      <4>2. Cardinality(S) = 1
        BY <3>8, <4>1, OneOf
      <4> QED BY <3>1, <3>2, <3>3, <3>5, <3>8, <4>2
    <3>9. CASE "LAN" \notin S /\ "WAN" \notin S
      <4>1. Cardinality(S) = 0
        BY <3>4, <3>9, NoneOf
      <4> QED BY <3>1, <3>2, <3>3, <3>5, <3>9, <4>1
    <3> QED BY <3>6, <3>7, <3>8, <3>9
  <2>2. Looping => Ups >= Len(q)
    BY <2>0 DEF Balanced
  <2>3. Looping => sem + Taking + Cardinality(S) >= Len(q)
    BY <2>0, <2>1, <2>2, UpsType DEF Ups
  <2>4. AllDone => alive = 0
    BY <2>0 DEF TypeInv, AllDone, Gone, Scopes
  <2> QED BY <2>0, <2>3, <2>4 DEF NoFlowStranded, Looping, Taking, LoopLeft, NoneFailed
<1> QED BY <1>1, Inductive, PTL

=============================================================================
