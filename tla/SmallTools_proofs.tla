------------------------- MODULE SmallTools_proofs -------------------------
(***************************************************************************)
(* Proofs about the small tools, for any values of their constants that    *)
(* meet what SmallTools assumes.  Each tool has its own invariant, which   *)
(* its steps preserve; a step of the whole is one of the active tool.      *)
(***************************************************************************)
EXTENDS SmallTools, FiniteSetTheorems, SequenceTheorems, WellFoundedInduction, TLAPS

\* The instances count as the modules about finite sets do.
LEMMA MSets == \A S : (M!IsFiniteSet(S) <=> IsFiniteSet(S)) /\ M!Cardinality(S) = Cardinality(S)
BY DEF M!IsFiniteSet, IsFiniteSet, M!Cardinality, Cardinality

LEMMA ISets == \A S : (I!IsFiniteSet(S) <=> IsFiniteSet(S)) /\ I!Cardinality(S) = Cardinality(S)
BY DEF I!IsFiniteSet, IsFiniteSet, I!Cardinality, Cardinality

-----------------------------------------------------------------------------
(****************************************************************************)
(* merger: what is sent is what came.                                       *)
(****************************************************************************)

\* Every field of a format that comes.
MergerFields == UNION {UNION MergerFormats[i] : i \in MergerIfcs}

MergerMessages == [num : Nat, fields : SUBSET MergerFields,
             ret : {"none", "ok", "format", "end", "junk", "failed"}, failed : Nat]

MergerPlaces == {"first", "start", "join", "recv", "lock", "exit", "crash"}

MergerType ==
  /\ mpc \in [MergerIfcs \cup {0} -> MergerPlaces]
  /\ ready \in Nat
  /\ msg \in [MergerIfcs -> MergerMessages]
  /\ inFields \in [MergerIfcs -> SUBSET MergerFields]
  /\ taken \in [MergerIfcs -> Nat]
  /\ over \in BOOLEAN /\ ignoreineof \in BOOLEAN

\* The threads are not started before the first messages went out, and only an output
\* without a template of the user's waits for these.
MergerPhases ==
  /\ mpc[0] \in {"first", "start"} => \A i \in MergerIfcs : mpc[i] = "first"
  /\ mpc[0] = "first" => user = NoTemplate

\* The first messages are received and then sent on in the order of the inputs.
FirstMessages ==
  mpc[0] = "first" =>
    /\ \A i \in MergerIfcs : /\ i <= ready => msg[i].num = 1
                             /\ i > ready => msg[i].num = 0
                             /\ inFields[i] = msg[i].fields
    /\ \E c \in Nat : /\ c = 0 \/ ready = Cardinality(MergerIfcs)
                      /\ c < Cardinality(MergerIfcs)
                      /\ taken = [i \in MergerIfcs |-> IF i <= c THEN 1 ELSE 0]

\* Nothing the input has had is still to be sent on, and its format is known.
UpToDate(i) ==
  /\ taken[i] >= msg[i].num
  /\ msg[i].failed = 0 => taken[i] = msg[i].num
  /\ inFields[i] = msg[i].fields

\* At the lock one message at most is still to be sent on, and exactly one when no receive
\* failed; its format is known unless it is new.
AtLock(i) ==
  /\ taken[i] + 1 >= msg[i].num
  /\ msg[i].failed = 0 => taken[i] + 1 = msg[i].num
  /\ msg[i].ret # "format" => inFields[i] = msg[i].fields

\* Junk goes out for a message of the end, or for the first message of an input only.
JunkFromEnd ==
  \A i \in MergerIfcs :
    /\ msg[i].ret = "end" => ignoreineof
    /\ msg[i].ret = "junk" => ignoreineof \/ (user = NoTemplate /\ msg[i].num = 1)

MergerThreads ==
  \A i \in MergerIfcs :
    /\ mpc[0] = "start" \/ mpc[i] = "recv" => UpToDate(i)
    /\ mpc[i] = "lock" => AtLock(i)

\* The output's template has grown by the format of every input.
Grown == user = NoTemplate => \A i \in MergerIfcs : inFields[i] \subseteq outFields

SentRight ==
  sent.num > (IF user = NoTemplate THEN 1 ELSE 0) /\ ~ignoreineof =>
    /\ user = NoTemplate => sent.fields \subseteq DOMAIN sent.out
    /\ \A f \in DOMAIN sent.out :
         sent.out[f] = IF f \in sent.fields THEN <<sent.ifc, sent.num>> ELSE M!Zero

MergerInv ==
  /\ MergerType /\ MergerPhases /\ FirstMessages /\ MergerThreads
  /\ JunkFromEnd /\ Grown /\ SentRight

LEMMA Inputs ==
  ASSUME M!Numbered
  PROVE  /\ Cardinality(MergerIfcs) \in Nat \ {0}
         /\ MergerIfcs = 1 .. Cardinality(MergerIfcs)
<1>1. Cardinality(MergerIfcs) \in Nat
  BY FS_CardinalityType, MSets DEF M!Numbered
<1>2. Cardinality(MergerIfcs) # 0
  BY FS_EmptySet, MSets DEF M!Numbered
<1> QED BY <1>1, <1>2, MSets DEF M!Numbered

\* A step of a thread touches that thread only, at most adds to the output's template,
\* and does not come before the threads were started.
LEMMA ThreadAlone ==
  ASSUME MergerInv, NEW i \in MergerIfcs, NEW l \in {"recv", "lock", "exit"}, M!GoTo(i, l),
         mpc[i] \in {"recv", "lock"}, i # 0
  PROVE  /\ mpc' \in [MergerIfcs \cup {0} -> MergerPlaces]
         /\ mpc'[i] = l /\ mpc'[0] = mpc[0] /\ mpc[0] \notin {"first", "start"}
         /\ \A j \in MergerIfcs : j # i => mpc'[j] = mpc[j]
<1>1. mpc[0] \notin {"first", "start"}
  BY DEF MergerInv, MergerPhases
<1> QED BY <1>1 DEF MergerInv, MergerType, M!GoTo, MergerPlaces

LEMMA MergerInitHolds == ASSUME M!Numbered, M!Init PROVE MergerInv
<1>1. Cardinality(MergerIfcs) \in Nat \ {0} /\ MergerIfcs = 1 .. Cardinality(MergerIfcs)
  BY Inputs
<1>2. 0 \notin MergerIfcs
  BY <1>1
<1>3. MergerType
  BY <1>2 DEF M!Init, MergerType, MergerMessages, M!NoMessage, MergerPlaces
<1>4. MergerPhases
  BY <1>1 DEF M!Init, MergerPhases
<1>5. FirstMessages
  <2>1. \A i \in MergerIfcs : msg[i].num = 0 /\ inFields[i] = msg[i].fields /\ ~(i <= ready)
    BY <1>1 DEF M!Init, M!NoMessage
  <2>2. taken = [i \in MergerIfcs |-> IF i <= 0 THEN 1 ELSE 0]
    BY <1>1 DEF M!Init
  <2> QED BY <1>1, <2>1, <2>2 DEF FirstMessages
<1>6. MergerThreads
  <2>1. \A i \in MergerIfcs : mpc[i] = "first" /\ UpToDate(i)
    BY <1>1 DEF M!Init, UpToDate, M!NoMessage
  <2> QED BY <2>1 DEF MergerThreads
<1>7. Grown /\ SentRight /\ JunkFromEnd
  BY DEF M!Init, Grown, SentRight, JunkFromEnd, M!NoMessage
<1> QED BY <1>3, <1>4, <1>5, <1>6, <1>7 DEF MergerInv

\* Before the threads are started.
LEMMA MergerMainKeeps ==
  ASSUME M!Numbered, MergerInv,
         M!ReceiveFirst \/ M!FirstFails \/ M!SendFirst \/ M!StartThreads \/ M!Join
  PROVE  MergerInv'
<1> DEFINE N == Cardinality(MergerIfcs)
<1>0. /\ N \in Nat \ {0} /\ MergerIfcs = 1 .. N
      /\ MergerType /\ MergerPhases /\ FirstMessages /\ MergerThreads
      /\ JunkFromEnd /\ Grown /\ SentRight
  BY Inputs DEF MergerInv
<1> HIDE DEF N
<1>1. CASE M!ReceiveFirst
  <2>1. PICK fields \in MergerFormats[ready + 1] :
          /\ msg' = [msg EXCEPT ![ready + 1] = [num |-> 1, fields |-> fields, ret |-> "format",
                                                 failed |-> 0]]
          /\ inFields' = [inFields EXCEPT ![ready + 1] = fields]
          /\ outFields' = outFields \cup fields
    BY <1>1 DEF M!ReceiveFirst
  <2>2. /\ ready \in Nat /\ ready < N /\ ready + 1 \in MergerIfcs /\ ready' = ready + 1
        /\ mpc[0] = "first"
        /\ UNCHANGED <<user, ignoreineof, mpc, outRec, sent, taken, over>>
    BY <1>0, <1>1, MSets DEF M!ReceiveFirst, MergerType, N
  <2>3. fields \subseteq MergerFields
    BY <2>2 DEF MergerFields
  <2>4. MergerType'
    BY <1>0, <2>1, <2>2, <2>3 DEF MergerType, MergerMessages
  <2>5. MergerPhases'
    BY <1>0, <2>2 DEF MergerPhases
  <2>6. FirstMessages'
    <3>1. PICK c \in Nat : /\ c = 0 \/ ready = N
                           /\ c < N
                           /\ taken = [i \in MergerIfcs |-> IF i <= c THEN 1 ELSE 0]
      BY <1>0, <2>2 DEF FirstMessages, N
    <3>2. c = 0
      BY <1>0, <2>2, <3>1
    <3>3. ASSUME NEW i \in MergerIfcs
          PROVE  /\ i <= ready' => msg'[i].num = 1
                 /\ i > ready' => msg'[i].num = 0
                 /\ inFields'[i] = msg'[i].fields
      <4>1. CASE i = ready + 1
        BY <1>0, <2>1, <2>2, <4>1 DEF MergerType
      <4>2. CASE i # ready + 1
        <5>1. msg'[i] = msg[i] /\ inFields'[i] = inFields[i]
          BY <1>0, <2>1, <4>2 DEF MergerType
        <5>2. (i <= ready' => i <= ready) /\ (i > ready' => i > ready)
          BY <1>0, <2>2, <4>2
        <5> QED BY <1>0, <2>2, <5>1, <5>2 DEF FirstMessages
      <4> QED BY <4>1, <4>2
    <3> QED BY <1>0, <2>2, <3>1, <3>2, <3>3 DEF FirstMessages, N
  <2>7. MergerThreads'
    <3>1. \A i \in MergerIfcs : mpc'[i] = "first"
      BY <1>0, <2>2 DEF MergerPhases
    <3> QED BY <2>2, <3>1 DEF MergerThreads
  <2>8. Grown'
    BY <1>0, <2>1, <2>2 DEF Grown, MergerType
  <2>9. SentRight'
    BY <1>0, <2>2 DEF SentRight
  <2>10. JunkFromEnd'
    BY <1>0, <2>1, <2>2 DEF JunkFromEnd, MergerType
  <2> QED BY <2>4, <2>5, <2>6, <2>7, <2>8, <2>9, <2>10 DEF MergerInv
<1>2. CASE M!FirstFails \/ M!Join
  <2>1. /\ mpc' = [mpc EXCEPT ![0] = "exit"] /\ mpc[0] \in {"first", "join"}
        /\ UNCHANGED <<user, ignoreineof, ready, msg, inFields, outFields, outRec, sent, taken, over>>
    BY <1>2 DEF M!FirstFails, M!Join, M!GoTo
  <2>2. /\ mpc'[0] = "exit" /\ 0 \notin MergerIfcs
        /\ \A i \in MergerIfcs : mpc'[i] = mpc[i]
        /\ mpc' \in [MergerIfcs \cup {0} -> MergerPlaces]
    BY <1>0, <2>1 DEF MergerType, MergerPlaces
  <2>3. MergerType'
    BY <1>0, <2>1, <2>2 DEF MergerType
  <2>4. MergerPhases' /\ FirstMessages'
    BY <2>2 DEF MergerPhases, FirstMessages
  <2>5. MergerThreads'
    BY <1>0, <2>1, <2>2 DEF MergerThreads, UpToDate, AtLock
  <2>6. Grown' /\ SentRight' /\ JunkFromEnd'
    BY <1>0, <2>1 DEF Grown, SentRight, JunkFromEnd
  <2> QED BY <2>3, <2>4, <2>5, <2>6 DEF MergerInv
<1>3. CASE M!SendFirst
  <2> DEFINE m == 1 + Cardinality({j \in MergerIfcs : taken[j] > 0})
  <2>1. /\ mpc[0] = "first" /\ ready = N
        /\ UNCHANGED <<user, ignoreineof, ready, msg, inFields, outFields, over>>
        /\ sent'.num = msg[m].num
        /\ taken' = [taken EXCEPT ![m] = @ + 1]
        /\ IF m = ready THEN mpc' = [mpc EXCEPT ![0] = "start"] ELSE UNCHANGED mpc
    BY <1>3, MSets DEF M!SendFirst, M!Send, M!Last, M!GoTo, N
  <2>2. PICK c \in Nat : /\ c < N
                         /\ taken = [i \in MergerIfcs |-> IF i <= c THEN 1 ELSE 0]
    BY <1>0, <2>1 DEF FirstMessages, N
  <2>3. m = c + 1
    <3>1. {j \in MergerIfcs : taken[j] > 0} = 1 .. c
      BY <1>0, <2>2
    <3>2. Cardinality(1 .. c) = c
      BY FS_Interval
    <3>3. Cardinality({j \in MergerIfcs : taken[j] > 0}) = c
      BY <3>1, <3>2
    <3> QED BY <2>2, <3>3
  <2> HIDE DEF m
  <2>4. m \in MergerIfcs /\ 0 \notin MergerIfcs
    BY <1>0, <2>2, <2>3
  <2>5. /\ taken' = [i \in MergerIfcs |-> IF i <= m THEN 1 ELSE 0]
        /\ taken' \in [MergerIfcs -> Nat]
    <3>1. /\ taken \in [MergerIfcs -> Nat]
          /\ taken' = [i \in MergerIfcs |-> IF i = m THEN taken[i] + 1 ELSE taken[i]]
      BY <1>0, <2>1 DEF MergerType
    <3>2. ASSUME NEW i \in MergerIfcs
          PROVE  taken'[i] = IF i <= m THEN 1 ELSE 0
      <4>1. i \in Nat /\ taken[i] = IF i <= c THEN 1 ELSE 0
        BY <1>0, <2>2
      <4> QED BY <2>2, <2>3, <3>1, <4>1
    <3> QED BY <3>1, <3>2
  <2>6. \A i \in MergerIfcs : msg[i].num = 1 /\ inFields[i] = msg[i].fields /\ mpc[i] = "first"
    BY <1>0, <2>1 DEF FirstMessages, MergerPhases
  <2>7. SentRight'
    <3>1. user' = NoTemplate /\ sent'.num = 1
      BY <1>0, <2>1, <2>4, <2>6 DEF MergerPhases
    <3> QED BY <3>1 DEF SentRight
  <2>8. Grown' /\ JunkFromEnd'
    BY <1>0, <2>1 DEF Grown, JunkFromEnd
  <2>9. CASE m = ready
    <3>1. /\ mpc'[0] = "start" /\ \A i \in MergerIfcs : mpc'[i] = mpc[i]
          /\ mpc' \in [MergerIfcs \cup {0} -> MergerPlaces]
      BY <1>0, <2>1, <2>4, <2>9 DEF MergerType, MergerPlaces
    <3>2. MergerType'
      BY <1>0, <2>1, <2>5, <3>1 DEF MergerType
    <3>3. MergerPhases' /\ FirstMessages'
      BY <2>6, <3>1 DEF MergerPhases, FirstMessages
    <3>4. \A i \in MergerIfcs : taken'[i] = 1
      BY <1>0, <2>1, <2>5, <2>9
    <3>5. MergerThreads'
      BY <2>1, <2>6, <3>1, <3>4 DEF MergerThreads, UpToDate
    <3> QED BY <2>7, <2>8, <3>2, <3>3, <3>5 DEF MergerInv
  <2>10. CASE m # ready
    <3>1. mpc' = mpc /\ m < N /\ m \in Nat
      BY <1>0, <2>1, <2>2, <2>3, <2>10
    <3>2. MergerType'
      BY <1>0, <2>1, <2>5, <3>1 DEF MergerType
    <3>3. MergerPhases'
      BY <1>0, <2>1, <3>1 DEF MergerPhases
    <3>4. FirstMessages'
      BY <1>0, <2>1, <2>5, <3>1 DEF FirstMessages, N
    <3>5. MergerThreads'
      BY <2>1, <2>6, <3>1 DEF MergerThreads
    <3> QED BY <2>7, <2>8, <3>2, <3>3, <3>4, <3>5 DEF MergerInv
  <2> QED BY <2>9, <2>10
<1>4. CASE M!StartThreads
  <2>1. /\ mpc[0] = "start"
        /\ UNCHANGED <<user, ignoreineof, ready, msg, inFields, outFields, outRec, sent, taken, over>>
    BY <1>4 DEF M!StartThreads
  <2>2. /\ mpc'[0] = "join" /\ \A i \in MergerIfcs : mpc'[i] = "recv"
        /\ mpc' \in [MergerIfcs \cup {0} -> MergerPlaces]
    BY <1>0, <1>4 DEF M!StartThreads, MergerType, MergerPlaces
  <2>3. MergerType'
    BY <1>0, <2>1, <2>2 DEF MergerType
  <2>4. MergerPhases' /\ FirstMessages'
    BY <2>2 DEF MergerPhases, FirstMessages
  <2>5. MergerThreads'
    BY <1>0, <2>1, <2>2 DEF MergerThreads, UpToDate
  <2>6. Grown' /\ SentRight' /\ JunkFromEnd'
    BY <1>0, <2>1 DEF Grown, SentRight, JunkFromEnd
  <2> QED BY <2>3, <2>4, <2>5, <2>6 DEF MergerInv
<1> QED BY <1>1, <1>2, <1>3, <1>4

\* A step of a thread that leaves the output alone keeps what is said of the output, and of
\* the other threads.
LEMMA ThreadKeeps ==
  ASSUME M!Numbered, MergerInv, NEW i \in MergerIfcs, NEW l \in {"recv", "lock", "exit"},
         M!GoTo(i, l), mpc[i] \in {"recv", "lock"},
         NEW m \in MergerMessages, msg' = [msg EXCEPT ![i] = m],
         UNCHANGED <<user, ignoreineof, ready, over, inFields, outFields, outRec, sent, taken>>,
         l # "recv", l = "lock" => AtLock(i)',
         m.ret = "end" => ignoreineof,
         m.ret = "junk" => ignoreineof \/ (user = NoTemplate /\ m.num = 1)
  PROVE  MergerInv'
<1>1. i # 0 /\ 0 \notin MergerIfcs
  BY Inputs
<1>2. /\ mpc' \in [MergerIfcs \cup {0} -> MergerPlaces]
      /\ mpc'[i] = l /\ mpc'[0] = mpc[0] /\ mpc[0] \notin {"first", "start"}
      /\ \A j \in MergerIfcs : j # i => mpc'[j] = mpc[j]
  BY <1>1, ThreadAlone
<1>3. MergerType /\ MergerThreads /\ JunkFromEnd /\ Grown /\ SentRight
  BY DEF MergerInv
<1>4. MergerType'
  BY <1>2, <1>3 DEF MergerType
<1>5. MergerPhases' /\ FirstMessages'
  BY <1>2 DEF MergerPhases, FirstMessages
<1>6. MergerThreads'
  <2>1. ASSUME NEW j \in MergerIfcs, j # i
        PROVE  msg'[j] = msg[j] /\ mpc'[j] = mpc[j]
    BY <1>2, <1>3, <2>1 DEF MergerType
  <2>2. ASSUME NEW j \in MergerIfcs, j # i
        PROVE  /\ mpc'[0] = "start" \/ mpc'[j] = "recv" => UpToDate(j)'
               /\ mpc'[j] = "lock" => AtLock(j)'
    BY <1>2, <1>3, <2>1, <2>2 DEF MergerThreads, UpToDate, AtLock
  <2>3. /\ mpc'[0] = "start" \/ mpc'[i] = "recv" => UpToDate(i)'
        /\ mpc'[i] = "lock" => AtLock(i)'
    BY <1>2
  <2> QED BY <2>2, <2>3 DEF MergerThreads
<1>7. Grown' /\ SentRight'
  BY <1>3 DEF Grown, SentRight
<1>8. JunkFromEnd'
  <2>1. \A j \in MergerIfcs : msg'[j] = IF j = i THEN m ELSE msg[j]
    BY <1>3 DEF MergerType
  <2> QED BY <1>3, <2>1 DEF JunkFromEnd
<1> QED BY <1>4, <1>5, <1>6, <1>7, <1>8 DEF MergerInv

LEMMA MergerReceiveKeeps ==
  ASSUME M!Numbered, MergerInv, NEW i \in MergerIfcs,
         M!Receive(i) \/ M!ReceiveEnd(i) \/ M!NoDataFmt(i)
  PROVE  MergerInv'
<1>0. /\ MergerType /\ JunkFromEnd /\ mpc[0] # "start" /\ (mpc[i] = "recv" => UpToDate(i))
      /\ UNCHANGED <<user, ignoreineof, ready, over, inFields, outFields, outRec, sent, taken>>
      /\ mpc[i] \in {"recv", "lock"}
  <2>1. /\ UNCHANGED <<user, ignoreineof, ready, over, inFields, outFields, outRec, sent, taken>>
        /\ mpc[i] \in {"recv", "lock"}
    BY DEF M!Receive, M!ReceiveEnd, M!NoDataFmt, M!Thread
  <2> QED BY <2>1 DEF MergerInv, MergerThreads, MergerPhases
<1>1. msg \in [MergerIfcs -> MergerMessages] /\ msg[i] \in MergerMessages
  BY <1>0 DEF MergerType
<1>2. CASE M!Receive(i)
  <2>1. PICK fields \in MergerFormats[i] :
          msg' = [msg EXCEPT ![i] = [num |-> @.num + 1, fields |-> fields, failed |-> @.failed,
                    ret |-> IF fields = @.fields THEN "ok" ELSE "format"]]
    BY <1>2 DEF M!Receive
  <2>2. PICK m : m = [num |-> msg[i].num + 1, fields |-> fields,
                      ret |-> IF fields = msg[i].fields THEN "ok" ELSE "format",
                      failed |-> msg[i].failed]
    OBVIOUS
  <2>3. fields \in SUBSET MergerFields
    BY DEF MergerFields
  <2>4. m \in MergerMessages
    BY <1>1, <2>2, <2>3 DEF MergerMessages
  <2>5. msg' = [msg EXCEPT ![i] = m] /\ msg'[i] = m
    BY <1>1, <2>1, <2>2
  <2>6. AtLock(i)'
    BY <1>0, <1>1, <1>2, <2>2, <2>5 DEF M!Receive, UpToDate, AtLock, MergerType, MergerMessages
  <2> QED BY <1>0, <1>2, <2>2, <2>4, <2>5, <2>6, ThreadKeeps DEF M!Receive
<1>3. CASE M!ReceiveEnd(i)
  <2>1. CASE ignoreineof /\ M!Last(i) < MaxMessages
    <3>1. PICK m : m = [num |-> msg[i].num + 1, fields |-> msg[i].fields, ret |-> "end",
                        failed |-> msg[i].failed]
      OBVIOUS
    <3>2. m \in MergerMessages
      BY <1>1, <3>1 DEF MergerMessages
    <3>3. msg' = [msg EXCEPT ![i] = m] /\ msg'[i] = m
      BY <1>1, <1>3, <2>1, <3>1 DEF M!ReceiveEnd, MergerMessages
    <3>4. AtLock(i)'
      BY <1>0, <1>1, <1>3, <2>1, <3>1, <3>3
      DEF M!ReceiveEnd, UpToDate, AtLock, MergerType, MergerMessages
    <3> QED BY <1>0, <1>3, <2>1, <3>1, <3>2, <3>3, <3>4, ThreadKeeps DEF M!ReceiveEnd
  <2>2. CASE ~(ignoreineof /\ M!Last(i) < MaxMessages)
    <3>1. msg' = [msg EXCEPT ![i] = msg[i]] /\ M!GoTo(i, "exit")
      BY <1>1, <1>3, <2>2 DEF M!ReceiveEnd
    <3> QED BY <1>0, <1>1, <3>1, ThreadKeeps DEF JunkFromEnd
  <2> QED BY <2>1, <2>2
<1>4. CASE M!NoDataFmt(i)
  <2>1. msg' = [msg EXCEPT ![i] = msg[i]] /\ M!GoTo(i, "exit")
    BY <1>1, <1>4 DEF M!NoDataFmt
  <2> QED BY <1>0, <1>1, <2>1, ThreadKeeps DEF JunkFromEnd
<1> QED BY <1>2, <1>3, <1>4

\* A receive that fails: the thread still holds the message it has sent on.  A crash ends
\* all of them.
LEMMA FailureKeeps ==
  ASSUME M!Numbered, MergerInv, NEW i \in MergerIfcs, M!ReceiveFails(i)
  PROVE  MergerInv'
<1> DEFINE stack == user = NoTemplate /\ msg[i].num = 1
           r == IF stack \/ msg[i].ret \in {"end", "junk"} THEN "junk" ELSE "failed"
<1>0. /\ MergerType /\ UpToDate(i) /\ JunkFromEnd /\ Grown /\ SentRight /\ mpc[i] = "recv"
      /\ UNCHANGED <<user, ignoreineof, ready, over, inFields, outFields, outRec, sent, taken>>
  BY DEF MergerInv, MergerThreads, M!ReceiveFails, M!Thread
<1>1. PICK m : m = [num |-> msg[i].num, fields |-> msg[i].fields, ret |-> r,
                    failed |-> msg[i].failed + 1]
  OBVIOUS
<1>2. /\ m \in MergerMessages /\ msg' = [msg EXCEPT ![i] = m] /\ msg'[i] = m
      /\ m.failed # 0 /\ taken[i] \in Nat /\ m.num \in Nat
  <2>1. msg' = [msg EXCEPT ![i] = [num |-> @.num, fields |-> @.fields, failed |-> @.failed + 1,
                                   ret |-> r]]
    BY DEF M!ReceiveFails, M!Last
  <2>2. msg \in [MergerIfcs -> MergerMessages] /\ msg[i] \in MergerMessages
    BY <1>0 DEF MergerType
  <2>3. m \in MergerMessages /\ m.failed # 0 /\ m.num \in Nat
    BY <1>1, <2>2 DEF MergerMessages
  <2>5. taken[i] \in Nat
    BY <1>0 DEF MergerType
  <2>4. msg' = [msg EXCEPT ![i] = m] /\ msg'[i] = m
    BY <1>1, <2>1, <2>2
  <2> QED BY <2>3, <2>4, <2>5
<1>6. /\ m.ret # "end" /\ m.ret # "format"
      /\ m.ret = "junk" => ignoreineof \/ (user = NoTemplate /\ m.num = 1)
  BY <1>0, <1>1 DEF JunkFromEnd
<1>3. CASE M!GoTo(i, "exit")
  BY <1>0, <1>2, <1>3, <1>6, ThreadKeeps
<1>4. CASE M!GoTo(i, "lock")
  <2>1. AtLock(i)'
    <3>1. inFields[i] = m.fields /\ taken[i] >= m.num
      BY <1>0, <1>1 DEF UpToDate
    <3> QED BY <1>0, <1>2, <3>1 DEF AtLock
  <2> QED BY <1>0, <1>2, <1>4, <1>6, <2>1, ThreadKeeps
<1>5. CASE mpc' = [t \in DOMAIN mpc |-> "crash"]
  <2>1. /\ mpc' \in [MergerIfcs \cup {0} -> MergerPlaces]
        /\ \A t \in MergerIfcs \cup {0} : mpc'[t] = "crash"
    BY <1>0, <1>5 DEF MergerType, MergerPlaces
  <2>2. MergerType'
    BY <1>0, <1>2, <2>1 DEF MergerType
  <2>3. MergerPhases' /\ FirstMessages' /\ MergerThreads'
    <3>1. 0 \notin MergerIfcs
      BY Inputs
    <3> QED BY <2>1, <3>1 DEF MergerPhases, FirstMessages, MergerThreads
  <2>4. Grown' /\ SentRight'
    BY <1>0 DEF Grown, SentRight
  <2>5. JunkFromEnd'
    <3>1. \A j \in MergerIfcs : msg'[j] = IF j = i THEN m ELSE msg[j]
      BY <1>0, <1>2 DEF MergerType
    <3> QED BY <1>0, <1>6, <3>1 DEF JunkFromEnd
  <2> QED BY <2>2, <2>3, <2>4, <2>5 DEF MergerInv
<1> QED BY <1>3, <1>4, <1>5 DEF M!ReceiveFails, M!GoTo

\* The critical section: what goes out is what came in, in the format the input has now, and
\* the other threads find their formats in the template.
LEMMA CriticalSectionKeeps ==
  ASSUME M!Numbered, MergerInv, NEW i \in MergerIfcs, M!Forward(i)
  PROVE  MergerInv'
<1>0. /\ MergerType /\ MergerThreads /\ Grown /\ SentRight /\ AtLock(i) /\ mpc[i] = "lock"
      /\ JunkFromEnd
      /\ UNCHANGED <<user, ignoreineof, ready, over, msg>>
  BY DEF MergerInv, MergerThreads, M!Forward, M!Thread
<1>1. /\ inFields' = [inFields EXCEPT ![i] = msg[i].fields]
      /\ inFields'[i] = msg[i].fields
  <2>1. inFields' = [inFields EXCEPT ![i] = IF msg[i].ret = "format" \/ inFields[i] = {}
                                            THEN msg[i].fields ELSE @]
    BY DEF M!Forward
  <2>2. inFields \in [MergerIfcs -> SUBSET MergerFields] /\ msg[i] \in MergerMessages
    BY <1>0 DEF MergerType
  <2> QED BY <1>0, <2>1, <2>2 DEF AtLock
<1>2. /\ outFields \subseteq outFields'
      /\ user = NoTemplate => msg[i].fields \subseteq outFields'
  BY <1>0 DEF M!Forward, Grown, AtLock
<1>3. PICK l \in {"recv", "exit"} :
        /\ M!GoTo(i, l)
        /\ l = "exit" => UNCHANGED <<sent, taken>>
        /\ l = "recv" => M!Send(i, outRec')
  BY DEF M!Forward
<1>4. i # 0 /\ 0 \notin MergerIfcs
  BY Inputs
<1>5. /\ mpc' \in [MergerIfcs \cup {0} -> MergerPlaces]
      /\ mpc'[i] = l /\ mpc'[0] = mpc[0] /\ mpc[0] \notin {"first", "start"}
      /\ \A j \in MergerIfcs : j # i => mpc'[j] = mpc[j]
  BY <1>0, <1>3, <1>4, ThreadAlone
<1>6. /\ taken' \in [MergerIfcs -> Nat]
      /\ \A j \in MergerIfcs : j # i => taken'[j] = taken[j]
      /\ l = "recv" => /\ taken'[i] >= msg[i].num
                       /\ msg[i].failed = 0 => taken'[i] = msg[i].num
  <2>1. taken \in [MergerIfcs -> Nat]
    BY <1>0 DEF MergerType
  <2>2. CASE l = "exit"
    BY <1>3, <2>1, <2>2
  <2>3. CASE l = "recv"
    <3>1. /\ taken' = [taken EXCEPT ![i] = @ + 1]
          /\ taken[i] + 1 >= msg[i].num
          /\ msg[i].failed = 0 => taken[i] + 1 = msg[i].num
      BY <1>0, <1>3, <2>3 DEF M!Send, AtLock
    <3> QED BY <2>1, <3>1
  <2> QED BY <2>2, <2>3
<1>7. MergerType'
  <2>1. msg[i].fields \in SUBSET MergerFields
    BY <1>0 DEF MergerType, MergerMessages
  <2> QED BY <1>0, <1>1, <1>5, <1>6, <2>1 DEF MergerType
<1>8. MergerPhases' /\ FirstMessages'
  BY <1>5 DEF MergerPhases, FirstMessages
<1>9. MergerThreads'
  <2>1. ASSUME NEW j \in MergerIfcs, j # i
        PROVE  inFields'[j] = inFields[j]
    BY <1>0, <1>1, <2>1 DEF MergerType
  <2>2. ASSUME NEW j \in MergerIfcs, j # i
        PROVE  /\ mpc'[0] = "start" \/ mpc'[j] = "recv" => UpToDate(j)'
               /\ mpc'[j] = "lock" => AtLock(j)'
    BY <1>0, <1>5, <1>6, <2>1, <2>2 DEF MergerThreads, UpToDate, AtLock
  <2>3. /\ mpc'[0] = "start" \/ mpc'[i] = "recv" => UpToDate(i)'
        /\ mpc'[i] = "lock" => AtLock(i)'
    BY <1>0, <1>1, <1>5, <1>6 DEF UpToDate
  <2> QED BY <2>2, <2>3 DEF MergerThreads
<1>10. Grown'
  <2>1. ASSUME NEW j \in MergerIfcs, user = NoTemplate
        PROVE  inFields'[j] \subseteq outFields'
    <3>1. CASE j = i
      BY <1>1, <1>2, <2>1, <3>1
    <3>2. CASE j # i
      <4>1. inFields'[j] = inFields[j]
        BY <1>0, <1>1, <3>2 DEF MergerType
      <4> QED BY <1>0, <1>2, <2>1, <4>1 DEF Grown
    <3> QED BY <3>1, <3>2
  <2> QED BY <1>0, <2>1 DEF Grown
<1>11. SentRight'
  <2>1. CASE l = "exit"
    BY <1>0, <1>3, <2>1 DEF SentRight
  <2>2. CASE l = "recv"
    <3>1. sent' = [ifc |-> i, num |-> msg[i].num, fields |-> msg[i].fields, out |-> outRec']
      BY <1>3, <2>2 DEF M!Send, M!Last
    <3>2. /\ DOMAIN outRec' = outFields'
          /\ ~ignoreineof /\ msg[i].num > (IF user = NoTemplate THEN 1 ELSE 0) =>
               \A f \in outFields' :
               outRec'[f] = IF f \in msg[i].fields THEN <<i, msg[i].num>> ELSE M!Zero
      <4>1. outRec' = M!UrCopyFields(M!Cleared(outFields'), i,
                        IF msg[i].ret \in {"end", "junk"} THEN M!Junk ELSE <<i, msg[i].num>>)
        BY DEF M!Forward, M!Last
      <4>2. outRec' = [f \in outFields' |->
                        IF f \in msg[i].fields
                        THEN (IF msg[i].ret \in {"end", "junk"} THEN M!Junk
                              ELSE <<i, msg[i].num>>)
                        ELSE M!Zero]
        BY <1>1, <4>1 DEF M!UrCopyFields, M!Cleared
      <4>3. ASSUME ~ignoreineof, msg[i].num > (IF user = NoTemplate THEN 1 ELSE 0)
            PROVE  msg[i].ret \notin {"end", "junk"}
        <5>1. msg[i].num \in Nat
          BY <1>0 DEF MergerType, MergerMessages
        <5> QED BY <1>0, <4>3, <5>1 DEF JunkFromEnd
      <4> QED BY <4>2, <4>3
    <3> QED BY <1>0, <1>2, <3>1, <3>2 DEF SentRight
  <2> QED BY <2>1, <2>2
<1>12. JunkFromEnd'
  BY <1>0 DEF JunkFromEnd
<1> QED BY <1>7, <1>8, <1>9, <1>10, <1>11, <1>12 DEF MergerInv

LEMMA MergerStepKeeps == ASSUME M!Numbered, MergerInv, (M!Next \/ UNCHANGED M!vars) PROVE MergerInv'
<1>1. CASE M!Terminate
  <2>1. /\ over' = TRUE
        /\ UNCHANGED <<user, ignoreineof, mpc, ready, msg, inFields, outFields, outRec, sent, taken>>
    BY <1>1 DEF M!Terminate
  <2>2. MergerType' /\ MergerPhases' /\ FirstMessages' /\ Grown' /\ SentRight'
    BY <2>1 DEF MergerInv, MergerType, MergerPhases, FirstMessages, Grown, SentRight
  <2>3. MergerThreads' /\ JunkFromEnd'
    BY <2>1 DEF MergerInv, MergerThreads, UpToDate, AtLock, JunkFromEnd
  <2> QED BY <2>2, <2>3 DEF MergerInv
<1>2. CASE UNCHANGED M!vars
  BY <1>2 DEF M!vars, MergerInv, MergerType, MergerPhases, FirstMessages, MergerThreads,
     UpToDate, AtLock, Grown, SentRight, JunkFromEnd
<1> QED BY <1>1, <1>2, MergerMainKeeps, MergerReceiveKeeps, FailureKeeps, CriticalSectionKeeps DEF M!Next

\* A record goes out with the values of the message it is of and in the format that message
\* came in, whatever the other threads do to the template; a thread that waits for the next
\* message has sent on every one before it, and once when no receive of its input failed
\* (one that fails sends the stale record again).
THEOREM SentAsReceivedCorrect == Spec => []SentAsReceived
<1>1. Init => (active = "merger" => MergerInv)
  BY MergerInitHolds, InputsNumbered DEF Init
<1>2. (active = "merger" => MergerInv) /\ [Next]_vars => (active = "merger" => MergerInv)'
  <2> SUFFICES ASSUME active = "merger" => MergerInv, [Next]_vars, active' = "merger"
               PROVE  MergerInv'
    OBVIOUS
  <2>1. CASE Next
    BY <2>1, MergerStepKeeps, InputsNumbered DEF Next
  <2>2. CASE UNCHANGED vars
    BY <2>2, MergerStepKeeps, InputsNumbered DEF vars, merger, M!vars
  <2> QED BY <2>1, <2>2
<1>3. MergerInv => M!SentAsReceived
  BY DEF MergerInv, SentRight, MergerThreads, UpToDate, M!SentAsReceived, M!Last
<1>4. (active = "merger" => MergerInv) => SentAsReceived
  BY <1>3 DEF SentAsReceived
<1> QED BY <1>1, <1>2, <1>4, PTL DEF Spec

-----------------------------------------------------------------------------
(****************************************************************************)
(* ipv6stats: the distinct addresses are those of the window.               *)
(****************************************************************************)

WindowEntry == [num : Nat, r : I!Record]

\* What a filter may hold.
FilterValues == V4Sources \cup V6Sources \cup {<<a.p48, a.p64>> : a \in V6Sources}
          \cup {a.p48 : a \in V6Sources}

Ipv6Type ==
  /\ size \in Sizes /\ initFlag \in BOOLEAN /\ inactive \in BOOLEAN
  /\ ends \in [I!Windows -> Int]
  /\ flows \in [I!Classes -> Nat]
  /\ uni \in [I!Windows -> [I!Kinds -> Nat]]
  /\ results \in [I!Windows -> [I!Kinds -> Nat]]
  /\ filters \in [I!Windows -> [I!Kinds -> SUBSET FilterValues]]
  /\ window \in [I!Windows -> SUBSET WindowEntry]
  /\ came \in Nat

\* The sources of the records of a window that are looked at.
V4Of(W) == {e.r.src : e \in {e \in W : e.r.enough /\ ~e.r.v6}}
V6Of(W) == {e.r.src : e \in {e \in W : e.r.enough /\ e.r.v6}}

\* The filters of a window hold what its records have brought.
HeldBy(f, W) ==
  /\ f["ipv4"] = V4Of(W)
  /\ f["ipv6"] = V6Of(W)
  /\ f["p64"] = {<<a.p48, a.p64>> : a \in V6Of(W)}
  /\ f["p48"] = {a.p48 : a \in V6Of(W)}

\* The counters of a window are the sizes of its filters.
CountedBy(u, f) ==
  \A k \in I!Kinds : IsFiniteSet(f[k]) /\ u[k] = Cardinality(f[k])

StraysIn(W) == \E e \in W : ~e.r.v6 /\ I!TunnelId(e.r.type) = I!TunnelTypeCount

\* The flows of the window W by class, when n records have come.
FlowsBy(fl, W, n) ==
  /\ \A e \in W : e.num <= n
  /\ IsFiniteSet(W)
  /\ fl["ipv4"] + fl["ipv6"] = Cardinality(W)
  /\ fl["native"] = fl["ipv6"]

\* The long window has all that the short one has, and the counters of a window without
\* strays are right: as long as the windows end together.
CountedIn(u, f, W) ==
  /\ W["short"] \subseteq W["long"]
  /\ \A w \in I!Windows : ~StraysIn(W[w]) => CountedBy(u[w], f[w])

\* The counters u, the filters f and the flows fl are those of the windows W.
WindowsRight(d, u, f, fl, W, n) ==
  /\ \A w \in I!Windows : HeldBy(f[w], W[w])
  /\ d => CountedIn(u, f, W)
  /\ FlowsBy(fl, W["short"], n)

Divides == size["long"] % size["short"] = 0

\* The end of the long window is that of a short one, of this one or of a later one.
Apart(e) == \E k \in Nat : e["long"] = e["short"] + k * size["short"]

Together == Divides /\ ~initFlag => Apart(ends)

\* Before the first record, and while none comes, there is nothing in the filters.
Quiet ==
  initFlag \/ inactive => \A w \in I!Windows : window[w] = {} /\ filters[w] = I!Empty

Ipv6Inv == Ipv6Type /\ Together /\ Quiet /\ WindowsRight(Divides, uni, filters, flows, window, came)
(* The windows end together.                                               *)

LEMMA SizesType ==
  ASSUME I!SizesChecked, Ipv6Type
  PROVE  size["short"] \in Nat \ {0} /\ size["long"] \in Nat \ {0} /\ I!Windows = {"short", "long"}
BY DEF I!SizesChecked, Ipv6Type, I!Windows

\* The quotient and the rest.
LEMMA Division ==
  ASSUME NEW t \in Nat, NEW s \in Nat \ {0}
  PROVE  \E q \in Nat : t = q * s + (t % s) /\ t % s \in 0 .. s - 1
<1>1. t \div s \in Nat /\ t = (t \div s) * s + (t % s) /\ t % s \in 0 .. s - 1
  OBVIOUS
<1> QED BY <1>1

\* A multiple of s above another is above it by a multiple of s.
LEMMA Difference ==
  ASSUME NEW s \in Nat \ {0}, NEW a \in Int, NEW b \in Int, a * s > b * s - s
  PROVE  a - b \in Nat /\ a * s = b * s + (a - b) * s
<1>1. (a - b + 1) * s > 0
  OBVIOUS
<1>2. a - b + 1 > 0
  BY <1>1
<1> QED BY <1>2

LEMMA LongIsMultiple ==
  ASSUME I!SizesChecked, Ipv6Type, Divides
  PROVE  \E j \in Nat \ {0} : size["long"] = j * size["short"]
<1>1. size["short"] \in Nat \ {0} /\ size["long"] \in Nat \ {0}
  BY SizesType
<1>2. PICK q \in Nat : size["long"] = q * size["short"] + (size["long"] % size["short"])
  BY <1>1, Division
<1>3. size["long"] = q * size["short"]
  BY <1>1, <1>2 DEF Divides
<1>4. q # 0
  BY <1>1, <1>3
<1> QED BY <1>3, <1>4

\* The windows the first record falls into.
LEMMA FirstEnds ==
  ASSUME I!SizesChecked, Ipv6Type, NEW t \in Nat,
         NEW e, e = [w \in I!Windows |-> I!GetClosestWindowEnd(t, size[w])]
  PROVE  /\ e \in [I!Windows -> Int]
         /\ \A w \in I!Windows : t < e[w]
         /\ Divides => Apart(e)
<1> DEFINE s == size["short"]  l == size["long"]
<1>1. s \in Nat \ {0} /\ l \in Nat \ {0} /\ I!Windows = {"short", "long"}
  BY SizesType
<1>2. PICK p \in Nat : t = p * s + (t % s) /\ t % s \in 0 .. s - 1
  BY <1>1, Division
<1>3. PICK q \in Nat : t = q * l + (t % l) /\ t % l \in 0 .. l - 1
  BY <1>1, Division
<1>4. e["short"] = t - (t % s) + s /\ e["long"] = t - (t % l) + l
  BY <1>1 DEF I!GetClosestWindowEnd
<1>5. e["short"] \in Int /\ e["long"] \in Int /\ t < e["short"] /\ t < e["long"]
  <2> HIDE DEF s, l
  <2> QED BY <1>1, <1>2, <1>3, <1>4
<1>6. ASSUME Divides PROVE Apart(e)
  <2>1. PICK j \in Nat \ {0} : l = j * s
    BY <1>6, LongIsMultiple
  <2> HIDE DEF s, l
  <2>2. e["short"] = (p + 1) * s /\ e["short"] - s <= t
    BY <1>1, <1>2, <1>4
  <2>3. e["long"] = q * l + l
    <3>1. PICK r \in Int : r = t % l
      BY <1>3
    <3>2. PICK n \in Int : n = q * l
      BY <1>1
    <3>3. t = n + r /\ e["long"] = t - r + l
      BY <1>3, <1>4, <3>1, <3>2
    <3> QED BY <1>1, <3>2, <3>3
  <2>4. e["long"] = ((q + 1) * j) * s
    <3>1. q * l + l = (q + 1) * l /\ (q + 1) * (j * s) = ((q + 1) * j) * s
      BY <1>1
    <3> QED BY <2>1, <2>3, <3>1
  <2> DEFINE a == (q + 1) * j  b == p + 1
  <2>5. a \in Int /\ b \in Int /\ a * s > b * s - s
    BY <1>1, <1>5, <2>2, <2>4
  <2>6. a - b \in Nat /\ a * s = b * s + (a - b) * s
    <3> HIDE DEF a, b
    <3> QED BY <1>1, <2>5, Difference
  <2>7. e["long"] = e["short"] + (a - b) * s
    BY <2>2, <2>4, <2>6
  <2> QED BY <2>6, <2>7 DEF Apart, s
<1> QED BY <1>1, <1>5, <1>6

\* When the long window is over, so is the short one; both move on together.
LEMMA NextEnds ==
  ASSUME I!SizesChecked, Ipv6Type, NEW e \in [I!Windows -> Int], NEW O \in SUBSET I!Windows,
         NEW e2, e2 = [w \in I!Windows |-> IF w \in O THEN e[w] + size[w] ELSE e[w]],
         Divides, Apart(e),
         \/ O = I!Windows
         \/ \E t \in Nat : O = {w \in I!Windows : t >= e[w]}
  PROVE  /\ Apart(e2)
         /\ "long" \in O => "short" \in O
<1> DEFINE s == size["short"]  l == size["long"]
<1>1. s \in Nat \ {0} /\ l \in Nat \ {0} /\ I!Windows = {"short", "long"}
  BY SizesType
<1>2. PICK j \in Nat \ {0} : l = j * s
  BY LongIsMultiple
<1>3. PICK k \in Nat : e["long"] = e["short"] + k * s
  BY DEF Apart
<1>4. /\ e["short"] \in Int /\ e["long"] \in Int
      /\ e2["short"] = IF "short" \in O THEN e["short"] + s ELSE e["short"]
      /\ e2["long"] = IF "long" \in O THEN e["long"] + l ELSE e["long"]
  BY <1>1
<1> SUFFICES /\ \E m \in Nat : e2["long"] = e2["short"] + m * s
             /\ "long" \in O => "short" \in O
  BY DEF Apart
<1> HIDE DEF s, l
<1>5. k * s \in Nat
  BY <1>1
<1>6. "long" \in O => "short" \in O
  BY <1>1, <1>3, <1>4, <1>5
<1>7. CASE "short" \notin O
  BY <1>3, <1>4, <1>6, <1>7
<1>8. CASE "long" \in O
  <2>1. e2["long"] = e2["short"] + (k + j - 1) * s
    BY <1>1, <1>2, <1>3, <1>4, <1>6, <1>8
  <2> QED BY <2>1, <1>6
<1>9. CASE "short" \in O /\ "long" \notin O
  <2>1. e["short"] < e["long"]
    BY <1>1, <1>4, <1>9
  <2>2. k # 0
    BY <1>1, <1>3, <1>4, <2>1
  <2>3. e2["long"] = e2["short"] + (k - 1) * s
    BY <1>1, <1>3, <1>4, <1>9
  <2> QED BY <1>6, <2>2, <2>3
<1> QED BY <1>7, <1>8, <1>9
(* What a source address adds to the filters and the counters.             *)

\* What the counter of a filter has to be when a value is put into it.
LEMMA CountAdd ==
  ASSUME NEW X, IsFiniteSet(X), NEW v
  PROVE  /\ IsFiniteSet(X \cup {v})
         /\ Cardinality(X) \in Nat
         /\ Cardinality(X \cup {v}) = Cardinality(X) + IF v \notin X THEN 1 ELSE 0
<1>1. Cardinality(X) \in Nat
  BY FS_CardinalityType
<1>2. CASE v \in X
  <2>1. X \cup {v} = X
    BY <1>2
  <2>2. Cardinality(X \cup {v}) = Cardinality(X) /\ IsFiniteSet(X \cup {v})
    BY <2>1
  <2> QED BY <1>1, <1>2, <2>2
<1>3. CASE v \notin X
  <2>1. IsFiniteSet(X \cup {v}) /\ Cardinality(X \cup {v}) = Cardinality(X) + 1
    BY <1>3, FS_AddElement
  <2> QED BY <1>1, <1>3, <2>1
<1> QED BY <1>2, <1>3

\* The value of an address in each filter of IPv6.
V6Value(a) == [ipv6 |-> a, p64 |-> <<a.p48, a.p64>>, p48 |-> a.p48]

\* The filters and the counters of a window with a new address, and a new IPv4 one.
WithV6(f, a) ==
  [k \in I!Kinds |-> IF k = "ipv4" THEN f[k] ELSE f[k] \cup {V6Value(a)[k]}]
CountV6(u, f, a) ==
  [k \in I!Kinds |-> u[k] + IF k # "ipv4" /\ V6Value(a)[k] \notin f[k] THEN 1 ELSE 0]
WithV4(f, a) == [f EXCEPT !["ipv4"] = @ \cup {a}]
CountV4(u, f, a) == [u EXCEPT !["ipv4"] = @ + IF a \notin f["ipv4"] THEN 1 ELSE 0]

\* The sources of the records with one more.
LEMMA SourcesOf ==
  ASSUME NEW W \in SUBSET WindowEntry, NEW x \in WindowEntry
  PROVE  /\ V4Of(W \cup {x}) = V4Of(W) \cup
              IF x.r.enough /\ ~x.r.v6 THEN {x.r.src} ELSE {}
         /\ V6Of(W \cup {x}) = V6Of(W) \cup
              IF x.r.enough /\ x.r.v6 THEN {x.r.src} ELSE {}
BY DEF V4Of, V6Of

\* The flow of an IPv4 address: the short filter answers for the short window, as what it
\* holds is in the long one too.
LEMMA AddV4Right ==
  ASSUME NEW s, NEW a, NEW W \in [I!Windows -> SUBSET WindowEntry],
         s.filters \in [I!Windows -> [I!Kinds -> SUBSET FilterValues]],
         s.uni \in [I!Windows -> [I!Kinds -> Nat]],
         \A w \in I!Windows : HeldBy(s.filters[w], W[w]),
         NEW w \in I!Windows
  PROVE  /\ I!AddV4(s, a).filters[w] = WithV4(s.filters[w], a)
         /\ W["short"] \subseteq W["long"] =>
              I!AddV4(s, a).uni[w] = CountV4(s.uni[w], s.filters[w], a)
<1>1. "short" \in I!Windows /\ "long" \in I!Windows
  BY DEF I!Windows
<1>2. I!AddV4(s, a).filters[w] = WithV4(s.filters[w], a)
  BY DEF I!AddV4, WithV4
<1>3. ASSUME W["short"] \subseteq W["long"]
      PROVE  I!AddV4(s, a).uni[w] = CountV4(s.uni[w], s.filters[w], a)
  <2>1. V4Of(W["short"]) \subseteq V4Of(W["long"])
    BY <1>3 DEF V4Of
  <2>2. s.filters["short"]["ipv4"] \subseteq s.filters["long"]["ipv4"]
    BY <1>1, <2>1 DEF HeldBy
  <2>3. a \notin s.filters[w]["ipv4"] <=>
          IF w = "long" THEN a \notin s.filters[w]["ipv4"]
          ELSE a \notin s.filters["long"]["ipv4"] \/ a \notin s.filters["short"]["ipv4"]
    BY <2>2 DEF I!Windows
  <2> QED BY <2>3 DEF I!AddV4, CountV4
<1> QED BY <1>2, <1>3

\* The flow of an IPv6 address: what is known is in the filters of its prefixes, which
\* are not asked.
LEMMA AddV6Right ==
  ASSUME NEW s, NEW a, NEW W,
         s.filters \in [I!Windows -> [I!Kinds -> SUBSET FilterValues]],
         s.uni \in [I!Windows -> [I!Kinds -> Nat]],
         NEW w \in I!Windows, HeldBy(s.filters[w], W)
  PROVE  /\ I!AddV6(s, a).filters[w] = WithV6(s.filters[w], a)
         /\ I!AddV6(s, a).uni[w] = CountV6(s.uni[w], s.filters[w], a)
<1> DEFINE order == <<"ipv6", "p64", "p48">>
           v == V6Value(a)
           f == s.filters[w]
           unknown(j) == \A i \in 1 .. j - 1 : v[order[i]] \notin f[order[i]]
           new(j) == unknown(j) /\ v[order[j]] \notin f[order[j]]
           place(k) == CHOOSE j \in DOMAIN order : order[j] = k
<1>1. /\ I!AddV6(s, a).filters[w] = [k \in I!Kinds |->
           IF k # "ipv4" /\ unknown(place(k)) THEN f[k] \cup {v[k]} ELSE f[k]]
      /\ I!AddV6(s, a).uni[w] = [k \in I!Kinds |->
           s.uni[w][k] + IF k # "ipv4" /\ new(place(k)) THEN 1 ELSE 0]
  BY DEF I!AddV6, V6Value
<1>2. place("ipv6") = 1 /\ place("p64") = 2 /\ place("p48") = 3
  OBVIOUS
<1>3. order[1] = "ipv6" /\ order[2] = "p64" /\ order[3] = "p48"
  OBVIOUS
<1>4. /\ v["ipv6"] = a /\ v["p64"] = <<a.p48, a.p64>> /\ v["p48"] = a.p48
      /\ a \in f["ipv6"] => v["p64"] \in f["p64"] /\ v["p48"] \in f["p48"]
  BY DEF V6Value, HeldBy
<1>5. v["p64"] \in f["p64"] => v["p48"] \in f["p48"]
  <2> SUFFICES ASSUME v["p64"] \in f["p64"] PROVE v["p48"] \in f["p48"]
    OBVIOUS
  <2>1. PICK b \in V6Of(W) : <<a.p48, a.p64>> = <<b.p48, b.p64>>
    BY <1>4 DEF HeldBy
  <2>2. a.p48 = b.p48
    BY <2>1
  <2> QED BY <1>4, <2>2 DEF HeldBy
<1>6. /\ unknown(1) /\ (unknown(2) <=> a \notin f["ipv6"])
      /\ unknown(3) <=> a \notin f["ipv6"] /\ v["p64"] \notin f["p64"]
  <2>1. 1 .. 1 - 1 = {} /\ 1 .. 2 - 1 = {1} /\ 1 .. 3 - 1 = {1, 2}
    OBVIOUS
  <2> HIDE DEF order, v, f
  <2> QED BY <1>3, <1>4, <2>1
<1> HIDE DEF order, v, f, place, unknown
<1>7. ASSUME NEW k \in I!Kinds, k # "ipv4"
      PROVE  /\ (IF unknown(place(k)) THEN f[k] \cup {v[k]} ELSE f[k]) = f[k] \cup {v[k]}
             /\ new(place(k)) <=> v[k] \notin f[k]
  <2>1. CASE k = "ipv6"
    BY <1>2, <1>3, <1>4, <1>6, <2>1
  <2>2. CASE k = "p64"
    BY <1>2, <1>3, <1>4, <1>6, <2>2
  <2>3. CASE k = "p48"
    BY <1>2, <1>3, <1>4, <1>5, <1>6, <2>3
  <2> QED BY <1>7, <2>1, <2>2, <2>3 DEF I!Kinds
<1>8. \A k \in I!Kinds : (IF k # "ipv4" /\ unknown(place(k)) THEN f[k] \cup {v[k]} ELSE f[k])
        = IF k = "ipv4" THEN f[k] ELSE f[k] \cup {v[k]}
  BY <1>7
<1>9. \A k \in I!Kinds : (IF k # "ipv4" /\ new(place(k)) THEN 1 ELSE 0)
        = IF k # "ipv4" /\ v[k] \notin f[k] THEN 1 ELSE 0
  BY <1>7
<1> HIDE DEF new
<1> QED BY <1>1, <1>8, <1>9 DEF v, f, WithV6, CountV6
(* A record of a flow.                                                     *)

\* The counters and the filters as Process has them in hand.
WindowCounters == [results : [I!Windows -> [I!Kinds -> Nat]], uni : [I!Windows -> [I!Kinds -> Nat]],
             filters : [I!Windows -> [I!Kinds -> SUBSET FilterValues]], flows : [I!Classes -> Nat]]

\* What is stray goes into the counters only.
LEMMA StrayType ==
  ASSUME NEW s \in WindowCounters, NEW r \in I!Record
  PROVE  /\ I!Stray(s, r).filters = s.filters
         /\ I!Stray(s, r).uni \in [I!Windows -> [I!Kinds -> Nat]]
         /\ ~StraysIn({[num |-> 0, r |-> r]}) => I!Stray(s, r) = s
<1>1. ~StraysIn({[num |-> 0, r |-> r]}) => I!Stray(s, r) = s
  BY DEF StraysIn, I!Stray
<1> DEFINE u == s.uni
           u2 == [u EXCEPT !["short"] = [@ EXCEPT !["ipv4"] = u["short"]["ipv4"] + 1, !["ipv6"] = u["short"]["ipv6"] + 1],
                           !["long"] = [@ EXCEPT !["ipv4"] = u["long"]["ipv4"] + 1]]
<1>2. u \in [I!Windows -> [I!Kinds -> Nat]]
  BY DEF WindowCounters
<1>3. u2 \in [I!Windows -> [I!Kinds -> Nat]]
  BY <1>2 DEF I!Windows, I!Kinds
<1>4. I!Stray(s, r).filters = s.filters
  BY DEF I!Stray, WindowCounters
<1>5. I!Stray(s, r).uni = u \/ I!Stray(s, r).uni = u2
  <2> SUFFICES [s EXCEPT !.uni.short.ipv4 = @ + 1, !.uni.long.ipv4 = @ + 1,
                         !.uni.short.ipv6 = @ + 1].uni = u2
    BY DEF I!Stray
  <2> QED BY <1>2 DEF WindowCounters, I!Windows, I!Kinds
<1> QED BY <1>1, <1>2, <1>3, <1>4, <1>5

\* The counters and the filters after the record r.
AddedBy(s, r) ==
  IF ~r.enough THEN I!Stray(s, r)
  ELSE IF r.v6 THEN I!AddV6(s, r.src) ELSE I!AddV4(I!Stray(s, r), r.src)

LEMMA AddedType ==
  ASSUME NEW s \in WindowCounters, NEW r \in I!Record
  PROVE  /\ AddedBy(s, r).uni \in [I!Windows -> [I!Kinds -> Nat]]
         /\ AddedBy(s, r).filters \in [I!Windows -> [I!Kinds -> SUBSET FilterValues]]
<1> DEFINE g == I!Stray(s, r)
<1>1. /\ s.filters \in [I!Windows -> [I!Kinds -> SUBSET FilterValues]]
      /\ s.uni \in [I!Windows -> [I!Kinds -> Nat]]
      /\ g.filters = s.filters /\ g.uni \in [I!Windows -> [I!Kinds -> Nat]]
  BY StrayType DEF WindowCounters
<1>2. CASE ~r.enough
  BY <1>1, <1>2 DEF AddedBy
<1>3. CASE r.enough /\ r.v6
  <2>1. r.src \in V6Sources /\ AddedBy(s, r) = I!AddV6(s, r.src)
    BY <1>3 DEF I!Record, AddedBy
  <2>2. \A k \in I!Kinds : k # "ipv4" => V6Value(r.src)[k] \in FilterValues
    BY <2>1 DEF V6Value, FilterValues, I!Kinds
  <2> DEFINE z == I!AddV6(s, r.src)
  <2>3. /\ z.filters = [w \in I!Windows |-> [k \in I!Kinds |-> z.filters[w][k]]]
        /\ z.uni = [w \in I!Windows |-> [k \in I!Kinds |-> z.uni[w][k]]]
    BY DEF I!AddV6
  <2>4. ASSUME NEW w \in I!Windows, NEW k \in I!Kinds
        PROVE  z.filters[w][k] \in SUBSET FilterValues /\ z.uni[w][k] \in Nat
    <3>1. \/ z.filters[w][k] = s.filters[w][k]
          \/ k # "ipv4" /\ z.filters[w][k] = s.filters[w][k] \cup {V6Value(r.src)[k]}
      BY DEF I!AddV6, V6Value
    <3>2. z.uni[w][k] = s.uni[w][k] + 0 \/ z.uni[w][k] = s.uni[w][k] + 1
      BY DEF I!AddV6
    <3>3. s.filters[w][k] \in SUBSET FilterValues /\ s.uni[w][k] \in Nat
      BY <1>1
    <3> HIDE DEF z
    <3> QED BY <2>2, <3>1, <3>2, <3>3
  <2> HIDE DEF z
  <2>5. z.filters \in [I!Windows -> [I!Kinds -> SUBSET FilterValues]]
    BY <2>3, <2>4
  <2>6. z.uni \in [I!Windows -> [I!Kinds -> Nat]]
    BY <2>3, <2>4
  <2> QED BY <2>1, <2>5, <2>6 DEF z
<1>4. CASE r.enough /\ ~r.v6
  <2>1. r.src \in FilterValues /\ AddedBy(s, r) = I!AddV4(g, r.src)
    BY <1>4 DEF I!Record, AddedBy, FilterValues
  <2> DEFINE z == I!AddV4(g, r.src)
  <2> HIDE DEF g
  <2>2. /\ z.filters = [w \in I!Windows |-> WithV4(g.filters[w], r.src)]
        /\ z.uni = [w \in I!Windows |-> z.uni[w]]
    BY DEF I!AddV4, WithV4
  <2>3. ASSUME NEW w \in I!Windows
        PROVE  /\ WithV4(g.filters[w], r.src) \in [I!Kinds -> SUBSET FilterValues]
               /\ z.uni[w] \in [I!Kinds -> Nat]
    <3>1. g.uni[w] \in [I!Kinds -> Nat] /\ g.filters[w] \in [I!Kinds -> SUBSET FilterValues]
      BY <1>1
    <3>2. \/ z.uni[w] = [g.uni[w] EXCEPT !["ipv4"] = @ + 0]
          \/ z.uni[w] = [g.uni[w] EXCEPT !["ipv4"] = @ + 1]
      BY DEF I!AddV4
    <3> HIDE DEF z
    <3> QED BY <2>1, <3>1, <3>2 DEF WithV4, I!Kinds
  <2> HIDE DEF z
  <2> QED BY <2>1, <2>2, <2>3 DEF z
<1> QED BY <1>2, <1>3, <1>4 DEF I!Record

LEMMA AddedRight ==
  ASSUME NEW s \in WindowCounters, NEW r \in I!Record, NEW n \in Nat,
         NEW W \in [I!Windows -> SUBSET WindowEntry],
         \A w \in I!Windows : HeldBy(s.filters[w], W[w]),
         NEW w \in I!Windows, NEW V, V = W[w] \cup {[num |-> n, r |-> r]}
  PROVE  /\ HeldBy(AddedBy(s, r).filters[w], V)
         /\ CountedIn(s.uni, s.filters, W) /\ ~StraysIn(V) =>
              CountedBy(AddedBy(s, r).uni[w], AddedBy(s, r).filters[w])
<1> DEFINE x == [num |-> n, r |-> r]
           f == s.filters[w]
           f2 == AddedBy(s, r).filters[w]
           u2 == AddedBy(s, r).uni[w]
<1>1. x \in WindowEntry /\ x.r = r
  BY DEF WindowEntry
<1>2. /\ W[w] \in SUBSET WindowEntry /\ HeldBy(f, W[w])
      /\ s.filters \in [I!Windows -> [I!Kinds -> SUBSET FilterValues]]
      /\ s.uni \in [I!Windows -> [I!Kinds -> Nat]] /\ DOMAIN f = I!Kinds
      /\ "short" \in I!Windows /\ "long" \in I!Windows
  BY DEF WindowCounters, I!Windows
<1>3. /\ V4Of(V) = V4Of(W[w]) \cup IF r.enough /\ ~r.v6 THEN {r.src} ELSE {}
      /\ V6Of(V) = V6Of(W[w]) \cup IF r.enough /\ r.v6 THEN {r.src} ELSE {}
  <2> HIDE DEF x
  <2> QED BY <1>1, <1>2, SourcesOf DEF x
<1>4. ASSUME CountedIn(s.uni, s.filters, W), ~StraysIn(V)
      PROVE  /\ I!Stray(s, r) = s
             /\ CountedBy(s.uni[w], f)
             /\ W["short"] \subseteq W["long"]
  <2>1. ~StraysIn(W[w])
    BY <1>4 DEF StraysIn
  <2>2. ~StraysIn({[num |-> 0, r |-> r]})
    <3>1. x \in V /\ x.r = r
      BY <1>1
    <3> HIDE DEF x
    <3> QED BY <1>4, <3>1 DEF StraysIn
  <2> QED BY <1>4, <2>1, <2>2, StrayType DEF CountedIn
<1>5. CASE ~r.enough
  <2>1. f2 = f
    BY <1>5, StrayType DEF AddedBy
  <2>2. HeldBy(f2, V)
    BY <1>2, <1>3, <1>5, <2>1 DEF HeldBy
  <2>3. ASSUME CountedIn(s.uni, s.filters, W), ~StraysIn(V) PROVE CountedBy(u2, f2)
    BY <1>4, <1>5, <2>1, <2>3 DEF AddedBy
  <2> QED BY <2>2, <2>3
<1>6. CASE r.enough /\ r.v6
  <2> DEFINE v == V6Value(r.src)
  <2>1. AddedBy(s, r) = I!AddV6(s, r.src)
    BY <1>6 DEF AddedBy
  <2>2. f2 = WithV6(f, r.src) /\ u2 = CountV6(s.uni[w], f, r.src)
    <3>1. /\ I!AddV6(s, r.src).filters[w] = WithV6(s.filters[w], r.src)
          /\ I!AddV6(s, r.src).uni[w] = CountV6(s.uni[w], s.filters[w], r.src)
      BY ONLY <1>2, AddV6Right, w \in I!Windows
    <3> QED BY <2>1, <3>1
  <2>3. HeldBy(f2, V)
    <3>1. /\ f2["ipv4"] = f["ipv4"] /\ f2["ipv6"] = f["ipv6"] \cup {r.src}
          /\ f2["p64"] = f["p64"] \cup {<<r.src.p48, r.src.p64>>}
          /\ f2["p48"] = f["p48"] \cup {r.src.p48}
      BY <2>2 DEF I!Kinds, V6Value, WithV6
    <3>2. V4Of(V) = V4Of(W[w]) /\ V6Of(V) = V6Of(W[w]) \cup {r.src}
      BY <1>3, <1>6
    <3>3. /\ {<<a.p48, a.p64>> : a \in V6Of(V)}
               = {<<a.p48, a.p64>> : a \in V6Of(W[w])} \cup {<<r.src.p48, r.src.p64>>}
          /\ {a.p48 : a \in V6Of(V)} = {a.p48 : a \in V6Of(W[w])} \cup {r.src.p48}
      BY <3>2
    <3> HIDE DEF f, f2, v
    <3> QED BY <1>2, <3>1, <3>2, <3>3 DEF HeldBy
  <2>4. ASSUME CountedIn(s.uni, s.filters, W), ~StraysIn(V) PROVE CountedBy(u2, f2)
    <3>1. CountedBy(s.uni[w], f)
      BY <1>4, <2>4
    <3> SUFFICES ASSUME NEW k \in I!Kinds
                 PROVE  IsFiniteSet(f2[k]) /\ u2[k] = Cardinality(f2[k])
      BY DEF CountedBy
    <3>2. IsFiniteSet(f[k]) /\ s.uni[w][k] = Cardinality(f[k])
      BY <3>1 DEF CountedBy
    <3>3. CASE k = "ipv4"
      <4>1. f2[k] = f[k] /\ u2[k] = s.uni[w][k] + 0
        BY <2>2, <3>3 DEF WithV6, CountV6
      <4>2. s.uni[w][k] \in Nat
        BY <1>2
      <4> QED BY <3>2, <4>1, <4>2
    <3>4. CASE k # "ipv4"
      <4>1. f2[k] = f[k] \cup {v[k]}
            /\ u2[k] = s.uni[w][k] + IF v[k] \notin f[k] THEN 1 ELSE 0
        BY <2>2, <3>4 DEF WithV6, CountV6
      <4> HIDE DEF f, f2, u2, v
      <4> QED BY <3>2, <4>1, CountAdd
    <3> QED BY <3>3, <3>4
  <2> QED BY <2>3, <2>4
<1>7. CASE r.enough /\ ~r.v6
  <2> DEFINE g == I!Stray(s, r)
  <2>1. AddedBy(s, r) = I!AddV4(g, r.src)
    BY <1>7 DEF AddedBy
  <2>2. g.filters = s.filters /\ g.uni \in [I!Windows -> [I!Kinds -> Nat]]
    BY StrayType
  <2>3. /\ f2 = WithV4(f, r.src)
        /\ W["short"] \subseteq W["long"] => u2 = CountV4(g.uni[w], f, r.src)
    <3> HIDE DEF g
    <3>1. /\ I!AddV4(g, r.src).filters[w] = WithV4(g.filters[w], r.src)
          /\ W["short"] \subseteq W["long"] =>
               I!AddV4(g, r.src).uni[w] = CountV4(g.uni[w], g.filters[w], r.src)
      BY <1>2, <2>2, AddV4Right
    <3> QED BY <2>1, <2>2, <3>1
  <2>4. HeldBy(f2, V)
    <3>1. /\ f2["ipv4"] = f["ipv4"] \cup {r.src} /\ f2["ipv6"] = f["ipv6"]
          /\ f2["p64"] = f["p64"] /\ f2["p48"] = f["p48"]
      BY <1>2, <2>3 DEF I!Kinds, WithV4
    <3> HIDE DEF f, f2
    <3> QED BY <1>2, <1>3, <1>7, <3>1 DEF HeldBy
  <2>5. ASSUME CountedIn(s.uni, s.filters, W), ~StraysIn(V) PROVE CountedBy(u2, f2)
    <3>1. /\ CountedBy(s.uni[w], f) /\ g = s
          /\ u2 = CountV4(s.uni[w], f, r.src)
      BY <1>4, <2>3, <2>5
    <3> SUFFICES ASSUME NEW k \in I!Kinds
                 PROVE  IsFiniteSet(f2[k]) /\ u2[k] = Cardinality(f2[k])
      BY DEF CountedBy
    <3>2. IsFiniteSet(f[k]) /\ s.uni[w][k] = Cardinality(f[k])
      BY <3>1 DEF CountedBy
    <3>3. CASE k # "ipv4"
      <4>1. f2[k] = f[k] /\ u2[k] = s.uni[w][k]
        BY <1>2, <2>3, <3>1, <3>3 DEF WithV4, CountV4
      <4> QED BY <3>2, <4>1
    <3>4. CASE k = "ipv4"
      <4>1. f2[k] = f[k] \cup {r.src}
            /\ u2[k] = s.uni[w][k] + IF r.src \notin f[k] THEN 1 ELSE 0
        BY <1>2, <2>3, <3>1, <3>4 DEF WithV4, CountV4
      <4> HIDE DEF f, f2, u2
      <4> QED BY <3>2, <4>1, CountAdd
    <3> QED BY <3>3, <3>4
  <2> QED BY <2>4, <2>5
<1> QED BY <1>5, <1>6, <1>7 DEF I!Record
(* The flows by class.                                                     *)

LEMMA TunnelNames ==
  /\ I!TunnelTypeCount = 7
  /\ I!Tunnels[1] = "native"
  /\ \A i \in 1 .. 7 : I!Tunnels[i] \in I!Classes \ {"ipv4", "ipv6"} /\ (I!Tunnels[i] = "native" => i = 1)
  /\ "ipv4" \in I!Classes /\ "ipv6" \in I!Classes /\ "native" \in I!Classes
<1>1. I!TunnelTypeCount = 7 /\ DOMAIN I!Tunnels = 1 .. 7
  BY DEF I!TunnelTypeCount, I!Tunnels
<1>2. /\ I!Tunnels[1] = "native" /\ I!Tunnels[2] = "teredo" /\ I!Tunnels[3] = "isatap"
      /\ I!Tunnels[4] = "6to4" /\ I!Tunnels[5] = "ayiya" /\ I!Tunnels[6] = "proto41"
      /\ I!Tunnels[7] = "6over4"
  BY DEF I!Tunnels
<1>3. \A i \in 1 .. 7 : I!Tunnels[i] \notin {"ipv4", "ipv6"} /\ (I!Tunnels[i] = "native" => i = 1)
  <2> SUFFICES ASSUME NEW i \in 1 .. 7
               PROVE  I!Tunnels[i] \notin {"ipv4", "ipv6"} /\ (I!Tunnels[i] = "native" => i = 1)
    OBVIOUS
  <2>1. i = 1 \/ i = 2 \/ i = 3 \/ i = 4 \/ i = 5 \/ i = 6 \/ i = 7
    OBVIOUS
  <2> QED BY <1>2, <2>1
<1> QED BY <1>1, <1>2, <1>3 DEF I!Classes

LEMMA TunnelIdType == ASSUME NEW t PROVE I!TunnelId(t) \in Nat
<1> DEFINE B == {b \in 0 .. I!TunnelTypeCount - 1 : 2 ^ b <= t}
<1>1. IsFiniteSet(0 .. I!TunnelTypeCount - 1)
  <2>1. I!TunnelTypeCount - 1 \in Int /\ 0 \in Int
    BY TunnelNames
  <2> QED BY <2>1, FS_Interval
<1>2. IsFiniteSet(B)
  BY <1>1, FS_Subset
<1> QED BY <1>2, FS_CardinalityType, ISets DEF I!TunnelId

\* The flows by class after a flow more.
FlowsAfter(fl, r) ==
  LET id == IF r.v6 THEN 0 ELSE I!TunnelId(r.type)
      tunnel == IF id < I!TunnelTypeCount /\ (r.v6 \/ id > 0) THEN {I!Tunnels[id + 1]} ELSE {}
  IN [c \in DOMAIN fl |->
        fl[c] + IF c \in ({IF r.v6 THEN "ipv6" ELSE "ipv4"} \cup tunnel) THEN 1 ELSE 0]

\* The classes of a flow: the tunnels are those of IPv4, but for the first one.
LEMMA FlowsRight ==
  ASSUME NEW fl \in [I!Classes -> Nat], NEW W \in SUBSET WindowEntry, NEW n \in Nat, NEW r \in I!Record,
         FlowsBy(fl, W, n)
  PROVE  /\ FlowsAfter(fl, r) \in [I!Classes -> Nat]
         /\ FlowsBy(FlowsAfter(fl, r), W \cup {[num |-> n + 1, r |-> r]}, n + 1)
<1> DEFINE x == [num |-> n + 1, r |-> r]  V == W \cup {x}
           id == IF r.v6 THEN 0 ELSE I!TunnelId(r.type)
           tunnel == IF id < I!TunnelTypeCount /\ (r.v6 \/ id > 0) THEN {I!Tunnels[id + 1]} ELSE {}
           fl2 == FlowsAfter(fl, r)
<1>0. fl2 = [c \in DOMAIN fl |->
        fl[c] + IF c \in ({IF r.v6 THEN "ipv6" ELSE "ipv4"} \cup tunnel) THEN 1 ELSE 0]
  BY DEF FlowsAfter
<1>1. id \in Nat /\ r.v6 \in BOOLEAN
  BY TunnelIdType DEF I!Record
<1> HIDE DEF fl2
<1>2. fl2 \in [I!Classes -> Nat]
  <2>1. fl2 = [c \in I!Classes |->
           fl[c] + IF c \in ({IF r.v6 THEN "ipv6" ELSE "ipv4"} \cup tunnel) THEN 1 ELSE 0]
    BY <1>0
  <2> QED BY <2>1
<1>3. /\ tunnel \cap {"ipv4", "ipv6"} = {}
      /\ "native" \in tunnel <=> r.v6
  <2>1. CASE r.v6
    <3>1. id = 0 /\ tunnel = {I!Tunnels[1]}
      BY <2>1, TunnelNames
    <3> QED BY <2>1, <3>1, TunnelNames
  <2>2. CASE ~r.v6 /\ id > 0 /\ id < 7
    <3>1. tunnel = {I!Tunnels[id + 1]} /\ id + 1 \in 1 .. 7 /\ id + 1 # 1
      BY <1>1, <2>2, TunnelNames
    <3> QED BY <2>2, <3>1, TunnelNames
  <2>3. CASE ~r.v6 /\ ~(id > 0 /\ id < 7)
    <3>1. tunnel = {}
      BY <1>1, <2>3, TunnelNames
    <3> QED BY <2>3, <3>1
  <2> QED BY <1>1, <2>1, <2>2, <2>3
<1>4. /\ fl2["ipv4"] = fl["ipv4"] + IF r.v6 THEN 0 ELSE 1
      /\ fl2["ipv6"] = fl["ipv6"] + IF r.v6 THEN 1 ELSE 0
      /\ fl2["native"] = fl["native"] + IF r.v6 THEN 1 ELSE 0
  BY <1>0, <1>3, TunnelNames
<1>5. IsFiniteSet(W) /\ x \notin W /\ \A e \in V : e.num <= n + 1
  <2>1. \A e \in W : e.num \in Nat /\ e.num <= n
    BY DEF FlowsBy, WindowEntry
  <2>2. x.num = n + 1
    OBVIOUS
  <2> HIDE DEF x
  <2> QED BY <2>1, <2>2 DEF FlowsBy
<1>6. IsFiniteSet(V) /\ Cardinality(V) = Cardinality(W) + 1
  <2> HIDE DEF x
  <2> QED BY <1>5, FS_AddElement
<1>7. fl["ipv4"] \in Nat /\ fl["ipv6"] \in Nat /\ fl["native"] \in Nat
  BY TunnelNames
<1>8. fl2["ipv4"] + fl2["ipv6"] = Cardinality(V) /\ fl2["native"] = fl2["ipv6"]
  <2>1. Cardinality(W) = fl["ipv4"] + fl["ipv6"] /\ fl["native"] = fl["ipv6"]
    BY DEF FlowsBy
  <2> HIDE DEF V
  <2> QED BY <1>1, <1>4, <1>6, <1>7, <2>1
<1> QED BY <1>2, <1>5, <1>6, <1>8 DEF FlowsBy, fl2
(* The steps.                                                              *)

LEMMA Ipv6InitHolds == ASSUME I!Init, I!SizesChecked PROVE Ipv6Inv
<1>1. /\ I!Windows = {"short", "long"} /\ \A w \in I!Windows : window[w] = {} /\ filters[w] = I!Empty
      /\ \A w \in I!Windows : uni[w] = I!None
      /\ initFlag = TRUE
  BY DEF I!Init, I!Windows
<1>2. Ipv6Type
  <2>1. /\ I!None \in [I!Kinds -> Nat] /\ I!Empty \in [I!Kinds -> SUBSET FilterValues]
        /\ {} \in SUBSET WindowEntry /\ 0 \in Nat /\ 0 \in Int
    BY DEF I!None, I!Empty
  <2> QED BY <2>1 DEF I!Init, Ipv6Type
<1>3. HeldBy(I!Empty, {}) /\ CountedBy(I!None, I!Empty)
  BY FS_EmptySet DEF HeldBy, CountedBy, I!None, I!Empty, V4Of, V6Of, I!Kinds
<1>4. FlowsBy(flows, window["short"], came)
  BY <1>1, FS_EmptySet, TunnelNames DEF FlowsBy, I!Init
<1>5. WindowsRight(Divides, uni, filters, flows, window, came)
  BY <1>1, <1>3, <1>4 DEF WindowsRight, CountedIn
<1> QED BY <1>1, <1>2, <1>5 DEF Ipv6Inv, Together, Quiet

\* What is cleared is right for windows without records.
LEMMA EmptyRight ==
  /\ HeldBy(I!Empty, {}) /\ CountedBy(I!None, I!Empty)
  /\ I!None \in [I!Kinds -> Nat] /\ I!Empty \in [I!Kinds -> SUBSET FilterValues]
BY FS_EmptySet DEF HeldBy, CountedBy, I!None, I!Empty, V4Of, V6Of, I!Kinds

\* The windows that are over, cleared; the long one is not cleared alone.
LEMMA FlushRight ==
  ASSUME Ipv6Inv, NEW O \in SUBSET I!Windows, Divides => ("long" \in O => "short" \in O),
         NEW W, W = [w \in I!Windows |-> IF w \in O THEN {} ELSE window[w]]
  PROVE  /\ I!Flushed(O) \in WindowCounters
         /\ W \in [I!Windows -> SUBSET WindowEntry]
         /\ WindowsRight(Divides, I!Flushed(O).uni, I!Flushed(O).filters, I!Flushed(O).flows, W, came)
<1> DEFINE g == I!Flushed(O)
<1>1. Ipv6Type /\ WindowsRight(Divides, uni, filters, flows, window, came)
  BY DEF Ipv6Inv
<1>2. "short" \in I!Windows /\ "long" \in I!Windows
  BY DEF I!Windows
<1>3. /\ g = [results |-> g.results, uni |-> g.uni, filters |-> g.filters, flows |-> g.flows]
      /\ g.results = [w \in I!Windows |-> IF w \in O THEN uni[w] ELSE results[w]]
      /\ g.uni = [w \in I!Windows |-> IF w \in O THEN I!None ELSE uni[w]]
      /\ g.filters = [w \in I!Windows |-> IF w \in O THEN I!Empty ELSE filters[w]]
      /\ g.flows = IF "short" \in O THEN [c \in I!Classes |-> 0] ELSE flows
  BY DEF I!Flushed
<1>4. g \in WindowCounters
  <2>1. /\ g.results \in [I!Windows -> [I!Kinds -> Nat]] /\ g.uni \in [I!Windows -> [I!Kinds -> Nat]]
        /\ g.filters \in [I!Windows -> [I!Kinds -> SUBSET FilterValues]]
        /\ g.flows \in [I!Classes -> Nat]
    <3> HIDE DEF g
    <3> QED BY <1>1, <1>3, EmptyRight DEF Ipv6Type
  <2> HIDE DEF g
  <2> QED BY <1>3, <2>1 DEF WindowCounters
<1>5. W \in [I!Windows -> SUBSET WindowEntry]
  BY <1>1 DEF Ipv6Type
<1> HIDE DEF g
<1>6. \A w \in I!Windows : HeldBy(g.filters[w], W[w])
  BY <1>1, <1>3, EmptyRight DEF WindowsRight
<1>7. ASSUME Divides PROVE CountedIn(g.uni, g.filters, W)
  <2>1. CountedIn(uni, filters, window)
    BY <1>1, <1>7 DEF WindowsRight
  <2>2. W["short"] \subseteq W["long"]
    BY <1>2, <1>7, <2>1 DEF CountedIn
  <2>3. ASSUME NEW w \in I!Windows, ~StraysIn(W[w]) PROVE CountedBy(g.uni[w], g.filters[w])
    BY <1>3, <2>1, <2>3, EmptyRight DEF CountedIn
  <2> QED BY <2>2, <2>3 DEF CountedIn
<1>8. FlowsBy(g.flows, W["short"], came)
  <2>1. CASE "short" \in O
    BY <1>2, <1>3, <2>1, FS_EmptySet, TunnelNames DEF FlowsBy
  <2>2. CASE "short" \notin O
    BY <1>1, <1>2, <1>3, <2>2 DEF WindowsRight
  <2> QED BY <2>1, <2>2
<1> QED BY <1>4, <1>5, <1>6, <1>7, <1>8 DEF WindowsRight, g

LEMMA RecordKeeps == ASSUME I!SizesChecked, Ipv6Inv, I!Process PROVE Ipv6Inv'
<1>1. PICK t \in 0 .. MaxSeconds, r \in I!Record :
       LET first == [w \in I!Windows |-> IF initFlag THEN I!GetClosestWindowEnd(t, size[w]) ELSE ends[w]]
           past == {w \in I!Windows : t >= first[w]}
           cleared == IF initFlag THEN I!Flushed(I!Windows) ELSE I!Flushed(past)
       IN /\ ends' = [w \in I!Windows |-> IF w \in past THEN first[w] + size[w] ELSE first[w]]
          /\ results' = IF initFlag THEN results ELSE cleared.results
          /\ filters' = AddedBy(cleared, r).filters /\ uni' = AddedBy(cleared, r).uni
          /\ flows' = FlowsAfter(cleared.flows, r)
          /\ window' = [w \in I!Windows |->
               (IF initFlag \/ w \in past THEN {} ELSE window[w]) \cup {[num |-> came + 1, r |-> r]}]
  BY DEF I!Process, AddedBy, FlowsAfter
<1> DEFINE first == [w \in I!Windows |-> IF initFlag THEN I!GetClosestWindowEnd(t, size[w]) ELSE ends[w]]
           past == {w \in I!Windows : t >= first[w]}
           O == IF initFlag THEN I!Windows ELSE past
           s == I!Flushed(O)
           W == [w \in I!Windows |-> IF w \in O THEN {} ELSE window[w]]
           x == [num |-> came + 1, r |-> r]
<1>2. /\ initFlag' = FALSE /\ inactive' = FALSE /\ came' = came + 1 /\ size' = size
      /\ t \in Nat /\ came \in Nat /\ initFlag \in BOOLEAN
      /\ "short" \in I!Windows /\ "long" \in I!Windows /\ Ipv6Type
  BY DEF I!Process, I!SizesChecked, Ipv6Inv, Ipv6Type, I!Windows
<1>3. /\ ends' = [w \in I!Windows |-> IF w \in past THEN first[w] + size[w] ELSE first[w]]
      /\ results' = IF initFlag THEN results ELSE s.results
      /\ filters' = AddedBy(s, r).filters /\ uni' = AddedBy(s, r).uni
      /\ flows' = FlowsAfter(s.flows, r)
      /\ window' = [w \in I!Windows |-> W[w] \cup {x}]
  <2>1. s = IF initFlag THEN I!Flushed(I!Windows) ELSE I!Flushed(past)
    OBVIOUS
  <2>2. \A w \in I!Windows : W[w] = IF initFlag \/ w \in past THEN {} ELSE window[w]
    OBVIOUS
  <2> HIDE DEF s, W
  <2> QED BY <1>1, <2>1, <2>2
<1>4. /\ first \in [I!Windows -> Int] /\ past \in SUBSET I!Windows /\ O \in SUBSET I!Windows
      /\ Divides => Apart(first)
  <2>1. CASE initFlag
    <3>1. first = [w \in I!Windows |-> I!GetClosestWindowEnd(t, size[w])]
      BY <2>1
    <3> HIDE DEF first
    <3>2. first \in [I!Windows -> Int] /\ (Divides => Apart(first))
      BY <1>2, <3>1, FirstEnds
    <3> QED BY <3>2
  <2>2. CASE ~initFlag
    <3>1. first = ends
      BY <1>2, <2>2 DEF Ipv6Type
    <3> HIDE DEF first
    <3> QED BY <1>2, <2>2, <3>1 DEF Ipv6Inv, Ipv6Type, Together
  <2> QED BY <2>1, <2>2
<1>5. Divides => Apart(ends') /\ ("long" \in past => "short" \in past)
  <2> HIDE DEF first
  <2> QED BY <1>2, <1>3, <1>4, NextEnds
<1>6. ends' \in [I!Windows -> Int]
  <2>1. \A w \in I!Windows : first[w] \in Int /\ size[w] \in Int
    BY <1>4, SizesType, <1>2
  <2> HIDE DEF first, past
  <2> QED BY <1>3, <2>1
<1>7. Divides => ("long" \in O => "short" \in O)
  BY <1>2, <1>5
<1>8. /\ s \in WindowCounters /\ W \in [I!Windows -> SUBSET WindowEntry]
      /\ WindowsRight(Divides, s.uni, s.filters, s.flows, W, came)
  <2> HIDE DEF O
  <2> QED BY <1>4, <1>7, FlushRight
<1>9. x \in WindowEntry
  BY <1>2 DEF WindowEntry
<1> HIDE DEF s, W, O, past, first
<1>10. /\ flows' \in [I!Classes -> Nat]
       /\ FlowsBy(flows', window'["short"], came')
  <2>1. s.flows \in [I!Classes -> Nat] /\ FlowsBy(s.flows, W["short"], came)
        /\ W["short"] \in SUBSET WindowEntry
    BY <1>2, <1>8 DEF WindowCounters, WindowsRight
  <2>2. window'["short"] = W["short"] \cup {[num |-> came + 1, r |-> r]}
    BY <1>2, <1>3
  <2>3. /\ FlowsAfter(s.flows, r) \in [I!Classes -> Nat]
        /\ FlowsBy(FlowsAfter(s.flows, r), W["short"] \cup {[num |-> came + 1, r |-> r]}, came + 1)
    BY <1>2, <2>1, FlowsRight
  <2> QED BY <1>2, <1>3, <2>2, <2>3
<1>11. /\ uni' \in [I!Windows -> [I!Kinds -> Nat]]
       /\ filters' \in [I!Windows -> [I!Kinds -> SUBSET FilterValues]]
       /\ results' \in [I!Windows -> [I!Kinds -> Nat]]
       /\ window' \in [I!Windows -> SUBSET WindowEntry]
  <2>1. uni' \in [I!Windows -> [I!Kinds -> Nat]] /\ filters' \in [I!Windows -> [I!Kinds -> SUBSET FilterValues]]
    BY <1>3, <1>8, AddedType
  <2>2. results' \in [I!Windows -> [I!Kinds -> Nat]]
    BY <1>2, <1>3, <1>8 DEF Ipv6Type, WindowCounters
  <2>3. window' \in [I!Windows -> SUBSET WindowEntry]
    <3> HIDE DEF x
    <3> QED BY <1>3, <1>8, <1>9
  <2> QED BY <2>1, <2>2, <2>3
<1>12. Ipv6Type'
  <2>1. initFlag' \in BOOLEAN /\ inactive' \in BOOLEAN
    BY <1>2
  <2>2. came' \in Nat
    <3>1. came' = came + 1 /\ came \in Nat
      BY <1>2
    <3> QED BY <3>1
  <2>3. size' \in Sizes
    BY <1>2 DEF Ipv6Type
  <2> QED BY <2>1, <2>2, <2>3, <1>6, <1>10, <1>11 DEF Ipv6Type
<1>13. Divides' <=> Divides
  BY <1>2 DEF Divides
<1>14. ASSUME NEW w \in I!Windows
       PROVE  /\ HeldBy(filters'[w], window'[w])
              /\ Divides /\ ~StraysIn(window'[w]) => CountedBy(uni'[w], filters'[w])
  <2>1. PICK n \in Nat : n = came + 1
    BY <1>2
  <2>2. PICK V : V = W[w] \cup {[num |-> n, r |-> r]}
    OBVIOUS
  <2>3. /\ HeldBy(AddedBy(s, r).filters[w], V)
        /\ CountedIn(s.uni, s.filters, W) /\ ~StraysIn(V) =>
             CountedBy(AddedBy(s, r).uni[w], AddedBy(s, r).filters[w])
    BY <1>8, <2>2, AddedRight DEF WindowsRight
  <2>4. window'[w] = V
    BY <1>3, <2>1, <2>2
  <2>5. Divides => CountedIn(s.uni, s.filters, W)
    BY <1>8 DEF WindowsRight
  <2> QED BY <1>3, <2>3, <2>4, <2>5
<1>15. ASSUME Divides PROVE window'["short"] \subseteq window'["long"]
  <2>1. W["short"] \subseteq W["long"]
    BY <1>8, <1>15 DEF WindowsRight, CountedIn
  <2> QED BY <1>2, <1>3, <2>1
<1>16. WindowsRight(Divides, uni, filters, flows, window, came)'
  BY <1>10, <1>13, <1>14, <1>15 DEF WindowsRight, CountedIn
<1>17. Together' /\ Quiet'
  <2>1. Divides => Apart(ends)'
    BY <1>2, <1>5 DEF Apart
  <2> QED BY <1>2, <1>13, <2>1 DEF Together, Quiet
<1> QED BY <1>12, <1>16, <1>17 DEF Ipv6Inv

LEMMA InactiveKeeps ==
  ASSUME I!SizesChecked, Ipv6Inv, I!InactiveFlush \/ I!InactiveZeros
  PROVE  Ipv6Inv'
<1> DEFINE s == I!Flushed(I!Windows)
<1>1. /\ size' = size /\ initFlag' = initFlag /\ came' = came
      /\ ends' = [w \in I!Windows |-> ends[w] + size[w]]
      /\ window' = [w \in I!Windows |-> {}]
      /\ results' = s.results /\ uni' = s.uni /\ flows' = s.flows
      /\ inactive' \in BOOLEAN
      /\ filters' = s.filters \/ (filters' = filters /\ inactive)
      /\ Ipv6Type
  BY DEF I!InactiveFlush, I!InactiveZeros, Ipv6Inv, Ipv6Type
<1>2. filters' = s.filters
  <2>1. s.filters = [w \in I!Windows |-> I!Empty]
    BY DEF I!Flushed
  <2>2. CASE inactive
    BY <1>1, <2>1, <2>2 DEF Ipv6Inv, Quiet, Ipv6Type
  <2>3. CASE ~inactive
    BY <1>1, <2>3
  <2> QED BY <2>2, <2>3
<1>3. /\ s \in WindowCounters /\ window' \in [I!Windows -> SUBSET WindowEntry]
      /\ WindowsRight(Divides, s.uni, s.filters, s.flows, window', came)
  <2>1. PICK W : W = [w \in I!Windows |-> IF w \in I!Windows THEN {} ELSE window[w]]
    OBVIOUS
  <2>2. W = window' /\ "short" \in I!Windows
    BY <1>1, <2>1 DEF I!Windows
  <2>3. s \in WindowCounters /\ W \in [I!Windows -> SUBSET WindowEntry]
        /\ WindowsRight(Divides, s.uni, s.filters, s.flows, W, came)
    BY <2>1, <2>2, FlushRight
  <2> QED BY <2>2, <2>3
<1>4. \A w \in I!Windows : window'[w] = {} /\ filters'[w] = I!Empty
  BY <1>1, <1>2 DEF I!Flushed
<1>5. ends' \in [I!Windows -> Int] /\ (Divides /\ ~initFlag => Apart(ends'))
  <2>1. \A w \in I!Windows : ends[w] \in Int /\ size[w] \in Int
    BY <1>1, SizesType DEF Ipv6Type
  <2>2. ends' = [w \in I!Windows |-> IF w \in I!Windows THEN ends[w] + size[w] ELSE ends[w]]
    BY <1>1
  <2>3. ends \in [I!Windows -> Int]
    BY <1>1 DEF Ipv6Type
  <2>4. PICK e2 : e2 = ends'
    OBVIOUS
  <2>5. Divides /\ Apart(ends) => Apart(e2)
    BY <1>1, <2>2, <2>3, <2>4, NextEnds
  <2>6. ends' \in [I!Windows -> Int]
    BY <1>1, <2>1
  <2> QED BY <2>4, <2>5, <2>6 DEF Ipv6Inv, Together
<1>6. Ipv6Type'
  BY <1>1, <1>2, <1>3, <1>5 DEF Ipv6Type, WindowCounters
<1>7. Divides' <=> Divides
  BY <1>1 DEF Divides
<1>8. WindowsRight(Divides, uni, filters, flows, window, came)'
  BY <1>1, <1>2, <1>3, <1>7 DEF WindowsRight
<1>9. Together' /\ Quiet'
  <2>1. Divides /\ ~initFlag => Apart(ends)'
    BY <1>1, <1>5 DEF Apart
  <2> QED BY <1>1, <1>4, <1>7, <2>1 DEF Together, Quiet
<1> QED BY <1>6, <1>8, <1>9 DEF Ipv6Inv

\* What the counters and the filters are not told of.
LEMMA RestKeeps ==
  ASSUME I!SizesChecked, Ipv6Inv, I!NotOk \/ I!Leave \/ UNCHANGED I!vars
  PROVE  Ipv6Inv'
<1>1. /\ size' = size /\ initFlag' = initFlag /\ inactive' = inactive /\ ends' = ends
      /\ flows' = flows /\ uni' = uni /\ filters' = filters /\ window' = window
      /\ came' \in Nat /\ came' >= came /\ came \in Nat
      /\ results' = results \/ results' = uni
      /\ Ipv6Type /\ WindowsRight(Divides, uni, filters, flows, window, came)
  BY DEF I!NotOk, I!Leave, I!vars, Ipv6Inv, Ipv6Type
<1>2. Ipv6Type'
  BY <1>1 DEF Ipv6Type
<1>3. Divides' <=> Divides
  BY <1>1 DEF Divides
<1>4. FlowsBy(flows, window["short"], came')
  <2>1. FlowsBy(flows, window["short"], came) /\ \A e \in window["short"] : e.num \in Nat
    BY <1>1 DEF WindowsRight, Ipv6Type, I!Windows, WindowEntry
  <2>2. \A e \in window["short"] : e.num <= came'
    BY <1>1, <2>1 DEF FlowsBy
  <2> QED BY <2>1, <2>2 DEF FlowsBy
<1>5. WindowsRight(Divides, uni, filters, flows, window, came)'
  BY <1>1, <1>3, <1>4 DEF WindowsRight
<1>6. Together' /\ Quiet'
  <2>1. Apart(ends)' <=> Apart(ends)
    BY <1>1 DEF Apart
  <2> QED BY <1>1, <1>3, <2>1 DEF Ipv6Inv, Together, Quiet
<1> QED BY <1>2, <1>5, <1>6 DEF Ipv6Inv

\* The counters are right whatever was counted.
LEMMA UniquesRight == ASSUME Ipv6Inv PROVE I!UniquesExact
<1> SUFFICES ASSUME Divides, ~I!Strays("short"), ~I!Strays("long")
             PROVE  I!UniquesExact
  BY DEF I!UniquesExact, Divides
<1>1. /\ Ipv6Type /\ CountedIn(uni, filters, window) /\ FlowsBy(flows, window["short"], came)
      /\ \A w \in I!Windows : HeldBy(filters[w], window[w]) /\ ~StraysIn(window[w])
  BY DEF Ipv6Inv, WindowsRight, I!Strays, StraysIn, I!Windows
<1>2. ASSUME NEW w \in I!Windows
      PROVE  LET v4 == V4Of(window[w])
                 v6 == V6Of(window[w])
             IN uni[w] = [ipv4 |-> Cardinality(v4), ipv6 |-> Cardinality(v6),
                          p64 |-> Cardinality({<<a.p48, a.p64>> : a \in v6}),
                          p48 |-> Cardinality({a.p48 : a \in v6})]
  <2>1. CountedBy(uni[w], filters[w]) /\ HeldBy(filters[w], window[w])
    BY <1>1 DEF CountedIn
  <2>2. uni[w] \in [I!Kinds -> Nat]
    BY <1>1 DEF Ipv6Type
  <2>3. /\ uni[w]["ipv4"] = Cardinality(V4Of(window[w]))
        /\ uni[w]["ipv6"] = Cardinality(V6Of(window[w]))
        /\ uni[w]["p64"] = Cardinality({<<a.p48, a.p64>> : a \in V6Of(window[w])})
        /\ uni[w]["p48"] = Cardinality({a.p48 : a \in V6Of(window[w])})
    BY <2>1 DEF CountedBy, HeldBy, I!Kinds
  <2> QED BY <2>2, <2>3 DEF I!Kinds
<1> QED BY <1>1, <1>2, ISets DEF I!UniquesExact, V4Of, V6Of, FlowsBy

\* What ipv6stats counts as distinct are the sources and the prefixes of the records of
\* the window, when the long window is a multiple of the short one: the short filter is
\* never left with less than its window by a clearing of the long one (flush and clear in
\* the loop of main, add_uniq_ip4 and add_uniq_ip6).
THEOREM UniquesExactCorrect == Spec => []UniquesExact
<1>1. Init => (active = "ipv6" => Ipv6Inv)
  BY Ipv6InitHolds, WindowsChecked DEF Init
<1>2. (active = "ipv6" => Ipv6Inv) /\ [Next]_vars => (active = "ipv6" => Ipv6Inv)'
  <2> SUFFICES ASSUME active = "ipv6" => Ipv6Inv, [Next]_vars, active' = "ipv6"
               PROVE  Ipv6Inv'
    OBVIOUS
  <2>1. CASE Next
    BY <2>1, RecordKeeps, InactiveKeeps, RestKeeps, WindowsChecked DEF Next, I!Next
  <2>2. CASE UNCHANGED vars
    BY <2>2, RestKeeps, WindowsChecked DEF vars, ipv6, I!vars
  <2> QED BY <2>1, <2>2
<1>3. Ipv6Inv => I!UniquesExact
  BY UniquesRight
<1>4. (active = "ipv6" => Ipv6Inv) => UniquesExact
  BY <1>3 DEF UniquesExact
<1> QED BY <1>1, <1>2, <1>4, PTL DEF Spec

-----------------------------------------------------------------------------
(****************************************************************************)
(* The forwarders: records go on as they came.                              *)
(****************************************************************************)

\* What the proofs need to know of a sequence of records of any kind.
IsSequence(s) == Len(s) \in Nat /\ s = [i \in 1 .. Len(s) |-> s[i]]

LEMMA AppendIs ==
  ASSUME NEW s, IsSequence(s), NEW e
  PROVE  /\ IsSequence(Append(s, e)) /\ Len(Append(s, e)) = Len(s) + 1
         /\ \A i \in 1 .. Len(s) : Append(s, e)[i] = s[i]
         /\ Append(s, e)[Len(s) + 1] = e
<1> DEFINE X == {s[i] : i \in 1 .. Len(s)} \cup {e}
<1>1. s \in Seq(X) /\ e \in X
  BY DEF IsSequence
<1> HIDE DEF X
<1>2. Append(s, e) \in Seq(X)
  BY <1>1
<1>3. Len(Append(s, e)) = Len(s) + 1 /\ Append(s, e)[Len(s) + 1] = e
  BY <1>1
<1>4. ASSUME NEW i \in 1 .. Len(s) PROVE Append(s, e)[i] = s[i]
  BY <1>1
<1>5. Append(s, e) \in [1 .. Len(Append(s, e)) -> X] /\ Len(Append(s, e)) \in Nat
  BY <1>2, LenProperties
<1>6. IsSequence(Append(s, e))
  BY <1>5 DEF IsSequence
<1> QED BY <1>3, <1>4, <1>6

\* The format an output is given for one of the input.
Announced(fmt) == IF module = "tags" THEN F!UpdateOutputFormat(fmt) ELSE fmt

\* What a record the module m sent is.
SentWell(m, e) ==
  /\ e.num \in Nat
  /\ e.fmt = e.announced
  /\ m = "anonymizer" => \A f \in DOMAIN e.fmt :
       f \in F!AnonFieldNames <=> F!Last(e.values[f]) # <<e.num, Len(e.values[f])>>
  /\ DOMAIN e.fmt = DOMAIN e.values \cup (IF m = "tags" THEN {"PREFIX_TAG"} ELSE {})

FwdType ==
  /\ module \in {"repeater", "endiverter", "anonymizer", "tags"}
  /\ at \in {"receive", "handle", "exit", "crash"}
  /\ rec.num \in Nat
  /\ IsSequence(forwarded)
  /\ cntS \in Nat /\ cntR \in Nat

InOrder ==
  /\ \A k \in 1 .. Len(forwarded) : SentWell(module, forwarded[k])
  /\ \A j, k \in 1 .. Len(forwarded) : j < k => forwarded[j].num < forwarded[k].num

\* A record at hand was neither sent nor refused yet.
NotYet ==
  /\ \A k \in 1 .. Len(forwarded) :
       forwarded[k].num <= rec.num /\ (at = "handle" => forwarded[k].num # rec.num)
  /\ \A n \in refused : n \in Nat /\ n <= rec.num /\ (at = "handle" => n # rec.num)

\* The output has the format of the input's last record, or of the one before a new one.
FormatKnown ==
  /\ rec.num > 0 => rec.fmt \in FwdFormats /\ tmplt = rec.fmt
  /\ rec.num = 0 => tmplt = F!NoFormat /\ at # "handle"
  /\ at = "handle" => rec.ret \in {"ok", "format"}
  /\ rec.num > 0 /\ (at = "receive" \/ (at = "handle" /\ rec.ret = "ok")) =>
       /\ outTmplt = Announced(rec.fmt)
       /\ module = "tags" => buffer.fmt = Announced(rec.fmt)
       /\ module = "anonymizer" => anonFields = F!SetFieldsPresent(rec.fmt)

\* What became of a record that has been handled.
Handled ==
  at = "receive" /\ rec.num > 0 =>
    LET sentOn == \E k \in 1 .. Len(forwarded) : forwarded[k].num = rec.num
        tags == IF module = "tags" THEN F!Tags(rec) ELSE {0}
    IN /\ sentOn \/ rec.num \in refused <=> tags # {}
       /\ sentOn => /\ F!Last(forwarded).tag \in tags
                    /\ \/ F!Last(forwarded).values = F!Due
                       \/ module = "tags" /\ F!HasVarlen(rec)

RepeaterCounts ==
  module = "repeater" =>
    /\ at = "receive" => cntR = rec.num /\ cntS = Len(forwarded)
    /\ at = "handle" => cntR + 1 = rec.num /\ cntS = Len(forwarded)

ForwardInv == FwdType /\ InOrder /\ NotYet /\ FormatKnown /\ Handled /\ RepeaterCounts

LEMMA ForwardInitHolds == ASSUME F!Init PROVE ForwardInv
<1>1. rec.num = 0 /\ at = "receive" /\ Len(forwarded) = 0 /\ forwarded = <<>> /\ refused = {}
      /\ tmplt = F!NoFormat /\ cntR = 0 /\ cntS = 0
  BY DEF F!Init, F!NoRecord
<1>2. IsSequence(forwarded)
  BY <1>1 DEF IsSequence
<1>3. FwdType
  BY <1>1, <1>2 DEF FwdType, F!Init
<1>4. InOrder /\ NotYet /\ Handled
  BY <1>1 DEF InOrder, NotYet, Handled
<1>5. FormatKnown /\ RepeaterCounts
  BY <1>1 DEF FormatKnown, RepeaterCounts
<1> QED BY <1>3, <1>4, <1>5 DEF ForwardInv

\* What a send leaves behind: the record behind the others, or its number among the refused.
LEMMA SendKeeps ==
  ASSUME FwdType, InOrder, NotYet, at = "handle", at' \in {"receive", "exit"}, rec' = rec,
         module' = module, NEW fmt, NEW val, NEW tag, NEW result,
         F!Send(fmt, rec.num, val, tag, result),
         SentWell(module, [num |-> rec.num, fmt |-> fmt, values |-> val, tag |-> tag,
                           announced |-> outTmplt'])
  PROVE  /\ IsSequence(forwarded') /\ InOrder' /\ NotYet'
         /\ (\E k \in 1 .. Len(forwarded') : forwarded'[k].num = rec.num) \/ rec.num \in refused'
         /\ Len(forwarded') = Len(forwarded) + (IF result = "ok" THEN 1 ELSE 0)
         /\ (\E k \in 1 .. Len(forwarded') : forwarded'[k].num = rec.num) =>
              F!Last(forwarded').tag = tag /\ F!Last(forwarded').values = val
<1> DEFINE e == [num |-> rec.num, fmt |-> fmt, values |-> val, tag |-> tag, announced |-> outTmplt']
<1>0. /\ rec.num \in Nat /\ IsSequence(forwarded) /\ Len(forwarded) \in Nat
      /\ \A k \in 1 .. Len(forwarded) : forwarded[k].num \in Nat /\ forwarded[k].num < rec.num
  BY DEF FwdType, IsSequence, InOrder, NotYet, SentWell
<1>1. CASE result = "ok"
  <2>1. forwarded' = Append(forwarded, e) /\ refused' = refused
    BY <1>1 DEF F!Send
  <2>2. e.num = rec.num /\ e.tag = tag /\ e.values = val
    OBVIOUS
  <2> HIDE DEF e
  <2>3. /\ IsSequence(forwarded') /\ Len(forwarded') = Len(forwarded) + 1
        /\ \A i \in 1 .. Len(forwarded) : forwarded'[i] = forwarded[i]
        /\ forwarded'[Len(forwarded) + 1] = e
    BY <1>0, <2>1, AppendIs
  <2>4. \A i \in 1 .. Len(forwarded') : i \in 1 .. Len(forwarded) \/ i = Len(forwarded) + 1
    BY <1>0, <2>3
  <2>5. \A k \in 1 .. Len(forwarded') : SentWell(module, forwarded'[k])
    <3>1. SentWell(module, e)
      BY DEF e
    <3> QED BY <2>3, <2>4, <3>1 DEF InOrder
  <2>6. \A j, k \in 1 .. Len(forwarded') : j < k => forwarded'[j].num < forwarded'[k].num
    BY <1>0, <2>2, <2>3, <2>4 DEF InOrder
  <2>7. InOrder'
    BY <2>5, <2>6 DEF InOrder
  <2>8. NotYet'
    BY <1>0, <2>1, <2>2, <2>3, <2>4 DEF NotYet
  <2>9. Len(forwarded') \in 1 .. Len(forwarded') /\ forwarded'[Len(forwarded')].num = rec.num
        /\ F!Last(forwarded').tag = tag /\ F!Last(forwarded').values = val
    BY <1>0, <2>2, <2>3 DEF F!Last
  <2> QED BY <1>1, <2>3, <2>7, <2>8, <2>9
<1>2. CASE result # "ok"
  <2>1. forwarded' = forwarded /\ refused' = refused \cup {rec.num}
    BY <1>2 DEF F!Send
  <2>2. InOrder'
    BY <2>1 DEF InOrder, SentWell
  <2>3. NotYet'
    BY <1>0, <2>1 DEF NotYet
  <2>4. ~(\E k \in 1 .. Len(forwarded') : forwarded'[k].num = rec.num)
    BY <1>0, <2>1
  <2> QED BY <1>0, <1>2, <2>1, <2>2, <2>3, <2>4
<1> QED BY <1>1, <1>2

\* The parts of a field, and what endiverter and anonymizer make of them.
LEMMA PartsOf ==
  ASSUME F!FormatsTyped, NEW r, r.fmt \in FwdFormats
  PROVE  /\ DOMAIN F!Values(r) = DOMAIN r.fmt
         /\ DOMAIN F!Diverted(r) = DOMAIN r.fmt
         /\ \A X : DOMAIN F!Anonymized(r, X) = DOMAIN r.fmt
         /\ \A f \in DOMAIN r.fmt : \E p \in Nat \ {0} :
              F!Values(r)[f] = [i \in 1 .. p |-> <<r.num, i>>]
<1>1. /\ DOMAIN F!Values(r) = DOMAIN r.fmt
      /\ DOMAIN F!Diverted(r) = DOMAIN r.fmt
      /\ \A X : DOMAIN F!Anonymized(r, X) = DOMAIN r.fmt
  BY DEF F!Values, F!Diverted, F!Anonymized
<1>2. ASSUME NEW f \in DOMAIN r.fmt
      PROVE  \E p \in Nat \ {0} : F!Values(r)[f] = [i \in 1 .. p |-> <<r.num, i>>]
  <2>1. r.fmt[f] \in DOMAIN F!Parts
    BY DEF F!FormatsTyped
  <2>2. \A t \in DOMAIN F!Parts : F!Parts[t] \in Nat \ {0}
    BY DEF F!Parts
  <2> QED BY <2>1, <2>2 DEF F!Values
<1> QED BY <1>1, <1>2

\* An anonymized field differs from what came, every other one does not.
LEMMA AnonymizedParts ==
  ASSUME F!FormatsTyped, NEW r, r.fmt \in FwdFormats, NEW X, NEW f \in DOMAIN r.fmt
  PROVE  f \in X <=> F!Last(F!Anonymized(r, X)[f]) # <<r.num, Len(F!Anonymized(r, X)[f])>>
<1>1. PICK p \in Nat \ {0} : F!Values(r)[f] = [i \in 1 .. p |-> <<r.num, i>>]
  BY PartsOf
<1> DEFINE v == [i \in 1 .. p |-> <<r.num, i>>]
           w == [v EXCEPT ![Len(v)] = Append(@, 0)]
<1>2. Len(v) = p /\ v[p] = <<r.num, p>>
  OBVIOUS
<1>3. F!Anonymized(r, X)[f] = IF f \in X THEN w ELSE v
  BY <1>1 DEF F!Anonymized
<1>4. Len(w) = p /\ w[p] = Append(<<r.num, p>>, 0)
  BY <1>2
<1>5. Append(<<r.num, p>>, 0) # <<r.num, p>>
  <2>1. Len(Append(<<r.num, p>>, 0)) = 3 /\ Len(<<r.num, p>>) = 2
    OBVIOUS
  <2> QED BY <2>1
<1> HIDE DEF v, w
<1> QED BY <1>2, <1>3, <1>4, <1>5 DEF F!Last

\* A record with the parts its format has, or with the prefix tag behind them.
LEMMA WellMade ==
  ASSUME F!FormatsTyped, FwdType, rec.fmt \in FwdFormats, outTmplt' = Announced(rec.fmt),
         NEW val, NEW tag, DOMAIN val = DOMAIN rec.fmt,
         module = "anonymizer" => val = F!Anonymized(rec, F!SetFieldsPresent(rec.fmt))
  PROVE  SentWell(module, [num |-> rec.num, fmt |-> Announced(rec.fmt), values |-> val, tag |-> tag,
                           announced |-> outTmplt'])
<1>1. DOMAIN Announced(rec.fmt) = DOMAIN rec.fmt \cup (IF module = "tags" THEN {"PREFIX_TAG"} ELSE {})
  BY DEF Announced, F!UpdateOutputFormat
<1>2. ASSUME module = "anonymizer", NEW f \in DOMAIN Announced(rec.fmt)
      PROVE  f \in F!AnonFieldNames <=> F!Last(val[f]) # <<rec.num, Len(val[f])>>
  <2>1. f \in DOMAIN rec.fmt
    BY <1>1, <1>2
  <2>2. f \in F!AnonFieldNames <=> f \in F!SetFieldsPresent(rec.fmt)
    BY <2>1 DEF F!SetFieldsPresent
  <2> QED BY <1>2, <2>1, <2>2, AnonymizedParts
<1> QED BY <1>1, <1>2 DEF SentWell, FwdType

LEMMA ReceiveKeeps ==
  ASSUME F!FormatsTyped, ForwardInv, F!Receive PROVE ForwardInv'
<1>1. PICK fmt \in FwdFormats, filled \in BOOLEAN, src, dst \in Addresses :
        rec' = [num |-> rec.num + 1, fmt |-> fmt, filled |-> filled, src |-> src, dst |-> dst,
                ret |-> IF fmt = tmplt THEN "ok" ELSE "format"] /\ tmplt' = fmt
  BY DEF F!Receive
<1>2. /\ at = "receive" /\ at' = "handle" /\ module' = module /\ outTmplt' = outTmplt
      /\ buffer' = buffer /\ anonFields' = anonFields /\ forwarded' = forwarded
      /\ refused' = refused /\ cntR' = cntR /\ cntS' = cntS
  BY DEF F!Receive, F!Configuration, F!Counters
<1>3. rec.num \in Nat /\ rec'.num = rec.num + 1 /\ rec'.fmt = fmt
      /\ rec'.ret = IF fmt = tmplt THEN "ok" ELSE "format"
  BY <1>1 DEF ForwardInv, FwdType
<1>4. FwdType'
  BY <1>2, <1>3 DEF ForwardInv, FwdType
<1>5. InOrder'
  BY <1>2 DEF ForwardInv, InOrder
<1>6. NotYet'
  <2>1. \A k \in 1 .. Len(forwarded) : forwarded[k].num \in Nat /\ forwarded[k].num <= rec.num
    BY DEF ForwardInv, NotYet, InOrder, SentWell
  <2>2. \A n \in refused : n \in Nat /\ n <= rec.num
    BY DEF ForwardInv, NotYet
  <2> QED BY <1>2, <1>3, <2>1, <2>2 DEF NotYet
<1>7. FormatKnown'
  <2>1. fmt # F!NoFormat
    BY DEF F!FormatsTyped, F!NoFormat
  <2>2. rec'.ret = "ok" => rec.num > 0 /\ rec.fmt = fmt
    BY <1>3, <2>1 DEF ForwardInv, FormatKnown
  <2> QED BY <1>1, <1>2, <1>3, <2>2 DEF ForwardInv, FormatKnown, Announced
<1>8. Handled' /\ RepeaterCounts'
  BY <1>2, <1>3 DEF ForwardInv, Handled, RepeaterCounts, FwdType
<1> QED BY <1>4, <1>5, <1>6, <1>7, <1>8 DEF ForwardInv

\* The steps that leave the records and the formats alone.
LEMMA ForwardIdles ==
  ASSUME ForwardInv,
         at' = at \/ at' = "exit", module' = module, rec' = rec, tmplt' = tmplt,
         outTmplt' = outTmplt, buffer' = buffer, anonFields' = anonFields,
         forwarded' = forwarded, refused' = refused, checkSrc' = checkSrc, checkDst' = checkDst,
         cntR' \in Nat, cntS' \in Nat, at' = at => cntR' = cntR /\ cntS' = cntS
  PROVE  ForwardInv'
<1>1. FwdType'
  BY DEF ForwardInv, FwdType
<1>2. InOrder' /\ NotYet'
  BY DEF ForwardInv, InOrder, NotYet
<1>3. FormatKnown'
  BY DEF ForwardInv, FormatKnown, Announced
<1>4. Handled'
  BY DEF ForwardInv, Handled, F!Tags, F!Due
<1>5. RepeaterCounts'
  BY DEF ForwardInv, RepeaterCounts
<1> QED BY <1>1, <1>2, <1>3, <1>4, <1>5 DEF ForwardInv

LEMMA EndKeeps ==
  ASSUME ForwardInv,
         F!ReceiveEnd \/ F!ReceiveTimeout \/ F!ReceiveNothing \/ F!SigTerm \/ UNCHANGED F!vars
  PROVE  ForwardInv'
<1>1. cntR \in Nat /\ cntS \in Nat
  BY DEF ForwardInv, FwdType
<1>2. CASE F!ReceiveEnd
  BY <1>1, <1>2, ForwardIdles DEF F!ReceiveEnd, F!Configuration
<1>3. CASE F!ReceiveTimeout
  BY <1>1, <1>3, ForwardIdles DEF F!ReceiveTimeout, F!Configuration
<1>4. CASE F!ReceiveNothing
  BY <1>1, <1>4, ForwardIdles DEF F!ReceiveNothing, F!Configuration, F!Counters
<1>5. CASE F!SigTerm
  BY <1>1, <1>5, ForwardIdles DEF F!SigTerm, F!Configuration, F!Counters
<1>6. CASE UNCHANGED F!vars
  BY <1>1, <1>6, ForwardIdles DEF F!vars
<1> QED BY <1>2, <1>3, <1>4, <1>5, <1>6

\* The values a record is to be sent with, by module; anonymizer knows the fields there are.
LEMMA DueIs ==
  /\ module = "repeater" \/ module = "tags" => F!Due = F!Values(rec)
  /\ module = "endiverter" => F!Due = F!Diverted(rec)
  /\ module = "anonymizer" => F!Due = F!Anonymized(rec, F!SetFieldsPresent(rec.fmt))
<1>1. F!Anonymized(rec, F!AnonFieldNames) = F!Anonymized(rec, F!SetFieldsPresent(rec.fmt))
  BY DEF F!Anonymized, F!SetFieldsPresent
<1> QED BY <1>1 DEF F!Due

\* What is common to the handling of a record: the output has the format, and the
\* record was sent on or its number refused.
LEMMA HandledKeeps ==
  ASSUME F!FormatsTyped, ForwardInv, at = "handle", at' \in {"receive", "exit"},
         module' = module, rec' = rec, tmplt' = tmplt,
         checkSrc' = checkSrc, checkDst' = checkDst,
         outTmplt' = Announced(rec.fmt),
         module = "tags" => buffer'.fmt = Announced(rec.fmt),
         module = "anonymizer" => anonFields' = F!SetFieldsPresent(rec.fmt),
         NEW val, NEW tag, NEW result, F!Send(Announced(rec.fmt), rec.num, val, tag, result),
         DOMAIN val = DOMAIN rec.fmt,
         val = F!Due \/ (module = "tags" /\ F!HasVarlen(rec)),
         tag \in (IF module = "tags" THEN F!Tags(rec) ELSE {0}),
         cntR' \in Nat, cntS' \in Nat,
         module = "repeater" => cntR' = cntR + 1
                                /\ cntS' = cntS + (IF result = "ok" THEN 1 ELSE 0)
  PROVE  ForwardInv'
<1>1. rec.num \in Nat /\ rec.num > 0 /\ rec.fmt \in FwdFormats
  BY DEF ForwardInv, FwdType, FormatKnown
<1>2. SentWell(module, [num |-> rec.num, fmt |-> Announced(rec.fmt), values |-> val, tag |-> tag,
                        announced |-> outTmplt'])
  <2>1. module = "anonymizer" => val = F!Anonymized(rec, F!SetFieldsPresent(rec.fmt))
    BY DueIs
  <2> QED BY <1>1, <2>1, WellMade DEF ForwardInv
<1>3. /\ IsSequence(forwarded') /\ InOrder' /\ NotYet'
      /\ (\E k \in 1 .. Len(forwarded') : forwarded'[k].num = rec.num) \/ rec.num \in refused'
      /\ Len(forwarded') = Len(forwarded) + (IF result = "ok" THEN 1 ELSE 0)
      /\ (\E k \in 1 .. Len(forwarded') : forwarded'[k].num = rec.num) =>
           F!Last(forwarded').tag = tag /\ F!Last(forwarded').values = val
  BY <1>2, SendKeeps DEF ForwardInv
<1>4. FwdType'
  BY <1>1, <1>3 DEF ForwardInv, FwdType
<1>5. FormatKnown'
  BY <1>1 DEF ForwardInv, FormatKnown, Announced
<1>6. Handled'
  <2>1. F!Tags(rec)' = F!Tags(rec) /\ F!Due' = F!Due
    BY DEF F!Tags, F!Due
  <2> QED BY <1>3, <2>1 DEF Handled
<1>7. RepeaterCounts'
  BY <1>1, <1>3 DEF ForwardInv, RepeaterCounts, FwdType, IsSequence
<1> QED BY <1>3, <1>4, <1>5, <1>6, <1>7 DEF ForwardInv

\* The output's format at a record at hand.
LEMMA AnnouncedFirst ==
  ASSUME ForwardInv, at = "handle"
  PROVE  /\ rec.num > 0 /\ rec.fmt \in FwdFormats
         /\ rec.ret # "format" =>
              /\ outTmplt = Announced(rec.fmt)
              /\ module = "tags" => buffer.fmt = Announced(rec.fmt)
              /\ module = "anonymizer" => anonFields = F!SetFieldsPresent(rec.fmt)
BY DEF ForwardInv, FwdType, FormatKnown

\* The handling ends without a record sent, and the loop with it.
LEMMA ExitKeeps ==
  ASSUME ForwardInv, at = "handle", at' \in {"exit", "crash"}, module' = module, rec' = rec,
         tmplt' = tmplt, forwarded' = forwarded, refused' = refused \/ refused' = refused \cup {rec.num},
         cntR' \in Nat, cntS' \in Nat
  PROVE  ForwardInv'
<1>1. FwdType' /\ InOrder'
  BY DEF ForwardInv, FwdType, InOrder
<1>2. NotYet'
  <2>1. \A n \in refused' : n \in Nat /\ n <= rec.num
    BY DEF ForwardInv, NotYet, FwdType
  <2> QED BY <2>1 DEF ForwardInv, NotYet
<1>3. FormatKnown' /\ Handled' /\ RepeaterCounts'
  BY DEF ForwardInv, FormatKnown, Handled, RepeaterCounts
<1> QED BY <1>1, <1>2, <1>3 DEF ForwardInv

LEMMA RepeatKeeps ==
  ASSUME F!FormatsTyped, ForwardInv, F!Repeat PROVE ForwardInv'
<1>1. /\ at = "handle" /\ module = "repeater" /\ cntR' = cntR + 1 /\ cntR \in Nat /\ cntS \in Nat
      /\ module' = module /\ rec' = rec /\ tmplt' = tmplt
      /\ checkSrc' = checkSrc /\ checkDst' = checkDst
  BY DEF F!Repeat, F!Configuration, ForwardInv, FwdType
<1>2. outTmplt' = Announced(rec.fmt) /\ rec.fmt = Announced(rec.fmt) /\ rec.fmt \in FwdFormats
  BY <1>1, AnnouncedFirst DEF F!Repeat, Announced
<1>3. CASE quit /\ noEof
  BY <1>1, <1>3, ExitKeeps DEF F!Repeat
<1>4. CASE ~(quit /\ noEof)
  <2>1. PICK result \in F!Results :
          /\ F!Send(rec.fmt, rec.num, F!Values(rec), 0, result)
          /\ cntS' = IF result = "ok" THEN cntS + 1 ELSE cntS
          /\ at' = IF result = "error" THEN "exit" ELSE "receive"
    BY <1>4 DEF F!Repeat
  <2>2. DOMAIN F!Values(rec) = DOMAIN rec.fmt
    BY <1>2, PartsOf
  <2>3. F!Send(Announced(rec.fmt), rec.num, F!Values(rec), 0, result)
    BY <1>2, <2>1
  <2>4. cntR' \in Nat /\ cntS' \in Nat /\ cntS' = cntS + (IF result = "ok" THEN 1 ELSE 0)
        /\ at' \in {"receive", "exit"}
    BY <1>1, <2>1
  <2> QED BY <1>1, <1>2, <2>2, <2>3, <2>4, HandledKeeps, DueIs
<1> QED BY <1>3, <1>4

LEMMA DivertKeeps ==
  ASSUME F!FormatsTyped, ForwardInv, F!Divert PROVE ForwardInv'
<1>1. /\ at = "handle" /\ at' = "receive" /\ module = "endiverter"
      /\ module' = module /\ rec' = rec /\ tmplt' = tmplt
      /\ checkSrc' = checkSrc /\ checkDst' = checkDst /\ cntR' \in Nat /\ cntS' \in Nat
  BY DEF F!Divert, F!Configuration, F!Counters, ForwardInv, FwdType
<1>2. outTmplt' = Announced(rec.fmt) /\ rec.fmt = Announced(rec.fmt) /\ rec.fmt \in FwdFormats
  BY <1>1, AnnouncedFirst DEF F!Divert, Announced
<1>3. PICK result : F!Send(Announced(rec.fmt), rec.num, F!Diverted(rec), 0, result)
  BY <1>2 DEF F!Divert
<1>4. DOMAIN F!Diverted(rec) = DOMAIN rec.fmt
  BY <1>2, PartsOf
<1> QED BY <1>1, <1>2, <1>3, <1>4, HandledKeeps, DueIs

LEMMA AnonymizeKeeps ==
  ASSUME F!FormatsTyped, ForwardInv, F!Anonymize PROVE ForwardInv'
<1>1. /\ at = "handle" /\ at' = "receive" /\ module = "anonymizer"
      /\ module' = module /\ rec' = rec /\ tmplt' = tmplt
      /\ checkSrc' = checkSrc /\ checkDst' = checkDst /\ cntR' \in Nat /\ cntS' \in Nat
  BY DEF F!Anonymize, F!Configuration, F!Counters, ForwardInv, FwdType
<1>2. /\ outTmplt' = Announced(rec.fmt) /\ rec.fmt = Announced(rec.fmt) /\ rec.fmt \in FwdFormats
      /\ anonFields' = F!SetFieldsPresent(rec.fmt)
  BY <1>1, AnnouncedFirst DEF F!Anonymize, Announced
<1>3. PICK result : F!Send(Announced(rec.fmt), rec.num,
                           F!Anonymized(rec, F!SetFieldsPresent(rec.fmt)), 0, result)
  BY <1>2 DEF F!Anonymize
<1>4. DOMAIN F!Anonymized(rec, F!SetFieldsPresent(rec.fmt)) = DOMAIN rec.fmt
  BY <1>2, PartsOf
<1> QED BY <1>1, <1>2, <1>3, <1>4, HandledKeeps, DueIs

LEMMA TagKeeps ==
  ASSUME F!FormatsTyped, ForwardInv, F!Tag PROVE ForwardInv'
<1> DEFINE new == F!UpdateOutputFormat(rec.fmt)
           out == IF rec.ret = "format" THEN [fmt |-> new, num |-> 0, tag |-> 0] ELSE buffer
<1>1. /\ at = "handle" /\ module = "tags"
      /\ module' = module /\ rec' = rec /\ tmplt' = tmplt
      /\ checkSrc' = checkSrc /\ checkDst' = checkDst
      /\ cntR' = cntR /\ cntS' = cntS /\ cntR \in Nat /\ cntS \in Nat
  BY DEF F!Tag, F!Configuration, F!Counters, ForwardInv, FwdType
<1>2. new = Announced(rec.fmt) /\ rec.fmt \in FwdFormats /\ rec.num > 0
  BY <1>1, AnnouncedFirst DEF Announced
<1>3. outTmplt' = Announced(rec.fmt) /\ out.fmt = Announced(rec.fmt)
  BY <1>1, <1>2, AnnouncedFirst DEF F!Tag
<1>4. CASE rec.ret = "format" /\ F!HasVarlen(rec)
  BY <1>1, <1>4, ExitKeeps DEF F!Tag
<1>5. CASE ~(rec.ret = "format" /\ F!HasVarlen(rec)) /\ F!Tags(rec) = {}
  <2>1. at' = "receive" /\ buffer' = out /\ forwarded' = forwarded /\ refused' = refused
    BY <1>5 DEF F!Tag
  <2>2. FwdType' /\ InOrder' /\ RepeaterCounts'
    BY <1>1, <2>1 DEF ForwardInv, FwdType, InOrder, RepeaterCounts
  <2>3. NotYet'
    BY <1>1, <2>1 DEF ForwardInv, NotYet
  <2>4. FormatKnown'
    BY <1>1, <1>2, <1>3, <2>1 DEF ForwardInv, FormatKnown, Announced
  <2>5. Handled'
    <3>1. F!Tags(rec)' = {}
      BY <1>1, <1>5 DEF F!Tags
    <3>2. ~(\E k \in 1 .. Len(forwarded) : forwarded[k].num = rec.num) /\ rec.num \notin refused
      BY <1>1 DEF ForwardInv, NotYet
    <3> QED BY <1>1, <2>1, <3>1, <3>2 DEF Handled
  <2> QED BY <2>2, <2>3, <2>4, <2>5 DEF ForwardInv
<1>6. CASE ~(rec.ret = "format" /\ F!HasVarlen(rec)) /\ F!Tags(rec) # {} /\ at' = "crash"
  <2>1. forwarded' = forwarded /\ refused' = refused
    BY <1>6 DEF F!Tag
  <2> QED BY <1>1, <1>6, <2>1, ExitKeeps
<1>7. CASE ~(rec.ret = "format" /\ F!HasVarlen(rec)) /\ F!Tags(rec) # {} /\ at' # "crash"
  <2>1. PICK tag \in F!Tags(rec), result \in F!Results :
          /\ buffer' = [out EXCEPT !.num = rec.num, !.tag = tag]
          /\ \E v \in F!Written(rec) : F!Send(out.fmt, rec.num, v, tag, result)
          /\ at' = IF result = "error" THEN "exit" ELSE "receive"
    BY <1>7 DEF F!Tag
  <2>2. PICK val \in F!Written(rec) : F!Send(Announced(rec.fmt), rec.num, val, tag, result)
    BY <1>3, <2>1
  <2>3. buffer'.fmt = Announced(rec.fmt)
    BY <1>3, <2>1
  <2>4. DOMAIN val = DOMAIN rec.fmt /\ (val = F!Due \/ F!HasVarlen(rec))
    <3>1. DOMAIN F!Values(rec) = DOMAIN rec.fmt
      BY <1>2, PartsOf
    <3> QED BY <1>1, <2>2, <3>1, DueIs DEF F!Written
  <2>5. at' \in {"receive", "exit"}
    BY <2>1
  <2> QED BY <1>1, <1>3, <2>1, <2>2, <2>3, <2>4, <2>5, HandledKeeps
<1> QED BY <1>4, <1>5, <1>6, <1>7

LEMMA ForwardKeeps ==
  ASSUME F!FormatsTyped, ForwardInv, F!Next \/ UNCHANGED F!vars PROVE ForwardInv'
BY ReceiveKeeps, EndKeeps, RepeatKeeps, DivertKeeps, AnonymizeKeeps, TagKeeps DEF F!Next

LEMMA ForwardRight == ForwardInv => F!SentOnAsReceived
<1> SUFFICES ASSUME ForwardInv PROVE F!SentOnAsReceived
  OBVIOUS
<1>1. DOMAIN forwarded = 1 .. Len(forwarded)
  BY DEF ForwardInv, FwdType, IsSequence
<1>2. \A j, k \in DOMAIN forwarded : j < k => forwarded[j].num < forwarded[k].num
  BY <1>1 DEF ForwardInv, InOrder
<1>3. \A k \in DOMAIN forwarded : SentWell(module, forwarded[k])
  BY <1>1 DEF ForwardInv, InOrder
<1>4. Handled /\ RepeaterCounts
  BY DEF ForwardInv
<1> QED BY <1>1, <1>2, <1>3, <1>4 DEF F!SentOnAsReceived, SentWell, Handled, RepeaterCounts

\* traffic_repeater, endiverter, anonymizer and prefix_tags send records on in order, each
\* once, with its own values (but for strings prefix_tags has no room for), in the format
\* that was announced for it, and lose none but those whose send failed and those of no
\* prefix (the loops of the four modules; update_output_format).
THEOREM SentOnAsReceivedCorrect == Spec => []SentOnAsReceived
<1>1. Init => (active = "forward" => ForwardInv)
  BY ForwardInitHolds DEF Init
<1>2. (active = "forward" => ForwardInv) /\ [Next]_vars => (active = "forward" => ForwardInv)'
  <2> SUFFICES ASSUME active = "forward" => ForwardInv, [Next]_vars, active' = "forward"
               PROVE  ForwardInv'
    OBVIOUS
  <2>1. CASE Next
    BY <2>1, ForwardKeeps, FieldsTyped DEF Next
  <2>2. CASE UNCHANGED vars
    BY <2>2, ForwardKeeps, FieldsTyped DEF vars, forward, F!vars
  <2> QED BY <2>1, <2>2
<1>3. ForwardInv => F!SentOnAsReceived
  BY ForwardRight
<1>4. (active = "forward" => ForwardInv) => SentOnAsReceived
  BY <1>3 DEF SentOnAsReceived
<1> QED BY <1>1, <1>2, <1>4, PTL DEF Spec

-----------------------------------------------------------------------------
(****************************************************************************)
(* link_traffic and proto_traffic: each value is a count of its link.       *)
(****************************************************************************)

\* The instance counts as the modules about finite sets do.
LEMMA TSets == \A S : T!Cardinality(S) = Cardinality(S)
BY DEF T!Cardinality, Cardinality

\* A set of naturals has a least element.
LEMMA Least ==
  ASSUME NEW S, S \subseteq Nat, S # {}
  PROVE  \E x \in S : \A y \in S : x <= y
<1>1. IsWellFoundedOn({ss \in Nat \X Nat : ss[1] < ss[2]}, Nat)
  BY NatLessThanWellFounded DEF OpToRel
<1>2. PICK x \in S : \A y \in S : ~(<<y, x>> \in {ss \in Nat \X Nat : ss[1] < ss[2]})
  BY <1>1, WFMin
<1>3. ASSUME NEW y \in S PROVE x <= y
  <2>1. x \in Nat /\ y \in Nat /\ ~(x > y)
    BY <1>2
  <2> QED BY <2>1
<1> QED BY <1>3

TrafficType ==
  /\ tool \in {"link", "proto"}
  /\ lfile \in Seq([val : Int, name : STRING])
  /\ tool = "proto" => lfile = Protocols
  /\ tool = "link" => lfile # <<>>
  /\ IsSequence(records)
  /\ pc \in {"receive", "count", "volume", "exit"}

Slots == 1 .. Len(lfile) + 1

\* The links, or the protocols, each once.
Distinct == \A i, j \in 1 .. Len(lfile) : i # j => lfile[i].val # lfile[j].val

LEMMA DistinctLinks ==
  ASSUME T!ConfigurationsTyped, TrafficType, T!Legible PROVE Distinct
<1>1. DOMAIN lfile = 1 .. Len(lfile) /\ Len(lfile) \in Nat
  BY DEF TrafficType
<1>2. CASE tool = "proto"
  BY <1>1, <1>2 DEF TrafficType, T!ConfigurationsTyped, Distinct
<1>3. CASE tool = "link"
  BY <1>1, <1>3 DEF T!Legible, Distinct
<1> QED BY <1>2, <1>3 DEF TrafficType

-----------------------------------------------------------------------------
(* The search among the sorted links.                                      *)

\* The difference of two values in reach is not wrapped around.
LEMMA NoWrap ==
  ASSUME Width \in Nat, NEW n \in Int, -(Width \div 2) < n, n < Width \div 2
  PROVE  T!AsInt(n) = n
<1> DEFINE h == Width \div 2
<1>1. h \in Nat /\ 2 * h <= Width /\ -h < n /\ n < h
  OBVIOUS
<1> HIDE DEF h
<1>2. Width > 0 /\ h > 0
  BY <1>1
<1>3. CASE n >= 0
  <2>1. n % Width = n
    BY <1>1, <1>2, <1>3
  <2> QED BY <1>1, <2>1 DEF T!AsInt, h
<1>4. CASE n < 0
  <2>1. n % Width = n + Width
    <3>1. (n + Width) \in Nat /\ n + Width < Width
      BY <1>1, <1>4
    <3>2. n = (-1) * Width + (n + Width)
      OBVIOUS
    <3> QED BY <1>2, <3>1, <3>2
  <2>2. ~(n + Width < h)
    BY <1>1
  <2>3. n % Width >= Width \div 2
    BY <1>1, <2>1, <2>2 DEF h
  <2> QED BY <2>1, <2>3 DEF T!AsInt
<1> QED BY <1>3, <1>4

LEMMA ConfcmpIs ==
  ASSUME Width \in Nat, NEW a, NEW b, T!InReach(a.val), T!InReach(b.val)
  PROVE  T!Confcmp(a, b) = b.val - a.val
<1>1. a.val \in 0 .. Width \div 2 - 1 /\ b.val \in 0 .. Width \div 2 - 1 /\ Width \div 2 \in Nat
  BY DEF T!InReach
<1>2. b.val - a.val \in Int /\ -(Width \div 2) < b.val - a.val /\ b.val - a.val < Width \div 2
  BY <1>1
<1> QED BY <1>2, NoWrap DEF T!Confcmp

\* What the search finds: the link of that value, behind the others if there is none.
Place(v) == IF \E i \in 1 .. Len(lfile) : lfile[i].val = v
            THEN CHOOSE i \in 1 .. Len(lfile) : lfile[i].val = v ELSE Len(lfile) + 1

LEMMA PlaceIs ==
  ASSUME Distinct, TrafficType, NEW v
  PROVE  /\ Place(v) \in Slots
         /\ \A i \in 1 .. Len(lfile) : Place(v) = i <=> lfile[i].val = v
         /\ Place(v) = Len(lfile) + 1 <=> \A i \in 1 .. Len(lfile) : lfile[i].val # v
<1>1. Len(lfile) \in Nat
  BY DEF TrafficType
<1>2. CASE \E i \in 1 .. Len(lfile) : lfile[i].val = v
  <2>1. Place(v) \in 1 .. Len(lfile) /\ lfile[Place(v)].val = v
    BY <1>2 DEF Place
  <2> QED BY <1>1, <2>1 DEF Distinct, Slots
<1>3. CASE ~ \E i \in 1 .. Len(lfile) : lfile[i].val = v
  BY <1>1, <1>3 DEF Place, Slots
<1> QED BY <1>2, <1>3

\* Different numbers can be put in falling order.
LEMMA Sorting ==
  ASSUME NEW n \in Nat, NEW w \in [1 .. n -> Int], \A i, j \in 1 .. n : i # j => w[i] # w[j]
  PROVE  \E q \in [1 .. n -> 1 .. n] :
           /\ \A t \in 1 .. n : \E k \in 1 .. n : q[k] = t
           /\ \A i, j \in 1 .. n : i < j => w[q[i]] > w[q[j]]
<1> DEFINE above(i) == {j \in 1 .. n : w[j] > w[i]}
           rank == [i \in 1 .. n |-> Cardinality(above(i)) + 1]
<1>1. IsFiniteSet(1 .. n) /\ Cardinality(1 .. n) = n
  BY FS_Interval
<1>2. ASSUME NEW i \in 1 .. n
      PROVE  /\ IsFiniteSet(above(i)) /\ Cardinality(above(i)) \in Nat
             /\ Cardinality(above(i)) + 1 \in 1 .. n
  <2>1. above(i) \in SUBSET (1 .. n) /\ i \notin above(i)
    OBVIOUS
  <2> HIDE DEF above
  <2>2. IsFiniteSet(above(i)) /\ Cardinality(above(i)) <= n /\ Cardinality(above(i)) # n
    BY <1>1, <2>1, FS_Subset
  <2>3. Cardinality(above(i)) \in Nat
    BY <2>2, FS_CardinalityType
  <2> QED BY <2>2, <2>3
<1>3. ASSUME NEW a \in 1 .. n, NEW b \in 1 .. n, w[a] > w[b]
      PROVE  Cardinality(above(a)) < Cardinality(above(b))
  <2>1. above(a) \in SUBSET above(b) /\ a \in above(b) /\ a \notin above(a)
    BY <1>3
  <2> HIDE DEF above
  <2>2. Cardinality(above(a)) <= Cardinality(above(b)) /\ Cardinality(above(a)) # Cardinality(above(b))
    BY <1>2, <2>1, FS_Subset
  <2> QED BY <1>2, <2>2
<1> HIDE DEF above
<1>4. rank \in [1 .. n -> 1 .. n]
  BY <1>2
<1>5. ASSUME NEW a \in 1 .. n, NEW b \in 1 .. n
      PROVE  /\ w[a] > w[b] => rank[a] < rank[b]
             /\ rank[a] = rank[b] => a = b
  <2>1. ASSUME NEW c \in 1 .. n, NEW d \in 1 .. n, w[c] > w[d] PROVE rank[c] < rank[d]
    BY <1>2, <1>3, <2>1
  <2>2. a # b => w[a] > w[b] \/ w[b] > w[a]
    OBVIOUS
  <2>3. rank[a] \in Nat /\ rank[b] \in Nat
    BY <1>4
  <2> HIDE DEF rank
  <2> QED BY <2>1, <2>2, <2>3
<1> HIDE DEF rank
<1>6. rank \in Injection(1 .. n, 1 .. n)
  BY <1>4, <1>5 DEF Injection, IsInjective
<1>7. \A k \in 1 .. n : \E i \in 1 .. n : rank[i] = k
  <2>1. rank \in Surjection(1 .. n, 1 .. n)
    BY <1>1, <1>6, FS_Injection
  <2> QED BY <2>1 DEF Surjection
<1> DEFINE q == [k \in 1 .. n |-> CHOOSE i \in 1 .. n : rank[i] = k]
<1>8. \A k \in 1 .. n : q[k] \in 1 .. n /\ rank[q[k]] = k
  BY <1>7
<1>9. q \in [1 .. n -> 1 .. n]
  BY <1>7
<1> HIDE DEF q
<1>10. ASSUME NEW t \in 1 .. n PROVE \E k \in 1 .. n : q[k] = t
  <2>1. rank[t] \in 1 .. n
    BY <1>4
  <2>2. rank[q[rank[t]]] = rank[t] /\ q[rank[t]] \in 1 .. n
    BY <1>8, <2>1
  <2>3. q[rank[t]] = t
    BY <1>5, <2>2
  <2> QED BY <2>1, <2>3
<1>11. ASSUME NEW i \in 1 .. n, NEW j \in 1 .. n, i < j PROVE w[q[i]] > w[q[j]]
  <2>1. q[i] \in 1 .. n /\ q[j] \in 1 .. n /\ rank[q[i]] = i /\ rank[q[j]] = j
    BY <1>8
  <2>2. ~(w[q[j]] > w[q[i]])
    BY <1>5, <1>11, <2>1
  <2>3. q[i] # q[j]
    BY <1>11, <2>1
  <2>4. w[q[i]] # w[q[j]] /\ w[q[i]] \in Int /\ w[q[j]] \in Int
    BY <2>1, <2>3
  <2> QED BY <2>2, <2>4
<1> QED BY <1>9, <1>10, <1>11

\* The configuration qsort leaves: each link of the file once, by falling value.
LEMMA ConfIs ==
  ASSUME T!ConfigurationsTyped, TrafficType, T!Legible, tool = "link"
  PROVE  /\ \A k \in 1 .. Len(lfile) :
              /\ T!Conf[k].id \in 1 .. Len(lfile) /\ T!Conf[k].val = lfile[T!Conf[k].id].val
              /\ T!InReach(T!Conf[k].val) /\ T!Conf[k].val \in Int
         /\ \A i, j \in 1 .. Len(lfile) : i < j => T!Conf[i].val > T!Conf[j].val
         /\ \A t \in 1 .. Len(lfile) : \E k \in 1 .. Len(lfile) : T!Conf[k].id = t
<1> DEFINE n == Len(lfile)  E == T!Entries
           InOrderOf(s) == \A i, j \in DOMAIN lfile : i < j => T!Confcmp(s[i], s[j]) <= 0
<1>1. DOMAIN lfile = 1 .. n /\ n \in Nat
  BY DEF TrafficType
<1>2. \A i \in 1 .. n : E[i].val = lfile[i].val /\ E[i].id = i /\ T!InReach(E[i].val) /\ E[i].val \in Int
  BY <1>1 DEF T!Entries, T!Legible, T!InReach
<1>3. ASSUME NEW i \in 1 .. n, NEW j \in 1 .. n
      PROVE  T!Confcmp(E[i], E[j]) <= 0 <=> E[i].val >= E[j].val
  <2>1. T!Confcmp(E[i], E[j]) = E[j].val - E[i].val
    BY <1>2, ConfcmpIs DEF T!ConfigurationsTyped
  <2> HIDE DEF E
  <2> QED BY <1>2, <2>1
<1>4. DOMAIN E = 1 .. n /\ T!Range(E) = {E[i] : i \in 1 .. n}
  BY <1>1 DEF T!Entries, T!Range
<1>5. \A i, j \in 1 .. n : i # j => E[i].val # E[j].val
  BY <1>2, DistinctLinks DEF Distinct
<1> HIDE DEF E
<1>6. PICK q \in [1 .. n -> 1 .. n] :
        /\ \A t \in 1 .. n : \E k \in 1 .. n : q[k] = t
        /\ \A i, j \in 1 .. n : i < j => E[q[i]].val > E[q[j]].val
  <2> DEFINE w == [i \in 1 .. n |-> E[i].val]
  <2>1. w \in [1 .. n -> Int] /\ \A i, j \in 1 .. n : i # j => w[i] # w[j]
    BY <1>2, <1>5
  <2>2. \A i \in 1 .. n : w[i] = E[i].val
    OBVIOUS
  <2> HIDE DEF w, n
  <2>3. PICK q \in [1 .. n -> 1 .. n] :
          /\ \A t \in 1 .. n : \E k \in 1 .. n : q[k] = t
          /\ \A i, j \in 1 .. n : i < j => w[q[i]] > w[q[j]]
    BY <1>1, <2>1, Sorting
  <2>4. \A i \in 1 .. n : q[i] \in 1 .. n
    OBVIOUS
  <2> QED BY <2>2, <2>3, <2>4
<1> DEFINE s0 == [k \in 1 .. n |-> E[q[k]]]
<1>7. s0 \in T!Bijection(DOMAIN lfile, T!Range(E))
  <2>1. s0 \in [1 .. n -> T!Range(E)]
    BY <1>4
  <2>2. ASSUME NEW i \in 1 .. n, NEW j \in 1 .. n, s0[i] = s0[j] PROVE i = j
    <3>1. E[q[i]].val = E[q[j]].val /\ q[i] \in 1 .. n /\ q[j] \in 1 .. n
      BY <2>2
    <3>2. E[q[i]].val \in Int
      BY <1>2, <3>1
    <3>3. i < j => E[q[i]].val > E[q[j]].val
      BY <1>6
    <3>4. j < i => E[q[j]].val > E[q[i]].val
      BY <1>6
    <3>5. ~(i < j) /\ ~(j < i)
      BY <3>1, <3>2, <3>3, <3>4
    <3> QED BY <1>1, <3>5
  <2>3. ASSUME NEW t \in T!Range(E) PROVE \E i \in 1 .. n : s0[i] = t
    <3>1. PICK u \in 1 .. n : E[u] = t
      BY <1>4
    <3>2. PICK k \in 1 .. n : q[k] = u
      BY <1>6
    <3> QED BY <3>1, <3>2
  <2>4. DOMAIN s0 = 1 .. n
    OBVIOUS
  <2> HIDE DEF s0
  <2> QED BY <1>1, <2>1, <2>2, <2>3, <2>4
      DEF T!Bijection, T!Injection, T!Surjection, T!IsInjective
<1>8. InOrderOf(s0)
  <2>1. ASSUME NEW i \in 1 .. n, NEW j \in 1 .. n, i < j PROVE T!Confcmp(s0[i], s0[j]) <= 0
    <3>1. q[i] \in 1 .. n /\ q[j] \in 1 .. n /\ s0[i] = E[q[i]] /\ s0[j] = E[q[j]]
      OBVIOUS
    <3>2. E[q[i]].val > E[q[j]].val /\ E[q[i]].val \in Int /\ E[q[j]].val \in Int
      BY <1>2, <1>6, <2>1, <3>1
    <3>3. E[q[i]].val >= E[q[j]].val
      BY <3>2
    <3> HIDE DEF s0
    <3> QED BY <1>3, <3>1, <3>3
  <2> QED BY <1>1, <2>1
<1>9. T!Conf = CHOOSE s \in T!Bijection(DOMAIN lfile, T!Range(E)) : InOrderOf(s)
  BY DEF T!Conf, E
<1> HIDE DEF s0, InOrderOf
<1>10. T!Conf \in T!Bijection(DOMAIN lfile, T!Range(E)) /\ InOrderOf(T!Conf)
  BY <1>7, <1>8, <1>9
<1>11. PICK s : s = T!Conf
  OBVIOUS
<1>12. s \in [1 .. n -> T!Range(E)] /\ (\A i, j \in 1 .. n : s[i] = s[j] => i = j)
       /\ \A t \in T!Range(E) : \E i \in 1 .. n : s[i] = t
  BY <1>1, <1>10, <1>11 DEF T!Bijection, T!Injection, T!Surjection, T!IsInjective
<1>13. ASSUME NEW i \in 1 .. n PROVE s[i].id \in 1 .. n /\ s[i] = E[s[i].id]
  <2>1. PICK t \in 1 .. n : s[i] = E[t]
    BY <1>4, <1>12
  <2>2. s[i].id = t
    BY <1>2, <2>1
  <2> QED BY <2>1, <2>2
<1>14. ASSUME NEW i \in 1 .. n, NEW j \in 1 .. n, i < j PROVE s[i].val > s[j].val
  <2> DEFINE a == s[i].id  b == s[j].id
  <2>1. a \in 1 .. n /\ b \in 1 .. n /\ s[i] = E[a] /\ s[j] = E[b]
    BY <1>13
  <2>2. a # b
    BY <1>12, <1>14, <2>1
  <2>3. T!Confcmp(s[i], s[j]) <= 0
    BY <1>1, <1>10, <1>11, <1>14 DEF InOrderOf
  <2> HIDE DEF a, b
  <2>4. E[a].val >= E[b].val /\ E[a].val # E[b].val /\ E[a].val \in Int /\ E[b].val \in Int
    BY <1>2, <1>3, <1>5, <2>1, <2>2, <2>3
  <2> QED BY <2>1, <2>4
<1>15. ASSUME NEW t \in 1 .. n PROVE \E k \in 1 .. n : s[k].id = t
  <2>1. E[t] \in T!Range(E)
    BY <1>4
  <2>2. PICK k \in 1 .. n : s[k] = E[t]
    BY <1>12, <2>1
  <2> QED BY <1>2, <2>2
<1>16. \A k \in 1 .. n : /\ s[k].id \in 1 .. n /\ s[k].val = lfile[s[k].id].val
                         /\ T!InReach(s[k].val) /\ s[k].val \in Int
  BY <1>2, <1>13
<1> QED BY <1>11, <1>14, <1>15, <1>16

\* Where the link of a value is among the sorted ones, behind them if there is none.
Spot(v) == IF \E k \in 1 .. Len(lfile) : T!Conf[k].val = v
           THEN CHOOSE k \in 1 .. Len(lfile) : T!Conf[k].val = v ELSE Len(lfile) + 1

LEMMA SpotIs ==
  ASSUME T!ConfigurationsTyped, TrafficType, T!Legible, tool = "link", NEW v
  PROVE  /\ Spot(v) \in 1 .. Len(lfile) + 1
         /\ \A k \in 1 .. Len(lfile) : Spot(v) = k <=> T!Conf[k].val = v
         /\ Spot(v) = Len(lfile) + 1 => Place(v) = Len(lfile) + 1
         /\ Spot(v) # Len(lfile) + 1 => T!Conf[Spot(v)].id = Place(v)
<1> DEFINE n == Len(lfile)
<1>1. n \in Nat /\ Distinct
  BY DistinctLinks DEF TrafficType
<1>2. /\ \A k \in 1 .. n : T!Conf[k].id \in 1 .. n /\ T!Conf[k].val = lfile[T!Conf[k].id].val
                           /\ T!Conf[k].val \in Int
      /\ \A i, j \in 1 .. n : i < j => T!Conf[i].val > T!Conf[j].val
      /\ \A t \in 1 .. n : \E k \in 1 .. n : T!Conf[k].id = t
  BY ConfIs
<1>3. \A i \in 1 .. n : Place(v) = i <=> lfile[i].val = v
  BY <1>1, PlaceIs
<1>4. Place(v) = n + 1 <=> \A i \in 1 .. n : lfile[i].val # v
  BY <1>1, PlaceIs
<1>5. CASE \E k \in 1 .. n : T!Conf[k].val = v
  <2>1. Spot(v) \in 1 .. n /\ T!Conf[Spot(v)].val = v
    BY <1>5 DEF Spot
  <2>2. ASSUME NEW k \in 1 .. n, T!Conf[k].val = v PROVE Spot(v) = k
    <3>1. T!Conf[k].val \in Int
      BY <1>2
    <3>2. k < Spot(v) => T!Conf[k].val > T!Conf[Spot(v)].val
      BY <1>2, <2>1
    <3>3. Spot(v) < k => T!Conf[Spot(v)].val > T!Conf[k].val
      BY <1>2, <2>1
    <3>4. ~(k < Spot(v)) /\ ~(Spot(v) < k)
      BY <2>1, <2>2, <3>1, <3>2, <3>3
    <3> QED BY <1>1, <2>1, <3>4
  <2>3. T!Conf[Spot(v)].id = Place(v)
    BY <1>2, <1>3, <2>1
  <2>4. Spot(v) # n + 1 /\ Spot(v) \in 1 .. n + 1
    BY <1>1, <2>1
  <2>5. \A k \in 1 .. n : Spot(v) = k <=> T!Conf[k].val = v
    BY <2>1, <2>2
  <2> QED BY <2>3, <2>4, <2>5
<1>6. CASE ~ \E k \in 1 .. n : T!Conf[k].val = v
  <2>1. Spot(v) = n + 1
    BY <1>6 DEF Spot
  <2>2. ASSUME NEW i \in 1 .. n PROVE lfile[i].val # v
    <3>1. PICK k \in 1 .. n : T!Conf[k].id = i
      BY <1>2
    <3>2. T!Conf[k].val = lfile[i].val
      BY <1>2, <3>1
    <3> QED BY <1>6, <3>2
  <2> QED BY <1>1, <1>4, <1>6, <2>1, <2>2
<1> QED BY <1>5, <1>6

\* The search between l and u, where it is after one look.
Search(f, v, l, u) ==
  LET m == (l + u) \div 2  c == T!Confcmp([val |-> v], T!Conf[m + 1])
  IN IF l >= u THEN 0 ELSE IF c < 0 THEN f[<<l, m>>] ELSE IF c > 0 THEN f[<<m + 1, u>>] ELSE m + 1

\* A link of that value is behind l and not behind u.
Between(v, l, u) == IF Spot(v) \in l + 1 .. u /\ Spot(v) # Len(lfile) + 1 THEN Spot(v) ELSE 0

\* What the search does is right if its two halves are.
LEMMA SearchStep ==
  ASSUME T!ConfigurationsTyped, TrafficType, T!Legible, tool = "link",
         NEW v, T!InReach(v), NEW f, NEW l \in 0 .. Len(lfile), NEW u \in 0 .. Len(lfile),
         \A m \in 0 .. Len(lfile) : l <= m /\ m < u =>
           f[<<l, m>>] = Between(v, l, m) /\ f[<<m + 1, u>>] = Between(v, m + 1, u)
  PROVE  Search(f, v, l, u) = Between(v, l, u)
<1> DEFINE n == Len(lfile)  m == (l + u) \div 2  c == T!Confcmp([val |-> v], T!Conf[m + 1])
           pl == Spot(v)
<1>1. DOMAIN lfile = 1 .. n /\ n \in Nat
  BY DEF TrafficType
<1>2. /\ pl \in 1 .. n + 1
      /\ \A i \in 1 .. n : pl = i <=> T!Conf[i].val = v
  BY SpotIs
<1>3. CASE l >= u
  <2>1. Search(f, v, l, u) = 0
    BY <1>3 DEF Search
  <2>2. ~(pl \in l + 1 .. u)
    BY <1>3
  <2> QED BY <2>1, <2>2 DEF Between
<1>4. CASE l < u
  <2>1. m \in 0 .. n - 1 /\ l <= m /\ m < u
    BY <1>1, <1>4
  <2> HIDE DEF m
  <2>2. f[<<l, m>>] = Between(v, l, m) /\ f[<<m + 1, u>>] = Between(v, m + 1, u)
    BY <1>1, <2>1
  <2>3. T!InReach(T!Conf[m + 1].val) /\ m + 1 \in 1 .. n
    <3>1. m + 1 \in 1 .. n
      BY <1>1, <2>1
    <3>2. \A k \in 1 .. n : T!InReach(T!Conf[k].val)
      BY ConfIs
    <3> QED BY <3>1, <3>2
  <2>4. c = T!Conf[m + 1].val - v
    BY <2>3, ConfcmpIs DEF T!ConfigurationsTyped
  <2>5. v \in Int /\ \A i \in 1 .. n : T!Conf[i].val \in Int
    BY ConfIs DEF T!InReach
  <2>6. \A i, j \in 1 .. n : i < j => T!Conf[i].val > T!Conf[j].val
    BY ConfIs
  <2>7. Search(f, v, l, u) =
          IF c < 0 THEN f[<<l, m>>] ELSE IF c > 0 THEN f[<<m + 1, u>>] ELSE m + 1
    <3>1. ~(l >= u)
      BY <1>4
    <3> QED BY <3>1 DEF Search, m
  <2>11. c \in Int
    BY <2>3, <2>4, <2>5
  <2>8. CASE c = 0
    <3>1. pl = m + 1
      BY <1>2, <2>3, <2>4, <2>5, <2>8
    <3>2. Search(f, v, l, u) = m + 1
      BY <2>7, <2>8
    <3> QED BY <1>1, <2>1, <3>1, <3>2 DEF Between
  <2>9. CASE c < 0
    <3>1. \A i \in 1 .. n : m + 1 <= i => T!Conf[i].val # v
      <4> SUFFICES ASSUME NEW i \in 1 .. n, m + 1 <= i PROVE T!Conf[i].val # v
        OBVIOUS
      <4>1. T!Conf[m + 1].val < v
        BY <2>3, <2>4, <2>5, <2>9
      <4>2. i = m + 1 \/ m + 1 < i
        BY <2>1
      <4>3. T!Conf[i].val <= T!Conf[m + 1].val
        <5>1. m + 1 < i => T!Conf[m + 1].val > T!Conf[i].val
          BY <2>3, <2>6
        <5>2. T!Conf[i].val \in Int /\ T!Conf[m + 1].val \in Int
          BY <2>3, <2>5
        <5> QED BY <4>2, <5>1, <5>2
      <4> QED BY <2>3, <2>5, <4>1, <4>3
    <3>2. pl <= m \/ pl = n + 1
      <4>1. pl \in 1 .. n => T!Conf[pl].val = v
        BY <1>2
      <4>2. pl \in 1 .. n => ~(m + 1 <= pl)
        BY <3>1, <4>1
      <4>3. pl \in 1 .. n + 1
        BY <1>2
      <4> HIDE DEF pl
      <4> QED BY <1>1, <2>1, <4>2, <4>3
    <3>3. Search(f, v, l, u) = f[<<l, m>>]
      BY <2>7, <2>9
    <3> QED BY <1>1, <1>2, <2>1, <2>2, <3>2, <3>3 DEF Between
  <2>10. CASE c > 0
    <3>1. \A i \in 1 .. n : i <= m + 1 => T!Conf[i].val # v
      <4> SUFFICES ASSUME NEW i \in 1 .. n, i <= m + 1 PROVE T!Conf[i].val # v
        OBVIOUS
      <4>1. T!Conf[m + 1].val > v
        BY <2>3, <2>4, <2>5, <2>10
      <4>2. i = m + 1 \/ i < m + 1
        BY <2>1
      <4>3. T!Conf[i].val >= T!Conf[m + 1].val
        <5>1. i < m + 1 => T!Conf[i].val > T!Conf[m + 1].val
          BY <2>3, <2>6
        <5>2. T!Conf[i].val \in Int /\ T!Conf[m + 1].val \in Int
          BY <2>3, <2>5
        <5> QED BY <4>2, <5>1, <5>2
      <4> QED BY <2>3, <2>5, <4>1, <4>3
    <3>2. pl > m + 1
      BY <1>1, <1>2, <2>1, <3>1
    <3>3. Search(f, v, l, u) = f[<<m + 1, u>>]
      <4>1. ~(c < 0)
        BY <2>10, <2>11
      <4> HIDE DEF c
      <4> QED BY <2>7, <2>10, <4>1
    <3> QED BY <1>1, <1>2, <2>1, <2>2, <3>2, <3>3 DEF Between
  <2> QED BY <2>8, <2>9, <2>10, <2>11
<1> QED BY <1>3, <1>4

\* bsearch finds the link of a value, if there is one.
LEMMA BsearchIs ==
  ASSUME T!ConfigurationsTyped, TrafficType, T!Legible, tool = "link", NEW v, T!InReach(v)
  PROVE  T!Bsearch([val |-> v]) = IF Spot(v) = Len(lfile) + 1 THEN 0 ELSE Spot(v)
<1> DEFINE n == Len(lfile)  B == (0 .. n) \X (0 .. n)
           G == [b \in B |-> Between(v, b[1], b[2])]
<1>1. n \in Nat
  BY DEF TrafficType
<1>2. \A l, u \in 0 .. n : G[<<l, u>>] = Between(v, l, u)
  OBVIOUS
<1> HIDE DEF G
<1>3. G = [b \in B |-> Search(G, v, b[1], b[2])]
  <2>1. ASSUME NEW b \in B PROVE Search(G, v, b[1], b[2]) = Between(v, b[1], b[2])
    <3>1. b[1] \in 0 .. n /\ b[2] \in 0 .. n
      OBVIOUS
    <3>2. ASSUME NEW m \in 0 .. n, b[1] <= m /\ m < b[2]
          PROVE  G[<<b[1], m>>] = Between(v, b[1], m) /\ G[<<m + 1, b[2]>>] = Between(v, m + 1, b[2])
      <4>1. m + 1 \in 0 .. n
        BY <1>1, <3>1, <3>2
      <4> QED BY <1>2, <3>1, <4>1
    <3> HIDE DEF n, B
    <3> QED BY <3>1, <3>2, SearchStep DEF n
  <2>2. G = [b \in B |-> Between(v, b[1], b[2])]
    BY DEF G
  <2> HIDE DEF B
  <2> QED BY <2>1, <2>2
<1>4. ASSUME NEW f, f = [b \in B |-> Search(f, v, b[1], b[2])],
             NEW d \in Nat, \A e \in Nat : e < d => \A l, u \in 0 .. n : u - l <= e => f[<<l, u>>] = Between(v, l, u)
      PROVE  \A l, u \in 0 .. n : u - l <= d => f[<<l, u>>] = Between(v, l, u)
  <2> SUFFICES ASSUME NEW l \in 0 .. n, NEW u \in 0 .. n, u - l <= d
               PROVE  f[<<l, u>>] = Between(v, l, u)
    OBVIOUS
  <2>1. f[<<l, u>>] = Search(f, v, l, u)
    BY <1>4
  <2>2. ASSUME NEW m \in 0 .. n, l <= m /\ m < u
        PROVE  f[<<l, m>>] = Between(v, l, m) /\ f[<<m + 1, u>>] = Between(v, m + 1, u)
    <3>1. d - 1 \in Nat /\ d - 1 < d /\ m - l <= d - 1 /\ u - (m + 1) <= d - 1 /\ m + 1 \in 0 .. n
      BY <1>1, <2>2
    <3> QED BY <1>4, <3>1
  <2>3. Search(f, v, l, u) = Between(v, l, u)
    <3> HIDE DEF n
    <3> QED BY <2>2, SearchStep DEF n
  <2> QED BY <2>1, <2>3
<1>5. ASSUME NEW f, f = [b \in B |-> Search(f, v, b[1], b[2])]
      PROVE  f[<<0, n>>] = Between(v, 0, n)
  <2> DEFINE Upto(d) == \A l, u \in 0 .. n : u - l <= d => f[<<l, u>>] = Between(v, l, u)
             Bad == {d \in Nat : ~ Upto(d)}
  <2>1. Bad = {}
    <3> SUFFICES ASSUME Bad # {} PROVE FALSE
      OBVIOUS
    <3>1. PICK d \in Bad : \A e \in Bad : d <= e
      BY Least
    <3>2. d \in Nat /\ ~ Upto(d)
      OBVIOUS
    <3>3. \A e \in Nat : e < d => Upto(e)
      BY <3>1
    <3> QED BY <1>4, <1>5, <3>2, <3>3
  <2>2. Upto(n)
    BY <1>1, <2>1
  <2> QED BY <1>1, <2>2
<1>6. T!Bsearch([val |-> v]) = (CHOOSE f : f = [b \in B |-> Search(f, v, b[1], b[2])])[<<0, n>>]
  BY DEF T!Bsearch, Search
<1>7. T!Bsearch([val |-> v]) = Between(v, 0, n)
  <2> DEFINE R(f) == f = [b \in B |-> Search(f, v, b[1], b[2])]
  <2>1. R(CHOOSE f : R(f))
    <3>1. R(G)
      BY <1>3
    <3> HIDE DEF R
    <3> QED BY <3>1
  <2> QED BY <1>5, <1>6, <2>1
<1>8. Spot(v) \in 1 .. n + 1
  BY SpotIs
<1> QED BY <1>1, <1>7, <1>8 DEF Between

-----------------------------------------------------------------------------
(* What is counted, and what is answered.                                  *)

\* Where the records of a value are counted, and what the columns of a reply are.
LEMMA SlotIs ==
  ASSUME T!ConfigurationsTyped, TrafficType, T!Legible, NEW v, tool = "link" => T!InReach(v)
  PROVE  T!SlotOf(v) = Place(v)
<1>1. DOMAIN lfile = 1 .. Len(lfile) /\ Len(lfile) \in Nat
  BY DEF TrafficType
<1>2. Place(v) \in Slots
  BY DistinctLinks, PlaceIs
<1>3. CASE tool = "proto"
  BY <1>1, <1>3 DEF T!SlotOf, T!Others, Place
<1>4. CASE tool = "link"
  <2> DEFINE found == T!Bsearch([val |-> v])
  <2>1. found = IF Spot(v) = Len(lfile) + 1 THEN 0 ELSE Spot(v)
    BY <1>4, BsearchIs
  <2>2. T!SlotOf(v) = IF found = 0 THEN T!Others ELSE T!Conf[found].id
    BY <1>4 DEF T!SlotOf
  <2>5. Spot(v) \in 1 .. Len(lfile) + 1
    BY <1>4, SpotIs
  <2> HIDE DEF found
  <2>3. CASE Spot(v) = Len(lfile) + 1
    <3>1. Place(v) = Len(lfile) + 1
      BY <1>4, <2>3, SpotIs
    <3> QED BY <2>1, <2>2, <2>3, <3>1 DEF T!Others
  <2>4. CASE Spot(v) # Len(lfile) + 1
    <3>1. T!Conf[Spot(v)].id = Place(v)
      BY <1>4, <2>4, SpotIs
    <3>2. found = Spot(v) /\ found # 0
      BY <1>1, <2>1, <2>4, <2>5
    <3> QED BY <2>2, <3>1, <3>2
  <2> QED BY <2>3, <2>4
<1> QED BY <1>3, <1>4 DEF TrafficType

Columns == Len(lfile) + IF tool = "proto" THEN 1 ELSE 0

LEMMA HeadersAre ==
  ASSUME TrafficType
  PROVE  /\ Columns \in Nat \ {0} /\ Columns <= Len(lfile) + 1
         /\ DOMAIN T!Headers = 1 .. Columns /\ Len(T!Headers) = Columns
<1>1. DOMAIN lfile = 1 .. Len(lfile) /\ Len(lfile) \in Nat
  BY DEF TrafficType
<1>2. CASE tool = "proto"
  <2>1. DOMAIN T!Headers = 1 .. Len(lfile) + 1
    BY <1>2 DEF T!Headers, T!Others
  <2> QED BY <1>1, <1>2, <2>1 DEF Columns
<1>3. CASE tool = "link"
  <2>1. DOMAIN T!Headers = 1 .. Len(lfile)
    BY <1>1, <1>3 DEF T!Headers
  <2>3. Len(lfile) # 0
    BY <1>3 DEF TrafficType
  <2>4. Columns = Len(lfile)
    BY <1>1, <1>3 DEF Columns
  <2> QED BY <1>1, <2>1, <2>3, <2>4
<1> QED BY <1>2, <1>3 DEF TrafficType

\* The records of a direction that are counted in a slot.
Belong(s, d) == {k \in 1 .. Len(records) : records[k].dir = d /\ Place(records[k].val) = s}

\* Main is about to count one of them.
Pending(s, d) == IF pc = "count" /\ slot = s /\ dir = d THEN 1 ELSE 0

\* Each of them has been counted, or is about to be, unless link_traffic died in between.
Tallied(s, d) ==
  /\ stats[s][d].flows + Pending(s, d) <= Cardinality(Belong(s, d))
  /\ pc # "exit" => stats[s][d].flows + Pending(s, d) = Cardinality(Belong(s, d))

IsStats(x) == x \in [Slots -> [{0, 1} -> [flows : Nat, volume : Nat]]]

Counted ==
  /\ IsStats(stats)
  /\ pc \in {"count", "volume"} => slot \in Slots /\ dir \in {0, 1}
  /\ \A s \in Slots, d \in {0, 1} : Tallied(s, d)

\* Each value of a reply that fits in the buffer was read after the client came.
Answered ==
  server \in {"print", "send"} /\ T!Fits =>
    /\ IsStats(asked) /\ IsSequence(values)
    /\ IF server = "print" THEN Len(values) < Columns ELSE Len(values) = Columns
    /\ \A s \in Slots, d \in {0, 1} : asked[s][d].flows <= stats[s][d].flows
    /\ \A i \in 1 .. Len(values) :
         /\ values[i] \in [{0, 1} -> [flows : Nat, volume : Nat]]
         /\ \A d \in {0, 1} : /\ asked[i][d].flows <= values[i][d].flows
                              /\ values[i][d].flows <= stats[i][d].flows

TrafficInv == TrafficType /\ (T!Legible => Counted /\ Answered)

LEMMA BelongFinite == ASSUME TrafficType PROVE \A s, d : Cardinality(Belong(s, d)) \in Nat
<1> SUFFICES ASSUME NEW s, NEW d PROVE Cardinality(Belong(s, d)) \in Nat
  OBVIOUS
<1>1. Len(records) \in Nat
  BY DEF TrafficType, IsSequence
<1>2. IsFiniteSet(1 .. Len(records)) /\ Belong(s, d) \subseteq 1 .. Len(records)
  BY <1>1, FS_Interval DEF Belong
<1> QED BY <1>2, FS_Subset, FS_CardinalityType

LEMMA TrafficInitHolds == ASSUME T!ConfigurationsTyped, T!Init PROVE TrafficInv
<1>1. tool \in {"link", "proto"}
  BY DEF T!Init, T!ConfigurationsTyped
<1>2. lfile \in Seq([val : Int, name : STRING]) /\ (tool = "link" => lfile # <<>>)
      /\ (tool = "proto" => lfile = Protocols)
  BY <1>1 DEF T!Init, T!ConfigurationsTyped
<1>3. records = <<>> /\ IsSequence(records) /\ Len(records) = 0
  BY DEF T!Init, IsSequence
<1>4. TrafficType
  BY <1>1, <1>2, <1>3 DEF TrafficType, T!Init
<1>5. Len(lfile) \in Nat
  BY <1>2
<1>6. stats = [i \in Slots |-> [d \in {0, 1} |-> [flows |-> 0, volume |-> 0]]]
  BY DEF T!Init, T!Nothing, T!Others, Slots
<1>7. IsStats(stats) /\ \A s \in Slots, d \in {0, 1} : stats[s][d].flows = 0
  BY <1>6 DEF IsStats
<1>8. \A s, d : Belong(s, d) = {}
  BY <1>3 DEF Belong
<1>9. ASSUME NEW s \in Slots, NEW d \in {0, 1} PROVE Tallied(s, d)
  <2>1. Pending(s, d) = 0
    BY DEF Pending, T!Init
  <2>2. Cardinality(Belong(s, d)) = 0
    BY <1>8, FS_EmptySet
  <2> QED BY <1>7, <2>1, <2>2 DEF Tallied
<1>10. Counted
  BY <1>7, <1>9 DEF Counted, T!Init
<1>11. Answered
  BY DEF Answered, T!Init
<1> QED BY <1>4, <1>10, <1>11 DEF TrafficInv

LEMMA SameFile ==
  ASSUME UNCHANGED <<tool, lfile>>
  PROVE  Slots' = Slots /\ Columns' = Columns /\ T!Fits' = T!Fits /\ \A v : Place(v)' = Place(v)
BY DEF Slots, Columns, Place, T!Fits

LEMMA SameRecords ==
  ASSUME UNCHANGED <<tool, lfile, records>>
  PROVE  /\ T!Legible' <=> T!Legible
         /\ \A s, d : Belong(s, d)' = Belong(s, d)
<1>1. T!Legible' <=> T!Legible
  BY DEF T!Legible
<1>2. \A v : Place(v)' = Place(v)
  BY SameFile
<1>3. ASSUME NEW s, NEW d PROVE Belong(s, d)' = Belong(s, d)
  BY <1>2 DEF Belong
<1> QED BY <1>1, <1>3

\* What the thread does leaves the counts alone.
LEMMA StillCounted ==
  ASSUME TrafficType, Counted, UNCHANGED <<tool, lfile, records, stats, slot, dir>>,
         pc' = pc \/ pc' = "exit"
  PROVE  Counted'
<1>1. Slots' = Slots /\ \A s, d : Belong(s, d)' = Belong(s, d)
  BY SameFile, SameRecords
<1>2. IsStats(stats)'
  BY <1>1 DEF Counted, IsStats
<1>3. pc' \in {"count", "volume"} => slot' \in Slots' /\ dir' \in {0, 1}
  BY <1>1 DEF Counted
<1>4. ASSUME NEW s \in Slots, NEW d \in {0, 1} PROVE Tallied(s, d)'
  <2>1. Tallied(s, d) /\ stats[s][d].flows \in Nat /\ stats'[s][d] = stats[s][d]
    BY DEF Counted, IsStats
  <2>2. Pending(s, d) \in {0, 1} /\ Pending(s, d)' \in {0, 1}
    BY DEF Pending
  <2>3. /\ pc' = pc => Pending(s, d)' = Pending(s, d)
        /\ pc' = "exit" => Pending(s, d)' = 0
    BY DEF Pending
  <2>4. Cardinality(Belong(s, d)) \in Nat /\ Cardinality(Belong(s, d)') = Cardinality(Belong(s, d))
    BY <1>1, BelongFinite
  <2> QED BY <2>1, <2>2, <2>3, <2>4 DEF Tallied
<1> QED BY <1>1, <1>2, <1>3, <1>4 DEF Counted

\* What main does only raises the counts.
LEMMA StillAnswered ==
  ASSUME TrafficType, Counted, Answered, UNCHANGED <<tool, lfile, server, values, asked>>,
         IsStats(stats)',
         \A s \in Slots, d \in {0, 1} : stats[s][d].flows <= stats'[s][d].flows
  PROVE  Answered'
<1>1. Slots' = Slots /\ Columns' = Columns /\ T!Fits' = T!Fits
  BY SameFile
<1>2. SUFFICES ASSUME server \in {"print", "send"}, T!Fits PROVE Answered'
  BY <1>1 DEF Answered
<1>3. /\ IsStats(asked) /\ IsSequence(values)
      /\ IF server = "print" THEN Len(values) < Columns ELSE Len(values) = Columns
      /\ \A s \in Slots, d \in {0, 1} : asked[s][d].flows <= stats[s][d].flows
      /\ \A i \in 1 .. Len(values) :
         /\ values[i] \in [{0, 1} -> [flows : Nat, volume : Nat]]
         /\ \A d \in {0, 1} : /\ asked[i][d].flows <= values[i][d].flows
                              /\ values[i][d].flows <= stats[i][d].flows
  BY <1>2 DEF Answered
<1>4. IsStats(stats) /\ stats' \in [Slots -> [{0, 1} -> [flows : Nat, volume : Nat]]]
  BY <1>1 DEF Counted, IsStats
<1>5. ASSUME NEW s \in Slots, NEW d \in {0, 1} PROVE asked[s][d].flows <= stats'[s][d].flows
  <2>1. asked[s][d].flows \in Nat /\ stats[s][d].flows \in Nat /\ stats'[s][d].flows \in Nat
    BY <1>3, <1>4 DEF IsStats
  <2>2. asked[s][d].flows <= stats[s][d].flows /\ stats[s][d].flows <= stats'[s][d].flows
    BY <1>3
  <2> QED BY <2>1, <2>2
<1>6. ASSUME NEW i \in 1 .. Len(values), NEW d \in {0, 1} PROVE values[i][d].flows <= stats'[i][d].flows
  <2>1. i \in Slots
    <3>1. Columns <= Len(lfile) + 1 /\ Columns \in Nat /\ Len(values) \in Nat /\ Len(lfile) \in Nat
      BY <1>3, HeadersAre DEF IsSequence, TrafficType
    <3>2. Len(values) <= Columns
      BY <1>3, <3>1
    <3> QED BY <3>1, <3>2 DEF Slots
  <2>2. values[i][d].flows \in Nat /\ stats[i][d].flows \in Nat /\ stats'[i][d].flows \in Nat
    BY <1>3, <1>4, <2>1 DEF IsStats
  <2>3. values[i][d].flows <= stats[i][d].flows /\ stats[i][d].flows <= stats'[i][d].flows
    BY <1>3, <2>1
  <2> QED BY <2>2, <2>3
<1>7. IsStats(asked)'
  BY <1>1, <1>3 DEF IsStats
<1>8. IsSequence(values)' /\ Len(values') = Len(values)
  BY <1>3
<1>9. \A i \in 1 .. Len(values') :
         /\ values'[i] \in [{0, 1} -> [flows : Nat, volume : Nat]]
         /\ \A d \in {0, 1} : /\ asked'[i][d].flows <= values'[i][d].flows
                              /\ values'[i][d].flows <= stats'[i][d].flows
  BY <1>3, <1>6, <1>8
<1>10. IF server' = "print" THEN Len(values') < Columns' ELSE Len(values') = Columns'
  BY <1>1, <1>3
<1>11. \A s \in Slots', d \in {0, 1} : asked'[s][d].flows <= stats'[s][d].flows
  BY <1>1, <1>5
<1> QED BY <1>7, <1>8, <1>9, <1>10, <1>11 DEF Answered

LEMMA CountsStay ==
  ASSUME Counted, UNCHANGED stats
  PROVE  \A s \in Slots, d \in {0, 1} : stats[s][d].flows <= stats'[s][d].flows
<1>1. ASSUME NEW s \in Slots, NEW d \in {0, 1} PROVE stats[s][d].flows <= stats'[s][d].flows
  <2>1. stats[s][d].flows \in Nat
    BY DEF Counted, IsStats
  <2> QED BY <2>1
<1> QED BY <1>1

LEMMA TrafficReceiveKeeps == ASSUME T!ConfigurationsTyped, TrafficInv, T!Receive PROVE TrafficInv'
<1>1. PICK v \in IF tool = "proto" THEN ProtoValues ELSE LinkValues,
           d \in IF tool = "proto" THEN {0} ELSE {0, 1, 2} :
             /\ records' = Append(records, [val |-> v, dir |-> d])
             /\ slot' = T!SlotOf(v) /\ dir' = d
             /\ pc' = IF d \in {0, 1} THEN "count" ELSE "receive"
  BY DEF T!Receive
<1>2. UNCHANGED <<tool, lfile, server, values, asked, stats>> /\ pc = "receive"
  BY DEF T!Receive, T!MainOnly, T!fixed
<1>3. TrafficType
  BY DEF TrafficInv
<1>4. /\ IsSequence(records') /\ Len(records') = Len(records) + 1
      /\ \A k \in 1 .. Len(records) : records'[k] = records[k]
      /\ records'[Len(records) + 1] = [val |-> v, dir |-> d]
  BY <1>1, <1>3, AppendIs DEF TrafficType
<1>5. TrafficType'
  BY <1>1, <1>2, <1>3, <1>4 DEF TrafficType
<1>6. SUFFICES ASSUME T!Legible' PROVE Counted' /\ Answered'
  BY <1>5 DEF TrafficInv
<1> DEFINE n == Len(records)
<1>7. n \in Nat /\ DOMAIN records = 1 .. n /\ DOMAIN records' = 1 .. n + 1
  BY <1>3, <1>4 DEF TrafficType, IsSequence
<1>8. T!Legible /\ (tool = "link" => T!InReach(v))
  <2>1. \A k \in 1 .. n : k \in 1 .. n + 1 /\ records'[k].val = records[k].val
    BY <1>4, <1>7
  <2>2. records'[n + 1].val = v /\ n + 1 \in 1 .. n + 1
    BY <1>4, <1>7
  <2> HIDE DEF n
  <2> QED BY <1>2, <1>6, <1>7, <2>1, <2>2 DEF T!Legible
<1>9. Counted /\ Answered
  BY <1>8 DEF TrafficInv
<1>10. slot' = Place(v) /\ Place(v) \in Slots
  BY <1>1, <1>3, <1>8, SlotIs, DistinctLinks, PlaceIs
<1>11. Slots' = Slots /\ \A w : Place(w)' = Place(w)
  BY <1>2, SameFile
<1>12. \A s, e : Belong(s, e)' = IF s = Place(v) /\ e = d THEN Belong(s, e) \cup {n + 1} ELSE Belong(s, e)
  <2> SUFFICES ASSUME NEW s, NEW e
               PROVE  Belong(s, e)' = IF s = Place(v) /\ e = d THEN Belong(s, e) \cup {n + 1} ELSE Belong(s, e)
    OBVIOUS
  <2> DEFINE B(r, k) == r[k].dir = e /\ Place(r[k].val) = s
  <2>1. Belong(s, e) = {k \in 1 .. n : B(records, k)}
    BY DEF Belong
  <2>2. Belong(s, e)' = {k \in 1 .. n + 1 : B(records', k)}
    BY <1>4, <1>11 DEF Belong
  <2>3. \A k \in 1 .. n : B(records', k) <=> B(records, k)
    BY <1>4
  <2>4. B(records', n + 1) <=> s = Place(v) /\ e = d
    BY <1>4
  <2> HIDE DEF B
  <2> QED BY <1>7, <2>1, <2>2, <2>3, <2>4
<1>13. IsStats(stats)'
  BY <1>2, <1>9, <1>11 DEF Counted, IsStats
<1>14. ASSUME NEW s \in Slots', NEW e \in {0, 1}
       PROVE  /\ stats'[s][e].flows + Pending(s, e)' = Cardinality(Belong(s, e)')
              /\ stats'[s][e].flows + Pending(s, e)' \in Nat
  <2>1. stats[s][e].flows + Pending(s, e) = Cardinality(Belong(s, e)) /\ stats[s][e].flows \in Nat
    BY <1>2, <1>9, <1>11 DEF Counted, IsStats, Tallied
  <2>2. Pending(s, e) = 0 /\ Pending(s, e)' = IF s = Place(v) /\ e = d THEN 1 ELSE 0
    BY <1>1, <1>2, <1>10 DEF Pending
  <2>3. Cardinality(Belong(s, e) \cup {n + 1}) = Cardinality(Belong(s, e)) + 1
    <3>1. Belong(s, e) \subseteq 1 .. n /\ n + 1 \notin Belong(s, e)
      BY <1>7 DEF Belong
    <3>2. IsFiniteSet(1 .. n)
      BY <1>7, FS_Interval
    <3>3. IsFiniteSet(Belong(s, e))
      BY <3>1, <3>2, FS_Subset
    <3> QED BY <3>1, <3>3, FS_AddElement
  <2> HIDE DEF n
  <2>4. CASE s = Place(v) /\ e = d
    <3>1. Belong(s, e)' = Belong(s, e) \cup {n + 1}
      BY <1>12, <2>4
    <3>2. Pending(s, e) = 0 /\ Pending(s, e)' = 1
      BY <2>2, <2>4
    <3>3. Cardinality(Belong(s, e)') = stats[s][e].flows + 1
      BY <2>1, <2>3, <3>1, <3>2
    <3> QED BY <1>2, <2>1, <3>2, <3>3
  <2>5. CASE ~(s = Place(v) /\ e = d)
    BY <1>2, <1>12, <2>1, <2>2, <2>5
  <2> QED BY <2>4, <2>5
<1>15. pc' \in {"count", "volume"} => slot' \in Slots' /\ dir' \in {0, 1}
  BY <1>1, <1>10, <1>11
<1>18. \A s \in Slots', e \in {0, 1} : Tallied(s, e)'
  BY <1>14 DEF Tallied
<1>16. Counted'
  BY <1>13, <1>15, <1>18 DEF Counted
<1>17. Answered'
  BY <1>2, <1>3, <1>9, <1>13, StillAnswered, CountsStay
<1> QED BY <1>16, <1>17

LEMMA CountFlowKeeps == ASSUME T!ConfigurationsTyped, TrafficInv, T!CountFlow PROVE TrafficInv'
<1>1. /\ pc = "count" /\ pc' = "volume" /\ stats' = [stats EXCEPT ![slot][dir].flows = @ + 1]
      /\ UNCHANGED <<tool, lfile, server, values, asked, slot, dir, records>>
  BY DEF T!CountFlow, T!MainOnly, T!fixed
<1>2. TrafficType /\ TrafficType'
  BY <1>1 DEF TrafficInv, TrafficType
<1>3. SUFFICES ASSUME T!Legible' PROVE Counted' /\ Answered'
  BY <1>2 DEF TrafficInv
<1>4. T!Legible /\ \A s, e : Belong(s, e)' = Belong(s, e)
  BY <1>1, <1>3, SameRecords
<1>5. Counted /\ Answered /\ Slots' = Slots
  BY <1>1, <1>4, SameFile DEF TrafficInv
<1>6. slot \in Slots /\ dir \in {0, 1} /\ stats \in [Slots -> [{0, 1} -> [flows : Nat, volume : Nat]]]
  BY <1>1, <1>5 DEF Counted, IsStats
<1>7. stats' \in [Slots -> [{0, 1} -> [flows : Nat, volume : Nat]]]
  <2>1. stats[slot][dir].flows + 1 \in Nat
    BY <1>6
  <2> QED BY <1>1, <1>6, <2>1
<1>8. \A s \in Slots, e \in {0, 1} :
        stats'[s][e].flows = IF s = slot /\ e = dir THEN stats[s][e].flows + 1 ELSE stats[s][e].flows
  BY <1>1, <1>6
<1>9. ASSUME NEW s \in Slots, NEW e \in {0, 1}
      PROVE  /\ stats[s][e].flows <= stats'[s][e].flows
             /\ stats'[s][e].flows + Pending(s, e)' = Cardinality(Belong(s, e)')
             /\ stats'[s][e].flows + Pending(s, e)' \in Nat
  <2>1. stats[s][e].flows \in Nat
    BY <1>6
  <2>2. stats[s][e].flows + Pending(s, e) = Cardinality(Belong(s, e))
    BY <1>1, <1>5 DEF Counted, Tallied
  <2>3. Pending(s, e)' = 0 /\ Pending(s, e) = IF s = slot /\ e = dir THEN 1 ELSE 0
    BY <1>1 DEF Pending
  <2>4. Belong(s, e)' = Belong(s, e)
    BY <1>4
  <2>5. stats'[s][e].flows = stats[s][e].flows + Pending(s, e)
    BY <1>8, <2>1, <2>3
  <2>6. Pending(s, e) \in {0, 1}
    BY <2>3
  <2>7. stats[s][e].flows <= stats'[s][e].flows
    BY <2>1, <2>5, <2>6
  <2>8. stats'[s][e].flows + Pending(s, e)' = stats[s][e].flows + Pending(s, e)
    BY <2>1, <2>3, <2>5, <2>6
  <2> QED BY <2>1, <2>2, <2>4, <2>6, <2>7, <2>8
<1>10. IsStats(stats)'
  BY <1>5, <1>7 DEF IsStats
<1>13. \A s \in Slots', e \in {0, 1} : Tallied(s, e)'
  BY <1>5, <1>9 DEF Tallied
<1>11. Counted'
  BY <1>1, <1>5, <1>6, <1>10, <1>13 DEF Counted
<1>12. Answered'
  BY <1>1, <1>2, <1>5, <1>9, <1>10, StillAnswered
<1> QED BY <1>11, <1>12

LEMMA CountVolumeKeeps == ASSUME T!ConfigurationsTyped, TrafficInv, T!CountVolume PROVE TrafficInv'
<1>1. /\ pc = "volume" /\ pc' = "receive" /\ stats' = [stats EXCEPT ![slot][dir].volume = @ + 1]
      /\ UNCHANGED <<tool, lfile, server, values, asked, slot, dir, records>>
  BY DEF T!CountVolume, T!MainOnly, T!fixed
<1>2. TrafficType /\ TrafficType'
  BY <1>1 DEF TrafficInv, TrafficType
<1>3. SUFFICES ASSUME T!Legible' PROVE Counted' /\ Answered'
  BY <1>2 DEF TrafficInv
<1>4. T!Legible /\ \A s, e : Belong(s, e)' = Belong(s, e)
  BY <1>1, <1>3, SameRecords
<1>5. Counted /\ Answered /\ Slots' = Slots
  BY <1>1, <1>4, SameFile DEF TrafficInv
<1>6. slot \in Slots /\ dir \in {0, 1} /\ stats \in [Slots -> [{0, 1} -> [flows : Nat, volume : Nat]]]
  BY <1>1, <1>5 DEF Counted, IsStats
<1>7. stats' \in [Slots -> [{0, 1} -> [flows : Nat, volume : Nat]]]
  <2>1. stats[slot][dir].volume + 1 \in Nat
    BY <1>6
  <2> QED BY <1>1, <1>6, <2>1
<1>8. \A s \in Slots, e \in {0, 1} : stats'[s][e].flows = stats[s][e].flows
  BY <1>1, <1>6
<1>9. ASSUME NEW s \in Slots, NEW e \in {0, 1}
      PROVE  /\ stats[s][e].flows <= stats'[s][e].flows
             /\ stats'[s][e].flows + Pending(s, e)' = Cardinality(Belong(s, e)')
             /\ stats'[s][e].flows + Pending(s, e)' \in Nat
  <2>1. stats[s][e].flows \in Nat
    BY <1>6
  <2>2. stats[s][e].flows + Pending(s, e) = Cardinality(Belong(s, e))
    BY <1>1, <1>5 DEF Counted, Tallied
  <2>3. Pending(s, e)' = 0 /\ Pending(s, e) = 0
    BY <1>1 DEF Pending
  <2>4. Belong(s, e)' = Belong(s, e)
    BY <1>4
  <2>5. stats'[s][e].flows = stats[s][e].flows
    BY <1>8
  <2> QED BY <2>1, <2>2, <2>3, <2>4, <2>5
<1>10. IsStats(stats)'
  BY <1>5, <1>7 DEF IsStats
<1>13. \A s \in Slots', e \in {0, 1} : Tallied(s, e)'
  BY <1>5, <1>9 DEF Tallied
<1>11. Counted'
  BY <1>1, <1>5, <1>10, <1>13 DEF Counted
<1>12. Answered'
  BY <1>1, <1>2, <1>5, <1>9, <1>10, StillAnswered
<1> QED BY <1>11, <1>12

\* The steps of main that count nothing.
LEMMA MainRestKeeps ==
  ASSUME T!ConfigurationsTyped, TrafficInv, T!Leave \/ T!SigTerm \/ UNCHANGED T!vars PROVE TrafficInv'
<1>1. /\ UNCHANGED <<tool, lfile, records, stats, slot, dir, server, values, asked>>
      /\ pc' = pc \/ (pc = "receive" /\ pc' = "exit")
  BY DEF T!Leave, T!SigTerm, T!MainOnly, T!fixed, T!vars
<1>2. TrafficType /\ TrafficType'
  BY <1>1 DEF TrafficInv, TrafficType
<1>3. SUFFICES ASSUME T!Legible' PROVE Counted' /\ Answered'
  BY <1>2 DEF TrafficInv
<1>4. T!Legible
  BY <1>1, <1>3, SameRecords
<1>5. Counted /\ Answered
  BY <1>4 DEF TrafficInv
<1>6. Counted'
  BY <1>1, <1>2, <1>5, StillCounted
<1>7. IsStats(stats)'
  BY <1>6 DEF Counted
<1>8. Answered'
  BY <1>1, <1>2, <1>5, <1>7, StillAnswered, CountsStay
<1> QED BY <1>6, <1>8

\* The steps of the thread, but for what the values are.
LEMMA ThreadCounts ==
  ASSUME TrafficInv, T!ServerOnly
  PROVE  /\ TrafficType' /\ (T!Legible' => T!Legible /\ Counted /\ Counted' /\ Answered)
         /\ Slots' = Slots /\ Columns' = Columns /\ T!Fits' = T!Fits
<1>1. UNCHANGED <<tool, lfile, pc, slot, dir, stats, records>>
  BY DEF T!ServerOnly, T!fixed
<1>2. TrafficType'
  BY <1>1 DEF TrafficInv, TrafficType
<1>3. ASSUME T!Legible' PROVE T!Legible /\ Counted /\ Counted' /\ Answered
  <2>1. T!Legible
    BY <1>1, <1>3, SameRecords
  <2>2. Counted /\ Answered
    BY <2>1 DEF TrafficInv
  <2>3. TrafficType
    BY DEF TrafficInv
  <2> QED BY <1>1, <2>1, <2>2, <2>3, StillCounted
<1> QED BY <1>1, <1>2, <1>3, SameFile

LEMMA ServerRestKeeps ==
  ASSUME TrafficInv, T!Listen \/ T!SetupFails \/ T!SendToSock \/ T!AcceptFails
  PROVE  TrafficInv'
<1>1. T!ServerOnly /\ server' \in {"accept", "exit"}
  BY DEF T!Listen, T!SetupFails, T!SendToSock, T!AcceptFails
<1>2. Answered'
  BY <1>1 DEF Answered
<1> QED BY <1>1, <1>2, ThreadCounts DEF TrafficInv

LEMMA AcceptKeeps == ASSUME T!ConfigurationsTyped, TrafficInv, T!AcceptClient PROVE TrafficInv'
<1>1. T!ServerOnly /\ server' = "print" /\ asked' = stats /\ values' = <<>> /\ UNCHANGED stats
  BY DEF T!AcceptClient, T!ServerOnly
<1>2. ASSUME T!Legible' PROVE Answered'
  <2>1. T!Legible /\ Counted /\ TrafficType /\ Slots' = Slots /\ Columns' = Columns
    BY <1>1, <1>2, ThreadCounts DEF TrafficInv
  <2>2. IsStats(asked)'
    BY <1>1, <2>1 DEF Counted, IsStats
  <2>3. IsSequence(values') /\ Len(values') = 0
    BY <1>1 DEF IsSequence
  <2>4. Columns \in Nat \ {0}
    BY <2>1, HeadersAre
  <2>5. ASSUME NEW s \in Slots, NEW d \in {0, 1} PROVE asked'[s][d].flows <= stats'[s][d].flows
    <3>1. stats[s][d].flows \in Nat
      BY <2>1 DEF Counted, IsStats
    <3> QED BY <1>1, <3>1
  <2>6. 1 .. Len(values') = {}
    BY <2>3
  <2>7. Len(values') < Columns'
    BY <2>1, <2>3, <2>4
  <2> QED BY <1>1, <2>1, <2>2, <2>3, <2>5, <2>6, <2>7 DEF Answered
<1> QED BY <1>1, <1>2, ThreadCounts DEF TrafficInv

LEMMA PrepareKeeps == ASSUME T!ConfigurationsTyped, TrafficInv, T!PrepareData PROVE TrafficInv'
<1>1. /\ T!ServerOnly /\ server = "print" /\ UNCHANGED <<stats, asked>>
      /\ values' = Append(values, stats[Len(values) + 1])
      /\ server' = IF Len(values') = Len(T!Headers) THEN "send" ELSE "print"
  BY DEF T!PrepareData, T!ServerOnly
<1>2. ASSUME T!Legible' PROVE Answered'
  <2>1. T!Legible /\ Counted /\ Answered /\ TrafficType /\ Slots' = Slots /\ Columns' = Columns
    BY <1>1, <1>2, ThreadCounts DEF TrafficInv
  <2> SUFFICES ASSUME T!Fits PROVE Answered'
    BY <1>1, ThreadCounts DEF Answered
  <2> DEFINE n == Len(values)
  <2>2. /\ IsStats(asked) /\ IsSequence(values) /\ n < Columns
        /\ \A s \in Slots, d \in {0, 1} : asked[s][d].flows <= stats[s][d].flows
        /\ \A i \in 1 .. n :
            /\ values[i] \in [{0, 1} -> [flows : Nat, volume : Nat]]
            /\ \A d \in {0, 1} : /\ asked[i][d].flows <= values[i][d].flows
                                 /\ values[i][d].flows <= stats[i][d].flows
    BY <1>1, <2>1 DEF Answered
  <2>3. /\ IsSequence(values') /\ Len(values') = n + 1
        /\ \A i \in 1 .. n : values'[i] = values[i]
        /\ values'[n + 1] = stats[n + 1]
    BY <1>1, <2>2, AppendIs
  <2>4. n \in Nat /\ Columns \in Nat /\ Columns <= Len(lfile) + 1 /\ Len(T!Headers) = Columns
    BY <2>1, <2>2, HeadersAre DEF IsSequence
  <2>5. IsStats(asked)'
    BY <1>1, <2>1, <2>2 DEF IsStats
  <2>6. n + 1 \in Slots /\ Len(lfile) \in Nat
    BY <2>1, <2>2, <2>4 DEF Slots, TrafficType
  <2>7. /\ stats[n + 1] \in [{0, 1} -> [flows : Nat, volume : Nat]]
        /\ \A d \in {0, 1} : stats[n + 1][d].flows \in Nat
    BY <2>1, <2>6 DEF Counted, IsStats
  <2> HIDE DEF n
  <2>8. ASSUME NEW i \in 1 .. n + 1
        PROVE  /\ values'[i] \in [{0, 1} -> [flows : Nat, volume : Nat]]
               /\ \A d \in {0, 1} : /\ asked'[i][d].flows <= values'[i][d].flows
                                    /\ values'[i][d].flows <= stats'[i][d].flows
    <3>1. CASE i = n + 1
      <4>1. \A d \in {0, 1} : asked[n + 1][d].flows <= stats[n + 1][d].flows
        BY <2>2, <2>6
      <4>2. \A d \in {0, 1} : stats[n + 1][d].flows <= stats[n + 1][d].flows
        BY <2>7
      <4> QED BY <1>1, <2>3, <2>7, <3>1, <4>1, <4>2
    <3>2. CASE i # n + 1
      <4>1. i \in 1 .. n
        BY <2>4, <3>2
      <4> QED BY <1>1, <2>2, <2>3, <4>1
    <3> QED BY <3>1, <3>2
  <2>9. IF server' = "print" THEN Len(values') < Columns' ELSE Len(values') = Columns'
    <3>1. n + 1 <= Columns
      BY <2>2, <2>4
    <3> QED BY <1>1, <2>1, <2>3, <2>4, <3>1
  <2>10. \A i \in 1 .. Len(values') :
           /\ values'[i] \in [{0, 1} -> [flows : Nat, volume : Nat]]
           /\ \A d \in {0, 1} : /\ asked'[i][d].flows <= values'[i][d].flows
                                /\ values'[i][d].flows <= stats'[i][d].flows
    BY <2>3, <2>8
  <2>11. \A s \in Slots', d \in {0, 1} : asked'[s][d].flows <= stats'[s][d].flows
    BY <1>1, <2>1, <2>2
  <2>12. IsSequence(values)'
    BY <2>3
  <2> QED BY <2>5, <2>9, <2>10, <2>11, <2>12 DEF Answered
<1> QED BY <1>1, <1>2, ThreadCounts DEF TrafficInv

\* A reply that does not fit may end link_traffic between a record and its count.
LEMMA OverrunKeeps == ASSUME TrafficInv, T!Overrun PROVE TrafficInv'
<1>1. /\ UNCHANGED <<tool, lfile, records, stats, slot, dir>> /\ ~T!Fits
      /\ pc' = pc \/ pc' = "exit"
  BY DEF T!Overrun, T!fixed
<1>2. TrafficType /\ TrafficType'
  BY <1>1 DEF TrafficInv, TrafficType
<1>3. ASSUME T!Legible' PROVE Counted'
  <2>1. Counted
    BY <1>1, <1>3, SameRecords DEF TrafficInv
  <2> QED BY <1>1, <1>2, <2>1, StillCounted
<1>4. Answered'
  BY <1>1, SameFile DEF Answered
<1> QED BY <1>2, <1>3, <1>4 DEF TrafficInv

LEMMA TrafficKeeps ==
  ASSUME T!ConfigurationsTyped, TrafficInv, T!Next \/ UNCHANGED T!vars PROVE TrafficInv'
BY TrafficReceiveKeeps, CountFlowKeeps, CountVolumeKeeps, MainRestKeeps, ServerRestKeeps,
   AcceptKeeps, PrepareKeeps, OverrunKeeps DEF T!Next

LEMMA UnderIs ==
  ASSUME TrafficType, Distinct, NEW s \in Slots, NEW d
  PROVE  T!Under(s, d) = Cardinality(Belong(s, d))
<1> DEFINE Meant(v) == IF s = T!Others THEN \A j \in DOMAIN lfile : lfile[j].val # v
                       ELSE lfile[s].val = v
<1>1. DOMAIN lfile = 1 .. Len(lfile) /\ Len(lfile) \in Nat /\ DOMAIN records = 1 .. Len(records)
  BY DEF TrafficType, IsSequence
<1>2. ASSUME NEW v PROVE Meant(v) <=> Place(v) = s
  <2>1. CASE s = Len(lfile) + 1
    BY <1>1, <2>1, PlaceIs DEF T!Others
  <2>2. CASE s # Len(lfile) + 1
    <3>1. s \in 1 .. Len(lfile)
      BY <1>1, <2>2 DEF Slots
    <3> QED BY <2>2, <3>1, PlaceIs DEF T!Others
  <2> QED BY <2>1, <2>2
<1>3. T!Under(s, d) = Cardinality({k \in 1 .. Len(records) : records[k].dir = d /\ Meant(records[k].val)})
  BY <1>1, TSets DEF T!Under
<1> HIDE DEF Meant
<1>4. {k \in 1 .. Len(records) : records[k].dir = d /\ Meant(records[k].val)} = Belong(s, d)
  BY <1>2 DEF Belong
<1> QED BY <1>3, <1>4

LEMMA TrafficRight == ASSUME T!ConfigurationsTyped, TrafficInv PROVE T!RepliesTruthful
<1>1. SUFFICES ASSUME T!Legible
               PROVE  /\ T!Complete /\ T!Fits => \A i \in DOMAIN T!Headers, d \in {0, 1} : T!Told(i, d)
                      /\ pc = "receive" => \A d \in {0, 1} :
                           stats[T!Others][d].flows = T!Under(T!Others, d)
  BY DEF T!RepliesTruthful
<1>2. TrafficType /\ Counted /\ Answered /\ Distinct
  BY <1>1, DistinctLinks DEF TrafficInv
<1>3. Len(lfile) \in Nat /\ T!Others = Len(lfile) + 1 /\ T!Others \in Slots
  BY <1>2 DEF TrafficType, T!Others, Slots
<1>4. ASSUME NEW s \in Slots, NEW d \in {0, 1}
      PROVE  /\ stats[s][d].flows <= Cardinality(Belong(s, d))
             /\ pc = "receive" => stats[s][d].flows = Cardinality(Belong(s, d))
  <2>1. stats[s][d].flows \in Nat /\ Tallied(s, d)
    BY <1>2 DEF Counted, IsStats
  <2>2. Pending(s, d) \in {0, 1} /\ (pc = "receive" => Pending(s, d) = 0)
    BY DEF Pending
  <2>3. Cardinality(Belong(s, d)) \in Nat
    BY <1>2, BelongFinite
  <2> QED BY <2>1, <2>2, <2>3 DEF Tallied
<1>5. ASSUME pc = "receive", NEW d \in {0, 1} PROVE stats[T!Others][d].flows = T!Under(T!Others, d)
  BY <1>2, <1>3, <1>4, <1>5, UnderIs
<1>6. ASSUME T!Complete, T!Fits, NEW i \in DOMAIN T!Headers, NEW d \in {0, 1} PROVE T!Told(i, d)
  <2>1. /\ IsStats(asked) /\ Len(values) = Columns /\ server = "send"
        /\ \A j \in 1 .. Len(values) :
             /\ values[j] \in [{0, 1} -> [flows : Nat, volume : Nat]]
             /\ \A e \in {0, 1} : /\ asked[j][e].flows <= values[j][e].flows
                                  /\ values[j][e].flows <= stats[j][e].flows
    BY <1>2, <1>6 DEF T!Complete, Answered
  <2>2. i \in 1 .. Columns /\ i \in Slots
    BY <1>2, <1>3, HeadersAre DEF Slots
  <2>3. T!Under(i, d) = Cardinality(Belong(i, d))
    BY <1>2, <2>2, UnderIs
  <2>4. /\ values[i][d].flows \in Nat /\ stats[i][d].flows \in Nat /\ asked[i][d].flows \in Nat
        /\ Cardinality(Belong(i, d)) \in Nat
    BY <1>2, <2>1, <2>2, BelongFinite DEF Counted, IsStats
  <2>5. asked[i][d].flows <= values[i][d].flows /\ values[i][d].flows <= stats[i][d].flows
    BY <2>1, <2>2
  <2>6. stats[i][d].flows <= Cardinality(Belong(i, d))
        /\ (pc = "receive" => stats[i][d].flows = Cardinality(Belong(i, d)))
    BY <1>4, <2>2
  <2>7. values[i][d].flows <= Cardinality(Belong(i, d))
    BY <2>4, <2>5, <2>6
  <2>8. ASSUME pc = "receive", stats = asked PROVE values[i][d].flows = Cardinality(Belong(i, d))
    <3>1. asked[i][d].flows = stats[i][d].flows
      BY <2>8
    <3> QED BY <2>4, <2>5, <2>6, <2>8, <3>1
  <2> QED BY <2>3, <2>5, <2>7, <2>8 DEF T!Told
<1> QED BY <1>5, <1>6

\* link_traffic and proto_traffic: the values of a reply that fits in the buffer are the
\* counts of the links, in the order of the file, or of the protocols, not older than the
\* question, and exact if nothing came since; what no link is configured for counts as
\* "others" (main, prepare_data, accept_clients).
THEOREM RepliesTruthfulCorrect == Spec => []RepliesTruthful
<1>1. Init => (active = "traffic" => TrafficInv)
  BY TrafficInitHolds, LinksTyped DEF Init
<1>2. (active = "traffic" => TrafficInv) /\ [Next]_vars => (active = "traffic" => TrafficInv)'
  <2> SUFFICES ASSUME active = "traffic" => TrafficInv, [Next]_vars, active' = "traffic"
               PROVE  TrafficInv'
    OBVIOUS
  <2>1. CASE Next
    BY <2>1, TrafficKeeps, LinksTyped DEF Next
  <2>2. CASE UNCHANGED vars
    BY <2>2, TrafficKeeps, LinksTyped DEF vars, traffic, T!vars
  <2> QED BY <2>1, <2>2
<1>3. TrafficInv => T!RepliesTruthful
  BY TrafficRight, LinksTyped
<1>4. (active = "traffic" => TrafficInv) => RepliesTruthful
  BY <1>3 DEF RepliesTruthful
<1> QED BY <1>1, <1>2, <1>4, PTL DEF Spec

-----------------------------------------------------------------------------
(****************************************************************************)
(* device_classifier: an id stands for one label.                           *)
(****************************************************************************)

\* What a recursion over 0 .. n that applies the functions of g in turn comes to.
AreSteps(n, S, g) == g \in [1 .. n -> [S -> S]]
Chain(n, S, g, s) ==
  {f \in [0 .. n -> S] : f[0] = s /\ \A i \in 1 .. n : f[i] = g[i][f[i - 1]]}

LEMMA Iterate ==
  ASSUME NEW n \in Nat, NEW S, NEW g, AreSteps(n, S, g), NEW s \in S PROVE Chain(n, S, g, s) # {}
<1> USE DEF AreSteps
<1> DEFINE Done(f, m) == f[0] = s /\ \A i \in 1 .. m : f[i] = g[i][f[i - 1]]
           Reach(m) == \E f \in [0 .. n -> S] : Done(f, m)
           Bad == {m \in 0 .. n : ~ Reach(m)}
<1> SUFFICES Reach(n)
  BY DEF Chain
<1> HIDE DEF Reach
<1>1. SUFFICES ASSUME Bad # {} PROVE FALSE
  <2>1. n \in 0 .. n
    OBVIOUS
  <2> QED BY <2>1
<1>2. PICK m \in Bad : \A k \in Bad : m <= k
  <2>1. Bad \subseteq Nat
    OBVIOUS
  <2> QED BY <1>1, <2>1, Least
<1>3. m \in 0 .. n /\ ~ Reach(m)
  BY <1>2
<1>4. m # 0
  <2>1. [i \in 0 .. n |-> s] \in [0 .. n -> S] /\ Done([i \in 0 .. n |-> s], 0)
    OBVIOUS
  <2> HIDE DEF Done
  <2>2. Reach(0)
    BY <2>1 DEF Reach
  <2> QED BY <1>3, <2>2
<1>5. m - 1 \in 0 .. n /\ Reach(m - 1)
  <2>1. m - 1 \in 0 .. n /\ ~(m <= m - 1)
    BY <1>3, <1>4
  <2>2. m - 1 \notin Bad
    BY <1>2, <2>1
  <2> QED BY <2>1, <2>2
<1>6. PICK f \in [0 .. n -> S] : Done(f, m - 1)
  BY <1>5 DEF Reach
<1> DEFINE h == [f EXCEPT ![m] = g[m][f[m - 1]]]
<1>7. m \in 1 .. n /\ g[m] \in [S -> S] /\ f[m - 1] \in S
  BY <1>3, <1>4, <1>5
<1>8. h \in [0 .. n -> S]
  BY <1>7
<1>9. Done(h, m)
  <2>1. h[0] = s
    BY <1>6, <1>7
  <2>2. ASSUME NEW i \in 1 .. m PROVE h[i] = g[i][h[i - 1]]
    <3>1. i - 1 \in 0 .. n /\ i - 1 # m /\ i \in 0 .. n /\ h[i - 1] = f[i - 1]
      BY <1>7, <2>2
    <3>2. CASE i = m
      BY <1>7, <3>1, <3>2
    <3>3. CASE i # m
      <4>1. h[i] = f[i] /\ i \in 1 .. m - 1
        BY <1>7, <3>1, <3>3
      <4> QED BY <1>6, <3>1, <4>1
    <3> QED BY <3>2, <3>3
  <2> QED BY <2>1, <2>2
<1> HIDE DEF Done, h
<1> QED BY <1>3, <1>8, <1>9 DEF Reach

-----------------------------------------------------------------------------
(* The list of models.                                                     *)

\* Each id once; and by rising id.
DistinctIds(list) == \A i, j \in 1 .. Len(list) : i # j => list[i].id # list[j].id
Rising(list) == \A i, j \in 1 .. Len(list) : i < j => list[i].id < list[j].id

ModelList == {list \in Seq(D!Model) : Rising(list)}

LEMMA ModelListIs ==
  ASSUME NEW list \in Seq(D!Model)
  PROVE  /\ Len(list) \in Nat /\ DOMAIN list = 1 .. Len(list)
         /\ D!Range(list) = {list[i] : i \in 1 .. Len(list)}
         /\ \A i \in 1 .. Len(list) : list[i] \in D!Model /\ list[i].id \in Nat
<1>1. Len(list) \in Nat /\ DOMAIN list = 1 .. Len(list)
  OBVIOUS
<1>2. \A i \in 1 .. Len(list) : list[i] \in D!Model
  BY ElementOfSeq
<1>3. \A i \in 1 .. Len(list) : list[i].id \in Nat
  BY <1>2 DEF D!Model
<1> QED BY <1>1, <1>2, <1>3 DEF D!Range

LEMMA RisingDistinct == ASSUME NEW list \in ModelList PROVE DistinctIds(list)
<1>1. list \in Seq(D!Model) /\ Rising(list)
  BY DEF ModelList
<1>2. Len(list) \in Nat /\ \A i \in 1 .. Len(list) : list[i].id \in Nat
  BY <1>1, ModelListIs
<1>3. ASSUME NEW i \in 1 .. Len(list), NEW j \in 1 .. Len(list), i # j PROVE list[i].id # list[j].id
  <2>1. i < j \/ j < i
    BY <1>2, <1>3
  <2>2. list[i].id \in Nat /\ list[j].id \in Nat
    BY <1>2
  <2> QED BY <1>1, <2>1, <2>2 DEF Rising
<1> QED BY <1>3 DEF DistinctIds

\* The lists that go on from one.
Grows(list) == {l \in ModelList : D!Range(list) \subseteq D!Range(l)}

LEMMA AddLabelGrows ==
  ASSUME NEW list \in ModelList, NEW label \in STRING PROVE D!AddLabel(list, label) \in Grows(list)
<1> DEFINE n == Len(list)
<1>1. list \in Seq(D!Model) /\ Rising(list)
  BY DEF ModelList
<1>2. /\ n \in Nat /\ D!Range(list) = {list[i] : i \in 1 .. n}
      /\ \A i \in 1 .. n : list[i] \in D!Model /\ list[i].id \in Nat
  BY <1>1, ModelListIs
<1>3. CASE \E m \in D!Range(list) : m.name = label
  BY <1>3 DEF D!AddLabel, Grows
<1>4. CASE ~ \E m \in D!Range(list) : m.name = label
  <2> DEFINE e == [id |-> IF list = <<>> THEN 1 ELSE D!Last(list).id + 1, name |-> label]
  <2>1. D!AddLabel(list, label) = Append(list, e)
    BY <1>4 DEF D!AddLabel
  <2>2. e \in D!Model /\ \A i \in 1 .. n : list[i].id < e.id
    <3>1. CASE list = <<>>
      <4>1. n = 0 /\ e.id = 1
        BY <3>1
      <4> QED BY <4>1 DEF D!Model
    <3>2. CASE list # <<>>
      <4>1. n \in 1 .. n /\ D!Last(list) = list[n]
        BY <1>1, <1>2, <3>2 DEF D!Last
      <4>2. e.id = list[n].id + 1 /\ e.name = label
        BY <3>2, <4>1
      <4>3. list[n].id \in Nat /\ e.id \in Nat
        BY <1>2, <4>1, <4>2
      <4>4. ASSUME NEW i \in 1 .. n PROVE list[i].id < e.id
        <5>1. i = n \/ i < n
          BY <1>2
        <5>2. list[i].id <= list[n].id
          BY <1>1, <1>2, <4>1, <5>1 DEF Rising
        <5>3. list[i].id \in Nat
          BY <1>2
        <5> QED BY <4>2, <4>3, <5>2, <5>3
      <4>5. e \in D!Model
        BY <4>3 DEF D!Model
      <4> QED BY <4>4, <4>5
    <3> QED BY <3>1, <3>2
  <2> HIDE DEF e
  <2>3. /\ Append(list, e) \in Seq(D!Model) /\ Len(Append(list, e)) = n + 1
        /\ Append(list, e)[n + 1] = e
        /\ \A i \in 1 .. n : Append(list, e)[i] = list[i]
    BY <1>1, <2>2, AppendProperties
  <2> DEFINE l == Append(list, e)
  <2> HIDE DEF l
  <2>4. /\ l \in Seq(D!Model) /\ Len(l) = n + 1 /\ l[n + 1] = e
        /\ \A i \in 1 .. n : l[i] = list[i]
    BY <2>3 DEF l
  <2> HIDE DEF n
  <2>5. Rising(l)
    <3> SUFFICES ASSUME NEW i \in 1 .. n + 1, NEW j \in 1 .. n + 1, i < j PROVE l[i].id < l[j].id
      BY <2>4 DEF Rising
    <3>1. i \in 1 .. n
      BY <1>2
    <3>2. CASE j = n + 1
      BY <2>2, <2>4, <3>1, <3>2
    <3>3. CASE j # n + 1
      <4>1. j \in 1 .. n
        BY <1>2, <3>3
      <4> QED BY <1>1, <2>4, <3>1, <4>1 DEF Rising, n
    <3> QED BY <3>2, <3>3
  <2>6. D!Range(list) \subseteq D!Range(l)
    <3>1. D!Range(l) = {l[i] : i \in 1 .. n + 1}
      BY <2>4, ModelListIs
    <3>2. \A i \in 1 .. n : i \in 1 .. n + 1
      BY <1>2
    <3> QED BY <1>2, <2>4, <3>1, <3>2
  <2> QED BY <2>1, <2>4, <2>5, <2>6 DEF Grows, ModelList, l
<1> QED BY <1>3, <1>4

LEMMA GrowsOn ==
  ASSUME NEW list \in ModelList, NEW a \in Grows(list), NEW b \in Grows(a)
  PROVE  a \in ModelList /\ b \in Grows(list)
BY DEF Grows

\* What the labels of a rule, and what all rules, make of a list.
LEMMA AddLabelsGrows ==
  ASSUME NEW list \in ModelList, NEW labels \in Seq(STRING)
  PROVE  D!AddLabels(list, labels) \in Grows(list)
<1> DEFINE n == Len(labels)  S == Grows(list)
           g == [i \in 1 .. n |-> [l \in S |-> D!AddLabel(l, labels[i])]]
           After(f) == [i \in 0 .. n |-> IF i = 0 THEN list ELSE D!AddLabel(f[i - 1], labels[i])]
<1>1. n \in Nat /\ \A i \in 1 .. n : labels[i] \in STRING
  BY ElementOfSeq
<1>2. list \in S
  BY DEF Grows
<1>3. ASSUME NEW i \in 1 .. n, NEW l \in S PROVE D!AddLabel(l, labels[i]) \in S
  <2>1. l \in ModelList
    BY DEF Grows
  <2>2. labels[i] \in STRING
    BY <1>1
  <2>3. D!AddLabel(l, labels[i]) \in Grows(l)
    BY <2>1, <2>2, AddLabelGrows
  <2> QED BY <2>3, GrowsOn
<1> HIDE DEF S, n
<1>4. g \in [1 .. n -> [S -> S]]
  BY <1>3
<1>5. \A i \in 1 .. n : \A l \in S : g[i][l] = D!AddLabel(l, labels[i])
  OBVIOUS
<1> HIDE DEF g
<1>6. PICK f \in [0 .. n -> S] : f[0] = list /\ \A i \in 1 .. n : f[i] = g[i][f[i - 1]]
  <2>1. AreSteps(n, S, g)
    BY <1>4 DEF AreSteps
  <2>2. Chain(n, S, g, list) # {}
    BY <1>1, <1>2, <2>1, Iterate
  <2> QED BY <2>2 DEF Chain
<1>7. f = After(f)
  <2>1. ASSUME NEW i \in 0 .. n
        PROVE  f[i] = IF i = 0 THEN list ELSE D!AddLabel(f[i - 1], labels[i])
    <3>1. CASE i = 0
      BY <1>6, <3>1
    <3>2. CASE i # 0
      <4>1. i \in 1 .. n /\ i - 1 \in 0 .. n
        BY <1>1, <3>2
      <4>2. f[i - 1] \in S
        BY <1>6, <4>1
      <4>3. f[i] = g[i][f[i - 1]]
        BY <1>6, <4>1
      <4> QED BY <1>5, <3>2, <4>1, <4>2, <4>3
    <3> QED BY <3>1, <3>2
  <2> QED BY <1>6, <2>1
<1> DEFINE R(h) == h = After(h)  c == CHOOSE h : R(h)
<1>8. R(c)
  <2>1. R(f)
    BY <1>7
  <2> HIDE DEF R
  <2> QED BY <2>1
<1>9. D!AddLabels(list, labels) = c[n]
  BY DEF D!AddLabels, n
<1>10. \A i \in 0 .. n : c[i] = IF i = 0 THEN list ELSE D!AddLabel(c[i - 1], labels[i])
  <2> HIDE DEF c
  <2>1. c = After(c)
    BY <1>8
  <2> QED BY <2>1
<1> HIDE DEF c, R, After
<1> DEFINE Bad == {i \in 0 .. n : c[i] \notin S}
<1>11. Bad = {}
  <2> SUFFICES ASSUME Bad # {} PROVE FALSE
    OBVIOUS
  <2>1. Bad \subseteq Nat
    BY <1>1
  <2>2. PICK m \in Bad : \A k \in Bad : m <= k
    BY <2>1, Least
  <2>3. m \in 0 .. n /\ c[m] \notin S
    BY <2>2
  <2>4. m # 0
    BY <1>2, <1>10, <2>3
  <2>5. m - 1 \in 0 .. n /\ m \in 1 .. n /\ ~(m <= m - 1)
    BY <1>1, <2>3, <2>4
  <2>6. c[m - 1] \in S
    BY <2>2, <2>5
  <2>7. c[m] = D!AddLabel(c[m - 1], labels[m])
    BY <1>10, <2>3, <2>4
  <2> QED BY <1>3, <2>3, <2>5, <2>6, <2>7
<1>12. n \in 0 .. n
  BY <1>1
<1> QED BY <1>9, <1>11, <1>12 DEF S

LEMMA LoadRulesGrows ==
  ASSUME NEW list \in ModelList, NEW o, o.rules \in Seq(D!RuleType)
  PROVE  D!LoadRules(o, list) \in Grows(list)
<1> DEFINE rules == o.rules  n == Len(rules)  S == Grows(list)
           g == [i \in 1 .. n |-> [l \in S |-> D!AddLabels(l, rules[i].labels)]]
           After(f) == [i \in 0 .. n |-> IF i = 0 THEN list ELSE D!AddLabels(f[i - 1], rules[i].labels)]
<1>0. rules \in Seq(D!RuleType)
  OBVIOUS
<1> HIDE DEF rules
<1>1. n \in Nat /\ \A i \in 1 .. n : rules[i].labels \in Seq(STRING)
  <2>1. \A i \in 1 .. n : rules[i] \in D!RuleType
    BY <1>0, ElementOfSeq
  <2> QED BY <1>0, <2>1 DEF D!RuleType
<1>2. list \in S
  BY DEF Grows
<1>3. ASSUME NEW i \in 1 .. n, NEW l \in S PROVE D!AddLabels(l, rules[i].labels) \in S
  <2>1. l \in ModelList
    BY DEF Grows
  <2>2. rules[i].labels \in Seq(STRING)
    BY <1>1
  <2>3. D!AddLabels(l, rules[i].labels) \in Grows(l)
    BY <2>1, <2>2, AddLabelsGrows
  <2> QED BY <2>3, GrowsOn
<1> HIDE DEF S, n
<1>4. g \in [1 .. n -> [S -> S]]
  BY <1>3
<1>5. \A i \in 1 .. n : \A l \in S : g[i][l] = D!AddLabels(l, rules[i].labels)
  OBVIOUS
<1> HIDE DEF g
<1>6. PICK f \in [0 .. n -> S] : f[0] = list /\ \A i \in 1 .. n : f[i] = g[i][f[i - 1]]
  <2>1. AreSteps(n, S, g)
    BY <1>4 DEF AreSteps
  <2>2. Chain(n, S, g, list) # {}
    BY <1>1, <1>2, <2>1, Iterate
  <2> QED BY <2>2 DEF Chain
<1>7. f = After(f)
  <2>1. ASSUME NEW i \in 0 .. n
        PROVE  f[i] = IF i = 0 THEN list ELSE D!AddLabels(f[i - 1], rules[i].labels)
    <3>1. CASE i = 0
      BY <1>6, <3>1
    <3>2. CASE i # 0
      <4>1. i \in 1 .. n /\ i - 1 \in 0 .. n
        BY <1>1, <3>2
      <4>2. f[i - 1] \in S
        BY <1>6, <4>1
      <4>3. f[i] = g[i][f[i - 1]]
        BY <1>6, <4>1
      <4> QED BY <1>5, <3>2, <4>1, <4>2, <4>3
    <3> QED BY <3>1, <3>2
  <2> QED BY <1>6, <2>1
<1> DEFINE R(h) == h = After(h)  c == CHOOSE h : R(h)
<1>8. R(c)
  <2>1. R(f)
    BY <1>7
  <2> HIDE DEF R
  <2> QED BY <2>1
<1>9. D!LoadRules(o, list) = IF o.train THEN c[n] ELSE list
  BY DEF D!LoadRules, n, rules
<1>10. \A i \in 0 .. n : c[i] = IF i = 0 THEN list ELSE D!AddLabels(c[i - 1], rules[i].labels)
  <2> HIDE DEF c
  <2>1. c = After(c)
    BY <1>8
  <2> QED BY <2>1
<1> HIDE DEF c, R, After
<1> DEFINE Bad == {i \in 0 .. n : c[i] \notin S}
<1>11. Bad = {}
  <2> SUFFICES ASSUME Bad # {} PROVE FALSE
    OBVIOUS
  <2>1. Bad \subseteq Nat
    BY <1>1
  <2>2. PICK m \in Bad : \A k \in Bad : m <= k
    BY <2>1, Least
  <2>3. m \in 0 .. n /\ c[m] \notin S
    BY <2>2
  <2>4. m # 0
    BY <1>2, <1>10, <2>3
  <2>5. m - 1 \in 0 .. n /\ m \in 1 .. n /\ ~(m <= m - 1)
    BY <1>1, <2>3, <2>4
  <2>6. c[m - 1] \in S
    BY <2>2, <2>5
  <2>7. c[m] = D!AddLabels(c[m - 1], rules[m].labels)
    BY <1>10, <2>3, <2>4
  <2> QED BY <1>3, <2>3, <2>5, <2>6, <2>7
<1>12. n \in 0 .. n
  BY <1>1
<1> QED BY <1>2, <1>9, <1>11, <1>12 DEF S

\* A list with each id once is sorted in one way.
LEMMA SortedModels ==
  ASSUME NEW list \in Seq(D!Model), DistinctIds(list)
  PROVE  /\ D!InitModelList(list) \in ModelList
         /\ D!Range(D!InitModelList(list)) = D!Range(list)
<1> DEFINE n == Len(list)
           Upto(i) == {j \in 1 .. n : list[j].id <= list[i].id}
           p == [i \in 1 .. n |-> Cardinality(Upto(i))]
           s == [k \in 1 .. n |-> list[CHOOSE i \in 1 .. n : p[i] = k]]
           Sorted(t) == \A i, j \in DOMAIN list : i < j => t[i].id <= t[j].id
<1>1. /\ n \in Nat /\ DOMAIN list = 1 .. n /\ D!Range(list) = {list[i] : i \in 1 .. n}
      /\ \A i \in 1 .. n : list[i] \in D!Model /\ list[i].id \in Nat
  BY ModelListIs
<1>2. IsFiniteSet(1 .. n) /\ Cardinality(1 .. n) = n
  <2>1. 1 \in Int /\ n \in Int
    BY <1>1
  <2> HIDE DEF n
  <2> QED BY <1>1, <2>1, FS_Interval
<1>3. \A i \in 1 .. n : IsFiniteSet(Upto(i)) /\ Upto(i) \subseteq 1 .. n /\ i \in Upto(i)
                       /\ Cardinality(Upto(i)) \in 1 .. n
  <2> SUFFICES ASSUME NEW i \in 1 .. n
               PROVE  IsFiniteSet(Upto(i)) /\ Upto(i) \subseteq 1 .. n /\ i \in Upto(i)
                      /\ Cardinality(Upto(i)) \in 1 .. n
    OBVIOUS
  <2>1. Upto(i) \subseteq 1 .. n /\ i \in Upto(i)
    BY <1>1
  <2> HIDE DEF Upto, n
  <2>2. IsFiniteSet(Upto(i)) /\ Cardinality(Upto(i)) <= n
    BY <1>2, <2>1, FS_Subset
  <2>3. Cardinality(Upto(i)) \in Nat /\ Cardinality(Upto(i)) # 0
    BY <2>1, <2>2, FS_CardinalityType, FS_EmptySet
  <2> QED BY <1>1, <2>1, <2>2, <2>3
<1>4. \A i, j \in 1 .. n : list[i].id < list[j].id => p[i] < p[j]
  <2> SUFFICES ASSUME NEW i \in 1 .. n, NEW j \in 1 .. n, list[i].id < list[j].id PROVE p[i] < p[j]
    OBVIOUS
  <2>1. Upto(i) \subseteq Upto(j) /\ j \notin Upto(i) /\ j \in Upto(j)
    BY <1>1
  <2>2. p[i] = Cardinality(Upto(i)) /\ p[j] = Cardinality(Upto(j))
    OBVIOUS
  <2>3. IsFiniteSet(Upto(j))
    BY <1>3
  <2> HIDE DEF Upto, p
  <2>4. Cardinality(Upto(i)) <= Cardinality(Upto(j))
        /\ (Cardinality(Upto(i)) = Cardinality(Upto(j)) => Upto(i) = Upto(j))
    BY <2>1, <2>3, FS_Subset
  <2>5. Cardinality(Upto(i)) \in Nat /\ Cardinality(Upto(j)) \in Nat
    BY <1>3
  <2> QED BY <2>1, <2>2, <2>4, <2>5
<1>5. p \in [1 .. n -> 1 .. n]
  BY <1>3
<1> HIDE DEF p, Upto
<1>6. \A i, j \in 1 .. n : i # j => p[i] # p[j]
  <2> SUFFICES ASSUME NEW i \in 1 .. n, NEW j \in 1 .. n, i # j PROVE p[i] # p[j]
    OBVIOUS
  <2>1. list[i].id # list[j].id /\ list[i].id \in Nat /\ list[j].id \in Nat
    BY <1>1 DEF DistinctIds
  <2>2. list[i].id < list[j].id \/ list[j].id < list[i].id
    BY <2>1
  <2>3. p[i] < p[j] \/ p[j] < p[i]
    BY <1>4, <2>2
  <2>4. p[i] \in 1 .. n /\ p[j] \in 1 .. n
    BY <1>5
  <2> QED BY <2>3, <2>4
<1>7. \A k \in 1 .. n : \E i \in 1 .. n : p[i] = k
  <2>1. p \in Injection(1 .. n, 1 .. n)
    BY <1>5, <1>6 DEF Injection, IsInjective
  <2>2. p \in Surjection(1 .. n, 1 .. n)
    BY <1>2, <2>1, FS_Injection
  <2> QED BY <2>2 DEF Surjection
<1> DEFINE w == [k \in 1 .. n |-> CHOOSE i \in 1 .. n : p[i] = k]
<1>8. \A k \in 1 .. n : w[k] \in 1 .. n /\ p[w[k]] = k /\ s[k] = list[w[k]]
  BY <1>7
<1>9. DOMAIN s = 1 .. n /\ s = [k \in 1 .. n |-> s[k]]
  OBVIOUS
<1> HIDE DEF s, w
<1>10. \A i \in 1 .. n : s[p[i]] = list[i] /\ p[i] \in 1 .. n
  BY <1>5, <1>6, <1>8
<1>11. s \in D!Bijection(DOMAIN list, D!Range(list))
  <2>1. s \in [1 .. n -> D!Range(list)]
    BY <1>1, <1>8, <1>9
  <2>2. \A j, k \in 1 .. n : s[j] = s[k] => j = k
    <3> SUFFICES ASSUME NEW j \in 1 .. n, NEW k \in 1 .. n, s[j] = s[k] PROVE j = k
      OBVIOUS
    <3>1. w[j] \in 1 .. n /\ w[k] \in 1 .. n /\ list[w[j]] = list[w[k]]
      BY <1>8
    <3>2. w[j] = w[k]
      BY <3>1 DEF DistinctIds
    <3> QED BY <1>8, <3>2
  <2>3. \A e \in D!Range(list) : \E k \in 1 .. n : s[k] = e
    BY <1>1, <1>10
  <2> QED BY <1>1, <1>9, <2>1, <2>2, <2>3
       DEF D!Bijection, D!Injection, D!Surjection, D!IsInjective
<1>12. Sorted(s)
  <2> SUFFICES ASSUME NEW j \in 1 .. n, NEW k \in 1 .. n, j < k PROVE s[j].id <= s[k].id
    BY <1>1
  <2>1. w[j] \in 1 .. n /\ w[k] \in 1 .. n /\ p[w[j]] = j /\ p[w[k]] = k
    BY <1>8
  <2>2. ~(list[w[k]].id < list[w[j]].id)
    <3>1. ~(k < j)
      BY <1>1
    <3> QED BY <1>4, <2>1, <3>1
  <2>3. list[w[j]].id \in Nat /\ list[w[k]].id \in Nat
    BY <1>1, <2>1
  <2> QED BY <1>8, <2>2, <2>3
<1> DEFINE t == D!InitModelList(list)
<1>13. t \in D!Bijection(DOMAIN list, D!Range(list)) /\ Sorted(t)
  <2>1. t = CHOOSE q \in D!Bijection(DOMAIN list, D!Range(list)) : Sorted(q)
    BY DEF D!InitModelList
  <2> HIDE DEF t, Sorted
  <2> QED BY <1>11, <1>12, <2>1
<1> HIDE DEF t
<1>14. /\ t \in [1 .. n -> D!Range(list)] /\ DOMAIN t = 1 .. n
       /\ \A j, k \in 1 .. n : t[j] = t[k] => j = k
       /\ \A e \in D!Range(list) : \E k \in 1 .. n : t[k] = e
  BY <1>1, <1>13 DEF D!Bijection, D!Injection, D!Surjection, D!IsInjective
<1>15. t \in Seq(D!Model) /\ Len(t) = n
  <2>1. t \in [1 .. n -> D!Model]
    BY <1>1, <1>14
  <2> HIDE DEF n
  <2> QED BY <1>1, <2>1
<1>16. Rising(t)
  <2> SUFFICES ASSUME NEW j \in 1 .. n, NEW k \in 1 .. n, j < k PROVE t[j].id < t[k].id
    BY <1>15 DEF Rising
  <2>1. PICK a \in 1 .. n : t[j] = list[a]
    BY <1>1, <1>14
  <2>2. PICK b \in 1 .. n : t[k] = list[b]
    BY <1>1, <1>14
  <2>3. a # b
    <3>1. j # k
      BY <1>1
    <3> QED BY <1>14, <2>1, <2>2, <3>1
  <2>4. t[j].id # t[k].id /\ t[j].id \in Nat /\ t[k].id \in Nat
    BY <1>1, <2>1, <2>2, <2>3 DEF DistinctIds
  <2>5. t[j].id <= t[k].id
    BY <1>1, <1>13
  <2> QED BY <2>4, <2>5
<1>17. D!Range(t) = D!Range(list)
  <2>1. D!Range(t) = {t[k] : k \in 1 .. n}
    BY <1>15, ModelListIs
  <2> QED BY <1>14, <2>1
<1> QED BY <1>15, <1>16, <1>17 DEF ModelList, t

-----------------------------------------------------------------------------
(* The steps.                                                              *)

\* The list in a run goes on from the one it found, so an id of either is one label.  What
\* was trained is of the list as it was left, or of this run's list, which will be.
TrainInv ==
  /\ listed \in Seq(D!Model) /\ DistinctIds(listed)
  /\ models \in ModelList
  /\ phase \in {"off", "loop", "report"}
  /\ phase # "off" => D!Range(listed) \subseteq D!Range(models)
  /\ flow_cnt \in Nat /\ (phase = "report" => flow_cnt > 0)
  /\ D!Range(models) \subseteq D!Range(listed) \/ D!Range(listed) \subseteq D!Range(models)
  /\ train_db \subseteq
       D!Range(listed) \cup (IF phase # "off" /\ opt.train /\ flow_cnt > 0 THEN D!Range(models) ELSE {})

LEMMA TrainInitHolds == ASSUME D!ModelsTyped, D!Init PROVE TrainInv
<1>1. listed \in Seq(D!Model) /\ DistinctIds(listed)
  <2>1. listed = FirstModels /\ FirstModels \in Seq(D!Model)
    BY DEF D!Init, D!ModelsTyped
  <2>2. DOMAIN FirstModels = 1 .. Len(FirstModels)
    BY <2>1
  <2> QED BY <2>1, <2>2 DEF D!ModelsTyped, DistinctIds
<1>2. models = <<>> /\ phase = "off" /\ flow_cnt = 0 /\ train_db = {}
  BY DEF D!Init
<1>3. models \in ModelList
  BY <1>2 DEF ModelList, Rising
<1>4. D!Range(models) = {}
  BY <1>2 DEF D!Range
<1> QED BY <1>1, <1>2, <1>3, <1>4 DEF TrainInv

LEMMA LaunchKeeps ==
  ASSUME D!ModelsTyped, TrainInv, NEW o \in DeviceOptions, D!Launch(o) PROVE TrainInv'
<1>1. /\ phase = "off" /\ opt' = o /\ models' = D!LoadRules(o, D!InitModelList(listed))
      /\ phase' \in {"off", "loop"} /\ flow_cnt' = 0 /\ UNCHANGED <<listed, train_db>>
  BY DEF D!Launch
<1>2. listed \in Seq(D!Model) /\ DistinctIds(listed) /\ train_db \subseteq D!Range(listed)
  BY <1>1 DEF TrainInv
<1>3. /\ D!InitModelList(listed) \in ModelList
      /\ D!Range(D!InitModelList(listed)) = D!Range(listed)
  BY <1>2, SortedModels
<1>4. D!LoadRules(o, D!InitModelList(listed)) \in Grows(D!InitModelList(listed))
  BY <1>3, LoadRulesGrows DEF D!ModelsTyped
<1>5. models' \in ModelList /\ D!Range(listed) \subseteq D!Range(models')
  BY <1>1, <1>3, <1>4 DEF Grows
<1> QED BY <1>1, <1>2, <1>5 DEF TrainInv

LEMMA OutputLabels ==
  ASSUME D!Output
  PROVE  /\ train_db' \subseteq train_db \cup D!Range(models)
         /\ ~opt.train => train_db' = train_db
<1>1. PICK garbage : train_db' = IF opt.train
        THEN train_db \cup UNION {D!ProcessTree(garbage).labels[a] : a \in D!Devices} ELSE train_db
  BY DEF D!Output
<1>2. ASSUME opt.train, NEW a \in D!Devices PROVE D!ProcessTree(garbage).labels[a] \subseteq D!Range(models)
  <2>1. D!ProcessTree(garbage).labels[a] = D!TrainedLabels(a, garbage)
    BY <1>2 DEF D!ProcessTree
  <2> QED BY <2>1 DEF D!TrainedLabels
<1>3. CASE opt.train
  BY <1>1, <1>2, <1>3
<1>4. CASE ~opt.train
  BY <1>1, <1>4
<1> QED BY <1>3, <1>4

LEMMA DeviceFlowsKeep ==
  ASSUME TrainInv, (\E f \in DeviceFlows : D!Receive(f)) \/ D!ReceiveV6 PROVE TrainInv'
<1>1. /\ phase = "loop" /\ phase' \in {"loop", "report"} /\ flow_cnt' = flow_cnt + 1
      /\ UNCHANGED <<opt, listed, models, train_db>>
  <2>1. CASE D!ReceiveV6
    BY <2>1 DEF D!ReceiveV6
  <2>2. ASSUME NEW f \in DeviceFlows, D!Receive(f)
        PROVE  /\ phase = "loop" /\ phase' \in {"loop", "report"} /\ flow_cnt' = flow_cnt + 1
               /\ UNCHANGED <<opt, listed, models, train_db>>
    <3>1. /\ phase = "loop" /\ flow_cnt' = flow_cnt + 1
          /\ UNCHANGED <<opt, listed, models, train_db>>
      BY <2>2 DEF D!Receive
    <3>2. \E due : phase' = IF due THEN "report" ELSE phase
      BY <2>2 DEF D!Receive
    <3> QED BY <3>1, <3>2
  <2> QED BY <2>1, <2>2
<1>2. flow_cnt \in Nat /\ flow_cnt' \in Nat /\ flow_cnt' > 0
  BY <1>1 DEF TrainInv
<1> QED BY <1>1, <1>2 DEF TrainInv

LEMMA DeviceReportKeeps == ASSUME TrainInv, D!Report PROVE TrainInv'
<1>1. /\ phase = "report" /\ phase' = "loop" /\ D!Output
      /\ UNCHANGED <<opt, listed, models, flow_cnt>>
  BY DEF D!Report
<1>2. flow_cnt \in Nat /\ flow_cnt > 0
  BY <1>1 DEF TrainInv
<1>3. train_db' \subseteq D!Range(listed) \cup (IF opt.train THEN D!Range(models) ELSE {})
  BY <1>1, <1>2, OutputLabels DEF TrainInv
<1> QED BY <1>1, <1>2, <1>3 DEF TrainInv

LEMMA DeviceFinishKeeps == ASSUME TrainInv, D!Finish PROVE TrainInv'
<1>1. /\ phase = "loop" /\ phase' = "off"
      /\ listed' = IF opt.train /\ flow_cnt > 0 THEN models ELSE listed
      /\ UNCHANGED <<opt, models, flow_cnt>>
  BY DEF D!Finish
<1>2. /\ train_db' \subseteq train_db \cup (IF opt.train /\ flow_cnt > 0 THEN D!Range(models) ELSE {})
  <2>1. CASE opt.minutes = 0 /\ flow_cnt > 0
    BY <2>1, OutputLabels DEF D!Finish
  <2>2. CASE ~(opt.minutes = 0 /\ flow_cnt > 0)
    BY <2>2 DEF D!Finish
  <2> QED BY <2>1, <2>2
<1>3. /\ models \in ModelList /\ D!Range(listed) \subseteq D!Range(models)
      /\ train_db \subseteq D!Range(listed) \cup (IF opt.train /\ flow_cnt > 0 THEN D!Range(models) ELSE {})
  BY <1>1 DEF TrainInv
<1>4. CASE opt.train /\ flow_cnt > 0
  <2>1. listed' = models /\ listed' \in Seq(D!Model) /\ DistinctIds(listed')
    BY <1>1, <1>3, <1>4, RisingDistinct DEF ModelList
  <2>2. train_db' \subseteq D!Range(listed')
    BY <1>2, <1>3, <2>1
  <2> QED BY <1>1, <1>3, <2>1, <2>2 DEF TrainInv
<1>5. CASE ~(opt.train /\ flow_cnt > 0)
  <2>1. listed' = listed
    BY <1>1, <1>5
  <2>2. train_db' \subseteq D!Range(listed')
    BY <1>2, <1>3, <1>5, <2>1
  <2> QED BY <1>1, <1>3, <2>1, <2>2 DEF TrainInv
<1> QED BY <1>4, <1>5

LEMMA TrainKeeps ==
  ASSUME D!ModelsTyped, TrainInv, D!Next \/ UNCHANGED D!dvars PROVE TrainInv'
<1>1. CASE D!Signal \/ UNCHANGED D!dvars
  <2>1. UNCHANGED <<opt, listed, models, phase, flow_cnt, train_db>>
    BY <1>1 DEF D!Signal, D!dvars
  <2> QED BY <2>1 DEF TrainInv
<1> QED BY <1>1, LaunchKeeps, DeviceFlowsKeep, DeviceReportKeeps, DeviceFinishKeeps DEF D!Next

LEMMA TrainRight == TrainInv => D!TrainingUnambiguous
<1> SUFFICES ASSUME TrainInv PROVE D!TrainingUnambiguous
  OBVIOUS
<1> DEFINE R == D!Range(listed)  Q == D!Range(models)
<1>1. /\ listed \in Seq(D!Model) /\ DistinctIds(listed) /\ models \in ModelList
      /\ Q \subseteq R \/ R \subseteq Q
      /\ train_db \subseteq R \cup Q /\ (phase = "off" => train_db \subseteq R)
  BY DEF TrainInv
<1>2. ASSUME NEW l \in Seq(D!Model), DistinctIds(l), NEW m \in D!Range(l), NEW n \in D!Range(l), m.id = n.id
      PROVE  m = n
  <2>1. D!Range(l) = {l[i] : i \in 1 .. Len(l)}
    BY ModelListIs
  <2>2. PICK i \in 1 .. Len(l), j \in 1 .. Len(l) : m = l[i] /\ n = l[j]
    BY <2>1
  <2> QED BY <1>2, <2>2 DEF DistinctIds
<1>3. models \in Seq(D!Model) /\ DistinctIds(models)
  BY <1>1, RisingDistinct DEF ModelList
<1>4. ASSUME NEW m \in train_db \cup Q \cup R, NEW n \in train_db \cup Q \cup R, m.id = n.id
      PROVE  m.name = n.name
  <2>1. (m \in R /\ n \in R) \/ (m \in Q /\ n \in Q)
    BY <1>1
  <2>2. m = n
    BY <1>1, <1>2, <1>3, <1>4, <2>1
  <2> QED BY <2>2
<1> HIDE DEF R, Q
<1> QED BY <1>1, <1>4 DEF D!TrainingUnambiguous, R, Q

\* device_classifier: an id of the training database stands for one label, over all runs
\* (add_label, export_trained_data, update_models_list).
THEOREM TrainingUnambiguousCorrect == Spec => []TrainingUnambiguous
<1>1. Init => (active = "device" => TrainInv)
  BY TrainInitHolds, ModelListTyped DEF Init
<1>2. (active = "device" => TrainInv) /\ [Next]_vars => (active = "device" => TrainInv)'
  <2> SUFFICES ASSUME active = "device" => TrainInv, [Next]_vars, active' = "device"
               PROVE  TrainInv'
    OBVIOUS
  <2>1. CASE Next
    BY <2>1, TrainKeeps, ModelListTyped DEF Next
  <2>2. CASE UNCHANGED vars
    BY <2>2, TrainKeeps, ModelListTyped DEF vars, device, D!dvars
  <2> QED BY <2>1, <2>2
<1>3. (active = "device" => TrainInv) => TrainingUnambiguous
  BY TrainRight DEF TrainingUnambiguous
<1> QED BY <1>1, <1>2, <1>3, PTL DEF Spec
(****************************************************************************)
(* logger and logreplay: a line that is split again.                        *)
(****************************************************************************)

\* What holds of 0 and goes on from each number to the next holds up to n.
LEMMA Climb ==
  ASSUME NEW n \in Nat, NEW P, 0 \in P, \A k \in 1 .. n : k - 1 \in P => k \in P
  PROVE  \A k \in 0 .. n : k \in P
<1> DEFINE Bad == {k \in 0 .. n : k \notin P}
<1> SUFFICES ASSUME Bad # {} PROVE FALSE
  OBVIOUS
<1>1. Bad \subseteq Nat
  OBVIOUS
<1>2. PICK k \in Bad : \A j \in Bad : k <= j
  BY <1>1, Least
<1>3. k \in 0 .. n /\ k \notin P /\ k # 0
  BY <1>2
<1>4. k \in 1 .. n /\ k - 1 \in 0 .. n /\ ~(k <= k - 1)
  BY <1>3
<1>5. k - 1 \in P
  BY <1>2, <1>4
<1> QED BY <1>3, <1>4, <1>5

LEMMA Joined ==
  ASSUME NEW S, NEW u \in Seq(S), NEW v \in Seq(S)
  PROVE  /\ u \o v \in Seq(S) /\ Len(u \o v) = Len(u) + Len(v)
         /\ \A p \in 1 .. Len(u) : (u \o v)[p] = u[p]
         /\ \A p \in 1 .. Len(v) : (u \o v)[Len(u) + p] = v[p]
<1>1. Len(u) \in Nat /\ Len(v) \in Nat
  OBVIOUS
<1>2. ASSUME NEW p \in 1 .. Len(v) PROVE (u \o v)[Len(u) + p] = v[p]
  <2>1. Len(u) + p \in 1 .. Len(u) + Len(v) /\ ~(Len(u) + p <= Len(u)) /\ (Len(u) + p) - Len(u) = p
    BY <1>1
  <2> QED BY <2>1, ConcatProperties
<1> QED BY <1>1, <1>2, ConcatProperties

\* The pieces of a sequence of sequences, up to each of them.
Pieces(S, s) ==
  {f \in [0 .. Len(s) -> Seq(S)] : f[0] = <<>> /\ \A i \in 1 .. Len(s) : f[i] = f[i - 1] \o s[i]}

LEMMA FlattenIs ==
  ASSUME NEW S, NEW s \in Seq(Seq(S))
  PROVE  \E f \in Pieces(S, s) : L!FlattenSeq(s) = f[Len(s)]
<1> DEFINE n == Len(s)
           g == [i \in 1 .. n |-> [l \in Seq(S) |-> l \o s[i]]]
           After(h) == [i \in 1 .. n |-> IF i = 1 THEN s[i] ELSE h[i - 1] \o s[i]]
           R(h) == h = After(h)
           c == CHOOSE h : R(h)
<1>0. n \in Nat
  OBVIOUS
<1>1. n \in Nat /\ \A i \in 1 .. n : s[i] \in Seq(S)
  BY ElementOfSeq
<1>2. <<>> \in Seq(S)
  OBVIOUS
<1>3. PICK f \in [0 .. n -> Seq(S)] : f[0] = <<>> /\ \A i \in 1 .. n : f[i] = g[i][f[i - 1]]
  <2>1. AreSteps(n, Seq(S), g)
    BY <1>1 DEF AreSteps
  <2>2. Chain(n, Seq(S), g, <<>>) # {}
    BY <1>1, <1>2, <2>1, Iterate
  <2> QED BY <2>2 DEF Chain
<1>4. ASSUME NEW i \in 1 .. n PROVE f[i] = f[i - 1] \o s[i]
  <2>2. i - 1 \in 0 .. n
    BY <1>1
  <2>1. f[i - 1] \in Seq(S)
    BY <1>3, <2>2
  <2> QED BY <1>3, <2>1
<1>5. f \in Pieces(S, s)
  BY <1>3, <1>4 DEF Pieces
<1>6. CASE n = 0
  <2>1. L!FlattenSeq(s) = s
    BY <1>6 DEF L!FlattenSeq
  <2>2. s = <<>>
    BY <1>6, EmptySeq
  <2> QED BY <1>3, <1>5, <1>6, <2>1, <2>2
<1>7. CASE n # 0
  <2>1. n > 0 /\ f[1] = s[1]
    <3>1. 1 \in 1 .. n /\ 1 - 1 = 0 /\ f[0] = <<>> /\ s[1] \in Seq(S)
      BY <1>1, <1>3, <1>7
    <3>3. f[1] = f[1 - 1] \o s[1]
      BY <1>4, <3>1
    <3>2. <<>> \o s[1] = s[1]
      BY <3>1, ConcatEmptySeq
    <3> QED BY <1>1, <1>7, <3>1, <3>2, <3>3
  <2> DEFINE h == [i \in 1 .. n |-> f[i]]
  <2>2. R(h)
    <3>1. ASSUME NEW i \in 1 .. n PROVE h[i] = IF i = 1 THEN s[i] ELSE h[i - 1] \o s[i]
      <4>1. CASE i = 1
        BY <2>1, <4>1
      <4>2. CASE i # 1
        <5>1. i - 1 \in 1 .. n
          BY <1>1, <4>2
        <5> QED BY <1>4, <4>2, <5>1
      <4> QED BY <4>1, <4>2
    <3> HIDE DEF h
    <3>2. h = [i \in 1 .. n |-> h[i]]
      BY DEF h
    <3> QED BY <3>1, <3>2
  <2> HIDE DEF h, R
  <2>3. R(c)
    BY <2>2
  <2>4. \A i \in 1 .. n : c[i] = IF i = 1 THEN s[i] ELSE c[i - 1] \o s[i]
    <3> HIDE DEF c
    <3>1. c = After(c)
      BY <2>3 DEF R
    <3> QED BY <3>1
  <2>5. L!FlattenSeq(s) = c[n]
    BY <1>7 DEF L!FlattenSeq, n, R
  <2> HIDE DEF c, After
  <2> DEFINE P == {k \in Nat : k = 0 \/ c[k] = f[k]}
  <2>6. 0 \in P
    OBVIOUS
  <2> HIDE DEF n, g
  <2>7. ASSUME NEW k \in 1 .. n, k - 1 \in P PROVE k \in P
    <3>1. CASE k = 1
      BY <2>1, <2>4, <3>1
    <3>2. CASE k # 1
      <4>1. c[k] = c[k - 1] \o s[k] /\ k - 1 # 0
        <5>1. k - 1 # 0 /\ k \in 1 .. n
          BY <1>0, <3>2
        <5> HIDE DEF P
        <5> QED BY <2>4, <3>2, <5>1
      <4>2. f[k] = f[k - 1] \o s[k]
        BY <1>4
      <4>3. c[k - 1] = f[k - 1]
        BY <2>7, <4>1
      <4>4. c[k] = f[k] /\ k \in Nat
        BY <1>0, <4>1, <4>2, <4>3
      <4> QED BY <4>4
    <3> QED BY <3>1, <3>2
  <2> HIDE DEF P
  <2>8. n \in P
    <3>1. \A k \in 0 .. n : k \in P
      BY <1>1, <2>6, <2>7, Climb
    <3> QED BY <1>1, <3>1
  <2> QED BY <1>5, <1>7, <2>5, <2>8 DEF P, n
<1> QED BY <1>6, <1>7

\* Where the pieces end in the whole.
Ends(S, s) ==
  {e \in [0 .. Len(s) -> Nat] : e[0] = 0 /\ \A i \in 1 .. Len(s) : e[i] = e[i - 1] + Len(s[i])}

Flattened(S, s, all) ==
  /\ all \in Seq(S)
  /\ \E e \in Ends(S, s) :
       /\ Len(all) = e[Len(s)]
       /\ \A i \in 1 .. Len(s) : \A p \in 1 .. Len(s[i]) :
            e[i - 1] + p \in 1 .. e[Len(s)] /\ all[e[i - 1] + p] = s[i][p]

LEMMA FlattenAt ==
  ASSUME NEW S, NEW s \in Seq(Seq(S))
  PROVE  Flattened(S, s, L!FlattenSeq(s))
<1> DEFINE n == Len(s)
<1>1. n \in Nat /\ \A i \in 1 .. n : s[i] \in Seq(S) /\ Len(s[i]) \in Nat
  BY ElementOfSeq
<1>2. PICK f \in [0 .. n -> Seq(S)] :
        /\ f[0] = <<>> /\ \A i \in 1 .. n : f[i] = f[i - 1] \o s[i]
        /\ L!FlattenSeq(s) = f[n]
  BY FlattenIs DEF Pieces
<1> HIDE DEF n
<1> DEFINE e == [i \in 0 .. n |-> Len(f[i])]
<1>3. \A i \in 0 .. n : f[i] \in Seq(S) /\ e[i] = Len(f[i]) /\ e[i] \in Nat
  BY <1>2
<1>4. ASSUME NEW i \in 1 .. n
      PROVE  /\ e[i] = e[i - 1] + Len(s[i])
             /\ \A p \in 1 .. e[i - 1] : f[i][p] = f[i - 1][p]
             /\ \A p \in 1 .. Len(s[i]) : f[i][e[i - 1] + p] = s[i][p]
  <2>1. i \in 0 .. n /\ i - 1 \in 0 .. n
    BY <1>1
  <2>2. f[i - 1] \in Seq(S) /\ s[i] \in Seq(S) /\ f[i] = f[i - 1] \o s[i]
        /\ e[i] = Len(f[i]) /\ e[i - 1] = Len(f[i - 1])
    BY <1>1, <1>2, <1>3, <2>1
  <2> DEFINE u == f[i - 1]  v == s[i]  w == f[i]  a == e[i - 1]  b == e[i]
  <2>3. u \in Seq(S) /\ v \in Seq(S) /\ w = u \o v /\ b = Len(w) /\ a = Len(u)
    BY <2>2
  <2> HIDE DEF u, v, w, a, b, e
  <2>4. /\ Len(w) = Len(u) + Len(v)
        /\ \A p \in 1 .. Len(u) : w[p] = u[p]
        /\ \A p \in 1 .. Len(v) : w[Len(u) + p] = v[p]
    BY <2>3, Joined
  <2>5. /\ b = a + Len(v) /\ \A p \in 1 .. a : w[p] = u[p]
        /\ \A p \in 1 .. Len(v) : w[a + p] = v[p]
    BY <2>3, <2>4
  <2> QED BY <2>5 DEF u, v, w, a, b
<1> HIDE DEF e
<1>5. e \in Ends(S, s)
  <2>1. e[0] = 0
    <3>1. 0 \in 0 .. n
      BY <1>1
    <3> QED BY <1>2, <1>3, <3>1
  <2>2. e \in [0 .. n -> Nat]
    BY <1>3 DEF e
  <2> QED BY <1>4, <2>1, <2>2 DEF Ends, n
<1> DEFINE P == {j \in 0 .. n : \A i \in 1 .. j : \A p \in 1 .. Len(s[i]) :
                   /\ e[i - 1] + p \in 1 .. e[j] /\ f[j][e[i - 1] + p] = s[i][p]}
<1>6. 0 \in P
  BY <1>1
<1>7. ASSUME NEW k \in 1 .. n, k - 1 \in P PROVE k \in P
  <2>1. k \in 0 .. n /\ k - 1 \in 0 .. n
    BY <1>1
  <2>2. /\ e[k] = e[k - 1] + Len(s[k])
        /\ \A p \in 1 .. e[k - 1] : f[k][p] = f[k - 1][p]
        /\ \A p \in 1 .. Len(s[k]) : f[k][e[k - 1] + p] = s[k][p]
    BY <1>4
  <2>3. e[k - 1] \in Nat /\ e[k] \in Nat /\ Len(s[k]) \in Nat
    BY <1>1, <1>3, <2>1
  <2>4. ASSUME NEW i \in 1 .. k, NEW p \in 1 .. Len(s[i])
        PROVE  e[i - 1] + p \in 1 .. e[k] /\ f[k][e[i - 1] + p] = s[i][p]
    <3>1. CASE i = k
      BY <2>2, <2>3, <2>4, <3>1
    <3>2. CASE i # k
      <4>1. i \in 1 .. k - 1
        BY <3>2
      <4>2. e[i - 1] + p \in 1 .. e[k - 1] /\ f[k - 1][e[i - 1] + p] = s[i][p]
        BY <1>7, <4>1
      <4> DEFINE x == e[i - 1] + p  a == e[k - 1]  b == e[k]  l == Len(s[k])
                 u == f[k]  v == f[k - 1]
      <4>3. x \in 1 .. a /\ v[x] = s[i][p] /\ b = a + l /\ \A q \in 1 .. a : u[q] = v[q]
        BY <2>2, <4>2
      <4>4. a \in Nat /\ b \in Nat /\ l \in Nat
        BY <2>3
      <4> HIDE DEF x, a, b, l, u, v
      <4>5. x \in 1 .. b /\ u[x] = s[i][p]
        BY <4>3, <4>4
      <4> QED BY <4>5 DEF x, b, u
    <3> QED BY <3>1, <3>2
  <2> QED BY <2>1, <2>4
<1> HIDE DEF P
<1>8. n \in P
  <2>1. \A k \in 0 .. n : k \in P
    BY <1>1, <1>6, <1>7, Climb
  <2> QED BY <1>1, <2>1
<1>9. n \in 0 .. n
  BY <1>1
<1>10. Len(L!FlattenSeq(s)) = e[n] /\ L!FlattenSeq(s) \in Seq(S)
  BY <1>2, <1>3, <1>9
<1> QED BY <1>2, <1>5, <1>8, <1>10 DEF P, n, Flattened

LEMMA Short ==
  ASSUME NEW S, NEW x \in S, NEW y \in S
  PROVE  /\ <<x>> \in Seq(S) /\ Len(<<x>>) = 1 /\ <<x>>[1] = x
         /\ <<x, y>> \in Seq(S) /\ Len(<<x, y>>) = 2 /\ <<x, y>>[1] = x /\ <<x, y>>[2] = y
OBVIOUS

\* The marks that are told apart: the provers do better with names than with strings.
QuoteMark == "q"
CommaMark == ","
BackMark  == "b"
NoMark    == ""

LEMMA MarksDiffer ==
  /\ QuoteMark # CommaMark /\ QuoteMark # BackMark /\ CommaMark # BackMark /\ NoMark # BackMark
BY DEF QuoteMark, CommaMark, BackMark, NoMark

\* A quoted text: each of its marks is at the ends of a piece, one or two marks long.
Width2(ch) == IF ch = QuoteMark THEN 2 ELSE 1

LEMMA QuotedAt ==
  ASSUME NEW S, QuoteMark \in S, NEW text \in Seq(S)
  PROVE  /\ L!Quoted(text) \in Seq(S)
         /\ \E e \in [0 .. Len(text) -> Nat] :
              /\ e[0] = 0 /\ \A i \in 1 .. Len(text) : e[i] = e[i - 1] + Width2(text[i])
              /\ Len(L!Quoted(text)) = e[Len(text)] + 2
              /\ L!Quoted(text)[1] = QuoteMark /\ L!Quoted(text)[e[Len(text)] + 2] = QuoteMark
              /\ \A i \in 1 .. Len(text) :
                   /\ e[i] <= e[Len(text)]
                   /\ L!Quoted(text)[e[i - 1] + 2] = text[i] /\ L!Quoted(text)[e[i] + 1] = text[i]
<1> DEFINE n == Len(text)
           s == [i \in 1 .. n |-> IF text[i] = QuoteMark THEN <<QuoteMark, QuoteMark>> ELSE <<text[i]>>]
           all == L!FlattenSeq(s)
           whole == (<<QuoteMark>> \o all) \o <<QuoteMark>>
<1>1. n \in Nat /\ \A i \in 1 .. n : text[i] \in S
  BY ElementOfSeq
<1>2. ASSUME NEW i \in 1 .. n
      PROVE  /\ s[i] \in Seq(S) /\ Len(s[i]) = Width2(text[i])
             /\ s[i][1] = text[i] /\ s[i][Len(s[i])] = text[i]
  <2>1. CASE text[i] = QuoteMark
    <3>1. s[i] = <<QuoteMark, QuoteMark>>
      BY <2>1
    <3> QED BY <2>1, <3>1, Short DEF Width2
  <2>2. CASE text[i] # QuoteMark
    <3>1. text[i] \in S /\ s[i] = <<text[i]>>
      BY <1>1, <2>2
    <3> QED BY <2>2, <3>1, Short DEF Width2
  <2> QED BY <2>1, <2>2
<1>3. s \in Seq(Seq(S)) /\ Len(s) = n
  BY <1>1, <1>2
<1>4. L!Quoted(text) = whole
  <2>1. DOMAIN text = 1 .. n
    OBVIOUS
  <2> QED BY <2>1 DEF L!Quoted, QuoteMark
<1> HIDE DEF s, n
<1>5. /\ all \in Seq(S)
      /\ \E e \in Ends(S, s) :
           /\ Len(all) = e[Len(s)]
           /\ \A i \in 1 .. Len(s) : \A p \in 1 .. Len(s[i]) :
                e[i - 1] + p \in 1 .. e[Len(s)] /\ all[e[i - 1] + p] = s[i][p]
  <2>1. Flattened(S, s, all)
    BY <1>3, FlattenAt
  <2> HIDE DEF all
  <2> QED BY <2>1 DEF Flattened
<1> HIDE DEF all
<1>6. PICK e \in Ends(S, s) :
        /\ Len(all) = e[Len(s)]
        /\ \A i \in 1 .. Len(s) : \A p \in 1 .. Len(s[i]) :
             e[i - 1] + p \in 1 .. e[Len(s)] /\ all[e[i - 1] + p] = s[i][p]
  BY <1>5
<1>7. /\ e \in [0 .. n -> Nat] /\ e[0] = 0
      /\ \A i \in 1 .. n : e[i] = e[i - 1] + Width2(text[i])
  BY <1>2, <1>3, <1>6 DEF Ends
<1>8. /\ whole \in Seq(S) /\ Len(whole) = Len(all) + 2
      /\ whole[1] = QuoteMark /\ whole[Len(all) + 2] = QuoteMark
      /\ \A p \in 1 .. Len(all) : whole[p + 1] = all[p]
  <2> DEFINE u == <<QuoteMark>>  v == u \o all
  <2>1. u \in Seq(S) /\ Len(u) = 1 /\ u[1] = QuoteMark
    BY Short
  <2> HIDE DEF u
  <2>2. /\ v \in Seq(S) /\ Len(v) = 1 + Len(all) /\ v[1] = QuoteMark
        /\ \A p \in 1 .. Len(all) : v[1 + p] = all[p]
    <3>1. 1 \in 1 .. Len(u)
      BY <2>1
    <3>2. /\ u \o all \in Seq(S) /\ Len(u \o all) = Len(u) + Len(all)
          /\ \A p \in 1 .. Len(u) : (u \o all)[p] = u[p]
          /\ \A p \in 1 .. Len(all) : (u \o all)[Len(u) + p] = all[p]
      <4>1. u \in Seq(S) /\ all \in Seq(S)
        BY <1>5, <2>1
      <4> HIDE DEF whole, v
      <4> QED BY <4>1, Joined
    <3> QED BY <2>1, <3>1, <3>2
  <2> HIDE DEF v
  <2>3. /\ v \o u \in Seq(S) /\ Len(v \o u) = Len(v) + 1
        /\ \A p \in 1 .. Len(v) : (v \o u)[p] = v[p]
        /\ (v \o u)[Len(v) + 1] = QuoteMark
    <3>1. 1 \in 1 .. Len(u)
      BY <2>1
    <3>2. /\ v \o u \in Seq(S) /\ Len(v \o u) = Len(v) + Len(u)
          /\ \A p \in 1 .. Len(v) : (v \o u)[p] = v[p]
          /\ \A p \in 1 .. Len(u) : (v \o u)[Len(v) + p] = u[p]
      <4>1. u \in Seq(S) /\ v \in Seq(S)
        BY <2>1, <2>2
      <4> HIDE DEF whole
      <4> QED BY <4>1, Joined
    <3> QED BY <2>1, <3>1, <3>2
  <2>4. Len(all) \in Nat
    BY <1>5
  <2>5. whole = v \o u
    BY DEF u, v
  <2>6. ASSUME NEW p \in 1 .. Len(all) PROVE whole[p + 1] = all[p]
    <3>1. p + 1 = 1 + p /\ 1 + p \in 1 .. Len(v)
      BY <2>2, <2>4
    <3> QED BY <2>2, <2>3, <2>5, <3>1
  <2> HIDE DEF whole
  <2> QED BY <2>2, <2>3, <2>4, <2>5, <2>6
<1> HIDE DEF whole
<1>9. ASSUME NEW i \in 1 .. n
      PROVE  /\ e[i] <= e[n] /\ whole[e[i - 1] + 2] = text[i] /\ whole[e[i] + 1] = text[i]
  <2>1. i \in 0 .. n /\ i - 1 \in 0 .. n /\ n \in 0 .. n
    BY <1>1
  <2>2. e[i] \in Nat /\ e[i - 1] \in Nat /\ e[n] \in Nat /\ Width2(text[i]) \in {1, 2}
        /\ e[i] = e[i - 1] + Width2(text[i])
    BY <1>7, <2>1 DEF Width2
  <2>3. \A p \in 1 .. Width2(text[i]) :
          e[i - 1] + p \in 1 .. e[n] /\ all[e[i - 1] + p] = s[i][p]
    BY <1>2, <1>3, <1>6
  <2> DEFINE a == e[i - 1]  w == Width2(text[i])
  <2>4. /\ 1 \in 1 .. w /\ w \in 1 .. w
        /\ s[i][1] = text[i] /\ s[i][w] = text[i] /\ e[i] = a + w /\ a \in Nat /\ w \in Nat
        /\ Len(all) = e[n]
    BY <1>2, <1>3, <1>6, <2>2
  <2> HIDE DEF a, w
  <2>5. /\ a + 1 \in 1 .. e[n] /\ a + w \in 1 .. e[n]
        /\ all[a + 1] = text[i] /\ all[a + w] = text[i]
    BY <2>3, <2>4 DEF a, w
  <2>6. whole[(a + 1) + 1] = text[i] /\ whole[(a + w) + 1] = text[i]
    BY <1>8, <2>4, <2>5
  <2>7. (a + 1) + 1 = a + 2 /\ e[i] <= e[n]
    BY <2>2, <2>4, <2>5
  <2> QED BY <2>4, <2>6, <2>7 DEF a
<1>10. Len(all) = e[n] /\ Len(s) = n
  BY <1>3, <1>6
<1> QED BY <1>4, <1>7, <1>8, <1>9, <1>10 DEF n

-----------------------------------------------------------------------------
(* A column is scanned mark by mark.                                       *)

IsQuoted(marks, i) == i <= Len(marks) /\ marks[i] = QuoteMark
From(marks, i) == IF IsQuoted(marks, i) THEN i + 1 ELSE i
Rest(marks, i) == Len(marks) - From(marks, i) + 1

Scan(S) == [column : Seq(S), quotes : Nat, in_quotes : Nat, fin : BOOLEAN, next : Nat]

Begin(marks, i) ==
  [column |-> <<>>, quotes |-> IF IsQuoted(marks, i) THEN 1 ELSE 0, in_quotes |-> 0,
   fin |-> FALSE, next |-> From(marks, i)]

Further(marks, i, k, s) ==
  IF s.fin THEN s
  ELSE L!Scanned(s, IF k = 1 THEN NoMark ELSE marks[From(marks, i) + k - 2],
                 marks[From(marks, i) + k - 1])

\* The states of a scan from position i.
Runs(S, marks, i) ==
  {a \in [0 .. Rest(marks, i) -> Scan(S)] :
     /\ a[0] = Begin(marks, i)
     /\ \A k \in 1 .. Rest(marks, i) : a[k] = Further(marks, i, k, a[k - 1])}

LEMMA ScannedType ==
  ASSUME NEW S, NEW s \in Scan(S), NEW prev, NEW ch \in S
  PROVE  L!Scanned(s, prev, ch) \in Scan(S) /\ L!Scanned(s, prev, ch).next = s.next + 1
<1>1. /\ s.column \in Seq(S) /\ s.quotes \in Nat /\ s.in_quotes \in Nat /\ s.next \in Nat
      /\ Append(s.column, ch) \in Seq(S)
  <2>1. s.column \in Seq(S) /\ s.quotes \in Nat /\ s.in_quotes \in Nat /\ s.next \in Nat
    BY DEF Scan
  <2> QED BY <2>1, AppendProperties
<1> DEFINE quote == IF ch = "q" /\ prev # "b" THEN 1 ELSE 0
           quotes == s.quotes + quote  inside == s.in_quotes + quote
           fin == ch = "," /\ (quotes = 0 \/ (prev = "q" /\ quotes % 2 = 0))
           kept == ~fin /\ (ch # "q" \/ inside % 2 = 0)
           r == [column |-> IF kept THEN Append(s.column, ch) ELSE s.column,
                 quotes |-> quotes, in_quotes |-> inside, fin |-> fin, next |-> s.next + 1]
<1>2. L!Scanned(s, prev, ch) = r
  BY DEF L!Scanned
<1>3. quotes \in Nat /\ inside \in Nat /\ fin \in BOOLEAN
  BY <1>1
<1> HIDE DEF quote, quotes, inside, fin, kept
<1>4. r.next = s.next + 1
  OBVIOUS
<1>5. r \in Scan(S)
  BY <1>1, <1>3 DEF Scan
<1> HIDE DEF r
<1> QED BY <1>2, <1>4, <1>5

LEMMA FromIs ==
  ASSUME NEW S, NEW marks \in Seq(S), NEW i \in 1 .. Len(marks) + 1
  PROVE  /\ From(marks, i) \in Nat \ {0} /\ From(marks, i) <= Len(marks) + 1 /\ Rest(marks, i) \in Nat
         /\ Begin(marks, i) \in Scan(S)
<1>1. Len(marks) \in Nat
  OBVIOUS
<1>2. From(marks, i) \in Nat \ {0} /\ From(marks, i) <= Len(marks) + 1
  BY <1>1 DEF From, IsQuoted
<1>3. <<>> \in Seq(S)
  OBVIOUS
<1> QED BY <1>1, <1>2, <1>3 DEF Rest, Begin, Scan

LEMMA RunExists ==
  ASSUME NEW S, NEW marks \in Seq(S), NEW i \in 1 .. Len(marks) + 1
  PROVE  Runs(S, marks, i) # {}
<1> DEFINE n == Rest(marks, i)
           g == [k \in 1 .. n |-> [s \in Scan(S) |-> Further(marks, i, k, s)]]
<1>1. n \in Nat /\ Begin(marks, i) \in Scan(S) /\ From(marks, i) \in Nat \ {0} /\ Len(marks) \in Nat
  BY FromIs
<1>2. ASSUME NEW k \in 1 .. n, NEW s \in Scan(S) PROVE Further(marks, i, k, s) \in Scan(S)
  <2>1. From(marks, i) + k - 1 \in 1 .. Len(marks)
    BY <1>1 DEF Rest
  <2>2. marks[From(marks, i) + k - 1] \in S
    BY <2>1, ElementOfSeq
  <2> QED BY <2>2, ScannedType DEF Further
<1> HIDE DEF n
<1>3. g \in [1 .. n -> [Scan(S) -> Scan(S)]]
  BY <1>2
<1>4. \A k \in 1 .. n : \A s \in Scan(S) : g[k][s] = Further(marks, i, k, s)
  OBVIOUS
<1> HIDE DEF g
<1>5. Chain(n, Scan(S), g, Begin(marks, i)) # {}
  BY <1>1, <1>3, Iterate DEF AreSteps
<1>6. PICK a \in [0 .. n -> Scan(S)] :
        a[0] = Begin(marks, i) /\ \A k \in 1 .. n : a[k] = g[k][a[k - 1]]
  BY <1>5 DEF Chain
<1>7. ASSUME NEW k \in 1 .. n PROVE a[k] = Further(marks, i, k, a[k - 1])
  <2>1. k - 1 \in 0 .. n
    BY <1>1
  <2>2. a[k - 1] \in Scan(S)
    BY <1>6, <2>1
  <2> QED BY <1>4, <1>6, <2>2
<1> QED BY <1>6, <1>7 DEF Runs, n

LEMMA FieldIs ==
  ASSUME NEW S, NEW marks \in Seq(S), NEW i \in 1 .. Len(marks) + 1, NEW a \in Runs(S, marks, i)
  PROVE  L!GetNextField(marks, i)
           = [column |-> a[Rest(marks, i)].column, next |-> a[Rest(marks, i)].next]
<1> DEFINE n == Rest(marks, i)
           After(h) ==
             [k \in 0 .. n |->
                IF k = 0 THEN Begin(marks, i)
                ELSE IF h[k - 1].fin THEN h[k - 1]
                ELSE L!Scanned(h[k - 1], IF k = 1 THEN NoMark ELSE marks[From(marks, i) + k - 2],
                               marks[From(marks, i) + k - 1])]
           R(h) == h = After(h)
           c == CHOOSE h : R(h)
<1>1. L!GetNextField(marks, i) = [column |-> c[n].column, next |-> c[n].next]
  BY DEF L!GetNextField, Begin, Rest, From, IsQuoted, QuoteMark, NoMark
<1>2. n \in Nat
  BY FromIs
<1> HIDE DEF n
<1>3. /\ a \in [0 .. n -> Scan(S)] /\ a[0] = Begin(marks, i)
      /\ \A k \in 1 .. n : a[k] = Further(marks, i, k, a[k - 1])
  BY DEF Runs, n
<1>4. R(a)
  <2>1. ASSUME NEW k \in 0 .. n
        PROVE  a[k] = IF k = 0 THEN Begin(marks, i)
                ELSE IF a[k - 1].fin THEN a[k - 1]
                ELSE L!Scanned(a[k - 1], IF k = 1 THEN NoMark ELSE marks[From(marks, i) + k - 2],
                               marks[From(marks, i) + k - 1])
    <3>1. CASE k = 0
      BY <1>3, <3>1
    <3>2. CASE k # 0
      <4>1. k \in 1 .. n
        BY <1>2, <3>2
      <4>2. a[k] = Further(marks, i, k, a[k - 1])
        BY <1>3, <4>1
      <4> QED BY <3>2, <4>2 DEF Further
    <3> QED BY <3>1, <3>2
  <2>2. a = [k \in 0 .. n |-> a[k]]
    BY <1>3
  <2> QED BY <2>1, <2>2
<1> HIDE DEF R
<1>5. R(c)
  BY <1>4
<1>6. ASSUME NEW k \in 0 .. n
      PROVE  c[k] = IF k = 0 THEN Begin(marks, i) ELSE Further(marks, i, k, c[k - 1])
  <2> HIDE DEF c
  <2>1. c = After(c)
    BY <1>5 DEF R
  <2> QED BY <2>1 DEF Further
<1> HIDE DEF c, After
<1> DEFINE P == {k \in 0 .. n : c[k] = a[k]}
<1>7. 0 \in P
  <2>1. 0 \in 0 .. n
    BY <1>2
  <2> QED BY <1>3, <1>6, <2>1
<1>8. ASSUME NEW k \in 1 .. n, k - 1 \in P PROVE k \in P
  <2>1. k \in 0 .. n /\ k # 0
    BY <1>2
  <2>2. c[k] = Further(marks, i, k, c[k - 1])
    BY <1>6, <2>1
  <2>3. a[k] = Further(marks, i, k, a[k - 1])
    BY <1>3
  <2>4. c[k - 1] = a[k - 1]
    BY <1>8
  <2> QED BY <2>1, <2>2, <2>3, <2>4
<1> HIDE DEF P
<1>9. n \in P
  <2>1. \A k \in 0 .. n : k \in P
    BY <1>2, <1>7, <1>8, Climb
  <2> QED BY <1>2, <2>1
<1>10. c[n] = a[n]
  BY <1>9 DEF P
<1> QED BY <1>1, <1>10 DEF n

\* A scan does not go on when a comma has ended it, and it goes a mark further each time.
LEMMA Ended ==
  ASSUME NEW S, NEW marks \in Seq(S), NEW i \in 1 .. Len(marks) + 1, NEW a \in Runs(S, marks, i),
         NEW j \in 0 .. Rest(marks, i), a[j].fin
  PROVE  a[Rest(marks, i)] = a[j]
<1> DEFINE n == Rest(marks, i)
           P == {k \in 0 .. n : k >= j => a[k] = a[j]}
<1>1. n \in Nat
  BY FromIs
<1>2. \A k \in 1 .. n : a[k] = Further(marks, i, k, a[k - 1])
  BY DEF Runs
<1> HIDE DEF n
<1>3. 0 \in P
  <2>1. j \in 0 .. n
    BY DEF n
  <2> QED BY <1>1, <2>1
<1>4. ASSUME NEW k \in 1 .. n, k - 1 \in P PROVE k \in P
  <2>1. k \in 0 .. n /\ j \in Nat
    BY <1>1 DEF n
  <2>2. CASE k - 1 >= j
    <3>1. a[k - 1] = a[j]
      BY <1>4, <2>2
    <3>2. a[k] = Further(marks, i, k, a[k - 1])
      BY <1>2
    <3>3. a[k] = a[j]
      BY <3>1, <3>2 DEF Further
    <3> QED BY <2>1, <3>3
  <2>3. CASE ~(k - 1 >= j)
    <3>1. k >= j => k = j
      BY <2>1, <2>3
    <3> QED BY <2>1, <3>1
  <2> QED BY <2>2, <2>3
<1> HIDE DEF P
<1>5. n \in P
  <2>1. \A k \in 0 .. n : k \in P
    BY <1>1, <1>3, <1>4, Climb
  <2> QED BY <1>1, <2>1
<1> QED BY <1>5 DEF P, n

LEMMA NextIs ==
  ASSUME NEW S, NEW marks \in Seq(S), NEW i \in 1 .. Len(marks) + 1
  PROVE  /\ L!GetNextField(marks, i) \in [column : Seq(S), next : Nat]
         /\ L!GetNextField(marks, i).next \in 1 .. Len(marks) + 1
<1> DEFINE n == Rest(marks, i)  f == From(marks, i)
<1>1. n \in Nat /\ f \in Nat \ {0} /\ n = Len(marks) - f + 1 /\ Len(marks) \in Nat
  BY FromIs DEF Rest
<1>2. PICK a \in Runs(S, marks, i) : TRUE
  BY RunExists
<1>3. /\ a \in [0 .. n -> Scan(S)] /\ a[0] = Begin(marks, i)
      /\ \A k \in 1 .. n : a[k] = Further(marks, i, k, a[k - 1])
  BY DEF Runs
<1>4. L!GetNextField(marks, i) = [column |-> a[n].column, next |-> a[n].next]
  BY FieldIs
<1> HIDE DEF n
<1> DEFINE P == {k \in 0 .. n : a[k].next \in f .. f + k}
<1>5. 0 \in P
  <2>1. a[0].next = f
    BY <1>3 DEF Begin
  <2> HIDE DEF f
  <2> QED BY <1>1, <2>1
<1>6. ASSUME NEW k \in 1 .. n, k - 1 \in P PROVE k \in P
  <2>1. k \in 0 .. n /\ k - 1 \in 0 .. n /\ f + k - 1 \in 1 .. Len(marks)
    BY <1>1
  <2>2. a[k - 1] \in Scan(S) /\ marks[f + k - 1] \in S /\ a[k - 1].next \in f .. f + k - 1
    <3>1. a[k - 1].next \in f .. f + (k - 1)
      BY <1>6
    <3> QED BY <1>1, <1>3, <2>1, <3>1, ElementOfSeq
  <2>3. a[k] = Further(marks, i, k, a[k - 1])
    BY <1>3
  <2>4. a[k].next \in {a[k - 1].next, a[k - 1].next + 1}
    <3>1. CASE a[k - 1].fin
      BY <2>3, <3>1 DEF Further
    <3>2. CASE ~a[k - 1].fin
      <4>1. a[k] = L!Scanned(a[k - 1], IF k = 1 THEN NoMark ELSE marks[f + k - 2], marks[f + k - 1])
        BY <2>3, <3>2 DEF Further
      <4> HIDE DEF P, f
      <4> QED BY <2>2, <4>1, ScannedType
    <3> QED BY <3>1, <3>2
  <2> HIDE DEF f
  <2>5. a[k].next \in f .. f + k
    <3> DEFINE x == a[k - 1].next  y == a[k].next
    <3>1. x \in f .. f + k - 1 /\ (y = x \/ y = x + 1)
      BY <2>2, <2>4
    <3> HIDE DEF P, x, y
    <3>2. k \in Nat
      BY <1>1
    <3>3. y \in f .. f + k
      BY <1>1, <3>1, <3>2
    <3> QED BY <3>3 DEF y
  <2> QED BY <2>1, <2>5
<1> HIDE DEF P, f
<1>7. n \in P /\ n \in 0 .. n
  <2>1. \A k \in 0 .. n : k \in P
    BY <1>1, <1>5, <1>6, Climb
  <2> QED BY <1>1, <2>1
<1>8. a[n] \in Scan(S) /\ a[n].next \in f .. f + n
  BY <1>3, <1>7 DEF P
<1>9. a[n].column \in Seq(S) /\ a[n].next \in Nat
  BY <1>8 DEF Scan
<1> QED BY <1>1, <1>4, <1>8, <1>9

-----------------------------------------------------------------------------
(* What the marks of a column come to.                                     *)

LEMMA Letter ==
  ASSUME NEW S, NEW s \in Scan(S), NEW prev, NEW ch, ch # QuoteMark,
         ch = CommaMark => s.quotes # 0 /\ ~(prev = QuoteMark /\ s.quotes % 2 = 0)
  PROVE  L!Scanned(s, prev, ch) = [column |-> Append(s.column, ch), quotes |-> s.quotes,
                                   in_quotes |-> s.in_quotes, fin |-> FALSE, next |-> s.next + 1]
<1>1. s.quotes \in Nat /\ s.in_quotes \in Nat
  BY DEF Scan
<1>2. s.quotes + 0 = s.quotes /\ s.in_quotes + 0 = s.in_quotes
  BY <1>1
<1> QED BY <1>2 DEF L!Scanned, QuoteMark, CommaMark, BackMark

LEMMA Comma ==
  ASSUME NEW S, NEW s \in Scan(S), NEW prev, s.quotes = 0 \/ (prev = QuoteMark /\ s.quotes % 2 = 0)
  PROVE  L!Scanned(s, prev, CommaMark) = [column |-> s.column, quotes |-> s.quotes,
                                   in_quotes |-> s.in_quotes, fin |-> TRUE, next |-> s.next + 1]
<1>1. s.quotes \in Nat /\ s.in_quotes \in Nat
  BY DEF Scan
<1>2. s.quotes + 0 = s.quotes /\ s.in_quotes + 0 = s.in_quotes
  BY <1>1
<1> QED BY <1>2 DEF L!Scanned, QuoteMark, CommaMark, BackMark

LEMMA Quote ==
  ASSUME NEW S, NEW s \in Scan(S), NEW prev, prev # BackMark
  PROVE  L!Scanned(s, prev, QuoteMark)
           = [column |-> IF (s.in_quotes + 1) % 2 = 0 THEN Append(s.column, QuoteMark) ELSE s.column,
              quotes |-> s.quotes + 1, in_quotes |-> s.in_quotes + 1, fin |-> FALSE,
              next |-> s.next + 1]
BY DEF L!Scanned, QuoteMark, CommaMark, BackMark

\* Where the column behind one of w marks begins.
Behind(marks, i, w) == IF i + w <= Len(marks) THEN i + w + 1 ELSE i + w

LEMMA StaticColumn ==
  ASSUME NEW S, NEW marks \in Seq(S), NEW i \in 1 .. Len(marks), marks[i] \notin {QuoteMark, CommaMark},
         i + 1 <= Len(marks) => marks[i + 1] = CommaMark
  PROVE  L!GetNextField(marks, i) = [column |-> <<marks[i]>>, next |-> Behind(marks, i, 1)]
<1> DEFINE n == Rest(marks, i)  ch == marks[i]
<1>1. i \in 1 .. Len(marks) + 1 /\ Len(marks) \in Nat /\ ch \in S
  BY ElementOfSeq
<1>2. PICK a \in Runs(S, marks, i) : TRUE
  BY <1>1, RunExists
<1>3. ~IsQuoted(marks, i) /\ From(marks, i) = i /\ n = Len(marks) - i + 1 /\ n \in Nat /\ n >= 1
  BY <1>1 DEF IsQuoted, From, Rest
<1>4. /\ a \in [0 .. n -> Scan(S)] /\ a[0] = Begin(marks, i)
      /\ \A k \in 1 .. n : a[k] = Further(marks, i, k, a[k - 1])
  BY DEF Runs
<1>5. L!GetNextField(marks, i) = [column |-> a[n].column, next |-> a[n].next]
  BY <1>1, FieldIs
<1>6. a[0] = [column |-> <<>>, quotes |-> 0, in_quotes |-> 0, fin |-> FALSE, next |-> i]
  BY <1>3, <1>4 DEF Begin
<1> HIDE DEF n
<1>7. a[1] = [column |-> <<ch>>, quotes |-> 0, in_quotes |-> 0, fin |-> FALSE, next |-> i + 1]
  <2>1. 1 \in 1 .. n /\ 0 \in 0 .. n /\ a[0] \in Scan(S)
    BY <1>3, <1>4
  <2>2. a[1] = Further(marks, i, 1, a[1 - 1])
    BY <1>4, <2>1
  <2>3. 1 - 1 = 0 /\ i + 1 - 1 = i
    OBVIOUS
  <2>4. a[1] = L!Scanned(a[0], NoMark, ch)
    BY <1>3, <1>6, <2>2, <2>3 DEF Further
  <2>5. Append(<<>>, ch) = <<ch>>
    BY <1>1
  <2> HIDE DEF ch
  <2>6. ch # QuoteMark /\ ch # CommaMark
    BY DEF ch
  <2>7. a[1] = [column |-> Append(a[0].column, ch), quotes |-> a[0].quotes,
                in_quotes |-> a[0].in_quotes, fin |-> FALSE, next |-> a[0].next + 1]
    BY <2>1, <2>4, <2>6, Letter
  <2> QED BY <1>6, <2>5, <2>7
<1> HIDE DEF ch
<1>10. i \in Nat /\ i <= Len(marks)
  BY <1>1
<1>8. CASE i = Len(marks)
  <2>1. n = 1 /\ ~(i + 1 <= Len(marks))
    BY <1>1, <1>3, <1>8, <1>10
  <2>2. Behind(marks, i, 1) = i + 1
    BY <2>1 DEF Behind
  <2> QED BY <1>5, <1>7, <2>1, <2>2 DEF ch
<1>9. CASE i # Len(marks)
  <2>1. i + 1 <= Len(marks) /\ n >= 2 /\ 2 \in 1 .. n /\ 1 \in 0 .. n /\ 2 \in 0 .. n
    BY <1>1, <1>3, <1>9, <1>10
  <2>10. Behind(marks, i, 1) = i + 2
    <3>1. i + 1 + 1 = i + 2
      BY <1>10
    <3> QED BY <2>1, <3>1 DEF Behind
  <2>2. a[1] \in Scan(S)
    BY <1>4, <2>1
  <2>3. a[2] = Further(marks, i, 2, a[2 - 1])
    BY <1>4, <2>1
  <2>4. 2 - 1 = 1 /\ i + 2 - 2 = i /\ i + 2 - 1 = i + 1
    BY <1>10
  <2>11. ~a[1].fin /\ a[2] = Further(marks, i, 2, a[1])
    BY <1>7, <2>3, <2>4
  <2>5. a[2] = L!Scanned(a[1], ch, CommaMark)
    BY <1>3, <2>1, <2>4, <2>11 DEF Further, ch
  <2>6. a[1].quotes = 0
    BY <1>7
  <2>7. a[2] = [column |-> a[1].column, quotes |-> a[1].quotes,
                in_quotes |-> a[1].in_quotes, fin |-> TRUE, next |-> a[1].next + 1]
    BY <2>2, <2>5, <2>6, Comma
  <2>8. a[2].fin /\ a[2].column = <<ch>> /\ a[2].next = i + 2
    <3>1. a[1].column = <<ch>> /\ a[1].next = i + 1 /\ i + 1 + 1 = i + 2
      BY <1>7, <1>10
    <3> QED BY <2>7, <3>1
  <2>9. a[n] = a[2]
    BY <1>1, <2>1, <2>8, Ended DEF n
  <2> QED BY <1>5, <2>8, <2>9, <2>10 DEF ch
<1> QED BY <1>8, <1>9

LEMMA EscapedIs ==
  ASSUME NEW S, NEW text \in Seq(S), ~L!Escaped(text)
  PROVE  /\ \A j \in 1 .. Len(text) - 1 : text[j + 1] = QuoteMark => text[j] # BackMark
         /\ \A j \in 1 .. Len(text) : j = Len(text) => text[j] # BackMark
<1>1. DOMAIN text = 1 .. Len(text) /\ Len(text) \in Nat
  OBVIOUS
<1>2. \A j \in 1 .. Len(text) : ~(text[j] = BackMark /\ (j = Len(text) \/ text[j + 1] = QuoteMark))
  BY <1>1 DEF L!Escaped, BackMark, QuoteMark
<1>3. \A j \in 1 .. Len(text) - 1 : j \in 1 .. Len(text)
  BY <1>1
<1> QED BY <1>2, <1>3

LEMMA Prefixes ==
  ASSUME NEW S, NEW text \in Seq(S)
  PROVE  /\ SubSeq(text, 1, 0) = <<>> /\ SubSeq(text, 1, Len(text)) = text
         /\ \A j \in 1 .. Len(text) : Append(SubSeq(text, 1, j - 1), text[j]) = SubSeq(text, 1, j)
OBVIOUS

LEMMA Steps ==
  ASSUME NEW i \in Nat, NEW x \in Nat
  PROVE  /\ (x + 1) - 1 = x /\ (x + 2) - 1 = x + 1 /\ x + 1 # 0 /\ x + 2 # 1
         /\ i + (x + 1) - 1 = i + x /\ i + (x + 2) - 1 = i + (x + 1)
         /\ i + 1 + x + 1 = i + x + 2 /\ i + 1 + x + 1 = i + 1 + (x + 1)
         /\ i + 1 + x + 1 + 1 = i + 1 + (x + 2)
OBVIOUS

LEMMA Parity ==
  ASSUME NEW k \in Nat
  PROVE  /\ k % 2 = 0 => (k + 1) % 2 = 1 /\ (k + 1) % 2 # 0 /\ (k + 2) % 2 = 0 /\ (k + 1 + 1) % 2 = 0
         /\ k % 2 = 1 => (k + 1) % 2 = 0 /\ (k + 2) % 2 = 1
         /\ k + 1 + 1 = k + 2
OBVIOUS

\* The marks of column w stand at position i of the line, and its end behind them.
Stands(marks, i, w) ==
  /\ i \in Nat \ {0} /\ i + Len(w) <= Len(marks) + 1
  /\ \A p \in 1 .. Len(w) : marks[i + p - 1] = w[p]
  /\ i + Len(w) <= Len(marks) => marks[i + Len(w)] = CommaMark

LEMMA DynamicColumn ==
  ASSUME NEW S, QuoteMark \in S, CommaMark \in S, NEW marks \in Seq(S), NEW text \in Seq(S),
         ~L!Escaped(text), NEW i, Stands(marks, i, L!Quoted(text))
  PROVE  L!GetNextField(marks, i)
           = [column |-> text, next |-> Behind(marks, i, Len(L!Quoted(text)))]
<1> DEFINE n == Rest(marks, i)  m == Len(text)  q == L!Quoted(text)
<1>1. m \in Nat /\ Len(marks) \in Nat /\ \A j \in 1 .. m : text[j] \in S
  BY ElementOfSeq
<1>2. PICK e \in [0 .. m -> Nat] :
        /\ e[0] = 0 /\ \A j \in 1 .. m : e[j] = e[j - 1] + Width2(text[j])
        /\ Len(q) = e[m] + 2 /\ q[1] = QuoteMark /\ q[e[m] + 2] = QuoteMark
        /\ \A j \in 1 .. m :
             e[j] <= e[m] /\ q[e[j - 1] + 2] = text[j] /\ q[e[j] + 1] = text[j]
  BY QuotedAt
<1> HIDE DEF q, m
<1>3. /\ i \in Nat \ {0} /\ e[m] \in Nat /\ i + e[m] + 1 <= Len(marks)
      /\ \A p \in 1 .. e[m] + 2 : marks[i + p - 1] = q[p]
      /\ i + e[m] + 2 <= Len(marks) => marks[i + e[m] + 2] = CommaMark
  <2>1. m \in 0 .. m
    BY <1>1
  <2>2. e[m] \in Nat
    BY <1>2, <2>1
  <2>3. /\ i \in Nat \ {0} /\ i + (e[m] + 2) <= Len(marks) + 1
        /\ \A p \in 1 .. e[m] + 2 : marks[i + p - 1] = q[p]
        /\ i + (e[m] + 2) <= Len(marks) => marks[i + (e[m] + 2)] = CommaMark
    BY <1>2 DEF Stands, q
  <2>4. i + (e[m] + 2) = i + e[m] + 2 /\ i + e[m] + 1 = i + (e[m] + 2) - 1
    BY <2>2, <2>3
  <2> DEFINE z == i + (e[m] + 2)
  <2>5. i + e[m] + 2 = z
    BY <2>4
  <2>6. z <= Len(marks) => marks[z] = CommaMark
    BY <2>3
  <2> QED BY <1>1, <2>2, <2>3, <2>4, <2>5, <2>6
<1>4. /\ IsQuoted(marks, i) /\ From(marks, i) = i + 1 /\ n = Len(marks) - i /\ n \in Nat
      /\ e[m] + 1 <= n /\ i \in 1 .. Len(marks) + 1
  <2>1. 1 \in 1 .. e[m] + 2 /\ i + 1 - 1 = i
    BY <1>3
  <2>2. marks[i] = QuoteMark
    BY <1>2, <1>3, <2>1
  <2>3. i <= Len(marks)
    BY <1>1, <1>3
  <2>4. IsQuoted(marks, i)
    BY <2>2, <2>3 DEF IsQuoted
  <2> QED BY <1>1, <1>3, <2>3, <2>4 DEF From, Rest
<1>5. PICK a \in Runs(S, marks, i) : TRUE
  BY <1>4, RunExists
<1>6. /\ a \in [0 .. n -> Scan(S)] /\ a[0] = Begin(marks, i)
      /\ \A k \in 1 .. n : a[k] = Further(marks, i, k, a[k - 1])
  BY DEF Runs
<1>7. L!GetNextField(marks, i) = [column |-> a[n].column, next |-> a[n].next]
  BY <1>4, FieldIs
<1> HIDE DEF n
<1>8. ASSUME NEW k \in 1 .. n, ~a[k - 1].fin
      PROVE  /\ a[k - 1] \in Scan(S)
             /\ a[k] = L!Scanned(a[k - 1], IF k = 1 THEN NoMark ELSE marks[i + k - 1], marks[i + k])
  <2>1. k - 1 \in 0 .. n /\ (i + 1) + k - 2 = i + k - 1 /\ (i + 1) + k - 1 = i + k
    BY <1>3, <1>4
  <2>2. a[k] = L!Scanned(a[k - 1], IF k = 1 THEN NoMark ELSE marks[(i + 1) + k - 2],
                         marks[(i + 1) + k - 1])
    BY <1>4, <1>6, <1>8 DEF Further
  <2> QED BY <1>6, <2>1, <2>2
\* Where the marks of the text are, and what is before them.
<1>9. ASSUME NEW j \in 1 .. m
      PROVE  /\ e[j - 1] \in Nat /\ e[j] \in Nat /\ e[j] <= e[m]
             /\ e[j] = e[j - 1] + Width2(text[j]) /\ e[j] > 0
             /\ marks[i + (e[j - 1] + 1)] = text[j] /\ marks[i + e[j]] = text[j]
  <2>1. j \in 0 .. m /\ j - 1 \in 0 .. m
    BY <1>1
  <2>2. /\ e[j - 1] \in Nat /\ e[j] \in Nat /\ e[j] <= e[m]
        /\ e[j] = e[j - 1] + Width2(text[j]) /\ Width2(text[j]) \in {1, 2}
    BY <1>2, <2>1 DEF Width2
  <2> DEFINE x == e[j - 1]  y == e[j]
  <2>3. q[x + 2] = text[j] /\ q[y + 1] = text[j] /\ x \in Nat /\ y \in Nat /\ y <= e[m] /\ x < y
    BY <1>2, <2>2
  <2> DEFINE z == e[m]
  <2>7. x \in Nat /\ y \in Nat /\ z \in Nat /\ y <= z /\ x < y /\ i \in Nat
    BY <1>3, <2>3
  <2> HIDE DEF x, y, z
  <2>8. x + 2 \in 1 .. z + 2 /\ y + 1 \in 1 .. z + 2
    BY <2>7
  <2>4. /\ x + 2 \in 1 .. e[m] + 2 /\ y + 1 \in 1 .. e[m] + 2
        /\ i + (x + 2) - 1 = i + (x + 1) /\ i + (y + 1) - 1 = i + y
    BY <2>7, <2>8, Steps DEF z
  <2>5. marks[i + (x + 2) - 1] = q[x + 2] /\ marks[i + (y + 1) - 1] = q[y + 1]
    BY <1>3, <2>4
  <2>6. marks[i + (x + 1)] = text[j] /\ marks[i + y] = text[j]
    BY <2>3, <2>4, <2>5
  <2> QED BY <2>2, <2>3, <2>6 DEF x, y
<1>10. ASSUME NEW j \in 0 .. m
       PROVE  /\ e[j] \in Nat /\ e[j] <= e[m]
              /\ j = 0 => e[j] = 0
              /\ j # 0 => e[j] # 0 /\ j \in 1 .. m /\ marks[i + e[j]] = text[j]
  <2>1. CASE j = 0
    BY <1>2, <1>3, <2>1
  <2>2. CASE j # 0
    <3>1. j \in 1 .. m
      BY <1>1, <2>2
    <3> QED BY <1>9, <2>2, <3>1
  <2> QED BY <2>1, <2>2
\* The state behind the first j marks of the text.
<1> DEFINE At(j) == /\ a[e[j]].column = SubSeq(text, 1, j) /\ ~a[e[j]].fin
                    /\ a[e[j]].quotes \in Nat /\ a[e[j]].quotes % 2 = 1
                    /\ a[e[j]].in_quotes \in Nat /\ a[e[j]].in_quotes % 2 = 0
                    /\ a[e[j]].next = i + 1 + e[j]
           P == {j \in 0 .. m : At(j)}
<1>11. 0 \in P
  <2>1. e[0] = 0 /\ SubSeq(text, 1, 0) = <<>> /\ 0 \in 0 .. m
    BY <1>1, <1>2, Prefixes
  <2>2. a[0] = [column |-> <<>>, quotes |-> 1, in_quotes |-> 0, fin |-> FALSE, next |-> i + 1]
    BY <1>4, <1>6 DEF Begin
  <2>3. 1 % 2 = 1 /\ 0 % 2 = 0 /\ i + 1 + 0 = i + 1
    BY <1>3
  <2>4. At(0)
    BY <2>1, <2>2, <2>3
  <2> HIDE DEF At
  <2> QED BY <2>1, <2>4
<1>12. ASSUME NEW j \in 1 .. m, j - 1 \in P PROVE j \in P
  <2> DEFINE x == e[j - 1]  y == e[j]  t == text[j]  s == a[x]  c == SubSeq(text, 1, j - 1)
             before == IF x + 1 = 1 THEN NoMark ELSE marks[i + x]
  <2>1. /\ s.column = c /\ ~s.fin /\ s.quotes \in Nat /\ s.quotes % 2 = 1
        /\ s.in_quotes \in Nat /\ s.in_quotes % 2 = 0 /\ s.next = i + 1 + x
    BY <1>12
  <2>2. /\ x \in Nat /\ y \in Nat /\ y <= e[m] /\ y = x + Width2(t)
        /\ marks[i + (x + 1)] = t /\ marks[i + y] = t
    BY <1>9
  <2>3. j - 1 # 0 => x # 0 /\ j - 1 \in 1 .. m /\ marks[i + x] = text[j - 1]
    <3>1. j - 1 \in 0 .. m
      BY <1>1
    <3> QED BY <1>10, <3>1
  <2>4. j - 1 = 0 => x = 0
    BY <1>2
  <2>5. Append(c, t) = SubSeq(text, 1, j) /\ j \in 0 .. m
    BY <1>1, Prefixes DEF m
  <2>6. t = QuoteMark => before # BackMark
    <3>1. CASE j - 1 = 0
      BY <2>2, <2>4, <3>1, MarksDiffer
    <3>2. CASE j - 1 # 0
      <4>1. j - 1 \in 1 .. Len(text) - 1 /\ (j - 1) + 1 = j
        BY <1>1, <2>3, <3>2 DEF m
      <4>2. text[(j - 1) + 1] = QuoteMark => text[j - 1] # BackMark
        BY <4>1, EscapedIs
      <4>3. x + 1 # 1 /\ before = text[j - 1]
        BY <2>2, <2>3, <3>2
      <4> QED BY <4>1, <4>2, <4>3
    <3> QED BY <3>1, <3>2
  <2>7. a[x + 1] = L!Scanned(s, before, t) /\ s \in Scan(S) /\ x + 1 \in 1 .. n
    <3>1. x < y /\ x + 1 \in 1 .. n /\ (x + 1) - 1 = x /\ i + (x + 1) - 1 = i + x
      <4> DEFINE z == e[m]  w == Width2(t)
      <4>1. /\ x \in Nat /\ y \in Nat /\ z \in Nat /\ y <= z /\ y = x + w /\ z + 1 <= n
            /\ n \in Nat /\ i \in Nat /\ w \in {1, 2}
        BY <1>3, <1>4, <2>2 DEF Width2
      <4> HIDE DEF x, y, z, w
      <4> QED BY <4>1, Steps
    <3>2. /\ a[(x + 1) - 1] \in Scan(S)
          /\ a[x + 1] = L!Scanned(a[(x + 1) - 1], IF x + 1 = 1 THEN NoMark ELSE marks[i + (x + 1) - 1],
                                  marks[i + (x + 1)])
      BY <1>8, <2>1, <3>1
    <3> QED BY <2>2, <3>1, <3>2
  <2> HIDE DEF x, y, t, s, c, before, P
  <2>8. At(j)
    <3>1. CASE t # QuoteMark
      <4>1. t = CommaMark => s.quotes # 0 /\ ~(before = QuoteMark /\ s.quotes % 2 = 0)
        BY <2>1
      <4>2. a[x + 1] = [column |-> Append(s.column, t), quotes |-> s.quotes,
                        in_quotes |-> s.in_quotes, fin |-> FALSE, next |-> s.next + 1]
        BY <2>7, <3>1, <4>1, Letter
      <4>3. y = x + 1 /\ s.next + 1 = i + 1 + (x + 1)
        BY <1>3, <2>1, <2>2, <3>1 DEF Width2
      <4>4. /\ a[y].column = SubSeq(text, 1, j) /\ ~a[y].fin
            /\ a[y].quotes = s.quotes /\ a[y].in_quotes = s.in_quotes /\ a[y].next = i + 1 + y
        BY <2>1, <2>5, <4>2, <4>3
      <4> QED BY <2>1, <4>4 DEF y
    <3>2. CASE t = QuoteMark
      <4>1. a[x + 1] = [column |-> IF (s.in_quotes + 1) % 2 = 0 THEN Append(s.column, QuoteMark)
                                   ELSE s.column,
                        quotes |-> s.quotes + 1, in_quotes |-> s.in_quotes + 1, fin |-> FALSE,
                        next |-> s.next + 1]
        BY <2>6, <2>7, <3>2, Quote
      <4>2. (s.in_quotes + 1) % 2 = 1 /\ (s.in_quotes + 2) % 2 = 0 /\ (s.quotes + 2) % 2 = 1
        BY <2>1, Parity
      <4> DEFINE r == a[x + 1]
      <4>3. /\ r.column = c /\ r.quotes = s.quotes + 1 /\ r.in_quotes = s.in_quotes + 1
            /\ ~r.fin /\ r.next = s.next + 1
        BY <2>1, <4>1, <4>2
      <4>4. y = x + 2 /\ x + 2 \in 1 .. n /\ (x + 2) - 1 = x + 1 /\ x + 2 # 1
            /\ i + (x + 2) - 1 = i + (x + 1)
        <5> DEFINE z == e[m]
        <5>1. /\ x \in Nat /\ z \in Nat /\ x + 2 <= z /\ y = x + 2 /\ z + 1 <= n
              /\ n \in Nat /\ i \in Nat
          BY <1>3, <1>4, <2>2, <3>2 DEF Width2
        <5> HIDE DEF x, y, z
        <5> QED BY <5>1, Steps
      <4>5. /\ a[(x + 2) - 1] \in Scan(S)
            /\ a[x + 2] = L!Scanned(a[(x + 2) - 1], IF x + 2 = 1 THEN NoMark ELSE marks[i + (x + 2) - 1],
                                    marks[i + (x + 2)])
        BY <1>8, <4>3, <4>4
      <4>6. r \in Scan(S) /\ a[y] = L!Scanned(r, QuoteMark, QuoteMark)
        BY <2>2, <3>2, <4>4, <4>5
      <4> HIDE DEF r
      <4>7. a[y] = [column |-> IF (r.in_quotes + 1) % 2 = 0 THEN Append(r.column, QuoteMark)
                               ELSE r.column,
                    quotes |-> r.quotes + 1, in_quotes |-> r.in_quotes + 1, fin |-> FALSE,
                    next |-> r.next + 1]
        BY <4>6, Quote, MarksDiffer
      <4>8. /\ r.in_quotes + 1 = s.in_quotes + 2 /\ r.quotes + 1 = s.quotes + 2
            /\ r.next + 1 = i + 1 + y
        <5> DEFINE u == s.quotes  v == s.in_quotes
        <5>1. u \in Nat /\ v \in Nat /\ x \in Nat /\ i \in Nat
          BY <1>3, <2>1, <2>2
        <5>2. r.quotes = u + 1 /\ r.in_quotes = v + 1 /\ r.next = i + 1 + x + 1 /\ y = x + 2
          BY <2>1, <4>3, <4>4
        <5> HIDE DEF u, v
        <5>3. /\ u + 1 + 1 = u + 2 /\ v + 1 + 1 = v + 2
              /\ i + 1 + x + 1 + 1 = i + 1 + (x + 2)
          BY <5>1, Parity, Steps
        <5>4. r.in_quotes + 1 = v + 2 /\ r.quotes + 1 = u + 2 /\ r.next + 1 = i + 1 + y
          BY <5>2, <5>3
        <5> QED BY <5>4 DEF u, v
      <4>9. /\ a[y].column = SubSeq(text, 1, j) /\ ~a[y].fin
            /\ a[y].quotes = s.quotes + 2 /\ a[y].in_quotes = s.in_quotes + 2
            /\ a[y].next = i + 1 + y
        <5>1. (r.in_quotes + 1) % 2 = 0
          BY <4>2, <4>8
        <5>2. Append(r.column, QuoteMark) = SubSeq(text, 1, j)
          BY <2>5, <3>2, <4>3
        <5> QED BY <4>7, <4>8, <5>1, <5>2
      <4>10. s.quotes + 2 \in Nat /\ s.in_quotes + 2 \in Nat
        BY <2>1
      <4>11. /\ a[y].quotes \in Nat /\ a[y].quotes % 2 = 1
             /\ a[y].in_quotes \in Nat /\ a[y].in_quotes % 2 = 0
        BY <4>2, <4>9, <4>10
      <4> HIDE DEF r
      <4> QED BY <4>9, <4>11 DEF y
    <3> QED BY <3>1, <3>2
  <2> QED BY <2>5, <2>8 DEF P
<1> HIDE DEF P
<1>13. m \in P
  <2>1. \A j \in 0 .. m : j \in P
    BY <1>1, <1>11, <1>12, Climb
  <2> QED BY <1>1, <2>1
<1> DEFINE z == e[m]  s == a[z]  r == a[z + 1]
\* The closing quote.
<1>14. /\ s.column = text /\ ~s.fin /\ s.quotes \in Nat /\ s.quotes % 2 = 1
       /\ s.in_quotes \in Nat /\ s.in_quotes % 2 = 0 /\ s.next = i + 1 + z
  BY <1>13, Prefixes DEF P, m
<1>15. z + 1 \in 1 .. n /\ (z + 1) - 1 = z /\ i + (z + 1) - 1 = i + z /\ i + (z + 2) - 1 = i + (z + 1)
       /\ z \in Nat
  <2>1. z \in Nat /\ z + 1 <= n /\ n \in Nat /\ i \in Nat
    BY <1>3, <1>4
  <2> HIDE DEF z
  <2>2. z + 1 \in 1 .. n
    BY <2>1
  <2> QED BY <2>1, <2>2, Steps
<1>16. marks[i + (z + 1)] = QuoteMark
  <2>1. z + 2 \in 1 .. e[m] + 2
    BY <1>15
  <2>2. marks[i + (z + 2) - 1] = q[z + 2]
    BY <1>3, <2>1
  <2> QED BY <1>2, <1>15, <2>2
<1>17. (IF z + 1 = 1 THEN NoMark ELSE marks[i + z]) # BackMark
  <2>1. m \in 0 .. m
    BY <1>1
  <2>2. (m = 0 => z = 0) /\ (m # 0 => z # 0 /\ m \in 1 .. m /\ marks[i + z] = text[m])
    BY <1>10, <2>1
  <2>3. m # 0 => text[m] # BackMark
    BY <2>2, EscapedIs DEF m
  <2> HIDE DEF z
  <2> QED BY <1>15, <2>2, <2>3, MarksDiffer
<1>18. s \in Scan(S) /\ r = L!Scanned(s, IF z + 1 = 1 THEN NoMark ELSE marks[i + z], QuoteMark)
  <2>1. /\ a[(z + 1) - 1] \in Scan(S)
        /\ r = L!Scanned(a[(z + 1) - 1], IF z + 1 = 1 THEN NoMark ELSE marks[i + (z + 1) - 1],
                         marks[i + (z + 1)])
    BY <1>8, <1>14, <1>15
  <2> HIDE DEF z
  <2> QED BY <1>15, <1>16, <2>1
<1> DEFINE before == IF z + 1 = 1 THEN NoMark ELSE marks[i + z]
<1>24. before # BackMark /\ s \in Scan(S) /\ r = L!Scanned(s, before, QuoteMark)
  BY <1>17, <1>18
<1> HIDE DEF z, s, r, before
<1>19. r = [column |-> IF (s.in_quotes + 1) % 2 = 0 THEN Append(s.column, QuoteMark) ELSE s.column,
            quotes |-> s.quotes + 1, in_quotes |-> s.in_quotes + 1, fin |-> FALSE,
            next |-> s.next + 1]
  BY <1>24, Quote
<1>20. /\ r.column = text /\ ~r.fin /\ r.quotes % 2 = 0 /\ r.next = i + z + 2
  <2>1. (s.in_quotes + 1) % 2 # 0 /\ (s.quotes + 1) % 2 = 0 /\ s.next + 1 = i + z + 2
    <3>1. i \in Nat
      BY <1>3
    <3> DEFINE u == s.in_quotes  v == s.quotes
    <3>2. u \in Nat /\ v \in Nat /\ u % 2 = 0 /\ v % 2 = 1 /\ z \in Nat
      BY <1>14, <1>15
    <3>3. s.next + 1 = i + 1 + z + 1
      BY <1>14
    <3> HIDE DEF u, v
    <3>4. (u + 1) % 2 # 0 /\ (v + 1) % 2 = 0 /\ i + 1 + z + 1 = i + z + 2
      BY <3>1, <3>2, Parity, Steps
    <3> QED BY <3>3, <3>4 DEF u, v
  <2> QED BY <1>14, <1>19, <2>1
<1>21. Len(q) = z + 2 /\ z \in Nat
  BY <1>2, <1>15 DEF z
<1>22. CASE i + z + 2 <= Len(marks)
  <2>1. /\ z + 2 \in 1 .. n /\ (z + 2) - 1 = z + 1 /\ z + 2 # 1 /\ i + (z + 2) - 1 = i + (z + 1)
        /\ i + (z + 2) = i + z + 2 /\ i + z + 2 + 1 = i + z + 3
    BY <1>1, <1>3, <1>4, <1>15, <1>22
  <2>2. marks[i + (z + 2)] = CommaMark
    <3>1. marks[i + z + 2] = CommaMark
      BY <1>3, <1>22 DEF z
    <3> QED BY <2>1, <3>1
  <2>3. /\ a[(z + 2) - 1] \in Scan(S)
        /\ a[z + 2] = L!Scanned(a[(z + 2) - 1], IF z + 2 = 1 THEN NoMark ELSE marks[i + (z + 2) - 1],
                                marks[i + (z + 2)])
    <3>1. ~a[(z + 2) - 1].fin
      BY <1>20, <2>1 DEF r
    <3> QED BY <1>8, <2>1, <3>1
  <2>4. r \in Scan(S) /\ a[z + 2] = L!Scanned(r, QuoteMark, CommaMark)
    BY <1>16, <2>1, <2>2, <2>3 DEF r
  <2>5. a[z + 2] = [column |-> r.column, quotes |-> r.quotes, in_quotes |-> r.in_quotes,
                    fin |-> TRUE, next |-> r.next + 1]
    BY <1>20, <2>4, Comma
  <2>6. a[z + 2].fin /\ a[z + 2].column = text /\ a[z + 2].next = i + z + 2 + 1
    BY <1>20, <2>5
  <2>7. a[n] = a[z + 2]
    <3>1. z + 2 \in 0 .. n
      BY <1>4, <2>1
    <3> QED BY <1>4, <2>6, <3>1, Ended DEF n
  <2>8. Behind(marks, i, Len(q)) = i + z + 2 + 1
    BY <1>21, <1>22, <2>1 DEF Behind
  <2> QED BY <1>7, <2>6, <2>7, <2>8 DEF q
<1>23. CASE ~(i + z + 2 <= Len(marks))
  <2>1. n = z + 1 /\ i + (z + 2) = i + z + 2
    BY <1>1, <1>3, <1>4, <1>15, <1>23
  <2>2. Behind(marks, i, Len(q)) = i + z + 2
    BY <1>21, <1>23, <2>1 DEF Behind
  <2>3. a[n].column = text /\ a[n].next = i + z + 2
    BY <1>20, <2>1 DEF r
  <2> QED BY <1>7, <2>2, <2>3 DEF q
<1> QED BY <1>22, <1>23

-----------------------------------------------------------------------------
(* A row of columns, and the line it is in.                                *)

PieceOf(w, sep, i) == IF i = 1 THEN w[i] ELSE <<sep>> \o w[i]

PiecesOf(w, sep, n) == [i \in 1 .. n |-> PieceOf(w, sep, i)]

\* A column, behind what parts it from the one before.
IsPiece(t, sep, v, i) ==
  /\ Len(v) \in Nat
  /\ i = 1 => t = v
  /\ i # 1 => /\ Len(t) = Len(v) + 1 /\ t[1] = sep
              /\ \A p \in 1 .. Len(v) : t[p + 1] = v[p]

LEMMA PieceIs ==
  ASSUME NEW S, NEW sep \in S, NEW n \in Nat, NEW w \in [1 .. n -> Seq(S)], NEW i \in 1 .. n
  PROVE  PieceOf(w, sep, i) \in Seq(S) /\ IsPiece(PieceOf(w, sep, i), sep, w[i], i)
<1> DEFINE u == <<sep>>  v == w[i]
<1>1. u \in Seq(S) /\ Len(u) = 1 /\ u[1] = sep /\ v \in Seq(S) /\ Len(v) \in Nat
  BY Short
<1> HIDE DEF u, v
<1>6. u \in Seq(S) /\ v \in Seq(S)
  BY <1>1
<1>2. /\ u \o v \in Seq(S) /\ Len(u \o v) = Len(u) + Len(v)
      /\ \A p \in 1 .. Len(u) : (u \o v)[p] = u[p]
      /\ \A p \in 1 .. Len(v) : (u \o v)[Len(u) + p] = v[p]
  BY <1>6, Joined
<1>3. /\ Len(u \o v) = Len(v) + 1 /\ (u \o v)[1] = sep
      /\ \A p \in 1 .. Len(v) : (u \o v)[p + 1] = v[p]
  <2>1. 1 \in 1 .. Len(u) /\ Len(u) + Len(v) = Len(v) + 1 /\ \A p \in 1 .. Len(v) : Len(u) + p = p + 1
    BY <1>1
  <2> QED BY <1>1, <1>2, <2>1
<1>4. CASE i = 1
  BY <1>1, <1>4 DEF PieceOf, IsPiece, v
<1>5. CASE i # 1
  <2>1. PieceOf(w, sep, i) = u \o v
    BY <1>5 DEF PieceOf, u, v
  <2> QED BY <1>1, <1>2, <1>3, <1>5, <2>1 DEF IsPiece, v
<1> QED BY <1>4, <1>5

LEMMA RowIs ==
  ASSUME NEW S, NEW sep \in S, NEW n \in Nat, NEW w \in [1 .. n -> Seq(S)]
  PROVE  /\ PiecesOf(w, sep, n) \in Seq(Seq(S)) /\ Len(PiecesOf(w, sep, n)) = n
         /\ L!Row(w, sep) = L!FlattenSeq(PiecesOf(w, sep, n))
         /\ L!Row(w, sep) \in Seq(S)
<1> DEFINE s == [i \in 1 .. n |-> PieceOf(w, sep, i)]
<1>1. s \in Seq(Seq(S)) /\ Len(s) = n
  <2>1. \A i \in 1 .. n : PieceOf(w, sep, i) \in Seq(S)
    BY PieceIs
  <2> QED BY <2>1
<1>2. L!Row(w, sep) = L!FlattenSeq(s)
  <2>1. DOMAIN w = 1 .. n
    OBVIOUS
  <2> QED BY <2>1 DEF L!Row, PieceOf
<1> HIDE DEF s
<1>3. Flattened(S, s, L!FlattenSeq(s))
  BY <1>1, FlattenAt
<1>4. L!FlattenSeq(s) \in Seq(S)
  BY <1>3 DEF Flattened
<1> QED BY <1>1, <1>2, <1>4 DEF s, PiecesOf

\* Each column of a row stands in its line, and the one behind it where a scan goes on.
Placed(line_, w, n, b) ==
  \A i \in 1 .. n : /\ Stands(line_, b[i], w[i])
                    /\ i < n => b[i + 1] = Behind(line_, b[i], Len(w[i]))

LEMMA RowAt ==
  ASSUME NEW S, CommaMark \in S, NEW n \in Nat \ {0}, NEW w \in [1 .. n -> Seq(S)],
         NEW head \in Seq(S)
  PROVE  \E b \in [1 .. n -> Nat \ {0}] :
           b[1] = Len(head) + 1 /\ Placed(head \o L!Row(w, CommaMark), w, n, b)
<1> DEFINE s == PiecesOf(w, CommaMark, n)
           row == L!Row(w, CommaMark)
           o == Len(head)
           marks == head \o row
<1>1. s \in Seq(Seq(S)) /\ Len(s) = n /\ row = L!FlattenSeq(s) /\ row \in Seq(S)
  <2>1. n \in Nat
    OBVIOUS
  <2> QED BY <2>1, RowIs
<1>2. ASSUME NEW i \in 1 .. n
      PROVE  /\ Len(w[i]) \in Nat
             /\ i = 1 => s[i] = w[i]
             /\ i # 1 => /\ Len(s[i]) = Len(w[i]) + 1 /\ s[i][1] = CommaMark
                         /\ \A p \in 1 .. Len(w[i]) : s[i][p + 1] = w[i][p]
  <2>1. s[i] = PieceOf(w, CommaMark, i)
    BY DEF PiecesOf
  <2>4. n \in Nat
    OBVIOUS
  <2> HIDE DEF s, row, o, marks
  <2>2. IsPiece(s[i], CommaMark, w[i], i)
    BY <2>1, <2>4, PieceIs
  <2> QED BY <2>2 DEF IsPiece
<1> HIDE DEF s, row
<1>3. PICK e \in Ends(S, s) :
        /\ Len(row) = e[n]
        /\ \A i \in 1 .. n : \A p \in 1 .. Len(s[i]) :
             e[i - 1] + p \in 1 .. e[n] /\ row[e[i - 1] + p] = s[i][p]
  <2>1. Flattened(S, s, row)
    BY <1>1, FlattenAt
  <2> QED BY <1>1, <2>1 DEF Flattened
<1>4. /\ e \in [0 .. n -> Nat] /\ e[0] = 0 /\ \A i \in 1 .. n : e[i] = e[i - 1] + Len(s[i])
  BY <1>1, <1>3 DEF Ends
<1>5. /\ o \in Nat /\ marks \in Seq(S) /\ Len(marks) = o + e[n]
      /\ \A p \in 1 .. e[n] : marks[o + p] = row[p]
  <2>1. /\ Len(head \o row) = Len(head) + Len(row) /\ head \o row \in Seq(S)
        /\ \A p \in 1 .. Len(row) : (head \o row)[Len(head) + p] = row[p]
    BY <1>1, Joined
  <2> QED BY <1>3, <2>1
<1> HIDE DEF o, marks
<1> DEFINE b == [i \in 1 .. n |-> IF i = 1 THEN o + 1 ELSE o + e[i - 1] + 2]
<1>6. b \in [1 .. n -> Nat \ {0}]
  <2>1. ASSUME NEW i \in 1 .. n PROVE b[i] \in Nat \ {0}
    <3>1. i - 1 \in 0 .. n
      OBVIOUS
    <3>2. e[i - 1] \in Nat
      BY <1>4, <3>1
    <3> DEFINE x == e[i - 1]
    <3> HIDE DEF x
    <3>3. o + x + 2 \in Nat \ {0} /\ o + 1 \in Nat \ {0}
      BY <1>5, <3>2 DEF x
    <3> QED BY <3>3 DEF x
  <2> QED BY <2>1
<1>7. b[1] = o + 1
  OBVIOUS
\* The last mark of a column and what is behind it.
<1>8. ASSUME NEW i \in 1 .. n
      PROVE  /\ e[i] \in Nat /\ e[i] <= e[n] /\ b[i] + Len(w[i]) = o + e[i] + 1
             /\ \A p \in 1 .. Len(w[i]) : marks[b[i] + p - 1] = w[i][p]
  <2>1. i \in 0 .. n /\ i - 1 \in 0 .. n /\ n \in 0 .. n
    OBVIOUS
  <2> DEFINE x == e[i - 1]  y == e[i]  z == e[n]  k == Len(w[i])  c == b[i]
  <2>2. x \in Nat /\ y \in Nat /\ z \in Nat /\ k \in Nat /\ y = x + Len(s[i])
    BY <1>2, <1>4, <2>1
  <2>3. \A p \in 1 .. Len(s[i]) : x + p \in 1 .. z /\ row[x + p] = s[i][p]
    BY <1>3
  <2>4. c = IF i = 1 THEN o + 1 ELSE o + x + 2
    OBVIOUS
  <2> HIDE DEF x, y, z, k, c
  <2>5. CASE i = 1
    <3>1. x = 0 /\ s[i] = w[i] /\ Len(s[i]) = k
      BY <1>2, <1>4, <2>5 DEF x, k
    <3>2. y = k /\ c = o + 1
      BY <2>2, <2>4, <2>5, <3>1
    <3>3. ASSUME NEW p \in 1 .. k PROVE marks[c + p - 1] = w[i][p] /\ p <= z
      <4>1. 0 + p \in 1 .. z /\ row[0 + p] = s[i][p]
        BY <2>3, <3>1
      <4>2. 0 + p = p /\ c + p - 1 = o + p
        BY <1>5, <2>2, <3>2
      <4>3. marks[o + p] = row[p]
        BY <1>5, <4>1, <4>2 DEF z
      <4> QED BY <2>2, <3>1, <4>1, <4>2, <4>3
    <3>4. y <= z
      <4>1. CASE k = 0
        BY <2>2, <3>2, <4>1
      <4>2. CASE k # 0
        <5>1. k \in 1 .. k
          BY <2>2, <4>2
        <5> QED BY <3>2, <3>3, <5>1
      <4> QED BY <4>1, <4>2
    <3>5. c + k = o + y + 1
      <4>1. o \in Nat /\ x \in Nat /\ y \in Nat /\ k \in Nat
        BY <1>5, <2>2
      <4> HIDE DEF b
      <4> QED BY <3>2, <4>1
    <3> QED BY <2>2, <3>3, <3>4, <3>5 DEF y, z, k, c
  <2>6. CASE i # 1
    <3>1. Len(s[i]) = k + 1 /\ \A p \in 1 .. k : s[i][p + 1] = w[i][p]
      BY <1>2, <2>6 DEF k
    <3>2. y = x + k + 1 /\ c = o + x + 2
      BY <2>2, <2>4, <2>6, <3>1
    <3>3. ASSUME NEW p \in 1 .. k PROVE marks[c + p - 1] = w[i][p]
      <4>1. p + 1 \in 1 .. Len(s[i]) /\ p \in Nat
        BY <2>2, <3>1
      <4>2. x + (p + 1) \in 1 .. z /\ row[x + (p + 1)] = s[i][p + 1]
        BY <2>3, <4>1
      <4>3. c + p - 1 = o + (x + (p + 1))
        BY <1>5, <2>2, <3>2, <4>1
      <4>4. marks[o + (x + (p + 1))] = row[x + (p + 1)]
        BY <1>5, <4>2 DEF z
      <4> QED BY <3>1, <4>2, <4>3, <4>4
    <3>4. y <= z
      <4>1. k + 1 \in 1 .. Len(s[i])
        BY <2>2, <3>1
      <4>2. x + (k + 1) \in 1 .. z
        BY <2>3, <4>1
      <4> QED BY <2>2, <3>2, <4>2
    <3>5. c + k = o + y + 1
      <4>1. o \in Nat /\ x \in Nat /\ y \in Nat /\ k \in Nat
        BY <1>5, <2>2
      <4> HIDE DEF b
      <4> QED BY <3>2, <4>1
    <3> QED BY <2>2, <3>3, <3>4, <3>5 DEF y, z, k, c
  <2> QED BY <2>5, <2>6
<1>9. ASSUME NEW i \in 1 .. n, i < n
      PROVE  /\ o + e[i] + 1 <= Len(marks) /\ marks[o + e[i] + 1] = CommaMark
             /\ b[i + 1] = o + e[i] + 2
  <2>1. i + 1 \in 1 .. n /\ i + 1 # 1 /\ (i + 1) - 1 = i /\ i \in 0 .. n /\ n \in 0 .. n
    BY <1>9
  <2>2. e[i] \in Nat /\ e[n] \in Nat
    BY <1>4, <2>1
  <2>3. Len(s[i + 1]) = Len(w[i + 1]) + 1 /\ s[i + 1][1] = CommaMark /\ Len(w[i + 1]) \in Nat
    BY <1>2, <2>1
  <2>4. 1 \in 1 .. Len(s[i + 1])
    BY <2>3
  <2>5. e[(i + 1) - 1] + 1 \in 1 .. e[n] /\ row[e[(i + 1) - 1] + 1] = s[i + 1][1]
    BY <1>3, <2>1, <2>4
  <2> DEFINE x == e[i]  z == e[n]
  <2>6. x + 1 \in 1 .. z /\ row[x + 1] = CommaMark
    BY <2>1, <2>3, <2>5
  <2>7. b[i + 1] = o + x + 2
    BY <2>1
  <2>8. marks[o + (x + 1)] = row[x + 1]
    BY <1>5, <2>6
  <2>9. x \in Nat /\ z \in Nat /\ Len(marks) = o + z
    BY <1>5, <2>2
  <2> HIDE DEF x, z
  <2>10. o + x + 1 = o + (x + 1) /\ o + x + 1 <= Len(marks)
    BY <1>5, <2>6, <2>9
  <2> QED BY <2>6, <2>7, <2>8, <2>10 DEF x
<1> HIDE DEF b
<1>10. ASSUME NEW i \in 1 .. n
       PROVE  /\ Stands(marks, b[i], w[i])
              /\ i < n => b[i + 1] = Behind(marks, b[i], Len(w[i]))
  <2> DEFINE y == e[i]  z == e[n]  k == Len(w[i])  c == b[i]
  <2>1. /\ y \in Nat /\ y <= z /\ c + k = o + y + 1 /\ k \in Nat /\ c \in Nat \ {0}
        /\ \A p \in 1 .. k : marks[c + p - 1] = w[i][p] /\ Len(marks) = o + z /\ z \in Nat
        /\ Len(marks) = o + z /\ o \in Nat /\ z \in Nat
    <3>1. n \in 1 .. n
      OBVIOUS
    <3> QED BY <1>2, <1>5, <1>6, <1>8, <3>1
  <2>2. i < n => /\ o + y + 1 <= Len(marks) /\ marks[o + y + 1] = CommaMark
                 /\ b[i + 1] = o + y + 2
    BY <1>9
  <2>3. ~(i < n) => y = z
    BY DEF y, z
  <2> HIDE DEF y, z, k, c
  <2>4. c + k <= Len(marks) + 1 /\ (c + k <= Len(marks) => i < n)
    BY <2>1, <2>3
  <2>5. c + k <= Len(marks) => marks[c + k] = CommaMark
    BY <2>1, <2>2, <2>4
  <2>6. Stands(marks, c, w[i])
    BY <2>1, <2>4, <2>5 DEF Stands, k
  <2>8. o \in Nat /\ y \in Nat /\ k \in Nat /\ c \in Nat /\ c + k = o + y + 1
    BY <2>1
  <2>9. o + y + 2 = c + k + 1
    BY <2>8
  <2>7. i < n => b[i + 1] = c + k + 1 /\ c + k <= Len(marks)
    BY <2>2, <2>8, <2>9
  <2> QED BY <2>6, <2>7 DEF Behind, c, k
<1> QED BY <1>6, <1>7, <1>10 DEF Placed, marks, row, o

-----------------------------------------------------------------------------
(* The columns of a line, one behind the other.                            *)

\* The fields of a line, each from where the one before it ended.
Fields(S, marks) == [column : Seq(S), next : 1 .. Len(marks) + 1]
Splits(S, marks, count) ==
  {f \in [0 .. count -> Fields(S, marks)] :
     /\ f[0].next = 1
     /\ \A k \in 1 .. count : f[k] = L!GetNextField(marks, f[k - 1].next)}

LEMMA SplitExists ==
  ASSUME NEW S, NEW marks \in Seq(S), NEW count \in Nat
  PROVE  Splits(S, marks, count) # {}
<1> DEFINE s == [column |-> <<>>, next |-> 1]
           step == [f \in Fields(S, marks) |-> L!GetNextField(marks, f.next)]
           g == [k \in 1 .. count |-> step]
<1>1. s \in Fields(S, marks)
  <2>1. Len(marks) \in Nat /\ <<>> \in Seq(S)
    OBVIOUS
  <2>2. 1 \in 1 .. Len(marks) + 1
    BY <2>1
  <2> QED BY <2>1, <2>2 DEF Fields
<1>2. ASSUME NEW f \in Fields(S, marks) PROVE L!GetNextField(marks, f.next) \in Fields(S, marks)
  <2>1. f.next \in 1 .. Len(marks) + 1
    BY DEF Fields
  <2> DEFINE r == L!GetNextField(marks, f.next)
  <2>2. r \in [column : Seq(S), next : Nat] /\ r.next \in 1 .. Len(marks) + 1
    BY <2>1, NextIs
  <2> HIDE DEF r
  <2>3. r \in Fields(S, marks)
    BY <2>2 DEF Fields
  <2> QED BY <2>3 DEF r
<1>3. step \in [Fields(S, marks) -> Fields(S, marks)]
  BY <1>2
<1>4. \A f \in Fields(S, marks) : step[f] = L!GetNextField(marks, f.next)
  OBVIOUS
<1> HIDE DEF step, s
<1>5. AreSteps(count, Fields(S, marks), g)
  BY <1>3 DEF AreSteps
<1>6. Chain(count, Fields(S, marks), g, s) # {}
  <2> HIDE DEF g
  <2> QED BY <1>1, <1>5, Iterate
<1>7. PICK f \in [0 .. count -> Fields(S, marks)] :
        f[0] = s /\ \A k \in 1 .. count : f[k] = g[k][f[k - 1]]
  BY <1>6 DEF Chain
<1>8. ASSUME NEW k \in 1 .. count PROVE f[k] = L!GetNextField(marks, f[k - 1].next)
  <2>1. k - 1 \in 0 .. count /\ g[k] = step
    OBVIOUS
  <2>2. f[k - 1] \in Fields(S, marks) /\ f[k] = step[f[k - 1]]
    BY <1>7, <2>1
  <2> QED BY <1>4, <2>2
<1>9. f[0].next = 1
  BY <1>7 DEF s
<1> QED BY <1>7, <1>8, <1>9 DEF Splits

LEMMA ColumnsAre ==
  ASSUME NEW S, NEW marks, NEW count \in Nat, NEW f \in Splits(S, marks, count)
  PROVE  L!ColumnsOf(marks, count) = [k \in 1 .. count |-> f[k].column]
<1> DEFINE After(h) == [k \in 1 .. count |-> L!GetNextField(marks, IF k = 1 THEN 1 ELSE h[k - 1].next)]
           R(h) == h = After(h)
           c == CHOOSE h : R(h)
           a == [k \in 1 .. count |-> f[k]]
<1>1. L!ColumnsOf(marks, count) = [k \in 1 .. count |-> c[k].column]
  BY DEF L!ColumnsOf
<1>2. /\ f[0].next = 1
      /\ \A k \in 1 .. count : f[k] = L!GetNextField(marks, f[k - 1].next)
  BY DEF Splits
<1>3. ASSUME NEW k \in 1 .. count
      PROVE  a[k] = L!GetNextField(marks, IF k = 1 THEN 1 ELSE a[k - 1].next)
  <2>1. a[k] = L!GetNextField(marks, f[k - 1].next)
    BY <1>2
  <2>2. CASE k = 1
    BY <1>2, <2>1, <2>2
  <2>3. CASE k # 1
    <3>1. k - 1 \in 1 .. count
      BY <2>3
    <3>2. a[k - 1] = f[k - 1]
      BY <3>1
    <3> HIDE DEF a
    <3> QED BY <2>1, <2>3, <3>2
  <2> QED BY <2>2, <2>3
<1>4. R(a)
  <2>1. a = [k \in 1 .. count |-> a[k]]
    OBVIOUS
  <2> HIDE DEF a
  <2> QED BY <1>3, <2>1
<1> HIDE DEF R
<1>5. R(c)
  <2> HIDE DEF a
  <2> QED BY <1>4
<1>6. \A k \in 1 .. count : c[k] = L!GetNextField(marks, IF k = 1 THEN 1 ELSE c[k - 1].next)
  <2> HIDE DEF c
  <2>1. c = After(c)
    BY <1>5 DEF R
  <2> QED BY <2>1
<1> HIDE DEF c, After, a
<1> DEFINE P == {k \in 0 .. count : k # 0 => c[k] = a[k]}
<1>7. 0 \in P
  OBVIOUS
<1>8. ASSUME NEW k \in 1 .. count, k - 1 \in P PROVE k \in P
  <2>1. c[k] = L!GetNextField(marks, IF k = 1 THEN 1 ELSE c[k - 1].next)
        /\ a[k] = L!GetNextField(marks, IF k = 1 THEN 1 ELSE a[k - 1].next)
    BY <1>3, <1>6
  <2>2. k # 1 => c[k - 1] = a[k - 1]
    <3>1. k # 1 => k - 1 # 0
      OBVIOUS
    <3> QED BY <1>8, <3>1
  <2>3. c[k] = a[k] /\ k \in 0 .. count
    <3>1. k \in 0 .. count
      OBVIOUS
    <3>2. CASE k = 1
      BY <2>1, <3>1, <3>2
    <3>3. CASE k # 1
      BY <2>1, <2>2, <3>1, <3>3
    <3> QED BY <3>2, <3>3
  <2> QED BY <2>3
<1> HIDE DEF P
<1>9. \A k \in 0 .. count : k \in P
  BY <1>7, <1>8, Climb
<1>10. \A k \in 1 .. count : c[k] = f[k]
  <2> SUFFICES ASSUME NEW k \in 1 .. count PROVE c[k] = f[k]
    OBVIOUS
  <2>1. k \in 0 .. count /\ k # 0
    OBVIOUS
  <2> QED BY <1>9, <2>1 DEF P, a
<1> QED BY <1>1, <1>10

\* Each column is read as it was meant, and the one behind it is where the next begins.
Follows(marks, n, b, col) ==
  /\ b[1] = 1
  /\ \A i \in 1 .. n :
       /\ L!GetNextField(marks, b[i]).column = col[i]
       /\ i < n => L!GetNextField(marks, b[i]).next = b[i + 1]

\* Columns that stand one behind the other come out, when each is read as it was meant.
LEMMA SplitsAs ==
  ASSUME NEW S, NEW marks \in Seq(S), NEW n \in Nat \ {0}, NEW b, NEW col,
         Follows(marks, n, b, col)
  PROVE  L!ColumnsOf(marks, n) = [i \in 1 .. n |-> col[i]]
<1>1. PICK f \in Splits(S, marks, n) : TRUE
  <2>1. n \in Nat
    OBVIOUS
  <2> QED BY <2>1, SplitExists
<1>2. f[0].next = 1 /\ \A k \in 1 .. n : f[k] = L!GetNextField(marks, f[k - 1].next)
  BY DEF Splits
<1>9. /\ b[1] = 1
      /\ \A k \in 1 .. n : L!GetNextField(marks, b[k]).column = col[k]
      /\ \A k \in 1 .. n : k < n => L!GetNextField(marks, b[k]).next = b[k + 1]
  <2>1. b[1] = 1
    BY DEF Follows
  <2>2. \A k \in 1 .. n : L!GetNextField(marks, b[k]).column = col[k]
    BY DEF Follows
  <2>3. ASSUME NEW k \in 1 .. n, k < n PROVE L!GetNextField(marks, b[k]).next = b[k + 1]
    BY <2>3 DEF Follows
  <2> QED BY <2>1, <2>2, <2>3
<1>8. n \in Nat
  OBVIOUS
<1> DEFINE P == {k \in 0 .. n : k < n => f[k].next = b[k + 1]}
<1>3. 0 \in P
  <2>1. 0 \in 0 .. n /\ 0 + 1 = 1
    BY <1>8
  <2>2. f[0].next = b[0 + 1]
    BY <1>2, <1>9, <2>1
  <2> QED BY <2>1, <2>2
<1>4. ASSUME NEW k \in 1 .. n, k - 1 \in P PROVE k \in P
  <2>1. k \in 0 .. n /\ k - 1 < n /\ (k - 1) + 1 = k
    BY <1>8
  <2>2. f[k - 1].next = b[k]
    <3>1. f[k - 1].next = b[(k - 1) + 1]
      BY <1>4, <2>1
    <3> QED BY <2>1, <3>1
  <2>4. f[k] = L!GetNextField(marks, f[k - 1].next)
    BY <1>2
  <2>5. k < n => L!GetNextField(marks, b[k]).next = b[k + 1]
    BY <1>9
  <2>3. k < n => f[k].next = b[k + 1]
    BY <2>2, <2>4, <2>5
  <2> QED BY <2>1, <2>3
<1> HIDE DEF P
<1>5. \A k \in 0 .. n : k \in P
  <2>1. n \in Nat
    OBVIOUS
  <2> QED BY <1>3, <1>4, <2>1, Climb
<1>6. ASSUME NEW k \in 1 .. n PROVE f[k].column = col[k]
  <2>1. k - 1 \in 0 .. n /\ k - 1 < n /\ (k - 1) + 1 = k
    OBVIOUS
  <2>2. f[k - 1].next = b[k]
    BY <1>5, <2>1 DEF P
  <2>3. f[k] = L!GetNextField(marks, f[k - 1].next)
    BY <1>2
  <2>4. L!GetNextField(marks, b[k]).column = col[k]
    BY <1>9
  <2> QED BY <2>2, <2>3, <2>4
<1>7. L!ColumnsOf(marks, n) = [k \in 1 .. n |-> f[k].column]
  <2>1. n \in Nat
    OBVIOUS
  <2> QED BY <2>1, ColumnsAre
<1> QED BY <1>6, <1>7

-----------------------------------------------------------------------------
(* What a line that was logged comes to.                                   *)

\* The line of a record: t and d are what -T and -d say.
LineOf(t, d, fields, record, now) ==
  (IF t THEN <<Digits[now], CommaMark>> ELSE <<>>) \o L!Row(L!Columns(fields, record), d)

LEMMA LogLineIs ==
  \A fields, record, now : L!LogLine(fields, record, now) = LineOf(time, delimiter, fields, record, now)
BY DEF L!LogLine, LineOf, CommaMark

LEMMA MarksAre ==
  ASSUME L!MarksTyped
  PROVE  /\ QuoteMark \in L!Mark /\ CommaMark \in L!Mark /\ Delimiters \subseteq L!Mark
         /\ DOMAIN Digits = 1 .. Len(Digits) /\ Len(Digits) \in Nat \ {0}
         /\ \A n \in DOMAIN Digits : Digits[n] \in L!Mark /\ Digits[n] # QuoteMark /\ Digits[n] # CommaMark
         /\ L!Last(Digits) = Digits[Len(Digits)]
         /\ \A text \in Texts : text \in Seq(L!Mark)
<1>1. Digits \in Seq(L!Mark) /\ Digits # <<>>
  BY DEF L!MarksTyped
<1>2. QuoteMark \in L!Mark /\ CommaMark \in L!Mark /\ Delimiters \subseteq L!Mark
  BY DEF L!Mark, QuoteMark, CommaMark
<1>3. DOMAIN Digits = 1 .. Len(Digits) /\ Len(Digits) \in Nat
  BY <1>1
<1>4. Len(Digits) # 0
  BY <1>1, EmptySeq
<1>5. \A n \in DOMAIN Digits : Digits[n] \in L!Mark
  BY <1>1, <1>3, ElementOfSeq
<1>6. \A n \in DOMAIN Digits : Digits[n] # QuoteMark /\ Digits[n] # CommaMark
  BY DEF L!MarksTyped, QuoteMark, CommaMark
<1>7. L!Last(Digits) = Digits[Len(Digits)]
  BY DEF L!Last
<1>8. \A text \in Texts : text \in Seq(L!Mark)
  BY DEF L!MarksTyped
<1> QED BY <1>2, <1>3, <1>4, <1>5, <1>6, <1>7, <1>8

\* A column is a number or a quoted text.
NumberColumn(v, w) == \E d \in DOMAIN Digits : v = <<Digits[d]>> /\ w = v
TextColumn(v, w) == v \in Texts /\ w = L!Quoted(v)

LEMMA ColumnOf ==
  ASSUME L!MarksTyped, NEW fields \in LogFormats, NEW record \in L!Values(fields)
  PROVE  /\ Len(fields) \in Nat \ {0} /\ DOMAIN fields = 1 .. Len(fields)
         /\ DOMAIN record = 1 .. Len(fields)
         /\ L!Columns(fields, record) \in [1 .. Len(fields) -> Seq(L!Mark)]
         /\ \A i \in 1 .. Len(fields) :
              /\ record[i] \in Seq(L!Mark)
              /\ fields[i].dynamic => TextColumn(record[i], L!Columns(fields, record)[i])
              /\ ~fields[i].dynamic => NumberColumn(record[i], L!Columns(fields, record)[i])
<1> DEFINE n == Len(fields)  w == L!Columns(fields, record)
<1>1. /\ fields \in Seq([name : STRING, dynamic : BOOLEAN]) /\ fields # <<>>
  BY DEF L!MarksTyped
<1>2. n \in Nat /\ DOMAIN fields = 1 .. n
  BY <1>1
<1>3. n # 0
  BY <1>1, EmptySeq
<1>4. \A i \in 1 .. n : fields[i].dynamic \in BOOLEAN
  <2>1. \A i \in 1 .. n : fields[i] \in [name : STRING, dynamic : BOOLEAN]
    BY <1>1, ElementOfSeq
  <2> QED BY <2>1
<1>5. /\ DOMAIN record = 1 .. n
      /\ \A i \in 1 .. n : record[i] \in Texts \cup {<<L!Last(Digits)>>}
                           /\ fields[i].dynamic = (record[i] \in Texts)
  BY <1>2 DEF L!Values
<1>6. w = [i \in 1 .. n |-> IF fields[i].dynamic THEN L!Quoted(record[i]) ELSE record[i]]
  BY <1>2 DEF L!Columns
<1> HIDE DEF n, w
<1>7. ASSUME NEW i \in 1 .. n
      PROVE  /\ record[i] \in Seq(L!Mark) /\ w[i] \in Seq(L!Mark)
             /\ fields[i].dynamic => TextColumn(record[i], w[i])
             /\ ~fields[i].dynamic => NumberColumn(record[i], w[i])
  <2> DEFINE v == record[i]
  <2>1. w[i] = IF fields[i].dynamic THEN L!Quoted(v) ELSE v
    BY <1>6
  <2>2. v \in Texts \cup {<<L!Last(Digits)>>} /\ fields[i].dynamic = (v \in Texts)
    BY <1>5
  <2> HIDE DEF v
  <2>3. CASE fields[i].dynamic
    <3>1. v \in Texts /\ w[i] = L!Quoted(v)
      BY <2>1, <2>2, <2>3
    <3>2. v \in Seq(L!Mark) /\ QuoteMark \in L!Mark
      BY <3>1, MarksAre
    <3>3. L!Quoted(v) \in Seq(L!Mark)
      BY <3>2, QuotedAt
    <3> QED BY <2>3, <3>1, <3>2, <3>3 DEF TextColumn, v
  <2>4. CASE ~fields[i].dynamic
    <3>1. v = <<L!Last(Digits)>> /\ w[i] = v
      BY <1>4, <2>1, <2>2, <2>4
    <3>2. L!Last(Digits) = Digits[Len(Digits)] /\ Len(Digits) \in DOMAIN Digits
      BY MarksAre
    <3>3. v = <<Digits[Len(Digits)]>> /\ Digits[Len(Digits)] \in L!Mark
      BY <3>1, <3>2, MarksAre
    <3>4. NumberColumn(v, w[i])
      BY <3>1, <3>2, <3>3 DEF NumberColumn
    <3>5. v \in Seq(L!Mark)
      BY <3>3
    <3> QED BY <2>4, <3>1, <3>4, <3>5 DEF v
  <2> QED BY <2>3, <2>4
<1>8. w \in [1 .. n -> Seq(L!Mark)]
  <2>1. \A i \in 1 .. n : w[i] \in Seq(L!Mark)
    BY <1>7
  <2> QED BY <1>6, <2>1
<1> QED BY <1>2, <1>3, <1>5, <1>7, <1>8 DEF n, w

\* What a column is read as: a text has no backslash before a quote.
ReadableAs(v, w) == NumberColumn(v, w) \/ (TextColumn(v, w) /\ ~L!Escaped(v))

\* A column that stands in a line is read as what it is the column of.
LEMMA ReadAs ==
  ASSUME L!MarksTyped, NEW marks \in Seq(L!Mark), NEW j, NEW v \in Seq(L!Mark), NEW w,
         Stands(marks, j, w), ReadableAs(v, w)
  PROVE  L!GetNextField(marks, j) = [column |-> v, next |-> Behind(marks, j, Len(w))]
<1>1. CASE NumberColumn(v, w)
  <2>1. PICK d \in DOMAIN Digits : v = <<Digits[d]>> /\ w = v
    BY <1>1 DEF NumberColumn
  <2> DEFINE ch == Digits[d]
  <2>2. ch \in L!Mark /\ ch # QuoteMark /\ ch # CommaMark
    BY MarksAre
  <2> HIDE DEF ch
  <2>3. Len(w) = 1 /\ w[1] = ch
    BY <2>1, <2>2, Short DEF ch
  <2>4. /\ j \in Nat \ {0} /\ j + 1 <= Len(marks) + 1 /\ marks[j + 1 - 1] = w[1]
        /\ j + 1 <= Len(marks) => marks[j + 1] = CommaMark
    <3>1. 1 \in 1 .. Len(w)
      BY <2>3
    <3> QED BY <2>3, <3>1 DEF Stands
  <2>5. j \in 1 .. Len(marks) /\ marks[j] = ch
    <3>1. Len(marks) \in Nat /\ j + 1 - 1 = j
      BY <2>4
    <3> QED BY <2>3, <2>4, <3>1
  <2>6. L!GetNextField(marks, j) = [column |-> <<marks[j]>>, next |-> Behind(marks, j, 1)]
    BY <2>2, <2>4, <2>5, StaticColumn
  <2> QED BY <2>1, <2>3, <2>5, <2>6 DEF ch
<1>2. CASE TextColumn(v, w) /\ ~L!Escaped(v)
  <2>1. w = L!Quoted(v)
    BY <1>2 DEF TextColumn
  <2>2. QuoteMark \in L!Mark /\ CommaMark \in L!Mark /\ Stands(marks, j, L!Quoted(v)) /\ ~L!Escaped(v)
    BY <1>2, <2>1, MarksAre
  <2>3. L!GetNextField(marks, j) = [column |-> v, next |-> Behind(marks, j, Len(L!Quoted(v)))]
    BY <2>2, DynamicColumn
  <2> QED BY <2>1, <2>3
<1> QED BY <1>1, <1>2 DEF ReadableAs

HeadOf(t, now) == IF t THEN <<Digits[now], CommaMark>> ELSE <<>>

LEMMA HeadIs ==
  ASSUME L!MarksTyped, NEW t \in BOOLEAN, NEW now \in DOMAIN Digits
  PROVE  /\ HeadOf(t, now) \in Seq(L!Mark)
         /\ t => /\ Len(HeadOf(t, now)) = 2 /\ HeadOf(t, now)[1] = Digits[now]
                 /\ HeadOf(t, now)[2] = CommaMark
         /\ ~t => Len(HeadOf(t, now)) = 0
<1>1. Digits[now] \in L!Mark /\ CommaMark \in L!Mark
  BY MarksAre
<1>2. CASE t
  BY <1>1, <1>2, Short DEF HeadOf
<1>3. CASE ~t
  <2>1. HeadOf(t, now) = <<>>
    BY <1>3 DEF HeadOf
  <2> QED BY <1>3, <2>1
<1> QED BY <1>2, <1>3

LEMMA LineIs ==
  ASSUME L!MarksTyped, NEW t \in BOOLEAN, NEW d \in Delimiters, NEW fields \in LogFormats,
         NEW record \in L!Values(fields), NEW now \in DOMAIN Digits
  PROVE  /\ LineOf(t, d, fields, record, now) = HeadOf(t, now) \o L!Row(L!Columns(fields, record), d)
         /\ LineOf(t, d, fields, record, now) \in Seq(L!Mark)
         /\ Len(HeadOf(t, now)) <= Len(LineOf(t, d, fields, record, now))
         /\ \A p \in 1 .. Len(HeadOf(t, now)) :
              LineOf(t, d, fields, record, now)[p] = HeadOf(t, now)[p]
<1> DEFINE w == L!Columns(fields, record)  n == Len(fields)  u == HeadOf(t, now)  v == L!Row(w, d)
<1>1. w \in [1 .. n -> Seq(L!Mark)] /\ n \in Nat /\ d \in L!Mark
  <2>1. w \in [1 .. n -> Seq(L!Mark)] /\ n \in Nat
    BY ColumnOf
  <2>2. d \in L!Mark
    BY MarksAre
  <2> QED BY <2>1, <2>2
<1>2. LineOf(t, d, fields, record, now) = u \o v
  BY DEF LineOf, HeadOf
<1> HIDE DEF w, n
<1>3. v \in Seq(L!Mark)
  BY <1>1, RowIs
<1>4. u \in Seq(L!Mark)
  BY HeadIs
<1> HIDE DEF u, v
<1>5. /\ u \o v \in Seq(L!Mark) /\ Len(u \o v) = Len(u) + Len(v)
      /\ \A p \in 1 .. Len(u) : (u \o v)[p] = u[p]
  BY <1>3, <1>4, Joined
<1>6. Len(u) <= Len(u \o v)
  <2>1. Len(u) \in Nat /\ Len(v) \in Nat
    BY <1>3, <1>4
  <2> QED BY <1>5, <2>1
<1>7. LineOf(t, d, fields, record, now) = HeadOf(t, now) \o L!Row(L!Columns(fields, record), d)
  BY <1>2 DEF u, v, w
<1> QED BY <1>2, <1>5, <1>6, <1>7 DEF u

\* The time is the first column, whatever follows.
LEMMA TimeColumn ==
  ASSUME L!MarksTyped, NEW d \in Delimiters, NEW fields \in LogFormats,
         NEW record \in L!Values(fields), NEW now \in DOMAIN Digits
  PROVE  L!GetNextField(LineOf(TRUE, d, fields, record, now), 1)
           = [column |-> <<Digits[now]>>, next |-> 3]
<1> DEFINE marks == LineOf(TRUE, d, fields, record, now)  u == HeadOf(TRUE, now)
<1>1. /\ marks \in Seq(L!Mark) /\ Len(u) <= Len(marks)
      /\ \A p \in 1 .. Len(u) : marks[p] = u[p]
  BY LineIs
<1>2. Len(u) = 2 /\ u[1] = Digits[now] /\ u[2] = CommaMark
  BY HeadIs
<1> HIDE DEF marks, u
<1>3. 1 \in 1 .. Len(u) /\ 2 \in 1 .. Len(u) /\ Len(marks) \in Nat
  BY <1>1, <1>2
<1>4. marks[1] = Digits[now] /\ marks[2] = CommaMark /\ 1 \in 1 .. Len(marks) /\ 2 <= Len(marks)
  BY <1>1, <1>2, <1>3
<1>5. Digits[now] # QuoteMark /\ Digits[now] # CommaMark
  BY MarksAre
<1>6. marks[1] \notin {QuoteMark, CommaMark} /\ (1 + 1 <= Len(marks) => marks[1 + 1] = CommaMark)
  <2>1. 1 + 1 = 2
    OBVIOUS
  <2> QED BY <1>4, <1>5, <2>1
<1>7. L!GetNextField(marks, 1) = [column |-> <<marks[1]>>, next |-> Behind(marks, 1, 1)]
  BY <1>1, <1>4, <1>6, StaticColumn
<1>8. Behind(marks, 1, 1) = 3
  BY <1>4 DEF Behind
<1> QED BY <1>4, <1>7, <1>8 DEF marks

PlainTexts(fields, record) ==
  \A i \in 1 .. Len(fields) : fields[i].dynamic => ~L!Escaped(record[i])

\* The record comes out of its line, behind the time if there is one.
LEMMA PlainColumns ==
  ASSUME L!MarksTyped, CommaMark \in Delimiters, NEW t \in BOOLEAN, NEW fields \in LogFormats,
         NEW record \in L!Values(fields), NEW now \in DOMAIN Digits,
         PlainTexts(fields, record), NEW skip, skip = IF t THEN 1 ELSE 0
  PROVE  \A i \in 1 .. Len(fields) :
           L!ColumnsOf(LineOf(t, CommaMark, fields, record, now), Len(fields) + skip)[i + skip]
             = record[i]
<1> DEFINE marks == LineOf(t, CommaMark, fields, record, now)  u == HeadOf(t, now)
           n == Len(fields)  w == L!Columns(fields, record)
<1>1. /\ n \in Nat \ {0} /\ w \in [1 .. n -> Seq(L!Mark)]
      /\ \A i \in 1 .. n :
           /\ record[i] \in Seq(L!Mark)
           /\ fields[i].dynamic => TextColumn(record[i], w[i])
           /\ ~fields[i].dynamic => NumberColumn(record[i], w[i])
  BY ColumnOf
<1>2. marks = u \o L!Row(w, CommaMark) /\ marks \in Seq(L!Mark)
  BY LineIs
<1>3. u \in Seq(L!Mark) /\ (t => Len(u) = 2) /\ (~t => Len(u) = 0)
  BY HeadIs
<1>4. CommaMark \in L!Mark /\ \A i \in 1 .. n : fields[i].dynamic => ~L!Escaped(record[i])
  BY MarksAre DEF PlainTexts
<1>5. t => L!GetNextField(marks, 1) = [column |-> <<Digits[now]>>, next |-> 3]
  BY TimeColumn
<1> HIDE DEF marks, u, n, w
<1>10. marks \in Seq(L!Mark) /\ n \in Nat \ {0}
  BY <1>1, <1>2
<1>6. PICK b \in [1 .. n -> Nat \ {0}] : b[1] = Len(u) + 1 /\ Placed(marks, w, n, b)
  BY <1>1, <1>2, <1>3, <1>4, RowAt
<1>7. ASSUME NEW i \in 1 .. n
      PROVE  /\ L!GetNextField(marks, b[i]).column = record[i]
             /\ i < n => L!GetNextField(marks, b[i]).next = b[i + 1]
  <2> DEFINE j == b[i]  v == record[i]  c == w[i]
  <2>1. Stands(marks, j, c) /\ (i < n => b[i + 1] = Behind(marks, j, Len(c)))
    BY <1>6 DEF Placed
  <2>2. v \in Seq(L!Mark) /\ ReadableAs(v, c)
    BY <1>1, <1>4 DEF ReadableAs
  <2> HIDE DEF j, v, c
  <2>3. L!GetNextField(marks, j) = [column |-> v, next |-> Behind(marks, j, Len(c))]
    BY <1>10, <2>1, <2>2, ReadAs
  <2>4. /\ L!GetNextField(marks, j).column = v
        /\ i < n => L!GetNextField(marks, j).next = b[i + 1]
    BY <2>1, <2>3
  <2> QED BY <2>4 DEF j, v
<1>8. CASE ~t
  <2>1. b[1] = 1 /\ skip = 0 /\ n + 0 = n /\ \A i \in 1 .. n : i + 0 = i
    BY <1>1, <1>3, <1>6, <1>8
  <2>3. Follows(marks, n, b, record)
    BY <1>7, <2>1 DEF Follows
  <2>2. L!ColumnsOf(marks, n) = [i \in 1 .. n |-> record[i]]
    BY <1>10, <2>3, SplitsAs
  <2> QED BY <2>1, <2>2 DEF marks, n
<1>9. CASE t
  <2> DEFINE m == n + 1
             c == [k \in 1 .. m |-> IF k = 1 THEN 1 ELSE b[k - 1]]
             col == [k \in 1 .. m |-> IF k = 1 THEN <<Digits[now]>> ELSE record[k - 1]]
  <2>5. n \in Nat /\ Len(u) + 1 = 3
    <3>1. Len(u) = 2
      BY <1>3, <1>9
    <3> QED BY <1>10, <3>1
  <2>6. m \in Nat \ {0} /\ 1 \in 1 .. m
    BY <2>5
  <2>1. b[1] = 3 /\ m \in Nat \ {0} /\ c[1] = 1 /\ skip = 1
    <3>1. c[1] = 1
      BY <2>6
    <3> HIDE DEF m, c
    <3> QED BY <1>6, <1>9, <2>5, <2>6, <3>1
  <2>2. ASSUME NEW k \in 1 .. m
        PROVE  /\ L!GetNextField(marks, c[k]).column = col[k]
               /\ k < m => L!GetNextField(marks, c[k]).next = c[k + 1]
    <3>1. CASE k = 1
      <4>1. /\ c[k] = 1 /\ col[k] = <<Digits[now]>>
            /\ k < m => c[k + 1] = b[1]
        <5>1. k < m => k + 1 \in 1 .. m /\ k + 1 # 1 /\ (k + 1) - 1 = 1
          BY <1>1, <3>1
        <5> QED BY <3>1, <5>1
      <4> HIDE DEF c, col
      <4> QED BY <1>5, <1>9, <2>1, <4>1
    <3>2. CASE k # 1
      <4>1. k - 1 \in 1 .. n /\ (k < m => k - 1 < n /\ (k + 1) - 1 = (k - 1) + 1 /\ k + 1 \in 1 .. m)
        BY <1>1, <3>2
      <4>2. /\ c[k] = b[k - 1] /\ col[k] = record[k - 1]
            /\ k < m => c[k + 1] = b[(k - 1) + 1]
        <5>1. k + 1 # 1
          BY <1>1
        <5> QED BY <3>2, <4>1, <5>1
      <4> HIDE DEF c, col
      <4> QED BY <1>7, <4>1, <4>2
    <3> QED BY <3>1, <3>2
  <2> HIDE DEF c, col
  <2>3. L!ColumnsOf(marks, m) = [k \in 1 .. m |-> col[k]]
    <3>1. Follows(marks, m, c, col)
      BY <2>1, <2>2 DEF Follows
    <3> HIDE DEF m
    <3> QED BY <1>10, <2>1, <3>1, SplitsAs
  <2>4. ASSUME NEW i \in 1 .. n PROVE L!ColumnsOf(marks, n + skip)[i + skip] = record[i]
    <3>1. i + 1 \in 1 .. m /\ i + 1 # 1 /\ (i + 1) - 1 = i
      BY <1>1
    <3> QED BY <2>1, <2>3, <3>1 DEF col
  <2> QED BY <2>4 DEF marks, n
<1> QED BY <1>8, <1>9

-----------------------------------------------------------------------------
(* The invariant.                                                          *)

LogRecords ==
  {r \in [fields : LogFormats, values : UNION {L!Values(f) : f \in LogFormats}, at : DOMAIN Digits] :
     r.values \in L!Values(r.fields)}

FileLines == [header : LogFormats \cup {<<>>}, time : BOOLEAN, marks : Seq(L!Mark)]

Ahead == IF titled THEN 1 ELSE 0

LogOptions ==
  title \in BOOLEAN /\ time \in BOOLEAN /\ timing \in BOOLEAN /\ delimiter \in Delimiters

\* The file has a line for each record, below the format of the first one.
Written ==
  /\ titled = (title /\ logged # <<>>)
  /\ file \in Seq(FileLines) /\ logged \in Seq(LogRecords)
  /\ Len(file) = Len(logged) + Ahead
  /\ logged # <<>> => /\ file[1].header = IF title THEN logged[1].fields ELSE <<>>
                      /\ title => file[1].time = time
  /\ \A n \in 1 .. Len(logged) :
       file[n + Ahead].marks
         = LineOf(time, delimiter, logged[n].fields, logged[n].values, logged[n].at)

\* Where logreplay is in it, and what it has sent.
Reads ==
  /\ clock \in Nat /\ line \in Nat /\ IsSequence(output) /\ signals \in 0 .. 2
  /\ reader = "open" => header = L!NoHeader
  /\ reader = "read" => header # L!NoHeader
  /\ header = L!NoHeader => line = 0 /\ output = <<>>
  /\ header # L!NoHeader => /\ titled /\ line \in 1 .. Len(file)
                            /\ header = [fields |-> logged[1].fields, time |-> time]
  /\ \A k \in 1 .. Len(output) :
       output[k].line \in 1 .. line - 1 /\ output[k].at \in Nat /\ output[k].at <= clock

\* The time before the next line.
Stamped ==
  /\ line <= 1 => stamp = 0
  /\ timing /\ header.time /\ line > 1 => stamp = logged[line - 1].at

LogInv == LogOptions /\ Written /\ Reads /\ Stamped /\ L!ReplayedAsLogged /\ L!PaceKept

\* The record comes back, if it is in the format of the header and its line is plain.
Returned(r, fields, d, out, n) ==
  r.fields = fields /\ d = CommaMark
  /\ (\A i \in DOMAIN fields : fields[i].dynamic => ~L!Escaped(r.values[i]))
    => \E k \in DOMAIN out :
         /\ out[k].values = [i \in DOMAIN fields |-> L!Cut(r.values[i])]
         /\ \A j \in DOMAIN out : out[j].line = n <=> j = k

\* The last record, when the second signal came before it was sent.
Lost(sigs, n, next, out) ==
  sigs = 2 /\ n = next - 1 /\ \A j \in DOMAIN out : out[j].line # n

LEMMA ReplayedIs ==
  /\ L!ReplayedAsLogged <=>
       (header # L!NoHeader => \A n \in 1 .. line - 1 :
          Lost(signals, n, line, output)
            \/ Returned(logged[n], header.fields, delimiter, output, n))
  /\ L!ReplayedAsLogged' <=>
       (header' # L!NoHeader => \A n \in 1 .. line' - 1 :
          Lost(signals', n, line', output')
            \/ Returned(logged'[n], header'.fields, delimiter', output', n))
BY DEF L!ReplayedAsLogged, L!NoHeader, Lost, Returned, CommaMark

LEMMA RecordIs ==
  ASSUME L!MarksTyped, logged \in Seq(LogRecords), NEW n \in 1 .. Len(logged)
  PROVE  /\ logged[n].fields \in LogFormats /\ logged[n].values \in L!Values(logged[n].fields)
         /\ logged[n].at \in DOMAIN Digits /\ logged[n].at \in Nat /\ logged[n].at > 0
<1> DEFINE r == logged[n]
<1>1. r \in LogRecords
  BY ElementOfSeq
<1> HIDE DEF r
<1>2. r.fields \in LogFormats /\ r.values \in L!Values(r.fields) /\ r.at \in DOMAIN Digits
  BY <1>1 DEF LogRecords
<1>3. r.at \in Nat /\ r.at > 0
  <2>1. r.at \in 1 .. Len(Digits) /\ Len(Digits) \in Nat
    BY <1>2, MarksAre
  <2> QED BY <2>1
<1> QED BY <1>2, <1>3 DEF r

LEMMA LogInitHolds == ASSUME L!Init PROVE LogInv
<1>1. /\ LogOptions /\ reader = "open" /\ titled = FALSE /\ file = <<>> /\ logged = <<>> /\ clock = 1
      /\ header = L!NoHeader /\ line = 0 /\ stamp = 0 /\ output = <<>> /\ signals = 0
  BY DEF L!Init, LogOptions
<1>2. Len(<<>>) = 0 /\ \A S : <<>> \in Seq(S)
  OBVIOUS
<1>3. Written
  <2>1. Len(file) = 0 /\ Len(logged) = 0 /\ file \in Seq(FileLines) /\ logged \in Seq(LogRecords)
    BY <1>1, <1>2
  <2>2. titled = (title /\ logged # <<>>)
    BY <1>1
  <2>3. Ahead = 0 /\ Len(file) = Len(logged) + Ahead
    BY <1>1, <2>1 DEF Ahead
  <2>4. \A n \in 1 .. Len(logged) : FALSE
    BY <2>1
  <2> QED BY <1>1, <2>1, <2>2, <2>3, <2>4 DEF Written
<1>4. Reads
  <2>1. IsSequence(output) /\ Len(output) = 0
    BY <1>1, <1>2 DEF IsSequence
  <2> QED BY <1>1, <2>1 DEF Reads
<1>5. Stamped
  BY <1>1 DEF Stamped
<1>6. L!ReplayedAsLogged
  BY <1>1 DEF L!ReplayedAsLogged
<1>7. L!PaceKept
  BY <1>1, <1>2 DEF L!PaceKept
<1> QED BY <1>1, <1>3, <1>4, <1>5, <1>6, <1>7 DEF LogInv

\* What was read stays right while lines are added and time goes by.
LEMMA ReadingKeeps ==
  ASSUME L!MarksTyped, LogInv, UNCHANGED <<L!Options, header, line, stamp, output>>,
         reader' \in {reader, "exit"}, clock' \in Nat, clock <= clock', titled => titled',
         signals' \in 0 .. 2, signals <= signals',
         file' \in Seq(FileLines), Len(file) <= Len(file'),
         Len(logged) <= Len(logged'), logged' \in Seq(LogRecords),
         \A n \in 1 .. Len(logged) : logged'[n] = logged[n]
  PROVE  Reads' /\ Stamped' /\ L!ReplayedAsLogged' /\ L!PaceKept'
<1>1. /\ UNCHANGED <<time, timing, delimiter, header, line, stamp, output>>
      /\ clock \in Nat /\ line \in Nat /\ IsSequence(output) /\ signals \in 0 .. 2
      /\ \A k \in 1 .. Len(output) :
           output[k].line \in 1 .. line - 1 /\ output[k].at \in Nat /\ output[k].at <= clock
  BY DEF L!Options, LogInv, Reads
<1>2. ASSUME header # L!NoHeader
      PROVE  /\ titled /\ header = [fields |-> logged[1].fields, time |-> time]
             /\ line \in 1 .. Len(file) /\ 1 \in 1 .. Len(logged)
             /\ \A n \in 1 .. line - 1 : n \in 1 .. Len(logged)
             /\ \A k \in 1 .. Len(output) : output[k].line \in 1 .. Len(logged)
  <2>1. /\ titled /\ header = [fields |-> logged[1].fields, time |-> time] /\ line \in 1 .. Len(file)
        /\ logged # <<>> /\ logged \in Seq(LogRecords) /\ Len(file) = Len(logged) + 1
    BY <1>2 DEF LogInv, Reads, Written, Ahead
  <2>2. Len(logged) \in Nat /\ Len(logged) # 0
    BY <2>1, EmptySeq
  <2>3. \A n \in 1 .. line - 1 : n \in 1 .. Len(logged)
    BY <1>1, <2>1, <2>2
  <2> QED BY <1>1, <2>1, <2>2, <2>3
<1>3. Len(file) \in Nat /\ Len(file') \in Nat /\ Len(logged) \in Nat
  BY DEF LogInv, Written
<1>4. Reads'
  <2>1. header' = L!NoHeader => line' = 0 /\ output' = <<>>
    BY <1>1 DEF LogInv, Reads
  <2>2. header' # L!NoHeader => /\ titled' /\ line' \in 1 .. Len(file')
                                /\ header' = [fields |-> logged'[1].fields, time |-> time']
    <3> SUFFICES ASSUME header # L!NoHeader
                 PROVE  /\ titled' /\ line \in 1 .. Len(file')
                        /\ header = [fields |-> logged'[1].fields, time |-> time]
      BY <1>1
    <3>1. titled /\ line \in 1 .. Len(file) /\ logged'[1] = logged[1]
          /\ header = [fields |-> logged[1].fields, time |-> time]
      BY <1>2
    <3>2. line \in 1 .. Len(file')
      BY <1>3, <3>1
    <3> QED BY <3>1, <3>2
  <2>3. \A k \in 1 .. Len(output') :
          output'[k].line \in 1 .. line' - 1 /\ output'[k].at \in Nat /\ output'[k].at <= clock'
    <3> SUFFICES ASSUME NEW k \in 1 .. Len(output)
                 PROVE  output[k].line \in 1 .. line - 1 /\ output[k].at \in Nat /\ output[k].at <= clock'
      BY <1>1
    <3>1. output[k].line \in 1 .. line - 1 /\ output[k].at \in Nat /\ output[k].at <= clock
      BY <1>1
    <3> QED BY <1>1, <3>1
  <2>4. line' \in Nat /\ IsSequence(output')
    BY <1>1
  <2>5. /\ reader' = "open" => header' = L!NoHeader
        /\ reader' = "read" => header' # L!NoHeader
    BY <1>1 DEF LogInv, Reads
  <2> QED BY <2>1, <2>2, <2>3, <2>4, <2>5 DEF Reads
<1>5. Stamped'
  <2>1. (line' <= 1 => stamp' = 0)
    BY <1>1 DEF LogInv, Stamped
  <2>2. ASSUME timing, header.time, line > 1 PROVE stamp = logged'[line - 1].at
    <3>1. header # L!NoHeader
      BY <2>2 DEF LogInv, Reads
    <3>2. line - 1 \in 1 .. line - 1
      BY <1>1, <2>2
    <3>3. logged'[line - 1] = logged[line - 1]
      BY <1>2, <3>1, <3>2
    <3>4. stamp = logged[line - 1].at
      BY <2>2 DEF LogInv, Stamped
    <3> QED BY <3>3, <3>4
  <2> QED BY <1>1, <2>1, <2>2 DEF Stamped
<1>6. L!ReplayedAsLogged'
  <2>1. CASE header = L!NoHeader
    BY <1>1, <2>1, ReplayedIs DEF L!NoHeader
  <2>2. CASE header # L!NoHeader
    <3>1. \A n \in 1 .. line - 1 : logged'[n] = logged[n]
      BY <1>2, <2>2
    <3>2. \A n \in 1 .. line - 1 :
            Lost(signals, n, line, output) \/ Returned(logged[n], header.fields, delimiter, output, n)
      BY <2>2, ReplayedIs DEF LogInv
    <3>4. signals = 2 => signals' = 2
      BY <1>1
    <3>5. \A n \in 1 .. line - 1 : Lost(signals, n, line, output) => Lost(signals', n, line, output)
      BY <3>4 DEF Lost
    <3>3. \A n \in 1 .. line - 1 :
            Lost(signals', n, line, output) \/ Returned(logged'[n], header.fields, delimiter, output, n)
      BY <3>1, <3>2, <3>5
    <3> QED BY <1>1, <3>3, ReplayedIs
  <2> QED BY <2>1, <2>2
<1>7. L!PaceKept'
  <2>1. CASE header = L!NoHeader
    <3>1. ~header'.time
      BY <1>1, <2>1 DEF L!NoHeader
    <3> QED BY <3>1 DEF L!PaceKept
  <2>2. CASE header # L!NoHeader
    <3>1. \A k \in 1 .. Len(output) : logged'[output[k].line] = logged[output[k].line]
      BY <1>2, <2>2
    <3>2. \A k \in 1 .. Len(output) - 1 : k \in 1 .. Len(output) /\ k + 1 \in 1 .. Len(output)
      BY <1>1 DEF IsSequence
    <3>3. L!PaceKept
      BY DEF LogInv
    <3>4. signals' = 0 => signals = 0
      BY <1>1
    <3> QED BY <1>1, <3>1, <3>2, <3>3, <3>4 DEF L!PaceKept
  <2> QED BY <2>1, <2>2
<1> QED BY <1>4, <1>5, <1>6, <1>7

-----------------------------------------------------------------------------
(* The steps of logger.                                                    *)

LEMMA CaptureKeeps == ASSUME L!MarksTyped, LogInv, L!CaptureData PROVE LogInv'
<1>15. PICK fields \in LogFormats : \E r \in L!Values(fields) :
        /\ titled' = (titled \/ title)
        /\ file' = file \o (IF title /\ ~titled
                            THEN <<[header |-> fields, time |-> time, marks |-> <<>>]>> ELSE <<>>)
                        \o <<[header |-> <<>>, time |-> FALSE, marks |-> L!LogLine(fields, r, clock)]>>
        /\ logged' = Append(logged, [fields |-> fields, values |-> r, at |-> clock])
  BY DEF L!CaptureData
<1>1. PICK r \in L!Values(fields) :
        /\ titled' = (titled \/ title)
        /\ file' = file \o (IF title /\ ~titled
                            THEN <<[header |-> fields, time |-> time, marks |-> <<>>]>> ELSE <<>>)
                        \o <<[header |-> <<>>, time |-> FALSE, marks |-> L!LogLine(fields, r, clock)]>>
        /\ logged' = Append(logged, [fields |-> fields, values |-> r, at |-> clock])
  BY <1>15
<1>2. /\ clock \in DOMAIN Digits /\ clock' = clock
      /\ UNCHANGED <<title, time, delimiter, cut, timing, header, line, stamp, output, signals>>
      /\ UNCHANGED L!Options /\ UNCHANGED reader
  BY DEF L!CaptureData, L!Options, L!Reading
<1> DEFINE h == [header |-> fields, time |-> time, marks |-> <<>>]
           m == [header |-> <<>>, time |-> FALSE, marks |-> L!LogLine(fields, r, clock)]
           e == [fields |-> fields, values |-> r, at |-> clock]
           k == Len(logged)
<1>3. /\ titled = (title /\ logged # <<>>) /\ titled \in BOOLEAN
      /\ file \in Seq(FileLines) /\ logged \in Seq(LogRecords) /\ k \in Nat
      /\ Len(file) = k + Ahead /\ LogOptions /\ clock \in Nat
  BY DEF LogInv, Written, LogOptions, Reads
<1>4. L!LogLine(fields, r, clock) = LineOf(time, delimiter, fields, r, clock)
      /\ L!LogLine(fields, r, clock) \in Seq(L!Mark)
  <2>1. L!LogLine(fields, r, clock) = LineOf(time, delimiter, fields, r, clock)
    BY LogLineIs
  <2>2. LineOf(time, delimiter, fields, r, clock) \in Seq(L!Mark)
    BY <1>2, <1>3, LineIs DEF LogOptions
  <2> QED BY <2>1, <2>2
<1>5. m \in FileLines /\ h \in FileLines /\ e \in LogRecords
  <2>1. m \in FileLines
    BY <1>4 DEF FileLines
  <2>2. h \in FileLines
    <3>1. <<>> \in Seq(L!Mark)
      OBVIOUS
    <3> QED BY <1>3, <3>1 DEF FileLines, LogOptions
  <2>3. e \in LogRecords
    BY <1>2 DEF LogRecords
  <2> QED BY <2>1, <2>2, <2>3
<1>6. /\ m.marks = LineOf(time, delimiter, fields, r, clock) /\ m.header = <<>>
      /\ h.header = fields /\ h.time = time
      /\ e.fields = fields /\ e.values = r /\ e.at = clock
  BY <1>4
<1>7. file' = file \o (IF title /\ ~titled THEN <<h>> ELSE <<>>) \o <<m>> /\ logged' = Append(logged, e)
  BY <1>1
<1> HIDE DEF h, m, e
<1>8. /\ logged' \in Seq(LogRecords) /\ Len(logged') = k + 1 /\ logged' # <<>>
      /\ logged'[k + 1] = e /\ \A n \in 1 .. k : logged'[n] = logged[n]
  <2>1. /\ Append(logged, e) \in Seq(LogRecords) /\ Len(Append(logged, e)) = k + 1
        /\ Append(logged, e)[k + 1] = e /\ \A n \in 1 .. k : Append(logged, e)[n] = logged[n]
        /\ Append(logged, e) # <<>>
    BY <1>3, <1>5, AppendProperties
  <2> QED BY <1>7, <2>1
<1>9. titled' = title /\ titled' \in BOOLEAN
  BY <1>1, <1>3 DEF LogOptions
\* The header is written above the first line, else the line below the others.
<1>10. /\ file' \in Seq(FileLines) /\ Len(file') = k + 1 + Ahead'
       /\ file'[k + 1 + Ahead'] = m
       /\ \A n \in 1 .. Len(file) : file'[n] = file[n]
       /\ k = 0 => IF title THEN file'[1] = h ELSE file'[1] = m
       /\ k # 0 => Ahead' = Ahead
  <2>1. <<h>> \in Seq(FileLines) /\ <<m>> \in Seq(FileLines)
        /\ Len(<<h>>) = 1 /\ Len(<<m>>) = 1 /\ <<h>>[1] = h /\ <<m>>[1] = m
    BY <1>5, Short
  <2>2. logged = <<>> <=> k = 0
    BY <1>3, EmptySeq
  <2>3. CASE title /\ ~titled
    <3>1. k = 0 /\ Ahead = 0 /\ Ahead' = 1 /\ Len(file) = 0
      <4>1. logged = <<>> /\ ~titled /\ titled'
        BY <1>3, <1>9, <2>3
      <4>2. k = 0 /\ Ahead = 0 /\ Ahead' = 1
        BY <2>2, <4>1 DEF Ahead
      <4> QED BY <1>3, <4>2
    <3>2. file = <<>> /\ file' = file \o <<h>> \o <<m>>
      BY <1>3, <1>7, <2>3, <3>1, EmptySeq
    <3>3. file' = <<h>> \o <<m>>
      <4>1. <<>> \o <<h>> = <<h>>
        BY <2>1, ConcatEmptySeq
      <4> QED BY <3>2, <4>1
    <3>4. /\ <<h>> \o <<m>> \in Seq(FileLines) /\ Len(<<h>> \o <<m>>) = Len(<<h>>) + Len(<<m>>)
          /\ \A p \in 1 .. Len(<<h>>) : (<<h>> \o <<m>>)[p] = <<h>>[p]
          /\ \A p \in 1 .. Len(<<m>>) : (<<h>> \o <<m>>)[Len(<<h>>) + p] = <<m>>[p]
      BY <2>1, Joined
    <3>6. 1 \in 1 .. Len(<<h>>) /\ 1 \in 1 .. Len(<<m>>)
      BY <2>1
    <3>5. file' \in Seq(FileLines) /\ Len(file') = 2 /\ file'[1] = h /\ file'[2] = m
      BY <2>1, <3>3, <3>4, <3>6
    <3> QED BY <2>3, <3>1, <3>5
  <2>4. CASE ~(title /\ ~titled)
    <3>1. file' = file \o <<>> \o <<m>>
      BY <1>7, <2>4
    <3>2. file' = file \o <<m>>
      <4>1. file \o <<>> = file
        BY <1>3, ConcatEmptySeq
      <4> QED BY <3>1, <4>1
    <3>3. /\ file' \in Seq(FileLines) /\ Len(file') = Len(file) + 1 /\ file'[Len(file) + 1] = m
          /\ \A n \in 1 .. Len(file) : file'[n] = file[n]
      <4>1. /\ file \o <<m>> \in Seq(FileLines) /\ Len(file \o <<m>>) = Len(file) + Len(<<m>>)
            /\ \A p \in 1 .. Len(file) : (file \o <<m>>)[p] = file[p]
            /\ \A p \in 1 .. Len(<<m>>) : (file \o <<m>>)[Len(file) + p] = <<m>>[p]
        BY <1>3, <2>1, Joined
      <4>2. 1 \in 1 .. Len(<<m>>)
        BY <2>1
      <4> QED BY <2>1, <3>2, <4>1, <4>2
    <3>4. Ahead' = Ahead /\ Ahead \in {0, 1} /\ (k = 0 => ~title /\ Ahead = 0)
      BY <1>3, <1>9, <2>2, <2>4 DEF Ahead
    <3>5. Len(file') = k + 1 + Ahead' /\ Len(file) + 1 = k + 1 + Ahead'
      BY <1>3, <3>3, <3>4
    <3>6. k = 0 => Len(file) + 1 = 1
      BY <1>3, <3>4
    <3> QED BY <3>3, <3>4, <3>5, <3>6
  <2> QED BY <2>3, <2>4
<1>11. Ahead \in {0, 1} /\ Ahead' \in {0, 1} /\ (k = 0 => Ahead = 0)
  <2>1. k = 0 => logged = <<>>
    BY <1>3, EmptySeq
  <2> QED BY <1>3, <2>1 DEF Ahead
<1>12. Written'
  <2>1. logged' # <<>> => /\ file'[1].header = IF title THEN logged'[1].fields ELSE <<>>
                          /\ title => file'[1].time = time
    <3>1. CASE k = 0
      <4>1. logged'[1] = e
        BY <1>8, <3>1
      <4> QED BY <1>3, <1>6, <1>10, <3>1, <4>1 DEF LogOptions
    <3>2. CASE k # 0
      <4>1. 1 \in 1 .. k /\ 1 \in 1 .. Len(file) /\ logged # <<>>
        BY <1>3, <1>11, <3>2, EmptySeq
      <4>2. logged'[1] = logged[1] /\ file'[1] = file[1]
        BY <1>8, <1>10, <4>1
      <4>3. /\ file[1].header = IF title THEN logged[1].fields ELSE <<>>
            /\ title => file[1].time = time
        BY <4>1 DEF LogInv, Written
      <4> QED BY <4>2, <4>3
    <3> QED BY <3>1, <3>2
  <2>2. ASSUME NEW n \in 1 .. k + 1
        PROVE  file'[n + Ahead'].marks
                 = LineOf(time, delimiter, logged'[n].fields, logged'[n].values, logged'[n].at)
    <3>1. CASE n = k + 1
      BY <1>6, <1>8, <1>10, <3>1
    <3>2. CASE n # k + 1
      <4>1. n \in 1 .. k /\ k # 0 /\ n + Ahead \in 1 .. Len(file)
        BY <1>3, <1>11, <3>2
      <4>2. file'[n + Ahead'] = file[n + Ahead] /\ logged'[n] = logged[n]
        BY <1>8, <1>10, <4>1
      <4>3. file[n + Ahead].marks
              = LineOf(time, delimiter, logged[n].fields, logged[n].values, logged[n].at)
        BY <4>1 DEF LogInv, Written
      <4> QED BY <4>2, <4>3
    <3> QED BY <3>1, <3>2
  <2>3. titled' = (title /\ logged' # <<>>)
    BY <1>8, <1>9
  <2>4. /\ Len(file') = Len(logged') + Ahead'
        /\ \A n \in 1 .. Len(logged') : file'[n + Ahead'].marks
             = LineOf(time, delimiter, logged'[n].fields, logged'[n].values, logged'[n].at)
    BY <1>8, <1>10, <2>2
  <2> QED BY <1>2, <1>8, <1>10, <2>1, <2>3, <2>4 DEF Written
<1>13. LogOptions'
  BY <1>2, <1>3 DEF LogOptions
<1>14. Reads' /\ Stamped' /\ L!ReplayedAsLogged' /\ L!PaceKept'
  <2>1. Len(file) <= Len(file') /\ Len(logged) <= Len(logged')
    <3>1. Len(file) <= Len(file')
      <4>1. k # 0 => Ahead' = Ahead
        BY <1>10
      <4> QED BY <1>3, <1>10, <1>11, <4>1
    <3> QED BY <1>3, <1>8, <3>1
  <2>2. clock' \in Nat /\ clock <= clock' /\ (titled => titled')
    <3>1. clock \in Nat /\ clock' = clock
      BY <1>2, <1>3
    <3>2. titled => titled'
      BY <1>1
    <3> QED BY <3>1, <3>2
  <2>3. UNCHANGED <<L!Options, header, line, stamp, output>> /\ reader' \in {reader, "exit"}
    BY <1>2
  <2>4. \A n \in 1 .. Len(logged) : logged'[n] = logged[n]
    BY <1>8
  <2>5. signals' \in 0 .. 2 /\ signals <= signals'
    BY <1>2 DEF LogInv, Reads
  <2> QED BY <1>8, <1>10, <2>1, <2>2, <2>3, <2>4, <2>5, ReadingKeeps
<1> QED BY <1>12, <1>13, <1>14 DEF LogInv

\* Steps that leave the lines and what was read of them alone.
LEMMA LogRestKeeps ==
  ASSUME L!MarksTyped, LogInv,
         UNCHANGED <<L!Options, titled, file, logged, header, line, stamp, output>>,
         reader' \in {reader, "exit"},
         clock' \in Nat, clock <= clock', signals' \in 0 .. 2, signals <= signals'
  PROVE  LogInv'
<1>1. /\ UNCHANGED <<title, time, timing, delimiter, titled, file, logged, header, line, stamp, output>>
      /\ LogOptions /\ Written
      /\ file \in Seq(FileLines) /\ logged \in Seq(LogRecords)
  BY DEF L!Options, LogInv, Written
<1>2. LogOptions' /\ Written'
  BY <1>1 DEF LogOptions, Written, Ahead
<1>3. /\ Len(file) <= Len(file') /\ Len(logged) <= Len(logged')
      /\ file' \in Seq(FileLines) /\ logged' \in Seq(LogRecords)
      /\ \A n \in 1 .. Len(logged) : logged'[n] = logged[n]
  <2>1. Len(file) \in Nat /\ Len(logged) \in Nat
    BY <1>1
  <2> QED BY <1>1, <2>1
<1>4. Reads' /\ Stamped' /\ L!ReplayedAsLogged' /\ L!PaceKept'
  <2>1. UNCHANGED <<L!Options, header, line, stamp, output>> /\ (titled => titled')
    BY <1>1
  <2> QED BY <1>3, <2>1, ReadingKeeps
<1> QED BY <1>2, <1>4 DEF LogInv

-----------------------------------------------------------------------------
(* The steps of logreplay.                                                 *)

LEMMA FirstColumn ==
  ASSUME NEW S, NEW marks \in Seq(S), NEW count \in Nat \ {0}
  PROVE  L!ColumnsOf(marks, count)[1] = L!GetNextField(marks, 1).column
<1>1. count \in Nat /\ 1 \in 1 .. count
  OBVIOUS
<1>2. PICK f \in Splits(S, marks, count) : TRUE
  BY <1>1, SplitExists
<1>3. f[0].next = 1 /\ \A k \in 1 .. count : f[k] = L!GetNextField(marks, f[k - 1].next)
  BY DEF Splits
<1>4. f[1] = L!GetNextField(marks, f[1 - 1].next) /\ 1 - 1 = 0
  BY <1>1, <1>3
<1>5. L!ColumnsOf(marks, count) = [k \in 1 .. count |-> f[k].column]
  BY <1>1, ColumnsAre
<1> QED BY <1>1, <1>3, <1>4, <1>5

LEMMA NumberIs ==
  ASSUME L!MarksTyped, NEW d \in DOMAIN Digits
  PROVE  /\ L!IsNumber(<<Digits[d]>>)
         /\ <<Digits[d]>>[1] = Digits[d]
         /\ (CHOOSE n \in DOMAIN Digits : Digits[n] = Digits[d]) = d
<1>1. Digits[d] \in L!ToSet(Digits)
  BY DEF L!ToSet
<1> DEFINE ch == Digits[d]
<1> HIDE DEF ch
<1>2. Len(<<ch>>) = 1 /\ <<ch>>[1] = ch
  OBVIOUS
<1>3. L!IsNumber(<<ch>>)
  BY <1>1, <1>2 DEF L!IsNumber, ch
<1>4. (CHOOSE n \in DOMAIN Digits : Digits[n] = Digits[d]) = d
  BY DEF L!MarksTyped
<1> QED BY <1>2, <1>3, <1>4 DEF ch

\* What a line is parsed as: the time of the record, and the record if it is plain.
ParsedAs(p, r) ==
  /\ header.time => p.time = r.at
  /\ DOMAIN p.values = DOMAIN header.fields
  /\ r.fields = header.fields /\ delimiter = CommaMark
     /\ (\A i \in DOMAIN header.fields : header.fields[i].dynamic => ~L!Escaped(r.values[i]))
       => \A i \in DOMAIN header.fields :
            p.values[i] = [value |-> L!Cut(r.values[i]), valid |-> TRUE]

LEMMA ParsedIs ==
  ASSUME L!MarksTyped, LogInv, header # L!NoHeader, line \in 1 .. Len(logged)
  PROVE  ParsedAs(L!Parsed, logged[line])
<1> DEFINE r == logged[line]  fields == header.fields
           skip == IF header.time THEN 1 ELSE 0
           count == Len(fields) + skip
           marks == file[line + 1].marks
           columns == L!ColumnsOf(marks, count)
<1>1. /\ titled /\ header = [fields |-> logged[1].fields, time |-> time] /\ logged \in Seq(LogRecords)
      /\ LogOptions
      /\ file[line + Ahead].marks = LineOf(time, delimiter, r.fields, r.values, r.at)
  BY DEF LogInv, Reads, Written
<1>2. header.time = time /\ fields = logged[1].fields /\ Ahead = 1
  BY <1>1 DEF Ahead
<1>3. marks = LineOf(time, delimiter, r.fields, r.values, r.at)
  BY <1>1, <1>2
<1>4. r.fields \in LogFormats /\ r.values \in L!Values(r.fields) /\ r.at \in DOMAIN Digits
  BY <1>1, RecordIs
<1>5. fields \in LogFormats
  <2>1. 1 \in 1 .. Len(logged)
    <3>1. Len(logged) \in Nat
      BY <1>1
    <3> QED BY <3>1
  <2> QED BY <1>1, <1>2, <2>1, RecordIs
<1>6. Len(fields) \in Nat \ {0} /\ DOMAIN fields = 1 .. Len(fields)
  <2>1. fields \in Seq([name : STRING, dynamic : BOOLEAN]) /\ fields # <<>>
    BY <1>5 DEF L!MarksTyped
  <2> QED BY <2>1, EmptySeq
<1>7. count \in Nat \ {0}
  <2> DEFINE n == Len(fields)  s == skip
  <2>1. n \in Nat \ {0} /\ s \in {0, 1}
    BY <1>6
  <2> HIDE DEF n, s
  <2>2. n + s \in Nat \ {0}
    BY <2>1
  <2> QED BY <2>2 DEF n, s
<1>8. L!Parsed = [time |-> IF header.time /\ L!IsNumber(columns[1])
                           THEN CHOOSE n \in DOMAIN Digits : Digits[n] = columns[1][1] ELSE 0,
                  values |-> [i \in DOMAIN fields |->
                                L!StoreValue(fields[i].dynamic, columns[i + skip])]]
  BY DEF L!Parsed
<1>9. time \in BOOLEAN /\ delimiter \in Delimiters /\ marks \in Seq(L!Mark)
  <2>1. time \in BOOLEAN /\ delimiter \in Delimiters
    BY <1>1 DEF LogOptions
  <2> QED BY <1>3, <1>4, <2>1, LineIs
<1> DEFINE p == L!Parsed
<1> HIDE DEF marks
<1>10. header.time => p.time = r.at
  <2> SUFFICES ASSUME header.time PROVE p.time = r.at
    OBVIOUS
  <2>1. marks = LineOf(TRUE, delimiter, r.fields, r.values, r.at)
    BY <1>2, <1>3, <1>9
  <2>2. L!GetNextField(marks, 1).column = <<Digits[r.at]>>
    <3> DEFINE f == r.fields  v == r.values  now == r.at
    <3>1. f \in LogFormats /\ v \in L!Values(f) /\ now \in DOMAIN Digits
      BY <1>4
    <3>2. delimiter \in Delimiters
      BY <1>9
    <3>4. marks = LineOf(TRUE, delimiter, f, v, now)
      BY <2>1
    <3> HIDE DEF f, v, now
    <3>3. L!GetNextField(LineOf(TRUE, delimiter, f, v, now), 1) = [column |-> <<Digits[now]>>, next |-> 3]
      BY <3>1, <3>2, TimeColumn
    <3>5. L!GetNextField(marks, 1).column = <<Digits[now]>>
      <4> DEFINE c == <<Digits[now]>>  g == L!GetNextField(marks, 1)
      <4>1. g = [column |-> c, next |-> 3]
        BY <3>3, <3>4
      <4> HIDE DEF c, g
      <4>2. g.column = c
        BY <4>1
      <4> QED BY <4>2 DEF c, g
    <3> QED BY <3>5 DEF now
  <2>3. columns[1] = <<Digits[r.at]>>
    BY <1>7, <1>9, <2>2, FirstColumn
  <2> HIDE DEF columns, r
  <2>4. L!IsNumber(columns[1]) /\ columns[1][1] = Digits[r.at]
    BY <1>4, <2>3, NumberIs
  <2>5. p.time = CHOOSE n \in DOMAIN Digits : Digits[n] = Digits[r.at]
    BY <1>8, <2>4
  <2> QED BY <1>4, <2>5, NumberIs
<1>11. DOMAIN p.values = DOMAIN fields
  <2> HIDE DEF columns
  <2> QED BY <1>8
<1>12. ASSUME r.fields = fields, delimiter = CommaMark,
              \A i \in DOMAIN fields : fields[i].dynamic => ~L!Escaped(r.values[i]),
              NEW i \in DOMAIN fields
       PROVE  p.values[i] = [value |-> L!Cut(r.values[i]), valid |-> TRUE]
  <2>1. \A j \in 1 .. Len(fields) :
          L!ColumnsOf(LineOf(time, CommaMark, fields, r.values, r.at), Len(fields) + skip)[j + skip]
            = r.values[j]
    <3> DEFINE s == skip  v == r.values  n == r.at
    <3>1. /\ v \in L!Values(fields) /\ n \in DOMAIN Digits /\ s = IF time THEN 1 ELSE 0
          /\ CommaMark \in Delimiters
          /\ PlainTexts(fields, v) /\ fields \in LogFormats /\ time \in BOOLEAN
      BY <1>2, <1>4, <1>5, <1>6, <1>9, <1>12 DEF PlainTexts
    <3> HIDE DEF s, v, n, fields
    <3>2. \A j \in 1 .. Len(fields) :
            L!ColumnsOf(LineOf(time, CommaMark, fields, v, n), Len(fields) + s)[j + s] = v[j]
      BY <3>1, PlainColumns
    <3> QED BY <3>2 DEF s, v, n
  <2>2. columns[i + skip] = r.values[i]
    BY <1>3, <1>6, <1>12, <2>1
  <2>3. p.values[i] = L!StoreValue(fields[i].dynamic, r.values[i])
    <3> HIDE DEF columns, skip, r
    <3> QED BY <1>8, <2>2
  <2>4. fields[i].dynamic \/ L!IsNumber(r.values[i])
    <3>1. fields[i].dynamic \/ NumberColumn(r.values[i], L!Columns(fields, r.values)[i])
      BY <1>4, <1>5, <1>6, <1>12, ColumnOf
    <3>2. ASSUME NumberColumn(r.values[i], L!Columns(fields, r.values)[i]) PROVE L!IsNumber(r.values[i])
      BY <3>2, NumberIs DEF NumberColumn
    <3> QED BY <3>1, <3>2
  <2>5. fields[i].dynamic \in BOOLEAN
    <3>1. fields \in Seq([name : STRING, dynamic : BOOLEAN])
      BY <1>5 DEF L!MarksTyped
    <3> HIDE DEF fields
    <3>2. fields[i] \in [name : STRING, dynamic : BOOLEAN]
      BY <1>6, <1>12, <3>1, ElementOfSeq
    <3> QED BY <3>2
  <2> HIDE DEF r, fields
  <2> QED BY <2>3, <2>4, <2>5 DEF L!StoreValue
<1> QED BY <1>10, <1>11, <1>12 DEF ParsedAs

LEMMA OpenKeeps == ASSUME L!MarksTyped, LogInv, L!Open PROVE LogInv'
<1>1. /\ UNCHANGED <<L!Options, title, time, timing, delimiter, titled, file, logged, clock, stamp, output>>
      /\ clock \in Nat /\ LogOptions /\ Written /\ IsSequence(output)
  BY DEF L!Open, L!Options, L!Writing, LogInv, Reads
<1>4. signals' = signals /\ signals \in 0 .. 2 /\ signals <= signals
  BY DEF L!Open, LogInv, Reads
<1>2. CASE file # <<>> /\ file[1].header # <<>>
  <2>1. /\ header' = [fields |-> file[1].header, time |-> file[1].time] /\ line' = 1
        /\ reader = "open" /\ reader' = "read"
    BY <1>2 DEF L!Open
  <2>2. header = L!NoHeader /\ line = 0 /\ output = <<>> /\ stamp = 0
    <3>1. header = L!NoHeader /\ line = 0 /\ output = <<>>
      BY <2>1 DEF LogInv, Reads
    <3>2. 0 <= 1
      OBVIOUS
    <3> QED BY <3>1, <3>2 DEF LogInv, Stamped
  <2>3. logged # <<>>
    <3> SUFFICES ASSUME logged = <<>> PROVE FALSE
      OBVIOUS
    <3>1. Ahead = 0 /\ Len(logged) = 0
      BY <1>1 DEF Written, Ahead
    <3>2. Len(file) = 0 /\ file \in Seq(FileLines)
      BY <1>1, <3>1 DEF Written
    <3> QED BY <1>2, <3>2, EmptySeq
  <2>4. title /\ titled /\ file[1].header = logged[1].fields /\ file[1].time = time
    BY <1>1, <1>2, <2>3 DEF Written
  <2>5. 1 \in 1 .. Len(logged) /\ 1 \in 1 .. Len(file)
    <3>1. Len(logged) \in Nat /\ Len(logged) # 0 /\ Len(file) = Len(logged) + 1
      BY <1>1, <2>3, <2>4, EmptySeq DEF Written, Ahead
    <3> QED BY <3>1
  <2>6. logged[1].fields # <<>>
    <3>1. logged[1].fields \in LogFormats
      BY <1>1, <2>5, RecordIs DEF Written
    <3> QED BY <3>1 DEF L!MarksTyped
  <2>7. header' = [fields |-> logged[1].fields, time |-> time] /\ header' # L!NoHeader
    <3>1. header' = [fields |-> logged[1].fields, time |-> time]
      BY <2>1, <2>4
    <3>2. header'.fields = logged[1].fields /\ L!NoHeader.fields = <<>>
      BY <3>1 DEF L!NoHeader
    <3> QED BY <2>6, <3>1, <3>2
  <2>8. Len(output) = 0 /\ line' - 1 = 0 /\ output' = <<>>
    BY <1>1, <2>1, <2>2
  <2>9. Reads'
    <3>1. line' \in Nat /\ line' \in 1 .. Len(file') /\ titled' /\ clock' \in Nat
          /\ IsSequence(output') /\ header' = [fields |-> logged'[1].fields, time |-> time']
      BY <1>1, <2>1, <2>4, <2>5, <2>7
    <3>2. \A k \in 1 .. Len(output') : FALSE
      BY <1>1, <2>8
    <3>3. reader' # "open"
      BY <2>1
    <3> QED BY <1>4, <2>7, <3>1, <3>2, <3>3 DEF Reads
  <2>10. Stamped'
    BY <1>1, <2>1, <2>2 DEF Stamped
  <2>11. L!ReplayedAsLogged'
    <3>1. \A n \in 1 .. line' - 1 : FALSE
      BY <2>8
    <3> QED BY <3>1, ReplayedIs
  <2>12. L!PaceKept'
    <3>1. \A k \in 1 .. Len(output') - 1 : FALSE
      BY <1>1, <2>8
    <3> QED BY <3>1 DEF L!PaceKept
  <2>13. LogOptions' /\ Written'
    BY <1>1 DEF LogOptions, Written, Ahead
  <2> QED BY <2>9, <2>10, <2>11, <2>12, <2>13 DEF LogInv
<1>3. CASE ~(file # <<>> /\ file[1].header # <<>>)
  <2>1. UNCHANGED <<header, line>> /\ reader' = "exit"
    BY <1>3 DEF L!Open
  <2>2. clock' \in Nat /\ clock <= clock'
    BY <1>1
  <2> QED BY <1>1, <1>4, <2>1, <2>2, LogRestKeeps
<1> QED BY <1>2, <1>3

LEMMA ReturnedStays ==
  ASSUME NEW r, NEW fields, NEW d, NEW out, IsSequence(out), NEW n, NEW e, e.line # n,
         Returned(r, fields, d, out, n)
  PROVE  Returned(r, fields, d, Append(out, e), n)
<1> DEFINE new == Append(out, e)  told == [i \in DOMAIN fields |-> L!Cut(r.values[i])]
<1>1. /\ DOMAIN out = 1 .. Len(out) /\ DOMAIN new = 1 .. Len(out) + 1 /\ Len(out) \in Nat
      /\ \A k \in 1 .. Len(out) : new[k] = out[k]
      /\ new[Len(out) + 1] = e
  <2>1. /\ IsSequence(new) /\ Len(new) = Len(out) + 1 /\ new[Len(out) + 1] = e
        /\ \A k \in 1 .. Len(out) : new[k] = out[k]
    BY AppendIs
  <2> HIDE DEF new
  <2>2. DOMAIN new = 1 .. Len(new) /\ DOMAIN out = 1 .. Len(out) /\ Len(out) \in Nat
    BY <2>1 DEF IsSequence
  <2> QED BY <2>1, <2>2
<1> HIDE DEF new, told
<1> SUFFICES ASSUME r.fields = fields, d = CommaMark,
                    \A i \in DOMAIN fields : fields[i].dynamic => ~L!Escaped(r.values[i])
             PROVE  \E k \in DOMAIN new :
                      new[k].values = told /\ \A j \in DOMAIN new : new[j].line = n <=> j = k
  BY DEF Returned, new, told
<1>2. \E k \in DOMAIN out : out[k].values = told /\ \A j \in DOMAIN out : out[j].line = n <=> j = k
  BY DEF Returned, told
<1>3. PICK k \in 1 .. Len(out) : out[k].values = told /\ \A j \in 1 .. Len(out) : out[j].line = n <=> j = k
  BY <1>1, <1>2
<1>4. k \in DOMAIN new /\ new[k].values = told /\ k # Len(out) + 1
  BY <1>1, <1>3
<1>5. ASSUME NEW j \in DOMAIN new PROVE new[j].line = n <=> j = k
  <2>1. CASE j = Len(out) + 1
    BY <1>1, <1>4, <2>1
  <2>2. CASE j \in 1 .. Len(out)
    BY <1>1, <1>3, <2>2
  <2> QED BY <1>1, <2>1, <2>2
<1> QED BY <1>4, <1>5

\* The delay of a line, and what is sent of it.
LEMMA ReplayIs ==
  ASSUME L!MarksTyped, LogInv, L!Replay
  PROVE  /\ UNCHANGED <<L!Options, title, time, timing, delimiter, titled, file, logged, header>>
         /\ reader = "read" /\ reader' = "read" /\ header # L!NoHeader /\ titled
         /\ line \in 1 .. Len(logged) /\ line' = line + 1 /\ line' \in 1 .. Len(file)
         /\ ParsedAs(L!Parsed, logged[line])
         /\ clock' \in Nat /\ clock <= clock'
         /\ signals = 0 /\ signals' \in 0 .. 2
         /\ timing /\ header.time =>
              /\ stamp' = logged[line].at
              /\ signals' = 0 /\ line > 1 =>
                   clock' - clock >= logged[line].at - logged[line - 1].at
         /\ output' = IF signals' = 2 \/ \E i \in DOMAIN header.fields : ~L!Parsed.values[i].valid
                      THEN output
                      ELSE Append(output, [line |-> line, at |-> clock',
                             values |-> [i \in DOMAIN header.fields |-> L!Parsed.values[i].value]])
<1> DEFINE p == L!Parsed
           waits == timing /\ header.time /\ stamp # 0 /\ p.time > stamp
           delay == IF waits THEN p.time - stamp ELSE 0
<1>1. /\ UNCHANGED <<L!Options, title, time, timing, delimiter, titled, file, logged, header>>
      /\ reader = "read" /\ reader' = "read" /\ line' = line + 1 /\ line < Len(file)
      /\ signals = 0 /\ signals' \in 0 .. 2
      /\ clock' \in (IF signals' = 0 THEN clock + delay ELSE clock) .. clock + delay
      /\ stamp' = IF timing /\ header.time THEN p.time ELSE stamp
      /\ output' = IF signals' = 2 \/ \E i \in DOMAIN header.fields : ~L!Parsed.values[i].valid
                   THEN output
                   ELSE Append(output, [line |-> line, at |-> clock',
                          values |-> [i \in DOMAIN header.fields |-> L!Parsed.values[i].value]])
  BY DEF L!Replay, L!Options, L!Writing
<1>2. /\ header # L!NoHeader /\ titled /\ line \in 1 .. Len(file) /\ clock \in Nat
      /\ Len(file) = Len(logged) + 1 /\ logged \in Seq(LogRecords)
  BY <1>1 DEF LogInv, Reads, Written, Ahead
<1>3. Len(logged) \in Nat
  BY <1>2
<1>4. line \in 1 .. Len(logged) /\ line' \in 1 .. Len(file) /\ line \in Nat
  BY <1>1, <1>2, <1>3
<1>5. ParsedAs(p, logged[line])
  BY <1>2, <1>4, ParsedIs
<1> HIDE DEF p
<1>6. logged[line].at \in Nat /\ (header.time => p.time = logged[line].at)
  BY <1>2, <1>4, <1>5, RecordIs DEF ParsedAs
<1>7. line > 1 => logged[line - 1].at \in Nat /\ logged[line - 1].at > 0
  <2> SUFFICES ASSUME line > 1 PROVE logged[line - 1].at \in Nat /\ logged[line - 1].at > 0
    OBVIOUS
  <2>1. line - 1 \in 1 .. Len(logged)
    BY <1>3, <1>4
  <2> QED BY <1>2, <2>1, RecordIs
<1>8. /\ line <= 1 => stamp = 0
      /\ timing /\ header.time /\ line > 1 => stamp = logged[line - 1].at
  BY DEF LogInv, Stamped
<1>9. clock' \in Nat /\ clock <= clock'
  <2>1. delay \in Nat
    <3>1. CASE waits
      <4>1. line > 1 /\ stamp \in Nat
        BY <1>4, <1>7, <1>8, <3>1
      <4>2. p.time \in Nat /\ p.time > stamp
        BY <1>6, <3>1
      <4> QED BY <3>1, <4>1, <4>2
    <3>2. CASE ~waits
      BY <3>2
    <3> QED BY <3>1, <3>2
  <2> DEFINE first == IF signals' = 0 THEN clock + delay ELSE clock  z == clock'
  <2>2. first \in Nat /\ clock <= first
    <3> HIDE DEF delay
    <3> QED BY <1>2, <2>1
  <2>3. z \in first .. clock + delay
    BY <1>1
  <2> HIDE DEF delay, first, z
  <2>4. z \in Nat /\ clock <= z
    BY <1>2, <2>1, <2>2, <2>3
  <2> QED BY <2>4 DEF z
<1>10. ASSUME timing, header.time
       PROVE  /\ stamp' = logged[line].at
              /\ signals' = 0 /\ line > 1 =>
                   clock' - clock >= logged[line].at - logged[line - 1].at
  <2>1. stamp' = logged[line].at
    BY <1>1, <1>6, <1>10
  <2>3. signals' = 0 => clock' \in clock + delay .. clock + delay
    BY <1>1
  <2>2. ASSUME signals' = 0, line > 1 PROVE clock' - clock >= logged[line].at - logged[line - 1].at
    <3> DEFINE x == logged[line].at  y == logged[line - 1].at
    <3>1. x \in Nat /\ y \in Nat /\ y > 0 /\ stamp = y /\ p.time = x
      BY <1>6, <1>7, <1>8, <1>10, <2>2
    <3> HIDE DEF x, y
    <3>2. CASE x > y
      <4>2. delay = x - y
        BY <1>10, <3>1, <3>2
      <4>1. clock' = clock + x - y
        BY <1>2, <2>2, <2>3, <3>1, <4>2
      <4> QED BY <1>2, <3>1, <4>1 DEF x, y
    <3>3. CASE ~(x > y)
      <4>4. delay = 0
        BY <3>1, <3>3
      <4>1. clock' = clock
        BY <1>2, <2>2, <2>3, <4>4
      <4>2. clock' - clock = 0 /\ x - y <= 0
        BY <1>2, <3>1, <3>3, <4>1
      <4>3. clock' - clock >= x - y
        BY <3>1, <4>2
      <4> QED BY <4>3 DEF x, y
    <3> QED BY <3>2, <3>3
  <2> QED BY <2>1, <2>2
<1> QED BY <1>1, <1>2, <1>4, <1>5, <1>9, <1>10 DEF p

\* What is sent of a line, whatever it is: the others stay, and it is of this line.
LEMMA SentIs ==
  ASSUME L!MarksTyped, LogInv, L!Replay
  PROVE  \/ /\ output' = output
            /\ signals' = 2 \/ \E i \in DOMAIN header.fields : ~L!Parsed.values[i].valid
         \/ /\ IsSequence(output') /\ Len(output') = Len(output) + 1
            /\ \A k \in 1 .. Len(output) : output'[k] = output[k]
            /\ \E e : /\ output' = Append(output, e) /\ output'[Len(output) + 1] = e
                      /\ e.line = line /\ e.at = clock'
                      /\ e.values = [i \in DOMAIN header.fields |-> L!Parsed.values[i].value]
<1> DEFINE bad == signals' = 2 \/ \E i \in DOMAIN header.fields : ~L!Parsed.values[i].valid
           v == [i \in DOMAIN header.fields |-> L!Parsed.values[i].value]
           e == [line |-> line, at |-> clock', values |-> v]
<1>1. output' = IF bad THEN output ELSE Append(output, e)
  BY ReplayIs
<1>2. e.line = line /\ e.at = clock' /\ e.values = v
  OBVIOUS
<1>3. IsSequence(output)
  BY DEF LogInv, Reads
<1> HIDE DEF e, bad, v
<1>4. CASE bad
  <2>1. output' = output
    BY <1>1, <1>4
  <2> QED BY <1>4, <2>1 DEF bad
<1>5. CASE ~bad
  <2>1. output' = Append(output, e)
    BY <1>1, <1>5
  <2>2. /\ IsSequence(output') /\ Len(output') = Len(output) + 1
        /\ \A k \in 1 .. Len(output) : output'[k] = output[k]
        /\ output'[Len(output) + 1] = e
    BY <1>3, <2>1, AppendIs
  <2> QED BY <1>2, <2>1, <2>2 DEF v
<1> QED BY <1>4, <1>5

LEMMA ReplayKeeps == ASSUME L!MarksTyped, LogInv, L!Replay PROVE LogInv'
<1> DEFINE r == logged[line]  fields == header.fields
           v == [i \in DOMAIN fields |-> L!Parsed.values[i].value]
           bad == \E i \in DOMAIN fields : ~L!Parsed.values[i].valid
           k0 == Len(output)
<1>1. /\ UNCHANGED <<title, time, timing, delimiter, titled, file, logged, header>>
      /\ reader' = "read" /\ header # L!NoHeader /\ titled
      /\ line \in 1 .. Len(logged) /\ line' = line + 1 /\ line' \in 1 .. Len(file)
      /\ ParsedAs(L!Parsed, r)
      /\ clock' \in Nat /\ clock <= clock'
      /\ signals = 0 /\ signals' \in 0 .. 2
      /\ timing /\ header.time =>
           /\ stamp' = r.at
           /\ signals' = 0 /\ line > 1 => clock' - clock >= r.at - logged[line - 1].at
  BY ReplayIs
<1>2. /\ LogOptions /\ Written /\ clock \in Nat /\ line \in Nat /\ IsSequence(output) /\ k0 \in Nat
      /\ header = [fields |-> logged[1].fields, time |-> time]
      /\ \A k \in 1 .. k0 : output[k].line \in 1 .. line - 1 /\ output[k].at \in Nat /\ output[k].at <= clock
  BY <1>1 DEF LogInv, Reads, IsSequence
<1>3. \/ output' = output /\ (signals' = 2 \/ bad)
      \/ /\ IsSequence(output') /\ Len(output') = k0 + 1
         /\ \A k \in 1 .. k0 : output'[k] = output[k]
         /\ \E e : /\ output' = Append(output, e) /\ output'[k0 + 1] = e
                   /\ e.line = line /\ e.at = clock' /\ e.values = v
  BY SentIs
<1> HIDE DEF v, bad, k0, r, fields
<1>4. LogOptions' /\ Written'
  BY <1>1, <1>2 DEF LogOptions, Written, Ahead
<1>5. /\ IsSequence(output')
      /\ \A k \in 1 .. Len(output') :
           /\ output'[k].line \in 1 .. line /\ output'[k].at \in Nat /\ output'[k].at <= clock'
           /\ k \notin 1 .. k0 => k = k0 + 1 /\ output'[k].line = line /\ output'[k].at = clock'
           /\ k \in 1 .. k0 => output'[k] = output[k]
  <2>1. ASSUME NEW k \in 1 .. k0
        PROVE  output[k].line \in 1 .. line /\ output[k].at \in Nat /\ output[k].at <= clock'
    <3> DEFINE x == output[k].line  y == output[k].at
    <3>1. x \in 1 .. line - 1 /\ y \in Nat /\ y <= clock
      BY <1>2
    <3> HIDE DEF x, y
    <3>2. x \in 1 .. line /\ y <= clock'
      BY <1>1, <1>2, <3>1
    <3> QED BY <3>1, <3>2 DEF x, y
  <2>2. CASE output' = output
    BY <1>2, <2>1, <2>2 DEF k0
  <2>3. CASE /\ IsSequence(output') /\ Len(output') = k0 + 1
             /\ \A k \in 1 .. k0 : output'[k] = output[k]
             /\ \E e : /\ output' = Append(output, e) /\ output'[k0 + 1] = e
                       /\ e.line = line /\ e.at = clock' /\ e.values = v
    <3>1. output'[k0 + 1].line = line /\ output'[k0 + 1].at = clock'
      BY <2>3
    <3>2. line \in 1 .. line
      BY <1>1, <1>2
    <3> SUFFICES ASSUME NEW k \in 1 .. k0 + 1
                 PROVE  /\ output'[k].line \in 1 .. line /\ output'[k].at \in Nat /\ output'[k].at <= clock'
                        /\ k \notin 1 .. k0 => k = k0 + 1 /\ output'[k].line = line /\ output'[k].at = clock'
                        /\ k \in 1 .. k0 => output'[k] = output[k]
      BY <2>3
    <3>3. CASE k \in 1 .. k0
      <4>1. output'[k] = output[k]
        BY <2>3, <3>3
      <4> QED BY <2>1, <3>3, <4>1
    <3>4. CASE k \notin 1 .. k0
      <4>1. k = k0 + 1
        BY <1>2, <3>4
      <4>2. clock' <= clock'
        BY <1>1
      <4> QED BY <1>1, <3>1, <3>2, <3>4, <4>1, <4>2
    <3> QED BY <3>3, <3>4
  <2> QED BY <1>3, <2>2, <2>3
<1>6. line' \in Nat /\ line' - 1 = line /\ ~(line' <= 1)
  <2>1. line \in Nat /\ line' = line + 1 /\ line # 0
    BY <1>1, <1>2
  <2> QED BY <2>1
<1>7. Reads'
  <2>1. line' \in Nat /\ line' \in 1 .. Len(file') /\ line' - 1 = line
    <3>1. file' = file /\ line' \in 1 .. Len(file)
      BY <1>1
    <3> QED BY <1>6, <3>1
  <2>2. header' # L!NoHeader /\ titled' /\ header' = [fields |-> logged'[1].fields, time |-> time']
        /\ reader' # "open" /\ clock' \in Nat
    BY <1>1, <1>2 DEF L!NoHeader
  <2>3. \A k \in 1 .. Len(output') :
          output'[k].line \in 1 .. line' - 1 /\ output'[k].at \in Nat /\ output'[k].at <= clock'
    BY <1>5, <2>1
  <2> QED BY <1>1, <1>5, <2>1, <2>2, <2>3 DEF Reads
<1>8. Stamped'
  <2>1. ~(line' <= 1) /\ line' - 1 = line
    BY <1>6
  <2>2. timing' /\ header'.time => stamp' = logged'[line' - 1].at
    BY <1>1, <2>1 DEF r
  <2> QED BY <2>1, <2>2 DEF Stamped
<1>9. L!ReplayedAsLogged'
  <2>1. \A n \in 1 .. line - 1 : Returned(logged[n], fields, delimiter, output, n)
    BY <1>1, ReplayedIs DEF LogInv, Lost, fields
  <2>2. ASSUME NEW n \in 1 .. line - 1 PROVE Returned(logged[n], fields, delimiter, output', n)
    <3>1. CASE output' = output
      BY <2>1, <3>1
    <3>2. CASE \E e : output' = Append(output, e) /\ e.line = line
      <4>1. PICK e : output' = Append(output, e) /\ e.line = line
        BY <3>2
      <4>2. e.line # n
        BY <1>2, <4>1
      <4>3. Returned(logged[n], fields, delimiter, output, n)
        BY <2>1
      <4>4. Returned(logged[n], fields, delimiter, Append(output, e), n)
        BY <1>2, <4>2, <4>3, ReturnedStays
      <4> QED BY <4>1, <4>4
    <3> QED BY <1>3, <3>1, <3>2
  <2>5. line \in Nat /\ \A j \in 1 .. k0 : output[j].line # line
    BY <1>2
  <2>6. ASSUME signals' = 2, output' = output PROVE Lost(signals', line, line', output')
    <3>1. DOMAIN output' = 1 .. k0
      BY <1>2, <2>6 DEF IsSequence, k0
    <3>2. \A j \in DOMAIN output' : output'[j].line # line
      BY <2>5, <2>6, <3>1
    <3> QED BY <1>6, <2>6, <3>2 DEF Lost
  <2>3. ASSUME ~(signals' = 2 /\ output' = output)
        PROVE  Returned(r, fields, delimiter, output', line)
    <3> SUFFICES ASSUME r.fields = fields, delimiter = CommaMark,
                        \A i \in DOMAIN fields : fields[i].dynamic => ~L!Escaped(r.values[i])
                 PROVE  \E k \in DOMAIN output' :
                          /\ output'[k].values = [i \in DOMAIN fields |-> L!Cut(r.values[i])]
                          /\ \A j \in DOMAIN output' : output'[j].line = line <=> j = k
      BY DEF Returned
    <3>1. \A i \in DOMAIN fields : L!Parsed.values[i] = [value |-> L!Cut(r.values[i]), valid |-> TRUE]
      BY <1>1 DEF ParsedAs, fields
    <3>2. \A i \in DOMAIN fields : L!Parsed.values[i].valid /\ L!Parsed.values[i].value = L!Cut(r.values[i])
      <4> SUFFICES ASSUME NEW i \in DOMAIN fields
                   PROVE  L!Parsed.values[i].valid /\ L!Parsed.values[i].value = L!Cut(r.values[i])
        OBVIOUS
      <4> DEFINE c == L!Cut(r.values[i])  x == L!Parsed.values[i]
      <4>1. x = [value |-> c, valid |-> TRUE]
        BY <3>1
      <4> HIDE DEF c, x
      <4>2. x.valid /\ x.value = c
        BY <4>1
      <4> QED BY <4>2 DEF c, x
    <3>3. ~bad /\ v = [i \in DOMAIN fields |-> L!Cut(r.values[i])]
      BY <3>2 DEF bad, v
    <3>4. /\ Len(output') = k0 + 1 /\ IsSequence(output')
          /\ output'[k0 + 1].line = line /\ output'[k0 + 1].values = v
      BY <1>3, <2>3, <3>3
    <3>5. DOMAIN output' = 1 .. k0 + 1 /\ k0 + 1 \in DOMAIN output'
      <4>1. DOMAIN output' = 1 .. Len(output')
        BY <3>4 DEF IsSequence
      <4> QED BY <1>2, <3>4, <4>1
    <3>6. ASSUME NEW k \in DOMAIN output' PROVE output'[k].line = line <=> k = k0 + 1
      <4>1. CASE k \in 1 .. k0
        <5>1. output'[k] = output[k] /\ output[k].line \in 1 .. line - 1
          BY <1>2, <1>5, <3>4, <3>5, <4>1
        <5>2. line \notin 1 .. line - 1 /\ k # k0 + 1
          BY <1>2, <4>1
        <5> QED BY <5>1, <5>2
      <4>2. CASE k \notin 1 .. k0
        <5>1. k = k0 + 1
          BY <1>2, <3>5, <4>2
        <5> QED BY <3>4, <5>1
      <4> QED BY <4>1, <4>2
    <3> QED BY <3>3, <3>4, <3>5, <3>6
  <2>4. \A n \in 1 .. line' - 1 :
          Lost(signals', n, line', output')
            \/ Returned(logged'[n], header'.fields, delimiter', output', n)
    <3> SUFFICES ASSUME NEW n \in 1 .. line
                 PROVE  Lost(signals', n, line', output')
                          \/ Returned(logged[n], fields, delimiter, output', n)
      <4>1. line' - 1 = line
        BY <1>6
      <4> QED BY <1>1, <4>1 DEF fields
    <3>1. CASE n = line
      BY <2>3, <2>6, <3>1 DEF r
    <3>2. CASE n # line
      <4>1. n \in 1 .. line - 1
        BY <1>2, <3>2
      <4> QED BY <2>2, <4>1
    <3> QED BY <3>1, <3>2
  <2> QED BY <2>4, ReplayedIs
<1>10. L!PaceKept'
  <2> SUFFICES ASSUME timing, header.time, NEW k \in 1 .. Len(output') - 1,
                      output'[k + 1].line = output'[k].line + 1,
                      signals' = 0 \/ k + 1 < Len(output')
               PROVE  output'[k + 1].at - output'[k].at
                        >= logged[output'[k + 1].line].at - logged[output'[k].line].at
    BY <1>1 DEF L!PaceKept
  <2>1. Len(output') \in Nat /\ (Len(output') = k0 \/ Len(output') = k0 + 1)
    BY <1>2, <1>3 DEF k0
  <2>2. k \in 1 .. k0 /\ output'[k] = output[k]
    <3>1. k \in 1 .. k0 /\ k \in 1 .. Len(output')
      BY <1>2, <2>1
    <3> QED BY <1>5, <3>1
  <2>3. CASE k + 1 \in 1 .. k0
    <3>1. k + 1 \in 1 .. Len(output') /\ k \in 1 .. k0 - 1
      BY <1>2, <2>1, <2>3
    <3>2. output'[k + 1] = output[k + 1]
      BY <1>5, <2>3, <3>1
    <3>3. output[k + 1].line = output[k].line + 1 =>
            output[k + 1].at - output[k].at >= logged[output[k + 1].line].at - logged[output[k].line].at
      BY <1>1, <3>1 DEF LogInv, L!PaceKept, k0
    <3> QED BY <2>2, <3>2, <3>3
  <2>4. CASE k + 1 \notin 1 .. k0
    <3>1. k + 1 \in 1 .. Len(output')
      BY <1>2, <2>1
    <3>2. output'[k + 1].line = line /\ output'[k + 1].at = clock'
      BY <1>5, <2>4, <3>1
    <3> DEFINE x == output[k].line  y == output[k].at
    <3>3. x \in 1 .. line - 1 /\ y \in Nat /\ y <= clock /\ line = x + 1
      BY <1>2, <2>2, <3>2
    <3> HIDE DEF x, y
    <3>4. x = line - 1 /\ line > 1
      BY <1>2, <3>3
    <3> DEFINE c == r.at  d == logged[line - 1].at
    <3>9. signals' = 0
      BY <1>2, <2>1, <2>4
    <3>5. clock' - clock >= c - d
      BY <1>1, <3>4, <3>9
    <3>6. c \in Nat /\ d \in Nat
      <4>1. line - 1 \in 1 .. Len(logged) /\ logged \in Seq(LogRecords)
        <5>1. logged \in Seq(LogRecords)
          BY <1>2 DEF Written
        <5>2. Len(logged) \in Nat
          BY <5>1
        <5> QED BY <1>1, <3>3, <3>4, <5>1, <5>2
      <4> QED BY <1>1, <4>1, RecordIs DEF r
    <3> HIDE DEF c, d
    <3>7. clock' - y >= c - d
      <4> DEFINE z == clock'
      <4>1. z \in Nat /\ clock \in Nat
        BY <1>1, <1>2
      <4>2. z - clock >= c - d
        BY <3>5
      <4> HIDE DEF z
      <4>3. z - y >= c - d
        BY <3>3, <3>6, <4>1, <4>2
      <4> QED BY <4>3 DEF z
    <3>8. output'[k + 1].at = clock' /\ output'[k].at = y /\ logged[output'[k + 1].line].at = c
          /\ logged[output'[k].line].at = d
      <4>1. output'[k].line = x
        BY <2>2 DEF x
      <4> QED BY <2>2, <3>2, <3>4, <4>1 DEF y, c, d, r
    <3> QED BY <3>7, <3>8
  <2> QED BY <2>3, <2>4
<1> QED BY <1>4, <1>7, <1>8, <1>9, <1>10 DEF LogInv

LEMMA LogKeeps ==
  ASSUME L!MarksTyped, LogInv, L!Next \/ UNCHANGED L!vars PROVE LogInv'
<1>1. clock \in Nat
  BY DEF LogInv, Reads
<1>2. CASE L!LoggerExit \/ L!Tick \/ L!ReplayExit \/ L!DefaultSignalHandler \/ UNCHANGED L!vars
  <2>1. /\ UNCHANGED <<L!Options, titled, file, logged, header, line, stamp, output>>
        /\ reader' \in {reader, "exit"} /\ clock' \in {clock, clock + 1}
        /\ (signals' = signals \/ (signals < 2 /\ signals' = signals + 1))
    BY <1>2 DEF L!LoggerExit, L!Tick, L!ReplayExit, L!DefaultSignalHandler, L!vars,
                L!Options, L!Writing, L!Reading
  <2>2. clock' \in Nat /\ clock <= clock'
    BY <1>1, <2>1
  <2>3. signals' \in 0 .. 2 /\ signals <= signals'
    <3>1. signals \in 0 .. 2
      BY DEF LogInv, Reads
    <3> QED BY <2>1, <3>1
  <2> QED BY <2>1, <2>2, <2>3, LogRestKeeps
<1> QED BY <1>2, CaptureKeeps, OpenKeeps, ReplayKeeps DEF L!Next

\* logger and logreplay: what was logged comes back, line by line, as it was, and no
\* faster than it was logged until a signal ends a delay; the second signal may take
\* the last record (capture_data, get_next_field, store_value, main).
THEOREM ReplayedAsLoggedCorrect == Spec => []ReplayedAsLogged
<1>1. Init => (active = "log" => LogInv)
  BY LogInitHolds DEF Init
<1>2. (active = "log" => LogInv) /\ [Next]_vars => (active = "log" => LogInv)'
  <2> SUFFICES ASSUME active = "log" => LogInv, [Next]_vars, active' = "log"
               PROVE  LogInv'
    OBVIOUS
  <2>1. CASE Next
    BY <2>1, LogKeeps, LinesTyped DEF Next
  <2>2. CASE UNCHANGED vars
    BY <2>2, LogKeeps, LinesTyped DEF vars, log, L!vars
  <2> QED BY <2>1, <2>2
<1>3. (active = "log" => LogInv) => ReplayedAsLogged
  BY DEF ReplayedAsLogged, LogInv
<1> QED BY <1>1, <1>2, <1>3, PTL DEF Spec
=============================================================================
