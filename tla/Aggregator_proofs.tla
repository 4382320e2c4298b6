------------------------- MODULE Aggregator_proofs -------------------------
(***************************************************************************)
(* Proofs about the aggregation module, for every set of keys, every set   *)
(* of timeouts and every bound.                                            *)
(***************************************************************************)
EXTENDS Aggregator, SequenceTheorems, FiniteSetTheorems, TLAPS

\* While main works on a record there is one.
TypeInv == TypeOK /\ (Pending => Len(recs) > 0)

LEMMA AbsentType == Absent \in GroupType
  BY DEF Absent, GroupType

LEMMA CurrentType ==
  ASSUME TypeInv, Pending
  PROVE  Current \in Records /\ Len(recs) \in Nat
  BY DEF TypeInv, TypeOK, Current

LEMMA InitRecordType ==
  ASSUME TypeInv, NEW r \in Records, NEW i \in Nat
  PROVE  InitRecordData(r, i) \in GroupType
  BY DEF TypeInv, TypeOK, InitRecordData, GroupType, Records

LEMMA ProcessAggType ==
  ASSUME NEW g \in GroupType, NEW r \in Records, NEW i \in Nat
  PROVE  ProcessAggFunctions(g, r, i) \in GroupType
<1> DEFINE h == ProcessAggFunctions(g, r, i)
<1>1. /\ h = [g EXCEPT !.ids = g.ids \cup {i}, !.count = g.count + 1,
                       !.first = h.first, !.last = h.last]
      /\ h.first = IF r.first < g.first THEN r.first ELSE g.first
      /\ h.last = IF r.last > g.last THEN r.last ELSE g.last
  BY DEF ProcessAggFunctions, GroupType
<1>2. h.first \in Int /\ h.last \in Int
  BY <1>1 DEF GroupType, Records
<1>3. g.ids \cup {i} \in SUBSET Nat /\ g.count + 1 \in Nat
  BY DEF GroupType
<1> HIDE DEF h
<1> QED BY <1>1, <1>2, <1>3 DEF GroupType, h

LEMMA PrepareType ==
  ASSUME NEW g \in GroupType
  PROVE  PrepareToSend(g) \in GroupType
  BY DEF PrepareToSend, GroupType

OutType == [key : Keys, ids : SUBSET Nat, count : Nat, first : Int, last : Int,
            avgs : Nat, format : Nat]

LEMMA DeliveredType ==
  ASSUME NEW k \in Keys, NEW g \in GroupType
  PROVE  Delivered(k, g) \in OutType
  BY DEF Delivered, GroupType, OutType

\* Sending and freeing stored groups keeps the types of what it changes.
LEMMA SendAndFreeType ==
  ASSUME TypeInv, NEW C \in SUBSET Keys, NEW D \in SUBSET C, SendAndFree(C, D)
  PROVE  /\ storage' \in [Keys -> GroupType]
         /\ out' \subseteq OutType
         /\ dropped' \subseteq Nat
<1>1. storage' \in [Keys -> GroupType]
  BY AbsentType DEF SendAndFree, TypeInv, TypeOK
<1>2. ASSUME NEW k \in D
      PROVE  Delivered(k, PrepareToSend(storage[k])) \in OutType
  BY <1>2, PrepareType, DeliveredType DEF TypeInv, TypeOK
<1>3. out' \subseteq OutType
  BY <1>2 DEF SendAndFree, TypeInv, TypeOK, OutType
<1>4. \A k \in Keys : storage[k].ids \subseteq Nat
  BY DEF TypeInv, TypeOK, GroupType
<1>5. dropped' \subseteq Nat
  BY <1>4 DEF SendAndFree, TypeInv, TypeOK
<1> QED BY <1>1, <1>3, <1>5

LEMMA FlushType ==
  ASSUME TypeInv, FlushStorage
  PROVE  /\ storage' \in [Keys -> GroupType]
         /\ out' \subseteq OutType
         /\ dropped' \subseteq Nat
<1>1. Stored \in SUBSET Keys
  BY DEF Stored
<1>2. PICK D \in SUBSET Stored : SendAndFree(Stored, D)
  BY DEF FlushStorage
<1> QED BY <1>1, <1>2, SendAndFreeType

\* The initial states are well typed.
LEMMA InitType == Init => TypeInv
<1> SUFFICES ASSUME Init PROVE TypeInv
  OBVIOUS
<1>1. storage \in [Keys -> GroupType]
  BY AbsentType DEF Init
<1>2. recs \in Seq(Records)
  BY DEF Init
<1>3. StartTime \in Nat
  BY ConstantsAssumption
<1>4. StartTime \in Int /\ 0 \in Nat
  BY <1>3
<1>5. TypeOK
  <2>1. stop \in BOOLEAN /\ late \in BOOLEAN
    BY DEF Init
  <2>2. todo \subseteq Keys /\ out \subseteq OutType /\ dropped \subseteq Nat
    BY DEF Init
  <2>3. mpc = "recv" /\ tpc = "start" /\ mutex = "free" /\ format = 0
    BY DEF Init
  <2>4. tlast \in Int /\ now \in Nat /\ start \in Nat /\ timeout \in TimeoutTypes
    BY <1>3, <1>4 DEF Init
  <2> QED BY <1>1, <1>2, <1>4, <2>1, <2>2, <2>3, <2>4 DEF TypeOK, OutType
<1>6. ~Pending
  BY DEF Init, Pending
<1> QED BY <1>5, <1>6 DEF TypeInv

\* The steps of the main thread keep the types.
LEMMA MainType == TypeInv /\ (Receive \/ Proceed) => TypeInv'
<1> SUFFICES ASSUME TypeInv, Receive \/ Proceed PROVE TypeInv'
  OBVIOUS
<1> USE DEF mainVars, timerVars, outcome, NextTop, Pending
<1>1. CASE RecvRecord
  <2>1. PICK k \in Keys, lag \in Lags, d \in Durations :
          recs' = Append(recs, [key |-> k, first |-> now - lag - d,
                                last |-> now - lag])
    BY <1>1 DEF RecvRecord
  <2>2. [key |-> k, first |-> now - lag - d, last |-> now - lag] \in Records
    BY ConstantsAssumption DEF Records, TypeInv, TypeOK
  <2>3. recs' \in Seq(Records) /\ Len(recs') > 0
    BY <2>1, <2>2, AppendProperties DEF TypeInv, TypeOK
  <2> QED BY <1>1, <2>3 DEF RecvRecord, TypeInv, TypeOK
<1>2. CASE RecvEOF
  BY <1>2 DEF RecvEOF, TypeInv, TypeOK
<1>3. CASE RecvTimeout
  BY <1>3 DEF RecvTimeout, TypeInv, TypeOK
<1>4. CASE RecvError
  BY <1>4 DEF RecvError, TypeInv, TypeOK
<1>5. CASE FormatFlush
  BY <1>5, FlushType DEF FormatFlush, TypeInv, TypeOK, OutType
<1>6. CASE TemplateOk
  BY <1>6 DEF TemplateOk, TypeInv, TypeOK
<1>7. CASE TemplateFail
  BY <1>7, CurrentType DEF TemplateFail, TypeInv, TypeOK
<1>8. CASE SetTime
  <2>1. Current.last \in Int
    BY <1>8, CurrentType DEF SetTime, Records
  <2> QED BY <1>8, <2>1 DEF SetTime, TypeInv, TypeOK
<1>9. CASE ProcessNew
  <2>1. InitRecordData(Current, Len(recs)) \in GroupType
    BY <1>9, CurrentType, InitRecordType DEF ProcessNew
  <2> QED BY <1>9, <2>1 DEF ProcessNew, TypeInv, TypeOK
<1>10. CASE ProcessNoMemory
  <2>1. \A k \in Keys : storage[k].ids \subseteq Nat
    BY DEF TypeInv, TypeOK, GroupType
  <2>2. dropped' \subseteq Nat
    BY <1>10, <2>1, CurrentType DEF ProcessNoMemory, TypeInv, TypeOK
  <2>3. storage' \in [Keys -> GroupType]
    BY <1>10, AbsentType DEF ProcessNoMemory
  <2> QED BY <1>10, <2>2, <2>3 DEF ProcessNoMemory, TypeInv, TypeOK
<1>11. CASE ProcessMerge
  <2>1. Current.key \in Keys
    BY <1>11, CurrentType DEF ProcessMerge, Records
  <2>2. ProcessAggFunctions(storage[Current.key], Current, Len(recs)) \in GroupType
    BY <1>11, <2>1, CurrentType, ProcessAggType DEF ProcessMerge, TypeInv, TypeOK
  <2> QED BY <1>11, <2>1, <2>2 DEF ProcessMerge, TypeInv, TypeOK
<1>12. CASE ProcessWindow
  <2>1. Current.key \in Keys
    BY <1>12, CurrentType DEF ProcessWindow, Records
  <2>2. InitRecordData(Current, Len(recs)) \in GroupType
    BY <1>12, CurrentType, InitRecordType DEF ProcessWindow
  <2>3. out' \subseteq OutType
    BY <1>12, <2>1, PrepareType, DeliveredType
       DEF ProcessWindow, TypeInv, TypeOK, OutType
  <2> QED BY <1>12, <2>2, <2>3 DEF ProcessWindow, TypeInv, TypeOK, OutType
<1>13. CASE ProcessSendFails
  <2>1. Current.key \in Keys
    BY <1>13, CurrentType DEF ProcessSendFails, Records
  <2>2. PrepareToSend(storage[Current.key]) \in GroupType
    BY <2>1, PrepareType DEF TypeInv, TypeOK
  <2>3. Len(recs) \in Nat
    BY LenProperties DEF TypeInv, TypeOK
  <2> QED BY <1>13, <2>2, <2>3 DEF ProcessSendFails, TypeInv, TypeOK
<1>14. CASE JoinAndExit
  BY <1>14, FlushType DEF JoinAndExit, TypeInv, TypeOK, OutType
<1> QED BY <1>1, <1>2, <1>3, <1>4, <1>5, <1>6, <1>7, <1>8, <1>9, <1>10, <1>11,
          <1>12, <1>13, <1>14 DEF Receive, Proceed

\* So do those of the timeout thread.
LEMMA TimerType == TypeInv /\ Timer => TypeInv'
<1> SUFFICES ASSUME TypeInv, Timer PROVE TypeInv'
  OBVIOUS
<1> USE DEF mainVars, timerVars, outcome, Pending
<1>1. CASE TimerStart
  BY <1>1, ConstantsAssumption DEF TimerStart, TypeInv, TypeOK
<1>2. CASE TimerTop
  BY <1>2 DEF TimerTop, TypeInv, TypeOK
<1>3. CASE TimerFlush
  BY <1>3, FlushType DEF TimerFlush, TypeInv, TypeOK, OutType
<1>4. CASE TimerLock
  BY <1>4 DEF TimerLock, TypeInv, TypeOK, Stored
<1>5. ASSUME NEW k \in Keys, TimerExpire(k) PROVE TypeInv'
  <2>1. PICK D \in SUBSET {k} : SendAndFree({k}, D)
    BY <1>5 DEF TimerExpire
  <2>2. /\ storage' \in [Keys -> GroupType]
        /\ out' \subseteq OutType
        /\ dropped' \subseteq Nat
    BY <2>1, SendAndFreeType
  <2> QED BY <1>5, <2>2 DEF TimerExpire, TypeInv, TypeOK, OutType
<1>6. ASSUME NEW k \in Keys, TimerKeep(k) PROVE TypeInv'
  BY <1>6 DEF TimerKeep, TypeInv, TypeOK
<1>7. CASE TimerUnlock
  BY <1>7 DEF TimerUnlock, TypeInv, TypeOK
<1>8. CASE TimerAddTime
  BY <1>8, ConstantsAssumption DEF TimerAddTime, TypeInv, TypeOK
<1> QED BY <1>1, <1>2, <1>3, <1>4, <1>5, <1>6, <1>7, <1>8 DEF Timer

LEMMA StepType == TypeInv /\ [Next]_vars => TypeInv'
<1> SUFFICES ASSUME TypeInv, [Next]_vars PROVE TypeInv'
  OBVIOUS
<1>1. CASE Tick
  BY <1>1, ConstantsAssumption
     DEF Tick, TypeInv, TypeOK, mainVars, timerVars, outcome, Pending
<1>2. CASE Signal
  BY <1>2 DEF Signal, TypeInv, TypeOK, mainVars, timerVars, outcome, Pending
<1>3. CASE UNCHANGED vars
  BY <1>3 DEF vars, TypeInv, TypeOK, Pending
<1> QED BY <1>1, <1>2, <1>3, MainType, TimerType DEF Next

\* Every variable keeps its type, whatever the constants are.
THEOREM TypeCorrect == Spec => []TypeOK
<1>1. TypeInv => TypeOK
  BY DEF TypeInv
<1> QED BY <1>1, InitType, StepType, PTL DEF Spec
-----------------------------------------------------------------------------
(***************************************************************************)
(* Who holds storage_mutex, and when the storage is known to be empty.     *)
(***************************************************************************)

Synchronised ==
  /\ mutex = "timer" <=> tpc = "scan"
  /\ mpc = "template" => mutex = "main"
  /\ mutex = "main" => mpc \in {"template", "join", "exited", "aborted"}
  /\ tpc = "scan" => todo \subseteq Stored
  /\ mpc \in {"template", "settime", "exited", "aborted"} => Stored = {}

SyncInv == TypeInv /\ Synchronised /\ TemplateCurrent

\* Exactly the groups sent are gone; the others are as they were.
LEMMA SendAndFreeStored ==
  ASSUME TypeInv, NEW C \in SUBSET Keys, NEW D \in SUBSET C, SendAndFree(C, D)
  PROVE  /\ Stored' = Stored \ C
         /\ \A k \in Stored' : storage'[k] = storage[k]
  BY DEF SendAndFree, Stored, Absent, TypeInv, TypeOK

LEMMA FlushStored == ASSUME TypeInv, FlushStorage PROVE Stored' = {}
<1>1. PICK D \in SUBSET Stored : SendAndFree(Stored, D)
  BY DEF FlushStorage
<1>2. Stored \in SUBSET Keys
  BY DEF Stored
<1> QED BY <1>1, <1>2, SendAndFreeStored

\* Giving key k a group with records and format f.
LEMMA OpenStored ==
  ASSUME TypeInv, NEW k \in Keys, NEW g \in GroupType, g.ids # {},
         storage' = [storage EXCEPT ![k] = g]
  PROVE  /\ Stored' = Stored \cup {k}
         /\ storage'[k] = g
         /\ \A j \in Keys \ {k} : storage'[j] = storage[j]
  BY DEF Stored, TypeInv, TypeOK

LEMMA InitSync == Init => SyncInv
<1> SUFFICES ASSUME Init PROVE Synchronised /\ TemplateCurrent
  BY InitType DEF SyncInv
<1>1. Stored = {}
  BY DEF Init, Stored, Absent
<1> QED BY <1>1 DEF Init, Synchronised, TemplateCurrent

LEMMA MainSync == SyncInv /\ (Receive \/ Proceed) => SyncInv'
<1> SUFFICES ASSUME SyncInv, Receive \/ Proceed
             PROVE  Synchronised' /\ TemplateCurrent'
  BY MainType DEF SyncInv
<1> USE DEF mainVars, timerVars, outcome, NextTop
<1>0. TypeInv /\ Synchronised /\ TemplateCurrent
  BY DEF SyncInv
<1>a. ASSUME UNCHANGED <<storage, format, tpc, mutex, todo>>,
             mpc' \notin {"exited", "aborted", "template", "settime"},
             mutex # "main" \/ mpc' = "join"
      PROVE  Synchronised' /\ TemplateCurrent'
  BY <1>0, <1>a DEF Synchronised, TemplateCurrent, Stored
<1>1. CASE RecvRecord
  BY <1>0, <1>1, <1>a DEF RecvRecord, Synchronised
<1>2. CASE RecvEOF
  BY <1>0, <1>2, <1>a DEF RecvEOF, Synchronised
<1>3. CASE RecvTimeout
  BY <1>0, <1>3, <1>a DEF RecvTimeout, Synchronised
<1>4. CASE RecvError
  BY <1>0, <1>4, <1>a DEF RecvError, Synchronised
<1>5. CASE FormatFlush
  <2>1. Stored' = {}
    BY <1>0, <1>5, FlushStored DEF FormatFlush
  <2>2. tpc # "scan"
    BY <1>0, <1>5 DEF FormatFlush, Synchronised
  <2> QED BY <1>5, <2>1, <2>2 DEF FormatFlush, Synchronised, TemplateCurrent
<1>6. CASE TemplateOk
  <2>1. Stored' = {}
    BY <1>0, <1>6 DEF TemplateOk, Synchronised, Stored
  <2>2. tpc # "scan"
    BY <1>0, <1>6 DEF TemplateOk, Synchronised
  <2> QED BY <1>6, <2>1, <2>2 DEF TemplateOk, Synchronised, TemplateCurrent
<1>7. CASE TemplateFail
  BY <1>0, <1>7 DEF TemplateFail, Synchronised, TemplateCurrent, Stored
<1>8. CASE SetTime
  BY <1>0, <1>8, <1>a DEF SetTime, Synchronised
<1>9. CASE ProcessNew
  <2>1. /\ Current.key \in Keys
        /\ InitRecordData(Current, Len(recs)) \in GroupType
    BY <1>0, <1>9, CurrentType, InitRecordType DEF ProcessNew, Pending, Records
  <2>2. /\ InitRecordData(Current, Len(recs)).ids # {}
        /\ InitRecordData(Current, Len(recs)).format = format
    BY DEF InitRecordData
  <2>3. TemplateCurrent'
    BY <1>0, <1>9, <2>1, <2>2, OpenStored DEF ProcessNew, TemplateCurrent, Stored
  <2>4. tpc # "scan"
    BY <1>0, <1>9 DEF ProcessNew, Synchronised
  <2> QED BY <1>0, <1>9, <2>3, <2>4 DEF ProcessNew, Synchronised
<1>10. CASE ProcessNoMemory
  <2>1. Stored' = {}
    BY <1>10 DEF ProcessNoMemory, Stored, Absent
  <2>2. tpc # "scan"
    BY <1>0, <1>10 DEF ProcessNoMemory, Synchronised
  <2> QED BY <1>10, <2>1, <2>2 DEF ProcessNoMemory, Synchronised, TemplateCurrent
<1>11. CASE ProcessMerge
  <2>1. Current.key \in Keys /\ Current.key \in Stored
    BY <1>11 DEF ProcessMerge, Stored
  <2>2. /\ ProcessAggFunctions(storage[Current.key], Current, Len(recs)) \in GroupType
        /\ storage[Current.key] \in GroupType
    BY <1>0, <1>11, <2>1, CurrentType, ProcessAggType
       DEF ProcessMerge, Pending, TypeInv, TypeOK
  <2>3. /\ ProcessAggFunctions(storage[Current.key], Current, Len(recs)).ids # {}
        /\ ProcessAggFunctions(storage[Current.key], Current, Len(recs)).format
             = storage[Current.key].format
    BY <2>2 DEF ProcessAggFunctions, GroupType
  <2>4. TemplateCurrent'
    BY <1>0, <1>11, <2>1, <2>2, <2>3, OpenStored
       DEF ProcessMerge, TemplateCurrent, Stored
  <2>5. tpc # "scan"
    BY <1>0, <1>11 DEF ProcessMerge, Synchronised
  <2> QED BY <1>0, <1>11, <2>4, <2>5 DEF ProcessMerge, Synchronised
<1>12. CASE ProcessWindow
  <2>1. /\ Current.key \in Keys
        /\ InitRecordData(Current, Len(recs)) \in GroupType
    BY <1>0, <1>12, CurrentType, InitRecordType DEF ProcessWindow, Pending, Records
  <2>2. /\ InitRecordData(Current, Len(recs)).ids # {}
        /\ InitRecordData(Current, Len(recs)).format = format
    BY DEF InitRecordData
  <2>3. TemplateCurrent'
    BY <1>0, <1>12, <2>1, <2>2, OpenStored DEF ProcessWindow, TemplateCurrent, Stored
  <2>4. tpc # "scan"
    BY <1>0, <1>12 DEF ProcessWindow, Synchronised
  <2> QED BY <1>0, <1>12, <2>3, <2>4 DEF ProcessWindow, Synchronised
<1>13. CASE ProcessSendFails
  <2>1. Current.key \in Keys /\ Current.key \in Stored
    BY <1>13 DEF ProcessSendFails, Stored
  <2>2. /\ PrepareToSend(storage[Current.key]) \in GroupType
        /\ storage[Current.key] \in GroupType
    BY <1>0, <2>1, PrepareType DEF TypeInv, TypeOK
  <2>3. /\ PrepareToSend(storage[Current.key]).ids # {}
        /\ PrepareToSend(storage[Current.key]).format = storage[Current.key].format
    BY <2>1, <2>2 DEF PrepareToSend, GroupType, Stored
  <2>4. TemplateCurrent'
    BY <1>0, <1>13, <2>1, <2>2, <2>3, OpenStored
       DEF ProcessSendFails, TemplateCurrent, Stored
  <2>5. tpc # "scan"
    BY <1>0, <1>13 DEF ProcessSendFails, Synchronised
  <2> QED BY <1>0, <1>13, <2>4, <2>5 DEF ProcessSendFails, Synchronised
<1>14. CASE JoinAndExit
  <2>1. Stored' = {}
    BY <1>0, <1>14, FlushStored DEF JoinAndExit
  <2> QED BY <1>0, <1>14, <2>1 DEF JoinAndExit, Synchronised, TemplateCurrent
<1> QED BY <1>1, <1>2, <1>3, <1>4, <1>5, <1>6, <1>7, <1>8, <1>9, <1>10, <1>11,
          <1>12, <1>13, <1>14 DEF Receive, Proceed

LEMMA TimerSync == SyncInv /\ Timer => SyncInv'
<1> SUFFICES ASSUME SyncInv, Timer PROVE Synchronised' /\ TemplateCurrent'
  BY TimerType DEF SyncInv
<1> USE DEF mainVars, timerVars, outcome, Running
<1>0. TypeInv /\ Synchronised /\ TemplateCurrent
  BY DEF SyncInv
<1>1. CASE TimerStart
  BY <1>0, <1>1 DEF TimerStart, Synchronised, TemplateCurrent, Stored
<1>2. CASE TimerTop
  BY <1>0, <1>2 DEF TimerTop, Awake, Synchronised, TemplateCurrent, Stored
<1>3. CASE TimerFlush
  <2>1. Stored' = {}
    BY <1>0, <1>3, FlushStored DEF TimerFlush
  <2> QED BY <1>0, <1>3, <2>1 DEF TimerFlush, Synchronised, TemplateCurrent
<1>4. CASE TimerLock
  BY <1>0, <1>4 DEF TimerLock, Synchronised, TemplateCurrent, Stored
<1>5. ASSUME NEW k \in Keys, TimerExpire(k)
      PROVE  Synchronised' /\ TemplateCurrent'
  <2>1. PICK D \in SUBSET {k} : SendAndFree({k}, D)
    BY <1>5 DEF TimerExpire
  <2>2. Stored' = Stored \ {k} /\ \A j \in Stored' : storage'[j] = storage[j]
    BY <1>0, <2>1, SendAndFreeStored
  <2> QED BY <1>0, <1>5, <2>2 DEF TimerExpire, Synchronised, TemplateCurrent
<1>6. ASSUME NEW k \in Keys, TimerKeep(k)
      PROVE  Synchronised' /\ TemplateCurrent'
  BY <1>0, <1>6 DEF TimerKeep, Synchronised, TemplateCurrent, Stored
<1>7. CASE TimerUnlock
  BY <1>0, <1>7 DEF TimerUnlock, Synchronised, TemplateCurrent, Stored
<1>8. CASE TimerAddTime
  BY <1>0, <1>8 DEF TimerAddTime, Synchronised, TemplateCurrent, Stored
<1> QED BY <1>1, <1>2, <1>3, <1>4, <1>5, <1>6, <1>7, <1>8 DEF Timer

LEMMA StepSync == SyncInv /\ [Next]_vars => SyncInv'
<1> SUFFICES ASSUME SyncInv, [Next]_vars PROVE SyncInv'
  OBVIOUS
<1>0. TypeInv' /\ TypeInv /\ Synchronised /\ TemplateCurrent
  BY StepType DEF SyncInv
<1>1. CASE Tick
  BY <1>0, <1>1 DEF Tick, mainVars, timerVars, outcome, SyncInv, Synchronised,
                    TemplateCurrent, Stored
<1>2. CASE Signal
  BY <1>0, <1>2 DEF Signal, mainVars, timerVars, outcome, SyncInv, Synchronised,
                    TemplateCurrent, Stored
<1>3. CASE UNCHANGED vars
  BY <1>0, <1>3 DEF vars, SyncInv, Synchronised, TemplateCurrent, Stored
<1> QED BY <1>1, <1>2, <1>3, MainSync, TimerSync DEF Next

LEMMA SyncCorrect == Spec => []SyncInv
  BY InitSync, StepSync, PTL DEF Spec

\* No stored record was made with an output template that has been replaced.
THEOREM StoredInCurrentTemplate == Spec => []TemplateCurrent
<1>1. SyncInv => TemplateCurrent
  BY DEF SyncInv
<1> QED BY <1>1, SyncCorrect, PTL

\* The unlocked read of time_last_from_record in the scan is harmless: while
\* the scan has a record to look at, nobody writes it.
THEOREM ScanReadsStableClock == Spec => ScanClockStable
<1>1. SyncInv /\ [Next]_vars => [tpc = "scan" /\ todo # {} => tlast' = tlast]_vars
  <2> SUFFICES ASSUME SyncInv, Next, tpc = "scan", todo # {}
               PROVE  tlast' = tlast
    BY DEF vars
  <2>1. Stored # {} /\ mpc # "settime"
    BY DEF SyncInv, Synchronised
  <2>2. CASE Receive \/ Proceed
    BY <2>1, <2>2 DEF Receive, Proceed, RecvRecord, RecvEOF, RecvTimeout, RecvError,
         FormatFlush, TemplateOk, TemplateFail, SetTime, ProcessNew,
         ProcessNoMemory, ProcessMerge, ProcessWindow, ProcessSendFails, JoinAndExit
  <2>3. CASE Timer
    BY <2>3 DEF Timer, TimerStart, TimerTop, Awake, TimerFlush, TimerLock, TimerExpire,
         TimerKeep, TimerUnlock, TimerAddTime
  <2>4. CASE Tick \/ Signal
    BY <2>4 DEF Tick, Signal
  <2> QED BY <2>2, <2>3, <2>4 DEF Next
<1> QED BY <1>1, SyncCorrect, PTL DEF Spec, ScanClockStable
-----------------------------------------------------------------------------
(***************************************************************************)
(* The passive timeout is never early.                                     *)
(***************************************************************************)

\* The clock has been set from a record, and nothing is stored before.
Clocked == format > 0 /\ ~(mpc = "settime" /\ format = 1)

Formatted ==
  /\ mpc \in {"settime", "process"} => format > 0
  /\ format = 0 => Stored = {}

\* Only the passive types scan.
PassiveScan ==
  /\ tpc \notin {"start", "done"} => timeout # "active"
  /\ tpc = "scan" => Passive

\* Nothing is dated in the future: neither a round nor a received flow.
InThePast ==
  /\ start <= now
  /\ Pending => Current.last <= now

\* The clock is at most where the round under way began; while the thread
\* sleeps, at most where the next one will begin.
ClockLimit ==
  /\ tpc \in {"lock", "scan", "addtime"} => tlast <= start
  /\ tpc = "sleep" => tlast <= start + PassiveT \/ tlast <= now
  /\ tpc = "top" => tlast <= now
ClockBehind == Passive /\ Clocked /\ ~late => ClockLimit

ClockInv == SyncInv /\ Formatted /\ PassiveScan /\ InThePast /\ ClockBehind

LEMMA InitClock == Init => ClockInv
<1> SUFFICES ASSUME Init PROVE Formatted /\ PassiveScan /\ InThePast /\ ClockBehind
  BY InitSync DEF ClockInv
<1>1. Stored = {}
  BY DEF Init, Stored, Absent
<1> QED BY <1>1, ConstantsAssumption
     DEF Init, Formatted, PassiveScan, InThePast, ClockBehind, Clocked, Pending

LEMMA MainClock == ClockInv /\ (Receive \/ Proceed) => ClockInv'
<1> SUFFICES ASSUME ClockInv, Receive \/ Proceed
             PROVE  Formatted' /\ PassiveScan' /\ InThePast' /\ ClockBehind'
  BY MainSync DEF ClockInv
<1>0. TypeInv /\ Formatted /\ PassiveScan /\ InThePast /\ ClockBehind /\ TypeInv'
  BY MainSync DEF ClockInv, SyncInv
<1>t. /\ format \in Nat /\ tlast \in Int /\ now \in Nat /\ start \in Nat /\ PassiveT \in Nat
      /\ late \in BOOLEAN /\ Len(recs) \in Nat /\ timeout' = timeout
  <2>1. timeout' = timeout
    BY DEF Receive, Proceed, RecvRecord, RecvEOF, RecvTimeout, RecvError, FormatFlush,
       TemplateOk, TemplateFail, SetTime, ProcessNew, ProcessNoMemory, ProcessMerge,
       ProcessWindow, ProcessSendFails, JoinAndExit
  <2> QED BY <1>0, <2>1, ConstantsAssumption DEF TypeInv, TypeOK
<1>p. PassiveScan'
  <2>1. tpc' = tpc
    BY DEF Receive, Proceed, RecvRecord, RecvEOF, RecvTimeout, RecvError, FormatFlush,
       TemplateOk, TemplateFail, SetTime, ProcessNew, ProcessNoMemory, ProcessMerge,
       ProcessWindow, ProcessSendFails, JoinAndExit, timerVars
  <2> QED BY <1>0, <1>t, <2>1 DEF PassiveScan, Passive
\* All of main's steps but SetTime leave the clock and the timeout thread alone.
<1>a. ASSUME UNCHANGED <<timerVars, tlast, now>>, Clocked' => Clocked
      PROVE  ClockBehind'
  BY <1>0, <1>a, <1>t DEF ClockBehind, ClockLimit, timerVars, Passive
<1>b. ASSUME UNCHANGED <<recs, now, start>>, Pending' => Pending
      PROVE  InThePast'
  BY <1>0, <1>b DEF InThePast, Current
<1>c. ASSUME UNCHANGED storage
      PROVE  Stored' = Stored
  BY <1>c DEF Stored
<1>1. CASE RecvRecord
  <2>1. PICK k \in Keys, lag \in Lags, d \in Durations :
          recs' = Append(recs, [key |-> k, first |-> now - lag - d, last |-> now - lag])
    BY <1>1 DEF RecvRecord
  <2>2. Current'.last = now - lag
    BY <1>0, <2>1 DEF Current, TypeInv, TypeOK
  <2>3. InThePast'
    BY <1>0, <1>1, <1>t, <2>2, ConstantsAssumption
       DEF RecvRecord, InThePast, timerVars
  <2>4. Formatted'
    BY <1>0, <1>1, <1>c DEF RecvRecord, Formatted, outcome
  <2>5. ClockBehind'
    BY <1>1, <1>a DEF RecvRecord, Clocked
  <2> QED BY <1>p, <2>3, <2>4, <2>5
<1>2. CASE RecvEOF \/ RecvTimeout \/ RecvError
  <2>1. InThePast'
    BY <1>2, <1>b DEF RecvEOF, RecvTimeout, RecvError, timerVars, Pending, NextTop
  <2>2. Formatted'
    BY <1>0, <1>2, <1>c DEF RecvEOF, RecvTimeout, RecvError, Formatted, outcome, NextTop
  <2>3. ClockBehind'
    BY <1>2, <1>a DEF RecvEOF, RecvTimeout, RecvError, Clocked, NextTop
  <2> QED BY <1>p, <2>1, <2>2, <2>3
<1>3. CASE FormatFlush \/ JoinAndExit
  <2>1. Stored' = {}
    BY <1>0, <1>3, FlushStored DEF FormatFlush, JoinAndExit
  <2>2. InThePast'
    BY <1>3, <1>b DEF FormatFlush, JoinAndExit, timerVars, Pending
  <2>3. Formatted'
    BY <1>0, <1>3, <2>1 DEF FormatFlush, JoinAndExit, Formatted
  <2>4. ClockBehind'
    BY <1>3, <1>a DEF FormatFlush, JoinAndExit, Clocked
  <2> QED BY <1>p, <2>2, <2>3, <2>4
<1>4. CASE TemplateOk
  <2>1. InThePast'
    BY <1>4, <1>b DEF TemplateOk, timerVars, Pending
  <2>2. Formatted'
    BY <1>0, <1>4, <1>t DEF TemplateOk, Formatted
  <2>3. ClockBehind'
    BY <1>4, <1>a, <1>t DEF TemplateOk, Clocked
  <2> QED BY <1>p, <2>1, <2>2, <2>3
<1>5. CASE TemplateFail
  <2>1. InThePast'
    BY <1>5, <1>b DEF TemplateFail, timerVars, Pending
  <2>2. Formatted'
    BY <1>0, <1>5, <1>c DEF TemplateFail, Formatted
  <2>3. ClockBehind'
    BY <1>5, <1>a DEF TemplateFail, Clocked
  <2> QED BY <1>p, <2>1, <2>2, <2>3
\* The clock is set: to the past, and if to later than the begin of a round
\* under way, late records it.
<1>6. CASE SetTime
  <2>1. InThePast'
    BY <1>6, <1>b DEF SetTime, Pending
  <2>2. Formatted'
    BY <1>0, <1>6, <1>c DEF SetTime, Formatted, outcome
  <2>3. tlast' \in Int /\ tlast' = Current.last /\ tlast' <= now
    BY <1>0, <1>6 DEF SetTime, InThePast, Pending, TypeInv, TypeOK
  <2>4. ~late' => ClockLimit'
    <3>1. /\ tpc' = tpc /\ start' = start /\ now' = now
          /\ late' = (late \/ (tpc \in {"lock", "scan", "addtime"} /\ start < Current.last))
      BY <1>6 DEF SetTime
    <3>2. ~late' => ~(tpc \in {"lock", "scan", "addtime"} /\ start < tlast')
      BY <2>3, <3>1
    <3> QED BY <1>t, <2>3, <3>1, <3>2 DEF ClockLimit
  <2>5. ClockBehind'
    BY <2>4 DEF ClockBehind
  <2> QED BY <1>p, <2>1, <2>2, <2>5
<1>7. CASE ProcessNew \/ ProcessMerge \/ ProcessWindow \/ ProcessSendFails \/ ProcessNoMemory
  <2>1. InThePast'
    BY <1>7, <1>b DEF ProcessNew, ProcessMerge, ProcessWindow, ProcessSendFails,
       ProcessNoMemory, timerVars, Pending, NextTop
  <2>2. format' = format /\ mpc = "process" /\ mpc' \notin {"settime", "process"}
    BY <1>7 DEF ProcessNew, ProcessMerge, ProcessWindow, ProcessSendFails,
       ProcessNoMemory, NextTop
  <2>3. Formatted'
    BY <1>0, <1>t, <2>2 DEF Formatted
  <2>4. ClockBehind'
    BY <1>7, <1>a, <2>2 DEF ProcessNew, ProcessMerge, ProcessWindow, ProcessSendFails,
       ProcessNoMemory, Clocked
  <2> QED BY <1>p, <2>1, <2>3, <2>4
<1> QED BY <1>p, <1>1, <1>2, <1>3, <1>4, <1>5, <1>6, <1>7 DEF Receive, Proceed

LEMMA TimerClock == ClockInv /\ Timer => ClockInv'
<1> SUFFICES ASSUME ClockInv, Timer
             PROVE  Formatted' /\ PassiveScan' /\ InThePast' /\ ClockBehind'
  BY TimerSync DEF ClockInv
<1>0. TypeInv /\ Formatted /\ PassiveScan /\ InThePast /\ ClockBehind
  BY DEF ClockInv, SyncInv
<1>t. /\ format \in Nat /\ tlast \in Int /\ now \in Nat /\ start \in Nat
      /\ PassiveT \in Nat /\ late \in BOOLEAN
  BY <1>0, ConstantsAssumption DEF TypeInv, TypeOK
<1>u. UNCHANGED <<mpc, format, recs, timeout, now>>
  BY DEF Timer, TimerStart, TimerTop, TimerFlush, TimerLock, TimerExpire, TimerKeep,
     TimerUnlock, TimerAddTime, mainVars
<1>1. Stored' \subseteq Stored
  <2>1. CASE UNCHANGED storage
    BY <2>1 DEF Stored
  <2>2. CASE TimerFlush
    BY <1>0, <2>2, FlushStored DEF TimerFlush
  <2>3. ASSUME NEW k \in Keys, TimerExpire(k)
        PROVE  Stored' \subseteq Stored
    <3>1. PICK D \in SUBSET {k} : SendAndFree({k}, D)
      BY <2>3 DEF TimerExpire
    <3>2. {k} \in SUBSET Keys
      OBVIOUS
    <3> QED BY <1>0, <3>1, <3>2, SendAndFreeStored
  <2> QED BY <2>1, <2>2, <2>3 DEF Timer, TimerStart, TimerTop, TimerLock, TimerKeep,
             TimerUnlock, TimerAddTime, outcome
<1>2. Formatted'
  BY <1>0, <1>1, <1>u DEF Formatted
<1>3. start' \in {start, now}
  BY DEF Timer, TimerStart, TimerTop, TimerFlush, TimerLock, TimerExpire, TimerKeep,
     TimerUnlock, TimerAddTime
<1>4. InThePast'
  BY <1>0, <1>3, <1>t, <1>u DEF InThePast, Pending, Current
<1>5. Clocked' = Clocked /\ Passive' = Passive
  BY <1>u DEF Clocked, Passive
<1>p. PassiveScan'
  <2>1. timeout \in {"active", "passive", "mixed", "global"}
    BY <1>0, ConstantsAssumption DEF TypeInv, TypeOK
  <2> QED BY <1>0, <1>u, <2>1 DEF PassiveScan, Passive, Timer, TimerStart, TimerTop, Awake,
             TimerFlush, TimerLock, TimerExpire, TimerKeep, TimerUnlock, TimerAddTime
\* Before the clock was set, or once late has been recorded, nothing is claimed.
<1>6. ASSUME Passive, Clocked, ~late' PROVE ClockLimit'
  <2>0. format > 0 /\ timeout # "global"
    BY <1>6 DEF Clocked, Passive
  <2>1. CASE TimerStart
    BY <1>6, <2>0, <2>1 DEF TimerStart
  <2>a. ASSUME late' = late PROVE ClockLimit
    BY <1>0, <1>6, <2>a DEF ClockBehind
  <2>2. CASE TimerTop
    <3>1. ClockLimit
      BY <2>2, <2>a DEF TimerTop
    <3>2. CASE stop
      BY <2>2, <3>2 DEF TimerTop, ClockLimit
    <3>3. CASE ~stop
      BY <1>t, <2>0, <2>2, <3>1, <3>3 DEF TimerTop, Awake, ClockLimit
    <3> QED BY <3>2, <3>3
  <2>3. CASE TimerFlush
    BY <2>0, <2>3 DEF TimerFlush
  <2>4. CASE TimerLock
    BY <2>4, <2>a DEF TimerLock, ClockLimit
  <2>5. ASSUME NEW k \in Keys, TimerExpire(k) \/ TimerKeep(k) PROVE ClockLimit'
    BY <2>5, <2>a DEF TimerExpire, TimerKeep, ClockLimit
  <2>6. CASE TimerUnlock
    BY <2>6, <2>a DEF TimerUnlock, ClockLimit
  <2>7. CASE TimerAddTime
    BY <1>t, <2>7, <2>a DEF TimerAddTime, ClockLimit
  <2> QED BY <2>1, <2>2, <2>3, <2>4, <2>5, <2>6, <2>7 DEF Timer
<1>7. ClockBehind'
  BY <1>5, <1>6 DEF ClockBehind
<1> QED BY <1>2, <1>p, <1>4, <1>7

LEMMA StepClock == ClockInv /\ [Next]_vars => ClockInv'
<1> SUFFICES ASSUME ClockInv, [Next]_vars PROVE ClockInv'
  OBVIOUS
<1>0. TypeInv /\ Formatted /\ PassiveScan /\ InThePast /\ ClockBehind /\ SyncInv'
  BY StepSync DEF ClockInv, SyncInv
<1>t. /\ format \in Nat /\ tlast \in Int /\ now \in Nat /\ start \in Nat
      /\ PassiveT \in Nat
  BY <1>0, ConstantsAssumption DEF TypeInv, TypeOK
<1>1. ASSUME UNCHANGED <<timeout, tlast, mainVars, timerVars, storage>>,
             now' = now \/ now' = now + 1
      PROVE  Formatted' /\ PassiveScan' /\ InThePast' /\ ClockBehind'
  <2>1. Formatted'
    BY <1>0, <1>1 DEF Formatted, Stored, mainVars
  <2>2. Pending => Current.last \in Int
    BY <1>0, CurrentType DEF Records
  <2>3. InThePast'
    BY <1>0, <1>1, <1>t, <2>2 DEF InThePast, Pending, Current, mainVars, timerVars
  <2>4. ClockBehind'
    BY <1>0, <1>1, <1>t DEF ClockBehind, ClockLimit, Passive, Clocked, mainVars, timerVars
  <2>5. PassiveScan'
    BY <1>0, <1>1 DEF PassiveScan, Passive, timerVars
  <2> QED BY <2>1, <2>3, <2>4, <2>5
<1>2. CASE Tick
  BY <1>0, <1>1, <1>2 DEF Tick, outcome, ClockInv
<1>3. CASE Signal
  BY <1>0, <1>1, <1>3 DEF Signal, outcome, ClockInv
<1>4. CASE UNCHANGED vars
  BY <1>0, <1>1, <1>4 DEF vars, mainVars, timerVars, ClockInv
<1> QED BY <1>2, <1>3, <1>4, MainClock, TimerClock DEF Next

\* Only the scan empties a stored group while it runs: the others wait for
\* the mutex.
LEMMA ExpiredIdle ==
  ASSUME ClockInv, Next, NEW k \in Keys, Expired(k)
  PROVE  Idle(storage[k])
<1>0. TypeInv /\ Synchronised /\ tpc = "scan" /\ mutex = "timer" /\ tpc' = "scan"
  BY DEF Expired, ClockInv, SyncInv, Synchronised
<1>1. storage' # storage
  BY DEF Expired
<1>2. PICK j \in Keys : TimerExpire(j)
  <2>1. ~(Tick \/ Signal)
    BY <1>1 DEF Tick, Signal, outcome
  <2>2. mpc \notin {"template", "settime"}
    BY <1>0, <1>1 DEF Synchronised, Expired, Stored
  <2>3. ~Receive
    BY <1>1 DEF Receive, RecvRecord, RecvEOF, RecvError, outcome
  <2>4. ~Proceed
    BY <1>0, <1>1, <2>2 DEF Proceed, RecvTimeout, FormatFlush, TemplateOk, TemplateFail,
       SetTime, ProcessNew, ProcessNoMemory, ProcessMerge, ProcessWindow,
       ProcessSendFails, JoinAndExit, outcome
  <2>5. Timer
    BY <2>1, <2>3, <2>4 DEF Next
  <2> QED BY <1>0, <1>1, <2>5 DEF Timer, TimerStart, TimerTop, Awake, TimerFlush, TimerLock,
             TimerKeep, TimerUnlock, TimerAddTime, outcome
<1>3. j = k
  <2>1. PICK D \in SUBSET {j} : SendAndFree({j}, D)
    BY <1>2 DEF TimerExpire
  <2>2. \A i \in Keys : i # j => storage'[i] = storage[i]
    BY <2>1 DEF SendAndFree
  <2> QED BY <2>2 DEF Expired
<1> QED BY <1>2, <1>3 DEF TimerExpire

LEMMA ExpiredNotEarly ==
  ASSUME ClockInv, Next, ~late, NEW k \in Keys, Expired(k)
  PROVE  storage[k].last + PassiveT <= now
<1>1. Idle(storage[k])
  BY ExpiredIdle
<1>2. /\ tpc = "scan" /\ Passive /\ k \in Stored
      /\ Formatted /\ InThePast /\ ClockBehind /\ Synchronised
  BY DEF Expired, ClockInv, PassiveScan, Stored, SyncInv
<1>3. /\ tlast \in Int /\ start \in Nat /\ now \in Nat /\ PassiveT \in Nat
      /\ storage[k].last \in Int /\ format \in Nat
  BY ConstantsAssumption DEF ClockInv, SyncInv, TypeInv, TypeOK, GroupType
<1>4. Clocked
  <2>1. format # 0 /\ mpc # "settime"
    BY <1>2 DEF Formatted, Synchronised
  <2> QED BY <1>3, <2>1 DEF Clocked
<1>5. ClockLimit
  BY <1>2, <1>4 DEF ClockBehind
<1>6. tlast <= start /\ start <= now
  BY <1>2, <1>5 DEF ClockLimit, InThePast
<1> QED BY <1>1, <1>3, <1>6 DEF Idle

\* A group leaves in a passive scan only when PassiveT seconds have passed
\* since its last flow, unless the first record of a format came before the
\* timeout thread, or in the middle of a round of it.
THEOREM PassiveIsNeverEarly == Spec => PassiveNeverEarlyOnTime
<1>1. ClockInv /\ [Next]_vars => [late \/ \A k \in Keys : NeverEarly(k)]_vars
  BY ExpiredNotEarly DEF NeverEarly
<1> QED BY <1>1, InitClock, StepClock, PTL DEF Spec, PassiveNeverEarlyOnTime
-----------------------------------------------------------------------------
(***************************************************************************)
(* Every processed record is in exactly one place.                         *)
(***************************************************************************)

Partition == PlacedSomewhere /\ StoredApart /\ SentApart /\ KeysAgree

PartInv == SyncInv /\ Partition

\* What Partition says, number by number.
LEMMA DecidedRange ==
  ASSUME TypeInv
  PROVE  /\ Len(recs) \in Nat
         /\ Decided \subseteq 1 .. Len(recs)
         /\ Pending => /\ Len(recs) \notin Decided
                       /\ 1 .. Len(recs) = Decided \cup {Len(recs)}
         /\ ~Pending => Decided = 1 .. Len(recs)
<1>1. Len(recs) \in Nat
  BY DEF TypeInv, TypeOK
<1> QED BY <1>1 DEF Decided, TypeInv

\* A group's records are among the decided ones.
LEMMA PlacedDecided ==
  ASSUME TypeInv, PlacedSomewhere
  PROVE  /\ \A k \in Keys : storage[k].ids \subseteq Decided
         /\ \A o \in out : o.ids \subseteq Decided
         /\ dropped \subseteq Decided
<1> DEFINE A == UNION {storage[k].ids : k \in Keys}
           B == UNION {o.ids : o \in out}
<1>1. \A k \in Keys : storage[k].ids \subseteq A
  OBVIOUS
<1>2. \A o \in out : o.ids \subseteq B
  OBVIOUS
<1>3. Decided = dropped \cup A \cup B
  BY DEF PlacedSomewhere
<1> HIDE DEF A, B
<1> QED BY <1>1, <1>2, <1>3

\* Groups of different keys have no record in common.
LEMMA KeysApart ==
  ASSUME KeysAgree
  PROVE  \A j, k \in Keys : j # k => storage[j].ids \cap storage[k].ids = {}
  BY DEF KeysAgree

\* Nothing but the numbers and the keys of the records matters.
LEMMA PartitionStutter ==
  ASSUME Partition, UNCHANGED <<storage, out, dropped, recs>>, Decided' = Decided
  PROVE  Partition'
  BY DEF Partition, PlacedSomewhere, StoredApart, SentApart, KeysAgree

LEMMA SendAndFreePartition ==
  ASSUME TypeInv, Partition, NEW C \in SUBSET Keys, NEW D \in SUBSET C,
         SendAndFree(C, D), UNCHANGED recs, Decided' = Decided
  PROVE  Partition'
<1> DEFINE S == {Delivered(k, PrepareToSend(storage[k])) : k \in D}
<1>1. \A k \in Keys : storage'[k].ids = IF k \in C THEN {} ELSE storage[k].ids
  BY DEF SendAndFree, Absent
<1>2. \A k \in Keys : storage[k] \in GroupType
  BY DEF TypeInv, TypeOK
<1>3. \A k \in D : /\ Delivered(k, PrepareToSend(storage[k])).ids = storage[k].ids
                  /\ Delivered(k, PrepareToSend(storage[k])).key = k
  BY <1>2 DEF Delivered, PrepareToSend, GroupType
<1>4. /\ \A o \in S : o.key \in D /\ o.ids = storage[o.key].ids
      /\ \A o, p \in S : o # p => o.key # p.key
      /\ \A k \in D : \E o \in S : o.key = k
  BY <1>3
<1>5. out' = out \cup S /\ dropped' = dropped \cup (UNION {storage[k].ids : k \in C \ D})
  BY DEF SendAndFree
<1> HIDE DEF S
<1>6. PlacedSomewhere'
  <2>1. ASSUME NEW i \in Decided
        PROVE  i \in dropped' \/ (\E k \in Keys : i \in storage'[k].ids)
                              \/ (\E o \in out' : i \in o.ids)
    <3>1. CASE i \in dropped \/ \E o \in out : i \in o.ids
      BY <3>1, <1>5
    <3>2. CASE \E k \in Keys : i \in storage[k].ids
      <4>1. PICK k \in Keys : i \in storage[k].ids
        BY <3>2
      <4>2. CASE k \in D
        BY <4>1, <4>2, <1>4, <1>5
      <4>3. CASE k \in C \ D
        BY <4>1, <4>3, <1>5
      <4>4. CASE k \notin C
        BY <4>1, <4>4, <1>1
      <4> QED BY <4>2, <4>3, <4>4
    <3> QED BY <3>1, <3>2 DEF Partition, PlacedSomewhere
  <2>2. /\ dropped' \subseteq Decided
        /\ \A k \in Keys : storage'[k].ids \subseteq Decided
        /\ \A o \in out' : o.ids \subseteq Decided
    BY PlacedDecided, <1>1, <1>4, <1>5 DEF Partition
  <2>3. Decided = dropped' \cup (UNION {storage'[k].ids : k \in Keys})
                           \cup (UNION {o.ids : o \in out'})
    BY <2>1, <2>2
  <2> QED BY <2>3 DEF PlacedSomewhere
<1>7. StoredApart'
  <2> SUFFICES ASSUME NEW k \in Keys, k \notin C
               PROVE  /\ storage[k].ids \cap dropped' = {}
                      /\ \A o \in out' : storage[k].ids \cap o.ids = {}
    BY <1>1 DEF StoredApart
  <2>1. \A j \in C : storage[k].ids \cap storage[j].ids = {}
    BY KeysApart DEF Partition
  <2> QED BY <2>1, <1>4, <1>5 DEF Partition, StoredApart
<1>8. SentApart'
  <2>1. \A o \in S : /\ o.ids \cap dropped = {}
                    /\ \A p \in out : p.ids \cap o.ids = {}
    BY <1>4 DEF Partition, StoredApart
  <2>2. \A o, p \in S : o # p => p.ids \cap o.ids = {}
    BY <1>4, KeysApart DEF Partition
  <2>3. \A o \in S : \A k \in C \ D : o.ids \cap storage[k].ids = {}
    BY <1>4, KeysApart DEF Partition
  <2>4. \A o \in out : \A k \in C : o.ids \cap storage[k].ids = {}
    BY DEF Partition, StoredApart
  <2>5. \A o \in out' : o.ids \cap dropped' = {}
    BY <1>5, <2>1, <2>3, <2>4 DEF Partition, SentApart
  <2>6. \A o, p \in out' : p # o => p.ids \cap o.ids = {}
    BY <1>5, <2>1, <2>2 DEF Partition, SentApart
  <2> QED BY <2>5, <2>6 DEF SentApart
<1>9. KeysAgree'
  BY <1>1, <1>4, <1>5 DEF Partition, KeysAgree
<1> QED BY <1>6, <1>7, <1>8, <1>9 DEF Partition

LEMMA FlushPartition ==
  ASSUME TypeInv, Partition, FlushStorage, UNCHANGED recs, Decided' = Decided
  PROVE  Partition'
<1>1. PICK D \in SUBSET Stored : SendAndFree(Stored, D)
  BY DEF FlushStorage
<1>2. Stored \in SUBSET Keys
  BY DEF Stored
<1> QED BY <1>1, <1>2, SendAndFreePartition

\* The record main works on joins the group of its key, or opens it.
LEMMA AcceptPartition ==
  ASSUME TypeInv, Partition, Pending, NEW k \in Keys, Current.key = k,
         NEW g \in GroupType, g.ids = storage[k].ids \cup {Len(recs)},
         storage' = [storage EXCEPT ![k] = g],
         UNCHANGED <<out, dropped, recs>>, Decided' = Decided \cup {Len(recs)}
  PROVE  Partition'
<1> DEFINE i == Len(recs)
<1>1. \A j \in Keys : storage'[j].ids = IF j = k THEN storage[k].ids \cup {i}
                                               ELSE storage[j].ids
  BY DEF TypeInv, TypeOK
<1>2. i \notin Decided /\ recs[i].key = k
  BY DecidedRange DEF Current
<1>3. /\ \A j \in Keys : i \notin storage[j].ids
      /\ \A o \in out : i \notin o.ids
      /\ i \notin dropped
  BY <1>2, PlacedDecided DEF Partition
<1>4. PlacedSomewhere'
  <2>1. UNION {storage'[j].ids : j \in Keys}
          = (UNION {storage[j].ids : j \in Keys}) \cup {i}
    BY <1>1
  <2> QED BY <2>1 DEF Partition, PlacedSomewhere
<1>5. StoredApart'
  BY <1>1, <1>3 DEF Partition, StoredApart
<1>6. SentApart' /\ KeysAgree'
  BY <1>1, <1>2 DEF Partition, SentApart, KeysAgree
<1> QED BY <1>4, <1>5, <1>6 DEF Partition

\* The record main works on opens its key's next group, the last one delivered.
LEMMA RestartPartition ==
  ASSUME TypeInv, Partition, Pending, NEW k \in Keys, Current.key = k,
         NEW g \in GroupType, g.ids = {Len(recs)},
         storage' = [storage EXCEPT ![k] = g],
         out' = out \cup {Delivered(k, PrepareToSend(storage[k]))},
         UNCHANGED <<dropped, recs>>, Decided' = Decided \cup {Len(recs)}
  PROVE  Partition'
<1> DEFINE i == Len(recs)
           d == Delivered(k, PrepareToSend(storage[k]))
<1>1. \A j \in Keys : storage'[j].ids = IF j = k THEN {i} ELSE storage[j].ids
  BY DEF TypeInv, TypeOK
<1>2. i \notin Decided /\ recs[i].key = k
  BY DecidedRange DEF Current
<1>3. d.key = k /\ d.ids = storage[k].ids
  BY DEF Delivered, PrepareToSend, TypeInv, TypeOK, GroupType
<1>4. out' = out \cup {d}
  OBVIOUS
<1> HIDE DEF d
<1>5. /\ \A j \in Keys : i \notin storage[j].ids
      /\ \A o \in out : i \notin o.ids
      /\ i \notin dropped
  BY <1>2, PlacedDecided DEF Partition
<1>6. PlacedSomewhere'
  <2>1. (UNION {storage'[j].ids : j \in Keys}) \cup (UNION {o.ids : o \in out'})
          = (UNION {storage[j].ids : j \in Keys}) \cup (UNION {o.ids : o \in out})
              \cup {i}
    BY <1>1, <1>3, <1>4
  <2> QED BY <2>1 DEF Partition, PlacedSomewhere
<1>7. StoredApart'
  BY <1>1, <1>3, <1>4, <1>5, KeysApart DEF Partition, StoredApart
<1>8. SentApart'
  BY <1>3, <1>4 DEF Partition, StoredApart, SentApart
<1>9. KeysAgree'
  BY <1>1, <1>2, <1>3, <1>4 DEF Partition, KeysAgree
<1> QED BY <1>6, <1>7, <1>8, <1>9 DEF Partition

\* The record main works on, and the groups of C, are lost.
LEMMA LosePartition ==
  ASSUME TypeInv, Partition, Pending, NEW C \in SUBSET Keys,
         \A j \in Keys : storage'[j].ids = IF j \in C THEN {} ELSE storage[j].ids,
         dropped' = dropped \cup {Len(recs)} \cup (UNION {storage[j].ids : j \in C}),
         UNCHANGED <<out, recs>>, Decided' = Decided \cup {Len(recs)}
  PROVE  Partition'
<1>1. Len(recs) \notin Decided
  BY DecidedRange
<1>2. /\ \A j \in Keys : Len(recs) \notin storage[j].ids
      /\ \A o \in out : Len(recs) \notin o.ids
  BY <1>1, PlacedDecided DEF Partition
<1>3. PlacedSomewhere'
  <2>1. dropped' \cup (UNION {storage'[j].ids : j \in Keys})
          = dropped \cup {Len(recs)} \cup (UNION {storage[j].ids : j \in Keys})
    OBVIOUS
  <2> QED BY <2>1 DEF Partition, PlacedSomewhere
<1>4. StoredApart'
  BY <1>2, KeysApart DEF Partition, StoredApart
<1>5. SentApart'
  BY <1>2 DEF Partition, StoredApart, SentApart
<1>6. KeysAgree'
  BY DEF Partition, KeysAgree
<1> QED BY <1>3, <1>4, <1>5, <1>6 DEF Partition

\* What main decides, it decides once.
LEMMA DecideOne ==
  ASSUME TypeInv, Pending, ~Pending', UNCHANGED recs
  PROVE  Decided' = Decided \cup {Len(recs)}
<1>1. Decided' = 1 .. Len(recs)
  BY DEF Decided
<1> QED BY <1>1, DecidedRange

LEMMA InitPartition == Init => PartInv
<1> SUFFICES ASSUME Init PROVE Partition
  BY InitSync DEF PartInv
<1>1. Decided = {}
  BY DEF Init, Decided, Pending
<1>2. \A k \in Keys : storage[k].ids = {}
  BY DEF Init, Absent
<1> QED BY <1>1, <1>2 DEF Init, Partition, PlacedSomewhere, StoredApart, SentApart,
                          KeysAgree

LEMMA MainPartition == PartInv /\ (Receive \/ Proceed) => PartInv'
<1> SUFFICES ASSUME PartInv, Receive \/ Proceed PROVE Partition'
  BY MainSync DEF PartInv
<1> USE DEF mainVars, timerVars, outcome
<1>0. TypeInv /\ Synchronised /\ Partition
  BY DEF PartInv, SyncInv
<1>1. CASE RecvRecord
  <2>1. PICK r \in Records : recs' = Append(recs, r)
    <3>1. PICK k \in Keys, lag \in Lags, d \in Durations :
            recs' = Append(recs, [key |-> k, first |-> now - lag - d,
                                  last |-> now - lag])
      BY <1>1 DEF RecvRecord
    <3>2. [key |-> k, first |-> now - lag - d, last |-> now - lag] \in Records
      BY <1>0, ConstantsAssumption DEF Records, TypeInv, TypeOK
    <3> QED BY <3>1, <3>2
  <2>2. /\ Len(recs') = Len(recs) + 1
        /\ \A i \in 1 .. Len(recs) : recs'[i] = recs[i]
    BY <1>0, <2>1, AppendProperties DEF TypeInv, TypeOK
  <2>3. Len(recs) \in Nat /\ ~Pending /\ Pending'
    BY <1>0, <1>1 DEF RecvRecord, Pending, TypeInv, TypeOK
  <2>4. Decided = 1 .. Len(recs) /\ Decided' = Decided
    BY <2>2, <2>3 DEF Decided
  <2>5. KeysAgree'
    BY <1>0, <1>1, <2>2, <2>4, PlacedDecided DEF RecvRecord, Partition, KeysAgree
  <2> QED BY <1>0, <1>1, <2>4, <2>5
          DEF RecvRecord, Partition, PlacedSomewhere, StoredApart, SentApart
<1>2. CASE RecvEOF \/ RecvTimeout \/ RecvError
  <2>1. UNCHANGED <<storage, out, dropped, recs>> /\ ~Pending /\ ~Pending'
    BY <1>2 DEF RecvEOF, RecvTimeout, RecvError, Pending, NextTop
  <2> QED BY <1>0, <2>1, PartitionStutter DEF Decided
<1>3. CASE TemplateOk \/ SetTime
  <2>1. UNCHANGED <<storage, out, dropped, recs>> /\ Pending /\ Pending'
    BY <1>3 DEF TemplateOk, SetTime, Pending
  <2> QED BY <1>0, <2>1, PartitionStutter DEF Decided
<1>4. CASE FormatFlush
  <2>1. FlushStorage /\ UNCHANGED recs /\ Pending /\ Pending'
    BY <1>4 DEF FormatFlush, Pending
  <2> QED BY <1>0, <2>1, FlushPartition DEF Decided
<1>5. CASE JoinAndExit
  <2>1. FlushStorage /\ UNCHANGED recs /\ ~Pending /\ ~Pending'
    BY <1>5 DEF JoinAndExit, Pending
  <2> QED BY <1>0, <2>1, FlushPartition DEF Decided
<1>6. CASE TemplateFail
  <2>1. Pending /\ ~Pending' /\ UNCHANGED recs
    BY <1>6 DEF TemplateFail, Pending
  <2> QED BY <1>0, <1>6, <2>1, DecideOne, LosePartition DEF TemplateFail
<1>7. CASE ProcessNew
  <2>1. Pending /\ ~Pending' /\ UNCHANGED recs /\ Current.key \notin Stored
    BY <1>7 DEF ProcessNew, Pending, NextTop
  <2>2. /\ Current.key \in Keys
        /\ InitRecordData(Current, Len(recs)) \in GroupType
    BY <1>0, <2>1, CurrentType, InitRecordType DEF Records
  <2>3. InitRecordData(Current, Len(recs)).ids
          = storage[Current.key].ids \cup {Len(recs)}
    BY <2>1, <2>2 DEF InitRecordData, Stored
  <2> QED BY <1>0, <1>7, <2>1, <2>2, <2>3, DecideOne, AcceptPartition DEF ProcessNew
<1>8. CASE ProcessMerge
  <2>1. Pending /\ ~Pending' /\ UNCHANGED recs
    BY <1>8 DEF ProcessMerge, Pending, NextTop
  <2>2. /\ Current.key \in Keys /\ storage[Current.key] \in GroupType
        /\ ProcessAggFunctions(storage[Current.key], Current, Len(recs)) \in GroupType
    BY <1>0, <2>1, CurrentType, ProcessAggType DEF Records, TypeInv, TypeOK
  <2>3. ProcessAggFunctions(storage[Current.key], Current, Len(recs)).ids
          = storage[Current.key].ids \cup {Len(recs)}
    BY <2>2 DEF ProcessAggFunctions, GroupType
  <2> QED BY <1>0, <1>8, <2>1, <2>2, <2>3, DecideOne, AcceptPartition DEF ProcessMerge
<1>9. CASE ProcessWindow
  <2>1. Pending /\ ~Pending' /\ UNCHANGED recs
    BY <1>9 DEF ProcessWindow, Pending, NextTop
  <2>2. /\ Current.key \in Keys
        /\ InitRecordData(Current, Len(recs)) \in GroupType
        /\ InitRecordData(Current, Len(recs)).ids = {Len(recs)}
    BY <1>0, <2>1, CurrentType, InitRecordType DEF Records, InitRecordData
  <2> QED BY <1>0, <1>9, <2>1, <2>2, DecideOne, RestartPartition DEF ProcessWindow
<1>10. CASE ProcessNoMemory
  <2>1. Pending /\ ~Pending' /\ UNCHANGED recs
    BY <1>10 DEF ProcessNoMemory, Pending
  <2>2. \A k \in Keys : storage'[k].ids = {}
    BY <1>10 DEF ProcessNoMemory, Absent
  <2>3. \A j \in Keys : storage'[j].ids = IF j \in Keys THEN {} ELSE storage[j].ids
    BY <2>2
  <2>4. /\ dropped' = dropped \cup {Len(recs)} \cup (UNION {storage[j].ids : j \in Keys})
        /\ UNCHANGED out
    BY <1>10 DEF ProcessNoMemory
  <2>5. Decided' = Decided \cup {Len(recs)}
    BY <1>0, <2>1, DecideOne
  <2> QED BY <1>0, <2>1, <2>3, <2>4, <2>5, LosePartition
<1>11. CASE ProcessSendFails
  <2>1. Pending /\ ~Pending' /\ UNCHANGED recs
    BY <1>11 DEF ProcessSendFails, Pending
  <2>2. \A k \in Keys : storage'[k].ids = storage[k].ids
    BY <1>0, <1>11 DEF ProcessSendFails, PrepareToSend, TypeInv, TypeOK, GroupType
  <2>3. \A j \in Keys : storage'[j].ids = IF j \in {} THEN {} ELSE storage[j].ids
    BY <2>2
  <2>4. dropped' = dropped \cup {Len(recs)} \cup (UNION {storage[j].ids : j \in {}})
    BY <1>11 DEF ProcessSendFails
  <2>5. Decided' = Decided \cup {Len(recs)} /\ UNCHANGED out
    BY <1>0, <1>11, <2>1, DecideOne DEF ProcessSendFails
  <2>6. {} \in SUBSET Keys
    OBVIOUS
  <2> QED BY <1>0, <2>1, <2>3, <2>4, <2>5, <2>6, LosePartition
<1> QED BY <1>1, <1>2, <1>3, <1>4, <1>5, <1>6, <1>7, <1>8, <1>9, <1>10, <1>11
        DEF Receive, Proceed

LEMMA StepPartition == PartInv /\ [Next]_vars => PartInv'
<1> SUFFICES ASSUME PartInv, [Next]_vars PROVE PartInv'
  OBVIOUS
<1>0. TypeInv /\ Partition /\ SyncInv'
  BY StepSync DEF PartInv, SyncInv
<1>1. CASE Timer
  <2>1. UNCHANGED <<mpc, recs>>
    BY <1>1 DEF Timer, TimerStart, TimerTop, TimerFlush, TimerLock, TimerExpire,
         TimerKeep, TimerUnlock, TimerAddTime, mainVars
  <2>2. Decided' = Decided
    BY <2>1 DEF Decided, Pending
  <2>3. CASE TimerFlush
    BY <1>0, <2>1, <2>2, <2>3, FlushPartition DEF TimerFlush, PartInv
  <2>4. CASE \E k \in Keys : TimerExpire(k)
    BY <1>0, <2>1, <2>2, <2>4, SendAndFreePartition DEF TimerExpire, PartInv
  <2>5. CASE UNCHANGED outcome
    BY <1>0, <2>1, <2>2, <2>5, PartitionStutter DEF outcome, PartInv
  <2> QED BY <1>1, <2>3, <2>4, <2>5 DEF Timer, TimerStart, TimerTop, TimerLock,
                                        TimerKeep, TimerUnlock, TimerAddTime
<1>2. CASE Tick \/ Signal \/ UNCHANGED vars
  <2>1. UNCHANGED <<storage, out, dropped, recs, mpc>>
    BY <1>2 DEF Tick, Signal, vars, outcome, mainVars
  <2> QED BY <1>0, <2>1, PartitionStutter DEF Decided, Pending, PartInv
<1> QED BY <1>1, <1>2, MainPartition DEF Next

\* Whatever the keys, timeouts and bounds: every processed record is in exactly
\* one group of its own key or among the dropped, and a regular exit leaves
\* nothing behind.
THEOREM EveryRecordPlacedOnce == Spec => []InputPartition
<1>1. PartInv => InputPartition
  BY DEF PartInv, Partition, InputPartition, SyncInv, Synchronised
<1> QED BY <1>1, InitPartition, StepPartition, PTL DEF Spec
-----------------------------------------------------------------------------
(***************************************************************************)
(* The groups: what is done to them is what KeyedGroups allows, their      *)
(* aggregates are exact, and they end where the active timeout says.       *)
(***************************************************************************)

(***************************************************************************)
(* The ways in which a step may touch the groups.                          *)
(***************************************************************************)

LEMMA FlushFrees ==
  ASSUME FlushStorage
  PROVE  \E D \in SUBSET Stored : SendAndFree(Stored, D)
BY DEF FlushStorage

\* The timeout thread changes groups by sending and freeing stored ones only.
LEMMA TimerGroups ==
  ASSUME PartInv, Timer
  PROVE  /\ UNCHANGED <<mpc, recs, format, timeout>> /\ Decided' = Decided
         /\ \/ UNCHANGED <<storage, out, dropped>>
            \/ /\ tpc \in {"lock", "scan"} /\ timeout = timeout /\ mutex' = mutex
               /\ \E C \in SUBSET Stored : \E D \in SUBSET C : SendAndFree(C, D)
<1> USE DEF mainVars, timerVars, outcome
<1>1. UNCHANGED <<mpc, recs, format, timeout>>
  BY DEF Timer, TimerStart, TimerTop, TimerFlush, TimerLock, TimerExpire,
         TimerKeep, TimerUnlock, TimerAddTime
<1>2. Decided' = Decided
  BY <1>1 DEF Decided, Pending
<1>3. CASE TimerFlush
  <2>1. tpc = "lock" /\ mutex' = mutex /\ FlushStorage
    BY <1>3 DEF TimerFlush
  <2> QED BY <1>1, <1>2, <2>1, FlushFrees
<1>4. ASSUME NEW k \in Keys, TimerExpire(k)
      PROVE  /\ tpc = "scan" /\ mutex' = mutex
             /\ \E C \in SUBSET Stored : \E D \in SUBSET C : SendAndFree(C, D)
  <2>1. tpc = "scan" /\ mutex' = mutex /\ k \in todo
    BY <1>4 DEF TimerExpire
  <2>2. {k} \in SUBSET Stored
    BY <2>1 DEF PartInv, SyncInv, Synchronised
  <2>3. PICK D \in SUBSET {k} : SendAndFree({k}, D)
    BY <1>4 DEF TimerExpire
  <2> QED BY <2>1, <2>2, <2>3
<1>5. CASE UNCHANGED <<storage, out, dropped>>
  BY <1>1, <1>2, <1>5
<1> QED BY <1>1, <1>2, <1>3, <1>4, <1>5
        DEF Timer, TimerStart, TimerTop, TimerLock, TimerKeep, TimerUnlock, TimerAddTime
-----------------------------------------------------------------------------
(***************************************************************************)
(* The refinement of KeyedGroups.                                          *)
(***************************************************************************)

\* Its state, as ImplementsKeyedGroups maps it.
N == IF Pending THEN Len(recs) - 1 ELSE Len(recs)
Open == [k \in Keys |-> storage[k].ids]
Sent == {[key |-> o.key, ids |-> o.ids] : o \in out}

LEMMA MapStutter ==
  ASSUME UNCHANGED <<N, Open, Sent, dropped>>
  PROVE  UNCHANGED KG!vars
BY DEF KG!vars, N, Open, Sent

LEMMA MapInit == Init => KG!Init
<1> SUFFICES ASSUME Init PROVE KG!Init
  OBVIOUS
<1>1. N = 0 /\ Sent = {} /\ dropped = {}
  BY DEF Init, N, Sent, Pending
<1>2. Open = [k \in Keys |-> {}]
  BY DEF Init, Open, Absent
<1> QED BY <1>1, <1>2 DEF KG!Init, N, Open, Sent

\* Groups sent and freed are closed.
LEMMA MapFree ==
  ASSUME TypeInv, NEW C \in SUBSET Stored, NEW D \in SUBSET C, SendAndFree(C, D), N' = N
  PROVE  KG!Next
<1> DEFINE S == {Delivered(k, PrepareToSend(storage[k])) : k \in D}
           T == {[key |-> k, ids |-> Open[k]] : k \in D}
<1>0. C \subseteq Keys /\ D \subseteq Keys /\ \A k \in Keys : Open[k] = storage[k].ids
  BY DEF Stored, Open
<1>1. Open' = [k \in Keys |-> IF k \in C THEN {} ELSE Open[k]]
  BY DEF SendAndFree, Absent, Open
<1>2. \A k \in D : /\ Delivered(k, PrepareToSend(storage[k])).key = k
                  /\ Delivered(k, PrepareToSend(storage[k])).ids = Open[k]
  <2>1. \A k \in D : storage[k] \in GroupType /\ Open[k] = storage[k].ids
    BY <1>0 DEF TypeInv, TypeOK
  <2> QED BY <2>1 DEF Delivered, PrepareToSend, GroupType
<1>3. {[key |-> o.key, ids |-> o.ids] : o \in S} = T
  BY <1>2
<1>4. out' = out \cup S
  BY DEF SendAndFree
<1>5. Sent' = Sent \cup T
  <2>1. Sent' = Sent \cup {[key |-> o.key, ids |-> o.ids] : o \in S}
    BY <1>4 DEF Sent
  <2> QED BY <1>3, <2>1
<1>6. dropped' = dropped \cup (UNION {Open[k] : k \in C \ D})
  <2>1. UNION {Open[k] : k \in C \ D} = UNION {storage[k].ids : k \in C \ D}
    BY <1>0
  <2> QED BY <2>1 DEF SendAndFree
<1>7. KG!Close(C, D)
  BY <1>1, <1>5, <1>6 DEF KG!Close, N, Open, Sent
<1>8. C \in SUBSET KG!Live
  BY <1>0 DEF KG!Live, Stored
<1> QED BY <1>7, <1>8 DEF KG!Next

\* The record main works on is the next one.
LEMMA MapDecide ==
  ASSUME TypeInv, Pending, ~Pending', UNCHANGED recs
  PROVE  N' = N + 1 /\ N + 1 = Len(recs)
<1>1. Len(recs) \in Nat
  BY LenProperties DEF TypeInv, TypeOK
<1> QED BY <1>1 DEF N

\* It joins the group of its key, or opens it.
LEMMA MapAccept ==
  ASSUME TypeInv, Pending, ~Pending', UNCHANGED <<recs, out, dropped>>,
         NEW k \in Keys, NEW g \in GroupType, g.ids = storage[k].ids \cup {Len(recs)},
         storage' = [storage EXCEPT ![k] = g]
  PROVE  KG!Next
<1>1. N' = N + 1 /\ N + 1 = Len(recs)
  BY MapDecide
<1>2. Open' = [Open EXCEPT ![k] = @ \cup {N + 1}]
  BY <1>1 DEF Open, TypeInv, TypeOK
<1>3. Sent' = Sent
  BY DEF Sent
<1>4. KG!Accept(k)
  BY <1>1, <1>2, <1>3 DEF KG!Accept, N, Open, Sent
<1> QED BY <1>4 DEF KG!Next

\* It opens the group that follows the one delivered.
LEMMA MapRestart ==
  ASSUME TypeInv, Pending, ~Pending', UNCHANGED <<recs, dropped>>,
         NEW k \in Stored, NEW g \in GroupType, g.ids = {Len(recs)},
         storage' = [storage EXCEPT ![k] = g],
         out' = out \cup {Delivered(k, PrepareToSend(storage[k]))}
  PROVE  KG!Next
<1> DEFINE d == Delivered(k, PrepareToSend(storage[k]))
<1>1. N' = N + 1 /\ N + 1 = Len(recs) /\ k \in Keys
  BY MapDecide DEF Stored
<1>2. Open' = [Open EXCEPT ![k] = {N + 1}] /\ Open[k] = storage[k].ids
  BY <1>1 DEF Open, TypeInv, TypeOK
<1>3. d.key = k /\ d.ids = Open[k]
  BY <1>1, <1>2 DEF Delivered, PrepareToSend, TypeInv, TypeOK, GroupType
<1>4. Sent' = Sent \cup {[key |-> k, ids |-> Open[k]]}
  <2>1. out' = out \cup {d}
    OBVIOUS
  <2> HIDE DEF d
  <2> QED BY <1>3, <2>1 DEF Sent
<1>5. Open[k] # {}
  BY <1>2 DEF Stored
<1>6. KG!Restart(k)
  BY <1>1, <1>2, <1>4, <1>5 DEF KG!Restart, N, Open, Sent
<1> QED BY <1>1, <1>6 DEF KG!Next

\* It is refused.
LEMMA MapRefuse ==
  ASSUME TypeInv, Pending, ~Pending', UNCHANGED <<recs, out>>, Open' = Open,
         dropped' = dropped \cup {Len(recs)}
  PROVE  KG!Next
<1>1. N' = N + 1 /\ N + 1 = Len(recs)
  BY MapDecide
<1>2. KG!Refuse
  BY <1>1 DEF KG!Refuse, N, Open, Sent
<1> QED BY <1>2 DEF KG!Next

LEMMA MapMain ==
  ASSUME PartInv, Receive \/ Proceed
  PROVE  KG!Next \/ UNCHANGED KG!vars
<1> USE DEF mainVars, timerVars, outcome
<1>0. TypeInv
  BY DEF PartInv, SyncInv
<1>1. CASE RecvRecord
  <2>1. PICK r \in Records : recs' = Append(recs, r)
    <3>1. PICK k \in Keys, lag \in Lags, d \in Durations :
            recs' = Append(recs, [key |-> k, first |-> now - lag - d,
                                  last |-> now - lag])
      BY <1>1 DEF RecvRecord
    <3>2. [key |-> k, first |-> now - lag - d, last |-> now - lag] \in Records
      BY <1>0, ConstantsAssumption DEF Records, TypeInv, TypeOK
    <3> QED BY <3>1, <3>2
  <2>2. Len(recs') = Len(recs) + 1 /\ Len(recs) \in Nat
    BY <1>0, <2>1, AppendProperties, LenProperties DEF TypeInv, TypeOK
  <2>3. ~Pending /\ Pending' /\ UNCHANGED <<storage, out, dropped>>
    BY <1>1 DEF RecvRecord, Pending
  <2>4. UNCHANGED <<N, Open, Sent, dropped>>
    BY <2>2, <2>3 DEF N, Open, Sent
  <2> QED BY <2>4, MapStutter
<1>2. CASE RecvEOF \/ RecvTimeout \/ RecvError \/ TemplateOk \/ SetTime
  <2>1. UNCHANGED <<storage, out, dropped, recs>> /\ Pending' = Pending
    BY <1>2 DEF RecvEOF, RecvTimeout, RecvError, TemplateOk, SetTime, Pending, NextTop
  <2>2. UNCHANGED <<N, Open, Sent, dropped>>
    BY <2>1 DEF N, Open, Sent
  <2> QED BY <2>2, MapStutter
<1>3. CASE FormatFlush \/ JoinAndExit
  <2>1. FlushStorage /\ UNCHANGED recs /\ Pending' = Pending
    BY <1>3 DEF FormatFlush, JoinAndExit, Pending
  <2>2. N' = N
    BY <2>1 DEF N
  <2>3. PICK D \in SUBSET Stored : SendAndFree(Stored, D)
    BY <2>1, FlushFrees
  <2> QED BY <1>0, <2>2, <2>3, MapFree
<1>4. CASE TemplateFail
  <2>1. /\ Pending /\ ~Pending' /\ UNCHANGED <<recs, out, storage>>
        /\ dropped' = dropped \cup {Len(recs)}
    BY <1>4 DEF TemplateFail, Pending
  <2>2. Open' = Open
    BY <2>1 DEF Open
  <2> QED BY <1>0, <2>1, <2>2, MapRefuse
<1>5. CASE ProcessNew
  <2>1. /\ Pending /\ ~Pending' /\ UNCHANGED <<recs, out, dropped>> /\ Current.key \notin Stored
        /\ storage' = [storage EXCEPT ![Current.key] = InitRecordData(Current, Len(recs))]
    BY <1>5 DEF ProcessNew, Pending, NextTop
  <2>2. /\ Current.key \in Keys
        /\ InitRecordData(Current, Len(recs)) \in GroupType
    BY <1>0, <2>1, CurrentType, InitRecordType DEF Records
  <2>3. InitRecordData(Current, Len(recs)).ids = storage[Current.key].ids \cup {Len(recs)}
    BY <2>1, <2>2 DEF InitRecordData, Stored
  <2> QED BY <1>0, <2>1, <2>2, <2>3, MapAccept
<1>6. CASE ProcessMerge
  <2>1. /\ Pending /\ ~Pending' /\ UNCHANGED <<recs, out, dropped>>
        /\ storage' = [storage EXCEPT ![Current.key] =
                         ProcessAggFunctions(storage[Current.key], Current, Len(recs))]
    BY <1>6 DEF ProcessMerge, Pending, NextTop
  <2>2. /\ Current.key \in Keys /\ storage[Current.key] \in GroupType
        /\ ProcessAggFunctions(storage[Current.key], Current, Len(recs)) \in GroupType
    BY <1>0, <2>1, CurrentType, ProcessAggType DEF Records, TypeInv, TypeOK
  <2>3. ProcessAggFunctions(storage[Current.key], Current, Len(recs)).ids
          = storage[Current.key].ids \cup {Len(recs)}
    BY <2>2 DEF ProcessAggFunctions, GroupType
  <2> QED BY <1>0, <2>1, <2>2, <2>3, MapAccept
<1>7. CASE ProcessWindow
  <2>1. /\ Pending /\ ~Pending' /\ UNCHANGED <<recs, dropped>> /\ Current.key \in Stored
        /\ storage' = [storage EXCEPT ![Current.key] = InitRecordData(Current, Len(recs))]
        /\ out' = out \cup {Delivered(Current.key, PrepareToSend(storage[Current.key]))}
    BY <1>7 DEF ProcessWindow, Pending, NextTop
  <2>2. /\ InitRecordData(Current, Len(recs)) \in GroupType
        /\ InitRecordData(Current, Len(recs)).ids = {Len(recs)}
    BY <1>0, <2>1, CurrentType, InitRecordType DEF InitRecordData
  <2> QED BY <1>0, <2>1, <2>2, MapRestart
<1>8. CASE ProcessSendFails
  <2>1. /\ Pending /\ ~Pending' /\ UNCHANGED <<recs, out>> /\ dropped' = dropped \cup {Len(recs)}
    BY <1>8 DEF ProcessSendFails, Pending
  <2>2. \A k \in Keys : storage'[k].ids = storage[k].ids
    BY <1>0, <1>8 DEF ProcessSendFails, PrepareToSend, TypeInv, TypeOK, GroupType
  <2>3. Open' = Open
    BY <2>2 DEF Open
  <2> QED BY <1>0, <2>1, <2>3, MapRefuse
<1>9. CASE ProcessNoMemory
  <2>1. /\ Pending /\ ~Pending' /\ UNCHANGED <<recs, out>>
        /\ storage' = [k \in Keys |-> Absent]
        /\ dropped' = dropped \cup {Len(recs)} \cup (UNION {storage[k].ids : k \in Keys})
    BY <1>9 DEF ProcessNoMemory, Pending
  <2>2. N' = N + 1 /\ N + 1 = Len(recs)
    BY <1>0, <2>1, MapDecide
  <2>3. Open' = [k \in Keys |-> {}]
    BY <2>1 DEF Open, Absent
  <2>4. UNION {storage[k].ids : k \in Keys} = UNION {Open[k] : k \in Keys}
    BY DEF Open
  <2>5. Sent' = Sent
    BY <2>1 DEF Sent
  <2>6. dropped' = dropped \cup {N + 1} \cup (UNION {Open[k] : k \in Keys})
    BY <2>1, <2>2, <2>4
  <2>7. KG!Abandon
    BY <2>2, <2>3, <2>5, <2>6 DEF KG!Abandon, N, Open, Sent
  <2> QED BY <2>7 DEF KG!Next
<1> QED BY <1>1, <1>2, <1>3, <1>4, <1>5, <1>6, <1>7, <1>8, <1>9 DEF Receive, Proceed

LEMMA MapStep == PartInv /\ [Next]_vars => [KG!Next]_KG!vars
<1> SUFFICES ASSUME PartInv, [Next]_vars PROVE KG!Next \/ UNCHANGED KG!vars
  OBVIOUS
<1>0. TypeInv
  BY DEF PartInv, SyncInv
<1>1. CASE Timer
  <2>1. UNCHANGED N
    BY <1>1, TimerGroups DEF N, Pending
  <2>2. CASE UNCHANGED <<storage, out, dropped>>
    <3>1. UNCHANGED <<N, Open, Sent, dropped>>
      BY <2>1, <2>2 DEF Open, Sent
    <3> QED BY <3>1, MapStutter
  <2>3. CASE \E C \in SUBSET Stored : \E D \in SUBSET C : SendAndFree(C, D)
    BY <1>0, <2>1, <2>3, MapFree
  <2> QED BY <1>1, <2>2, <2>3, TimerGroups
<1>2. CASE Tick \/ Signal \/ UNCHANGED vars
  <2>1. UNCHANGED <<storage, out, dropped, recs, mpc>>
    BY <1>2 DEF Tick, Signal, vars, outcome, mainVars
  <2>2. UNCHANGED <<N, Open, Sent, dropped>>
    BY <2>1 DEF N, Open, Sent, Pending
  <2> QED BY <2>2, MapStutter
<1> QED BY <1>1, <1>2, MapMain DEF Next

LEMMA PartCorrect == Spec => []PartInv
  BY InitPartition, StepPartition, PTL DEF Spec

\* The whole module, its two threads, its clock and its changes of format included, does to
\* the groups nothing but what the abstract grouping allows: every step of main's loop and
\* of check_timeouts is one of its steps, or none (aggregator.cpp).
THEOREM GroupsImplemented == Spec => ImplementsKeyedGroups
<1>1. Init => KG!Init
  BY MapInit
<1>2. PartInv /\ [Next]_vars => [KG!Next]_KG!vars
  BY MapStep
<1> QED BY <1>1, <1>2, PartCorrect, PTL DEF Spec, ImplementsKeyedGroups, KG!Spec
-----------------------------------------------------------------------------
(***************************************************************************)
(* What is in the groups.                                                  *)
(***************************************************************************)

\* The aggregates are those of the records of the group.
ExactParts ==
  /\ \A k \in Stored : Exact(storage[k])
  /\ \A o \in out : Exact(o)

\* The averages are taken once, until a send fails in main's loop.
SendFailed == mutex = "main" /\ mpc # "template"
AvgsOnce ==
  ~SendFailed => /\ \A k \in Stored : storage[k].avgs = 0
                 /\ \A o \in out : o.avgs = 1

\* The starts of the flows numbered in I are within the active timeout.
Near(I) == \A i, j \in I : recs[j].first - recs[i].first <= ActiveT
Windows ==
  Active => /\ \A k \in Stored : InOrder(k) => Near(storage[k].ids)
            /\ \A o \in out : InOrder(o.key) => Near(o.ids)

\* What is stored came after what has left under the same key.
Later == \A o \in out : \A m \in o.ids, i \in storage[o.key].ids : m < i

\* With the active timeout alone, a key that has sent a group in the format in force has its
\* next one stored: nothing but the end of a window takes a group out before the next format.
Followed ==
  /\ \A o \in out : o.format <= format
  /\ timeout = "active" =>
       /\ tpc \in {"start", "done"}
       /\ mpc \notin {"template", "exited", "aborted"} =>
            \A o \in out : o.format = format => o.key \in Stored

\* Record j opens its key's next group after o.
Opens(o, j) ==
  /\ \A i \in o.ids : i < j
  /\ \A i \in Decided : recs[i].key = o.key /\ i < j => \E m \in o.ids : i <= m
Beyond(o, j) == Opens(o, j) => recs[j].first > o.first + ActiveT
Splits ==
  timeout = "active" =>
    \A o \in out :
      /\ \A p \in out : p.key = o.key /\ p.format = o.format => \A j \in p.ids : Beyond(o, j)
      /\ o.key \in Stored /\ storage[o.key].format = o.format =>
           \A j \in storage[o.key].ids : Beyond(o, j)

ContentInv ==
  PartInv /\ ExactParts /\ AvgsOnce /\ Windows /\ Later /\ Followed /\ Splits

\* The steps that leave the groups alone, those that send and free some of them, and those
\* that give the key of the record at hand the group g.
Over == mpc \in {"template", "exited", "aborted"}
Kept ==
  /\ UNCHANGED <<storage, out>>
  /\ TemplateOk \/ (format' = format /\ (Over => Over'))
Freed ==
  /\ \E C \in SUBSET Stored : \E D \in SUBSET C : SendAndFree(C, D)
  /\ Over' \/ tpc \in {"lock", "scan"}
  /\ UNCHANGED <<recs, format, timeout>> /\ Decided' = Decided
Put(g) ==
  /\ mpc = "process" /\ mutex = "free"
  /\ Current.key \in Keys /\ g \in GroupType /\ g.ids # {}
  /\ storage' = [storage EXCEPT ![Current.key] = g]
  /\ UNCHANGED <<recs, format, timeout>> /\ Decided' = Decided \cup {Len(recs)}

New == /\ Put(InitRecordData(Current, Len(recs))) /\ Current.key \notin Stored /\ out' = out
Merged ==
  /\ Put(ProcessAggFunctions(storage[Current.key], Current, Len(recs)))
  /\ Current.key \in Stored /\ ~(Active /\ WindowClosed(storage[Current.key], Current))
  /\ out' = out
Restarted ==
  /\ Put(InitRecordData(Current, Len(recs)))
  /\ Current.key \in Stored /\ Active /\ WindowClosed(storage[Current.key], Current)
  /\ out' = out \cup {Delivered(Current.key, PrepareToSend(storage[Current.key]))}
Prepared ==
  /\ Put(PrepareToSend(storage[Current.key])) /\ Current.key \in Stored
  /\ out' = out /\ SendFailed'
GaveUp == Stored' = {} /\ out' = out /\ SendFailed' /\ Over' /\ format' = format

LEMMA PutFacts ==
  ASSUME TypeInv, mpc = "process", mpc' \in {"join", "recv"}, mutex = "free",
         UNCHANGED <<recs, format, timeout>>, NEW g,
         storage' = [storage EXCEPT ![Current.key] = g], g \in GroupType, g.ids # {}
  PROVE  Put(g)
<1>1. Pending /\ ~Pending'
  BY DEF Pending
<1>2. Current.key \in Keys /\ Decided' = Decided \cup {Len(recs)}
  BY <1>1, CurrentType, DecideOne DEF Records
<1> QED BY <1>2 DEF Put

LEMMA GroupSteps ==
  ASSUME PartInv, [Next]_vars
  PROVE  Kept \/ Freed \/ New \/ Merged \/ Restarted \/ Prepared \/ GaveUp
<1> USE DEF mainVars, timerVars, outcome
<1>0. TypeInv
  BY DEF PartInv, SyncInv
<1>1. CASE RecvRecord \/ RecvEOF \/ RecvTimeout \/ RecvError \/ TemplateOk \/ SetTime
             \/ TemplateFail \/ Tick \/ Signal \/ UNCHANGED vars
  BY <1>1 DEF RecvRecord, RecvEOF, RecvTimeout, RecvError, TemplateOk, SetTime,
              TemplateFail, Tick, Signal, vars, Kept, Over, NextTop
<1>2. CASE FormatFlush \/ JoinAndExit
  <2>1. FlushStorage /\ UNCHANGED <<recs, format, timeout>> /\ Pending' = Pending /\ Over'
    BY <1>2 DEF FormatFlush, JoinAndExit, Pending, Over
  <2>2. Decided' = Decided
    BY <2>1 DEF Decided
  <2> QED BY <2>1, <2>2, FlushFrees DEF Freed
<1>3. CASE Timer
  BY <1>3, TimerGroups DEF Kept, Freed, Over
<1>4. CASE ProcessNew
  <2>1. /\ mpc = "process" /\ mpc' \in {"join", "recv"} /\ mutex = "free"
        /\ UNCHANGED <<recs, format, timeout, out>> /\ Current.key \notin Stored
        /\ storage' = [storage EXCEPT ![Current.key] = InitRecordData(Current, Len(recs))]
    BY <1>4 DEF ProcessNew, NextTop
  <2>2. /\ InitRecordData(Current, Len(recs)) \in GroupType
        /\ InitRecordData(Current, Len(recs)).ids # {}
    BY <1>0, <2>1, CurrentType, InitRecordType DEF Pending, InitRecordData
  <2> QED BY <1>0, <2>1, <2>2, PutFacts DEF New
<1>5. CASE ProcessMerge
  <2>1. /\ mpc = "process" /\ mpc' \in {"join", "recv"} /\ mutex = "free"
        /\ UNCHANGED <<recs, format, timeout, out>> /\ Current.key \in Stored
        /\ ~(Active /\ WindowClosed(storage[Current.key], Current))
        /\ storage' = [storage EXCEPT ![Current.key] =
                         ProcessAggFunctions(storage[Current.key], Current, Len(recs))]
    BY <1>5 DEF ProcessMerge, NextTop
  <2>2. storage[Current.key] \in GroupType
    BY <1>0, <2>1 DEF TypeInv, TypeOK, Stored
  <2>3. /\ ProcessAggFunctions(storage[Current.key], Current, Len(recs)) \in GroupType
        /\ ProcessAggFunctions(storage[Current.key], Current, Len(recs)).ids # {}
    <3>1. ProcessAggFunctions(storage[Current.key], Current, Len(recs)) \in GroupType
      BY <1>0, <2>1, <2>2, CurrentType, ProcessAggType DEF Pending
    <3> QED BY <2>2, <3>1 DEF ProcessAggFunctions, GroupType
  <2> QED BY <1>0, <2>1, <2>3, PutFacts DEF Merged
<1>6. CASE ProcessWindow
  <2>1. /\ mpc = "process" /\ mpc' \in {"join", "recv"} /\ mutex = "free"
        /\ UNCHANGED <<recs, format, timeout>> /\ Current.key \in Stored
        /\ Active /\ WindowClosed(storage[Current.key], Current)
        /\ storage' = [storage EXCEPT ![Current.key] = InitRecordData(Current, Len(recs))]
        /\ out' = out \cup {Delivered(Current.key, PrepareToSend(storage[Current.key]))}
    BY <1>6 DEF ProcessWindow, NextTop
  <2>2. /\ InitRecordData(Current, Len(recs)) \in GroupType
        /\ InitRecordData(Current, Len(recs)).ids # {}
    BY <1>0, <2>1, CurrentType, InitRecordType DEF Pending, InitRecordData
  <2> QED BY <1>0, <2>1, <2>2, PutFacts DEF Restarted
<1>7. CASE ProcessSendFails
  <2>1. /\ mpc = "process" /\ mpc' = "join" /\ mutex = "free" /\ mutex' = "main"
        /\ UNCHANGED <<recs, format, timeout, out>> /\ Current.key \in Stored
        /\ storage' = [storage EXCEPT ![Current.key] = PrepareToSend(storage[Current.key])]
    BY <1>7 DEF ProcessSendFails
  <2>2. storage[Current.key] \in GroupType /\ storage[Current.key].ids # {}
    BY <1>0, <2>1 DEF TypeInv, TypeOK, Stored
  <2>3. /\ PrepareToSend(storage[Current.key]) \in GroupType
        /\ PrepareToSend(storage[Current.key]).ids # {}
    <3>1. PrepareToSend(storage[Current.key]) \in GroupType
      BY <2>2, PrepareType
    <3> QED BY <2>2, <3>1 DEF PrepareToSend, GroupType
  <2>4. SendFailed'
    BY <2>1 DEF SendFailed
  <2> QED BY <1>0, <2>1, <2>3, <2>4, PutFacts DEF Prepared
<1>8. CASE ProcessNoMemory
  BY <1>8 DEF ProcessNoMemory, GaveUp, Stored, Absent, SendFailed, Over
<1> QED BY <1>1, <1>2, <1>3, <1>4, <1>5, <1>6, <1>7, <1>8 DEF Next, Receive, Proceed

\* What has been received stays as it is.
LEMMA RecsGrow ==
  ASSUME PartInv, [Next]_vars
  PROVE  /\ timeout' = timeout /\ Len(recs) \in Nat /\ Len(recs') \in Nat
         /\ Len(recs') >= Len(recs)
         /\ \A i \in 1 .. Len(recs) : recs'[i] = recs[i]
<1> USE DEF mainVars, timerVars, outcome
<1>0. TypeInv /\ recs \in Seq(Records) /\ Len(recs) \in Nat
  BY LenProperties DEF PartInv, SyncInv, TypeInv, TypeOK
<1>1. timeout' = timeout
  BY DEF Next, Receive, Proceed, Timer, Tick, Signal, vars, RecvRecord, RecvEOF, RecvTimeout,
         RecvError, FormatFlush, TemplateOk, TemplateFail, SetTime, ProcessNew,
         ProcessNoMemory, ProcessMerge, ProcessWindow, ProcessSendFails, JoinAndExit,
         TimerStart, TimerTop, TimerFlush, TimerLock, TimerExpire, TimerKeep, TimerUnlock,
         TimerAddTime
<1>2. CASE RecvRecord
  <2>1. PICK k \in Keys, lag \in Lags, d \in Durations :
          recs' = Append(recs, [key |-> k, first |-> now - lag - d,
                                last |-> now - lag])
    BY <1>2 DEF RecvRecord
  <2>2. [key |-> k, first |-> now - lag - d, last |-> now - lag] \in Records
    BY <1>0, ConstantsAssumption DEF Records, TypeInv, TypeOK
  <2>3. /\ Len(recs') = Len(recs) + 1
        /\ \A i \in 1 .. Len(recs) : recs'[i] = recs[i]
    BY <1>0, <2>1, <2>2, AppendProperties
  <2> QED BY <1>0, <1>1, <2>3
<1>3. CASE UNCHANGED recs
  BY <1>0, <1>1, <1>3
<1>4. RecvRecord \/ UNCHANGED recs
  BY DEF Next, Receive, Proceed, Timer, Tick, Signal, vars, RecvEOF, RecvTimeout,
         RecvError, FormatFlush, TemplateOk, TemplateFail, SetTime, ProcessNew,
         ProcessNoMemory, ProcessMerge, ProcessWindow, ProcessSendFails, JoinAndExit,
         TimerStart, TimerTop, TimerFlush, TimerLock, TimerExpire, TimerKeep, TimerUnlock,
         TimerAddTime
<1> QED BY <1>2, <1>3, <1>4

\* A delivered group is the stored one, with its averages taken.
LEMMA DeliveredIs ==
  ASSUME TypeInv, NEW k \in Keys
  PROVE  LET d == Delivered(k, PrepareToSend(storage[k]))
             g == storage[k]
         IN /\ d.key = k /\ d.ids = g.ids /\ d.count = g.count /\ d.first = g.first
            /\ d.last = g.last /\ d.avgs = g.avgs + 1 /\ d.format = g.format
BY DEF Delivered, PrepareToSend, TypeInv, TypeOK, GroupType

Copy(o, k) ==
  /\ o.key = k /\ o.ids = storage[k].ids /\ o.count = storage[k].count
  /\ o.first = storage[k].first /\ o.last = storage[k].last
  /\ o.avgs = storage[k].avgs + 1 /\ o.format = storage[k].format

LEMMA FreedIs ==
  ASSUME TypeInv, Freed
  PROVE  /\ \A k \in Stored' : k \in Stored /\ storage'[k] = storage[k]
         /\ \A o \in out' : o \in out \/ \E k \in Stored \ Stored' : Copy(o, k)
         /\ \A k \in Keys \ Stored' : storage'[k].ids = {}
<1>0. PICK C \in SUBSET Stored : \E D \in SUBSET C : SendAndFree(C, D)
  BY DEF Freed
<1>1. PICK D \in SUBSET C : SendAndFree(C, D)
  BY <1>0
<1>2. Stored \subseteq Keys
  BY DEF Stored
<1>3. Stored' = Stored \ C /\ \A k \in Stored' : storage'[k] = storage[k]
  BY <1>1, <1>2, SendAndFreeStored
<1>4. \A k \in D : Copy(Delivered(k, PrepareToSend(storage[k])), k)
  BY <1>2, DeliveredIs DEF Copy
<1>5. out' = out \cup {Delivered(k, PrepareToSend(storage[k])) : k \in D}
  BY <1>1 DEF SendAndFree
<1>6. \A o \in out' : o \in out \/ \E k \in D : Copy(o, k)
  BY <1>4, <1>5
<1>7. \A k \in Keys \ Stored' : storage'[k].ids = {}
  BY DEF Stored
<1> QED BY <1>3, <1>6, <1>7

LEMMA PutIs ==
  ASSUME TypeInv, NEW g, Put(g)
  PROVE  /\ Stored' = Stored \cup {Current.key} /\ storage'[Current.key] = g
         /\ \A k \in Keys \ {Current.key} : storage'[k] = storage[k]
         /\ Len(recs) \in Nat /\ Len(recs) \notin Decided /\ Decided \subseteq 1 .. Len(recs)
         /\ Current = recs[Len(recs)] /\ Current \in Records
<1>1. Pending
  BY DEF Put, Pending
<1> QED BY <1>1, OpenStored, DecidedRange, CurrentType DEF Put, Current
-----------------------------------------------------------------------------
\* The numbers in a group are those of decided records of its key.
LEMMA GroupIds ==
  ASSUME PartInv
  PROVE  /\ Len(recs) \in Nat /\ Decided \subseteq 1 .. Len(recs)
         /\ \A k \in Keys : \A i \in storage[k].ids : i \in Decided /\ recs[i].key = k
         /\ \A o \in out : \A i \in o.ids : i \in Decided /\ recs[i].key = o.key
         /\ \A k \in Keys : storage[k] \in GroupType
         /\ \A i \in 1 .. Len(recs) : recs[i] \in Records
<1>1. TypeInv /\ Partition /\ PlacedSomewhere
  BY DEF PartInv, SyncInv, Partition
<1>2. \A i \in 1 .. Len(recs) : recs[i] \in Records
  BY <1>1, ElementOfSeq DEF TypeInv, TypeOK
<1>3. \A k \in Keys : storage[k] \in GroupType
  BY <1>1 DEF TypeInv, TypeOK
<1> QED BY <1>1, <1>2, <1>3, PlacedDecided, DecidedRange DEF Partition, KeysAgree

\* A group is as exact as its records are where they were.
LEMMA ExactStays ==
  ASSUME NEW g, Exact(g), \A i \in g.ids : recs'[i] = recs[i]
  PROVE  Exact(g)'
BY DEF Exact

LEMMA ExactOpened ==
  ASSUME PartInv, Pending
  PROVE  Exact(InitRecordData(Current, Len(recs)))
<1> DEFINE g == InitRecordData(Current, Len(recs))
<1>1. /\ g.ids = {Len(recs)} /\ g.count = 1 /\ g.first = Current.first
      /\ g.last = Current.last /\ Current = recs[Len(recs)]
  BY DEF InitRecordData, Current
<1>2. Current.first \in Int /\ Current.last \in Int
  BY CurrentType DEF PartInv, SyncInv, Records
<1>3. Cardinality({Len(recs)}) = 1
  BY FS_Singleton
<1> HIDE DEF g
<1>4. Exact(g)
  BY <1>1, <1>2, <1>3 DEF Exact
<1> QED BY <1>4 DEF g

LEMMA ExactMerged ==
  ASSUME PartInv, Pending, NEW k \in Keys, Exact(storage[k])
  PROVE  Exact(ProcessAggFunctions(storage[k], Current, Len(recs)))
<1> DEFINE h == storage[k]
           j == Len(recs)
           g == ProcessAggFunctions(h, Current, j)
<1>1. /\ h \in GroupType /\ Current \in Records /\ Current = recs[j]
      /\ h.ids \subseteq 1 .. j /\ j \notin h.ids /\ j \in Nat
      /\ \A i \in h.ids : recs[i] \in Records
  <2>1. TypeInv
    BY DEF PartInv, SyncInv
  <2>2. j \notin Decided
    BY <2>1, DecidedRange
  <2> QED BY <2>1, <2>2, GroupIds, CurrentType DEF Current
<1> HIDE DEF h, j
<1>2. /\ g.ids = h.ids \cup {j} /\ g.count = h.count + 1
      /\ g.first = IF Current.first < h.first THEN Current.first ELSE h.first
      /\ g.last = IF Current.last > h.last THEN Current.last ELSE h.last
  BY <1>1 DEF ProcessAggFunctions, GroupType
<1>3. /\ h.first \in Int /\ h.last \in Int /\ Current.first \in Int /\ Current.last \in Int
      /\ \A i \in h.ids : recs[i].first \in Int /\ recs[i].last \in Int
  BY <1>1 DEF GroupType, Records
<1>4. /\ h.count = Cardinality(h.ids)
      /\ \A i \in h.ids : h.first <= recs[i].first /\ recs[i].last <= h.last
      /\ \E i \in h.ids : recs[i].first = h.first
      /\ \E i \in h.ids : recs[i].last = h.last
  BY DEF Exact, h
<1> HIDE DEF g
<1>5. g.count = Cardinality(g.ids)
  <2>1. IsFiniteSet(h.ids)
    BY <1>1, FS_Interval, FS_Subset, 1 \in Int
  <2>2. Cardinality(h.ids \cup {j}) = Cardinality(h.ids) + 1
    BY <1>1, <2>1, FS_AddElement
  <2> QED BY <1>2, <1>4, <2>2
<1>6. \A i \in g.ids : g.first <= recs[i].first /\ recs[i].last <= g.last
  <2> SUFFICES ASSUME NEW i \in g.ids PROVE g.first <= recs[i].first /\ recs[i].last <= g.last
    OBVIOUS
  <2>1. CASE i = j
    BY <1>1, <1>2, <1>3, <2>1
  <2>2. CASE i \in h.ids
    BY <1>2, <1>3, <1>4, <2>2
  <2> QED BY <1>2, <2>1, <2>2
<1>7. \E i \in g.ids : recs[i].first = g.first
  BY <1>1, <1>2, <1>4
<1>8. \E i \in g.ids : recs[i].last = g.last
  BY <1>1, <1>2, <1>4
<1>9. Exact(g)
  BY <1>5, <1>6, <1>7, <1>8 DEF Exact
<1> QED BY <1>9 DEF g, h, j

LEMMA ExactPrepared ==
  ASSUME NEW g \in GroupType, Exact(g)
  PROVE  Exact(PrepareToSend(g))
BY DEF Exact, PrepareToSend, GroupType

\* A group that key k is given is exact, and so the others stay.
LEMMA PutExact ==
  ASSUME PartInv, [Next]_vars, ExactParts, NEW g, Put(g), Exact(g)
  PROVE  \A k \in Stored' : Exact(storage[k])'
<1>1. Exact(g)'
  BY DEF Exact, Put
<1>2. \A k \in Stored : Exact(storage[k])
  BY DEF ExactParts
<1>3. TypeInv
  BY DEF PartInv, SyncInv
<1>4. /\ Stored' = Stored \cup {Current.key} /\ storage'[Current.key] = g
      /\ \A k \in Keys \ {Current.key} : storage'[k] = storage[k]
      /\ Stored \subseteq Keys /\ recs' = recs
  BY <1>3, PutIs DEF Put, Stored
<1> SUFFICES ASSUME NEW k \in Stored' PROVE Exact(storage[k])'
  OBVIOUS
<1>5. CASE k = Current.key
  BY <1>1, <1>4, <1>5
<1>6. CASE k # Current.key
  <2>1. Exact(storage[k]) /\ storage'[k] = storage[k]
    BY <1>2, <1>4, <1>6
  <2> QED BY <1>4, <2>1 DEF Exact
<1> QED BY <1>5, <1>6

LEMMA StepExact ==
  ASSUME PartInv, [Next]_vars, ExactParts
  PROVE  ExactParts'
<1>0. TypeInv /\ Stored \subseteq Keys
  BY DEF PartInv, SyncInv, Stored
<1>1. /\ \A k \in Stored : \A i \in storage[k].ids : recs'[i] = recs[i]
      /\ \A o \in out : \A i \in o.ids : recs'[i] = recs[i]
  BY <1>0, GroupIds, RecsGrow
<1>2. /\ \A k \in Stored : Exact(storage[k])
      /\ \A o \in out : Exact(o)
  BY DEF ExactParts
<1>3. /\ \A o \in out : Exact(o)'
      /\ \A k \in Stored : storage'[k] = storage[k] => Exact(storage[k])'
  BY <1>1, <1>2 DEF Exact
<1>4. CASE Kept
  BY <1>3, <1>4 DEF Kept, ExactParts, Stored
<1>5. CASE Freed
  <2>1. ASSUME NEW k \in Stored' PROVE Exact(storage[k])'
    BY <1>0, <1>3, <1>5, FreedIs
  <2>2. ASSUME NEW o \in out' PROVE Exact(o)'
    <3>1. CASE o \in out
      BY <1>3, <3>1
    <3>2. ASSUME NEW k \in Stored, Copy(o, k) PROVE Exact(o)'
      BY <1>1, <1>2, <3>2 DEF Copy, Exact
    <3> QED BY <1>0, <1>5, <3>1, <3>2, FreedIs
  <2> QED BY <2>1, <2>2 DEF ExactParts
<1>6. CASE New
  <2>1. Exact(InitRecordData(Current, Len(recs)))
    BY <1>6, ExactOpened DEF New, Put, Pending
  <2>2. \A k \in Stored' : Exact(storage[k])'
    BY <1>6, <2>1, PutExact DEF New
  <2> QED BY <1>3, <1>6, <2>2 DEF New, ExactParts
<1>7. CASE Merged
  <2>1. Exact(ProcessAggFunctions(storage[Current.key], Current, Len(recs)))
    BY <1>0, <1>2, <1>7, ExactMerged DEF Merged, Put, Pending
  <2>2. \A k \in Stored' : Exact(storage[k])'
    BY <1>7, <2>1, PutExact DEF Merged
  <2> QED BY <1>3, <1>7, <2>2 DEF Merged, ExactParts
<1>8. CASE Restarted
  <2>0. PICK d : d = Delivered(Current.key, PrepareToSend(storage[Current.key]))
    OBVIOUS
  <2>1. Exact(InitRecordData(Current, Len(recs)))
    BY <1>8, ExactOpened DEF Restarted, Put, Pending
  <2>2. \A k \in Stored' : Exact(storage[k])'
    BY <1>8, <2>1, PutExact DEF Restarted
  <2>3. Copy(d, Current.key)
    BY <1>0, <1>8, <2>0, DeliveredIs DEF Restarted, Copy
  <2>4. Current.key \in Stored /\ out' = out \cup {d}
    BY <1>8, <2>0 DEF Restarted
  <2>5. Exact(d)'
    BY <1>1, <1>2, <2>3, <2>4 DEF Copy, Exact
  <2> QED BY <1>3, <2>2, <2>4, <2>5 DEF ExactParts
<1>9. CASE Prepared
  <2>1. Exact(PrepareToSend(storage[Current.key]))
    BY <1>0, <1>2, <1>9, ExactPrepared DEF Prepared, TypeInv, TypeOK
  <2>2. \A k \in Stored' : Exact(storage[k])'
    BY <1>9, <2>1, PutExact DEF Prepared
  <2> QED BY <1>3, <1>9, <2>2 DEF Prepared, ExactParts
<1>10. CASE GaveUp
  BY <1>3, <1>10 DEF GaveUp, ExactParts
<1> QED BY <1>4, <1>5, <1>6, <1>7, <1>8, <1>9, <1>10, GroupSteps
-----------------------------------------------------------------------------
\* Once main has left its loop with the mutex, that is for good.
LEMMA FailedStays ==
  ASSUME PartInv, [Next]_vars, SendFailed
  PROVE  SendFailed'
<1> USE DEF mainVars, timerVars, outcome
<1>1. mutex = "main" /\ mpc \in {"join", "exited", "aborted"} /\ tpc # "scan"
  BY DEF SendFailed, PartInv, SyncInv, Synchronised
<1>2. CASE Receive \/ Proceed
  BY <1>1, <1>2 DEF Receive, Proceed, RecvRecord, RecvEOF, RecvTimeout, RecvError,
       FormatFlush, TemplateOk, TemplateFail, SetTime, ProcessNew,
       ProcessNoMemory, ProcessMerge, ProcessWindow, ProcessSendFails, JoinAndExit,
       SendFailed
<1>3. CASE Timer
  BY <1>1, <1>3 DEF Timer, TimerStart, TimerTop, TimerFlush, TimerLock, TimerExpire,
       TimerKeep, TimerUnlock, TimerAddTime, SendFailed
<1>4. CASE Tick \/ Signal \/ UNCHANGED vars
  BY <1>1, <1>4 DEF Tick, Signal, vars, SendFailed
<1> QED BY <1>2, <1>3, <1>4 DEF Next

LEMMA StepAvgs ==
  ASSUME PartInv, [Next]_vars, AvgsOnce
  PROVE  AvgsOnce'
<1> SUFFICES ASSUME ~SendFailed'
             PROVE  /\ \A k \in Stored' : storage'[k].avgs = 0
                    /\ \A o \in out' : o.avgs = 1
  BY DEF AvgsOnce
<1>0. TypeInv /\ Stored \subseteq Keys
  BY DEF PartInv, SyncInv, Stored
<1>1. /\ \A k \in Stored : storage[k].avgs = 0
      /\ \A o \in out : o.avgs = 1
  BY FailedStays DEF AvgsOnce
<1>2. CASE Kept
  BY <1>1, <1>2 DEF Kept, Stored
<1>3. CASE Freed
  <2>1. ASSUME NEW o \in out' PROVE o.avgs = 1
    <3>1. ASSUME NEW k \in Stored, Copy(o, k) PROVE o.avgs = 1
      BY <1>1, <3>1 DEF Copy
    <3> QED BY <1>0, <1>1, <1>3, <3>1, FreedIs
  <2>2. \A k \in Stored' : storage'[k].avgs = 0
    BY <1>0, <1>1, <1>3, FreedIs
  <2> QED BY <2>1, <2>2
<1>4. ASSUME NEW g, Put(g), g.avgs = 0 PROVE \A k \in Stored' : storage'[k].avgs = 0
  BY <1>0, <1>1, <1>4, PutIs
<1>5. CASE New
  <2>1. InitRecordData(Current, Len(recs)).avgs = 0
    BY DEF InitRecordData
  <2> QED BY <1>1, <1>4, <1>5, <2>1 DEF New
<1>6. CASE Merged
  <2>1. ProcessAggFunctions(storage[Current.key], Current, Len(recs)).avgs
          = storage[Current.key].avgs
    BY <1>0, <1>6 DEF Merged, ProcessAggFunctions, GroupType, TypeInv, TypeOK
  <2>2. storage[Current.key].avgs = 0
    BY <1>1, <1>6 DEF Merged
  <2> QED BY <1>1, <1>4, <1>6, <2>1, <2>2 DEF Merged
<1>7. CASE Restarted
  <2> DEFINE d == Delivered(Current.key, PrepareToSend(storage[Current.key]))
  <2>1. InitRecordData(Current, Len(recs)).avgs = 0
    BY DEF InitRecordData
  <2>2. \A k \in Stored' : storage'[k].avgs = 0
    BY <1>4, <1>7, <2>1 DEF Restarted
  <2>3. d.avgs = storage[Current.key].avgs + 1
    BY <1>0, <1>7, DeliveredIs DEF Restarted
  <2>4. storage[Current.key].avgs = 0 /\ out' = out \cup {d}
    BY <1>1, <1>7 DEF Restarted
  <2> HIDE DEF d
  <2> QED BY <1>1, <2>2, <2>3, <2>4
<1>8. CASE Prepared \/ GaveUp
  BY <1>8 DEF Prepared, GaveUp
<1> QED BY <1>2, <1>3, <1>5, <1>6, <1>7, <1>8, GroupSteps
-----------------------------------------------------------------------------
LEMMA DecidedGrow ==
  ASSUME PartInv, [Next]_vars
  PROVE  Decided \subseteq Decided'
<1> USE DEF mainVars, timerVars, outcome
<1>0. TypeInv /\ recs \in Seq(Records) /\ Len(recs) \in Nat
  BY LenProperties DEF PartInv, SyncInv, TypeInv, TypeOK
<1>1. CASE RecvRecord
  <2>1. PICK k \in Keys, lag \in Lags, d \in Durations :
          recs' = Append(recs, [key |-> k, first |-> now - lag - d,
                                last |-> now - lag])
    BY <1>1 DEF RecvRecord
  <2>2. [key |-> k, first |-> now - lag - d, last |-> now - lag] \in Records
    BY <1>0, ConstantsAssumption DEF Records, TypeInv, TypeOK
  <2>3. Len(recs') = Len(recs) + 1
    BY <1>0, <2>1, <2>2, AppendProperties
  <2>4. ~Pending /\ Pending'
    BY <1>1 DEF RecvRecord, Pending
  <2> QED BY <1>0, <2>3, <2>4 DEF Decided
<1>2. CASE UNCHANGED recs /\ (Pending' => Pending)
  BY <1>0, <1>2 DEF Decided
<1>3. RecvRecord \/ (UNCHANGED recs /\ (Pending' => Pending))
  <2>1. CASE Receive \/ Proceed
    BY <2>1 DEF Receive, Proceed, RecvEOF, RecvTimeout, RecvError, FormatFlush, TemplateOk,
         TemplateFail, SetTime, ProcessNew, ProcessNoMemory, ProcessMerge, ProcessWindow,
         ProcessSendFails, JoinAndExit, Pending, NextTop
  <2>2. CASE Timer \/ Tick \/ Signal \/ UNCHANGED vars
    BY <2>2 DEF Timer, Tick, Signal, vars, TimerStart, TimerTop, TimerFlush, TimerLock,
         TimerExpire, TimerKeep, TimerUnlock, TimerAddTime, Pending
  <2> QED BY <2>1, <2>2 DEF Next
<1> QED BY <1>1, <1>2, <1>3

\* A key whose flows come in order has had them in order before.
LEMMA InOrderBack ==
  ASSUME PartInv, [Next]_vars, NEW k, InOrder(k)'
  PROVE  InOrder(k)
<1>1. DOMAIN recs = 1 .. Len(recs)
  BY LenProperties DEF PartInv, SyncInv, TypeInv, TypeOK
<1>2. recs' \in Seq(Records)
  BY StepType DEF PartInv, SyncInv, TypeInv, TypeOK
<1>3. DOMAIN recs' = 1 .. Len(recs')
  BY <1>2, LenProperties
<1>4. /\ Len(recs) \in Nat /\ Len(recs') \in Nat /\ Len(recs') >= Len(recs)
      /\ \A i \in 1 .. Len(recs) : recs'[i] = recs[i]
  BY RecsGrow
<1> QED BY <1>1, <1>3, <1>4 DEF InOrder

LEMMA PutNear ==
  ASSUME PartInv, Windows, Active, NEW g, Put(g),
         InOrder(Current.key) => Near(g.ids)
  PROVE  \A k \in Stored' : InOrder(k)' => Near(storage[k].ids)'
<1>1. recs' = recs /\ TypeInv
  BY DEF Put, PartInv, SyncInv
<1>2. \A k \in Stored : InOrder(k) => Near(storage[k].ids)
  BY DEF Windows
<1>3. /\ Stored' = Stored \cup {Current.key} /\ storage'[Current.key] = g
      /\ \A k \in Keys \ {Current.key} : storage'[k] = storage[k]
      /\ Stored \subseteq Keys
  BY <1>1, PutIs DEF Stored
<1> SUFFICES ASSUME NEW k \in Stored', InOrder(k)' PROVE Near(storage[k].ids)'
  OBVIOUS
<1>4. InOrder(k)
  BY <1>1 DEF InOrder
<1>5. CASE k = Current.key
  BY <1>1, <1>3, <1>4, <1>5 DEF Near
<1>6. CASE k # Current.key
  <2>1. Near(storage[k].ids) /\ storage'[k] = storage[k]
    BY <1>2, <1>3, <1>4, <1>6
  <2> QED BY <1>1, <2>1 DEF Near
<1> QED BY <1>5, <1>6

LEMMA StepWindows ==
  ASSUME PartInv, [Next]_vars, ExactParts, Windows
  PROVE  Windows'
<1>0. TypeInv /\ Stored \subseteq Keys /\ ActiveT \in Nat
  BY ConstantsAssumption DEF PartInv, SyncInv, Stored
<1>a. Active' = Active
  BY RecsGrow DEF Active
<1> SUFFICES ASSUME Active
             PROVE  /\ \A k \in Stored' : InOrder(k)' => Near(storage[k].ids)'
                    /\ \A o \in out' : InOrder(o.key)' => Near(o.ids)'
  BY <1>a DEF Windows
<1>1. /\ \A k \in Stored : InOrder(k)' => Near(storage[k].ids)
      /\ \A o \in out : InOrder(o.key)' => Near(o.ids)
  BY InOrderBack DEF Windows
<1>2. /\ \A k \in Stored : \A i \in storage[k].ids : recs'[i] = recs[i]
      /\ \A o \in out : \A i \in o.ids : recs'[i] = recs[i]
  BY <1>0, GroupIds, RecsGrow
<1>3. /\ \A k \in Stored : InOrder(k)' /\ storage'[k] = storage[k] => Near(storage[k].ids)'
      /\ \A o \in out : InOrder(o.key)' => Near(o.ids)'
  BY <1>1, <1>2 DEF Near
<1>4. ASSUME NEW k \in Stored, NEW o, Copy(o, k), InOrder(o.key)'
      PROVE  Near(o.ids)'
  BY <1>1, <1>2, <1>4 DEF Near, Copy
<1>5. CASE Kept
  BY <1>3, <1>5 DEF Kept, Stored
<1>6. CASE Freed
  <2>1. \A k \in Stored' : InOrder(k)' => Near(storage[k].ids)'
    BY <1>0, <1>3, <1>6, FreedIs
  <2>2. ASSUME NEW o \in out', InOrder(o.key)' PROVE Near(o.ids)'
    BY <1>0, <1>3, <1>4, <1>6, <2>2, FreedIs
  <2> QED BY <2>1, <2>2
<1>7. CASE New \/ Restarted
  <2>1. /\ Put(InitRecordData(Current, Len(recs)))
        /\ InitRecordData(Current, Len(recs)).ids = {Len(recs)}
    BY <1>7 DEF New, Restarted, InitRecordData
  <2>2. recs[Len(recs)].first \in Int
    BY <1>0, <2>1, PutIs DEF Records
  <2>3. Near(InitRecordData(Current, Len(recs)).ids)
    BY <1>0, <2>1, <2>2 DEF Near
  <2>4. \A k \in Stored' : InOrder(k)' => Near(storage[k].ids)'
    BY <2>1, <2>3, PutNear
  <2>5. CASE New
    BY <1>3, <2>4, <2>5 DEF New
  <2>6. CASE Restarted
    <3>1. PICK d : d = Delivered(Current.key, PrepareToSend(storage[Current.key]))
      OBVIOUS
    <3>2. Copy(d, Current.key)
      BY <1>0, <2>6, <3>1, DeliveredIs DEF Restarted, Copy
    <3>3. Current.key \in Stored /\ out' = out \cup {d}
      BY <2>6, <3>1 DEF Restarted
    <3>4. InOrder(d.key)' => Near(d.ids)'
      BY <1>4, <3>2, <3>3
    <3> QED BY <1>3, <2>4, <3>3, <3>4
  <2> QED BY <1>7, <2>5, <2>6
<1>8. CASE Merged
  <2> DEFINE j == Len(recs)
             h == storage[Current.key]
             g == ProcessAggFunctions(h, Current, j)
  <2>1. /\ Put(g) /\ Current.key \in Stored /\ ~WindowClosed(h, Current) /\ out' = out
        /\ h \in GroupType
    BY <1>0, <1>8 DEF Merged, TypeInv, TypeOK
  <2>2. g.ids = h.ids \cup {j}
    BY <2>1 DEF ProcessAggFunctions, GroupType
  <2>3. /\ Current = recs[j] /\ Current \in Records /\ j \in Nat /\ j \notin Decided
        /\ Decided \subseteq 1 .. j
    BY <1>0, <2>1, PutIs
  <2>4. \A i \in h.ids : /\ i \in Decided /\ recs[i].key = Current.key
                        /\ recs[i] \in Records /\ h.first <= recs[i].first
    BY <1>0, <2>1, GroupIds DEF ExactParts, Exact
  <2>5. h.first + ActiveT >= Current.first /\ h.first \in Int /\ Current.first \in Int
    BY <1>0, <2>1, <2>3 DEF WindowClosed, GroupType, Records
  <2> HIDE DEF g, h
  <2>6. ASSUME InOrder(Current.key) PROVE Near(g.ids)
    <3>1. Near(h.ids)
      BY <1>0, <2>1, <2>6 DEF Windows, h
    <3>2. ASSUME NEW i \in h.ids
          PROVE  /\ recs[j].first - recs[i].first <= ActiveT
                 /\ recs[i].first - recs[j].first <= ActiveT
      <4>1. recs[i].first \in Int /\ h.first <= recs[i].first
        BY <2>4 DEF Records
      <4>2. i \in 1 .. j /\ i # j
        BY <2>3, <2>4
      <4>3. recs[i].first <= recs[j].first
        <5>1. DOMAIN recs = 1 .. j
          BY <1>0, LenProperties DEF TypeInv, TypeOK
        <5>2. i < j /\ j \in 1 .. j
          BY <2>3, <4>2
        <5> QED BY <2>3, <2>4, <2>6, <4>2, <5>1, <5>2 DEF InOrder
      <4> QED BY <1>0, <2>3, <2>5, <4>1, <4>3
    <3>3. recs[j].first - recs[j].first <= ActiveT
      BY <1>0, <2>3, <2>5
    <3> QED BY <2>2, <3>1, <3>2, <3>3 DEF Near
  <2>7. \A k \in Stored' : InOrder(k)' => Near(storage[k].ids)'
    BY <2>1, <2>6, PutNear
  <2> QED BY <1>3, <2>1, <2>7
<1>9. CASE Prepared
  <2>1. /\ Put(PrepareToSend(storage[Current.key])) /\ Current.key \in Stored /\ out' = out
        /\ storage[Current.key] \in GroupType
    BY <1>0, <1>9 DEF Prepared, TypeInv, TypeOK
  <2>2. PrepareToSend(storage[Current.key]).ids = storage[Current.key].ids
    BY <2>1 DEF PrepareToSend, GroupType
  <2>3. InOrder(Current.key) => Near(PrepareToSend(storage[Current.key]).ids)
    BY <2>1, <2>2 DEF Windows
  <2>4. \A k \in Stored' : InOrder(k)' => Near(storage[k].ids)'
    BY <2>1, <2>3, PutNear
  <2> QED BY <1>3, <2>1, <2>4
<1>10. CASE GaveUp
  BY <1>3, <1>10 DEF GaveUp
<1> QED BY <1>5, <1>6, <1>7, <1>8, <1>9, <1>10, GroupSteps
-----------------------------------------------------------------------------
LEMMA OutKeys == ASSUME PartInv PROVE \A o \in out : o.key \in Keys
BY DEF PartInv, SyncInv, TypeInv, TypeOK

\* What key k holds after it was given g: the record at hand, or what it held before.
PutIds(g) == g.ids \subseteq storage[Current.key].ids \cup {Len(recs)}

LEMMA PutsIds ==
  ASSUME PartInv
  PROVE  /\ New => Put(InitRecordData(Current, Len(recs)))
                   /\ PutIds(InitRecordData(Current, Len(recs)))
         /\ Merged => \E g : Put(g) /\ PutIds(g)
         /\ Prepared => \E g : Put(g) /\ PutIds(g)
<1>0. \A k \in Keys : storage[k] \in GroupType
  BY GroupIds
<1>1. \A g \in GroupType :
        /\ ProcessAggFunctions(g, Current, Len(recs)).ids = g.ids \cup {Len(recs)}
        /\ PrepareToSend(g).ids = g.ids
  BY DEF ProcessAggFunctions, PrepareToSend, GroupType
<1>2. InitRecordData(Current, Len(recs)).ids = {Len(recs)}
  BY DEF InitRecordData
<1>3. Merged => Current.key \in Keys
                /\ Put(ProcessAggFunctions(storage[Current.key], Current, Len(recs)))
  BY DEF Merged, Put
<1>4. Prepared => Current.key \in Keys /\ Put(PrepareToSend(storage[Current.key]))
  BY DEF Prepared, Put
<1>5. New => Put(InitRecordData(Current, Len(recs)))
  BY DEF New
<1> QED BY <1>0, <1>1, <1>2, <1>3, <1>4, <1>5 DEF PutIds

LEMMA StepLater ==
  ASSUME PartInv, [Next]_vars, Later
  PROVE  Later'
<1>0. TypeInv /\ Stored \subseteq Keys /\ \A o \in out : o.key \in Keys
  BY OutKeys DEF PartInv, SyncInv, Stored
<1>1. CASE Kept
  BY <1>1 DEF Kept, Later
<1>2. CASE Freed
  <2>1. /\ \A k \in Stored' : k \in Stored /\ storage'[k] = storage[k]
        /\ \A o \in out' : o \in out \/ \E k \in Stored \ Stored' : Copy(o, k)
        /\ \A k \in Keys \ Stored' : storage'[k].ids = {}
    BY <1>0, <1>2, FreedIs
  <2> SUFFICES ASSUME NEW o \in out', NEW m \in o.ids, NEW i \in storage'[o.key].ids
               PROVE  m < i
    BY DEF Later
  <2>2. CASE o \in out
    BY <1>0, <2>1, <2>2 DEF Later
  <2>3. ASSUME NEW k \in Stored \ Stored', Copy(o, k) PROVE FALSE
    BY <1>0, <2>1, <2>3 DEF Copy
  <2> QED BY <2>1, <2>2, <2>3
<1>3. ASSUME NEW g, Put(g), PutIds(g), out' = out PROVE Later'
  <2>1. /\ storage'[Current.key] = g
        /\ \A k \in Keys \ {Current.key} : storage'[k] = storage[k]
        /\ Len(recs) \in Nat /\ Len(recs) \notin Decided /\ Decided \subseteq 1 .. Len(recs)
    BY <1>0, <1>3, PutIs
  <2> SUFFICES ASSUME NEW o \in out, NEW m \in o.ids, NEW i \in storage'[o.key].ids
               PROVE  m < i
    BY <1>3 DEF Later
  <2>2. CASE i \in storage[o.key].ids
    BY <2>2 DEF Later
  <2>3. CASE i = Len(recs)
    <3>1. m \in Decided
      BY GroupIds
    <3>2. m \in 1 .. Len(recs) /\ m # Len(recs)
      BY <2>1, <3>1
    <3> QED BY <2>1, <2>3, <3>2
  <2>4. i \in storage[o.key].ids \/ i = Len(recs)
    BY <1>0, <1>3, <2>1 DEF PutIds
  <2> QED BY <2>2, <2>3, <2>4
<1>4. CASE New \/ Merged \/ Prepared
  BY <1>3, <1>4, PutsIds DEF New, Merged, Prepared
<1>5. CASE Restarted
  <2>1. Put(InitRecordData(Current, Len(recs)))
    BY <1>5 DEF Restarted
  <2>2. InitRecordData(Current, Len(recs)).ids = {Len(recs)}
    BY DEF InitRecordData
  <2>3. /\ storage'[Current.key].ids = {Len(recs)} /\ Current.key \in Keys
        /\ \A k \in Keys \ {Current.key} : storage'[k] = storage[k]
        /\ Len(recs) \in Nat /\ Len(recs) \notin Decided /\ Decided \subseteq 1 .. Len(recs)
    BY <1>0, <1>5, <2>1, <2>2, PutIs DEF Put
  <2>4. PICK d : /\ Copy(d, Current.key) /\ out' = out \cup {d}
    BY <1>0, <1>5, <2>3, DeliveredIs DEF Restarted, Copy
  <2> SUFFICES ASSUME NEW o \in out', NEW m \in o.ids, NEW i \in storage'[o.key].ids
               PROVE  m < i
    BY DEF Later
  <2>5. m \in Decided
    BY <2>3, <2>4, GroupIds DEF Copy
  <2>6. m \in 1 .. Len(recs) /\ m # Len(recs)
    BY <2>3, <2>5
  <2>7. CASE o.key = Current.key
    BY <2>3, <2>6, <2>7
  <2>8. CASE o.key # Current.key
    <3>1. o \in out
      BY <2>4, <2>8 DEF Copy
    <3> QED BY <1>0, <2>3, <2>8, <3>1 DEF Later
  <2> QED BY <2>7, <2>8
<1>6. CASE GaveUp
  <2>1. \A k \in Keys : storage'[k].ids = {}
    BY <1>6 DEF GaveUp, Stored
  <2> QED BY <1>0, <1>6, <2>1 DEF GaveUp, Later
<1> QED BY <1>1, <1>2, <1>4, <1>5, <1>6, GroupSteps

LEMMA StepFollowed ==
  ASSUME PartInv, [Next]_vars, Followed
  PROVE  Followed'
<1>0. /\ TypeInv /\ Stored \subseteq Keys /\ format \in Nat /\ timeout' = timeout
      /\ \A k \in Stored : storage[k].format = format
  BY RecsGrow DEF PartInv, SyncInv, Stored, TypeInv, TypeOK, TemplateCurrent
<1>1. \A o \in out : o.format <= format /\ o.format \in Nat
  BY <1>0 DEF Followed, TypeInv, TypeOK
<1>2. timeout = "active" => tpc' \in {"start", "done"}
  <2>1. timeout = "active" => tpc \in {"start", "done"}
    BY DEF Followed
  <2> QED BY <2>1
       DEF Next, Receive, Proceed, Timer, Tick, Signal, vars, RecvRecord, RecvEOF, RecvTimeout,
         RecvError, FormatFlush, TemplateOk, TemplateFail, SetTime, ProcessNew,
         ProcessNoMemory, ProcessMerge, ProcessWindow, ProcessSendFails, JoinAndExit,
         TimerStart, TimerTop, Awake, TimerFlush, TimerLock, TimerExpire, TimerKeep,
         TimerUnlock, TimerAddTime, timerVars
<1>3. timeout = "active" /\ ~Over => \A o \in out : o.format = format => o.key \in Stored
  BY DEF Followed, Over
<1> SUFFICES /\ \A o \in out' : o.format <= format'
             /\ timeout = "active" /\ ~Over' =>
                  \A o \in out' : o.format = format' => o.key \in Stored'
  BY <1>0, <1>2 DEF Followed, Over
<1>4. CASE Kept
  <2>1. CASE TemplateOk
    <3>1. format' = format + 1 /\ out' = out
      BY <1>4, <2>1 DEF Kept, TemplateOk
    <3>2. \A o \in out : o.format <= format' /\ o.format # format'
      BY <1>0, <1>1, <3>1
    <3> QED BY <3>1, <3>2
  <2>2. CASE format' = format /\ (Over => Over')
    BY <1>1, <1>3, <1>4, <2>2 DEF Kept, Stored
  <2> QED BY <1>4, <2>1, <2>2 DEF Kept
<1>5. ASSUME NEW k \in Stored, NEW o, Copy(o, k) PROVE o.format = format
  BY <1>0, <1>5 DEF Copy
<1>6. CASE Freed
  <2>1. \A o \in out' : o \in out \/ o.format = format
    BY <1>0, <1>5, <1>6, FreedIs
  <2>2. format' = format /\ (Over' \/ tpc \in {"lock", "scan"})
    BY <1>6 DEF Freed
  <2>3. timeout = "active" => Over'
    BY <2>2 DEF Followed
  <2> QED BY <1>0, <1>1, <2>1, <2>2, <2>3
<1>7. CASE New \/ Merged \/ Prepared
  <2>1. PICK g : Put(g)
    BY <1>7, PutsIds
  <2>2. format' = format /\ mpc = "process" /\ out' = out
    BY <1>7, <2>1 DEF Put, New, Merged, Prepared
  <2>3. Stored \subseteq Stored'
    BY <1>0, <2>1, PutIs
  <2> QED BY <1>1, <1>3, <2>2, <2>3 DEF Over
<1>8. CASE Restarted
  <2>1. Put(InitRecordData(Current, Len(recs))) /\ Current.key \in Stored
    BY <1>8 DEF Restarted
  <2>2. format' = format /\ mpc = "process"
    BY <2>1 DEF Put
  <2>3. Stored \subseteq Stored'
    BY <1>0, <2>1, PutIs
  <2>4. PICK d : /\ Copy(d, Current.key) /\ out' = out \cup {d}
    BY <1>0, <1>8, <2>1, DeliveredIs DEF Restarted, Copy
  <2>5. d.format = format /\ d.key = Current.key
    BY <1>5, <2>1, <2>4 DEF Copy
  <2> QED BY <1>0, <1>1, <1>3, <2>1, <2>2, <2>3, <2>4, <2>5 DEF Over
<1>9. CASE GaveUp
  BY <1>1, <1>9 DEF GaveUp
<1> QED BY <1>4, <1>6, <1>7, <1>8, <1>9, GroupSteps
-----------------------------------------------------------------------------
\* A record that opens the next group now has opened it before.
LEMMA OpensBack ==
  ASSUME PartInv, [Next]_vars, NEW o, NEW j \in Decided, Opens(o, j)'
  PROVE  Opens(o, j)
<1>1. Decided \subseteq Decided' /\ \A i \in Decided : recs'[i] = recs[i]
  BY DecidedGrow, GroupIds, RecsGrow
<1> QED BY <1>1 DEF Opens

LEMMA BeyondStays ==
  ASSUME PartInv, [Next]_vars, NEW o, NEW j \in Decided, Beyond(o, j)
  PROVE  Beyond(o, j)'
<1>1. recs'[j] = recs[j]
  BY GroupIds, RecsGrow
<1> QED BY <1>1, OpensBack DEF Beyond

\* Nothing opens before the group it follows has ended.
LEMMA NotBefore ==
  ASSUME NEW o, NEW j \in Int, NEW i \in o.ids, i \in Int, j <= i
  PROVE  Beyond(o, j)'
<1>1. ~(i < j)
  OBVIOUS
<1> QED BY <1>1 DEF Beyond, Opens

LEMMA StepSplits ==
  ASSUME PartInv, [Next]_vars, Later, Followed, Splits
  PROVE  Splits'
<1>0. /\ TypeInv /\ Stored \subseteq Keys /\ timeout' = timeout
      /\ \A o \in out : o.key \in Keys
      /\ \A k \in Stored : storage[k].format = format /\ storage[k].ids # {}
  BY RecsGrow, OutKeys DEF PartInv, SyncInv, Stored, TypeInv, TypeOK, TemplateCurrent
<1> SUFFICES ASSUME timeout = "active", NEW o \in out'
             PROVE  /\ \A p \in out' : p.key = o.key /\ p.format = o.format =>
                         \A j \in p.ids : Beyond(o, j)'
                    /\ o.key \in Stored' /\ storage'[o.key].format = o.format =>
                         \A j \in storage'[o.key].ids : Beyond(o, j)'
  BY <1>0 DEF Splits
<1>1. /\ Decided \subseteq Int /\ Len(recs) \in Int
      /\ \A k \in Keys : \A i \in storage[k].ids : i \in Decided /\ i \in Int /\ recs[i].key = k
      /\ \A p \in out : \A i \in p.ids : i \in Decided /\ i \in Int
  BY GroupIds
\* A group that was there before.
<1>2. ASSUME o \in out
      PROVE  /\ \A p \in out : p.key = o.key /\ p.format = o.format =>
                  \A j \in p.ids : Beyond(o, j)'
             /\ o.key \in Stored /\ storage[o.key].format = o.format =>
                  \A j \in storage[o.key].ids : Beyond(o, j)'
  <2>1. ASSUME NEW p \in out, p.key = o.key, p.format = o.format, NEW j \in p.ids
        PROVE  Beyond(o, j)'
    BY <1>1, <1>2, <2>1, BeyondStays DEF Splits
  <2>2. ASSUME o.key \in Stored, storage[o.key].format = o.format, NEW j \in storage[o.key].ids
        PROVE  Beyond(o, j)'
    BY <1>0, <1>1, <1>2, <2>2, BeyondStays DEF Splits
  <2> QED BY <2>1, <2>2
\* A group that leaves: what has left before came before, and itself opens nothing.
<1>3. ASSUME NEW k \in Stored, Copy(o, k)
      PROVE  /\ \A p \in out : p.key = o.key => \A j \in p.ids : Beyond(o, j)'
             /\ \A j \in o.ids : Beyond(o, j)'
  <2>1. o.key = k /\ o.ids = storage[k].ids
    BY <1>3 DEF Copy
  <2>2. ASSUME NEW p \in out, p.key = k, NEW j \in p.ids PROVE Beyond(o, j)'
    <3>1. PICK i \in o.ids : TRUE
      BY <1>0, <2>1
    <3>2. i \in Int /\ j \in Int /\ j < i
      BY <1>0, <1>1, <2>1, <2>2 DEF Later
    <3> QED BY <3>2, NotBefore
  <2>3. ASSUME NEW j \in o.ids PROVE Beyond(o, j)'
    <3>1. j \in Int /\ j <= j
      BY <1>0, <1>1, <2>1
    <3> QED BY <3>1, NotBefore
  <2> QED BY <2>1, <2>2, <2>3
<1>4. CASE Kept
  <2>1. o \in out /\ out' = out /\ storage' = storage /\ Stored' = Stored
    BY <1>4 DEF Kept, Stored
  <2> QED BY <1>2, <2>1
<1>5. CASE Freed
  <2>1. /\ \A k \in Stored' : k \in Stored /\ storage'[k] = storage[k]
        /\ \A p \in out' : p \in out \/ \E k \in Stored \ Stored' : Copy(p, k)
    BY <1>0, <1>5, FreedIs
  <2>2. CASE o \in out
    <3>1. ASSUME NEW p \in out', p.key = o.key, p.format = o.format, NEW j \in p.ids
          PROVE  Beyond(o, j)'
      <4>1. CASE p \in out
        BY <1>2, <2>2, <3>1, <4>1
      <4>2. ASSUME NEW k \in Stored, Copy(p, k) PROVE Beyond(o, j)'
        <5>1. p.key = k /\ p.ids = storage[k].ids /\ p.format = storage[k].format
          BY <4>2 DEF Copy
        <5> QED BY <1>2, <2>2, <3>1, <5>1
      <4> QED BY <2>1, <4>1, <4>2
    <3> QED BY <1>2, <2>1, <2>2, <3>1
  <2>3. ASSUME NEW k \in Stored \ Stored', Copy(o, k)
        PROVE  /\ \A p \in out' : p.key = o.key /\ p.format = o.format =>
                    \A j \in p.ids : Beyond(o, j)'
               /\ o.key \notin Stored'
    <3>1. o.key = k /\ o.ids = storage[k].ids
      BY <2>3 DEF Copy
    <3>2. ASSUME NEW p \in out', p.key = o.key, NEW j \in p.ids
          PROVE  Beyond(o, j)'
      <4>1. CASE p \in out
        BY <1>3, <2>3, <3>2, <4>1
      <4>2. ASSUME NEW l \in Stored, Copy(p, l) PROVE Beyond(o, j)'
        <5>1. p.key = l /\ p.ids = storage[l].ids
          BY <4>2 DEF Copy
        <5> QED BY <1>3, <2>3, <3>1, <3>2, <5>1
      <4> QED BY <2>1, <4>1, <4>2
    <3> QED BY <2>3, <3>1, <3>2
  <2> QED BY <2>1, <2>2, <2>3
\* The record at hand joins what is stored: that is what follows o already.
<1>6. ASSUME mpc = "process", Current.key \in Stored, o \in out, o.key = Current.key,
             UNCHANGED recs, Decided' = Decided \cup {Len(recs)}
      PROVE  Beyond(o, Len(recs))'
  <2>1. PICK i \in storage[Current.key].ids : TRUE
    BY <1>0, <1>6
  <2>2. i \in Decided /\ i \in Int /\ recs[i].key = o.key /\ \A m \in o.ids : m < i /\ m \in Int
    BY <1>0, <1>1, <1>6 DEF Later
  <2>3. i < Len(recs)
    <3>1. Len(recs) \notin Decided /\ Decided \subseteq 1 .. Len(recs)
      BY <1>0, <1>6, DecidedRange DEF Pending
    <3> QED BY <1>1, <2>2, <3>1
  <2>4. ~\E m \in o.ids : i <= m
    BY <2>2
  <2>5. i \in Decided' /\ recs'[i].key = o.key
    BY <1>6, <2>2
  <2>6. PICK j : j = Len(recs)
    OBVIOUS
  <2>7. ~Opens(o, j)'
    BY <2>3, <2>4, <2>5, <2>6 DEF Opens
  <2>8. Len(recs)' = Len(recs)
    BY <1>6
  <2> QED BY <2>6, <2>7, <2>8 DEF Beyond
<1>7. CASE Merged \/ Prepared
  <2>1. PICK g : Put(g) /\ PutIds(g)
    BY <1>7, PutsIds
  <2>2. /\ storage'[Current.key] = g /\ Stored' = Stored /\ Current.key \in Stored
        /\ \A k \in Keys \ {Current.key} : storage'[k] = storage[k]
    BY <1>0, <1>7, <2>1, PutIs DEF Merged, Prepared
  <2>3. /\ UNCHANGED <<recs, out, format>> /\ mpc = "process"
        /\ Decided' = Decided \cup {Len(recs)}
    BY <1>7, <2>1 DEF Put, Merged, Prepared
  <2>4. \A k \in Stored : storage'[k].format = storage[k].format
    <3>1. \A k \in Stored' : storage'[k].format = format'
      BY StepPartition DEF PartInv, SyncInv, TemplateCurrent
    <3> QED BY <1>0, <2>2, <2>3, <3>1
  <2>5. o \in out
    BY <2>3
  <2>6. ASSUME o.key \in Stored', storage'[o.key].format = o.format,
               NEW j \in storage'[o.key].ids
        PROVE  Beyond(o, j)'
    <3>1. CASE j \in storage[o.key].ids
      BY <1>2, <2>2, <2>4, <2>5, <2>6, <3>1
    <3>2. CASE j \notin storage[o.key].ids
      <4>1. o.key = Current.key /\ j = Len(recs)
        BY <1>0, <2>1, <2>2, <2>5, <2>6, <3>2 DEF PutIds
      <4>2. Beyond(o, Len(recs))'
        BY <1>6, <2>2, <2>3, <2>5, <4>1
      <4> QED BY <2>3, <4>1, <4>2 DEF Beyond, Opens
    <3> QED BY <3>1, <3>2
  <2> QED BY <1>2, <2>3, <2>5, <2>6
\* The record at hand opens the first group of its key in this format.
<1>8. CASE New
  <2>1. Put(InitRecordData(Current, Len(recs))) /\ Current.key \notin Stored /\ out' = out
    BY <1>8 DEF New
  <2>2. /\ Stored' = Stored \cup {Current.key}
        /\ \A k \in Keys \ {Current.key} : storage'[k] = storage[k]
        /\ storage'[Current.key].format = format /\ mpc = "process"
    <3>1. InitRecordData(Current, Len(recs)).format = format
      BY DEF InitRecordData
    <3>2. storage'[Current.key] = InitRecordData(Current, Len(recs))
      BY <1>0, <2>1, PutIs
    <3>3. mpc = "process"
      BY <2>1 DEF Put
    <3> QED BY <1>0, <2>1, <3>1, <3>2, <3>3, PutIs
  <2>3. o \in out /\ (o.format = format => o.key \in Stored)
    BY <2>1, <2>2 DEF Followed
  <2>4. ASSUME o.key \in Stored', storage'[o.key].format = o.format
        PROVE  o.key \in Stored /\ storage'[o.key] = storage[o.key]
    <3>1. o.key # Current.key
      BY <2>1, <2>2, <2>3, <2>4
    <3> QED BY <1>0, <2>2, <2>3, <2>4, <3>1
  <2> QED BY <1>2, <2>1, <2>3, <2>4
\* The record at hand opens a group because the window of the one before is over.
<1>9. CASE Restarted
  <2>1. /\ Put(InitRecordData(Current, Len(recs))) /\ Current.key \in Stored
        /\ WindowClosed(storage[Current.key], Current)
    BY <1>9 DEF Restarted
  <2>2. PICK d : Copy(d, Current.key) /\ out' = out \cup {d}
    BY <1>0, <1>9, <2>1, DeliveredIs DEF Restarted, Copy
  <2>3. /\ Stored' = Stored
        /\ \A k \in Keys \ {Current.key} : storage'[k] = storage[k]
        /\ storage'[Current.key].ids = {Len(recs)}
    <3>1. InitRecordData(Current, Len(recs)).ids = {Len(recs)}
      BY DEF InitRecordData
    <3>2. storage'[Current.key] = InitRecordData(Current, Len(recs))
      BY <1>0, <2>1, PutIs
    <3> QED BY <1>0, <2>1, <3>1, <3>2, PutIs
  <2>4. /\ UNCHANGED recs /\ mpc = "process" /\ Decided' = Decided \cup {Len(recs)}
    BY <2>1 DEF Put
  <2>5. d.key = Current.key /\ d.ids = storage[Current.key].ids
        /\ d.format = storage[Current.key].format /\ d.first = storage[Current.key].first
    BY <2>2 DEF Copy
  <2>6. ASSUME NEW j, j = Len(recs) PROVE Beyond(d, j)'
    <3>1. storage[Current.key].first + ActiveT < Current.first
      BY <2>1 DEF WindowClosed
    <3>2. recs'[j].first = Current.first
      BY <2>4, <2>6 DEF Current
    <3>3. Current.first \in Int /\ storage[Current.key].first + ActiveT \in Int
      <4>1. Current \in Records /\ Current.key \in Keys
        BY <1>0, <2>1, PutIs DEF Stored
      <4>2. storage[Current.key] \in GroupType
        BY <4>1, GroupIds
      <4> QED BY <4>1, <4>2, ConstantsAssumption DEF Records, GroupType
    <3>4. recs'[j].first > d.first + ActiveT
      BY <2>5, <3>1, <3>2, <3>3
    <3> QED BY <3>4 DEF Beyond
  <2>7. CASE o \in out
    <3>1. ASSUME NEW p \in out', p.key = o.key, p.format = o.format, NEW j \in p.ids
          PROVE  Beyond(o, j)'
      <4>1. CASE p \in out
        BY <1>2, <2>7, <3>1, <4>1
      <4>2. CASE p = d
        BY <1>2, <2>1, <2>5, <2>7, <3>1, <4>2
      <4> QED BY <2>2, <3>1, <4>1, <4>2
    <3>2. ASSUME o.key \in Stored', storage'[o.key].format = o.format,
                 NEW j \in storage'[o.key].ids
          PROVE  Beyond(o, j)'
      <4>1. CASE o.key # Current.key
        BY <1>0, <1>2, <2>3, <2>7, <3>2, <4>1
      <4>2. CASE o.key = Current.key
        <5>1. Beyond(o, Len(recs))' /\ j = Len(recs)
          BY <1>6, <2>1, <2>3, <2>4, <2>7, <3>2, <4>2
        <5> QED BY <2>4, <5>1 DEF Beyond, Opens
      <4> QED BY <4>1, <4>2
    <3> QED BY <3>1, <3>2
  <2>8. CASE o = d
    <3>1. ASSUME NEW p \in out', p.key = o.key, NEW j \in p.ids
          PROVE  Beyond(o, j)'
      <4>1. CASE p \in out
        BY <1>3, <2>1, <2>2, <2>8, <3>1, <4>1
      <4>2. CASE p = d
        BY <1>3, <2>1, <2>2, <2>8, <3>1, <4>2
      <4> QED BY <2>2, <3>1, <4>1, <4>2
    <3>2. ASSUME NEW j \in storage'[o.key].ids
          PROVE  Beyond(o, j)'
      BY <2>3, <2>5, <2>6, <2>8, <3>2
    <3> QED BY <3>1, <3>2
  <2> QED BY <2>2, <2>7, <2>8
<1>10. CASE GaveUp
  <2>1. o \in out /\ out' = out /\ Stored' = {}
    BY <1>10 DEF GaveUp
  <2> QED BY <1>2, <2>1
<1> QED BY <1>4, <1>5, <1>7, <1>8, <1>9, <1>10, GroupSteps
-----------------------------------------------------------------------------
(***************************************************************************)
(* The theorems.                                                           *)
(***************************************************************************)

LEMMA InitContent == Init => ContentInv
<1> SUFFICES ASSUME Init PROVE ContentInv
  OBVIOUS
<1>1. PartInv
  BY InitPartition
<1>2. Stored = {} /\ out = {} /\ tpc = "start"
  BY DEF Init, Stored, Absent
<1>3. ExactParts /\ AvgsOnce /\ Windows /\ Later /\ Followed /\ Splits
  BY <1>2 DEF ExactParts, AvgsOnce, Windows, Later, Followed, Splits
<1> QED BY <1>1, <1>3 DEF ContentInv

LEMMA StepContent == ContentInv /\ [Next]_vars => ContentInv'
BY StepPartition, StepExact, StepAvgs, StepWindows, StepLater, StepFollowed, StepSplits
   DEF ContentInv

LEMMA ContentCorrect == Spec => []ContentInv
  BY InitContent, StepContent, PTL DEF Spec

\* COUNT, TIME_FIRST and TIME_LAST of every group, stored or sent, are those of the records
\* that process_agg_functions merged into it, whatever expiries, changes of format and ends
\* of windows came in between; prepare_to_send has averaged it once, and only when it left
\* (agg_functions.cpp, aggregator.cpp).
THEOREM AggregatesExactCorrect == Spec => []AggregatesExact
<1>1. mutex # "main" => ~SendFailed
  BY DEF SendFailed
<1>2. ContentInv => AggregatesExact
  BY <1>1 DEF ContentInv, ExactParts, AvgsOnce, AggregatesExact
<1> QED BY <1>2, ContentCorrect, PTL

\* Every group, stored or sent, is one of those.
LEMMA EachGroup ==
  ASSUME NEW g \in Groups
  PROVE  g \in out \/ \E k \in Stored : g.key = k /\ g.ids = storage[k].ids
                                        /\ g.format = storage[k].format
BY DEF Groups, Delivered

\* With an active timeout the flows of one group start within ActiveT seconds, for every key
\* whose flows arrive in the order of their starts (the check against active_timeout in the
\* main loop of aggregator.cpp).
THEOREM WindowBoundedCorrect == Spec => []WindowBounded
<1>1. ASSUME ContentInv, Active, NEW g \in Groups, InOrder(g.key)
      PROVE  \A i, j \in g.ids : recs[j].first - recs[i].first <= ActiveT
  <2>1. CASE g \in out
    BY <1>1, <2>1 DEF ContentInv, Windows, Near
  <2>2. CASE \E k \in Stored : g.key = k /\ g.ids = storage[k].ids
    BY <1>1, <2>2 DEF ContentInv, Windows, Near
  <2> QED BY <1>1, <2>1, <2>2, EachGroup
<1>2. ContentInv => WindowBounded
  BY <1>1 DEF WindowBounded
<1> QED BY <1>2, ContentCorrect, PTL

\* With the active timeout alone a key's next group in the same format opens only with a
\* record beyond the window of the one sent before: no other way through main's loop or the
\* timeout thread takes a group out early (aggregator.cpp).
THEOREM SplitOnlyAtWindowCorrect == Spec => []SplitOnlyAtWindow
<1>1. ASSUME ContentInv, timeout = "active", NEW o \in out, NEW g \in Groups, NEW j \in g.ids,
             g.key = o.key, g.format = o.format
      PROVE  Beyond(o, j)
  <2>1. CASE g \in out
    BY <1>1, <2>1 DEF ContentInv, Splits
  <2>2. ASSUME NEW k \in Stored, g.key = k, g.ids = storage[k].ids,
               g.format = storage[k].format
        PROVE  Beyond(o, j)
    BY <1>1, <2>2 DEF ContentInv, Splits
  <2> QED BY <1>1, <2>1, <2>2, EachGroup
<1>2. ContentInv => SplitOnlyAtWindow
  BY <1>1 DEF SplitOnlyAtWindow, Beyond, Opens
<1> QED BY <1>2, ContentCorrect, PTL
=============================================================================
