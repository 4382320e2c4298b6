----------------------------- MODULE Aggregator -----------------------------
(***************************************************************************)
(* The aggregation module (aggregator/): the main thread receives flow     *)
(* records and merges them into one stored record per key, and the thread  *)
(* check_timeouts sends out what is idle ("passive", "mixed") or           *)
(* everything in every period ("global").  The two share storage (under    *)
(* storage_mutex), time_last_from_record and the flag stop.                *)
(*                                                                         *)
(* A code section that runs under storage_mutex and reads nothing another  *)
(* thread may write meanwhile is one action; the passive scan reads        *)
(* time_last_from_record without its mutex, so it takes a step per key.    *)
(* Field values are abstracted to COUNT, TIME_FIRST and TIME_LAST; seconds *)
(* are the unit of time.                                                   *)
(***************************************************************************)
EXTENDS Integers, Sequences, FiniteSets

CONSTANTS
  Keys,          \* aggregation keys
  TimeoutTypes,  \* the timeout types (-t) explored
  ActiveT, PassiveT, GlobalT,  \* their lengths
  StartTime,     \* wall clock when the module starts
  MaxTime,       \* bound: the clock stops here
  MaxRecords,    \* bound on the records received
  MaxFormats,    \* bound on the formats announced by the input
  Lags,          \* how long ago the flow of a received record ended
  Durations      \* how long that flow took

ASSUME ConstantsAssumption ==
  /\ TimeoutTypes \subseteq {"active", "passive", "mixed", "global"}
  /\ ActiveT \in Nat \ {0} /\ PassiveT \in Nat \ {0} /\ GlobalT \in Nat \ {0}
  /\ StartTime \in Nat /\ MaxTime \in Nat
  /\ MaxRecords \in Nat /\ MaxFormats \in Nat
  /\ Lags \subseteq Nat /\ Durations \subseteq Nat

VARIABLES
  timeout,  \* timeout_type
  stop,     \* the flag set by signals and by the end of the input
  mpc,      \* where the main thread is
  tpc,      \* where the timeout thread is
  mutex,    \* who holds storage_mutex
  storage,  \* [Keys -> group]; a group without ids is not in the map
  tlast,    \* time_last_from_record
  now,      \* the wall clock, time(NULL)
  start,    \* when the current period of the timeout thread began
  todo,     \* the keys the passive scan has not visited yet
  format,   \* how many output templates have been made
  recs,     \* history: the records received; main works on the last one
  out,      \* history: the groups delivered
  dropped,  \* history: the numbers of the records that were not delivered
  late      \* history: the first record of a format came before the timeout
            \* thread, or past the begin of a round of it

vars == <<timeout, stop, mpc, tpc, mutex, storage, tlast, now, start, todo,
          format, recs, out, dropped, late>>

mainVars  == <<mpc, format, recs>>
timerVars == <<tpc, start, todo, late>>
outcome   == <<storage, out, dropped>>

Records == [key : Keys, first : Int, last : Int]

Absent == [ids |-> {}, count |-> 0, first |-> 0, last |-> 0,
           avgs |-> 0, format |-> 0]

Stored == {k \in Keys : storage[k].ids # {}}

Active  == timeout \in {"active", "mixed"}
Passive == timeout \in {"passive", "mixed"}

Running == mpc \notin {"exited", "aborted"}

\* The record main works on, and whether there is one.
Current == recs[Len(recs)]
Pending == mpc \in {"format", "template", "settime", "process"}

NextTop == IF stop THEN "join" ELSE "recv"
-----------------------------------------------------------------------------
Init ==
  /\ timeout \in TimeoutTypes
  /\ stop = FALSE
  /\ mpc = "recv"
  /\ tpc = "start"
  /\ mutex = "free"
  /\ storage = [k \in Keys |-> Absent]
  /\ now = StartTime
  /\ tlast = StartTime
  /\ start = StartTime
  /\ todo = {}
  /\ format = 0
  /\ recs = <<>>
  /\ out = {}
  /\ dropped = {}
  /\ late = FALSE
-----------------------------------------------------------------------------
\* Time and signals.

Tick ==
  /\ Running
  /\ now < MaxTime
  /\ now' = now + 1
  /\ UNCHANGED <<timeout, stop, mutex, tlast, mainVars, timerVars, outcome>>

Signal ==
  /\ Running
  /\ ~stop
  /\ stop' = TRUE
  /\ UNCHANGED <<timeout, mutex, tlast, now, mainVars, timerVars, outcome>>
-----------------------------------------------------------------------------
\* Stored records.

\* Mutant: COUNT starts below zero, as if no record had opened the group.
InitRecordUncounted(r, i) ==
  [ids |-> {i}, count |-> -1, first |-> r.first, last |-> r.last,
   avgs |-> 0, format |-> format]

\* init_record_data: the group that record r (number i) opens.
InitRecordData(r, i) ==
  [ids |-> {i}, count |-> 1, first |-> r.first, last |-> r.last,
   avgs |-> 0, format |-> format]

\* Mutant: TIME_LAST is overwritten, not maximised.
ProcessAggLastWins(g, r, i) ==
  [g EXCEPT !.ids = @ \cup {i},
            !.count = @ + 1,
            !.first = IF r.first < @ THEN r.first ELSE @,
            !.last  = r.last]

\* process_agg_functions: record r (number i) is merged into group g.
ProcessAggFunctions(g, r, i) ==
  [g EXCEPT !.ids = @ \cup {i},
            !.count = @ + 1,
            !.first = IF r.first < @ THEN r.first ELSE @,
            !.last  = IF r.last > @ THEN r.last ELSE @]

\* prepare_to_send turns the sums of a group into averages, in place (one
\* field at least is configured with -a).
PrepareToSend(g) == [g EXCEPT !.avgs = @ + 1]

Delivered(k, g) ==
  [key |-> k, ids |-> g.ids, count |-> g.count, first |-> g.first,
   last |-> g.last, avgs |-> g.avgs, format |-> g.format]

\* Mutant: what could not be sent is not freed either, yet counted as lost.
SendWithoutFree(C, D) ==
  /\ storage' = [k \in Keys |-> IF k \in D THEN Absent ELSE storage[k]]
  /\ out' = out \cup {Delivered(k, PrepareToSend(storage[k])) : k \in D}
  /\ dropped' = dropped \cup (UNION {storage[k].ids : k \in C \ D})

\* The groups of C are sent and freed, whether or not the send succeeds:
\* those of D reach the output.
SendAndFree(C, D) ==
  /\ storage' = [k \in Keys |-> IF k \in C THEN Absent ELSE storage[k]]
  /\ out' = out \cup {Delivered(k, PrepareToSend(storage[k])) : k \in D}
  /\ dropped' = dropped \cup (UNION {storage[k].ids : k \in C \ D})

FlushStorage == \E D \in SUBSET Stored : SendAndFree(Stored, D)
-----------------------------------------------------------------------------
\* The main thread.

\* A record arrives.  The first one always announces a format.
RecvRecord ==
  /\ mpc = "recv"
  /\ Len(recs) < MaxRecords
  /\ \E k \in Keys, lag \in Lags, d \in Durations :
       recs' = Append(recs, [key |-> k, first |-> now - lag - d,
                             last |-> now - lag])
  /\ \/ format < MaxFormats /\ mpc' = "format"
     \/ format > 0 /\ mpc' = "process"
  /\ UNCHANGED <<timeout, stop, mutex, tlast, now, format, timerVars, outcome>>

\* The end-of-stream message.
RecvEOF ==
  /\ mpc = "recv"
  /\ stop' = TRUE
  /\ mpc' = "join"
  /\ UNCHANGED <<timeout, mutex, tlast, now, format, recs, timerVars, outcome>>

\* Mutant: a receive that timed out is retried without a look at stop.
RecvRetry ==
  /\ mpc = "recv"
  /\ mpc' = "recv"
  /\ UNCHANGED <<timeout, stop, mutex, tlast, now, format, recs, timerVars,
                 outcome>>

\* TRAP_RECV_TIMEOUT passes without a message.
RecvTimeout ==
  /\ mpc = "recv"
  /\ mpc' = NextTop
  /\ UNCHANGED <<timeout, stop, mutex, tlast, now, format, recs, timerVars,
                 outcome>>

\* Any other error of the receive leaves the loop, stop as it is.
RecvError ==
  /\ mpc = "recv"
  /\ mpc' = "join"
  /\ UNCHANGED <<timeout, stop, mutex, tlast, now, format, recs, timerVars,
                 outcome>>

\* Mutant: what is stored stays stored through the change of format.
FormatNoFlush ==
  /\ mpc = "format"
  /\ mutex = "free"
  /\ mutex' = "main"
  /\ mpc' = "template"
  /\ UNCHANGED <<timeout, stop, tlast, now, format, recs, timerVars, outcome>>

\* A new format: everything stored in the old one is sent and freed, and the
\* templates are reset.  The mutex is kept while the new ones are made.
FormatFlush ==
  /\ mpc = "format"
  /\ mutex = "free"
  /\ FlushStorage
  /\ mutex' = "main"
  /\ mpc' = "template"
  /\ UNCHANGED <<timeout, stop, tlast, now, format, recs, timerVars>>

TemplateOk ==
  /\ mpc = "template"
  /\ format' = format + 1
  /\ mutex' = "free"
  /\ mpc' = "settime"
  /\ UNCHANGED <<timeout, stop, tlast, now, recs, timerVars, outcome>>

\* A requested field is missing from the input, or the output template cannot
\* be created: the process returns from main.
TemplateFail ==
  /\ mpc = "template"
  /\ dropped' = dropped \cup {Len(recs)}
  /\ mpc' = "aborted"
  /\ UNCHANGED <<timeout, stop, mutex, storage, tlast, now, format, recs, out,
                 timerVars>>

\* The passive clock restarts from the record that brought the format, which
\* may have ended after the timeout thread's round under way began.
SetTime ==
  /\ mpc = "settime"
  /\ tlast' = Current.last
  /\ late' = (late \/ (tpc \in {"lock", "scan", "addtime"} /\ start < Current.last))
  /\ mpc' = "process"
  /\ UNCHANGED <<timeout, stop, mutex, now, format, recs, tpc, start, todo, outcome>>

\* Mutants: the window is a second longer, or shorter.
WindowClosedLate(g, r) == g.first + ActiveT + 1 < r.first
WindowClosedEarly(g, r) == g.first + ActiveT <= r.first

WindowClosed(g, r) == g.first + ActiveT < r.first

\* The rest of the loop's body, one action per way through it.  Each takes
\* storage_mutex and, but for the failed send, gives it back.
ProcessNew ==
  /\ mpc = "process"
  /\ mutex = "free"
  /\ Current.key \notin Stored
  /\ storage' = [storage EXCEPT
                   ![Current.key] = InitRecordData(Current, Len(recs))]
  /\ mpc' = NextTop
  /\ UNCHANGED <<timeout, stop, mutex, tlast, now, format, recs, out, dropped,
                 timerVars>>

\* No memory for the new stored record: the process returns from main.
ProcessNoMemory ==
  /\ mpc = "process"
  /\ mutex = "free"
  /\ Current.key \notin Stored
  /\ mutex' = "main"
  /\ storage' = [k \in Keys |-> Absent]
  /\ dropped' = dropped \cup {Len(recs)} \cup (UNION {storage[k].ids : k \in Keys})
  /\ mpc' = "aborted"
  /\ UNCHANGED <<timeout, stop, tlast, now, format, recs, out, timerVars>>

ProcessMerge ==
  /\ mpc = "process"
  /\ mutex = "free"
  /\ Current.key \in Stored
  /\ ~(Active /\ WindowClosed(storage[Current.key], Current))
  /\ storage' = [storage EXCEPT
                   ![Current.key] = ProcessAggFunctions(@, Current, Len(recs))]
  /\ mpc' = NextTop
  /\ UNCHANGED <<timeout, stop, mutex, tlast, now, format, recs, out, dropped,
                 timerVars>>

\* Mutant: the group is sent, and the record merged into it all the same.
ProcessWindowMerges ==
  /\ mpc = "process"
  /\ mutex = "free"
  /\ Current.key \in Stored
  /\ Active /\ WindowClosed(storage[Current.key], Current)
  /\ out' = out \cup {Delivered(Current.key, PrepareToSend(storage[Current.key]))}
  /\ storage' = [storage EXCEPT
                   ![Current.key] = ProcessAggFunctions(@, Current, Len(recs))]
  /\ mpc' = NextTop
  /\ UNCHANGED <<timeout, stop, mutex, tlast, now, format, recs, dropped,
                 timerVars>>

\* The active window of the key is over: its group is sent and restarted.
ProcessWindow ==
  /\ mpc = "process"
  /\ mutex = "free"
  /\ Current.key \in Stored
  /\ Active /\ WindowClosed(storage[Current.key], Current)
  /\ out' = out \cup {Delivered(Current.key, PrepareToSend(storage[Current.key]))}
  /\ storage' = [storage EXCEPT
                   ![Current.key] = InitRecordData(Current, Len(recs))]
  /\ mpc' = NextTop
  /\ UNCHANGED <<timeout, stop, mutex, tlast, now, format, recs, dropped,
                 timerVars>>

\* That send fails: main leaves the loop with storage_mutex held and stop as
\* it is; the group stays stored, its averages already computed.
ProcessSendFails ==
  /\ mpc = "process"
  /\ mutex = "free"
  /\ Current.key \in Stored
  /\ Active /\ WindowClosed(storage[Current.key], Current)
  /\ storage' = [storage EXCEPT ![Current.key] = PrepareToSend(@)]
  /\ dropped' = dropped \cup {Len(recs)}
  /\ mutex' = "main"
  /\ mpc' = "join"
  /\ UNCHANGED <<timeout, stop, tlast, now, format, recs, out, timerVars>>

\* pthread_join, the last flush (without the mutex), the end-of-stream message.
JoinAndExit ==
  /\ mpc = "join"
  /\ tpc = "done"
  /\ FlushStorage
  /\ mpc' = "exited"
  /\ UNCHANGED <<timeout, stop, mutex, tlast, now, format, recs, timerVars>>

Receive == RecvRecord \/ RecvEOF \/ RecvError

Proceed ==
  \/ RecvTimeout
  \/ FormatFlush \/ TemplateOk \/ TemplateFail \/ SetTime
  \/ ProcessNew \/ ProcessNoMemory \/ ProcessMerge
  \/ ProcessWindow \/ ProcessSendFails
  \/ JoinAndExit
-----------------------------------------------------------------------------
\* The thread check_timeouts.

\* The active type needs no thread; the passive ones first move the clock.
TimerStart ==
  /\ Running
  /\ tpc = "start"
  /\ tpc' = IF timeout = "active" THEN "done" ELSE "top"
  /\ tlast' = IF Passive THEN tlast + PassiveT ELSE tlast
  /\ late' = (late \/ format > 0)
  /\ UNCHANGED <<timeout, stop, mutex, now, start, todo, mainVars, outcome>>

\* The sleep is over with the period; a signal may cut it short.
Awake ==
  tpc = "sleep" /\ (stop \/ now >= start + (IF timeout = "global" THEN GlobalT
                                                                  ELSE PassiveT))

\* while (!stop)
TimerTop ==
  /\ Running
  /\ tpc = "top" \/ Awake
  /\ tpc' = IF stop THEN "done" ELSE "lock"
  /\ start' = IF stop THEN start ELSE now
  /\ UNCHANGED <<timeout, stop, mutex, tlast, now, todo, late, mainVars, outcome>>

\* The global type sends out everything.
TimerFlush ==
  /\ Running
  /\ tpc = "lock"
  /\ timeout = "global"
  /\ mutex = "free"
  /\ FlushStorage
  /\ tpc' = "sleep"
  /\ UNCHANGED <<timeout, stop, mutex, tlast, now, start, todo, late, mainVars>>

\* The passive types walk through the storage.
TimerLock ==
  /\ Running
  /\ tpc = "lock"
  /\ timeout # "global"
  /\ mutex = "free"
  /\ mutex' = "timer"
  /\ todo' = Stored
  /\ tpc' = "scan"
  /\ UNCHANGED <<timeout, stop, tlast, now, start, late, mainVars, outcome>>

Idle(g) == g.last < tlast - PassiveT

TimerExpire(k) ==
  /\ Running
  /\ tpc = "scan"
  /\ k \in todo
  /\ Idle(storage[k])
  /\ \E D \in SUBSET {k} : SendAndFree({k}, D)
  /\ todo' = todo \ {k}
  /\ UNCHANGED <<timeout, stop, mutex, tlast, now, tpc, start, late, mainVars>>

TimerKeep(k) ==
  /\ Running
  /\ tpc = "scan"
  /\ k \in todo
  /\ ~Idle(storage[k])
  /\ todo' = todo \ {k}
  /\ UNCHANGED <<timeout, stop, mutex, tlast, now, tpc, start, late, mainVars,
                 outcome>>

TimerUnlock ==
  /\ Running
  /\ tpc = "scan"
  /\ todo = {}
  /\ mutex' = "free"
  /\ tpc' = "addtime"
  /\ UNCHANGED <<timeout, stop, tlast, now, start, todo, late, mainVars, outcome>>

\* Mutant: the elapsed time is added on top of the whole timeout.
TimerAddTwice ==
  /\ Running
  /\ tpc = "addtime"
  /\ tlast' = tlast + (now - start) + PassiveT
  /\ tpc' = "sleep"
  /\ UNCHANGED <<timeout, stop, mutex, now, start, todo, late, mainVars, outcome>>

\* elapsed + sec_to_sleep is the timeout, whatever has elapsed.
TimerAddTime ==
  /\ Running
  /\ tpc = "addtime"
  /\ tlast' = tlast + PassiveT
  /\ tpc' = "sleep"
  /\ UNCHANGED <<timeout, stop, mutex, now, start, todo, late, mainVars, outcome>>

Timer ==
  \/ TimerStart \/ TimerTop \/ TimerFlush \/ TimerLock
  \/ \E k \in Keys : TimerExpire(k) \/ TimerKeep(k)
  \/ TimerUnlock \/ TimerAddTime

Next == Receive \/ Proceed \/ Timer \/ Tick \/ Signal

\* Both threads keep running and time passes; nothing makes messages, signals
\* or receive errors happen.  A receive ends by its time limit at the latest.
Fairness ==
  /\ WF_vars(Proceed)
  /\ WF_vars(Timer)
  /\ WF_vars(Tick)

Spec == Init /\ [][Next]_vars /\ Fairness
-----------------------------------------------------------------------------
\* Properties.

GroupType ==
  [ids : SUBSET Nat, count : Nat, first : Int, last : Int, avgs : Nat,
   format : Nat]

\* Every variable has its type.
TypeOK ==
  /\ timeout \in TimeoutTypes
  /\ stop \in BOOLEAN
  /\ mpc \in {"recv", "format", "template", "settime", "process", "join",
              "exited", "aborted"}
  /\ tpc \in {"start", "top", "lock", "scan", "addtime", "sleep", "done"}
  /\ mutex \in {"free", "main", "timer"}
  /\ storage \in [Keys -> GroupType]
  /\ tlast \in Int /\ now \in Nat /\ start \in Nat
  /\ todo \subseteq Keys
  /\ format \in Nat
  /\ recs \in Seq(Records)
  /\ out \subseteq [key : Keys, ids : SUBSET Nat, count : Nat, first : Int,
                    last : Int, avgs : Nat, format : Nat]
  /\ dropped \subseteq Nat
  /\ late \in BOOLEAN

\* The numbers of the records whose processing is over.
Decided == 1 .. (IF Pending THEN Len(recs) - 1 ELSE Len(recs))

\* Every record that was processed is in exactly one place: in the stored
\* group of its own key, in one delivered group of its own key, or dropped.
\* Nothing is left in the storage at a regular exit.
PlacedSomewhere ==
  Decided = dropped \cup (UNION {storage[k].ids : k \in Keys})
                    \cup (UNION {o.ids : o \in out})
StoredApart ==
  \A k \in Keys : /\ storage[k].ids \cap dropped = {}
                  /\ \A o \in out : storage[k].ids \cap o.ids = {}
SentApart ==
  \A o \in out : /\ o.ids \cap dropped = {}
                 /\ \A p \in out : p # o => p.ids \cap o.ids = {}
KeysAgree ==
  /\ \A k \in Keys : \A i \in storage[k].ids : recs[i].key = k
  /\ \A o \in out : \A i \in o.ids : recs[i].key = o.key
InputPartition ==
  /\ PlacedSomewhere /\ StoredApart /\ SentApart /\ KeysAgree
  /\ mpc = "exited" => Stored = {}

\* COUNT, TIME_FIRST and TIME_LAST of a group, stored or delivered, are those
\* of exactly the records merged into it, whatever order they came in and
\* whatever expiries, format changes and window ends came in between.  Until a
\* send has failed in main's loop, averages are taken once (-a).
Exact(g) ==
  /\ g.count = Cardinality(g.ids)
  /\ \A i \in g.ids : g.first <= recs[i].first /\ recs[i].last <= g.last
  /\ \E i \in g.ids : recs[i].first = g.first
  /\ \E i \in g.ids : recs[i].last = g.last
AggregatesExact ==
  /\ \A k \in Stored : Exact(storage[k])
  /\ \A o \in out : Exact(o)
  /\ mutex # "main" => /\ \A k \in Stored : storage[k].avgs = 0
                       /\ \A o \in out : o.avgs = 1

\* No record made with an old output template is left in the storage, so the
\* timeout thread and the merge never read one through a newer template.
TemplateCurrent == \A k \in Stored : storage[k].format = format

\* Every group, stored or delivered, with its key.
Groups == out \cup {Delivered(k, storage[k]) : k \in Stored}

InOrder(k) ==
  \A i, j \in DOMAIN recs :
    i < j /\ recs[i].key = k /\ recs[j].key = k => recs[i].first <= recs[j].first

\* With an active timeout, the flows of one group start within ActiveT of each
\* other, for every key whose flows arrive in the order of their starts.
WindowBounded ==
  Active => \A g \in Groups : InOrder(g.key) =>
              \A i, j \in g.ids : recs[j].first - recs[i].first <= ActiveT

\* With the active timeout alone, a key's next group in the same format opens
\* only with a record beyond the window of the delivered one.
SplitOnlyAtWindow ==
  timeout = "active" =>
    \A o \in out, g \in Groups : \A j \in g.ids :
      /\ g.key = o.key /\ g.format = o.format
      /\ \A i \in o.ids : i < j
      /\ \A i \in Decided : recs[i].key = o.key /\ i < j => \E m \in o.ids : i <= m
      => recs[j].first > o.first + ActiveT

\* A group leaves in a passive scan only when PassiveT seconds have passed
\* since the end of its last flow.
Expired(k) ==
  tpc = "scan" /\ tpc' = "scan" /\ storage[k].ids # {} /\ storage'[k].ids = {}
NeverEarly(k) == Expired(k) => storage[k].last + PassiveT <= now

\* ... provided the timeout thread made its first step before the first record
\* was taken over, and no format came with a record that ended while a round
\* of it was under way.
PassiveNeverEarlyOnTime == [][late \/ \A k \in Keys : NeverEarly(k)]_vars

\* The scan reads time_last_from_record without its mutex; still, the value
\* never changes while the scan has a stored record to look at.
ScanClockStable == [][tpc = "scan" /\ todo # {} => tlast' = tlast]_vars

\* Main left its loop from the middle of the critical section.
Leaked == mpc = "join" /\ mutex = "main"

\* Once stop is set, the process ends, unless main has left storage_mutex
\* locked.
StopLeadsToEnd == stop ~> (~Running \/ Leaked)

\* The module implements the abstract grouping of numbered records.
KG == INSTANCE KeyedGroups WITH
        n    <- IF Pending THEN Len(recs) - 1 ELSE Len(recs),
        open <- [k \in Keys |-> storage[k].ids],
        sent <- {[key |-> o.key, ids |-> o.ids] : o \in out},
        lost <- dropped
ImplementsKeyedGroups == KG!Spec
=============================================================================
