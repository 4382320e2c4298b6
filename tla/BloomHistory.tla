---------------------------- MODULE BloomHistory ----------------------------
(***************************************************************************)
(* The Bloom history module (bloom_history/): main inserts the address of  *)
(* each record in the filter of its prefix tag, and the upload thread,     *)
(* every Interval seconds and once more at the end, replaces each filter   *)
(* by an empty one and posts the old one to a service, with the interval   *)
(* of time it stands for.                                                  *)
(*                                                                         *)
(* A filter is the set of the numbers of the records in it.  Insert and    *)
(* swap are atomic (MUTEX_BLOOM_SWAP).  MUTEX_TIMER_STOP is modelled, for  *)
(* the upload thread unlocks it once too often.  Waits do not end          *)
(* spuriously; a failed allocation ends the process and is left out.       *)
(***************************************************************************)
EXTENDS Integers, Sequences, FiniteSets

CONSTANTS
  Size,        \* config->size, the number of configured tags
  Interval,    \* UPLOAD_INTERVAL
  MaxTime,     \* bound: the clock stops here
  MaxRecords   \* bound on the records received

ASSUME BloomAssumption ==
  /\ Size \in Nat \ {0} /\ Interval \in Nat \ {0}
  /\ MaxTime \in Nat /\ MaxRecords \in Nat

Tags == 1 .. Size

VARIABLES
  stop,
  mpc,        \* where main is
  upc,        \* where the upload thread is
  timerStop,  \* who holds MUTEX_TIMER_STOP
  woken,      \* CV_TIMER_STOP was signalled during the wait
  now,        \* the clock
  bloomList,  \* [Tags -> filter]
  recs,       \* history: the records for known tags: [tag, seen, the time
              \* of the insert, -1 before it]; main works on the last one
  i,          \* the tag being uploaded
  bloomSend,  \* the filter that was swapped out
  from, to,   \* timestamp_from, timestamp_to
  until,      \* when the wait ends
  posts,      \* history: the uploads: [tag, ids, from, to, swapped, ok]
  swapped,    \* history: the time of the swap
  asleep      \* history: main gave its signal to a waiting thread

vars == <<stop, mpc, upc, timerStop, woken, now, bloomList, recs, i, bloomSend,
          from, to, until, posts, swapped, asleep>>

uploadVars == <<i, bloomSend, from, to, until, posts, swapped>>

Init ==
  /\ stop = FALSE
  /\ mpc = "start" /\ upc = "top"
  /\ timerStop = "free"
  /\ woken = FALSE
  /\ now = 0
  /\ bloomList = [t \in Tags |-> {}]
  /\ recs = <<>>
  /\ i = 0 /\ bloomSend = {}
  /\ from = 0 /\ to = 0 /\ until = 0
  /\ posts = <<>>
  /\ swapped = 0
  /\ asleep = FALSE

Tick ==
  /\ mpc # "exited"
  /\ now < MaxTime
  /\ now' = now + 1
  /\ UNCHANGED <<stop, mpc, upc, timerStop, woken, bloomList, recs, uploadVars,
                 asleep>>

\* The signal handler; it ends every receive, too (trap_terminate).
Signal ==
  /\ mpc # "exited"
  /\ ~stop
  /\ stop' = TRUE
  /\ UNCHANGED <<mpc, upc, timerStop, woken, now, bloomList, recs, uploadVars,
                 asleep>>
-----------------------------------------------------------------------------
\* The main thread, once the upload thread has been created.

CreateTemplate ==
  /\ mpc = "start"
  /\ mpc' = IF stop THEN "lock" ELSE "recv"
  /\ UNCHANGED <<stop, upc, timerStop, woken, now, bloomList, recs, uploadVars,
                 asleep>>

\* Without a template main returns and ends the upload thread with itself.
CreateTemplateFails ==
  /\ mpc = "start"
  /\ mpc' = "exited"
  /\ UNCHANGED <<stop, upc, timerStop, woken, now, bloomList, recs, uploadVars,
                 asleep>>

\* A record with a configured tag (any other is skipped).
Receive ==
  /\ mpc = "recv"
  /\ Len(recs) < MaxRecords
  /\ \E t \in Tags : recs' = Append(recs, [tag |-> t, seen |-> -1])
  /\ mpc' = "insert"
  /\ UNCHANGED <<stop, upc, timerStop, woken, now, bloomList, uploadVars, asleep>>

ReceiveEnd ==
  /\ mpc = "recv"
  /\ stop' = TRUE
  /\ mpc' = "lock"
  /\ UNCHANGED <<upc, timerStop, woken, now, bloomList, recs, uploadVars, asleep>>

\* An error, the end of receiving by a signal, or a record of a wrong size.
ReceiveFails ==
  /\ mpc = "recv"
  /\ mpc' = "lock"
  /\ UNCHANGED <<stop, upc, timerStop, woken, now, bloomList, recs, uploadVars,
                 asleep>>

Insert ==
  /\ mpc = "insert"
  /\ LET n == Len(recs) IN
       /\ recs' = [recs EXCEPT ![n].seen = now]
       /\ bloomList' = [bloomList EXCEPT ![recs[n].tag] = @ \cup {n}]
  /\ mpc' = IF stop THEN "lock" ELSE "recv"
  /\ UNCHANGED <<stop, upc, timerStop, woken, now, uploadVars, asleep>>

TimerStopLock ==
  /\ mpc = "lock"
  /\ timerStop = "free"
  /\ timerStop' = "main"
  /\ mpc' = "signal"
  /\ UNCHANGED <<stop, upc, woken, now, bloomList, recs, uploadVars, asleep>>

\* pthread_cond_signal wakes the thread only if it waits; then the unlock.
TimerStopSignal ==
  /\ mpc = "signal"
  /\ woken' = (woken \/ upc = "asleep")
  /\ asleep' = (upc = "asleep")
  /\ timerStop' = "free"
  /\ mpc' = "join"
  /\ UNCHANGED <<stop, upc, now, bloomList, recs, uploadVars>>

\* pthread_join; the filters are freed with what is in them.
JoinAndExit ==
  /\ mpc = "join"
  /\ upc = "done"
  /\ mpc' = "exited"
  /\ UNCHANGED <<stop, upc, timerStop, woken, now, bloomList, recs, uploadVars,
                 asleep>>

Leave == mpc = "recv" /\ stop /\ ReceiveFails

Proceed ==
  CreateTemplate \/ Insert \/ TimerStopLock \/ TimerStopSignal \/ JoinAndExit
-----------------------------------------------------------------------------
\* The upload thread, pthread_entry_upload.

\* while (!stop)
UploadTop ==
  /\ mpc # "exited"
  /\ upc = "top"
  /\ upc' = IF stop THEN "done" ELSE "wait"
  /\ UNCHANGED <<stop, mpc, timerStop, woken, now, bloomList, recs, uploadVars,
                 asleep>>

\* The mutex is taken, the interval begins, and the wait gives it back.  stop
\* is not looked at again.
UploadWait ==
  /\ mpc # "exited"
  /\ upc = "wait"
  /\ timerStop = "free"
  /\ from' = now
  /\ until' = now + Interval
  /\ woken' = FALSE
  /\ upc' = "asleep"
  /\ UNCHANGED <<stop, mpc, timerStop, now, bloomList, recs, i, bloomSend, to,
                 posts, swapped, asleep>>

\* Mutant: a wait without a limit.
WaitOverSignalled == woken

\* The wait is over by the signal or by its limit (which after stop is also
\* reached when the clock of the model has stopped).
WaitOver == woken \/ now >= until \/ (stop /\ now = MaxTime)

UploadWake ==
  /\ mpc # "exited"
  /\ upc = "asleep"
  /\ WaitOver
  /\ timerStop = "free"
  /\ i' = 1
  /\ upc' = "swap"
  /\ UNCHANGED <<stop, mpc, timerStop, woken, now, bloomList, recs, bloomSend,
                 from, to, until, posts, swapped, asleep>>

\* Mutant: the old filter stays in place.
SwapCopies ==
  /\ mpc # "exited"
  /\ upc = "swap"
  /\ bloomSend' = bloomList[i]
  /\ swapped' = now
  /\ upc' = "stamp"
  /\ UNCHANGED <<stop, mpc, timerStop, woken, now, bloomList, recs, i, from, to,
                 until, posts, asleep>>

Swap ==
  /\ mpc # "exited"
  /\ upc = "swap"
  /\ bloomSend' = bloomList[i]
  /\ bloomList' = [bloomList EXCEPT ![i] = {}]
  /\ swapped' = now
  /\ upc' = "stamp"
  /\ UNCHANGED <<stop, mpc, timerStop, woken, now, recs, i, from, to, until,
                 posts, asleep>>

\* Mutant: the second is not rounded up.
StampExact ==
  /\ mpc # "exited"
  /\ upc = "stamp"
  /\ to' = now
  /\ upc' = "send"
  /\ UNCHANGED <<stop, mpc, timerStop, woken, now, bloomList, recs, i, bloomSend,
                 from, until, posts, swapped, asleep>>

Stamp ==
  /\ mpc # "exited"
  /\ upc = "stamp"
  /\ to' = now + 1
  /\ upc' = "send"
  /\ UNCHANGED <<stop, mpc, timerStop, woken, now, bloomList, recs, i, bloomSend,
                 from, until, posts, swapped, asleep>>

\* The post succeeds or not; the filter is freed, and the next tag is taken.  The post
\* has no time limit, so nothing says that this happens.
Send ==
  /\ mpc # "exited"
  /\ upc = "send"
  /\ \E ok \in BOOLEAN :
       posts' = Append(posts, [tag |-> i, ids |-> bloomSend, from |-> from,
                               to |-> to, swapped |-> swapped, ok |-> ok])
  /\ bloomSend' = {}
  /\ IF i < Size THEN i' = i + 1 /\ upc' = "swap"
                 ELSE i' = 0 /\ upc' = "unlock"
  /\ UNCHANGED <<stop, mpc, timerStop, woken, now, bloomList, recs, from, to,
                 until, swapped, asleep>>

\* MUTEX_TIMER_STOP, given back long ago, is unlocked again, whoever holds it.
UploadUnlock ==
  /\ mpc # "exited"
  /\ upc = "unlock"
  /\ timerStop' = "free"
  /\ upc' = "top"
  /\ UNCHANGED <<stop, mpc, woken, now, bloomList, recs, uploadVars, asleep>>

Upload ==
  \/ UploadTop \/ UploadWait \/ UploadWake
  \/ Swap \/ Stamp \/ Send \/ UploadUnlock

Next ==
  \/ CreateTemplateFails \/ Receive \/ ReceiveEnd \/ ReceiveFails
  \/ Proceed \/ Upload \/ Tick \/ Signal

\* Both threads keep running, time passes, and after a signal no receive
\* blocks.  Nothing makes records or errors happen, or a service answer.
Fairness ==
  /\ WF_vars(Proceed) /\ WF_vars(Leave) /\ WF_vars(Tick)
  /\ WF_vars(upc # "send" /\ Upload)

Spec == Init /\ [][Next]_vars /\ Fairness
-----------------------------------------------------------------------------
\* Properties.

Numbers == 1 .. Len(recs)
Inserted == {n \in Numbers : recs[n].seen >= 0}

\* Every variable has its type.
TypeOK ==
  /\ stop \in BOOLEAN
  /\ mpc \in {"start", "recv", "insert", "lock", "signal", "join", "exited"}
  /\ upc \in {"top", "wait", "asleep", "swap", "stamp", "send", "unlock", "done"}
  /\ timerStop \in {"free", "main"}
  /\ woken \in BOOLEAN /\ asleep \in BOOLEAN
  /\ now \in 0 .. MaxTime
  /\ bloomList \in [Tags -> SUBSET Numbers]
  /\ recs \in Seq([tag : Tags, seen : -1 .. MaxTime])
  /\ i \in 0 .. Size /\ bloomSend \subseteq Numbers
  /\ from \in Nat /\ to \in Nat /\ until \in Nat /\ swapped \in Nat
  /\ posts \in Seq([tag : Tags, ids : SUBSET Numbers, from : Nat, to : Nat,
                    swapped : Nat, ok : BOOLEAN])

\* An inserted address is in the filter of its tag or in exactly one upload
\* of that tag, under way or done.
InsertedOnce ==
  /\ TypeOK
  /\ \A n \in Inserted : LET t == recs[n].tag IN
    /\ Cardinality({p \in DOMAIN posts : n \in posts[p].ids})
       + Cardinality({u \in Tags : n \in bloomList[u]})
       + Cardinality({b \in {bloomSend} : n \in b}) = 1
    /\ n \in bloomList[t] \/ (n \in bloomSend /\ i = t)
         \/ \E p \in DOMAIN posts : n \in posts[p].ids /\ posts[p].tag = t

\* An address is uploaded with an interval that ends after it was seen, and
\* was not seen before the upload of its tag that preceded was swapped out.
\* Every upload of a tag takes all that was inserted before its swap: what is
\* still in the filter was seen no earlier.  And if main ended a wait of the
\* thread with its signal, every address inserted has been uploaded (or its
\* upload failed) when the process ends.
SeenInInterval ==
  /\ \A p \in DOMAIN posts : \A n \in posts[p].ids :
       /\ recs[n].seen < posts[p].to
       /\ \A o \in 1 .. p - 1 :
            posts[o].tag = posts[p].tag => recs[n].seen >= posts[o].swapped
  /\ \A n \in Inserted : \A p \in DOMAIN posts :
       n \in bloomList[recs[n].tag] /\ posts[p].tag = recs[n].tag
         => recs[n].seen >= posts[p].swapped
  /\ mpc = "exited" /\ asleep => \A t \in Tags : bloomList[t] = {}

\* Once stop is set the process ends, though maybe an interval later, if every
\* post returns: main joins the upload thread, and the one limit that there could
\* be on a post (CURLOPT_TIMEOUT in curl_init_handle) is commented out.
StopLeadsToExit == []<>(upc # "send") => (stop ~> (mpc = "exited"))
=============================================================================
