------------------------ MODULE BloomHistory_proofs ------------------------
(***************************************************************************)
(* Proofs about the Bloom history module, for every number of tags, every  *)
(* interval and every bound.                                               *)
(***************************************************************************)
EXTENDS BloomHistory, SequenceTheorems, FiniteSetTheorems, TLAPS

RecType  == [tag : Tags, seen : -1 .. MaxTime]
PostType == [tag : Tags, ids : SUBSET Numbers, from : Nat, to : Nat, swapped : Nat,
             ok : BOOLEAN]

\* The record main is about to insert is in no filter, and the upload thread
\* holds a filter only between a swap and the end of the post.
TypeInv ==
  /\ TypeOK
  /\ mpc = "insert" => Len(recs) > 0 /\ recs[Len(recs)].seen = -1
  /\ upc \in {"swap", "stamp", "send"} => i \in Tags
  /\ upc \notin {"stamp", "send"} => bloomSend = {}

\* What is in a filter, under way or uploaded was inserted, for that tag.
OfItsTag ==
  /\ \A t \in Tags : \A n \in bloomList[t] : recs[n].seen >= 0 /\ recs[n].tag = t
  /\ \A n \in bloomSend : recs[n].seen >= 0 /\ recs[n].tag = i
  /\ \A p \in DOMAIN posts : \A n \in posts[p].ids :
       recs[n].seen >= 0 /\ recs[n].tag = posts[p].tag

\* It is in one of the three only, and uploaded only once.
Apart ==
  /\ \A n \in bloomSend : n \notin bloomList[i]
  /\ \A p \in DOMAIN posts : \A n \in posts[p].ids :
       /\ n \notin bloomList[posts[p].tag]
       /\ n \notin bloomSend
       /\ \A o \in DOMAIN posts : n \in posts[o].ids => o = p

\* And nothing that was inserted is missing.
Kept ==
  \A n \in Inserted :
    n \in bloomList[recs[n].tag] \/ n \in bloomSend
      \/ \E p \in DOMAIN posts : n \in posts[p].ids

Filed == OfItsTag /\ Apart /\ Kept

\* The times: none is ahead of the clock, what is under way was inserted before the
\* time it is to be stamped with, and what is in a filter after the last swap of it.
InTime ==
  /\ \A n \in Numbers : recs[n].seen <= now
  /\ upc \in {"stamp", "send"} => swapped <= now
  /\ upc = "send" => \A n \in bloomSend : recs[n].seen < to
  /\ \A p \in DOMAIN posts : posts[p].swapped <= now
  /\ \A p \in DOMAIN posts : \A n \in posts[p].ids : recs[n].seen < posts[p].to

Follows ==
  /\ \A p \in DOMAIN posts : \A n \in posts[p].ids : \A o \in 1 .. p - 1 :
       posts[o].tag = posts[p].tag => recs[n].seen >= posts[o].swapped
  /\ \A n \in bloomSend : \A o \in DOMAIN posts :
       posts[o].tag = i => recs[n].seen >= posts[o].swapped
  /\ \A o \in DOMAIN posts : \A n \in bloomList[posts[o].tag] :
       recs[n].seen >= posts[o].swapped
  /\ upc \in {"stamp", "send"} => \A n \in bloomList[i] : recs[n].seen >= swapped

\* Once main's signal has ended a wait, the filters become empty one by one and
\* stay so, for main inserts nothing any more.
LastUpload ==
  asleep =>
    /\ mpc \in {"join", "exited"}
    /\ mpc = "exited" => upc = "done"
    /\ upc = "swap" => \A t \in 1 .. i - 1 : bloomList[t] = {}
    /\ upc \in {"stamp", "send"} => \A t \in 1 .. i : bloomList[t] = {}
    /\ upc \in {"unlock", "top", "done"} => \A t \in Tags : bloomList[t] = {}

BloomInv == TypeInv /\ Filed /\ InTime /\ Follows /\ LastUpload
-----------------------------------------------------------------------------
(***************************************************************************)
(* Types.                                                                  *)
(***************************************************************************)

LEMMA InitType == Init => TypeInv
<1> SUFFICES ASSUME Init PROVE TypeInv
  OBVIOUS
<1>1. recs \in Seq(RecType) /\ posts \in Seq(PostType)
  BY DEF Init
<1>2. bloomList \in [Tags -> SUBSET Numbers]
  BY DEF Init
<1>3. now \in 0 .. MaxTime /\ i \in 0 .. Size
  BY BloomAssumption DEF Init
<1>4. TypeOK
  <2>1. recs \in Seq([tag : Tags, seen : -1 .. MaxTime])
    BY <1>1 DEF RecType
  <2>2. posts \in Seq([tag : Tags, ids : SUBSET Numbers, from : Nat, to : Nat,
                       swapped : Nat, ok : BOOLEAN])
    BY <1>1 DEF PostType
  <2>3. bloomSend \subseteq Numbers
    BY DEF Init
  <2> QED BY <1>2, <1>3, <2>1, <2>2, <2>3 DEF Init, TypeOK
<1> QED BY <1>4 DEF Init, TypeInv

\* A received record has a new number.
LEMMA ReceivedRecs ==
  ASSUME TypeInv, NEW t \in Tags, recs' = Append(recs, [tag |-> t, seen |-> -1])
  PROVE  /\ recs' \in Seq(RecType)
         /\ Len(recs) \in Nat /\ Len(recs') = Len(recs) + 1
         /\ Numbers \subseteq Numbers'
         /\ \A n \in Numbers : recs'[n] = recs[n]
         /\ recs'[Len(recs')] = [tag |-> t, seen |-> -1]
<1>1. recs \in Seq(RecType) /\ [tag |-> t, seen |-> -1] \in RecType
  BY BloomAssumption DEF TypeInv, TypeOK, RecType
<1>2. /\ recs' \in Seq(RecType)
      /\ Len(recs) \in Nat /\ Len(recs') = Len(recs) + 1
      /\ \A n \in 1 .. Len(recs) : recs'[n] = recs[n]
      /\ recs'[Len(recs')] = [tag |-> t, seen |-> -1]
  BY <1>1
<1> QED BY <1>2 DEF Numbers

\* An insert sets the time of the last record, and nothing else.
LEMMA InsertedRecs ==
  ASSUME TypeInv, Insert
  PROVE  /\ recs' \in Seq(RecType)
         /\ Len(recs) \in Numbers /\ Numbers' = Numbers
         /\ recs[Len(recs)].seen = -1
         /\ recs'[Len(recs)].tag = recs[Len(recs)].tag /\ recs[Len(recs)].tag \in Tags
         /\ recs'[Len(recs)].seen = now
         /\ \A n \in Numbers \ {Len(recs)} : recs'[n] = recs[n]
<1> DEFINE m == Len(recs)
<1>1. recs \in Seq(RecType) /\ m \in 1 .. m /\ recs[m] \in RecType /\ now \in 0 .. MaxTime
  <2>1. recs \in Seq(RecType) /\ m > 0 /\ now \in 0 .. MaxTime
    BY DEF Insert, TypeInv, TypeOK, RecType
  <2>2. m \in 1 .. m
    BY <2>1, LenProperties
  <2> QED BY <2>1, <2>2, ElementOfSeq
<1>2. recs' = [recs EXCEPT ![m].seen = now] /\ recs[m].seen = -1
  BY DEF Insert, TypeInv
<1>3. recs' = [recs EXCEPT ![m] = [recs[m] EXCEPT !.seen = now]]
  BY <1>2
<1>4. [recs[m] EXCEPT !.seen = now] \in RecType
  BY <1>1 DEF RecType
<1>5. recs' \in Seq(RecType) /\ Len(recs') = m
  BY <1>1, <1>3, <1>4
<1>6. DOMAIN recs = 1 .. m
  BY <1>1
<1>7. recs'[m] = [recs[m] EXCEPT !.seen = now] /\ \A n \in 1 .. m \ {m} : recs'[n] = recs[n]
  BY <1>1, <1>3, <1>6
<1>8. recs'[m].seen = now /\ recs'[m].tag = recs[m].tag /\ recs[m].tag \in Tags
  BY <1>1, <1>7 DEF RecType
<1> QED BY <1>1, <1>2, <1>5, <1>7, <1>8 DEF Numbers

\* An upload is added to those done.
LEMMA SentPosts ==
  ASSUME TypeInv, Send
  PROVE  /\ posts' \in Seq(PostType)
         /\ Len(posts) \in Nat /\ DOMAIN posts = 1 .. Len(posts)
         /\ DOMAIN posts' = 1 .. Len(posts) + 1
         /\ \A p \in DOMAIN posts : posts'[p] = posts[p]
         /\ posts'[Len(posts) + 1].tag = i /\ posts'[Len(posts) + 1].ids = bloomSend
         /\ posts'[Len(posts) + 1].to = to /\ posts'[Len(posts) + 1].swapped = swapped
<1>1. PICK ok \in BOOLEAN :
        posts' = Append(posts, [tag |-> i, ids |-> bloomSend, from |-> from,
                                to |-> to, swapped |-> swapped, ok |-> ok])
  BY DEF Send
<1> DEFINE new == [tag |-> i, ids |-> bloomSend, from |-> from, to |-> to,
                   swapped |-> swapped, ok |-> ok]
<1>2. posts \in Seq(PostType) /\ new \in PostType
  BY DEF Send, TypeInv, TypeOK, PostType
<1>3. /\ new.tag = i /\ new.ids = bloomSend /\ new.to = to /\ new.swapped = swapped
  OBVIOUS
<1> HIDE DEF new
<1>4. posts' = Append(posts, new)
  BY <1>1 DEF new
<1> QED BY <1>2, <1>3, <1>4, AppendProperties

LEMMA MainType ==
  TypeInv /\ (CreateTemplateFails \/ Receive \/ ReceiveEnd \/ ReceiveFails \/ Proceed)
    => TypeInv'
<1> SUFFICES ASSUME TypeInv, CreateTemplateFails \/ Receive \/ ReceiveEnd
                              \/ ReceiveFails \/ Proceed
             PROVE  TypeInv'
  OBVIOUS
<1> USE DEF uploadVars
<1>1. CASE Receive
  <2>1. PICK t \in Tags : recs' = Append(recs, [tag |-> t, seen |-> -1])
    BY <1>1 DEF Receive
  <2>2. /\ recs' \in Seq(RecType) /\ Numbers \subseteq Numbers'
        /\ Len(recs') > 0 /\ recs'[Len(recs')].seen = -1
    BY <2>1, ReceivedRecs
  <2>3. PostType \subseteq PostType'
    BY <2>2 DEF PostType
  <2>4. posts' \in Seq(PostType')
    BY <1>1, <2>3, SeqMonotonic DEF Receive, TypeInv, TypeOK, PostType
  <2>5. bloomList' \in [Tags -> SUBSET Numbers'] /\ bloomSend' \subseteq Numbers'
    BY <1>1, <2>2 DEF Receive, TypeInv, TypeOK
  <2> QED BY <1>1, <2>2, <2>4, <2>5 DEF Receive, TypeInv, TypeOK, RecType, PostType
<1>2. CASE Insert
  <2>1. /\ recs' \in Seq(RecType) /\ Numbers' = Numbers /\ Len(recs) \in Numbers
    BY <1>2, InsertedRecs
  <2>2. bloomList' \in [Tags -> SUBSET Numbers]
    BY <1>2, <2>1 DEF Insert, TypeInv, TypeOK
  <2> QED BY <1>2, <2>1, <2>2 DEF Insert, TypeInv, TypeOK, RecType
<1>3. ASSUME UNCHANGED <<recs, now, bloomList, upc, uploadVars>>, mpc' # "insert",
             stop' \in BOOLEAN, timerStop' \in {"free", "main"}, woken' \in BOOLEAN,
             asleep' \in BOOLEAN,
             mpc' \in {"start", "recv", "insert", "lock", "signal", "join", "exited"}
      PROVE  TypeInv'
  BY <1>3 DEF TypeInv, TypeOK, Numbers
<1>4. stop \in BOOLEAN /\ timerStop \in {"free", "main"} /\ woken \in BOOLEAN /\ asleep \in BOOLEAN
  BY DEF TypeInv, TypeOK
<1>5. CASE CreateTemplate \/ CreateTemplateFails \/ ReceiveEnd \/ ReceiveFails
            \/ TimerStopLock \/ TimerStopSignal \/ JoinAndExit
  BY <1>3, <1>4, <1>5 DEF CreateTemplate, CreateTemplateFails, ReceiveEnd, ReceiveFails,
                          TimerStopLock, TimerStopSignal, JoinAndExit
<1> QED BY <1>1, <1>2, <1>5 DEF Proceed

LEMMA UploadType == TypeInv /\ Upload => TypeInv'
<1> SUFFICES ASSUME TypeInv, Upload PROVE TypeInv'
  OBVIOUS
<1> USE DEF uploadVars
<1>1. CASE Swap
  BY <1>1, BloomAssumption DEF Swap, TypeInv, TypeOK, Numbers
<1>2. CASE Send
  <2>1. posts' \in Seq(PostType)
    BY <1>2, SentPosts
  <2>2. i' \in 0 .. Size /\ (upc' = "swap" => i' \in Tags)
    BY <1>2, BloomAssumption DEF Send, TypeInv, TypeOK, Tags
  <2> QED BY <1>2, <2>1, <2>2 DEF Send, TypeInv, TypeOK, PostType, Numbers
<1>3. CASE UploadWake
  BY <1>3, BloomAssumption DEF UploadWake, TypeInv, TypeOK, Tags, Numbers
<1>4. CASE UploadWait \/ Stamp
  <2>1. now \in Nat /\ now + 1 \in Nat /\ now + Interval \in Nat
    BY BloomAssumption DEF TypeInv, TypeOK
  <2> QED BY <1>4, <2>1 DEF UploadWait, Stamp, TypeInv, TypeOK, Numbers
<1>5. CASE UploadTop \/ UploadUnlock
  BY <1>5 DEF UploadTop, UploadUnlock, TypeInv, TypeOK, Numbers
<1> QED BY <1>1, <1>2, <1>3, <1>4, <1>5 DEF Upload

LEMMA StepType == TypeInv /\ [Next]_vars => TypeInv'
<1> SUFFICES ASSUME TypeInv, [Next]_vars PROVE TypeInv'
  OBVIOUS
<1>1. CASE Tick
  <2>1. now' \in 0 .. MaxTime
    BY <1>1, BloomAssumption DEF Tick, TypeInv, TypeOK
  <2>2. UNCHANGED <<stop, mpc, upc, timerStop, woken, bloomList, recs, i, bloomSend,
                    from, to, until, posts, swapped, asleep>>
    BY <1>1 DEF Tick, uploadVars
  <2> QED BY <2>1, <2>2 DEF TypeInv, TypeOK, Numbers
<1>2. CASE Signal
  BY <1>2 DEF Signal, uploadVars, TypeInv, TypeOK, Numbers
<1>3. CASE UNCHANGED vars
  BY <1>3 DEF vars, TypeInv, TypeOK, Numbers
<1> QED BY <1>1, <1>2, <1>3, MainType, UploadType DEF Next
-----------------------------------------------------------------------------
(***************************************************************************)
(* Where the addresses are.                                                *)
(***************************************************************************)

\* The parts of the state the invariants are about, without the clock.
places == <<recs, bloomList, bloomSend, posts, i>>

\* The steps that file nothing.
LEMMA NothingFiled ==
  ASSUME [Next]_vars, ~Receive, ~Insert, ~Swap, ~Send, ~UploadWake
  PROVE  UNCHANGED places
  BY DEF Next, Proceed, Upload, CreateTemplate, CreateTemplateFails, ReceiveEnd,
         ReceiveFails, TimerStopLock, TimerStopSignal, JoinAndExit, UploadTop,
         UploadWait, Stamp, UploadUnlock, Tick, Signal, vars, uploadVars, places

\* Every number in a filter or an upload is the number of a record.
LEMMA PlacesTypes ==
  ASSUME TypeInv
  PROVE  /\ bloomList \in [Tags -> SUBSET Numbers]
         /\ bloomSend \subseteq Numbers
         /\ \A p \in DOMAIN posts : posts[p].tag \in Tags /\ posts[p].ids \subseteq Numbers
         /\ \A n \in Numbers : recs[n].tag \in Tags /\ recs[n].seen \in -1 .. MaxTime
         /\ \A p \in DOMAIN posts : posts[p].to \in Nat /\ posts[p].swapped \in Nat
<1>1. posts \in Seq(PostType) /\ recs \in Seq(RecType)
  BY DEF TypeInv, TypeOK, PostType, RecType
<1>2. \A p \in DOMAIN posts : posts[p] \in PostType
  BY <1>1
<1>3. \A n \in Numbers : recs[n] \in RecType
  BY <1>1 DEF Numbers
<1> QED BY <1>2, <1>3 DEF TypeInv, TypeOK, PostType, RecType

LEMMA InitFiled == Init => Filed
<1> SUFFICES ASSUME Init PROVE Filed
  OBVIOUS
<1>1. Numbers = {} /\ DOMAIN posts = {} /\ \A t \in Tags : bloomList[t] = {}
  BY DEF Init, Numbers
<1> QED BY <1>1 DEF Init, Filed, OfItsTag, Apart, Kept, Inserted

LEMMA StepFiled == TypeInv /\ Filed /\ [Next]_vars => Filed'
<1> SUFFICES ASSUME TypeInv, Filed, [Next]_vars PROVE Filed'
  OBVIOUS
<1> USE DEF uploadVars
<1>0. /\ bloomList \in [Tags -> SUBSET Numbers]
      /\ bloomSend \subseteq Numbers
      /\ \A p \in DOMAIN posts : posts[p].tag \in Tags /\ posts[p].ids \subseteq Numbers
      /\ \A n \in Numbers : recs[n].tag \in Tags /\ recs[n].seen \in -1 .. MaxTime
  BY PlacesTypes
<1>1. CASE Receive
  <2>1. PICK t \in Tags : recs' = Append(recs, [tag |-> t, seen |-> -1])
    BY <1>1 DEF Receive
  <2>2. /\ \A n \in Numbers : recs'[n] = recs[n]
        /\ recs'[Len(recs')].seen = -1
        /\ Numbers' = Numbers \cup {Len(recs')}
    BY <2>1, ReceivedRecs DEF Numbers
  <2>3. Inserted' = Inserted
    BY <2>2 DEF Inserted
  <2>4. UNCHANGED <<bloomList, bloomSend, posts, i>>
    BY <1>1 DEF Receive
  <2>5. OfItsTag'
    BY <1>0, <2>2, <2>4 DEF Filed, OfItsTag
  <2>6. Apart'
    BY <2>4 DEF Filed, Apart
  <2>7. Kept'
    BY <2>2, <2>3, <2>4 DEF Filed, Kept, Inserted
  <2> QED BY <2>5, <2>6, <2>7 DEF Filed
<1>2. CASE Insert
  <2> DEFINE m == Len(recs)
             t == recs[m].tag
  <2>1. /\ m \in Numbers /\ Numbers' = Numbers
        /\ recs[m].seen = -1 /\ recs'[m].seen = now /\ recs'[m].tag = t /\ t \in Tags
        /\ \A n \in Numbers \ {m} : recs'[n] = recs[n]
    BY <1>2, InsertedRecs
  <2>2. /\ \A u \in Tags : bloomList'[u] = IF u = t THEN bloomList[t] \cup {m} ELSE bloomList[u]
        /\ UNCHANGED <<bloomSend, posts, i>> /\ now >= 0
    BY <1>0, <1>2, <2>1 DEF Insert, TypeInv, TypeOK
  <2> HIDE DEF t, m
  <2>3. /\ m \notin bloomSend
        /\ \A p \in DOMAIN posts : m \notin posts[p].ids
        /\ \A u \in Tags : m \notin bloomList[u]
    BY <2>1 DEF Filed, OfItsTag
  <2>4. OfItsTag'
    BY <1>0, <2>1, <2>2, <2>3 DEF Filed, OfItsTag
  <2>5. Apart'
    BY <1>0, <2>1, <2>2, <2>3 DEF Filed, Apart, OfItsTag
  <2>6. Kept'
    BY <1>0, <2>1, <2>2 DEF Filed, Kept, Inserted
  <2> QED BY <2>4, <2>5, <2>6 DEF Filed
<1>3. CASE Swap
  <2>1. /\ i \in Tags /\ bloomSend = {} /\ bloomSend' = bloomList[i]
        /\ \A u \in Tags : bloomList'[u] = IF u = i THEN {} ELSE bloomList[u]
        /\ UNCHANGED <<recs, posts, i>>
    BY <1>0, <1>3 DEF Swap, TypeInv, TypeOK
  <2>2. OfItsTag'
    BY <2>1 DEF Filed, OfItsTag
  <2>3. Apart'
    BY <1>0, <2>1 DEF Filed, Apart, OfItsTag
  <2>4. Kept'
    BY <1>0, <2>1 DEF Filed, Kept, Inserted, Numbers
  <2> QED BY <2>2, <2>3, <2>4 DEF Filed
<1>4. CASE Send
  <2> DEFINE e == Len(posts) + 1
  <2>1. /\ DOMAIN posts' = DOMAIN posts \cup {e} /\ e \notin DOMAIN posts
        /\ \A p \in DOMAIN posts : posts'[p] = posts[p]
        /\ posts'[e].tag = i /\ posts'[e].ids = bloomSend
    BY <1>4, SentPosts
  <2>2. i \in Tags /\ bloomSend' = {} /\ UNCHANGED <<recs, bloomList>>
    BY <1>4 DEF Send, TypeInv
  <2> HIDE DEF e
  <2>3. OfItsTag'
    BY <2>1, <2>2 DEF Filed, OfItsTag
  <2>4. Apart'
    BY <2>1, <2>2 DEF Filed, Apart
  <2>5. Kept'
    BY <2>1, <2>2 DEF Filed, Kept, Inserted, Numbers
  <2> QED BY <2>3, <2>4, <2>5 DEF Filed
<1>5. CASE UploadWake
  BY <1>5 DEF UploadWake, TypeInv, Filed, OfItsTag, Apart, Kept, Inserted, Numbers
<1>6. CASE UNCHANGED places
  BY <1>6 DEF places, Filed, OfItsTag, Apart, Kept, Inserted, Numbers
<1> QED BY <1>1, <1>2, <1>3, <1>4, <1>5, <1>6, NothingFiled

\* One of four sets of one element or none.
LEMMA FiledOnce ==
  ASSUME TypeInv, Filed
  PROVE  InsertedOnce
<1> SUFFICES ASSUME NEW n \in Inserted
             PROVE  LET t == recs[n].tag IN
                      /\ Cardinality({p \in DOMAIN posts : n \in posts[p].ids})
                         + Cardinality({u \in Tags : n \in bloomList[u]})
                         + Cardinality({b \in {bloomSend} : n \in b}) = 1
                      /\ n \in bloomList[t] \/ (n \in bloomSend /\ i = t)
                           \/ \E p \in DOMAIN posts : n \in posts[p].ids /\ posts[p].tag = t
  BY DEF TypeInv, InsertedOnce
<1> DEFINE P == {p \in DOMAIN posts : n \in posts[p].ids}
           L == {u \in Tags : n \in bloomList[u]}
           S == {b \in {bloomSend} : n \in b}
           t == recs[n].tag
<1>0. t \in Tags /\ \A p \in DOMAIN posts : posts[p].tag \in Tags
  BY PlacesTypes DEF Inserted
<1>1. \A x : Cardinality({x}) = 1
  BY FS_Singleton
<1>2. Cardinality({}) = 0
  BY FS_EmptySet
<1>3. CASE n \in bloomList[t]
  <2>1. L = {t} /\ P = {} /\ S = {}
    BY <1>0, <1>3 DEF Filed, OfItsTag, Apart
  <2> HIDE DEF P, L, S
  <2>2. Cardinality(L) = 1 /\ Cardinality(P) = 0 /\ Cardinality(S) = 0
    BY <2>1, <1>1, <1>2
  <2> QED BY <1>3, <2>2 DEF P, L, S
<1>4. CASE n \in bloomSend
  <2>1. i = t /\ L = {} /\ P = {} /\ S = {bloomSend}
    BY <1>0, <1>4 DEF Filed, OfItsTag, Apart
  <2> HIDE DEF P, L, S
  <2>2. Cardinality(P) + Cardinality(L) + Cardinality(S) = 1
    BY <2>1, <1>1, <1>2
  <2> QED BY <1>4, <2>1, <2>2 DEF P, L, S
<1>5. CASE \E p \in DOMAIN posts : n \in posts[p].ids
  <2>1. PICK p \in DOMAIN posts : n \in posts[p].ids
    BY <1>5
  <2>2. posts[p].tag = t /\ L = {} /\ P = {p} /\ S = {}
    BY <1>0, <2>1 DEF Filed, OfItsTag, Apart
  <2> HIDE DEF P, L, S
  <2>3. Cardinality(L) = 0 /\ Cardinality(P) = 1 /\ Cardinality(S) = 0
    BY <2>2, <1>1, <1>2
  <2> QED BY <2>1, <2>2, <2>3 DEF P, L, S
<1> QED BY <1>3, <1>4, <1>5 DEF Filed, Kept

\* For every number of tags, records and seconds: an address that was inserted is in the
\* filter of its tag or in exactly one upload of it, whatever main and the upload thread do
\* at the same time.
THEOREM InsertedOnceCorrect == Spec => []InsertedOnce
<1>1. Init => TypeInv /\ Filed
  BY InitType, InitFiled
<1>2. TypeInv /\ Filed /\ [Next]_vars => (TypeInv /\ Filed)'
  BY StepType, StepFiled
<1>3. TypeInv /\ Filed => InsertedOnce
  BY FiledOnce
<1> QED BY <1>1, <1>2, <1>3, PTL DEF Spec
-----------------------------------------------------------------------------
(***************************************************************************)
(* When they were seen.                                                    *)
(***************************************************************************)

LEMMA InitInTime == Init => InTime /\ Follows /\ LastUpload
<1> SUFFICES ASSUME Init PROVE InTime /\ Follows /\ LastUpload
  OBVIOUS
<1>1. Numbers = {} /\ DOMAIN posts = {} /\ \A t \in Tags : bloomList[t] = {}
  BY DEF Init, Numbers
<1> QED BY <1>1 DEF Init, InTime, Follows, LastUpload

LEMMA StepInTime == TypeInv /\ Filed /\ InTime /\ [Next]_vars => InTime'
<1> SUFFICES ASSUME TypeInv, Filed, InTime, [Next]_vars PROVE InTime'
  OBVIOUS
<1> USE DEF uploadVars
<1>0. /\ bloomSend \subseteq Numbers
      /\ \A p \in DOMAIN posts : posts[p].tag \in Tags /\ posts[p].ids \subseteq Numbers
      /\ \A n \in Numbers : recs[n].tag \in Tags /\ recs[n].seen \in -1 .. MaxTime
      /\ \A p \in DOMAIN posts : posts[p].to \in Nat /\ posts[p].swapped \in Nat
      /\ now \in Nat /\ swapped \in Nat /\ to \in Nat /\ MaxTime \in Nat
  BY PlacesTypes, BloomAssumption DEF TypeInv, TypeOK
<1>1. CASE Receive
  <2>1. PICK t \in Tags : recs' = Append(recs, [tag |-> t, seen |-> -1])
    BY <1>1 DEF Receive
  <2>2. /\ \A n \in Numbers : recs'[n] = recs[n]
        /\ recs'[Len(recs')].seen = -1
        /\ Numbers' = Numbers \cup {Len(recs')}
    BY <2>1, ReceivedRecs DEF Numbers
  <2>3. UNCHANGED <<now, bloomSend, posts, upc, to, swapped>>
    BY <1>1 DEF Receive
  <2>4. \A n \in Numbers' : recs'[n].seen <= now
    BY <1>0, <2>2 DEF InTime
  <2>5. upc = "send" => \A n \in bloomSend : recs'[n].seen < to
    BY <1>0, <2>2 DEF InTime
  <2>6. \A p \in DOMAIN posts : \A n \in posts[p].ids : recs'[n].seen < posts[p].to
    BY <1>0, <2>2 DEF InTime
  <2> QED BY <2>3, <2>4, <2>5, <2>6 DEF InTime
<1>2. CASE Insert
  <2> DEFINE m == Len(recs)
  <2>1. /\ m \in Numbers /\ Numbers' = Numbers
        /\ recs[m].seen = -1 /\ recs'[m].seen = now
        /\ \A n \in Numbers \ {m} : recs'[n] = recs[n]
    BY <1>2, InsertedRecs
  <2> HIDE DEF m
  <2>2. m \notin bloomSend /\ \A p \in DOMAIN posts : m \notin posts[p].ids
    BY <2>1 DEF Filed, OfItsTag
  <2>3. UNCHANGED <<now, bloomSend, posts, upc, to, swapped>>
    BY <1>2 DEF Insert
  <2>4. \A n \in Numbers' : recs'[n].seen <= now
    BY <1>0, <2>1 DEF InTime
  <2>5. upc = "send" => \A n \in bloomSend : recs'[n].seen < to
    BY <1>0, <2>1, <2>2 DEF InTime
  <2>6. \A p \in DOMAIN posts : \A n \in posts[p].ids : recs'[n].seen < posts[p].to
    BY <1>0, <2>1, <2>2 DEF InTime
  <2> QED BY <2>3, <2>4, <2>5, <2>6 DEF InTime
<1>3. CASE Swap
  BY <1>0, <1>3 DEF Swap, InTime, Numbers
<1>4. CASE Stamp
  BY <1>0, <1>4 DEF Stamp, InTime, Numbers
<1>5. CASE Send
  <2> DEFINE e == Len(posts) + 1
  <2>1. /\ DOMAIN posts' = DOMAIN posts \cup {e}
        /\ \A p \in DOMAIN posts : posts'[p] = posts[p]
        /\ posts'[e].ids = bloomSend /\ posts'[e].to = to /\ posts'[e].swapped = swapped
    BY <1>5, SentPosts
  <2> HIDE DEF e
  <2> QED BY <1>0, <1>5, <2>1 DEF Send, InTime, Numbers
<1>6. CASE UNCHANGED <<recs, bloomSend, posts>> /\ now' \in Nat /\ now <= now'
           /\ UNCHANGED <<swapped, to>> /\ (upc' \in {"stamp", "send"} => upc' = upc)
  BY <1>0, <1>6 DEF InTime, Numbers
<1>7. \/ Receive \/ Insert \/ Swap \/ Stamp \/ Send
      \/ /\ UNCHANGED <<recs, bloomSend, posts, swapped, to>> /\ now' \in Nat /\ now <= now'
         /\ upc' \in {"stamp", "send"} => upc' = upc
  BY <1>0 DEF Next, Proceed, Upload, CreateTemplate, CreateTemplateFails, ReceiveEnd,
         ReceiveFails, TimerStopLock, TimerStopSignal, JoinAndExit, UploadTop,
         UploadWait, UploadWake, UploadUnlock, Tick, Signal, vars
<1> QED BY <1>1, <1>2, <1>3, <1>4, <1>5, <1>6, <1>7

LEMMA StepFollows ==
  TypeInv /\ Filed /\ InTime /\ Follows /\ [Next]_vars => Follows'
<1> SUFFICES ASSUME TypeInv, Filed, InTime, Follows, [Next]_vars PROVE Follows'
  OBVIOUS
<1> USE DEF uploadVars
<1>0. /\ bloomList \in [Tags -> SUBSET Numbers]
      /\ bloomSend \subseteq Numbers
      /\ \A p \in DOMAIN posts : posts[p].tag \in Tags /\ posts[p].ids \subseteq Numbers
      /\ \A n \in Numbers : recs[n].tag \in Tags /\ recs[n].seen \in -1 .. MaxTime
      /\ \A p \in DOMAIN posts : posts[p].to \in Nat /\ posts[p].swapped \in Nat
      /\ now \in Nat /\ swapped \in Nat
      /\ DOMAIN posts = 1 .. Len(posts) /\ Len(posts) \in Nat
  BY PlacesTypes, BloomAssumption DEF TypeInv, TypeOK
<1>1. CASE Receive
  <2>1. PICK t \in Tags : recs' = Append(recs, [tag |-> t, seen |-> -1])
    BY <1>1 DEF Receive
  <2>2. \A n \in Numbers : recs'[n] = recs[n]
    BY <2>1, ReceivedRecs
  <2>3. UNCHANGED <<bloomList, bloomSend, posts, i, upc, swapped>>
    BY <1>1 DEF Receive
  <2>4. upc \in {"stamp", "send"} => i \in Tags
    BY DEF TypeInv
  <2> QED BY <1>0, <2>2, <2>3, <2>4 DEF Follows
<1>2. CASE Insert
  <2> DEFINE m == Len(recs)
             t == recs[m].tag
  <2>1. /\ m \in Numbers /\ t \in Tags
        /\ recs[m].seen = -1 /\ recs'[m].seen = now
        /\ \A n \in Numbers \ {m} : recs'[n] = recs[n]
    BY <1>2, InsertedRecs
  <2>2. /\ \A u \in Tags : bloomList'[u] = IF u = t THEN bloomList[t] \cup {m} ELSE bloomList[u]
        /\ UNCHANGED <<bloomSend, posts, i, upc, swapped>>
        /\ upc \in {"stamp", "send"} => i \in Tags /\ swapped <= now
    BY <1>0, <1>2, <2>1 DEF Insert, TypeInv, TypeOK, InTime
  <2> HIDE DEF t, m
  <2>3. m \notin bloomSend /\ \A p \in DOMAIN posts : m \notin posts[p].ids
    BY <2>1 DEF Filed, OfItsTag
  <2>4. \A p \in DOMAIN posts : \A n \in posts[p].ids : \A o \in 1 .. p - 1 :
          posts[o].tag = posts[p].tag => recs'[n].seen >= posts[o].swapped
    BY <1>0, <2>1, <2>3 DEF Follows
  <2>5. \A n \in bloomSend : \A o \in DOMAIN posts :
          posts[o].tag = i => recs'[n].seen >= posts[o].swapped
    BY <1>0, <2>1, <2>3 DEF Follows
  <2>6. \A o \in DOMAIN posts : \A n \in bloomList'[posts[o].tag] :
          recs'[n].seen >= posts[o].swapped
    BY <1>0, <2>1, <2>2 DEF Follows, InTime
  <2>7. upc \in {"stamp", "send"} => \A n \in bloomList'[i] : recs'[n].seen >= swapped
    BY <1>0, <2>1, <2>2 DEF Follows
  <2> QED BY <2>2, <2>4, <2>5, <2>6, <2>7 DEF Follows
<1>3. CASE Swap
  <2>1. /\ i \in Tags /\ bloomSend' = bloomList[i]
        /\ \A u \in Tags : bloomList'[u] = IF u = i THEN {} ELSE bloomList[u]
        /\ UNCHANGED <<recs, posts, i>>
    BY <1>0, <1>3 DEF Swap, TypeInv
  <2> QED BY <1>0, <2>1 DEF Follows
<1>4. CASE Send
  <2> DEFINE e == Len(posts) + 1
  <2>1. /\ DOMAIN posts' = DOMAIN posts \cup {e}
        /\ \A p \in DOMAIN posts : posts'[p] = posts[p]
        /\ posts'[e].tag = i /\ posts'[e].ids = bloomSend /\ posts'[e].swapped = swapped
        /\ 1 .. e - 1 = DOMAIN posts
        /\ \A p \in DOMAIN posts : 1 .. p - 1 \subseteq DOMAIN posts
    BY <1>0, <1>4, SentPosts
  <2>2. bloomSend' = {} /\ UNCHANGED <<recs, bloomList>> /\ upc = "send"
        /\ upc' \notin {"stamp", "send"}
    BY <1>4 DEF Send
  <2> HIDE DEF e
  <2>3. \A p \in DOMAIN posts' : \A n \in posts'[p].ids : \A o \in 1 .. p - 1 :
          posts'[o].tag = posts'[p].tag => recs[n].seen >= posts'[o].swapped
    BY <1>0, <2>1 DEF Follows
  <2>4. \A o \in DOMAIN posts' : \A n \in bloomList[posts'[o].tag] :
          recs[n].seen >= posts'[o].swapped
    BY <1>0, <2>1, <2>2 DEF Follows
  <2> QED BY <2>2, <2>3, <2>4 DEF Follows
<1>5. CASE Stamp
  BY <1>5 DEF Stamp, Follows
<1>6. CASE UploadWake
  BY <1>6 DEF UploadWake, TypeInv, Follows
<1>7. CASE UNCHANGED places /\ (upc' \in {"stamp", "send"} => upc' = upc /\ swapped' = swapped)
  BY <1>7 DEF places, Follows
<1>8. ~Receive /\ ~Insert /\ ~Swap /\ ~Send /\ ~UploadWake /\ ~Stamp
        => (upc' \in {"stamp", "send"} => upc' = upc /\ swapped' = swapped)
  BY DEF Next, Proceed, Upload, CreateTemplate, CreateTemplateFails, ReceiveEnd,
         ReceiveFails, TimerStopLock, TimerStopSignal, JoinAndExit, UploadTop,
         UploadWait, UploadUnlock, Tick, Signal, vars
<1> QED BY <1>1, <1>2, <1>3, <1>4, <1>5, <1>6, <1>7, <1>8, NothingFiled

\* One filter after the other is emptied, from the first to the last.
LEMMA StepLastUpload == TypeInv /\ LastUpload /\ [Next]_vars => LastUpload'
<1> SUFFICES ASSUME TypeInv, LastUpload, [Next]_vars, asleep'
             PROVE  LastUpload'
  BY DEF LastUpload
<1> USE DEF uploadVars
<1>0. bloomList \in [Tags -> SUBSET Numbers] /\ i \in 0 .. Size /\ Size \in Nat
  BY BloomAssumption DEF TypeInv, TypeOK
<1>1. CASE TimerStopSignal
  BY <1>1 DEF TimerStopSignal, LastUpload
<1>2. ~TimerStopSignal => asleep /\ mpc \in {"join", "exited"}
  BY DEF LastUpload, Next, Proceed, Upload, CreateTemplate, CreateTemplateFails, Receive,
         ReceiveEnd, ReceiveFails, Insert, TimerStopLock, JoinAndExit, UploadTop,
         UploadWait, UploadWake, Swap, Stamp, Send, UploadUnlock, Tick, Signal, vars
<1>3. CASE asleep /\ mpc \in {"join", "exited"} /\ Upload
  <2>1. mpc = "join" /\ UNCHANGED mpc
    BY <1>3 DEF Upload, UploadTop, UploadWait, UploadWake, Swap, Stamp, Send, UploadUnlock
  <2>2. CASE Swap
    <3>1. /\ i \in Tags /\ UNCHANGED i /\ upc = "swap" /\ upc' = "stamp"
          /\ \A t \in Tags : bloomList'[t] = IF t = i THEN {} ELSE bloomList[t]
      BY <1>0, <2>2 DEF Swap, TypeInv
    <3>2. \A t \in 1 .. i - 1 : bloomList[t] = {}
      BY <1>3, <3>1 DEF LastUpload
    <3>3. \A t \in 1 .. i : bloomList'[t] = {}
      BY <1>0, <3>1, <3>2 DEF Tags
    <3> QED BY <2>1, <3>1, <3>3 DEF LastUpload
  <2>3. CASE Send
    <3>1. \A t \in 1 .. i : bloomList[t] = {}
      BY <1>3, <2>3 DEF Send, LastUpload
    <3>2. UNCHANGED bloomList /\ i \in 1 .. Size
      BY <2>3 DEF Send, TypeInv, Tags
    <3>3. CASE i < Size
      <4>1. upc' = "swap" /\ i' = i + 1
        BY <2>3, <3>3 DEF Send
      <4>2. \A t \in 1 .. i' - 1 : bloomList'[t] = {}
        BY <1>0, <3>1, <3>2, <4>1
      <4> QED BY <2>1, <4>1, <4>2 DEF LastUpload
    <3>4. CASE ~(i < Size)
      <4>1. upc' = "unlock"
        BY <2>3, <3>4 DEF Send
      <4>2. \A t \in Tags : bloomList'[t] = {}
        BY <1>0, <3>1, <3>2, <3>4 DEF Tags
      <4> QED BY <2>1, <4>1, <4>2 DEF LastUpload
    <3> QED BY <3>3, <3>4
  <2>4. CASE UploadWake
    <3>1. \A t \in 1 .. i' - 1 : bloomList'[t] = {}
      BY <2>4 DEF UploadWake
    <3> QED BY <2>1, <2>4, <3>1 DEF UploadWake, LastUpload
  <2>5. CASE UploadTop \/ UploadWait \/ Stamp \/ UploadUnlock
    BY <1>3, <2>1, <2>5
       DEF UploadTop, UploadWait, Stamp, UploadUnlock, LastUpload
  <2> QED BY <1>3, <2>2, <2>3, <2>4, <2>5 DEF Upload
<1>4. CASE asleep /\ mpc \in {"join", "exited"} /\ ~Upload /\ ~TimerStopSignal
  <2>1. UNCHANGED <<upc, i, bloomList>> /\ (UNCHANGED mpc \/ JoinAndExit)
    BY <1>4 DEF Next, Proceed, CreateTemplate, CreateTemplateFails, Receive, ReceiveEnd,
         ReceiveFails, Insert, TimerStopLock, JoinAndExit, Tick, Signal, vars
  <2> QED BY <1>4, <2>1 DEF JoinAndExit, LastUpload
<1> QED BY <1>1, <1>2, <1>3, <1>4

\* The strengthened invariant says what the property does.
LEMMA InTimeSeen == ASSUME BloomInv PROVE SeenInInterval
<1>1. \A n \in Inserted : recs[n].tag \in Tags
  BY PlacesTypes DEF BloomInv, Inserted
<1>2. /\ \A p \in DOMAIN posts : \A n \in posts[p].ids :
            /\ recs[n].seen < posts[p].to
            /\ \A o \in 1 .. p - 1 :
                 posts[o].tag = posts[p].tag => recs[n].seen >= posts[o].swapped
  BY DEF BloomInv, InTime, Follows
<1>3. \A n \in Inserted : \A p \in DOMAIN posts :
        n \in bloomList[recs[n].tag] /\ posts[p].tag = recs[n].tag
          => recs[n].seen >= posts[p].swapped
  BY <1>1 DEF BloomInv, Follows
<1>4. mpc = "exited" /\ asleep => \A t \in Tags : bloomList[t] = {}
  BY DEF BloomInv, LastUpload
<1> QED BY <1>2, <1>3, <1>4 DEF SeenInInterval

\* For every number of tags, records and seconds: an upload stands for an interval of time
\* in which its addresses were seen, the uploads of a tag follow each other without a gap,
\* and after a wait ended by main's signal the last one leaves nothing behind.
THEOREM SeenInIntervalCorrect == Spec => []SeenInInterval
<1>1. Init => BloomInv
  BY InitType, InitFiled, InitInTime DEF BloomInv
<1>2. BloomInv /\ [Next]_vars => BloomInv'
  BY StepType, StepFiled, StepInTime, StepFollows, StepLastUpload DEF BloomInv
<1>3. BloomInv => SeenInInterval
  BY InTimeSeen
<1> QED BY <1>1, <1>2, <1>3, PTL DEF Spec
=============================================================================
