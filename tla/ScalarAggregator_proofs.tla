----------------------- MODULE ScalarAggregator_proofs -----------------------
(***************************************************************************)
(* Proofs about the scalar aggregator: the databases of all rules stay in  *)
(* step, the records of an output are those of successive windows, the     *)
(* counters of a window are those of the flows saved in it, and the        *)
(* windows of a rule together carry every value of whole seconds.          *)
(***************************************************************************)
EXTENDS ScalarAggregator, SequenceTheorems, FiniteSetTheorems, WellFoundedInduction,
        TLAPS

(***************************************************************************)
(* Times and slots.                                                        *)
(***************************************************************************)

LEMMA Sizes ==
  /\ Step \in Nat /\ Step > 0
  /\ Size \in Nat /\ Size >= 2
  /\ 0 \in Slots /\ Size - 1 \in Slots
  /\ \A s \in Slots : s \in Nat /\ s < Size
<1>1. Step \in Nat /\ Step > 0 /\ Delay \in Nat
  BY TimeDBAssumption
<1>2. Delay \div Step \in Nat
  BY <1>1
<1> QED BY <1>1, <1>2 DEF Size, Slots

\* The slot of a window, without the remainder.
LEMMA SlotIs ==
  ASSUME NEW d, d.dataBegin \in Slots, NEW i \in Slots
  PROVE  SlotOf(d, i) = IF d.dataBegin + i < Size THEN d.dataBegin + i
                                                  ELSE d.dataBegin + i - Size
<1>1. \A x, S \in Nat : S > 0 /\ x < S => x % S = x /\ (x + S) % S = x
  OBVIOUS
<1>2. d.dataBegin \in Nat /\ i \in Nat /\ Size \in Nat /\ Size > 0
      /\ d.dataBegin < Size /\ i < Size
  BY Sizes
<1>3. CASE d.dataBegin + i < Size
  BY <1>1, <1>2, <1>3 DEF SlotOf
<1>4. CASE ~(d.dataBegin + i < Size)
  <2> DEFINE x == d.dataBegin + i - Size
  <2>1. x \in Nat /\ x < Size /\ x + Size = d.dataBegin + i
    BY <1>2, <1>4
  <2>2. (x + Size) % Size = x
    BY <1>1, <1>2, <2>1
  <2> QED BY <1>4, <2>1, <2>2 DEF SlotOf
<1> QED BY <1>3, <1>4

LEMMA SlotIsSlot ==
  ASSUME NEW d, d.dataBegin \in Slots, NEW i \in Slots
  PROVE  SlotOf(d, i) \in Slots
BY SlotIs, Sizes DEF Slots

\* Every slot is one of the ring.
LEMMA SlotFound ==
  ASSUME NEW d, d.dataBegin \in Slots, NEW s \in Slots
  PROVE  \E i \in Slots : SlotOf(d, i) = s
<1>1. CASE d.dataBegin <= s
  <2>1. s - d.dataBegin \in Slots
    BY <1>1, Sizes DEF Slots
  <2> QED BY <1>1, <2>1, SlotIs, Sizes DEF Slots
<1>2. CASE ~(d.dataBegin <= s)
  <2>1. s - d.dataBegin + Size \in Slots
    BY <1>2, Sizes DEF Slots
  <2> QED BY <1>2, <2>1, SlotIs, Sizes DEF Slots
<1> QED BY <1>1, <1>2

LEMMA Aligned ==
  ASSUME NEW t \in Nat
  PROVE  /\ t - (t % Step) \in Nat
         /\ Step <= t => t - (t % Step) > 0
<1>1. t % Step \in Nat /\ t % Step < Step
  BY Sizes
<1>2. t % Step <= t
  <2>1. t < Step => t % Step = t
    BY Sizes
  <2> QED BY <1>1, <2>1, Sizes
<1> QED BY <1>1, <1>2, Sizes

LEMMA Seconds ==
  ASSUME NEW f \in Inputs
  PROVE  Sec(f.first) \in Nat /\ Sec(f.last) \in Nat /\ Step <= Sec(f.first)
<1>1. f.first \in Nat /\ f.last \in Nat /\ 2 * Step <= f.first
  BY ScalarAssumption
<1> QED BY <1>1, Sizes DEF Sec

(***************************************************************************)
(* The databases and their types, n flows having arrived.                  *)
(***************************************************************************)

KeysOf == {f.key : f \in Inputs}

Trees == {t \in SUBSET KeysOf : IsFiniteSet(t)}

WindowsOf(n) ==
  [begin : Nat, end : Nat, sum : Int, count : Nat, tree : Trees,
   ids : SUBSET (1 .. n)]

DatabasesOf(n) ==
  [begin : Nat, end : Nat, uniq : BOOLEAN, initialized : BOOLEAN,
   dataBegin : Slots, data : [Slots -> WindowsOf(n)]]

LEMMA NoTree == {} \in Trees
BY FS_EmptySet DEF Trees

LEMMA EmptyWindowType ==
  ASSUME NEW n \in Nat, NEW b \in Nat, NEW t \in Trees
  PROVE  EmptyWindow(b, t) \in WindowsOf(n)
BY Sizes DEF EmptyWindow, WindowsOf

LEMMA CreateType ==
  ASSUME NEW n \in Nat, NEW u \in BOOLEAN
  PROVE  Create(u) \in DatabasesOf(n)
<1>1. [EmptyWindow(0, {}) EXCEPT !.end = 0] \in WindowsOf(n)
  BY NoTree, EmptyWindowType DEF EmptyWindow, WindowsOf
<1> QED BY <1>1, Sizes DEF Create, DatabasesOf

\* A database with other windows, times and begin of the ring.
Changed(d, x, b, e, begin) ==
  [d EXCEPT !.data = x, !.begin = b, !.end = e, !.dataBegin = begin]

LEMMA ChangedType ==
  ASSUME NEW n \in Nat, NEW d \in DatabasesOf(n), NEW b \in Nat, NEW e \in Nat,
         NEW begin \in Slots, NEW x \in [Slots -> WindowsOf(n)]
  PROVE  Changed(d, x, b, e, begin) \in DatabasesOf(n)
<1>1. [d EXCEPT !.data = x] \in DatabasesOf(n)
  BY DEF DatabasesOf
<1>2. [d EXCEPT !.data = x, !.begin = b] \in DatabasesOf(n)
  BY <1>1 DEF DatabasesOf
<1>3. [d EXCEPT !.data = x, !.begin = b, !.end = e] \in DatabasesOf(n)
  BY <1>2 DEF DatabasesOf
<1> QED BY <1>3 DEF Changed, DatabasesOf

LEMMA CreateIs ==
  ASSUME NEW u
  PROVE  /\ Create(u).dataBegin = 0 /\ Create(u).begin = 0 /\ Create(u).end = 0
         /\ Create(u).uniq = u
         /\ \A s \in Slots : /\ Create(u).data[s].tree = {} /\ Create(u).data[s].ids = {}
                             /\ Create(u).data[s].count = 0
BY DEF Create, EmptyWindow

LEMMA InitType ==
  ASSUME NEW n \in Nat, NEW d \in DatabasesOf(n), NEW t \in Nat
  PROVE  TimedbInit(d, t) \in DatabasesOf(n)
<1> DEFINE b == t - (t % Step)
<1>1. b \in Nat
  BY Aligned
<1>2. \A s \in Slots : b + s * Step \in Nat
  BY <1>1, Sizes
<1>3. \A s \in Slots : d.data[s].tree \in Trees
  BY DEF DatabasesOf, WindowsOf
<1>4. \A s \in Slots : EmptyWindow(b + s * Step, d.data[s].tree) \in WindowsOf(n)
  BY <1>2, <1>3, EmptyWindowType
<1>5. b + Size * Step \in Nat
  BY <1>1, Sizes
<1> HIDE DEF b
<1> DEFINE x == [s \in Slots |-> EmptyWindow(b + s * Step, d.data[s].tree)]
<1>6. x \in [Slots -> WindowsOf(n)]
  BY <1>4
<1> HIDE DEF x
<1>7. TimedbInit(d, t) = Changed(d, x, b, b + Size * Step, d.dataBegin)
  BY DEF TimedbInit, Changed, DatabasesOf, b, x
<1>8. d.dataBegin \in Slots
  BY DEF DatabasesOf
<1> QED BY <1>1, <1>5, <1>6, <1>7, <1>8, ChangedType

LEMMA InitTreeType ==
  ASSUME NEW n \in Nat, NEW d \in DatabasesOf(n)
  PROVE  TimedbInitTree(d) \in DatabasesOf(n)
BY DEF TimedbInitTree, DatabasesOf

LEMMA PreparedType ==
  ASSUME NEW n \in Nat, NEW d \in DatabasesOf(n), NEW f \in Inputs
  PROVE  Prepared(d, f) \in DatabasesOf(n)
BY InitType, InitTreeType, Seconds DEF Prepared

LEMMA ShareType ==
  ASSUME NEW n \in Nat, NEW w \in WindowsOf(n), NEW f \in Inputs
  PROVE  Share(w, f) \in Int
<1>1. f.first \in Nat /\ f.last \in Nat /\ f.first <= f.last /\ f.value \in Int
  BY ScalarAssumption
<1>2. w.begin \in Nat /\ w.end \in Nat
  BY DEF WindowsOf
<1>3. f.first # f.last => f.value \div (f.last - f.first) \in Int
  BY <1>1
<1>4. Min2(2 * w.end, f.last) - Max2(2 * w.begin, f.first) \in Int
  BY <1>1, <1>2 DEF Min2, Max2
<1> QED BY <1>1, <1>3, <1>4 DEF Share

LEMMA SavedType ==
  ASSUME NEW n \in Nat, NEW w \in WindowsOf(n), NEW f \in Inputs, NEW i \in 1 .. n,
         NEW d
  PROVE  Saved(d, w, f, i) \in WindowsOf(n)
<1>1. Share(w, f) \in Int /\ f.key \in KeysOf
  BY ShareType DEF KeysOf
<1>2. /\ w.sum + Share(w, f) \in Int
      /\ w.count + 1 \in Nat
      /\ w.tree \cup {f.key} \in Trees
      /\ w.ids \cup {i} \in SUBSET (1 .. n)
  <2>1. w.tree \in Trees /\ w.sum \in Int /\ w.count \in Nat /\ w.ids \in SUBSET (1 .. n)
    BY DEF WindowsOf
  <2>2. IsFiniteSet(w.tree \cup {f.key})
    BY <2>1, FS_AddElement DEF Trees
  <2> QED BY <1>1, <2>1, <2>2 DEF Trees
<1> HIDE DEF Share
<1>3. \A a \in Int, b \in Nat, c \in Trees, e \in SUBSET (1 .. n) :
        [w EXCEPT !.sum = a, !.count = b, !.tree = c, !.ids = e] \in WindowsOf(n)
  BY DEF WindowsOf
<1>4. w.count \in Nat /\ w.tree \in Trees
  BY DEF WindowsOf
<1> QED BY <1>2, <1>3, <1>4 DEF Saved

LEMMA SaveDataType ==
  ASSUME NEW n \in Nat, NEW d \in DatabasesOf(n), NEW f \in Inputs, NEW i \in 1 .. n
  PROVE  SaveData(d, f, i) \in DatabasesOf(n)
<1>1. \A s \in Slots : d.data[s] \in WindowsOf(n)
  BY DEF DatabasesOf
<1>2. \A s \in Slots : Saved(d, d.data[s], f, i) \in WindowsOf(n)
  BY <1>1, SavedType
<1>3. SaveData(d, f, i)
        = [d EXCEPT !.data = [s \in Slots |-> IF Touches(d.data[s], f)
                                              THEN Saved(d, d.data[s], f, i) ELSE d.data[s]]]
  BY DEF SaveData, DatabasesOf
<1> QED BY <1>1, <1>2, <1>3 DEF DatabasesOf

LEMMA RollType ==
  ASSUME NEW n \in Nat, NEW d \in DatabasesOf(n)
  PROVE  Roll(d) \in DatabasesOf(n)
<1>1. EmptyWindow(d.end, {}) \in WindowsOf(n)
  BY NoTree, EmptyWindowType DEF DatabasesOf
<1>2. SlotOf(d, 0) \in Slots
  BY SlotIsSlot, Sizes DEF DatabasesOf
<1>3. (d.dataBegin + 1) % Size \in Slots
  BY Sizes DEF DatabasesOf, Slots
<1> DEFINE x == [d.data EXCEPT ![SlotOf(d, 0)] = EmptyWindow(d.end, {})]
           begin == (d.dataBegin + 1) % Size
<1>4. x \in [Slots -> WindowsOf(n)]
  BY <1>1, <1>2 DEF DatabasesOf
<1>5. d.begin + Step \in Nat /\ d.end + Step \in Nat
  BY Sizes DEF DatabasesOf
<1>6. Roll(d) = Changed(d, x, d.begin + Step, d.end + Step, begin)
  BY DEF Roll, Changed
<1> HIDE DEF x, begin
<1>7. begin \in Slots
  BY <1>3 DEF begin
<1> QED BY <1>4, <1>5, <1>6, <1>7, ChangedType

\* One more flow.
LEMMA GrownType ==
  ASSUME NEW n \in Nat
  PROVE  DatabasesOf(n) \subseteq DatabasesOf(n + 1)
<1>1. 1 .. n \subseteq 1 .. n + 1
  OBVIOUS
<1>2. WindowsOf(n) \subseteq WindowsOf(n + 1)
  BY <1>1 DEF WindowsOf
<1> QED BY <1>2 DEF DatabasesOf

(***************************************************************************)
(* The ring of a database: its windows, from the oldest on, follow one     *)
(* another from begin to end, and each takes Step seconds.                 *)
(***************************************************************************)

RingOf(d) ==
  /\ RollingData(d, 0).begin = d.begin
  /\ RollingData(d, Size - 1).end = d.end
  /\ \A i \in Slots \ {0} : RollingData(d, i).begin = RollingData(d, i - 1).end
  /\ \A s \in Slots : d.data[s].end = d.data[s].begin + Step

\* The begin of the ring is slot 0 when a database is initialised first.
LEMMA InitRing ==
  ASSUME NEW n \in Nat, NEW d \in DatabasesOf(n), d.dataBegin = 0, NEW t \in Nat
  PROVE  RingOf(TimedbInit(d, t))
<1> DEFINE b == t - (t % Step)
           e == TimedbInit(d, t)
<1>1. b \in Nat
  BY Aligned
<1> HIDE DEF b
<1>2. /\ e.begin = b /\ e.end = b + Size * Step /\ e.dataBegin = 0
      /\ \A s \in Slots : /\ e.data[s].begin = b + s * Step
                          /\ e.data[s].end = b + s * Step + Step
  BY DEF TimedbInit, DatabasesOf, EmptyWindow, b
<1> HIDE DEF e
<1>3. ASSUME NEW i \in Slots
      PROVE  RollingData(e, i) = e.data[i]
  <2>1. e.dataBegin \in Slots /\ e.dataBegin = 0 /\ i \in Nat /\ i < Size
    BY <1>2, Sizes
  <2>2. SlotOf(e, i) = IF e.dataBegin + i < Size THEN e.dataBegin + i
                                                ELSE e.dataBegin + i - Size
    BY <2>1, SlotIs
  <2>3. SlotOf(e, i) = i
    BY <2>1, <2>2
  <2> QED BY <2>3 DEF RollingData
<1>4. 0 * Step = 0 /\ (Size - 1) * Step + Step = Size * Step
  BY Sizes
<1>5. \A i \in Slots \ {0} :
        i - 1 \in Slots /\ b + (i - 1) * Step + Step = b + i * Step
  BY <1>1, Sizes DEF Slots
<1>6. RollingData(e, 0).begin = e.begin
  BY <1>1, <1>2, <1>3, <1>4, Sizes
<1>7. RollingData(e, Size - 1).end = e.end
  <2>1. RollingData(e, Size - 1).end = b + (Size - 1) * Step + Step
    BY <1>2, <1>3, Sizes
  <2>2. (Size - 1) * Step \in Nat
    BY Sizes
  <2> QED BY <1>1, <1>2, <1>4, <2>1, <2>2, Sizes
<1>8. \A i \in Slots \ {0} : RollingData(e, i).begin = RollingData(e, i - 1).end
  BY <1>2, <1>3, <1>5
<1> QED BY <1>2, <1>6, <1>7, <1>8 DEF RingOf, e

\* What a save leaves alone.
LEMMA SaveDataIs ==
  ASSUME NEW n \in Nat, NEW d \in DatabasesOf(n), NEW f, NEW i
  PROVE  LET e == SaveData(d, f, i) IN
         /\ e.begin = d.begin /\ e.end = d.end
         /\ e.dataBegin = d.dataBegin /\ e.uniq = d.uniq
         /\ \A s \in Slots : /\ e.data[s] = IF Touches(d.data[s], f)
                                            THEN Saved(d, d.data[s], f, i) ELSE d.data[s]
                             /\ e.data[s].begin = d.data[s].begin
                             /\ e.data[s].end = d.data[s].end
<1> DEFINE e == SaveData(d, f, i)
<1>1. /\ e.begin = d.begin /\ e.end = d.end
      /\ e.dataBegin = d.dataBegin /\ e.uniq = d.uniq
      /\ \A s \in Slots : e.data[s] = IF Touches(d.data[s], f)
                                      THEN Saved(d, d.data[s], f, i) ELSE d.data[s]
  BY DEF SaveData, DatabasesOf
<1>2. ASSUME NEW s \in Slots
      PROVE  e.data[s].begin = d.data[s].begin /\ e.data[s].end = d.data[s].end
  <2>1. d.data[s] \in WindowsOf(n)
    BY DEF DatabasesOf
  <2>2. /\ Saved(d, d.data[s], f, i).begin = d.data[s].begin
        /\ Saved(d, d.data[s], f, i).end = d.data[s].end
    BY <2>1 DEF Saved, WindowsOf
  <2> HIDE DEF e
  <2> QED BY <1>1, <2>2
<1> QED BY <1>1, <1>2

\* A database whose windows have the times and places of those of another one.
LEMMA SameRing ==
  ASSUME NEW n \in Nat, NEW d \in DatabasesOf(n), NEW e,
         e.begin = d.begin, e.end = d.end, e.dataBegin = d.dataBegin,
         \A s \in Slots : e.data[s].begin = d.data[s].begin
                          /\ e.data[s].end = d.data[s].end,
         RingOf(d)
  PROVE  RingOf(e)
<1>1. \A i \in Slots : /\ SlotOf(e, i) = SlotOf(d, i)
                       /\ SlotOf(d, i) \in Slots
  BY SlotIsSlot DEF SlotOf, DatabasesOf
<1>2. \A i \in Slots : /\ RollingData(e, i).begin = RollingData(d, i).begin
                       /\ RollingData(e, i).end = RollingData(d, i).end
  BY <1>1 DEF RollingData
<1>3. \A i \in Slots \ {0} : i - 1 \in Slots
  BY Sizes DEF Slots
<1> QED BY <1>2, <1>3, Sizes DEF RingOf

LEMMA SaveDataRing ==
  ASSUME NEW n \in Nat, NEW d \in DatabasesOf(n), NEW f, NEW i, RingOf(d)
  PROVE  RingOf(SaveData(d, f, i))
<1>1. /\ SaveData(d, f, i).begin = d.begin /\ SaveData(d, f, i).end = d.end
      /\ SaveData(d, f, i).dataBegin = d.dataBegin
      /\ \A s \in Slots : /\ SaveData(d, f, i).data[s].begin = d.data[s].begin
                          /\ SaveData(d, f, i).data[s].end = d.data[s].end
  BY SaveDataIs
<1> HIDE DEF SaveData
<1> QED BY <1>1, SameRing

LEMMA RollIs ==
  ASSUME NEW n \in Nat, NEW d \in DatabasesOf(n)
  PROVE  LET e == Roll(d) IN
         /\ e.begin = d.begin + Step /\ e.end = d.end + Step /\ e.uniq = d.uniq
         /\ e.dataBegin = (d.dataBegin + 1) % Size
         /\ \A s \in Slots : e.data[s] = IF s = SlotOf(d, 0) THEN EmptyWindow(d.end, {})
                                                            ELSE d.data[s]
BY DEF Roll, DatabasesOf

\* After a roll every window but the newest is where the next one was.
LEMMA RollShifts ==
  ASSUME NEW n \in Nat, NEW d \in DatabasesOf(n)
  PROVE  /\ \A i \in Slots : i < Size - 1 =>
              i + 1 \in Slots /\ RollingData(Roll(d), i) = RollingData(d, i + 1)
         /\ RollingData(Roll(d), Size - 1) = EmptyWindow(d.end, {})
<1> DEFINE e == Roll(d)
           D == d.dataBegin
           E == e.dataBegin
<1>1. D \in Slots /\ D \in Nat /\ D < Size
  BY Sizes DEF DatabasesOf
<1>2. E = IF D + 1 < Size THEN D + 1 ELSE 0
  <2>1. 1 \in Slots
    BY Sizes DEF Slots
  <2>2. E = SlotOf(d, 1)
    BY RollIs DEF SlotOf
  <2> QED BY <1>1, <2>1, <2>2, SlotIs, Sizes
<1>3. E \in Slots
  BY <1>1, <1>2, Sizes DEF Slots
<1>4. \A i \in Slots : SlotOf(e, i) = IF E + i < Size THEN E + i ELSE E + i - Size
  BY <1>3, SlotIs
<1>5. \A i \in Slots : SlotOf(d, i) = IF D + i < Size THEN D + i ELSE D + i - Size
  BY <1>1, SlotIs
<1> HIDE DEF e, D, E
<1>6. ASSUME NEW i \in Slots, i < Size - 1
      PROVE  i + 1 \in Slots /\ RollingData(e, i) = RollingData(d, i + 1)
  <2>1. i + 1 \in Slots /\ i \in Nat
    BY <1>6, Sizes DEF Slots
  <2>2. SlotOf(e, i) = SlotOf(d, i + 1)
    BY <1>1, <1>2, <1>4, <1>5, <1>6, <2>1, Sizes
  <2>3. SlotOf(d, i + 1) # SlotOf(d, 0)
    BY <1>1, <1>5, <1>6, <2>1, Sizes
  <2>4. SlotOf(d, i + 1) \in Slots
    BY <1>1, <2>1, SlotIsSlot DEF D
  <2> QED BY <2>1, <2>2, <2>3, <2>4, RollIs DEF RollingData, e
<1>7. RollingData(e, Size - 1) = EmptyWindow(d.end, {})
  <2>1. SlotOf(e, Size - 1) = SlotOf(d, 0)
    BY <1>1, <1>2, <1>4, <1>5, Sizes
  <2>2. SlotOf(d, 0) \in Slots
    BY <1>1, Sizes, SlotIsSlot DEF D
  <2> QED BY <2>1, <2>2, RollIs DEF RollingData, e
<1> QED BY <1>6, <1>7 DEF e

LEMMA RollRing ==
  ASSUME NEW n \in Nat, NEW d \in DatabasesOf(n), RingOf(d)
  PROVE  RingOf(Roll(d))
<1> DEFINE e == Roll(d)
<1>1. /\ e.begin = d.begin + Step /\ e.end = d.end + Step
      /\ \A s \in Slots : e.data[s] = IF s = SlotOf(d, 0) THEN EmptyWindow(d.end, {})
                                                         ELSE d.data[s]
  BY RollIs
<1>2. /\ \A i \in Slots : i < Size - 1 =>
              i + 1 \in Slots /\ RollingData(e, i) = RollingData(d, i + 1)
      /\ RollingData(e, Size - 1) = EmptyWindow(d.end, {})
  BY RollShifts
<1> HIDE DEF e
<1>3. EmptyWindow(d.end, {}).begin = d.end /\ EmptyWindow(d.end, {}).end = d.end + Step
  BY DEF EmptyWindow
<1>4. RollingData(e, 0).begin = e.begin
  <2>1. 1 \in Slots \ {0} /\ 0 \in Slots /\ 0 < Size - 1 /\ 0 + 1 = 1 /\ 1 - 1 = 0
    BY Sizes DEF Slots
  <2>2. RollingData(e, 0) = RollingData(d, 1)
    BY <1>2, <2>1
  <2>3. RollingData(d, 1).begin = RollingData(d, 0).end
    BY <2>1 DEF RingOf
  <2>4. RollingData(d, 0).end = d.begin + Step
    BY <2>1, SlotIsSlot DEF RingOf, RollingData, DatabasesOf
  <2> QED BY <1>1, <2>2, <2>3, <2>4
<1>5. RollingData(e, Size - 1).end = e.end
  BY <1>1, <1>2, <1>3
<1>6. ASSUME NEW i \in Slots \ {0}
      PROVE  RollingData(e, i).begin = RollingData(e, i - 1).end
  <2>1. i - 1 \in Slots /\ i - 1 < Size - 1 /\ (i - 1) + 1 = i
    BY Sizes DEF Slots
  <2>2. RollingData(e, i - 1) = RollingData(d, i)
    BY <1>2, <2>1
  <2>3. CASE i < Size - 1
    <3>1. /\ i + 1 \in Slots \ {0} /\ (i + 1) - 1 = i
          /\ RollingData(e, i) = RollingData(d, i + 1)
      BY <1>2, <2>3, Sizes DEF Slots
    <3> QED BY <2>2, <3>1 DEF RingOf
  <2>4. CASE i = Size - 1
    BY <1>2, <1>3, <2>2, <2>4 DEF RingOf
  <2> QED BY <2>3, <2>4, Sizes DEF Slots
<1>7. \A s \in Slots : e.data[s].end = e.data[s].begin + Step
  BY <1>1, <1>3 DEF RingOf
<1> QED BY <1>4, <1>5, <1>6, <1>7 DEF RingOf, e

(***************************************************************************)
(* The inductive invariant.                                                *)
(***************************************************************************)

OldestOf(n) == [time : Nat, sum : Int, count : Nat, ids : SUBSET (1 .. n)]

RowsOf(n) ==
  UNION {[out : {o}, time : Nat, fields : [RulesOf(o) -> OldestOf(n)]] : o \in Outputs}

Working == pc \in {"save", "flush"}

TypeInv ==
  /\ stop \in BOOLEAN
  /\ pc \in {"recv", "save", "flush", "exited", "crashed"}
  /\ at \in 0 .. Len(Rules)
  /\ timedbInitialized \in BOOLEAN
  /\ flows \in Seq(Inputs)
  /\ db \in [RuleIds -> DatabasesOf(Len(flows))]
  /\ rows \in Seq(RowsOf(Len(flows)))
  /\ restarted \subseteq RuleIds
  /\ broken \in BOOLEAN
  /\ Working => at \in RuleIds /\ Len(flows) > 0 /\ timedbInitialized

\* The databases are those timedb_create made until the first flow initialises
\* all of them; no begin is 0 any more then.
Started ==
  /\ \A r \in RuleIds : db[r].uniq = Rules[r].uniq
  /\ timedbInitialized => \A r \in RuleIds : db[r].begin > 0
  /\ ~timedbInitialized => /\ rows = <<>>
                           /\ \A r \in RuleIds : db[r] = Create(Rules[r].uniq)

Rings == timedbInitialized => \A r \in RuleIds \ restarted : RingOf(db[r])

\* The databases cover the same time, and so do the fields of a record.
Together ==
  restarted = {} /\ ~broken =>
    /\ \A r, s \in RuleIds : db[r].begin = db[s].begin /\ db[r].end = db[s].end
    /\ \A n \in DOMAIN rows : \A r \in DOMAIN rows[n].fields :
         rows[n].fields[r].time = rows[n].time

\* Output o has rows n and m, and none in between.
Neighbours(o, m, n) ==
  /\ m < n /\ rows[m].out = o /\ rows[n].out = o
  /\ \A i \in m + 1 .. n - 1 : rows[i].out # o

Last(o, n) ==
  /\ n \in DOMAIN rows /\ rows[n].out = o
  /\ \A i \in n + 1 .. Len(rows) : rows[i].out # o

\* What was sent for an output is that of successive windows, up to the one the
\* database of its first rule begins with.
Successive ==
  \A o \in Outputs : RulesOf(o) \cap restarted = {} =>
    /\ \A m, n \in DOMAIN rows : Neighbours(o, m, n) => rows[n].time = rows[m].time + Step
    /\ \A n : Last(o, n) => db[Min(RulesOf(o))].begin = rows[n].time + Step

\* The flow at work is not yet in the databases to come.
Fresh ==
  Working => \A r \in RuleIds : at <= r =>
               \A s \in Slots : Len(flows) \notin db[r].data[s].ids

ScalarInv == TypeInv /\ Started /\ Rings /\ Together /\ Successive /\ Fresh /\ CountedOnce

(***************************************************************************)
(* The rules and the outputs.                                              *)
(***************************************************************************)

LEMMA RulesGiven ==
  /\ Len(Rules) \in Nat /\ Len(Rules) > 0 /\ RuleIds = 1 .. Len(Rules)
  /\ Rules[Len(Rules)].out \in Nat
  /\ \A r \in RuleIds : Rules[r].out \in Outputs /\ Rules[r].uniq \in BOOLEAN
<1>1. Len(Rules) \in Nat /\ Len(Rules) > 0 /\ RuleIds = 1 .. Len(Rules)
  BY ScalarAssumption DEF RuleIds
<1>2. \A r \in RuleIds : Rules[r].out \in Nat /\ Rules[r].uniq \in BOOLEAN
  <2>1. Rules \in Seq([out : Nat, uniq : BOOLEAN])
    BY ScalarAssumption
  <2>2. \A r \in RuleIds : Rules[r] \in [out : Nat, uniq : BOOLEAN]
    BY <1>1, <2>1, ElementOfSeq
  <2> QED BY <2>2
<1>3. 1 \in RuleIds /\ Len(Rules) \in RuleIds
  BY <1>1
<1>4. ASSUME NEW r \in RuleIds
      PROVE  Rules[r].out \in Outputs
  <2>1. 1 <= r /\ r <= Len(Rules)
    BY <1>1
  <2>2. Rules[1].out <= Rules[r].out /\ Rules[r].out <= Rules[Len(Rules)].out
    BY <1>3, <2>1, ScalarAssumption
  <2> QED BY <1>2, <1>3, <2>2, ScalarAssumption DEF Outputs
<1> QED BY <1>1, <1>2, <1>3, <1>4

\* An output has a first rule.
LEMMA FirstRule ==
  ASSUME NEW o \in Outputs
  PROVE  Min(RulesOf(o)) \in RulesOf(o)
<1>1. \E r \in RulesOf(o) : \A s \in RulesOf(o) : r <= s
  BY ScalarAssumption
<1> QED BY <1>1 DEF Min

LEMMA RulesOfRules == \A o : \A r \in RulesOf(o) : r \in RuleIds /\ Rules[r].out = o
BY DEF RulesOf

\* What a roll hands out, with the begin of the ring as its time.
LEMMA OldestIs ==
  ASSUME NEW n \in Nat, NEW d \in DatabasesOf(n)
  PROVE  Oldest(d) \in OldestOf(n) /\ Oldest(d).time = RollingData(d, 0).begin
<1>1. RollingData(d, 0) \in WindowsOf(n)
  BY SlotIsSlot, Sizes DEF RollingData, DatabasesOf
<1>2. Cardinality(RollingData(d, 0).tree) \in Nat
  <2>1. IsFiniteSet(RollingData(d, 0).tree)
    BY <1>1 DEF WindowsOf, Trees
  <2> QED BY <2>1, FS_CardinalityType
<1> QED BY <1>1, <1>2 DEF Oldest, OldestOf, WindowsOf

(***************************************************************************)
(* The steps.                                                              *)
(***************************************************************************)

Serve == Save \/ SaveNeedsRollout

\* Steps that leave the databases and what was sent alone.
Rest ==
  /\ UNCHANGED <<at, timedbInitialized, db, flows, rows, restarted, broken>>
  /\ Working' => Working

LEMMA Steps == [Next]_vars => Receive \/ Serve \/ Flush \/ Rest
BY DEF Next, Leave, SaveFails, Proceed, FlushCrashes, Signal, vars, Serve, Rest, Working

\* A save of the rule at, or its try, spreads the flow over the database, and
\* moves nothing in it unless the database is initialised again.
Unmoved(d, e) ==
  /\ e.begin = d.begin /\ e.end = d.end /\ e.dataBegin = d.dataBegin
  /\ \A s \in Slots : e.data[s].begin = d.data[s].begin /\ e.data[s].end = d.data[s].end

LEMMA PreparedIs ==
  ASSUME NEW n \in Nat, NEW d \in DatabasesOf(n), d.begin > 0, NEW f \in Inputs
  PROVE  /\ Prepared(d, f).begin > 0 /\ Prepared(d, f).uniq = d.uniq
         /\ ~Inactive(d, f) => /\ Unmoved(d, Prepared(d, f))
                               /\ Prepared(d, f).data = d.data
         /\ \A s \in Slots : \/ Prepared(d, f).data[s] = d.data[s]
                             \/ Prepared(d, f).data[s].ids = {}
<1> DEFINE e == TimedbInitTree(d)
           t == Sec(f.first)
<1>1. /\ e \in DatabasesOf(n) /\ e.begin = d.begin /\ e.end = d.end
      /\ e.dataBegin = d.dataBegin /\ e.uniq = d.uniq /\ e.data = d.data
  BY InitTreeType DEF TimedbInitTree, DatabasesOf
<1>2. d.begin \in Nat /\ d.begin # 0
  BY DEF DatabasesOf
<1>3. Prepared(d, f) = IF Inactive(e, f) THEN TimedbInit(e, t) ELSE e
  BY <1>2 DEF Prepared
<1>4. Inactive(e, f) = Inactive(d, f)
  BY <1>1 DEF Inactive
<1>5. t \in Nat /\ Step <= t /\ t - (t % Step) > 0
  BY Seconds, Aligned
<1> HIDE DEF e, t
<1>6. /\ TimedbInit(e, t).begin = t - (t % Step) /\ TimedbInit(e, t).uniq = e.uniq
      /\ \A s \in Slots : TimedbInit(e, t).data[s].ids = {}
  BY <1>1 DEF TimedbInit, EmptyWindow, DatabasesOf
<1>7. CASE Inactive(d, f)
  BY <1>1, <1>3, <1>4, <1>5, <1>6, <1>7
<1>8. CASE ~Inactive(d, f)
  BY <1>1, <1>2, <1>3, <1>4, <1>8 DEF Unmoved
<1> QED BY <1>7, <1>8

LEMMA CurrentIs ==
  ASSUME TypeInv, Working
  PROVE  Current \in Inputs /\ Len(flows) \in Nat /\ Len(flows) \in 1 .. Len(flows)
<1>1. flows \in Seq(Inputs) /\ Len(flows) > 0
  BY DEF TypeInv
<1>2. Len(flows) \in Nat /\ Len(flows) \in 1 .. Len(flows)
  BY <1>1
<1> QED BY <1>1, <1>2, ElementOfSeq DEF Current

\* What a save, or its try, makes of the database of the rule at.
LEMMA Served ==
  ASSUME TypeInv, Started, Serve
  PROVE  LET d == Prepared(db[at], Current) IN
         /\ at \in RuleIds /\ d \in DatabasesOf(Len(flows))
         /\ \/ db' = [db EXCEPT ![at] = SaveData(d, Current, Len(flows))]
            \/ db' = [db EXCEPT ![at] = d]
         /\ restarted' = IF Inactive(db[at], Current) THEN restarted \cup {at}
                                                      ELSE restarted
         /\ UNCHANGED <<timedbInitialized, flows, rows, broken, stop>>
<1>1. pc = "save" /\ Working
  BY DEF Serve, Save, SaveNeedsRollout, Working
<1>2. at \in RuleIds /\ db[at] \in DatabasesOf(Len(flows))
  BY <1>1 DEF TypeInv
<1>3. Prepared(db[at], Current) \in DatabasesOf(Len(flows))
  BY <1>1, <1>2, CurrentIs, PreparedType
<1> QED BY <1>2, <1>3 DEF Serve, Save, SaveNeedsRollout, NoteRestart

LEMMA ServedDatabases ==
  ASSUME TypeInv, Started, Serve
  PROVE  /\ at \in RuleIds
         /\ db' \in [RuleIds -> DatabasesOf(Len(flows))]
         /\ \A r \in RuleIds \ {at} : db'[r] = db[r]
         /\ db'[at].begin > 0 /\ db'[at].uniq = db[at].uniq
         /\ restarted \subseteq restarted' /\ restarted' \subseteq RuleIds
         /\ at \notin restarted' => Unmoved(db[at], db'[at])
<1> DEFINE d == Prepared(db[at], Current)
<1>1. Working /\ timedbInitialized
  BY DEF Serve, Save, SaveNeedsRollout, Working, TypeInv
<1>2. /\ at \in RuleIds /\ d \in DatabasesOf(Len(flows))
      /\ \/ db' = [db EXCEPT ![at] = SaveData(d, Current, Len(flows))]
         \/ db' = [db EXCEPT ![at] = d]
      /\ restarted' = IF Inactive(db[at], Current) THEN restarted \cup {at} ELSE restarted
  BY Served
<1>3. Current \in Inputs /\ Len(flows) \in Nat /\ Len(flows) \in 1 .. Len(flows)
  BY <1>1, CurrentIs
<1>4. db[at] \in DatabasesOf(Len(flows)) /\ db[at].begin > 0
  BY <1>1, <1>2 DEF TypeInv, Started
<1>5. /\ d.begin > 0 /\ d.uniq = db[at].uniq
      /\ ~Inactive(db[at], Current) => Unmoved(db[at], d)
  BY <1>3, <1>4, PreparedIs
<1> HIDE DEF d
<1>6. /\ SaveData(d, Current, Len(flows)).begin = d.begin
      /\ SaveData(d, Current, Len(flows)).uniq = d.uniq
      /\ Unmoved(d, SaveData(d, Current, Len(flows)))
  BY <1>2, <1>3, SaveDataIs DEF Unmoved
<1>7. SaveData(d, Current, Len(flows)) \in DatabasesOf(Len(flows))
  BY <1>2, <1>3, SaveDataType
<1>8. db \in [RuleIds -> DatabasesOf(Len(flows))] /\ restarted \subseteq RuleIds
  BY DEF TypeInv
<1>9. db'[at] = SaveData(d, Current, Len(flows)) \/ db'[at] = d
  BY <1>2, <1>8
<1>10. db'[at].begin > 0 /\ db'[at].uniq = db[at].uniq /\ Unmoved(d, db'[at])
  BY <1>5, <1>6, <1>9 DEF Unmoved
<1>11. ~Inactive(db[at], Current) => Unmoved(db[at], db'[at])
  BY <1>5, <1>10 DEF Unmoved
<1>12. /\ db' \in [RuleIds -> DatabasesOf(Len(flows))]
       /\ \A r \in RuleIds \ {at} : db'[r] = db[r]
  BY <1>2, <1>7, <1>8
<1>13. restarted \subseteq restarted' /\ restarted' \subseteq RuleIds
       /\ (Inactive(db[at], Current) => at \in restarted')
  BY <1>2, <1>8
<1> QED BY <1>2, <1>10, <1>11, <1>12, <1>13

\* A flush sends a row of each of the first outputs and rolls their databases.
Sent(n) ==
  /\ n \in Outputs
  /\ rows' = rows \o [o \in 1 .. n |-> RowOf(o)]
  /\ db' = [r \in RuleIds |-> IF Rules[r].out <= n THEN Roll(db[r]) ELSE db[r]]
  /\ broken' = (broken \/ n < Rules[Len(Rules)].out)

LEMMA Flushed ==
  ASSUME Flush
  PROVE  /\ Working /\ \E n \in Outputs : Sent(n)
         /\ UNCHANGED <<stop, at, timedbInitialized, flows, restarted>>
BY DEF Flush, RollOutputs, Sent, Working

LEMMA RowIs ==
  ASSUME TypeInv, NEW o \in Outputs
  PROVE  /\ RowOf(o).out = o
         /\ RowOf(o).time = RollingData(db[Min(RulesOf(o))], 0).begin
         /\ DOMAIN RowOf(o).fields = RulesOf(o)
         /\ \A r \in RulesOf(o) :
              /\ RowOf(o).fields[r] = Oldest(db[r])
              /\ RowOf(o).fields[r].time = RollingData(db[r], 0).begin
         /\ RowOf(o) \in RowsOf(Len(flows))
<1>1. Len(flows) \in Nat /\ \A r \in RuleIds : db[r] \in DatabasesOf(Len(flows))
  BY DEF TypeInv
<1>2. \A r \in RuleIds : /\ Oldest(db[r]) \in OldestOf(Len(flows))
                         /\ Oldest(db[r]).time = RollingData(db[r], 0).begin
  BY <1>1, OldestIs
<1>3. Min(RulesOf(o)) \in RuleIds /\ \A r \in RulesOf(o) : r \in RuleIds
  BY FirstRule, RulesOfRules
<1>4. Oldest(db[Min(RulesOf(o))]).time \in Nat
  BY <1>2, <1>3 DEF OldestOf
<1>5. /\ RowOf(o).out = o /\ RowOf(o).time = Oldest(db[Min(RulesOf(o))]).time
      /\ RowOf(o).fields = [r \in RulesOf(o) |-> Oldest(db[r])]
  BY DEF RowOf
<1>6. RowOf(o) \in [out : {o}, time : Nat, fields : [RulesOf(o) -> OldestOf(Len(flows))]]
  BY <1>2, <1>3, <1>4 DEF RowOf
<1>7. RowOf(o) \in RowsOf(Len(flows))
  BY <1>6 DEF RowsOf
<1> QED BY <1>2, <1>3, <1>5, <1>7

LEMMA SentRows ==
  ASSUME TypeInv, NEW n \in Outputs, Sent(n)
  PROVE  /\ n \in Nat /\ Len(rows) \in Nat
         /\ rows' \in Seq(RowsOf(Len(flows)))
         /\ Len(rows') = Len(rows) + n
         /\ \A k \in 1 .. Len(rows) : rows'[k] = rows[k]
         /\ \A k \in Len(rows) + 1 .. Len(rows') :
              /\ k - Len(rows) \in 1 .. n /\ k - Len(rows) \in Outputs
              /\ rows'[k] = RowOf(k - Len(rows))
<1> DEFINE new == [o \in 1 .. n |-> RowOf(o)]
<1>1. n \in Nat /\ 1 .. n \subseteq Outputs
  BY RulesGiven DEF Outputs
<1>2. \A o \in 1 .. n : RowOf(o) \in RowsOf(Len(flows))
  BY <1>1, RowIs
<1>3. new \in Seq(RowsOf(Len(flows))) /\ Len(new) = n
  <2>1. new \in [1 .. n -> RowsOf(Len(flows))]
    BY <1>2
  <2> HIDE DEF new
  <2> QED BY <1>1, <2>1
<1>4. \A o \in 1 .. n : new[o] = RowOf(o)
  OBVIOUS
<1>5. rows \in Seq(RowsOf(Len(flows))) /\ rows' = rows \o new
  BY DEF TypeInv, Sent
<1> HIDE DEF new
<1>6. /\ rows' \in Seq(RowsOf(Len(flows)))
      /\ Len(rows') = Len(rows) + n
      /\ \A k \in 1 .. Len(rows) + n : rows'[k] = IF k <= Len(rows) THEN rows[k]
                                                                  ELSE new[k - Len(rows)]
  BY <1>3, <1>5, ConcatProperties
<1>7. Len(rows) \in Nat
  BY <1>5
<1>8. ASSUME NEW k \in Len(rows) + 1 .. Len(rows')
      PROVE  /\ k - Len(rows) \in 1 .. n /\ k - Len(rows) \in Outputs
             /\ rows'[k] = RowOf(k - Len(rows))
  <2>1. k - Len(rows) \in 1 .. n /\ k \in 1 .. Len(rows) + n /\ ~(k <= Len(rows))
    BY <1>1, <1>6, <1>7
  <2> QED BY <1>1, <1>4, <1>6, <2>1
<1> QED BY <1>1, <1>6, <1>7, <1>8

(***************************************************************************)
(* Types.                                                                  *)
(***************************************************************************)

LEMMA RowsGrow ==
  ASSUME NEW n \in Nat
  PROVE  RowsOf(n) \subseteq RowsOf(n + 1)
<1>1. 1 .. n \subseteq 1 .. n + 1
  OBVIOUS
<1>2. OldestOf(n) \subseteq OldestOf(n + 1)
  BY <1>1 DEF OldestOf
<1>3. \A o \in Outputs :
        [out : {o}, time : Nat, fields : [RulesOf(o) -> OldestOf(n)]]
          \subseteq [out : {o}, time : Nat, fields : [RulesOf(o) -> OldestOf(n + 1)]]
  BY <1>2
<1> QED BY <1>3 DEF RowsOf

LEMMA ReceiveDatabases ==
  ASSUME TypeInv, Started, Receive
  PROVE  /\ flows' \in Seq(Inputs) /\ Len(flows') = Len(flows) + 1
         /\ Len(flows) \in Nat
         /\ \A i \in 1 .. Len(flows) : flows'[i] = flows[i]
         /\ \/ timedbInitialized /\ db' = db
            \/ /\ ~timedbInitialized
               /\ \E t \in Nat : /\ t - (t % Step) > 0
                                 /\ db' = [r \in RuleIds |-> TimedbInit(db[r], t)]
         /\ db' \in [RuleIds -> DatabasesOf(Len(flows) + 1)]
         /\ rows' \in Seq(RowsOf(Len(flows) + 1))
<1>1. PICK f \in Inputs :
        /\ flows' = Append(flows, f)
        /\ db' = IF timedbInitialized THEN db
                 ELSE [r \in RuleIds |-> TimedbInit(db[r], Sec(f.first))]
  BY DEF Receive
<1>2. /\ flows' \in Seq(Inputs) /\ Len(flows') = Len(flows) + 1
      /\ Len(flows) \in Nat
      /\ \A i \in 1 .. Len(flows) : flows'[i] = flows[i]
  BY <1>1, AppendProperties DEF TypeInv
<1>3. Sec(f.first) \in Nat /\ Sec(f.first) - (Sec(f.first) % Step) > 0
  BY Seconds, Aligned
<1>4. db \in [RuleIds -> DatabasesOf(Len(flows) + 1)]
  BY <1>2, GrownType DEF TypeInv
<1>5. Len(flows) + 1 \in Nat
  BY <1>2
<1>6. \A r \in RuleIds : TimedbInit(db[r], Sec(f.first)) \in DatabasesOf(Len(flows) + 1)
  BY <1>3, <1>4, <1>5, InitType
<1>7. db' \in [RuleIds -> DatabasesOf(Len(flows) + 1)]
  BY <1>1, <1>4, <1>6
<1>8. rows' \in Seq(RowsOf(Len(flows) + 1))
  <2>1. rows' \in Seq(RowsOf(Len(flows)))
    BY DEF Receive, TypeInv
  <2>2. RowsOf(Len(flows)) \subseteq RowsOf(Len(flows) + 1)
    BY <1>2, RowsGrow
  <2> QED BY <2>1, <2>2
<1>9. timedbInitialized \in BOOLEAN
  BY DEF TypeInv
<1> QED BY <1>1, <1>2, <1>3, <1>7, <1>8, <1>9

LEMMA RestType ==
  ASSUME TypeInv, [Next]_vars
  PROVE  stop' \in BOOLEAN /\ pc' \in {"recv", "save", "flush", "exited", "crashed"}
BY DEF Next, Receive, Leave, SaveFails, Proceed, Save, SaveNeedsRollout, Flush, FlushCrashes,
       Signal, vars, TypeInv

LEMMA TypeStep ==
  ASSUME TypeInv, Started, [Next]_vars
  PROVE  TypeInv'
<1>1. CASE Receive
  <2>1. /\ flows' \in Seq(Inputs) /\ Len(flows') = Len(flows) + 1 /\ Len(flows) \in Nat
        /\ db' \in [RuleIds -> DatabasesOf(Len(flows'))]
        /\ rows' \in Seq(RowsOf(Len(flows')))
    BY <1>1, ReceiveDatabases
  <2>2. /\ timedbInitialized' = TRUE /\ at' = 1 /\ pc' = "save"
        /\ UNCHANGED <<stop, restarted, broken>>
    BY <1>1 DEF Receive
  <2>3. 1 \in RuleIds /\ 1 \in 0 .. Len(Rules)
    BY RulesGiven
  <2>4. Len(flows') > 0
    BY <2>1
  <2> QED BY <2>1, <2>2, <2>3, <2>4 DEF TypeInv, Working
<1>2. CASE Serve
  <2>1. /\ at \in RuleIds /\ db' \in [RuleIds -> DatabasesOf(Len(flows))]
        /\ restarted' \subseteq RuleIds
    BY <1>2, ServedDatabases
  <2>2. /\ UNCHANGED <<timedbInitialized, flows, rows, broken, stop>>
    BY <1>2, Served
  <2>3. pc = "save"
    BY <1>2 DEF Serve, Save, SaveNeedsRollout
  <2>4. \/ pc' = "recv" /\ at' = 0
        \/ pc' = "save" /\ at' = at + 1 /\ at # Len(Rules)
        \/ pc' = "flush" /\ at' = at
    BY <1>2 DEF Serve, Save, SaveNeedsRollout
  <2>5. at' \in 0 .. Len(Rules) /\ (Working' => at' \in RuleIds)
    BY <2>1, <2>4, RulesGiven DEF Working
  <2>6. Len(flows) > 0 /\ timedbInitialized
    BY <2>3 DEF TypeInv, Working
  <2>7. pc' \in {"recv", "save", "flush", "exited", "crashed"}
    BY <2>4
  <2> QED BY <2>1, <2>2, <2>5, <2>6, <2>7 DEF TypeInv
<1>3. CASE Flush
  <2>1. PICK n \in Outputs : Sent(n)
    BY <1>3, Flushed
  <2>2. /\ Working /\ pc' = "save"
        /\ UNCHANGED <<stop, at, timedbInitialized, flows, restarted>>
    BY <1>3, Flushed DEF Flush
  <2>3. rows' \in Seq(RowsOf(Len(flows)))
    BY <2>1, SentRows
  <2>4. \A r \in RuleIds : Roll(db[r]) \in DatabasesOf(Len(flows))
    BY RollType DEF TypeInv
  <2>5. db' \in [RuleIds -> DatabasesOf(Len(flows))]
    BY <2>1, <2>4 DEF Sent, TypeInv
  <2>6. broken' \in BOOLEAN
    BY <2>1 DEF Sent, TypeInv
  <2> QED BY <2>2, <2>3, <2>5, <2>6 DEF TypeInv, Working
<1>4. CASE Rest
  <2>1. /\ stop' \in BOOLEAN
        /\ pc' \in {"recv", "save", "flush", "exited", "crashed"}
        /\ UNCHANGED <<at, timedbInitialized, db, flows, rows, restarted, broken>>
        /\ Working' => Working
    BY <1>4, RestType DEF TypeInv, Rest
  <2> QED BY <2>1 DEF TypeInv
<1> QED BY <1>1, <1>2, <1>3, <1>4, Steps

(***************************************************************************)
(* The first initialisation.                                               *)
(***************************************************************************)

LEMMA FirstInit ==
  ASSUME NEW n \in Nat, NEW d \in DatabasesOf(n), NEW t \in Nat
  PROVE  LET e == TimedbInit(d, t) IN
         /\ e.begin = t - (t % Step) /\ e.end = t - (t % Step) + Size * Step
         /\ e.uniq = d.uniq
         /\ \A s \in Slots : /\ e.data[s].tree = d.data[s].tree
                             /\ e.data[s].ids = {} /\ e.data[s].count = 0
BY DEF TimedbInit, DatabasesOf, EmptyWindow

LEMMA StartedStep ==
  ASSUME TypeInv, Started, [Next]_vars
  PROVE  Started'
<1>1. CASE Receive
  <2>1. timedbInitialized'
    BY <1>1 DEF Receive
  <2>2. CASE timedbInitialized /\ db' = db
    BY <2>1, <2>2 DEF Started
  <2>3. CASE ~timedbInitialized
    <3>1. PICK t \in Nat : /\ t - (t % Step) > 0
                           /\ db' = [r \in RuleIds |-> TimedbInit(db[r], t)]
      BY <1>1, <2>3, ReceiveDatabases
    <3>2. \A r \in RuleIds : /\ TimedbInit(db[r], t).begin = t - (t % Step)
                             /\ TimedbInit(db[r], t).uniq = db[r].uniq
      BY FirstInit DEF TypeInv
    <3> QED BY <2>1, <3>1, <3>2 DEF Started
  <2> QED BY <1>1, <2>2, <2>3, ReceiveDatabases
<1>2. CASE Serve
  <2>1. timedbInitialized /\ timedbInitialized'
    BY <1>2, Served DEF Serve, Save, SaveNeedsRollout, TypeInv, Working
  <2>2. /\ \A r \in RuleIds \ {at} : db'[r] = db[r]
        /\ db'[at].begin > 0 /\ db'[at].uniq = db[at].uniq
    BY <1>2, ServedDatabases
  <2> QED BY <2>1, <2>2 DEF Started
<1>3. CASE Flush
  <2>1. PICK n \in Outputs : Sent(n)
    BY <1>3, Flushed
  <2>2. timedbInitialized /\ timedbInitialized'
    BY <1>3, Flushed DEF TypeInv
  <2>3. ASSUME NEW r \in RuleIds
        PROVE  db'[r].begin > 0 /\ db'[r].uniq = db[r].uniq
    <3>1. /\ Roll(db[r]).begin = db[r].begin + Step /\ Roll(db[r]).uniq = db[r].uniq
          /\ db[r].begin \in Nat /\ db[r].begin > 0
      BY <2>2, RollIs DEF TypeInv, Started, DatabasesOf
    <3>2. db'[r] = IF Rules[r].out <= n THEN Roll(db[r]) ELSE db[r]
      BY <2>1 DEF Sent
    <3> QED BY <3>1, <3>2, Sizes
  <2> QED BY <2>2, <2>3 DEF Started
<1>4. CASE Rest
  BY <1>4 DEF Rest, Started
<1> QED BY <1>1, <1>2, <1>3, <1>4, Steps

(***************************************************************************)
(* The rings, and the databases in step.                                   *)
(***************************************************************************)

LEMMA RingsStep ==
  ASSUME TypeInv, Started, Rings, [Next]_vars
  PROVE  Rings'
<1>1. CASE Receive
  <2>1. restarted' = restarted
    BY <1>1 DEF Receive
  <2>2. CASE timedbInitialized /\ db' = db
    BY <2>1, <2>2 DEF Rings
  <2>3. CASE ~timedbInitialized
    <3>1. PICK t \in Nat : db' = [r \in RuleIds |-> TimedbInit(db[r], t)]
      BY <1>1, <2>3, ReceiveDatabases
    <3>2. ASSUME NEW r \in RuleIds
          PROVE  RingOf(TimedbInit(db[r], t))
      <4>1. db[r] \in DatabasesOf(Len(flows)) /\ Len(flows) \in Nat
        BY DEF TypeInv
      <4>2. db[r].dataBegin = 0
        BY <2>3, CreateIs DEF Started
      <4> QED BY <4>1, <4>2, InitRing
    <3> QED BY <3>1, <3>2 DEF Rings
  <2> QED BY <1>1, <2>2, <2>3, ReceiveDatabases
<1>2. CASE Serve
  <2>1. timedbInitialized
    BY <1>2 DEF Serve, Save, SaveNeedsRollout, TypeInv, Working
  <2>2. /\ at \in RuleIds
        /\ \A r \in RuleIds \ {at} : db'[r] = db[r]
        /\ restarted \subseteq restarted'
        /\ at \notin restarted' => Unmoved(db[at], db'[at])
    BY <1>2, ServedDatabases
  <2>3. ASSUME at \notin restarted'
        PROVE  RingOf(db'[at])
    <3>1. RingOf(db[at]) /\ Unmoved(db[at], db'[at])
      BY <2>1, <2>2, <2>3 DEF Rings
    <3>2. db[at] \in DatabasesOf(Len(flows)) /\ Len(flows) \in Nat
      BY <2>2 DEF TypeInv
    <3> QED BY <3>1, <3>2, SameRing DEF Unmoved
  <2> QED BY <2>1, <2>2, <2>3 DEF Rings
<1>3. CASE Flush
  <2>1. PICK n \in Outputs : Sent(n)
    BY <1>3, Flushed
  <2>2. timedbInitialized /\ restarted' = restarted
    BY <1>3, Flushed DEF TypeInv
  <2>3. ASSUME NEW r \in RuleIds \ restarted
        PROVE  RingOf(db'[r])
    <3>1. db[r] \in DatabasesOf(Len(flows)) /\ Len(flows) \in Nat /\ RingOf(db[r])
      BY <2>2 DEF TypeInv, Rings
    <3>2. RingOf(Roll(db[r]))
      BY <3>1, RollRing
    <3>3. db'[r] = IF Rules[r].out <= n THEN Roll(db[r]) ELSE db[r]
      BY <2>1 DEF Sent
    <3> QED BY <3>1, <3>2, <3>3
  <2> QED BY <2>2, <2>3 DEF Rings
<1>4. CASE Rest
  BY <1>4 DEF Rest, Rings
<1> QED BY <1>1, <1>2, <1>3, <1>4, Steps

LEMMA TogetherStep ==
  ASSUME TypeInv, Started, Rings, Together, [Next]_vars
  PROVE  Together'
<1>1. CASE Receive
  <2>1. UNCHANGED <<restarted, broken, rows>>
    BY <1>1 DEF Receive
  <2>2. CASE timedbInitialized /\ db' = db
    BY <2>1, <2>2 DEF Together
  <2>3. CASE ~timedbInitialized
    <3>1. PICK t \in Nat : db' = [r \in RuleIds |-> TimedbInit(db[r], t)]
      BY <1>1, <2>3, ReceiveDatabases
    <3>2. \A r \in RuleIds : /\ db'[r].begin = t - (t % Step)
                             /\ db'[r].end = t - (t % Step) + Size * Step
      BY <3>1, FirstInit DEF TypeInv
    <3>3. rows' = <<>>
      BY <2>1, <2>3 DEF Started
    <3> QED BY <3>2, <3>3 DEF Together
  <2> QED BY <1>1, <2>2, <2>3, ReceiveDatabases
<1>2. CASE Serve
  <2>1. /\ at \in RuleIds
        /\ \A r \in RuleIds \ {at} : db'[r] = db[r]
        /\ restarted \subseteq restarted'
        /\ at \notin restarted' => Unmoved(db[at], db'[at])
    BY <1>2, ServedDatabases
  <2>2. rows' = rows /\ broken' = broken
    BY <1>2, Served
  <2>3. at \notin restarted' =>
          \A r \in RuleIds : db'[r].begin = db[r].begin /\ db'[r].end = db[r].end
    BY <2>1 DEF Unmoved
  <2> QED BY <2>1, <2>2, <2>3 DEF Together
<1>3. CASE Flush
  <2>1. PICK n \in Outputs : Sent(n)
    BY <1>3, Flushed
  <2>2. timedbInitialized /\ restarted' = restarted
    BY <1>3, Flushed DEF TypeInv
  <2>3. SUFFICES ASSUME restarted = {}, ~broken'
                 PROVE  /\ \A r, s \in RuleIds : /\ db'[r].begin = db'[s].begin
                                                 /\ db'[r].end = db'[s].end
                        /\ \A k \in DOMAIN rows' : \A r \in DOMAIN rows'[k].fields :
                             rows'[k].fields[r].time = rows'[k].time
    BY <2>2 DEF Together
  <2>4. ~broken /\ ~(n < Rules[Len(Rules)].out)
    BY <2>1, <2>3 DEF Sent
  <2>5. \A r, s \in RuleIds : db[r].begin = db[s].begin /\ db[r].end = db[s].end
    BY <2>3, <2>4 DEF Together
  <2>6. \A r \in RuleIds : Rules[r].out <= n
    BY <2>4, RulesGiven DEF Outputs
  <2>7. \A r \in RuleIds : /\ db'[r].begin = db[r].begin + Step
                           /\ db'[r].end = db[r].end + Step
    BY <2>1, <2>6, RollIs DEF Sent, TypeInv
  <2>8. \A r, s \in RuleIds : RollingData(db[r], 0).begin = RollingData(db[s], 0).begin
    BY <2>2, <2>3, <2>5 DEF Rings, RingOf
  <2>9. ASSUME NEW k \in DOMAIN rows'
        PROVE  \A r \in DOMAIN rows'[k].fields : rows'[k].fields[r].time = rows'[k].time
    <3>1. rows \in Seq(RowsOf(Len(flows))) /\ rows' \in Seq(RowsOf(Len(flows)))
      BY <2>1, SentRows DEF TypeInv
    <3>2. CASE k \in 1 .. Len(rows)
      <4>1. rows'[k] = rows[k] /\ k \in DOMAIN rows
        BY <2>1, <3>1, <3>2, SentRows
      <4>2. \A r \in DOMAIN rows[k].fields : rows[k].fields[r].time = rows[k].time
        BY <2>3, <2>4, <4>1 DEF Together
      <4> QED BY <4>1, <4>2
    <3>3. CASE k \in Len(rows) + 1 .. Len(rows')
      <4>1. k - Len(rows) \in Outputs /\ rows'[k] = RowOf(k - Len(rows))
        BY <2>1, <3>3, SentRows
      <4>2. PICK o \in Outputs : rows'[k] = RowOf(o)
        BY <4>1
      <4>3. Min(RulesOf(o)) \in RuleIds /\ \A r \in RulesOf(o) : r \in RuleIds
        BY FirstRule, RulesOfRules
      <4> QED BY <2>8, <4>2, <4>3, RowIs
    <3> QED BY <2>1, <3>1, <3>2, <3>3, SentRows
  <2> QED BY <2>5, <2>7, <2>9
<1>4. CASE Rest
  BY <1>4 DEF Rest, Together
<1> QED BY <1>1, <1>2, <1>3, <1>4, Steps

(***************************************************************************)
(* The records of an output.                                               *)
(***************************************************************************)

\* The flush adds one row for each of the first n outputs.
LEMMA SentOuts ==
  ASSUME TypeInv, NEW n \in Outputs, Sent(n)
  PROVE  /\ n \in Nat /\ Len(rows) \in Nat /\ DOMAIN rows = 1 .. Len(rows)
         /\ DOMAIN rows' = 1 .. Len(rows) + n /\ Len(rows') = Len(rows) + n
         /\ \A k \in 1 .. Len(rows) : rows'[k] = rows[k]
         /\ \A o \in 1 .. n : /\ rows'[Len(rows) + o] = RowOf(o)
                              /\ rows'[Len(rows) + o].out = o
<1>1. /\ n \in Nat /\ Len(rows) \in Nat
      /\ rows' \in Seq(RowsOf(Len(flows)))
      /\ Len(rows') = Len(rows) + n
      /\ \A k \in 1 .. Len(rows) : rows'[k] = rows[k]
      /\ \A k \in Len(rows) + 1 .. Len(rows') :
           k - Len(rows) \in Outputs /\ rows'[k] = RowOf(k - Len(rows))
  BY SentRows
<1>2. rows \in Seq(RowsOf(Len(flows)))
  BY DEF TypeInv
<1>3. ASSUME NEW o \in 1 .. n
      PROVE  rows'[Len(rows) + o] = RowOf(o) /\ rows'[Len(rows) + o].out = o
  <2>1. Len(rows) + o \in Len(rows) + 1 .. Len(rows') /\ (Len(rows) + o) - Len(rows) = o
    BY <1>1
  <2>2. o \in Outputs /\ rows'[Len(rows) + o] = RowOf(o)
    BY <1>1, <2>1
  <2> QED BY <2>2, RowIs
<1> QED BY <1>1, <1>2, <1>3

SuccessiveOf(o) ==
  /\ \A m, n \in DOMAIN rows : Neighbours(o, m, n) => rows[n].time = rows[m].time + Step
  /\ \A n : Last(o, n) => db[Min(RulesOf(o))].begin = rows[n].time + Step

\* An output the flush serves.
LEMMA SuccessiveSent ==
  ASSUME TypeInv, Rings, timedbInitialized, NEW n \in Outputs, Sent(n),
         NEW o \in Outputs, o <= n, RulesOf(o) \cap restarted = {}, SuccessiveOf(o)
  PROVE  SuccessiveOf(o)'
<1> DEFINE first == Min(RulesOf(o))
           L == Len(rows)
<1>1. /\ n \in Nat /\ L \in Nat /\ DOMAIN rows = 1 .. L
      /\ DOMAIN rows' = 1 .. L + n /\ Len(rows') = L + n
      /\ \A k \in 1 .. L : rows'[k] = rows[k]
      /\ \A p \in 1 .. n : rows'[L + p] = RowOf(p) /\ rows'[L + p].out = p
  BY SentOuts
<1>2. o \in Nat /\ o \in 1 .. n
  BY <1>1, RulesGiven DEF Outputs
<1>3. first \in RuleIds /\ Rules[first].out = o /\ first \notin restarted
  BY FirstRule, RulesOfRules
<1>4. db[first].begin \in Nat /\ db'[first].begin = db[first].begin + Step
  <2>1. db[first] \in DatabasesOf(Len(flows)) /\ Len(flows) \in Nat
    BY <1>3 DEF TypeInv
  <2>2. db'[first] = Roll(db[first])
    BY <1>3 DEF Sent
  <2> QED BY <2>1, <2>2, RollIs DEF DatabasesOf
<1>5. rows'[L + o].time = db[first].begin /\ rows'[L + o].out = o
  <2>1. RowOf(o).time = RollingData(db[first], 0).begin
    BY RowIs
  <2>2. RollingData(db[first], 0).begin = db[first].begin
    BY <1>3 DEF Rings, RingOf
  <2> QED BY <1>1, <1>2, <2>1, <2>2
<1> HIDE DEF L, first
<1>6. ASSUME NEW k \in DOMAIN rows', rows'[k].out = o
      PROVE  k \in 1 .. L \/ k = L + o
  <2>1. CASE k \in 1 .. L
    BY <2>1
  <2>2. CASE k \notin 1 .. L
    <3>1. k - L \in 1 .. n /\ L + (k - L) = k
      BY <1>1, <2>2
    <3>2. rows'[k].out = k - L
      BY <1>1, <3>1
    <3> QED BY <1>1, <1>6, <3>1, <3>2
  <2> QED BY <2>1, <2>2
<1>7. L + o \in DOMAIN rows'
  BY <1>1, <1>2
<1>8. ASSUME NEW m \in DOMAIN rows', NEW k \in DOMAIN rows', Neighbours(o, m, k)'
      PROVE  rows'[k].time = rows'[m].time + Step
  <2>1. /\ m < k /\ rows'[m].out = o /\ rows'[k].out = o
        /\ \A i \in m + 1 .. k - 1 : rows'[i].out # o
    BY <1>8 DEF Neighbours
  <2>2. m \in 1 .. L
    BY <1>1, <1>2, <1>6, <2>1
  <2>3. CASE k \in 1 .. L
    <3>1. \A i \in m + 1 .. k - 1 : rows'[i] = rows[i]
      BY <1>1, <2>2, <2>3
    <3>2. Neighbours(o, m, k)
      BY <1>1, <2>1, <2>2, <2>3, <3>1 DEF Neighbours
    <3>3. rows[k].time = rows[m].time + Step
      BY <1>1, <2>2, <2>3, <3>2 DEF SuccessiveOf
    <3> QED BY <1>1, <2>2, <2>3, <3>3
  <2>4. CASE k = L + o
    <3>1. \A i \in m + 1 .. L : rows[i].out # o
      <4>1. \A i \in m + 1 .. L : i \in m + 1 .. k - 1 /\ rows'[i] = rows[i]
        BY <1>1, <1>2, <2>2, <2>4
      <4> QED BY <2>1, <4>1
    <3>2. Last(o, m)
      BY <1>1, <2>1, <2>2, <3>1 DEF Last, L
    <3>3. db[first].begin = rows[m].time + Step
      BY <3>2 DEF SuccessiveOf, first
    <3> QED BY <1>1, <1>5, <2>2, <2>4, <3>3
  <2> QED BY <1>6, <2>1, <2>3, <2>4
<1>9. ASSUME NEW m, Last(o, m)'
      PROVE  db'[first].begin = rows'[m].time + Step
  <2>1. /\ m \in DOMAIN rows' /\ rows'[m].out = o
        /\ \A i \in m + 1 .. Len(rows') : rows'[i].out # o
    BY <1>9 DEF Last
  <2>2. ~(m < L + o)
    <3>1. m < L + o => L + o \in m + 1 .. Len(rows')
      BY <1>1, <1>2, <2>1
    <3> QED BY <1>5, <2>1, <3>1
  <2>3. m = L + o
    BY <1>1, <1>2, <1>6, <2>1, <2>2
  <2> QED BY <1>4, <1>5, <2>3
<1> QED BY <1>8, <1>9 DEF SuccessiveOf, first

\* An output a cut flush does not come to.
LEMMA SuccessiveUnsent ==
  ASSUME TypeInv, NEW n \in Outputs, Sent(n),
         NEW o \in Outputs, ~(o <= n), SuccessiveOf(o)
  PROVE  SuccessiveOf(o)'
<1> DEFINE first == Min(RulesOf(o))
           L == Len(rows)
<1>1. /\ n \in Nat /\ L \in Nat /\ DOMAIN rows = 1 .. L
      /\ DOMAIN rows' = 1 .. L + n /\ Len(rows') = L + n
      /\ \A k \in 1 .. L : rows'[k] = rows[k]
      /\ \A p \in 1 .. n : rows'[L + p].out = p
  BY SentOuts
<1>2. first \in RuleIds /\ Rules[first].out = o /\ o \in Nat
  BY FirstRule, RulesOfRules, RulesGiven DEF Outputs
<1>3. db'[first] = db[first]
  BY <1>2 DEF Sent
<1> HIDE DEF L, first
<1>4. ASSUME NEW k \in DOMAIN rows', rows'[k].out = o
      PROVE  k \in 1 .. L
  <2>1. k \notin 1 .. L => k - L \in 1 .. n /\ L + (k - L) = k
    BY <1>1
  <2>2. k \notin 1 .. L => rows'[k].out = k - L /\ k - L <= n
    BY <1>1, <2>1
  <2> QED BY <1>4, <2>2
<1>5. ASSUME NEW m \in DOMAIN rows', NEW k \in DOMAIN rows', Neighbours(o, m, k)'
      PROVE  rows'[k].time = rows'[m].time + Step
  <2>1. /\ m < k /\ rows'[m].out = o /\ rows'[k].out = o
        /\ \A i \in m + 1 .. k - 1 : rows'[i].out # o
    BY <1>5 DEF Neighbours
  <2>2. m \in 1 .. L /\ k \in 1 .. L
    BY <1>4, <2>1
  <2>3. \A i \in m + 1 .. k - 1 : rows'[i] = rows[i]
    BY <1>1, <2>2
  <2>4. Neighbours(o, m, k)
    BY <1>1, <2>1, <2>2, <2>3 DEF Neighbours
  <2>5. rows[k].time = rows[m].time + Step
    BY <1>1, <2>2, <2>4 DEF SuccessiveOf
  <2> QED BY <1>1, <2>2, <2>5
<1>6. ASSUME NEW m, Last(o, m)'
      PROVE  db'[first].begin = rows'[m].time + Step
  <2>1. /\ m \in DOMAIN rows' /\ rows'[m].out = o
        /\ \A i \in m + 1 .. Len(rows') : rows'[i].out # o
    BY <1>6 DEF Last
  <2>2. m \in 1 .. L
    BY <1>4, <2>1
  <2>3. \A i \in m + 1 .. L : i \in m + 1 .. Len(rows') /\ rows'[i] = rows[i]
    BY <1>1, <2>2
  <2>4. Last(o, m)
    BY <1>1, <2>1, <2>2, <2>3 DEF Last, L
  <2> QED BY <1>1, <1>3, <2>2, <2>4 DEF SuccessiveOf, first
<1> QED BY <1>5, <1>6 DEF SuccessiveOf, first

LEMMA SuccessiveStep ==
  ASSUME TypeInv, Started, Rings, Successive, [Next]_vars
  PROVE  Successive'
<1>1. SUFFICES ASSUME NEW o \in Outputs, RulesOf(o) \cap restarted' = {}
               PROVE  SuccessiveOf(o)'
  BY DEF Successive, SuccessiveOf
<1>2. RulesOf(o) \cap restarted = {} => SuccessiveOf(o)
  BY DEF Successive, SuccessiveOf
<1>3. Min(RulesOf(o)) \in RuleIds /\ Min(RulesOf(o)) \in RulesOf(o)
  BY FirstRule, RulesOfRules
<1>4. ASSUME rows' = rows, db'[Min(RulesOf(o))].begin = db[Min(RulesOf(o))].begin,
             SuccessiveOf(o)
      PROVE  SuccessiveOf(o)'
  BY <1>4 DEF SuccessiveOf, Neighbours, Last
<1>5. CASE Receive
  <2>1. rows' = rows /\ restarted' = restarted
    BY <1>5 DEF Receive
  <2>2. CASE timedbInitialized /\ db' = db
    BY <1>1, <1>2, <1>4, <2>1, <2>2
  <2>3. CASE ~timedbInitialized
    BY <2>1, <2>3 DEF Started, SuccessiveOf, Neighbours, Last
  <2> QED BY <1>5, <2>2, <2>3, ReceiveDatabases
<1>6. CASE Serve
  <2>1. /\ \A r \in RuleIds \ {at} : db'[r] = db[r]
        /\ restarted \subseteq restarted'
        /\ at \notin restarted' => Unmoved(db[at], db'[at])
    BY <1>6, ServedDatabases
  <2>2. rows' = rows
    BY <1>6, Served
  <2>3. db'[Min(RulesOf(o))].begin = db[Min(RulesOf(o))].begin
    BY <1>1, <1>3, <2>1 DEF Unmoved
  <2> QED BY <1>1, <1>2, <1>4, <2>1, <2>2, <2>3
<1>7. CASE Flush
  <2>1. PICK n \in Outputs : Sent(n)
    BY <1>7, Flushed
  <2>2. timedbInitialized /\ restarted' = restarted
    BY <1>7, Flushed DEF TypeInv
  <2> QED BY <1>1, <1>2, <2>1, <2>2, SuccessiveSent, SuccessiveUnsent
<1>8. CASE Rest
  <2>1. rows' = rows /\ db' = db /\ restarted' = restarted
    BY <1>8 DEF Rest
  <2> QED BY <1>1, <1>2, <1>4, <2>1
<1> QED BY <1>5, <1>6, <1>7, <1>8, Steps

(***************************************************************************)
(* The counters.                                                           *)
(***************************************************************************)

LEMMA IdsKnown ==
  ASSUME TypeInv, NEW r \in RuleIds, NEW s \in Slots
  PROVE  db[r].data[s] \in WindowsOf(Len(flows)) /\ db[r].data[s].ids \subseteq 1 .. Len(flows)
BY DEF TypeInv, DatabasesOf, WindowsOf

LEMMA FreshStep ==
  ASSUME TypeInv, Started, Fresh, [Next]_vars
  PROVE  Fresh'
<1>1. CASE Receive
  <2>1. Len(flows) \in Nat /\ Len(flows') = Len(flows) + 1
    BY <1>1, ReceiveDatabases
  <2>2. ASSUME NEW r \in RuleIds, NEW s \in Slots
        PROVE  Len(flows') \notin db'[r].data[s].ids
    <3>1. Len(flows') \notin db[r].data[s].ids
      BY <2>1, IdsKnown
    <3>2. CASE db' = db
      BY <3>1, <3>2
    <3>3. CASE \E t \in Nat : db' = [x \in RuleIds |-> TimedbInit(db[x], t)]
      <4>1. PICK t \in Nat : db'[r] = TimedbInit(db[r], t)
        BY <3>3
      <4> QED BY <2>1, <4>1, FirstInit DEF TypeInv
    <3> QED BY <1>1, <3>2, <3>3, ReceiveDatabases
  <2> QED BY <2>2 DEF Fresh
<1>2. CASE Serve
  <2>1. /\ at \in RuleIds
        /\ \A r \in RuleIds \ {at} : db'[r] = db[r]
    BY <1>2, ServedDatabases
  <2>2. flows' = flows
    BY <1>2, Served
  <2>3. Working
    BY <1>2 DEF Serve, Save, SaveNeedsRollout, Working
  <2>4. CASE Save
    <3>1. ASSUME Working', NEW r \in RuleIds, at' <= r
          PROVE  db'[r] = db[r] /\ at <= r
      <4>1. at' = at + 1
        BY <2>4, <3>1 DEF Save, Working
      <4>2. at \in Nat /\ r \in Nat
        BY <2>1, RulesGiven
      <4> QED BY <2>1, <3>1, <4>1, <4>2
    <3> QED BY <2>2, <2>3, <3>1 DEF Fresh
  <2>5. CASE SaveNeedsRollout
    <3>1. at' = at /\ db' = [db EXCEPT ![at] = Prepared(db[at], Current)]
      BY <2>5 DEF SaveNeedsRollout
    <3>2. db[at] \in DatabasesOf(Len(flows)) /\ db[at].begin > 0 /\ Current \in Inputs
          /\ Len(flows) \in Nat
      BY <2>1, <2>3, CurrentIs DEF TypeInv, Started
    <3>3. db'[at] = Prepared(db[at], Current)
      BY <2>1, <3>1 DEF TypeInv
    <3>4. \A s \in Slots : db'[at].data[s] = db[at].data[s] \/ db'[at].data[s].ids = {}
      BY <3>2, <3>3, PreparedIs
    <3>5. at \in Nat
      BY <2>1, RulesGiven
    <3>6. \A s \in Slots : Len(flows) \notin db'[at].data[s].ids
      BY <2>1, <2>3, <3>4, <3>5 DEF Fresh
    <3> QED BY <2>1, <2>2, <2>3, <3>1, <3>6 DEF Fresh
  <2> QED BY <1>2, <2>4, <2>5 DEF Serve
<1>3. CASE Flush
  <2>1. PICK n \in Outputs : Sent(n)
    BY <1>3, Flushed
  <2>2. Working /\ at' = at /\ flows' = flows
    BY <1>3, Flushed
  <2>3. ASSUME NEW r \in RuleIds, NEW s \in Slots
        PROVE  db'[r].data[s] = db[r].data[s] \/ db'[r].data[s].ids = {}
    <3>1. db'[r] = IF Rules[r].out <= n THEN Roll(db[r]) ELSE db[r]
      BY <2>1 DEF Sent
    <3>2. Roll(db[r]).data[s] = IF s = SlotOf(db[r], 0) THEN EmptyWindow(db[r].end, {})
                                                       ELSE db[r].data[s]
      BY RollIs DEF TypeInv
    <3>3. EmptyWindow(db[r].end, {}).ids = {}
      BY DEF EmptyWindow
    <3> QED BY <3>1, <3>2, <3>3
  <2> QED BY <2>2, <2>3 DEF Fresh
<1>4. CASE Rest
  BY <1>4 DEF Rest, Fresh
<1> QED BY <1>1, <1>2, <1>3, <1>4, Steps

\* The counters of a window, and of what a record has of one, over the flows fl.
CountersIn(w, uniq, fl) ==
  IF uniq THEN w.tree = {fl[i].key : i \in w.ids} ELSE w.count = Cardinality(w.ids)
CountIn(x, uniq, fl) ==
  x.count = IF uniq THEN Cardinality({fl[i].key : i \in x.ids}) ELSE Cardinality(x.ids)

WindowsCounted ==
  \A r \in RuleIds \ restarted : \A s \in Slots :
    CountersIn(db[r].data[s], Rules[r].uniq, flows)
RowsCounted ==
  \A r \in RuleIds \ restarted : \A n \in DOMAIN rows :
    r \in DOMAIN rows[n].fields => CountIn(rows[n].fields[r], Rules[r].uniq, flows)

LEMMA CountedIs ==
  /\ CountedOnce <=> WindowsCounted /\ RowsCounted
  /\ CountedOnce' <=> WindowsCounted' /\ RowsCounted'
BY DEF CountedOnce, CountersOf, WindowsCounted, RowsCounted, CountersIn, CountIn

\* Flows that come later change nothing.
LEMMA LaterFlows ==
  ASSUME NEW n \in Nat, NEW fl, NEW gl, \A i \in 1 .. n : gl[i] = fl[i]
  PROVE  /\ \A w, u : w.ids \subseteq 1 .. n /\ CountersIn(w, u, fl) => CountersIn(w, u, gl)
         /\ \A x, u : x.ids \subseteq 1 .. n /\ CountIn(x, u, fl) => CountIn(x, u, gl)
<1>1. ASSUME NEW ids, ids \subseteq 1 .. n
      PROVE  {fl[i].key : i \in ids} = {gl[i].key : i \in ids}
  BY <1>1
<1> QED BY <1>1 DEF CountersIn, CountIn

\* An empty window counts nothing.
LEMMA NothingCounted ==
  ASSUME NEW w, w.ids = {}, w.tree = {}, w.count = 0, NEW u, NEW fl
  PROVE  CountersIn(w, u, fl)
BY FS_EmptySet DEF CountersIn

\* A flow that is not yet in a window, saved in it, is counted once.
LEMMA SavedCounted ==
  ASSUME NEW n \in Nat, NEW w \in WindowsOf(n), NEW d, NEW i \in 1 .. n, i \notin w.ids,
         NEW fl, CountersIn(w, d.uniq, fl)
  PROVE  CountersIn(Saved(d, w, fl[i], i), d.uniq, fl)
<1>1. /\ Saved(d, w, fl[i], i).count = IF d.uniq THEN w.count ELSE w.count + 1
      /\ Saved(d, w, fl[i], i).tree = IF d.uniq THEN w.tree \cup {fl[i].key} ELSE w.tree
      /\ Saved(d, w, fl[i], i).ids = w.ids \cup {i}
  BY DEF Saved, WindowsOf
<1>2. CASE d.uniq
  <2>1. {fl[j].key : j \in w.ids \cup {i}} = {fl[j].key : j \in w.ids} \cup {fl[i].key}
    OBVIOUS
  <2> QED BY <1>1, <1>2, <2>1 DEF CountersIn
<1>3. CASE ~d.uniq
  <2>1. IsFiniteSet(w.ids)
    <3>1. w.ids \subseteq 1 .. n
      BY DEF WindowsOf
    <3>2. IsFiniteSet(1 .. n)
      BY FS_Interval
    <3> QED BY <3>1, <3>2, FS_Subset
  <2>2. Cardinality(w.ids \cup {i}) = Cardinality(w.ids) + 1
    BY <2>1, FS_AddElement
  <2> QED BY <1>1, <1>3, <2>2 DEF CountersIn
<1> QED BY <1>2, <1>3

\* What a roll hands out has the count of its window.
LEMMA OldestCounted ==
  ASSUME NEW n \in Nat, NEW d \in DatabasesOf(n), NEW fl,
         \A s \in Slots : CountersIn(d.data[s], d.uniq, fl)
  PROVE  CountIn(Oldest(d), d.uniq, fl)
<1>1. CountersIn(RollingData(d, 0), d.uniq, fl)
  BY SlotIsSlot, Sizes DEF RollingData, DatabasesOf
<1>2. /\ Oldest(d).ids = RollingData(d, 0).ids
      /\ Oldest(d).count = IF d.uniq THEN Cardinality(RollingData(d, 0).tree)
                                     ELSE RollingData(d, 0).count
  BY DEF Oldest
<1> QED BY <1>1, <1>2 DEF CountersIn, CountIn

LEMMA WindowsCountedStep ==
  ASSUME TypeInv, Started, Fresh, WindowsCounted, [Next]_vars
  PROVE  WindowsCounted'
<1>1. CASE Receive
  <2>1. /\ Len(flows) \in Nat /\ \A i \in 1 .. Len(flows) : flows'[i] = flows[i]
    BY <1>1, ReceiveDatabases
  <2>2. restarted' = restarted
    BY <1>1 DEF Receive
  <2>3. ASSUME NEW r \in RuleIds \ restarted, NEW s \in Slots
        PROVE  CountersIn(db'[r].data[s], Rules[r].uniq, flows')
    <3>1. CASE db' = db
      <4>1. CountersIn(db[r].data[s], Rules[r].uniq, flows)
        BY DEF WindowsCounted
      <4>2. db[r].data[s].ids \subseteq 1 .. Len(flows)
        BY IdsKnown
      <4>3. CountersIn(db[r].data[s], Rules[r].uniq, flows')
        BY <2>1, <4>1, <4>2, LaterFlows
      <4> QED BY <3>1, <4>3
    <3>2. CASE ~timedbInitialized
      <4>1. PICK t \in Nat : db' = [x \in RuleIds |-> TimedbInit(db[x], t)]
        BY <1>1, <3>2, ReceiveDatabases
      <4>2. db[r] \in DatabasesOf(Len(flows)) /\ db'[r] = TimedbInit(db[r], t)
        BY <4>1 DEF TypeInv
      <4>3. db[r].data[s].tree = {}
        BY <3>2, CreateIs DEF Started
      <4>4. /\ db'[r].data[s].ids = {} /\ db'[r].data[s].tree = {}
            /\ db'[r].data[s].count = 0
        BY <2>1, <4>2, <4>3, FirstInit
      <4> QED BY <4>4, NothingCounted
    <3> QED BY <1>1, <3>1, <3>2, ReceiveDatabases
  <2> QED BY <2>2, <2>3 DEF WindowsCounted
<1>2. CASE Serve
  <2> DEFINE d == Prepared(db[at], Current)
             n == Len(flows)
  <2>1. /\ at \in RuleIds /\ d \in DatabasesOf(n)
        /\ \/ db' = [db EXCEPT ![at] = SaveData(d, Current, n)]
           \/ db' = [db EXCEPT ![at] = d]
        /\ restarted' = IF Inactive(db[at], Current) THEN restarted \cup {at}
                                                     ELSE restarted
        /\ flows' = flows
    BY <1>2, Served
  <2>2. Working
    BY <1>2 DEF Serve, Save, SaveNeedsRollout, Working
  <2>3. Current \in Inputs /\ n \in Nat /\ n \in 1 .. n /\ Current = flows[n]
    BY <2>2, CurrentIs DEF Current
  <2>4. db[at] \in DatabasesOf(n) /\ db[at].begin > 0
    BY <2>1, <2>2 DEF TypeInv, Started
  <2>5. ASSUME NEW r \in RuleIds \ restarted', r # at
        PROVE  db'[r] = db[r] /\ r \notin restarted
    BY <2>1, <2>5 DEF TypeInv
  <2>6. ASSUME at \notin restarted', NEW s \in Slots
        PROVE  CountersIn(db'[at].data[s], Rules[at].uniq, flows)
    <3>1. ~Inactive(db[at], Current) /\ at \notin restarted
      BY <2>1, <2>6
    <3>2. d.data = db[at].data /\ d.uniq = Rules[at].uniq
      BY <2>1, <2>3, <2>4, <3>1, PreparedIs DEF Started
    <3>3. CountersIn(db[at].data[s], Rules[at].uniq, flows)
      BY <2>1, <3>1 DEF WindowsCounted
    <3>4. n \notin db[at].data[s].ids
      <4>1. at <= at
        BY <2>1, RulesGiven
      <4> QED BY <2>1, <2>2, <4>1 DEF Fresh
    <3> HIDE DEF d, n
    <3>5. d.data[s] \in WindowsOf(n)
      BY <2>1 DEF DatabasesOf
    <3>6. CountersIn(Saved(d, d.data[s], flows[n], n), Rules[at].uniq, flows)
      BY <2>3, <3>2, <3>3, <3>4, <3>5, SavedCounted
    <3>7. SaveData(d, Current, n).data[s] = IF Touches(d.data[s], Current)
                                            THEN Saved(d, d.data[s], Current, n)
                                            ELSE d.data[s]
      BY <2>1, <2>3, SaveDataIs
    <3>8. db'[at] = SaveData(d, Current, n) \/ db'[at] = d
      BY <2>1 DEF TypeInv
    <3>9. CASE db'[at] = d
      BY <3>2, <3>3, <3>9
    <3>10. CASE db'[at] = SaveData(d, Current, n)
      BY <2>3, <3>2, <3>3, <3>6, <3>7, <3>10
    <3> QED BY <3>8, <3>9, <3>10
  <2> QED BY <2>1, <2>5, <2>6 DEF WindowsCounted
<1>3. CASE Flush
  <2>1. PICK n \in Outputs : Sent(n)
    BY <1>3, Flushed
  <2>2. flows' = flows /\ restarted' = restarted
    BY <1>3, Flushed
  <2>3. ASSUME NEW r \in RuleIds \ restarted, NEW s \in Slots
        PROVE  CountersIn(db'[r].data[s], Rules[r].uniq, flows)
    <3>1. db'[r] = IF Rules[r].out <= n THEN Roll(db[r]) ELSE db[r]
      BY <2>1 DEF Sent
    <3>2. Roll(db[r]).data[s] = IF s = SlotOf(db[r], 0) THEN EmptyWindow(db[r].end, {})
                                                       ELSE db[r].data[s]
      BY RollIs DEF TypeInv
    <3>3. CountersIn(db[r].data[s], Rules[r].uniq, flows)
      BY DEF WindowsCounted
    <3>4. CountersIn(EmptyWindow(db[r].end, {}), Rules[r].uniq, flows)
      <4>1. /\ EmptyWindow(db[r].end, {}).ids = {} /\ EmptyWindow(db[r].end, {}).tree = {}
            /\ EmptyWindow(db[r].end, {}).count = 0
        BY DEF EmptyWindow
      <4> QED BY <4>1, NothingCounted
    <3> QED BY <3>1, <3>2, <3>3, <3>4
  <2> QED BY <2>2, <2>3 DEF WindowsCounted
<1>4. CASE Rest
  BY <1>4 DEF Rest, WindowsCounted
<1> QED BY <1>1, <1>2, <1>3, <1>4, Steps

LEMMA FieldsKnown ==
  ASSUME TypeInv, NEW n \in DOMAIN rows, NEW r \in DOMAIN rows[n].fields
  PROVE  rows[n].fields[r].ids \subseteq 1 .. Len(flows)
<1>1. rows[n] \in RowsOf(Len(flows))
  BY DEF TypeInv
<1>2. PICK o \in Outputs :
        rows[n] \in [out : {o}, time : Nat, fields : [RulesOf(o) -> OldestOf(Len(flows))]]
  BY <1>1 DEF RowsOf
<1>3. rows[n].fields \in [RulesOf(o) -> OldestOf(Len(flows))]
  BY <1>2
<1>4. rows[n].fields[r] \in OldestOf(Len(flows))
  BY <1>3
<1> QED BY <1>4 DEF OldestOf

LEMMA RowsCountedStep ==
  ASSUME TypeInv, Started, WindowsCounted, RowsCounted, [Next]_vars
  PROVE  RowsCounted'
<1>1. CASE Receive
  <2>1. /\ Len(flows) \in Nat /\ \A i \in 1 .. Len(flows) : flows'[i] = flows[i]
    BY <1>1, ReceiveDatabases
  <2>2. rows' = rows /\ restarted' = restarted
    BY <1>1 DEF Receive
  <2>3. ASSUME NEW r \in RuleIds \ restarted, NEW n \in DOMAIN rows,
               r \in DOMAIN rows[n].fields
        PROVE  CountIn(rows[n].fields[r], Rules[r].uniq, flows')
    BY <2>1, <2>3, FieldsKnown, LaterFlows DEF RowsCounted
  <2> QED BY <2>2, <2>3 DEF RowsCounted
<1>2. CASE Serve
  <2>1. rows' = rows /\ flows' = flows /\ restarted \subseteq restarted'
    BY <1>2, Served, ServedDatabases
  <2> QED BY <2>1 DEF RowsCounted
<1>3. CASE Flush
  <2>1. PICK n \in Outputs : Sent(n)
    BY <1>3, Flushed
  <2>2. flows' = flows /\ restarted' = restarted
    BY <1>3, Flushed
  <2>3. /\ rows \in Seq(RowsOf(Len(flows))) /\ rows' \in Seq(RowsOf(Len(flows)))
        /\ \A k \in 1 .. Len(rows) : rows'[k] = rows[k]
        /\ \A k \in Len(rows) + 1 .. Len(rows') : \E o \in Outputs : rows'[k] = RowOf(o)
    BY <2>1, SentRows DEF TypeInv
  <2>4. ASSUME NEW r \in RuleIds \ restarted, NEW k \in DOMAIN rows',
               r \in DOMAIN rows'[k].fields
        PROVE  CountIn(rows'[k].fields[r], Rules[r].uniq, flows)
    <3>1. CASE k \in 1 .. Len(rows)
      BY <2>3, <2>4, <3>1 DEF RowsCounted
    <3>2. CASE k \in Len(rows) + 1 .. Len(rows')
      <4>1. PICK o \in Outputs : rows'[k] = RowOf(o)
        BY <2>3, <3>2
      <4>2. rows'[k].fields[r] = Oldest(db[r])
        BY <2>4, <4>1, RowIs
      <4>3. db[r] \in DatabasesOf(Len(flows)) /\ Len(flows) \in Nat
            /\ db[r].uniq = Rules[r].uniq
        BY DEF TypeInv, Started
      <4>4. \A s \in Slots : CountersIn(db[r].data[s], db[r].uniq, flows)
        BY <4>3 DEF WindowsCounted
      <4>5. CountIn(Oldest(db[r]), db[r].uniq, flows)
        BY <4>3, <4>4, OldestCounted
      <4> QED BY <4>2, <4>3, <4>5
    <3> QED BY <2>3, <3>1, <3>2
  <2> QED BY <2>2, <2>4 DEF RowsCounted
<1>4. CASE Rest
  BY <1>4 DEF Rest, RowsCounted
<1> QED BY <1>1, <1>2, <1>3, <1>4, Steps

(***************************************************************************)
(* The theorems.                                                           *)
(***************************************************************************)

LEMMA Initial == Init => ScalarInv
<1> SUFFICES ASSUME Init
             PROVE  ScalarInv
  OBVIOUS
<1>1. flows = <<>> /\ rows = <<>> /\ Len(flows) = 0 /\ Len(rows) = 0
  BY EmptySeq DEF Init
<1>2. db = [r \in RuleIds |-> Create(Rules[r].uniq)] /\ ~timedbInitialized
      /\ restarted = {} /\ ~Working
  BY DEF Init, Working
<1>3. db \in [RuleIds -> DatabasesOf(Len(flows))]
  BY <1>1, <1>2, RulesGiven, CreateType
<1>4. TypeInv
  <2>1. 0 \in 0 .. Len(Rules)
    BY RulesGiven
  <2>2. flows \in Seq(Inputs) /\ rows \in Seq(RowsOf(Len(flows)))
    BY <1>1, EmptySeq
  <2> QED BY <1>2, <1>3, <2>1, <2>2 DEF Init, TypeInv
<1>5. Started
  BY <1>1, <1>2, CreateIs DEF Started
<1>6. Rings /\ Fresh
  BY <1>2 DEF Rings, Fresh
<1>7. Together
  BY <1>1, <1>2, CreateIs DEF Together
<1>8. Successive
  BY <1>1 DEF Successive, Neighbours, Last
<1>9. CountedOnce
  <2>1. \A r \in RuleIds : \A s \in Slots :
          CountersIn(db[r].data[s], Rules[r].uniq, flows)
    BY <1>2, CreateIs, NothingCounted
  <2> QED BY <1>1, <2>1, CountedIs DEF WindowsCounted, RowsCounted
<1> QED BY <1>4, <1>5, <1>6, <1>7, <1>8, <1>9 DEF ScalarInv

\* What the proofs rest on holds throughout.
LEMMA Preserved == ScalarInv /\ [Next]_vars => ScalarInv'
<1> SUFFICES ASSUME ScalarInv, [Next]_vars
             PROVE  ScalarInv'
  OBVIOUS
<1>1. TypeInv /\ Started /\ Rings /\ Together /\ Successive /\ Fresh
      /\ WindowsCounted /\ RowsCounted
  BY CountedIs DEF ScalarInv
<1>2. TypeInv' /\ Started' /\ Rings'
  BY <1>1, TypeStep, StartedStep, RingsStep
<1>3. Together' /\ Successive' /\ Fresh'
  BY <1>1, TogetherStep, SuccessiveStep, FreshStep
<1>4. CountedOnce'
  BY <1>1, WindowsCountedStep, RowsCountedStep, CountedIs
<1> QED BY <1>2, <1>3, <1>4 DEF ScalarInv

THEOREM Invariant == Spec => []ScalarInv
<1>1. Init => ScalarInv
  BY Initial
<1> QED BY <1>1, Preserved, PTL DEF Spec

LEMMA TypesCorrect == TypeInv => TypeOK
<1> SUFFICES ASSUME TypeInv
             PROVE  TypeOK
  OBVIOUS
<1>1. ASSUME NEW r \in RuleIds
      PROVE  /\ db[r].begin \in Nat /\ db[r].end \in Nat
             /\ db[r].dataBegin \in Slots
             /\ db[r].initialized \in BOOLEAN
             /\ \A s \in Slots : db[r].data[s] \in WindowType
  <2>1. db[r] \in DatabasesOf(Len(flows))
    BY DEF TypeInv
  <2>2. WindowsOf(Len(flows)) \subseteq WindowType
    BY DEF WindowsOf, Trees, KeysOf, WindowType
  <2> QED BY <2>1, <2>2 DEF DatabasesOf
<1>2. ASSUME NEW n \in DOMAIN rows, NEW r \in DOMAIN rows[n].fields
      PROVE  rows[n].fields[r] \in OldestType
  <2>1. rows[n] \in RowsOf(Len(flows))
    BY DEF TypeInv
  <2>2. PICK o \in Outputs :
          rows[n] \in [out : {o}, time : Nat, fields : [RulesOf(o) -> OldestOf(Len(flows))]]
    BY <2>1 DEF RowsOf
  <2>3. rows[n].fields \in [RulesOf(o) -> OldestOf(Len(flows))]
    BY <2>2
  <2> QED BY <2>3 DEF OldestOf, OldestType
<1> QED BY <1>1, <1>2 DEF TypeInv, TypeOK

\* The databases of all rules cover the same time, and the fields of a record
\* belong to its TIME, however flushes and retries of a save follow one another,
\* until a database is initialised again or a send error cuts a flush short.
THEOREM InStepCorrect == Spec => []InStep
<1>1. ScalarInv => InStep
  BY TypesCorrect DEF ScalarInv, InStep, Together
<1> QED BY <1>1, Invariant, PTL

\* The rings are in order, and no window of an output is sent twice or skipped,
\* also when a send error cuts flushes short, until a database of the output is
\* initialised again.
THEOREM RowsContiguousCorrect == Spec => []RowsContiguous
<1>1. ScalarInv => RowsContiguous
  <2> SUFFICES ASSUME ScalarInv
               PROVE  RowsContiguous
    OBVIOUS
  <2>1. RingInOrder
    BY DEF ScalarInv, Rings, RingOf, RingInOrder
  <2>2. ASSUME NEW o \in Outputs, RulesOf(o) \cap restarted = {},
               NEW m \in DOMAIN rows, NEW n \in DOMAIN rows, Neighbours(o, m, n)
        PROVE  rows[n].time = rows[m].time + Step
    BY <2>2 DEF ScalarInv, Successive
  <2> QED BY <2>1, <2>2 DEF RowsContiguous, Neighbours
<1> QED BY <1>1, Invariant, PTL

\* The counters of every window, and those of every record sent, are those of
\* the flows saved in it, each taken once, however often its save was tried.
THEOREM CountedOnceCorrect == Spec => []CountedOnce
<1>1. ScalarInv => CountedOnce
  BY DEF ScalarInv
<1> QED BY <1>1, Invariant, PTL

(***************************************************************************)
(* Sums of a function over a finite set (SumFunctionOnSet).                *)
(***************************************************************************)

\* A set of naturals has a least element.
LEMMA Least ==
  ASSUME NEW S, S \subseteq Nat, S # {}
  PROVE  \E x \in S : \A y \in S : x <= y
<1>1. IsWellFoundedOn({ss \in Nat \X Nat : ss[1] < ss[2]}, Nat)
  BY NatLessThanWellFounded DEF OpToRel
<1>2. PICK x \in S : \A y \in S : ~(<<y, x>> \in {ss \in Nat \X Nat : ss[1] < ss[2]})
  BY <1>1, WFMin
<1>3. ASSUME NEW y \in S PROVE x <= y
  <2>1. x \in Nat /\ y \in Nat /\ ~(x > y)
    BY <1>2
  <2> QED BY <2>1
<1> QED BY <1>3

\* What holds of 0 and goes on from each natural to the next holds of all.
LEMMA Climb ==
  ASSUME NEW P, 0 \in P, NEW n \in Nat, \A k \in Nat : k < n /\ k \in P => k + 1 \in P
  PROVE  n \in P
<1> DEFINE Bad == {k \in 0 .. n : k \notin P}
<1> SUFFICES ASSUME Bad # {} PROVE FALSE
  <2>1. n \in 0 .. n
    OBVIOUS
  <2> QED BY <2>1
<1>1. Bad \subseteq Nat
  OBVIOUS
<1>2. PICK k \in Bad : \A j \in Bad : k <= j
  BY <1>1, Least
<1>3. k \in Nat /\ k <= n /\ k \notin P /\ k # 0
  BY <1>2
<1>4. k - 1 \in Nat /\ k - 1 < n /\ k - 1 \in 0 .. n /\ (k - 1) + 1 = k /\ ~(k <= k - 1)
  BY <1>3
<1>5. k - 1 \in P
  BY <1>2, <1>4
<1> QED BY <1>3, <1>4, <1>5

LEMMA Fewer ==
  ASSUME NEW k \in Nat, NEW T, IsFiniteSet(T), Cardinality(T) = k + 1, NEW x \in T
  PROVE  Cardinality(T \ {x}) = k
<1>1. Cardinality(T \ {x}) = Cardinality(T) - 1
  BY FS_RemoveElement
<1> QED BY <1>1

\* A family of subsets with the empty one that is closed under adding an element
\* has them all.
LEMMA Build ==
  ASSUME NEW S, IsFiniteSet(S), NEW B, {} \in B,
         \A T \in SUBSET S : \A x \in S \ T : T \in B => T \cup {x} \in B
  PROVE  \A T \in SUBSET S : T \in B
<1> DEFINE P == {k \in Nat : \A T \in SUBSET S : Cardinality(T) = k => T \in B}
<1>1. \A T \in SUBSET S : IsFiniteSet(T) /\ Cardinality(T) \in Nat
  BY FS_Subset, FS_CardinalityType
<1>2. 0 \in P
  BY <1>1, FS_EmptySet
<1>3. ASSUME NEW k \in Nat, k \in P
      PROVE  k + 1 \in P
  <2>1. ASSUME NEW T \in SUBSET S, Cardinality(T) = k + 1
        PROVE  T \in B
    <3>1. T # {} /\ IsFiniteSet(T)
      <4> HIDE DEF P
      <4> QED BY <1>1, <2>1, FS_EmptySet
    <3>2. PICK x \in T : TRUE
      BY <3>1
    <3>3. Cardinality(T \ {x}) = k
      <4> HIDE DEF P
      <4> QED BY <2>1, <3>1, <3>2, Fewer
    <3>4. T \ {x} \in B /\ x \in S \ (T \ {x}) /\ (T \ {x}) \cup {x} = T
      BY <1>3, <3>3
    <3> QED BY <3>4
  <2> QED BY <1>3, <2>1
<1> HIDE DEF P
<1>4. \A k \in Nat : k \in P
  BY <1>2, <1>3, Climb
<1> QED BY <1>1, <1>4 DEF P

\* A table of the sums over the subsets in G.
Pick(s) == CHOOSE x \in s : TRUE
TableOn(f, G, g) ==
  g = [s \in G |-> IF s = {} THEN 0 ELSE f[Pick(s)] + g[s \ {Pick(s)}]]

LEMMA TablesAgree ==
  ASSUME NEW S, IsFiniteSet(S), NEW T \in SUBSET S, NEW f, NEW g, NEW h,
         TableOn(f, SUBSET S, g), TableOn(f, SUBSET T, h)
  PROVE  h[T] = g[T]
<1> DEFINE P == {k \in Nat : \A s \in SUBSET T : Cardinality(s) = k => h[s] = g[s]}
<1>1. \A s \in SUBSET T : IsFiniteSet(s) /\ Cardinality(s) \in Nat
  BY FS_Subset, FS_CardinalityType
<1>2. ASSUME NEW s \in SUBSET T
      PROVE  /\ g[s] = IF s = {} THEN 0 ELSE f[Pick(s)] + g[s \ {Pick(s)}]
             /\ h[s] = IF s = {} THEN 0 ELSE f[Pick(s)] + h[s \ {Pick(s)}]
  BY DEF TableOn
<1>3. 0 \in P
  BY <1>1, <1>2, FS_EmptySet
<1>4. ASSUME NEW k \in Nat, k \in P
      PROVE  k + 1 \in P
  <2>1. ASSUME NEW s \in SUBSET T, Cardinality(s) = k + 1
        PROVE  h[s] = g[s]
    <3>1. s # {}
      BY <2>1, FS_EmptySet
    <3>2. Pick(s) \in s
      BY <3>1 DEF Pick
    <3>3. Cardinality(s \ {Pick(s)}) = k /\ s \ {Pick(s)} \in SUBSET T
      BY <1>1, <2>1, <3>2, FS_RemoveElement
    <3>4. h[s \ {Pick(s)}] = g[s \ {Pick(s)}]
      BY <1>4, <3>3
    <3> QED BY <1>2, <3>1, <3>4
  <2> QED BY <1>4, <2>1
<1> HIDE DEF P
<1>5. \A k \in Nat : k \in P
  BY <1>3, <1>4, Climb
<1> QED BY <1>1, <1>5 DEF P

LEMMA TableExists ==
  ASSUME NEW S, IsFiniteSet(S), NEW f
  PROVE  \E g : TableOn(f, SUBSET S, g)
<1> DEFINE G(k) == {s \in SUBSET S : Cardinality(s) <= k}
           P == {k \in Nat : \E g : TableOn(f, G(k), g)}
<1>1. \A s \in SUBSET S : IsFiniteSet(s) /\ Cardinality(s) \in Nat
  BY FS_Subset, FS_CardinalityType
<1>2. 0 \in P
  <2> DEFINE g == [s \in G(0) |-> 0]
  <2>1. \A s \in G(0) : s = {}
    BY <1>1, FS_EmptySet
  <2>2. g = [s \in G(0) |-> IF s = {} THEN 0 ELSE f[Pick(s)] + g[s \ {Pick(s)}]]
    BY <2>1
  <2>3. TableOn(f, G(0), g)
    BY <2>2 DEF TableOn
  <2> QED BY <2>3
<1>3. ASSUME NEW k \in Nat, k \in P
      PROVE  k + 1 \in P
  <2>1. PICK g : TableOn(f, G(k), g)
    BY <1>3
  <2> DEFINE h == [s \in G(k + 1) |-> IF s = {} THEN 0 ELSE f[Pick(s)] + g[s \ {Pick(s)}]]
  <2>2. ASSUME NEW s \in G(k + 1), s # {}
        PROVE  s \ {Pick(s)} \in G(k)
    <3>1. Pick(s) \in s
      BY <2>2 DEF Pick
    <3>2. Cardinality(s \ {Pick(s)}) = Cardinality(s) - 1
      BY <1>1, <3>1, FS_RemoveElement
    <3>3. Cardinality(s) \in Nat /\ Cardinality(s) <= k + 1
      BY <1>1
    <3> QED BY <3>2, <3>3
  <2>3. ASSUME NEW s \in G(k)
        PROVE  h[s] = g[s]
    <3>1. s \in G(k + 1)
      <4>1. Cardinality(s) \in Nat /\ Cardinality(s) <= k
        BY <1>1
      <4> QED BY <4>1
    <3>2. g[s] = IF s = {} THEN 0 ELSE f[Pick(s)] + g[s \ {Pick(s)}]
      BY <2>1 DEF TableOn
    <3> QED BY <3>1, <3>2
  <2>4. \A s \in G(k + 1) : h[s] = IF s = {} THEN 0 ELSE f[Pick(s)] + h[s \ {Pick(s)}]
    BY <2>2, <2>3
  <2>5. h = [s \in G(k + 1) |-> IF s = {} THEN 0 ELSE f[Pick(s)] + h[s \ {Pick(s)}]]
    <3>1. h = [s \in G(k + 1) |-> h[s]]
      OBVIOUS
    <3> HIDE DEF h
    <3> QED BY <2>4, <3>1
  <2> HIDE DEF h
  <2>6. TableOn(f, G(k + 1), h)
    BY <2>5 DEF TableOn
  <2> QED BY <2>6
<1>4. Cardinality(S) \in P
  <2> HIDE DEF P
  <2> QED BY <1>1, <1>2, <1>3, Climb
<1>5. G(Cardinality(S)) = SUBSET S
  <2>1. \A s \in SUBSET S : Cardinality(s) <= Cardinality(S)
    BY FS_Subset
  <2> QED BY <2>1
<1> QED BY <1>4, <1>5

LEMMA SumIsTable ==
  ASSUME NEW S, IsFiniteSet(S), NEW f
  PROVE  \E g : TableOn(f, SUBSET S, g) /\ SumFunctionOnSet(f, S) = g[S]
<1> DEFINE g == CHOOSE h : TableOn(f, SUBSET S, h)
<1>1. TableOn(f, SUBSET S, g)
  BY TableExists
<1>2. SumFunctionOnSet(f, S) = g[S]
  BY DEF SumFunctionOnSet, FoldFunctionOnSet, MapThenFoldSet, TableOn, Pick
<1> QED BY <1>1, <1>2

\* A sum is one of its elements and the sum of the rest.
LEMMA SumPick ==
  ASSUME NEW S, IsFiniteSet(S), NEW f
  PROVE  /\ S = {} => SumFunctionOnSet(f, S) = 0
         /\ S # {} => SumFunctionOnSet(f, S) = f[Pick(S)] + SumFunctionOnSet(f, S \ {Pick(S)})
<1>1. PICK g : TableOn(f, SUBSET S, g) /\ SumFunctionOnSet(f, S) = g[S]
  BY SumIsTable
<1>2. g[S] = IF S = {} THEN 0 ELSE f[Pick(S)] + g[S \ {Pick(S)}]
  BY <1>1 DEF TableOn
<1>3. ASSUME S # {}
      PROVE  g[S \ {Pick(S)}] = SumFunctionOnSet(f, S \ {Pick(S)})
  <2> DEFINE T == S \ {Pick(S)}
  <2>1. T \in SUBSET S /\ IsFiniteSet(T)
    BY FS_Subset
  <2> HIDE DEF T
  <2>2. PICK h : TableOn(f, SUBSET T, h) /\ SumFunctionOnSet(f, T) = h[T]
    BY <2>1, SumIsTable
  <2>3. h[T] = g[T]
    BY <1>1, <2>1, <2>2, TablesAgree
  <2> QED BY <2>2, <2>3 DEF T
<1> QED BY <1>1, <1>2, <1>3

LEMMA SumEmpty == \A f : SumFunctionOnSet(f, {}) = 0
BY SumPick, FS_EmptySet

LEMMA SumInt ==
  ASSUME NEW S, IsFiniteSet(S), NEW f, \A x \in S : f[x] \in Int
  PROVE  SumFunctionOnSet(f, S) \in Int
<1> DEFINE P == {k \in Nat : \A T \in SUBSET S : Cardinality(T) = k => SumFunctionOnSet(f, T) \in Int}
<1>1. \A T \in SUBSET S : IsFiniteSet(T) /\ Cardinality(T) \in Nat
  BY FS_Subset, FS_CardinalityType
<1>2. 0 \in P
  BY <1>1, FS_EmptySet, SumEmpty
<1>3. ASSUME NEW k \in Nat, k \in P
      PROVE  k + 1 \in P
  <2>1. ASSUME NEW T \in SUBSET S, Cardinality(T) = k + 1
        PROVE  SumFunctionOnSet(f, T) \in Int
    <3>1. T # {} /\ IsFiniteSet(T)
      <4> HIDE DEF P
      <4> QED BY <1>1, <2>1, FS_EmptySet
    <3>2. Pick(T) \in T /\ f[Pick(T)] \in Int
      BY <3>1 DEF Pick
    <3>3. Cardinality(T \ {Pick(T)}) = k
      <4> HIDE DEF P
      <4> QED BY <2>1, <3>1, <3>2, Fewer
    <3>4. SumFunctionOnSet(f, T \ {Pick(T)}) \in Int
      BY <1>3, <3>3
    <3>5. SumFunctionOnSet(f, T) = f[Pick(T)] + SumFunctionOnSet(f, T \ {Pick(T)})
      <4> HIDE DEF P
      <4> QED BY <3>1, SumPick
    <3> QED BY <3>2, <3>4, <3>5
  <2> QED BY <1>3, <2>1
<1> HIDE DEF P
<1>4. \A k \in Nat : k \in P
  BY <1>2, <1>3, Climb
<1> QED BY <1>1, <1>4 DEF P

\* It does not matter which element is taken first.
LEMMA SumRemove ==
  ASSUME NEW S, IsFiniteSet(S), NEW f, \A x \in S : f[x] \in Int
  PROVE  \A x \in S : SumFunctionOnSet(f, S) = f[x] + SumFunctionOnSet(f, S \ {x})
<1> DEFINE Right(T) == \A x \in T : SumFunctionOnSet(f, T) = f[x] + SumFunctionOnSet(f, T \ {x})
           P == {k \in Nat : \A T \in SUBSET S : Cardinality(T) = k => Right(T)}
<1>1. \A T \in SUBSET S : /\ IsFiniteSet(T) /\ Cardinality(T) \in Nat
                          /\ SumFunctionOnSet(f, T) \in Int
  BY FS_Subset, FS_CardinalityType, SumInt
<1>2. 0 \in P
  BY <1>1, FS_EmptySet
<1>3. ASSUME NEW k \in Nat, k \in P
      PROVE  k + 1 \in P
  <2>1. ASSUME NEW T \in SUBSET S, Cardinality(T) = k + 1, NEW x \in T
        PROVE  SumFunctionOnSet(f, T) = f[x] + SumFunctionOnSet(f, T \ {x})
    <3> DEFINE c == Pick(T)
               U == T \ {c}
               V == T \ {x}
    <3>1. c \in T
      BY DEF Pick
    <3>2. SumFunctionOnSet(f, T) = f[c] + SumFunctionOnSet(f, U)
      <4> HIDE DEF P
      <4> QED BY <1>1, SumPick
    <3>3. CASE x = c
      BY <3>2, <3>3
    <3>4. CASE x # c
      <4>1. Cardinality(U) = k /\ Cardinality(V) = k
        <5>1. IsFiniteSet(T)
          BY <1>1
        <5> HIDE DEF P
        <5> QED BY <2>1, <3>1, <5>1, Fewer
      <4>2. x \in U /\ c \in V /\ U \in SUBSET S /\ V \in SUBSET S /\ U \ {x} = V \ {c}
        BY <3>1, <3>4
      <4> HIDE DEF c, U, V
      <4>3. /\ SumFunctionOnSet(f, U) = f[x] + SumFunctionOnSet(f, U \ {x})
            /\ SumFunctionOnSet(f, V) = f[c] + SumFunctionOnSet(f, V \ {c})
        BY <1>3, <4>1, <4>2
      <4>4. /\ f[x] \in Int /\ f[c] \in Int
            /\ SumFunctionOnSet(f, U \ {x}) \in Int
        BY <1>1, <3>1, <4>2
      <4>5. SumFunctionOnSet(f, T) = f[x] + SumFunctionOnSet(f, V)
        <5>1. SumFunctionOnSet(f, T) = f[c] + SumFunctionOnSet(f, U)
          BY <3>2 DEF U
        <5>2. SumFunctionOnSet(f, U \ {x}) = SumFunctionOnSet(f, V \ {c})
          BY <4>2, Zenon
        <5> HIDE DEF P
        <5> QED BY <5>1, <5>2, <4>3, <4>4
      <4> QED BY <4>5 DEF V
    <3> QED BY <3>3, <3>4
  <2> QED BY <1>3, <2>1
<1> HIDE DEF P
<1>4. \A k \in Nat : k \in P
  BY <1>2, <1>3, Climb
<1> QED BY <1>1, <1>4 DEF P

LEMMA SumAdd ==
  ASSUME NEW S, IsFiniteSet(S), NEW x, x \notin S, NEW f, \A y \in S \cup {x} : f[y] \in Int
  PROVE  SumFunctionOnSet(f, S \cup {x}) = f[x] + SumFunctionOnSet(f, S)
<1>1. IsFiniteSet(S \cup {x}) /\ (S \cup {x}) \ {x} = S
  BY FS_AddElement
<1>2. \A y \in S \cup {x} : SumFunctionOnSet(f, S \cup {x}) = f[y] + SumFunctionOnSet(f, (S \cup {x}) \ {y})
  BY <1>1, SumRemove
<1> QED BY <1>1, <1>2

LEMMA SumSame ==
  ASSUME NEW S, IsFiniteSet(S), NEW f, NEW g, \A x \in S : f[x] \in Int /\ g[x] = f[x]
  PROVE  SumFunctionOnSet(g, S) = SumFunctionOnSet(f, S)
<1> DEFINE B == {T \in SUBSET S : SumFunctionOnSet(g, T) = SumFunctionOnSet(f, T)}
<1>1. {} \in B
  BY SumEmpty
<1>2. ASSUME NEW T \in SUBSET S, NEW x \in S \ T, T \in B
      PROVE  T \cup {x} \in B
  <2>1. IsFiniteSet(T)
    BY FS_Subset
  <2>2. /\ SumFunctionOnSet(f, T \cup {x}) = f[x] + SumFunctionOnSet(f, T)
        /\ SumFunctionOnSet(g, T \cup {x}) = g[x] + SumFunctionOnSet(g, T)
    BY <2>1, SumAdd
  <2> QED BY <1>2, <2>2
<1>3. \A T \in SUBSET S : T \in B
  <2> HIDE DEF B
  <2> QED BY <1>1, <1>2, Build
<1> QED BY <1>3

\* Sums add up.
LEMMA SumPlus ==
  ASSUME NEW S, IsFiniteSet(S), NEW f, NEW g, NEW h,
         \A x \in S : f[x] \in Int /\ g[x] \in Int /\ h[x] = f[x] + g[x]
  PROVE  SumFunctionOnSet(h, S) = SumFunctionOnSet(f, S) + SumFunctionOnSet(g, S)
<1> DEFINE B == {T \in SUBSET S : SumFunctionOnSet(h, T) = SumFunctionOnSet(f, T) + SumFunctionOnSet(g, T)}
<1>1. {} \in B
  BY SumEmpty
<1>2. ASSUME NEW T \in SUBSET S, NEW x \in S \ T, T \in B
      PROVE  T \cup {x} \in B
  <2>1. IsFiniteSet(T)
    BY FS_Subset
  <2>2. /\ SumFunctionOnSet(f, T \cup {x}) = f[x] + SumFunctionOnSet(f, T)
        /\ SumFunctionOnSet(g, T \cup {x}) = g[x] + SumFunctionOnSet(g, T)
    BY <2>1, SumAdd
  <2>4. SumFunctionOnSet(h, T \cup {x}) = h[x] + SumFunctionOnSet(h, T)
    <3>1. \A y \in T \cup {x} : h[y] \in Int
      OBVIOUS
    <3> QED BY <2>1, <3>1, SumAdd
  <2>3. SumFunctionOnSet(f, T) \in Int /\ SumFunctionOnSet(g, T) \in Int
    BY <2>1, SumInt
  <2> QED BY <1>2, <2>2, <2>3, <2>4
<1>3. \A T \in SUBSET S : T \in B
  <2> HIDE DEF B
  <2> QED BY <1>1, <1>2, Build
<1> QED BY <1>3

LEMMA SumZero ==
  ASSUME NEW S, IsFiniteSet(S), NEW f, \A x \in S : f[x] = 0
  PROVE  SumFunctionOnSet(f, S) = 0
<1> DEFINE sum == SumFunctionOnSet(f, S)
<1>1. \A x \in S : f[x] \in Int /\ f[x] = f[x] + f[x]
  OBVIOUS
<1>2. sum \in Int
  BY <1>1, SumInt
<1>3. sum = sum + sum
  BY <1>1, SumPlus
<1> HIDE DEF sum
<1>4. sum = 0
  BY <1>2, <1>3
<1> QED BY <1>4 DEF sum

(***************************************************************************)
(* What a flow adds to the windows of a database adds up to its value.     *)
(***************************************************************************)

LEMMA SlotsFinite == IsFiniteSet(Slots)
<1>1. 0 \in Int /\ Size - 1 \in Int
  BY Sizes
<1> QED BY <1>1, FS_Interval DEF Slots

\* The windows of a ring follow one another, so differences over them telescope.
LEMMA Telescope ==
  ASSUME NEW n \in Nat, NEW d \in DatabasesOf(n), RingOf(d), NEW C \in [Nat -> Int]
  PROVE  SumFunctionOnSet([s \in Slots |-> C[d.data[s].end] - C[d.data[s].begin]], Slots)
           = C[d.end] - C[d.begin]
<1> DEFINE a == [s \in Slots |-> C[d.data[s].end] - C[d.data[s].begin]]
           U(k) == {SlotOf(d, i) : i \in 0 .. k}
           P == {k \in Nat : k < Size => SumFunctionOnSet(a, U(k)) = C[RollingData(d, k).end] - C[d.begin]}
<1>1. d.dataBegin \in Slots /\ d.begin \in Nat /\ \A s \in Slots : d.data[s].begin \in Nat /\ d.data[s].end \in Nat
  BY DEF DatabasesOf, WindowsOf
<1>2. \A s \in Slots : a[s] = C[d.data[s].end] - C[d.data[s].begin] /\ a[s] \in Int
  BY <1>1
<1>3. \A k \in Nat : k < Size => k \in Slots /\ SlotOf(d, k) \in Slots /\ RollingData(d, k) = d.data[SlotOf(d, k)]
  BY <1>1, SlotIsSlot, Sizes DEF Slots, RollingData
<1>4. \A i, j \in Slots : SlotOf(d, i) = SlotOf(d, j) => i = j
  BY <1>1, SlotIs, Sizes
<1> HIDE DEF a
<1>5. 0 \in P
  <2> DEFINE s == SlotOf(d, 0)
  <2>1. s \in Slots /\ RollingData(d, 0) = d.data[s] /\ RollingData(d, 0).begin = d.begin
    BY <1>3, Sizes DEF RingOf
  <2>2. U(0) = {} \cup {s}
    OBVIOUS
  <2> HIDE DEF s
  <2>3. SumFunctionOnSet(a, {} \cup {s}) = a[s] + 0
    <3>1. \A y \in {} \cup {s} : a[y] \in Int
      BY <1>2, <2>1
    <3> HIDE DEF P
    <3> QED BY <3>1, SumAdd, SumEmpty, FS_EmptySet
  <2>4. a[s] + 0 = C[RollingData(d, 0).end] - C[d.begin]
    BY <1>2, <2>1
  <2> QED BY <2>2, <2>3, <2>4
<1>6. ASSUME NEW k \in Nat, k \in P
      PROVE  k + 1 \in P
  <2> SUFFICES ASSUME k + 1 < Size
               PROVE  SumFunctionOnSet(a, U(k + 1)) = C[RollingData(d, k + 1).end] - C[d.begin]
    OBVIOUS
  <2> DEFINE s == SlotOf(d, k + 1)
  <2>1. k \in Slots /\ k + 1 \in Slots \ {0} /\ (k + 1) - 1 = k /\ k < Size
    BY <1>3, Sizes DEF Slots
  <2>2. s \in Slots /\ RollingData(d, k + 1) = d.data[s] /\ SlotOf(d, k) \in Slots
        /\ RollingData(d, k) = d.data[SlotOf(d, k)]
    BY <1>3, <2>1
  <2>3. RollingData(d, k + 1).begin = RollingData(d, k).end
    BY <2>1 DEF RingOf
  <2>4. U(k + 1) = U(k) \cup {s}
    <3>1. 0 .. k + 1 = (0 .. k) \cup {k + 1}
      OBVIOUS
    <3> QED BY <3>1
  <2>5. s \notin U(k)
    <3>1. \A i \in 0 .. k : i \in Slots /\ i # k + 1
      BY <2>1, Sizes DEF Slots
    <3> QED BY <1>4, <2>1, <3>1
  <2>6. U(k) \subseteq Slots /\ IsFiniteSet(U(k))
    <3>1. \A i \in 0 .. k : i \in Nat /\ i < Size
      BY <2>1, Sizes
    <3>2. U(k) \subseteq Slots
      BY <1>3, <3>1
    <3> QED BY <3>2, SlotsFinite, FS_Subset
  <2>7. SumFunctionOnSet(a, U(k)) = C[RollingData(d, k).end] - C[d.begin]
    BY <1>6, <2>1
  <2> HIDE DEF U, s, P
  <2>8. SumFunctionOnSet(a, U(k) \cup {s}) = a[s] + SumFunctionOnSet(a, U(k))
    <3>1. \A y \in U(k) \cup {s} : a[y] \in Int
      BY <1>2, <2>2, <2>6
    <3> QED BY <2>5, <2>6, <3>1, SumAdd
  <2>9. a[s] = C[RollingData(d, k + 1).end] - C[RollingData(d, k).end]
    BY <1>2, <2>2, <2>3
  <2>10. C[RollingData(d, k + 1).end] \in Int /\ C[RollingData(d, k).end] \in Int /\ C[d.begin] \in Int
    BY <1>1, <2>2
  <2>11. SumFunctionOnSet(a, U(k + 1)) = SumFunctionOnSet(a, U(k) \cup {s})
    BY <2>4
  <2> QED BY <2>7, <2>8, <2>9, <2>10, <2>11
<1>7. Size - 1 \in Nat /\ Size - 1 < Size
  BY Sizes
<1>8. Size - 1 \in P
  <2> HIDE DEF P
  <2> QED BY <1>5, <1>6, <1>7, Climb
<1>9. U(Size - 1) = Slots
  <2>1. \A i \in 0 .. Size - 1 : SlotOf(d, i) \in Slots
    BY <1>3, Sizes
  <2>2. \A s \in Slots : \E i \in 0 .. Size - 1 : SlotOf(d, i) = s
    BY <1>1, SlotFound DEF Slots
  <2> QED BY <2>1, <2>2
<1>10. SumFunctionOnSet(a, U(Size - 1)) = C[d.end] - C[d.begin]
  BY <1>7, <1>8 DEF RingOf
<1>11. SumFunctionOnSet(a, Slots) = C[d.end] - C[d.begin]
  BY <1>9, <1>10
<1> QED BY <1>11 DEF a

Even(f) == f.first < f.last /\ f.first % 2 = 0 /\ f.last % 2 = 0

\* The shares of the windows in a flow of whole seconds, when they cover it.
LEMMA Shares ==
  ASSUME NEW n \in Nat, NEW d \in DatabasesOf(n), RingOf(d), NEW f \in Inputs, Even(f),
         d.begin <= Sec(f.first), Sec(f.last) <= d.end
  PROVE  SumFunctionOnSet(
           [s \in Slots |-> IF Touches(d.data[s], f) THEN Share(d.data[s], f) ELSE 0], Slots)
           = f.value
<1> DEFINE F == Sec(f.first)
           L == Sec(f.last)
           q == f.value \div (f.last - f.first)
           Clip(t) == IF t < F THEN F ELSE IF t > L THEN L ELSE t
           C == [t \in Nat |-> q * (2 * Clip(t))]
           a == [s \in Slots |-> IF Touches(d.data[s], f) THEN Share(d.data[s], f) ELSE 0]
           b == [s \in Slots |-> C[d.data[s].end] - C[d.data[s].begin]]
<1>1. /\ f.first \in Nat /\ f.last \in Nat /\ f.value \in Int /\ f.first < f.last
      /\ f.value % (f.last - f.first) = 0
  BY ScalarAssumption DEF Even
<1>2. F \in Nat /\ L \in Nat /\ f.first = 2 * F /\ f.last = 2 * L /\ F < L
  <2>1. \A x \in Nat : x % 2 = 0 => x \div 2 \in Nat /\ x = 2 * (x \div 2)
    OBVIOUS
  <2>2. F \in Nat /\ L \in Nat /\ f.first = 2 * F /\ f.last = 2 * L
    BY <1>1, <2>1 DEF Sec, Even
  <2> HIDE DEF F, L
  <2> QED BY <1>1, <2>2
<1>3. q \in Int /\ f.value = q * (2 * L - 2 * F)
  <2>1. f.last - f.first \in Nat /\ f.last - f.first > 0
    BY <1>1
  <2>2. \A v \in Int, m \in Nat : m > 0 /\ v % m = 0 => v \div m \in Int /\ v = (v \div m) * m
    OBVIOUS
  <2>3. q \in Int /\ f.value = q * (f.last - f.first)
    BY <1>1, <2>1, <2>2
  <2> QED BY <1>2, <2>3
<1> HIDE DEF q, F, L
<1>4. \A t \in Nat : Clip(t) \in Nat
  BY <1>2
<1>5. C \in [Nat -> Int] /\ \A t \in Nat : C[t] = q * (2 * Clip(t))
  BY <1>3, <1>4
<1>6. ASSUME NEW s \in Slots
      PROVE  /\ a[s] = b[s] /\ b[s] \in Int
  <2> DEFINE w == d.data[s]
  <2>1. w.begin \in Nat /\ w.end \in Nat /\ w.end = w.begin + Step
    BY DEF DatabasesOf, WindowsOf, RingOf
  <2>2. a[s] = IF Touches(w, f) THEN Share(w, f) ELSE 0
    OBVIOUS
  <2>3. b[s] = C[w.end] - C[w.begin]
    OBVIOUS
  <2>4. Touches(w, f) <=> (w.begin <= L /\ w.end >= F)
    BY DEF Touches, F, L
  <2>5. Share(w, f) = q * (Min2(2 * w.end, f.last) - Max2(2 * w.begin, f.first))
    BY <1>1 DEF Share, q
  <2> HIDE DEF w, a, b, C
  <2>6. CASE w.begin <= L /\ w.end >= F
    <3>1. Min2(2 * w.end, f.last) = 2 * Clip(w.end)
      BY <1>2, <2>1, <2>6 DEF Min2
    <3>2. Max2(2 * w.begin, f.first) = 2 * Clip(w.begin)
      BY <1>2, <2>1, <2>6 DEF Max2
    <3>3. Clip(w.end) \in Nat /\ Clip(w.begin) \in Nat
      BY <1>4, <2>1
    <3> HIDE DEF Clip
    <3>4. \A x, y \in Nat : q * (2 * x - 2 * y) = q * (2 * x) - q * (2 * y)
      BY <1>3
    <3>5. a[s] = q * (2 * Clip(w.end) - 2 * Clip(w.begin))
      BY <2>2, <2>4, <2>5, <2>6, <3>1, <3>2
    <3>6. b[s] = q * (2 * Clip(w.end)) - q * (2 * Clip(w.begin))
      BY <1>5, <2>1, <2>3
    <3>7. q * (2 * Clip(w.end)) \in Int /\ q * (2 * Clip(w.begin)) \in Int
      BY <1>3, <3>3
    <3> QED BY <3>3, <3>4, <3>5, <3>6, <3>7
  <2>7. CASE ~(w.begin <= L /\ w.end >= F)
    <3>1. Clip(w.end) = Clip(w.begin)
      BY <1>2, <2>1, <2>7, Sizes
    <3>2. C[w.end] = C[w.begin] /\ C[w.end] \in Int
      BY <1>5, <2>1, <3>1
    <3>3. a[s] = 0
      BY <2>2, <2>4, <2>7
    <3>4. b[s] = 0
      BY <2>3, <3>2
    <3> QED BY <3>3, <3>4
  <2> QED BY <2>6, <2>7
<1>7. SumFunctionOnSet(b, Slots) = C[d.end] - C[d.begin]
  <2> HIDE DEF C
  <2> QED BY <1>5, Telescope
<1>8. SumFunctionOnSet(a, Slots) = SumFunctionOnSet(b, Slots)
  <2> HIDE DEF a, b
  <2> QED BY <1>6, SlotsFinite, SumSame
<1>9. C[d.end] - C[d.begin] = f.value
  <2>1. d.end \in Nat /\ d.begin \in Nat /\ d.begin <= F /\ L <= d.end
    BY DEF DatabasesOf, F, L
  <2>2. Clip(d.end) = L /\ Clip(d.begin) = F
    BY <1>2, <2>1
  <2>3. C[d.end] = q * (2 * L) /\ C[d.begin] = q * (2 * F)
    BY <1>5, <2>1, <2>2
  <2> HIDE DEF C, Clip
  <2>4. q * (2 * L) - q * (2 * F) = q * (2 * L - 2 * F)
    BY <1>2, <1>3
  <2> QED BY <1>3, <2>3, <2>4
<1>10. SumFunctionOnSet(a, Slots) = f.value
  <2> HIDE DEF a, b, C
  <2> QED BY <1>7, <1>8, <1>9
<1> QED BY <1>10

(***************************************************************************)
(* The sums of a database, of the rows and of the flows.                   *)
(***************************************************************************)

RingSum(d) == SumFunctionOnSet([s \in Slots |-> d.data[s].sum], Slots)

RowsWith(rw, r) == {k \in DOMAIN rw : r \in DOMAIN rw[k].fields}
RowSum(rw, r) == SumFunctionOnSet([n \in RowsWith(rw, r) |-> rw[n].fields[r].sum], RowsWith(rw, r))

ValuesTo(fl, k) == SumFunctionOnSet([i \in DOMAIN fl |-> fl[i].value], 1 .. k)

LEMMA TotalIs ==
  /\ \A r : TotalOf(r) = RowSum(rows, r) + RingSum(db[r])
  /\ \A fl \in Seq(Inputs) :
       SumFunction([i \in DOMAIN fl |-> fl[i].value]) = ValuesTo(fl, Len(fl))
<1>1. \A r : TotalOf(r) = RowSum(rows, r) + RingSum(db[r])
  BY DEF TotalOf, SumFunction, RowSum, RowsWith, RingSum
<1>2. ASSUME NEW fl \in Seq(Inputs)
      PROVE  SumFunction([i \in DOMAIN fl |-> fl[i].value]) = ValuesTo(fl, Len(fl))
  <2>1. DOMAIN fl = 1 .. Len(fl)
    OBVIOUS
  <2>2. DOMAIN [i \in DOMAIN fl |-> fl[i].value] = DOMAIN fl
    OBVIOUS
  <2> QED BY <2>1, <2>2 DEF SumFunction, ValuesTo
<1> QED BY <1>1, <1>2

LEMMA SumsOfType ==
  ASSUME NEW n \in Nat, NEW d \in DatabasesOf(n)
  PROVE  RingSum(d) \in Int /\ \A s \in Slots : d.data[s].sum \in Int
<1>1. \A s \in Slots : d.data[s].sum \in Int
  BY DEF DatabasesOf, WindowsOf
<1> QED BY <1>1, SlotsFinite, SumInt DEF RingSum

LEMMA RingSumSame ==
  ASSUME NEW n \in Nat, NEW d \in DatabasesOf(n), NEW e, e.data = d.data
  PROVE  RingSum(e) = RingSum(d)
BY DEF RingSum

LEMMA RingSumEmpty ==
  ASSUME NEW d, \A s \in Slots : d.data[s].sum = 0
  PROVE  RingSum(d) = 0
<1> DEFINE f == [s \in Slots |-> d.data[s].sum]
<1>1. \A s \in Slots : f[s] = 0
  OBVIOUS
<1> HIDE DEF f
<1>2. SumFunctionOnSet(f, Slots) = 0
  BY <1>1, SlotsFinite, SumZero
<1> QED BY <1>2 DEF f, RingSum

\* A flow that the windows cover adds its value.
LEMMA SaveAdds ==
  ASSUME NEW n \in Nat, NEW d \in DatabasesOf(n), RingOf(d), NEW f \in Inputs, Even(f), NEW i,
         d.begin <= Sec(f.first), Sec(f.last) <= d.end
  PROVE  RingSum(SaveData(d, f, i)) = RingSum(d) + f.value
<1> DEFINE e == SaveData(d, f, i)
           old == [s \in Slots |-> d.data[s].sum]
           add == [s \in Slots |-> IF Touches(d.data[s], f) THEN Share(d.data[s], f) ELSE 0]
           new == [s \in Slots |-> e.data[s].sum]
<1>1. ASSUME NEW s \in Slots
      PROVE  old[s] \in Int /\ add[s] \in Int /\ new[s] = old[s] + add[s]
  <2>1. d.data[s] \in WindowsOf(n)
    BY DEF DatabasesOf
  <2>2. d.data[s].sum \in Int /\ Share(d.data[s], f) \in Int
    BY <2>1, ShareType DEF WindowsOf
  <2>3. Saved(d, d.data[s], f, i).sum = d.data[s].sum + Share(d.data[s], f)
    BY <2>1 DEF Saved, WindowsOf
  <2>4. e.data[s] = IF Touches(d.data[s], f) THEN Saved(d, d.data[s], f, i) ELSE d.data[s]
    BY SaveDataIs
  <2> HIDE DEF e
  <2> QED BY <2>2, <2>3, <2>4
<1> HIDE DEF old, add, new
<1>2. SumFunctionOnSet(new, Slots) = SumFunctionOnSet(old, Slots) + SumFunctionOnSet(add, Slots)
  BY <1>1, SlotsFinite, SumPlus
<1>3. SumFunctionOnSet(add, Slots) = f.value
  BY Shares DEF add
<1> QED BY <1>2, <1>3 DEF RingSum, old, new

\* A roll takes out what it hands out.
LEMMA RollTakes ==
  ASSUME NEW n \in Nat, NEW d \in DatabasesOf(n)
  PROVE  Oldest(d).sum \in Int /\ RingSum(d) = Oldest(d).sum + RingSum(Roll(d))
<1> DEFINE e == Roll(d)
           z == SlotOf(d, 0)
           old == [s \in Slots |-> d.data[s].sum]
           new == [s \in Slots |-> e.data[s].sum]
<1>1. z \in Slots
  BY SlotIsSlot, Sizes DEF DatabasesOf
<1>2. Oldest(d).sum = d.data[z].sum
  BY DEF Oldest, RollingData
<1>3. \A s \in Slots : e.data[s] = IF s = z THEN EmptyWindow(d.end, {}) ELSE d.data[s]
  BY RollIs
<1>4. EmptyWindow(d.end, {}).sum = 0
  BY DEF EmptyWindow
<1>5. \A s \in Slots : old[s] = d.data[s].sum /\ old[s] \in Int
  BY SumsOfType
<1>6. new[z] = 0 /\ \A s \in Slots \ {z} : new[s] = old[s]
  BY <1>1, <1>3, <1>4
<1>7. \A s \in Slots : new[s] \in Int
  BY <1>5, <1>6
<1> HIDE DEF old, new, z, e
<1>8. /\ SumFunctionOnSet(old, Slots) = old[z] + SumFunctionOnSet(old, Slots \ {z})
      /\ SumFunctionOnSet(new, Slots) = new[z] + SumFunctionOnSet(new, Slots \ {z})
  <2>1. SumFunctionOnSet(old, Slots) = old[z] + SumFunctionOnSet(old, Slots \ {z})
    BY <1>1, <1>5, SlotsFinite, SumRemove
  <2>2. SumFunctionOnSet(new, Slots) = new[z] + SumFunctionOnSet(new, Slots \ {z})
    BY <1>1, <1>7, SlotsFinite, SumRemove
  <2> QED BY <2>1, <2>2
<1>9. SumFunctionOnSet(new, Slots \ {z}) = SumFunctionOnSet(old, Slots \ {z})
      /\ SumFunctionOnSet(old, Slots \ {z}) \in Int
  <2>1. IsFiniteSet(Slots \ {z})
    BY SlotsFinite, FS_Subset
  <2>2. \A s \in Slots \ {z} : old[s] \in Int /\ new[s] = old[s]
    BY <1>5, <1>6
  <2> QED BY <2>1, <2>2, SumSame, SumInt
<1>10. old[z] = Oldest(d).sum /\ old[z] \in Int
  BY <1>1, <1>2, <1>5
<1>11. RingSum(d) = SumFunctionOnSet(old, Slots) /\ RingSum(e) = SumFunctionOnSet(new, Slots)
  BY DEF RingSum, old, new
<1>12. RingSum(d) = Oldest(d).sum + RingSum(e)
  BY <1>6, <1>8, <1>9, <1>10, <1>11
<1> QED BY <1>10, <1>12 DEF e

LEMMA SumKnown ==
  ASSUME TypeInv, NEW n \in DOMAIN rows, NEW r \in DOMAIN rows[n].fields
  PROVE  rows[n].fields[r].sum \in Int
<1>1. rows[n] \in RowsOf(Len(flows))
  BY DEF TypeInv
<1>2. PICK o \in Outputs :
        rows[n] \in [out : {o}, time : Nat, fields : [RulesOf(o) -> OldestOf(Len(flows))]]
  BY <1>1 DEF RowsOf
<1>3. rows[n].fields \in [RulesOf(o) -> OldestOf(Len(flows))]
  BY <1>2
<1>4. rows[n].fields[r] \in OldestOf(Len(flows))
  BY <1>3
<1> QED BY <1>4 DEF OldestOf

LEMMA RowSumType ==
  ASSUME TypeInv, NEW r
  PROVE  RowSum(rows, r) \in Int
<1> DEFINE A == RowsWith(rows, r)
           old == [m \in A |-> rows[m].fields[r].sum]
<1>1. IsFiniteSet(A)
  <2>1. IsFiniteSet(1 .. Len(rows))
    <3>1. 1 \in Int /\ Len(rows) \in Int
      BY DEF TypeInv
    <3> QED BY <3>1, FS_Interval
  <2>2. A \subseteq 1 .. Len(rows)
    BY DEF RowsWith, TypeInv
  <2> HIDE DEF A
  <2> QED BY <2>1, <2>2, FS_Subset
<1>2. \A m \in A : old[m] \in Int
  <2>1. \A m \in A : rows[m].fields[r].sum \in Int
    BY SumKnown DEF RowsWith
  <2> QED BY <2>1
<1> HIDE DEF A, old
<1>3. SumFunctionOnSet(old, A) \in Int
  BY <1>1, <1>2, SumInt
<1> QED BY <1>3 DEF RowSum, A, old

\* One more row with the rule adds what the row has of it.
LEMMA RowAdds ==
  ASSUME TypeInv, NEW n \in Outputs, Sent(n), NEW r \in RuleIds, Rules[r].out <= n
  PROVE  /\ RowSum(rows, r) \in Int
         /\ RowSum(rows', r) = Oldest(db[r]).sum + RowSum(rows, r)
<1> DEFINE k == Len(rows) + Rules[r].out
           A == RowsWith(rows, r)
           B == RowsWith(rows', r)
           old == [m \in A |-> rows[m].fields[r].sum]
           new == [m \in B |-> rows'[m].fields[r].sum]
<1>1. /\ n \in Nat /\ Len(rows) \in Nat /\ DOMAIN rows = 1 .. Len(rows)
      /\ Len(rows') = Len(rows) + n /\ DOMAIN rows' = 1 .. Len(rows) + n
      /\ \A j \in 1 .. Len(rows) : rows'[j] = rows[j]
      /\ \A j \in Len(rows) + 1 .. Len(rows') :
           j - Len(rows) \in Outputs /\ rows'[j] = RowOf(j - Len(rows))
  <2>1. rows \in Seq(RowsOf(Len(flows))) /\ rows' \in Seq(RowsOf(Len(flows)))
    BY SentRows DEF TypeInv
  <2> QED BY <2>1, SentRows
<1>2. Rules[r].out \in Outputs /\ Rules[r].out \in Nat /\ Rules[r].out >= 1
  BY RulesGiven DEF Outputs
<1>3. k \in Len(rows) + 1 .. Len(rows') /\ k - Len(rows) = Rules[r].out /\ k \notin A
      /\ k \in DOMAIN rows'
  BY <1>1, <1>2 DEF RowsWith
<1>4. r \in RulesOf(Rules[r].out) /\ \A o : r \in RulesOf(o) => o = Rules[r].out
  BY DEF RulesOf
<1>5. /\ DOMAIN rows'[k].fields = RulesOf(Rules[r].out)
      /\ rows'[k].fields[r] = Oldest(db[r])
  BY <1>1, <1>2, <1>3, <1>4, RowIs
<1>6. B = A \cup {k}
  <2>1. ASSUME NEW j \in DOMAIN rows'
        PROVE  r \in DOMAIN rows'[j].fields <=> j \in A \/ j = k
    <3>1. CASE j \in 1 .. Len(rows)
      BY <1>1, <1>3, <3>1 DEF RowsWith
    <3>2. CASE j \in Len(rows) + 1 .. Len(rows')
      <4>1. /\ j - Len(rows) \in Outputs /\ rows'[j] = RowOf(j - Len(rows)) /\ j \notin A
        BY <1>1, <3>2 DEF RowsWith
      <4>2. DOMAIN rows'[j].fields = RulesOf(j - Len(rows))
        BY <4>1, RowIs
      <4>3. r \in RulesOf(j - Len(rows)) <=> j - Len(rows) = Rules[r].out
        BY <1>4
      <4>4. j - Len(rows) = Rules[r].out <=> j = k
        BY <1>1, <1>2, <3>2
      <4> QED BY <4>1, <4>2, <4>3, <4>4
    <3> QED BY <1>1, <3>1, <3>2
  <2>2. A \subseteq DOMAIN rows' /\ k \in DOMAIN rows'
    BY <1>1, <1>3 DEF RowsWith
  <2>3. B \subseteq DOMAIN rows' /\ \A j \in DOMAIN rows' : j \in B <=> r \in DOMAIN rows'[j].fields
    BY DEF RowsWith
  <2> HIDE DEF A, B, k
  <2> QED BY <2>1, <2>2, <2>3
<1>7. IsFiniteSet(A)
  <2>1. IsFiniteSet(1 .. Len(rows))
    <3>1. 1 \in Int /\ Len(rows) \in Int
      BY <1>1
    <3> QED BY <3>1, FS_Interval
  <2>2. A \subseteq 1 .. Len(rows)
    BY <1>1 DEF RowsWith
  <2> HIDE DEF A
  <2> QED BY <2>1, <2>2, FS_Subset
<1>8. \A m \in A : old[m] = rows[m].fields[r].sum /\ old[m] \in Int
  <2>1. \A m \in A : rows[m].fields[r].sum \in Int
    BY SumKnown DEF RowsWith
  <2> QED BY <2>1
<1>9. \A m \in A : new[m] = old[m]
  <2>1. ASSUME NEW m \in A
        PROVE  rows'[m] = rows[m] /\ m \in B
    BY <1>1, <1>6 DEF RowsWith
  <2> HIDE DEF A, B
  <2> QED BY <2>1
<1>10. new[k] = Oldest(db[r]).sum /\ Oldest(db[r]).sum \in Int
  <2>1. k \in B
    BY <1>6
  <2>2. Oldest(db[r]).sum \in Int
    BY RollTakes DEF TypeInv
  <2> HIDE DEF B, k
  <2> QED BY <1>5, <2>1, <2>2
<1> HIDE DEF old, new, A, B, k
<1>11. SumFunctionOnSet(new, A \cup {k}) = new[k] + SumFunctionOnSet(new, A)
  <2>1. \A y \in A \cup {k} : new[y] \in Int
    BY <1>8, <1>9, <1>10
  <2> QED BY <1>3, <1>7, <2>1, SumAdd
<1>12. SumFunctionOnSet(new, A) = SumFunctionOnSet(old, A)
  BY <1>7, <1>8, <1>9, SumSame
<1>13. RowSum(rows, r) = SumFunctionOnSet(old, A)
  BY DEF RowSum, A, old
<1>14. RowSum(rows', r) = SumFunctionOnSet(new, B)
  BY DEF RowSum, B, new
<1>15. SumFunctionOnSet(new, B) = SumFunctionOnSet(new, A \cup {k})
  BY <1>6
<1>16. SumFunctionOnSet(old, A) \in Int
  BY <1>7, <1>8, SumInt
<1> QED BY <1>10, <1>11, <1>12, <1>13, <1>14, <1>15, <1>16

\* The values of the first flows do not change when another one comes.
LEMMA ValuesKeep ==
  ASSUME NEW fl \in Seq(Inputs), NEW gl \in Seq(Inputs), Len(fl) <= Len(gl),
         \A i \in 1 .. Len(fl) : gl[i] = fl[i], NEW k \in 0 .. Len(fl)
  PROVE  ValuesTo(gl, k) = ValuesTo(fl, k)
<1> DEFINE f == [i \in DOMAIN fl |-> fl[i].value]
           g == [i \in DOMAIN gl |-> gl[i].value]
<1>1. \A i \in 1 .. k : i \in DOMAIN fl /\ i \in DOMAIN gl /\ gl[i] = fl[i] /\ fl[i].value \in Int
  <2>1. \A i \in 1 .. k : i \in 1 .. Len(fl) /\ i \in 1 .. Len(gl)
    OBVIOUS
  <2>2. \A i \in 1 .. Len(fl) : fl[i] \in Inputs
    BY ElementOfSeq
  <2> QED BY <2>1, <2>2, ScalarAssumption
<1>2. \A i \in 1 .. k : f[i] \in Int /\ g[i] = f[i]
  BY <1>1
<1>3. IsFiniteSet(1 .. k)
  <2>1. 1 \in Int /\ k \in Int
    OBVIOUS
  <2> QED BY <2>1, FS_Interval
<1> HIDE DEF f, g
<1>4. SumFunctionOnSet(g, 1 .. k) = SumFunctionOnSet(f, 1 .. k)
  BY <1>2, <1>3, SumSame
<1> QED BY <1>4 DEF ValuesTo, f, g

LEMMA ValuesNext ==
  ASSUME NEW fl \in Seq(Inputs), Len(fl) > 0
  PROVE  /\ ValuesTo(fl, Len(fl)) = fl[Len(fl)].value + ValuesTo(fl, Len(fl) - 1)
         /\ ValuesTo(fl, Len(fl) - 1) \in Int
<1> DEFINE f == [i \in DOMAIN fl |-> fl[i].value]
           m == Len(fl)
<1>1. m \in Nat /\ m - 1 \in Nat /\ m \notin 1 .. m - 1 /\ 1 .. m = (1 .. m - 1) \cup {m}
  OBVIOUS
<1>2. \A i \in 1 .. m : f[i] = fl[i].value /\ f[i] \in Int
  <2>1. \A i \in 1 .. Len(fl) : fl[i] \in Inputs
    BY ElementOfSeq
  <2> QED BY <2>1, ScalarAssumption
<1>3. IsFiniteSet(1 .. m - 1)
  <2>1. 1 \in Int /\ m - 1 \in Int
    BY <1>1
  <2> QED BY <2>1, FS_Interval
<1> HIDE DEF f, m
<1>4. SumFunctionOnSet(f, (1 .. m - 1) \cup {m}) = f[m] + SumFunctionOnSet(f, 1 .. m - 1)
  <2>1. \A y \in (1 .. m - 1) \cup {m} : f[y] \in Int
    BY <1>1, <1>2
  <2> QED BY <1>1, <1>3, <2>1, SumAdd
<1>5. SumFunctionOnSet(f, 1 .. m) = f[m] + SumFunctionOnSet(f, 1 .. m - 1)
  BY <1>1, <1>4, Zenon
<1>6. SumFunctionOnSet(f, 1 .. m - 1) \in Int
  <2>1. \A y \in 1 .. m - 1 : f[y] \in Int
    BY <1>1, <1>2
  <2> QED BY <1>3, <2>1, SumInt
<1>7. f[m] = fl[m].value
  BY <1>1, <1>2
<1> QED BY <1>5, <1>6, <1>7 DEF ValuesTo, f, m

(***************************************************************************)
(* How far the databases have come: with flows within the delay, none is   *)
(* ahead of the flow at work.                                              *)
(***************************************************************************)

Alive == pc = "recv" \/ Working

Begun ==
  /\ ~timedbInitialized => flows = <<>>
  /\ timedbInitialized => Len(flows) > 0

\* Each database is as long as its ring, and begins at a multiple of Step.
Lengths ==
  timedbInitialized =>
    \A r \in RuleIds : db[r].end = db[r].begin + Size * Step /\ db[r].begin % Step = 0

\* One that was initialised again is not behind the others, and those that were
\* not are together.
Behind ==
  timedbInitialized /\ ~broken =>
    \A r \in RuleIds \ restarted : \A s \in RuleIds : db[r].begin <= db[s].begin

FirstBegin(fl) == Sec(fl[1].first) - (Sec(fl[1].first) % Step)

\* The databases begin with the first flow or end not long after one.
Reach ==
  timedbInitialized /\ ~broken =>
    \A r \in RuleIds \ restarted :
      \/ db[r].begin = FirstBegin(flows)
      \/ \E j \in 1 .. Len(flows) : db[r].end < Sec(flows[j].last) + Step

\* A flush is for a database that ends before the flow.
Due == pc = "flush" => db[at].end < Sec(Current.last)

\* The trees of a rule are made when its first flow is saved.
Made ==
  /\ pc = "crashed" => Len(flows) = 1
  /\ Alive => \A r \in RuleIds :
       Len(flows) > 1 \/ (pc = "recv" /\ Len(flows) = 1) \/ (Working /\ r < at)
         => Rollable(db[r])

LaterSteps ==
  /\ UNCHANGED <<at, timedbInitialized, db, flows, rows, restarted, broken>>
  /\ Alive' => pc' = pc
  /\ pc' = "crashed" => pc = "crashed" \/ FlushCrashes

LEMMA AllSteps == [Next]_vars => Receive \/ Serve \/ Flush \/ LaterSteps
BY DEF Next, Leave, SaveFails, Proceed, FlushCrashes, Signal, vars, Serve, LaterSteps, Alive, Working

LEMMA Wide == Size * Step \in Nat /\ Size * Step > Delay + Step /\ Delay \in Nat
<1>1. Step \in Nat /\ Step > 0 /\ Delay \in Nat
  BY TimeDBAssumption
<1> DEFINE k == Delay \div Step
<1>2. k \in Nat /\ Delay = Step * k + (Delay % Step) /\ Delay % Step < Step /\ Delay % Step \in Nat
  <2>1. \A v \in Nat, m \in Nat : m > 0 => v \div m \in Nat /\ v = m * (v \div m) + (v % m)
                                             /\ v % m < m /\ v % m \in Nat
    OBVIOUS
  <2> QED BY <1>1, <2>1
<1> HIDE DEF k
<1>3. (k + 2) * Step = Step * k + 2 * Step
  BY <1>1, <1>2
<1>4. Step * k \in Nat
  BY <1>1, <1>2
<1>5. Size = k + 2
  BY DEF Size, k
<1> QED BY <1>1, <1>2, <1>3, <1>4, <1>5

LEMMA Multiples ==
  /\ \A t \in Nat : (t - (t % Step)) % Step = 0 /\ t - (t % Step) <= t
  /\ \A b \in Nat : b % Step = 0 => (b + Step) % Step = 0
  /\ \A b, t \in Nat : b % Step = 0 /\ b <= t => b <= t - (t % Step)
<1>1. Step \in Nat /\ Step > 0
  BY TimeDBAssumption
<1>2. \A v \in Nat, m \in Nat : m > 0 => v \div m \in Nat /\ v = m * (v \div m) + (v % m)
                                           /\ v % m < m /\ v % m \in Nat
  OBVIOUS
<1>3. \A x, y \in Nat : x < y => Step * x + Step <= Step * y
  <2> SUFFICES ASSUME NEW x \in Nat, NEW y \in Nat, x < y
               PROVE  Step * x + Step <= Step * y
    OBVIOUS
  <2> DEFINE P == {k \in Nat : Step * x + Step <= Step * (x + 1 + k)}
  <2>1. 0 \in P
    BY <1>1
  <2>2. ASSUME NEW k \in Nat, k \in P
        PROVE  k + 1 \in P
    <3>1. Step * (x + 1 + (k + 1)) = Step * (x + 1 + k) + Step
      BY <1>1
    <3>2. Step * (x + 1 + k) \in Nat /\ Step * x \in Nat
      BY <1>1
    <3>3. Step * x + Step <= Step * (x + 1 + k)
      BY <2>2
    <3> QED BY <1>1, <3>1, <3>2, <3>3
  <2>3. y - x - 1 \in Nat /\ x + 1 + (y - x - 1) = y
    OBVIOUS
  <2> HIDE DEF P
  <2>4. y - x - 1 \in P
    BY <2>1, <2>2, <2>3, Climb
  <2> QED BY <2>3, <2>4 DEF P
<1>4. \A k \in Nat : (Step * k) % Step = 0
  BY <1>1
<1>5. ASSUME NEW t \in Nat
      PROVE  (t - (t % Step)) % Step = 0 /\ t - (t % Step) <= t
  <2>1. t - (t % Step) = Step * (t \div Step) /\ t \div Step \in Nat /\ t % Step \in Nat
    BY <1>1, <1>2
  <2> QED BY <1>4, <2>1
<1>6. ASSUME NEW b \in Nat, b % Step = 0
      PROVE  (b + Step) % Step = 0
  <2>1. b = Step * (b \div Step) /\ b \div Step \in Nat
    BY <1>1, <1>2, <1>6
  <2>2. b + Step = Step * (b \div Step + 1)
    BY <1>1, <2>1
  <2> QED BY <1>4, <2>1, <2>2
<1>7. ASSUME NEW b \in Nat, NEW t \in Nat, b % Step = 0, b <= t
      PROVE  b <= t - (t % Step)
  <2> DEFINE x == t \div Step
             y == b \div Step
  <2>1. b = Step * y /\ y \in Nat
    BY <1>1, <1>2, <1>7
  <2>2. t = Step * x + (t % Step) /\ x \in Nat /\ t % Step < Step /\ t % Step \in Nat
    BY <1>1, <1>2
  <2> HIDE DEF x, y
  <2>3. Step * x \in Nat /\ Step * y \in Nat
    BY <1>1, <2>1, <2>2
  <2>4. ~(x < y)
    <3>1. x < y => Step * x + Step <= Step * y
      BY <1>3, <2>1, <2>2
    <3> QED BY <1>1, <1>7, <2>1, <2>2, <2>3, <3>1
  <2>5. Step * y <= Step * x
    <3>1. y < x => Step * y + Step <= Step * x
      BY <1>3, <2>1, <2>2
    <3>2. y = x \/ y < x
      BY <2>1, <2>2, <2>4
    <3> QED BY <1>1, <2>3, <3>1, <3>2
  <2> QED BY <2>1, <2>2, <2>3, <2>5
<1> QED BY <1>5, <1>6, <1>7

(***************************************************************************)
(* Each of these holds throughout.                                         *)
(***************************************************************************)

LEMMA RestartIs ==
  ASSUME NEW n \in Nat, NEW d \in DatabasesOf(n), d.begin > 0, NEW f \in Inputs
  PROVE  LET e == Prepared(d, f)
             t == Sec(f.first) IN
         /\ Rollable(e)
         /\ ~Inactive(d, f) => e.begin = d.begin /\ e.end = d.end
         /\ Inactive(d, f) => /\ e.begin = t - (t % Step) /\ e.end = e.begin + Size * Step
                              /\ t \in Nat /\ d.begin <= t
<1> DEFINE e == TimedbInitTree(d)
           t == Sec(f.first)
<1>1. /\ e \in DatabasesOf(n) /\ e.begin = d.begin /\ e.end = d.end
      /\ e.uniq = d.uniq /\ (e.uniq => e.initialized)
  BY InitTreeType DEF TimedbInitTree, DatabasesOf
<1>2. d.begin \in Nat /\ d.begin # 0
  BY DEF DatabasesOf
<1>3. Prepared(d, f) = IF Inactive(e, f) THEN TimedbInit(e, t) ELSE e
  BY <1>2 DEF Prepared
<1>4. Inactive(e, f) = Inactive(d, f)
  BY <1>1 DEF Inactive
<1>5. t \in Nat
  BY Seconds
<1>6. Inactive(d, f) => d.begin <= t
  BY <1>2, <1>5, TimeDBAssumption DEF Inactive
<1> HIDE DEF e, t
<1>7. /\ TimedbInit(e, t).begin = t - (t % Step)
      /\ TimedbInit(e, t).end = t - (t % Step) + Size * Step
      /\ TimedbInit(e, t).uniq = e.uniq /\ TimedbInit(e, t).initialized = e.initialized
  BY <1>1 DEF TimedbInit, DatabasesOf
<1>8. CASE Inactive(d, f)
  BY <1>1, <1>3, <1>4, <1>5, <1>6, <1>7, <1>8 DEF Rollable, t
<1>9. CASE ~Inactive(d, f)
  BY <1>1, <1>3, <1>4, <1>9 DEF Rollable
<1> QED BY <1>8, <1>9

LEMMA ServedAt ==
  ASSUME TypeInv, Started, Serve
  PROVE  /\ pc = "save" /\ Working /\ timedbInitialized /\ at \in RuleIds
         /\ Current \in Inputs /\ db[at] \in DatabasesOf(Len(flows)) /\ Len(flows) \in Nat
         /\ \A r \in RuleIds \ {at} : db'[r] = db[r]
         /\ restarted' = IF Inactive(db[at], Current) THEN restarted \cup {at} ELSE restarted
         /\ UNCHANGED <<timedbInitialized, flows, rows, broken>>
         /\ Rollable(db'[at])
         /\ ~Inactive(db[at], Current) => db'[at].begin = db[at].begin /\ db'[at].end = db[at].end
         /\ Inactive(db[at], Current) =>
              LET t == Sec(Current.first) IN
              /\ db'[at].begin = t - (t % Step) /\ db'[at].end = db'[at].begin + Size * Step
              /\ t \in Nat /\ db[at].begin <= t
<1> DEFINE d == Prepared(db[at], Current)
           n == Len(flows)
<1>1. pc = "save" /\ Working /\ timedbInitialized
  BY DEF Serve, Save, SaveNeedsRollout, Working, TypeInv
<1>2. /\ at \in RuleIds /\ d \in DatabasesOf(n)
      /\ \/ db' = [db EXCEPT ![at] = SaveData(d, Current, n)]
         \/ db' = [db EXCEPT ![at] = d]
      /\ restarted' = IF Inactive(db[at], Current) THEN restarted \cup {at} ELSE restarted
      /\ UNCHANGED <<timedbInitialized, flows, rows, broken>>
  BY Served
<1>3. Current \in Inputs /\ n \in Nat
  BY <1>1, CurrentIs
<1>4. db[at] \in DatabasesOf(n) /\ db[at].begin > 0
  BY <1>1, <1>2 DEF TypeInv, Started
<1>5. /\ Rollable(d)
      /\ ~Inactive(db[at], Current) => d.begin = db[at].begin /\ d.end = db[at].end
      /\ Inactive(db[at], Current) =>
           LET t == Sec(Current.first) IN
           /\ d.begin = t - (t % Step) /\ d.end = d.begin + Size * Step
           /\ t \in Nat /\ db[at].begin <= t
  BY <1>3, <1>4, RestartIs
<1> HIDE DEF d
<1>6. /\ SaveData(d, Current, n).begin = d.begin /\ SaveData(d, Current, n).end = d.end
      /\ SaveData(d, Current, n).uniq = d.uniq
      /\ SaveData(d, Current, n).initialized = d.initialized
  BY <1>2 DEF SaveData, DatabasesOf
<1>7. db \in [RuleIds -> DatabasesOf(n)]
  BY DEF TypeInv
<1>8. db'[at] = SaveData(d, Current, n) \/ db'[at] = d
  BY <1>2, <1>7
<1>9. db'[at].begin = d.begin /\ db'[at].end = d.end /\ Rollable(db'[at])
  BY <1>5, <1>6, <1>8 DEF Rollable
<1>10. \A r \in RuleIds \ {at} : db'[r] = db[r]
  BY <1>2, <1>7
<1> QED BY <1>1, <1>2, <1>3, <1>4, <1>5, <1>9, <1>10

\* The first flow makes all databases begin with it.
LEMMA FirstFlow ==
  ASSUME TypeInv, Started, Begun, Receive
  PROVE  /\ pc = "recv" /\ pc' = "save" /\ at' = 1 /\ timedbInitialized'
         /\ UNCHANGED <<rows, restarted, broken>>
         /\ ~timedbInitialized =>
              /\ Len(flows) = 0 /\ rows = <<>>
              /\ \A r \in RuleIds :
                   /\ db'[r].begin = FirstBegin(flows')
                   /\ db'[r].begin % Step = 0
                   /\ db'[r].end = db'[r].begin + Size * Step
                   /\ \A s \in Slots : db'[r].data[s].sum = 0
<1>1. PICK f \in Inputs :
        /\ flows' = Append(flows, f)
        /\ db' = IF timedbInitialized THEN db
                 ELSE [r \in RuleIds |-> TimedbInit(db[r], Sec(f.first))]
  BY DEF Receive
<1>2. ASSUME ~timedbInitialized
      PROVE  /\ Len(flows) = 0 /\ rows = <<>>
             /\ \A r \in RuleIds :
                   /\ db'[r].begin = FirstBegin(flows')
                   /\ db'[r].begin % Step = 0
                   /\ db'[r].end = db'[r].begin + Size * Step
                   /\ \A s \in Slots : db'[r].data[s].sum = 0
  <2>1. flows = <<>> /\ rows = <<>>
    BY <1>2 DEF Begun, Started
  <2>2. flows'[1] = f
    BY <1>1, <2>1
  <2>3. ASSUME NEW r \in RuleIds
        PROVE  /\ db'[r].begin = FirstBegin(flows') /\ db'[r].begin % Step = 0
               /\ db'[r].end = db'[r].begin + Size * Step
               /\ \A s \in Slots : db'[r].data[s].sum = 0
    <3>1. db'[r] = TimedbInit(db[r], Sec(f.first)) /\ db[r] \in DatabasesOf(Len(flows))
      BY <1>1, <1>2 DEF TypeInv
    <3>2. Sec(f.first) \in Nat
      BY Seconds
    <3>3. /\ db'[r].begin = Sec(f.first) - (Sec(f.first) % Step)
          /\ db'[r].end = Sec(f.first) - (Sec(f.first) % Step) + Size * Step
          /\ \A s \in Slots : db'[r].data[s].sum = 0
      BY <3>1 DEF TimedbInit, DatabasesOf, EmptyWindow
    <3> QED BY <2>2, <3>2, <3>3, Multiples DEF FirstBegin
  <2> QED BY <2>1, <2>3
<1> QED BY <1>2 DEF Receive

\* A flush that no error cuts short rolls every database.
LEMMA AllSent ==
  ASSUME NEW n \in Outputs, Sent(n), ~broken'
  PROVE  ~broken /\ \A q \in RuleIds : Rules[q].out <= n
<1>1. ~broken /\ ~(n < Rules[Len(Rules)].out)
  BY DEF Sent
<1> QED BY <1>1, RulesGiven DEF Outputs

LEMMA BegunStep ==
  ASSUME TypeInv, Started, Begun, [Next]_vars
  PROVE  Begun'
<1>1. CASE Receive
  BY <1>1, ReceiveDatabases, FirstFlow DEF Begun
<1>2. CASE Serve
  BY <1>2, ServedAt DEF Begun
<1>3. CASE Flush
  BY <1>3, Flushed DEF Begun
<1>4. CASE LaterSteps
  BY <1>4 DEF LaterSteps, Begun
<1> QED BY <1>1, <1>2, <1>3, <1>4, AllSteps

LEMMA LengthsStep ==
  ASSUME TypeInv, Started, Begun, Lengths, [Next]_vars
  PROVE  Lengths'
<1>1. CASE Receive
  <2>1. CASE timedbInitialized /\ db' = db
    BY <2>1 DEF Lengths
  <2>2. CASE ~timedbInitialized
    BY <1>1, <2>2, FirstFlow DEF Lengths
  <2> QED BY <1>1, <2>1, <2>2, ReceiveDatabases
<1>2. CASE Serve
  <2>1. /\ at \in RuleIds /\ timedbInitialized
        /\ \A r \in RuleIds \ {at} : db'[r] = db[r]
        /\ ~Inactive(db[at], Current) => db'[at].begin = db[at].begin /\ db'[at].end = db[at].end
        /\ Inactive(db[at], Current) =>
              LET t == Sec(Current.first) IN
              /\ db'[at].begin = t - (t % Step) /\ db'[at].end = db'[at].begin + Size * Step
              /\ t \in Nat
    BY <1>2, ServedAt
  <2>2. db'[at].end = db'[at].begin + Size * Step /\ db'[at].begin % Step = 0
    BY <2>1, Multiples DEF Lengths
  <2> QED BY <2>1, <2>2 DEF Lengths
<1>3. CASE Flush
  <2>1. PICK n \in Outputs : Sent(n)
    BY <1>3, Flushed
  <2>2. timedbInitialized
    BY <1>3, Flushed DEF TypeInv
  <2>3. ASSUME NEW r \in RuleIds
        PROVE  db'[r].end = db'[r].begin + Size * Step /\ db'[r].begin % Step = 0
    <3>1. /\ Roll(db[r]).begin = db[r].begin + Step /\ Roll(db[r]).end = db[r].end + Step
          /\ db[r].begin \in Nat /\ db[r].end \in Nat
      BY RollIs DEF TypeInv, DatabasesOf
    <3>2. db[r].end = db[r].begin + Size * Step /\ db[r].begin % Step = 0
      BY <2>2 DEF Lengths
    <3>3. db'[r] = IF Rules[r].out <= n THEN Roll(db[r]) ELSE db[r]
      BY <2>1 DEF Sent
    <3>4. (db[r].begin + Step) % Step = 0
      BY <3>1, <3>2, Multiples
    <3> QED BY <3>1, <3>2, <3>3, <3>4, Sizes, Wide
  <2> QED BY <2>3 DEF Lengths
<1>4. CASE LaterSteps
  BY <1>4 DEF LaterSteps, Lengths
<1> QED BY <1>1, <1>2, <1>3, <1>4, AllSteps

LEMMA BehindStep ==
  ASSUME TypeInv, Started, Begun, Lengths, Behind, [Next]_vars
  PROVE  Behind'
<1>1. CASE Receive
  <2>1. restarted' = restarted /\ broken' = broken
    BY <1>1, FirstFlow
  <2>2. CASE timedbInitialized /\ db' = db
    BY <2>1, <2>2 DEF Behind
  <2>3. CASE ~timedbInitialized
    <3>1. \A r \in RuleIds : db'[r].begin = FirstBegin(flows') /\ db'[r].begin \in Nat
      BY <1>1, <2>3, FirstFlow, ReceiveDatabases DEF DatabasesOf
    <3>2. \A x, y : x = y /\ x \in Nat => x <= y
      OBVIOUS
    <3> QED BY <3>1, <3>2 DEF Behind
  <2> QED BY <1>1, <2>2, <2>3, ReceiveDatabases
<1>2. CASE Serve
  <2>1. /\ at \in RuleIds /\ timedbInitialized /\ broken' = broken
        /\ \A r \in RuleIds \ {at} : db'[r] = db[r]
        /\ restarted' = IF Inactive(db[at], Current) THEN restarted \cup {at} ELSE restarted
        /\ ~Inactive(db[at], Current) => db'[at].begin = db[at].begin
        /\ Inactive(db[at], Current) =>
              LET t == Sec(Current.first) IN
              db'[at].begin = t - (t % Step) /\ t \in Nat /\ db[at].begin <= t
    BY <1>2, ServedAt
  <2>2. \A r \in RuleIds : db[r].begin \in Nat
    BY DEF TypeInv, DatabasesOf
  <2>3. SUFFICES ASSUME ~broken, NEW r \in RuleIds \ restarted', NEW s \in RuleIds
                 PROVE  db'[r].begin <= db'[s].begin
    BY <2>1 DEF Behind
  <2>4. db'[r].begin = db[r].begin /\ r \notin restarted
    BY <2>1
  <2>5. db[r].begin <= db[s].begin
    BY <2>1, <2>3, <2>4 DEF Behind
  <2>6. db[s].begin <= db'[s].begin /\ db'[s].begin \in Nat
    <3>1. CASE s # at \/ ~Inactive(db[at], Current)
      BY <2>1, <2>2, <3>1
    <3>2. CASE s = at /\ Inactive(db[at], Current)
      <4>1. db[at].begin % Step = 0
        BY <2>1 DEF Lengths
      <4>2. Sec(Current.first) - (Sec(Current.first) % Step) \in Nat
        BY <2>1, <3>2, Aligned
      <4> QED BY <2>1, <2>2, <3>2, <4>1, <4>2, Multiples
    <3> QED BY <3>1, <3>2
  <2> QED BY <2>2, <2>4, <2>5, <2>6
<1>3. CASE Flush
  <2>1. PICK n \in Outputs : Sent(n)
    BY <1>3, Flushed
  <2>2. timedbInitialized /\ restarted' = restarted
    BY <1>3, Flushed DEF TypeInv
  <2>3. SUFFICES ASSUME ~broken', NEW r \in RuleIds \ restarted, NEW s \in RuleIds
                 PROVE  db'[r].begin <= db'[s].begin
    BY <2>2 DEF Behind
  <2>4. ~broken /\ \A q \in RuleIds : Rules[q].out <= n
    BY <2>1, <2>3, AllSent
  <2>5. \A q \in RuleIds : db'[q].begin = db[q].begin + Step /\ db[q].begin \in Nat
    BY <2>1, <2>4, RollIs DEF Sent, TypeInv, DatabasesOf
  <2>6. db[r].begin <= db[s].begin
    BY <2>2, <2>3, <2>4 DEF Behind
  <2> QED BY <2>5, <2>6, Sizes
<1>4. CASE LaterSteps
  BY <1>4 DEF LaterSteps, Behind
<1> QED BY <1>1, <1>2, <1>3, <1>4, AllSteps

LEMMA DueStep ==
  ASSUME TypeInv, Started, Begun, Due, [Next]_vars
  PROVE  Due'
<1>1. CASE Receive
  BY <1>1, FirstFlow DEF Due
<1>2. CASE Serve
  <2>1. CASE Save
    BY <2>1 DEF Save, Due
  <2>2. CASE SaveNeedsRollout
    <3>1. /\ NeedsRollout(Prepared(db[at], Current), Current)
          /\ db' = [db EXCEPT ![at] = Prepared(db[at], Current)] /\ at' = at /\ flows' = flows
      BY <2>2 DEF SaveNeedsRollout
    <3>2. db'[at] = Prepared(db[at], Current)
      BY <1>2, <3>1, ServedAt DEF TypeInv
    <3>3. Current' = Current
      BY <3>1 DEF Current
    <3> QED BY <3>1, <3>2, <3>3 DEF Due, NeedsRollout
  <2> QED BY <1>2, <2>1, <2>2 DEF Serve
<1>3. CASE Flush
  BY <1>3 DEF Flush, Due
<1>4. CASE LaterSteps
  <2>1. pc' = "flush" => pc = "flush"
    BY <1>4 DEF LaterSteps, Alive, Working
  <2>2. Current' = Current /\ db' = db /\ at' = at
    BY <1>4 DEF LaterSteps, Current
  <2> QED BY <2>1, <2>2 DEF Due
<1> QED BY <1>1, <1>2, <1>3, <1>4, AllSteps

LEMMA ReachStep ==
  ASSUME TypeInv, Started, Begun, Lengths, Behind, Due, Reach, [Next]_vars
  PROVE  Reach'
<1>1. CASE Receive
  <2>1. restarted' = restarted /\ broken' = broken
    BY <1>1, FirstFlow
  <2>2. CASE timedbInitialized /\ db' = db
    <3>1. Len(flows) > 0 /\ Len(flows) \in Nat
      BY <1>1, <2>2, ReceiveDatabases DEF Begun
    <3>2. \A j \in 1 .. Len(flows) : j \in 1 .. Len(flows') /\ flows'[j] = flows[j]
      BY <1>1, <3>1, ReceiveDatabases
    <3>3. FirstBegin(flows') = FirstBegin(flows)
      BY <3>1, <3>2 DEF FirstBegin
    <3> QED BY <2>1, <2>2, <3>2, <3>3 DEF Reach
  <2>3. CASE ~timedbInitialized
    BY <1>1, <2>3, FirstFlow DEF Reach
  <2> QED BY <1>1, <2>2, <2>3, ReceiveDatabases
<1>2. CASE Serve
  <2>1. /\ at \in RuleIds /\ timedbInitialized /\ broken' = broken /\ flows' = flows
        /\ \A r \in RuleIds \ {at} : db'[r] = db[r]
        /\ restarted' = IF Inactive(db[at], Current) THEN restarted \cup {at} ELSE restarted
        /\ ~Inactive(db[at], Current) => db'[at].begin = db[at].begin /\ db'[at].end = db[at].end
    BY <1>2, ServedAt
  <2>2. \A r \in RuleIds \ restarted' :
          r \notin restarted /\ db'[r].begin = db[r].begin /\ db'[r].end = db[r].end
    BY <2>1
  <2> QED BY <2>1, <2>2 DEF Reach
<1>3. CASE Flush
  <2>1. PICK n \in Outputs : Sent(n)
    BY <1>3, Flushed
  <2>2. timedbInitialized /\ restarted' = restarted /\ flows' = flows /\ Working /\ pc = "flush"
    BY <1>3, Flushed DEF TypeInv, Flush
  <2>3. SUFFICES ASSUME ~broken', NEW r \in RuleIds \ restarted
                 PROVE  \E j \in 1 .. Len(flows) : db'[r].end < Sec(flows[j].last) + Step
    BY <2>2 DEF Reach
  <2>4. ~broken /\ \A q \in RuleIds : Rules[q].out <= n
    BY <2>1, <2>3, AllSent
  <2>5. db'[r].end = db[r].end + Step
    BY <2>1, <2>4, RollIs DEF Sent, TypeInv
  <2>6. at \in RuleIds /\ Current \in Inputs /\ Len(flows) \in 1 .. Len(flows)
    BY <2>2, CurrentIs DEF TypeInv
  <2>7. db[r].begin <= db[at].begin
    BY <2>2, <2>3, <2>4, <2>6 DEF Behind
  <2>8. /\ db[r].end = db[r].begin + Size * Step /\ db[at].end = db[at].begin + Size * Step
        /\ db[r].begin \in Nat /\ db[at].begin \in Nat
    BY <2>2, <2>6 DEF Lengths, TypeInv, DatabasesOf
  <2>9. db[at].end < Sec(Current.last) /\ Sec(Current.last) \in Nat
    BY <2>2, <2>6, Seconds DEF Due
  <2>10. db'[r].end < Sec(Current.last) + Step
    BY <2>5, <2>7, <2>8, <2>9, Sizes, Wide
  <2> QED BY <2>6, <2>10 DEF Current
<1>4. CASE LaterSteps
  BY <1>4 DEF LaterSteps, Reach
<1> QED BY <1>1, <1>2, <1>3, <1>4, AllSteps

LEMMA MadeStep ==
  ASSUME TypeInv, Started, Begun, Made, [Next]_vars
  PROVE  Made'
<1>1. CASE Receive
  <2>1. pc = "recv" /\ pc' = "save" /\ at' = 1
    BY <1>1, FirstFlow
  <2>2. Len(flows') = Len(flows) + 1 /\ Len(flows) \in Nat
    BY <1>1, ReceiveDatabases
  <2>3. ASSUME NEW r \in RuleIds, Len(flows') > 1
        PROVE  Rollable(db'[r])
    <3>1. Len(flows) > 1 \/ Len(flows) = 1
      <4>1. \A k \in Nat : k + 1 > 1 => k > 1 \/ k = 1
        OBVIOUS
      <4> QED BY <2>2, <2>3, <4>1
    <3>2. Rollable(db[r])
      BY <2>1, <3>1 DEF Made, Alive
    <3>3. timedbInitialized
      <4>1. flows # <<>>
        BY <3>1
      <4> QED BY <4>1 DEF Begun, TypeInv
    <3>4. db' = db
      BY <1>1, <3>3, ReceiveDatabases
    <3> QED BY <3>2, <3>4
  <2>4. \A r \in RuleIds : ~(r < at')
    BY <2>1, RulesGiven
  <2> QED BY <2>1, <2>3, <2>4 DEF Made
<1>2. CASE Serve
  <2>1. /\ pc = "save" /\ Working /\ at \in RuleIds /\ flows' = flows
        /\ \A r \in RuleIds \ {at} : db'[r] = db[r]
        /\ Rollable(db'[at])
    BY <1>2, ServedAt
  <2>2. pc' # "crashed"
    BY <1>2 DEF Serve, Save, SaveNeedsRollout
  <2>3. \A r \in RuleIds : Len(flows) > 1 \/ r < at => Rollable(db[r])
    BY <2>1 DEF Made, Alive
  <2>4. ASSUME NEW r \in RuleIds,
               Len(flows) > 1 \/ (pc' = "recv" /\ Len(flows) = 1) \/ (Working' /\ r < at')
        PROVE  r = at \/ r < at \/ Len(flows) > 1
    <3>1. r \in Nat /\ at \in Nat /\ Len(Rules) \in Nat /\ r <= Len(Rules)
      BY <2>1, RulesGiven
    <3>2. CASE Save
      <4>1. (pc' = "recv" /\ at = Len(Rules)) \/ (pc' = "save" /\ at' = at + 1)
        BY <3>2 DEF Save
      <4> QED BY <2>4, <3>1, <4>1
    <3>3. CASE SaveNeedsRollout
      <4>1. pc' = "flush" /\ at' = at
        BY <3>3 DEF SaveNeedsRollout
      <4> QED BY <2>4, <4>1
    <3> QED BY <1>2, <3>2, <3>3 DEF Serve
  <2>5. ASSUME NEW r \in RuleIds,
               Len(flows) > 1 \/ (pc' = "recv" /\ Len(flows) = 1) \/ (Working' /\ r < at')
        PROVE  Rollable(db'[r])
    <3>1. r = at \/ r < at \/ Len(flows) > 1
      BY <2>4, <2>5
    <3> QED BY <2>1, <2>3, <3>1
  <2> QED BY <2>1, <2>2, <2>5 DEF Made
<1>3. CASE Flush
  <2>1. PICK n \in Outputs : Sent(n)
    BY <1>3, Flushed
  <2>2. Working /\ flows' = flows /\ at' = at /\ pc' = "save"
    BY <1>3, Flushed DEF Flush
  <2>3. ASSUME NEW r \in RuleIds, Rollable(db[r])
        PROVE  Rollable(db'[r])
    <3>1. Roll(db[r]).uniq = db[r].uniq /\ Roll(db[r]).initialized = db[r].initialized
      BY DEF Roll, TypeInv, DatabasesOf
    <3>2. db'[r] = IF Rules[r].out <= n THEN Roll(db[r]) ELSE db[r]
      BY <2>1 DEF Sent
    <3> QED BY <2>3, <3>1, <3>2 DEF Rollable
  <2> QED BY <2>2, <2>3 DEF Made, Alive, Working
<1>4. CASE LaterSteps
  <2>1. flows' = flows /\ db' = db /\ at' = at
    BY <1>4 DEF LaterSteps
  <2>2. ASSUME pc' = "crashed"
        PROVE  Len(flows) = 1
    <3>1. CASE pc = "crashed"
      BY <3>1 DEF Made
    <3>2. CASE FlushCrashes
      <4>1. Working /\ \E r \in RuleIds : ~Rollable(db[r])
        BY <3>2 DEF FlushCrashes, Working
      <4>2. ~(Len(flows) > 1)
        BY <4>1 DEF Made, Alive
      <4>3. Len(flows) > 0 /\ Len(flows) \in Nat
        BY <4>1, CurrentIs DEF TypeInv
      <4>4. \A k \in Nat : k > 0 /\ ~(k > 1) => k = 1
        OBVIOUS
      <4> QED BY <4>2, <4>3, <4>4
    <3> QED BY <1>4, <2>2, <3>1, <3>2 DEF LaterSteps
  <2>3. Alive' => Alive /\ pc' = pc /\ Working' = Working
    BY <1>4 DEF LaterSteps, Alive, Working
  <2> QED BY <2>1, <2>2, <2>3 DEF Made
<1> QED BY <1>1, <1>2, <1>3, <1>4, AllSteps

(***************************************************************************)
(* Nothing is lost and nothing is counted twice.                           *)
(***************************************************************************)

WholeOf(fl) == \A i \in DOMAIN fl : Even(fl[i])

WithinOf(fl) ==
  \A i \in DOMAIN fl :
    /\ Sec(fl[i].first) >= FirstBegin(fl)
    /\ \A j \in 1 .. i : Sec(fl[i].first) >= Sec(fl[j].last) - Delay

\* How many flows rule r has saved.
Done(r) == IF Working /\ at <= r THEN Len(flows) - 1 ELSE Len(flows)

Kept ==
  WholeOf(flows) /\ WithinOf(flows) /\ ~broken /\ Alive =>
    \A r \in RuleIds \ restarted :
      RowSum(rows, r) + RingSum(db[r]) = ValuesTo(flows, Done(r))

LEMMA EarlierToo ==
  ASSUME NEW fl \in Seq(Inputs), NEW gl \in Seq(Inputs), Len(fl) <= Len(gl),
         \A i \in 1 .. Len(fl) : gl[i] = fl[i], WholeOf(gl), WithinOf(gl)
  PROVE  WholeOf(fl) /\ WithinOf(fl)
<1>1. \A i \in DOMAIN fl : i \in DOMAIN gl /\ gl[i] = fl[i] /\ 1 \in DOMAIN fl
  OBVIOUS
<1>2. \A i \in DOMAIN fl : \A j \in 1 .. i : gl[j] = fl[j]
  OBVIOUS
<1>3. WholeOf(fl)
  BY <1>1 DEF WholeOf
<1>4. ASSUME NEW i \in DOMAIN fl
      PROVE  FirstBegin(fl) = FirstBegin(gl)
  BY <1>1 DEF FirstBegin
<1>5. WithinOf(fl)
  BY <1>1, <1>2, <1>4 DEF WithinOf
<1> QED BY <1>3, <1>5

\* No database has rolled past the begin of the flow at work.
LEMMA Fits ==
  ASSUME TypeInv, Started, Begun, Lengths, Reach, Working, ~broken, WithinOf(flows),
         NEW r \in RuleIds \ restarted
  PROVE  db[r].begin <= Sec(Current.first)
<1> DEFINE n == Len(flows)
<1>1. timedbInitialized /\ Current \in Inputs /\ n \in Nat /\ n \in 1 .. n /\ Current = flows[n]
  BY CurrentIs DEF TypeInv, Current
<1>2. n \in DOMAIN flows
  BY <1>1 DEF TypeInv
<1>3. /\ Sec(Current.first) >= FirstBegin(flows)
      /\ \A j \in 1 .. n : Sec(Current.first) >= Sec(flows[j].last) - Delay
  BY <1>1, <1>2 DEF WithinOf
<1>4. /\ db[r].begin \in Nat /\ db[r].end \in Nat /\ db[r].end = db[r].begin + Size * Step
      /\ Sec(Current.first) \in Nat
  BY <1>1, Seconds DEF Lengths, TypeInv, DatabasesOf
<1>5. CASE db[r].begin = FirstBegin(flows)
  BY <1>3, <1>4, <1>5
<1>6. CASE \E j \in 1 .. n : db[r].end < Sec(flows[j].last) + Step
  <2>1. PICK j \in 1 .. n : db[r].end < Sec(flows[j].last) + Step
    BY <1>6
  <2>2. flows[j] \in Inputs
    BY ElementOfSeq DEF TypeInv
  <2>3. Sec(flows[j].last) \in Nat
    BY <2>2, Seconds
  <2>4. Sec(Current.first) >= Sec(flows[j].last) - Delay
    BY <1>3
  <2> QED BY <1>4, <2>1, <2>3, <2>4, Sizes, Wide
<1>7. timedbInitialized /\ ~broken
  BY <1>1
<1> QED BY <1>5, <1>6, <1>7 DEF Reach

LEMMA RuleNumbers == \A r \in RuleIds : r \in Nat /\ 1 <= r
BY RulesGiven

LEMMA SavedKept ==
  ASSUME TypeInv, Started, Rings, Begun, Lengths, Reach, Kept, Save,
         WholeOf(flows), WithinOf(flows), ~broken, at \notin restarted'
  PROVE  RowSum(rows, at) + RingSum(db'[at]) = ValuesTo(flows, Len(flows))
<1> DEFINE d == Prepared(db[at], Current)
           n == Len(flows)
<1>1. Serve /\ at' \in Nat
  BY RulesGiven DEF Serve, Save, TypeInv
<1>2. /\ pc = "save" /\ Working /\ timedbInitialized /\ at \in RuleIds
      /\ Current \in Inputs /\ db[at] \in DatabasesOf(n) /\ n \in Nat
      /\ restarted' = IF Inactive(db[at], Current) THEN restarted \cup {at} ELSE restarted
  BY <1>1, ServedAt
<1>3. ~Inactive(db[at], Current) /\ at \notin restarted /\ d \in DatabasesOf(n)
  BY <1>1, <1>2, Served
<1>4. /\ Unmoved(db[at], d) /\ d.data = db[at].data
  BY <1>2, <1>3, PreparedIs DEF Started
<1>5. RingOf(d)
  <2>1. RingOf(db[at])
    BY <1>2, <1>3 DEF Rings
  <2> HIDE DEF d
  <2> QED BY <1>2, <1>4, <2>1, SameRing DEF Unmoved
<1>6. d.begin <= Sec(Current.first)
  <2>1. db[at].begin <= Sec(Current.first)
    BY <1>2, <1>3, Fits
  <2> QED BY <1>4, <2>1 DEF Unmoved
<1>7. Sec(Current.last) <= d.end
  <2>1. ~(d.end < Sec(Current.last))
    BY DEF Save, NeedsRollout
  <2>2. d.end \in Nat /\ Sec(Current.last) \in Nat
    BY <1>2, <1>3, Seconds DEF DatabasesOf
  <2> QED BY <2>1, <2>2
<1>8. Even(Current) /\ Current = flows[n] /\ n > 0
  BY <1>2, CurrentIs DEF WholeOf, Current, TypeInv
<1>9. db'[at] = SaveData(d, Current, n)
  BY <1>2 DEF Save, TypeInv
<1> HIDE DEF d
<1>10. RingSum(SaveData(d, Current, n)) = RingSum(d) + Current.value
  BY <1>2, <1>3, <1>5, <1>6, <1>7, <1>8, SaveAdds
<1>11. RingSum(d) = RingSum(db[at]) /\ RingSum(db[at]) \in Int
  BY <1>2, <1>4, RingSumSame, SumsOfType
<1>12. RowSum(rows, at) + RingSum(db[at]) = ValuesTo(flows, n - 1)
  <2>1. Done(at) = n - 1
    BY <1>2, RuleNumbers DEF Done
  <2> QED BY <1>2, <1>3, <2>1 DEF Kept, Alive
<1>13. ValuesTo(flows, n) = Current.value + ValuesTo(flows, n - 1) /\ ValuesTo(flows, n - 1) \in Int
  BY <1>8, ValuesNext DEF TypeInv
<1>14. RowSum(rows, at) \in Int
  BY RowSumType
<1>15. Current.value \in Int
  BY <1>2, ScalarAssumption
<1> QED BY <1>9, <1>10, <1>11, <1>12, <1>13, <1>14, <1>15

LEMMA KeptStep ==
  ASSUME TypeInv, Started, Rings, Begun, Lengths, Reach, Kept, [Next]_vars
  PROVE  Kept'
<1> SUFFICES ASSUME WholeOf(flows'), WithinOf(flows'), ~broken', Alive',
                    NEW r \in RuleIds \ restarted'
             PROVE  RowSum(rows', r) + RingSum(db'[r]) = ValuesTo(flows', Done(r)')
  BY DEF Kept
<1>0. flows \in Seq(Inputs) /\ Len(flows) \in Nat
  BY DEF TypeInv
<1>1. CASE Receive
  <2>1. /\ pc = "recv" /\ pc' = "save" /\ at' = 1
        /\ UNCHANGED <<rows, restarted, broken>>
    BY <1>1, FirstFlow
  <2>2. /\ flows' \in Seq(Inputs) /\ Len(flows') = Len(flows) + 1
        /\ \A i \in 1 .. Len(flows) : flows'[i] = flows[i]
    BY <1>1, ReceiveDatabases
  <2>3. WholeOf(flows) /\ WithinOf(flows)
    BY <1>0, <2>2, EarlierToo
  <2>4. Done(r)' = Len(flows)
    <3>1. Working' /\ at' <= r
      BY <2>1, RuleNumbers DEF Working
    <3> QED BY <1>0, <2>2, <3>1 DEF Done
  <2>5. Len(flows) \in 0 .. Len(flows)
    BY <1>0
  <2>6. ValuesTo(flows', Len(flows)) = ValuesTo(flows, Len(flows))
    BY <1>0, <2>2, <2>5, ValuesKeep
  <2>7. CASE timedbInitialized /\ db' = db
    <3>1. Done(r) = Len(flows) /\ Alive
      BY <2>1 DEF Done, Alive, Working
    <3>2. RowSum(rows, r) + RingSum(db[r]) = ValuesTo(flows, Len(flows))
      BY <2>1, <2>3, <3>1 DEF Kept
    <3> QED BY <2>1, <2>4, <2>6, <2>7, <3>2
  <2>8. CASE ~timedbInitialized
    <3>1. rows = <<>> /\ Len(flows) = 0 /\ \A s \in Slots : db'[r].data[s].sum = 0
      BY <1>1, <2>8, FirstFlow
    <3>2. RingSum(db'[r]) = 0
      BY <3>1, RingSumEmpty
    <3>3. RowSum(rows', r) = 0
      <4>1. RowsWith(<<>>, r) = {}
        BY DEF RowsWith
      <4> QED BY <2>1, <3>1, <4>1, SumEmpty DEF RowSum
    <3>4. ValuesTo(flows', 0) = 0
      <4>1. 1 .. 0 = {}
        OBVIOUS
      <4> QED BY <4>1, SumEmpty DEF ValuesTo
    <3> QED BY <2>4, <3>1, <3>2, <3>3, <3>4
  <2> QED BY <1>1, <2>7, <2>8, ReceiveDatabases
<1>2. CASE Serve
  <2>1. /\ pc = "save" /\ Working /\ timedbInitialized /\ at \in RuleIds
        /\ \A q \in RuleIds \ {at} : db'[q] = db[q]
        /\ restarted' = IF Inactive(db[at], Current) THEN restarted \cup {at} ELSE restarted
        /\ UNCHANGED <<timedbInitialized, flows, rows, broken>>
    BY <1>2, ServedAt
  <2>2. r \notin restarted /\ WholeOf(flows) /\ WithinOf(flows) /\ ~broken /\ Alive
    BY <2>1 DEF Alive
  <2>3. RowSum(rows, r) + RingSum(db[r]) = ValuesTo(flows, Done(r))
    BY <2>2 DEF Kept
  <2>4. r \in Nat /\ at \in Nat /\ Len(Rules) \in Nat /\ r <= Len(Rules)
    BY <2>1, RulesGiven
  <2>5. CASE Save
    <3>1. (pc' = "recv" /\ at = Len(Rules)) \/ (pc' = "save" /\ at' = at + 1)
      BY <2>5 DEF Save
    <3>2. CASE r = at
      <4>1. Done(r)' = Len(flows)
        BY <2>1, <2>4, <3>1, <3>2 DEF Done, Working
      <4>2. RowSum(rows, at) + RingSum(db'[at]) = ValuesTo(flows, Len(flows))
        BY <2>2, <2>5, <3>2, SavedKept
      <4> QED BY <2>1, <3>2, <4>1, <4>2
    <3>3. CASE r # at
      <4>1. Done(r)' = Done(r)
        BY <2>1, <2>4, <3>1, <3>3 DEF Done, Working
      <4> QED BY <2>1, <2>3, <3>3, <4>1
    <3> QED BY <3>2, <3>3
  <2>6. CASE SaveNeedsRollout
    <3>1. /\ pc' = "flush" /\ at' = at
          /\ db' = [db EXCEPT ![at] = Prepared(db[at], Current)]
      BY <2>6 DEF SaveNeedsRollout
    <3>2. Done(r)' = Done(r)
      BY <2>1, <3>1 DEF Done, Working
    <3>3. CASE r = at
      <4>1. db[at] \in DatabasesOf(Len(flows)) /\ db[at].begin > 0 /\ Current \in Inputs
        BY <1>2, <2>1, ServedAt DEF Started
      <4>2. db'[at] = Prepared(db[at], Current) /\ ~Inactive(db[at], Current)
        BY <2>1, <3>1, <3>3 DEF TypeInv
      <4>3. db'[at].data = db[at].data
        BY <1>0, <4>1, <4>2, PreparedIs
      <4>4. RingSum(db'[at]) = RingSum(db[at])
        BY <4>3 DEF RingSum
      <4> QED BY <2>1, <2>3, <3>2, <3>3, <4>4
    <3>4. CASE r # at
      BY <2>1, <2>3, <3>2, <3>4
    <3> QED BY <3>3, <3>4
  <2> QED BY <1>2, <2>5, <2>6 DEF Serve
<1>3. CASE Flush
  <2>1. PICK n \in Outputs : Sent(n)
    BY <1>3, Flushed
  <2>2. UNCHANGED <<at, flows, restarted>> /\ Working /\ Working' /\ Alive
    BY <1>3, Flushed DEF Flush, Alive, Working
  <2>3. ~broken /\ Rules[r].out <= n
    BY <2>1, AllSent
  <2>4. RowSum(rows, r) + RingSum(db[r]) = ValuesTo(flows, Done(r))
    BY <2>2, <2>3 DEF Kept
  <2>5. Done(r)' = Done(r)
    BY <2>2 DEF Done
  <2>6. db'[r] = Roll(db[r])
    BY <2>1, <2>3 DEF Sent
  <2>7. db[r] \in DatabasesOf(Len(flows))
    BY DEF TypeInv
  <2>8. /\ Oldest(db[r]).sum \in Int /\ RingSum(db[r]) = Oldest(db[r]).sum + RingSum(Roll(db[r]))
    BY <1>0, <2>7, RollTakes
  <2>9. RingSum(Roll(db[r])) \in Int
    BY <1>0, <2>7, RollType, SumsOfType
  <2>10. RowSum(rows, r) \in Int /\ RowSum(rows', r) = Oldest(db[r]).sum + RowSum(rows, r)
    BY <2>1, <2>3, RowAdds
  <2> QED BY <2>2, <2>4, <2>5, <2>6, <2>8, <2>9, <2>10
<1>4. CASE LaterSteps
  <2>1. /\ UNCHANGED <<at, db, flows, rows, restarted, broken>>
        /\ Alive /\ Done(r)' = Done(r)
    BY <1>4 DEF LaterSteps, Alive, Working, Done
  <2> QED BY <2>1 DEF Kept
<1> QED BY <1>1, <1>2, <1>3, <1>4, AllSteps

WholeInv == ScalarInv /\ Begun /\ Lengths /\ Behind /\ Reach /\ Due /\ Made /\ Kept

\* With flows of whole seconds that come within the delay, every flow's value is
\* in the windows and records of every rule, once and whole, and a roll reads a
\* tree that was never made only during the first flow.
THEOREM WholeSecondsKeptCorrect == Spec => []WholeSecondsKept
<1>1. Init => WholeInv
  <2> SUFFICES ASSUME Init
               PROVE  WholeInv
    OBVIOUS
  <2>1. ScalarInv
    BY Initial
  <2>2. /\ flows = <<>> /\ Len(flows) = 0 /\ ~timedbInitialized /\ pc = "recv"
        /\ rows = <<>> /\ db = [r \in RuleIds |-> Create(Rules[r].uniq)]
    BY EmptySeq DEF Init
  <2>3. Begun /\ Lengths /\ Behind /\ Reach /\ Due
    BY <2>2 DEF Begun, Lengths, Behind, Reach, Due
  <2>4. Made
    BY <2>2 DEF Made, Working
  <2>5. Kept
    <3>1. ASSUME NEW r \in RuleIds
          PROVE  RowSum(rows, r) + RingSum(db[r]) = ValuesTo(flows, Done(r))
      <4>1. \A s \in Slots : db[r].data[s].sum = 0
        BY <2>2 DEF Create, EmptyWindow
      <4>2. RingSum(db[r]) = 0
        BY <4>1, RingSumEmpty
      <4>3. RowSum(rows, r) = 0
        <5>1. RowsWith(<<>>, r) = {}
          BY DEF RowsWith
        <5> QED BY <2>2, <5>1, SumEmpty DEF RowSum
      <4>4. Done(r) = 0
        BY <2>2 DEF Done, Working
      <4>5. ValuesTo(flows, 0) = 0
        <5>1. 1 .. 0 = {}
          OBVIOUS
        <5> QED BY <5>1, SumEmpty DEF ValuesTo
      <4> QED BY <4>2, <4>3, <4>4, <4>5
    <3> QED BY <3>1 DEF Kept
  <2> QED BY <2>1, <2>3, <2>4, <2>5 DEF WholeInv
<1>2. WholeInv /\ [Next]_vars => WholeInv'
  <2> SUFFICES ASSUME WholeInv, [Next]_vars
               PROVE  WholeInv'
    OBVIOUS
  <2>1. ScalarInv /\ Begun /\ Lengths /\ Behind /\ Reach /\ Due /\ Made /\ Kept
    BY DEF WholeInv
  <2>2. TypeInv /\ Started /\ Rings
    BY <2>1 DEF ScalarInv
  <2>3. ScalarInv'
    BY <2>1, Preserved
  <2>4. Begun' /\ Lengths' /\ Behind'
    BY <2>1, <2>2, BegunStep, LengthsStep, BehindStep
  <2>5. Due' /\ Reach' /\ Made'
    BY <2>1, <2>2, DueStep, ReachStep, MadeStep
  <2>6. Kept'
    BY <2>1, <2>2, KeptStep
  <2> QED BY <2>3, <2>4, <2>5, <2>6 DEF WholeInv
<1>3. WholeInv => WholeSecondsKept
  <2> SUFFICES ASSUME WholeInv
               PROVE  WholeSecondsKept
    OBVIOUS
  <2>1. TypeInv /\ Made /\ Kept
    BY DEF WholeInv, ScalarInv
  <2>2. flows \in Seq(Inputs)
    BY <2>1 DEF TypeInv
  <2>3. ASSUME \A i \in DOMAIN flows : /\ flows[i].first < flows[i].last
                                       /\ flows[i].first % 2 = 0 /\ flows[i].last % 2 = 0,
               pc = "recv", WithinDelay, ~broken, NEW r \in RuleIds \ restarted
        PROVE  TotalOf(r) = SumFunction([i \in DOMAIN flows |-> flows[i].value])
    <3>1. WholeOf(flows)
      BY <2>3 DEF WholeOf, Even
    <3>2. WithinOf(flows)
      BY <2>3 DEF WithinDelay, WithinOf, FirstBegin
    <3>3. Alive /\ Done(r) = Len(flows)
      BY <2>3 DEF Alive, Done, Working
    <3>4. RowSum(rows, r) + RingSum(db[r]) = ValuesTo(flows, Len(flows))
      BY <2>1, <2>3, <3>1, <3>2, <3>3 DEF Kept
    <3> QED BY <2>2, <3>4, TotalIs
  <2>4. pc = "crashed" => Len(flows) = 1
    BY <2>1 DEF Made
  <2> QED BY <2>3, <2>4 DEF WholeSecondsKept, ValuesKept
<1> QED BY <1>1, <1>2, <1>3, PTL DEF Spec
=============================================================================
