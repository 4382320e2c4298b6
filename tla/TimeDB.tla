------------------------------- MODULE TimeDB -------------------------------
(***************************************************************************)
(* The time series database of the scalar aggregator                       *)
(* (scalar-aggregator/timedb.c): a ring of Size windows of Step seconds    *)
(* each, in which a flow's value is spread over the time the flow took.    *)
(* A database is a record; the C functions are operators on it.            *)
(*                                                                         *)
(* The time stamps of flows are in half seconds, so that they have a part  *)
(* the code cuts off; those of windows are in seconds, as in the code.     *)
(* The value of a flow is a multiple of its duration: sums stay integers.  *)
(***************************************************************************)
EXTENDS Integers, FiniteSets

CONSTANTS
  Step,       \* -t
  Delay,      \* -d
  InactiveT   \* -I

ASSUME TimeDBAssumption ==
  Step \in Nat \ {0} /\ Delay \in Nat \ {0} /\ InactiveT \in Nat \ {0}

\* Mutant: one window less.
SizeShort == (Delay \div Step) + 1

Size == (Delay \div Step) + 2

Slots == 0 .. Size - 1

Sec(t) == t \div 2              \* ur_time_get_sec
Min2(a, b) == IF a < b THEN a ELSE b
Max2(a, b) == IF a > b THEN a ELSE b

\* A window: what it sums up, how many flows, the distinct values (the B+
\* tree), and, as a history, the flows saved in it.
EmptyWindow(b, tree) ==
  [begin |-> b, end |-> b + Step, sum |-> 0, count |-> 0, tree |-> tree,
   ids |-> {}]

\* timedb_create; uniq: a database of distinct values.
Create(uniq) ==
  [begin |-> 0, end |-> 0, uniq |-> uniq, initialized |-> FALSE, dataBegin |-> 0,
   data |-> [s \in Slots |-> [EmptyWindow(0, {}) EXCEPT !.end = 0]]]

\* The slot of window number i, counted from the oldest; its window.
SlotOf(db, i) == (db.dataBegin + i) % Size
RollingData(db, i) == db.data[SlotOf(db, i)]

\* timedb_init: slot 0 gets the first window, wherever the ring begins, and
\* the trees stay as they are.
TimedbInit(db, time) ==
  LET b == time - (time % Step) IN
  [db EXCEPT !.begin = b, !.end = b + Size * Step,
             !.data = [s \in Slots |-> EmptyWindow(b + s * Step, @[s].tree)]]

\* timedb_init_tree
TimedbInitTree(db) == IF db.uniq THEN [db EXCEPT !.initialized = TRUE] ELSE db

Inactive(db, f) == Sec(f.first) - db.begin > InactiveT

\* The first part of timedb_save_data, up to the value.
Prepared(db, f) ==
  LET db1 == IF db.begin = 0 THEN TimedbInit(db, Sec(f.first)) ELSE db
      db2 == TimedbInitTree(db1)
  IN IF Inactive(db2, f) THEN TimedbInit(db2, Sec(f.first)) ELSE db2

NeedsRollout(db, f) == db.end < Sec(f.last)

\* The windows of a prepared database that flow f is saved in.
Touches(w, f) == w.begin <= Sec(f.last) /\ w.end >= Sec(f.first)

\* The share of window w in flow f.  A value over a duration of zero is
\* infinite, and goes to the window as a whole.
Share(w, f) ==
  IF f.first = f.last THEN f.value
  ELSE (f.value \div (f.last - f.first))
         * (Min2(2 * w.end, f.last) - Max2(2 * w.begin, f.first))

\* Window w with flow f, number i, saved in it.
Saved(db, w, f, i) ==
  [w EXCEPT !.sum = @ + Share(w, f),
            !.count = IF db.uniq THEN @ ELSE @ + 1,
            !.tree = IF db.uniq THEN @ \cup {f.key} ELSE @,
            !.ids = @ \cup {i}]

\* The rest of timedb_save_data, for a database that needs no rollout.
SaveData(db, f, i) ==
  [db EXCEPT !.data = [s \in Slots |-> IF Touches(@[s], f)
                                       THEN Saved(db, @[s], f, i) ELSE @[s]]]

\* What timedb_roll_db hands out: the window the ring begins with.
Oldest(db) ==
  LET w == RollingData(db, 0) IN
  [time |-> w.begin, sum |-> w.sum,
   count |-> IF db.uniq THEN Cardinality(w.tree) ELSE w.count, ids |-> w.ids]

\* A roll of a database of distinct values reads its trees.
Rollable(db) == db.uniq => db.initialized

\* Mutant: slot 0 is taken for the oldest.
RollAlways0(db) ==
  [db EXCEPT !.data[0] = EmptyWindow(db.end, {}),
             !.begin = @ + Step, !.end = @ + Step]

\* timedb_roll_db: that window becomes the newest, empty.
Roll(db) ==
  [db EXCEPT !.data[SlotOf(db, 0)] = EmptyWindow(db.end, {}),
             !.begin = @ + Step, !.end = @ + Step,
             !.dataBegin = (@ + 1) % Size]
=============================================================================
