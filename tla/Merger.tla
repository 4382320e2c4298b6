------------------------------- MODULE Merger -------------------------------
(***************************************************************************)
(* The module merger: a thread per input takes its records to the one      *)
(* output, whose template grows with the formats of the inputs or is the   *)
(* user's.  The record and the template of the output are shared, under    *)
(* unirec_mutex.  The value of a field is the name of the record it is of. *)
(***************************************************************************)
EXTENDS Integers, Sequences, FiniteSets

CONSTANTS
  MergerIfcs,      \* the inputs, numbered from 1
  MergerFormats,   \* [input -> the formats it may have], sets of fields
  UserTemplates,   \* what -u may give: sets of fields, or NoTemplate
  NoTemplate,
  MaxMessages      \* bound on the messages of an input

\* There is an input at least, and they are numbered from 1.
Numbered == /\ IsFiniteSet(MergerIfcs) /\ MergerIfcs # {}
            /\ MergerIfcs = 1 .. Cardinality(MergerIfcs)

VARIABLES
  user, ignoreineof,   \* -u and -I
  pc,        \* [0 and the inputs -> where main and the threads are]
  ready,     \* how many inputs have had their first message
  msg,       \* [input -> the message at rec: its number, fields, what trap_recv said; and
             \*  history: how many receives of the input failed]
  inFields,  \* [input -> in_template, {} for none]
  outFields, \* out_template
  outRec,    \* out_rec
  sent,      \* history: the record sent last, and the message it is of
  taken,     \* history: [input -> the messages that were sent on]
  over       \* SIGTERM has come

vars == <<user, ignoreineof, pc, ready, msg, inFields, outFields, outRec, sent, taken, over>>

Zero       == <<0, 0>>
Junk       == <<0, 1>>
NoMessage  == [num |-> 0, fields |-> {}, ret |-> "none", failed |-> 0]
Last(i)    == msg[i].num
GoTo(t, l) == pc' = [pc EXCEPT ![t] = l]

Init ==
  /\ user \in UserTemplates /\ ignoreineof \in BOOLEAN
  /\ pc = [t \in MergerIfcs \cup {0} |-> IF t > 0 \/ user = NoTemplate THEN "first" ELSE "start"]
  /\ ready = 0
  /\ msg = [i \in MergerIfcs |-> NoMessage]
  /\ inFields = [i \in MergerIfcs |-> {}]
  /\ outFields = IF user = NoTemplate THEN {} ELSE user
  /\ outRec = [f \in outFields |-> Zero]
  /\ sent = [ifc |-> 0, num |-> 0, fields |-> {}, out |-> <<>>]
  /\ taken = [i \in MergerIfcs |-> 0]
  /\ over = FALSE

\* ur_copy_fields: the fields the two templates share.
UrCopyFields(out, i, values) ==
  [f \in DOMAIN out |-> IF f \in inFields'[i] THEN values ELSE out[f]]

Send(i, out) ==
  /\ sent' = [ifc |-> i, num |-> Last(i), fields |-> msg[i].fields, out |-> out]
  /\ taken' = [taken EXCEPT ![i] = @ + 1]

-----------------------------------------------------------------------------
(* set_output_by_first_message                                             *)

ReceiveFirst ==
  /\ pc[0] = "first" /\ ready < Cardinality(MergerIfcs) /\ ~over
  /\ \E fields \in MergerFormats[ready + 1] :
       /\ msg' = [msg EXCEPT ![ready + 1] = [num |-> 1, fields |-> fields, ret |-> "format",
                                             failed |-> 0]]
       /\ inFields' = [inFields EXCEPT ![ready + 1] = fields]
       /\ outFields' = outFields \cup fields
  /\ ready' = ready + 1
  /\ UNCHANGED <<user, ignoreineof, pc, outRec, sent, taken, over>>

\* Terminated, or another error: there is no format of the input to be had.
FirstFails ==
  /\ pc[0] = "first" /\ ready < Cardinality(MergerIfcs)
  /\ GoTo(0, "exit")
  /\ UNCHANGED <<user, ignoreineof, ready, msg, inFields, outFields, outRec, sent, taken, over>>

\* The first messages go out one after the other, in the one record.
SendFirst ==
  /\ pc[0] = "first" /\ ready = Cardinality(MergerIfcs)
  /\ LET i == 1 + Cardinality({j \in MergerIfcs : taken[j] > 0})
         before == IF i = 1 THEN [f \in outFields |-> Zero] ELSE outRec
     IN /\ inFields' = inFields
        /\ outRec' = UrCopyFields(before, i, <<i, 1>>)
        /\ Send(i, outRec')
        /\ IF i = ready THEN GoTo(0, "start") ELSE UNCHANGED pc
  /\ UNCHANGED <<user, ignoreineof, ready, msg, outFields, over>>

StartThreads ==
  /\ pc[0] = "start"
  /\ pc' = [t \in DOMAIN pc |-> IF t = 0 THEN "join" ELSE "recv"]
  /\ UNCHANGED <<user, ignoreineof, ready, msg, inFields, outFields, outRec, sent, taken, over>>

\* The threads are gone: the message of the end is sent.
Join ==
  /\ pc[0] = "join" /\ \A i \in MergerIfcs : pc[i] = "exit"
  /\ GoTo(0, "exit")
  /\ UNCHANGED <<user, ignoreineof, ready, msg, inFields, outFields, outRec, sent, taken, over>>

-----------------------------------------------------------------------------
(* capture_thread                                                          *)

Thread(i) == UNCHANGED <<user, ignoreineof, ready, over>>

\* A message: of the format the input had last, or of another one.
Receive(i) ==
  /\ pc[i] = "recv" /\ ~over /\ Last(i) < MaxMessages
  /\ \E fields \in MergerFormats[i] :
       msg' = [msg EXCEPT ![i] = [num |-> @.num + 1, fields |-> fields, failed |-> @.failed,
                 ret |-> IF fields = @.fields THEN "ok" ELSE "format"]]
  /\ GoTo(i, "lock")
  /\ Thread(i) /\ UNCHANGED <<inFields, outFields, outRec, sent, taken>>

\* The message of the end.  With -I it is taken for a record.
ReceiveEnd(i) ==
  /\ pc[i] = "recv" /\ ~over
  /\ IF ignoreineof /\ Last(i) < MaxMessages
     THEN /\ msg' = [msg EXCEPT ![i].num = @ + 1, ![i].ret = "end"]
          /\ GoTo(i, "lock")
     ELSE GoTo(i, "exit") /\ UNCHANGED msg
  /\ Thread(i) /\ UNCHANGED <<inFields, outFields, outRec, sent, taken>>

\* The result is not looked at, of the termination (which the loop may see as well) or of
\* another error (once an input, for a bound): size and record are those of the message
\* before.  A thread that has had none uses what was on its stack, when a format is there
\* already.
ReceiveFails(i) ==
  /\ pc[i] = "recv" /\ (over \/ msg[i].failed = 0)
  /\ LET stack == user = NoTemplate /\ Last(i) = 1
         junk  == stack \/ msg[i].ret \in {"end", "junk"}
     IN /\ \/ GoTo(i, "lock")
           \/ (over \/ stack) /\ GoTo(i, "exit")
           \/ stack /\ pc' = [t \in DOMAIN pc |-> "crash"]
        /\ msg' = [msg EXCEPT ![i] = [num |-> @.num, fields |-> @.fields, failed |-> @.failed + 1,
                                      ret |-> IF junk THEN "junk" ELSE "failed"]]
  /\ Thread(i) /\ UNCHANGED <<inFields, outFields, outRec, sent, taken>>

\* Mutant: the record of the message before is not cleared.
Uncleared(fields) == [f \in fields |-> IF f \in DOMAIN outRec THEN outRec[f] ELSE Zero]

\* The memory of the record, new or set to zero.
Cleared(fields) == [f \in fields |-> Zero]

\* The critical section.  Without -u a new format is added to the output's, which gets
\* a new record.  A format is also taken on when the input had none.  A send that fails,
\* as every one does after the termination, is the thread's last.
Forward(i) ==
  LET new == msg[i].ret = "format" \/ inFields[i] = {}
      grow == user = NoTemplate /\ msg[i].ret = "format"
  IN /\ pc[i] = "lock" /\ msg[i].fields # {}
     /\ inFields' = [inFields EXCEPT ![i] = IF new THEN msg[i].fields ELSE @]
     /\ outFields' = IF grow THEN outFields \cup msg[i].fields ELSE outFields
     /\ outRec' = UrCopyFields(Cleared(outFields'), i,
                               IF msg[i].ret \in {"end", "junk"} THEN Junk ELSE <<i, Last(i)>>)
     /\ \/ ~over /\ Send(i, outRec') /\ GoTo(i, "recv")
        \/ UNCHANGED <<sent, taken>> /\ GoTo(i, "exit")
     /\ Thread(i) /\ UNCHANGED msg

\* Terminated or ended before its first message: there is no format to be had.
NoDataFmt(i) ==
  /\ pc[i] = "lock" /\ msg[i].fields = {}
  /\ GoTo(i, "exit")
  /\ Thread(i) /\ UNCHANGED <<msg, inFields, outFields, outRec, sent, taken>>

Terminate ==
  /\ ~over /\ over' = TRUE
  /\ UNCHANGED <<user, ignoreineof, pc, ready, msg, inFields, outFields, outRec, sent, taken>>

Next ==
  \/ ReceiveFirst \/ FirstFails \/ SendFirst \/ StartThreads \/ Join \/ Terminate
  \/ \E i \in MergerIfcs : Receive(i) \/ ReceiveEnd(i) \/ ReceiveFails(i)
                           \/ Forward(i) \/ NoDataFmt(i)

Spec == Init /\ [][Next]_vars

-----------------------------------------------------------------------------

\* A record goes out with the values of the message it is of, read in the format that
\* came with it, and none of another input's: the formats of the inputs are all in the
\* output's unless the user gave one.
\* The first messages share a record that is not cleared, and are left out.  Whatever
\* the threads do to the template, no message is left behind; and none goes out twice,
\* unless a receive failed: the result is not read, and the stale record is sent again.
SentAsReceived ==
  /\ sent.num > (IF user = NoTemplate THEN 1 ELSE 0) /\ ~ignoreineof =>
       /\ user = NoTemplate => sent.fields \subseteq DOMAIN sent.out
       /\ \A f \in DOMAIN sent.out :
            sent.out[f] = IF f \in sent.fields THEN <<sent.ifc, sent.num>> ELSE Zero
  /\ \A i \in MergerIfcs :
       pc[i] = "recv" => taken[i] >= Last(i) /\ (msg[i].failed = 0 => taken[i] = Last(i))
=============================================================================
