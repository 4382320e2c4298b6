------------------------------ MODULE MuxDemux ------------------------------
(***************************************************************************)
(* The modules mux and demux, joined by one link.  Mux has a thread per    *)
(* input interface, which wraps what it receives in a header and sends it  *)
(* out, after a hello message when the format of its input has changed.    *)
(* Demux unwraps the messages and sends them to the output interface of    *)
(* the same number.                                                        *)
(*                                                                         *)
(* The threads of mux keep the result of their last libtrap call in one    *)
(* shared variable, ret.  A test of ret after a call may see the thread's  *)
(* own result (when it is still in a register) or what another thread has  *)
(* stored since.  All links are non-blocking: a send may lose its message. *)
(***************************************************************************)
EXTENDS Integers, Sequences, FiniteSets, SequencesExt

CONSTANTS
  Ifcs,        \* the interfaces of mux's input and demux's output
  MaxRecords,  \* bound on the messages received per input
  MaxTotal,    \* bound on the messages received on all inputs
  MaxFormats,  \* bound on the formats per input
  MaxErrors,   \* bound on the failed receives, of both modules together
  Capacity     \* bound on the messages in the link

ASSUME MuxAssumption ==
  /\ MaxRecords \in Nat /\ MaxTotal \in Nat /\ MaxFormats \in Nat
  /\ MaxErrors \in Nat /\ Capacity \in Nat \ {0}

VARIABLES
  pc,       \* [Ifcs -> where the thread of mux is]
  ret,      \* the shared result
  own,      \* [Ifcs -> the result of the thread's own last receive]
  got,      \* [Ifcs -> the message its data pointer shows, 0 for none]
  input,    \* history: [Ifcs -> the formats of what came in]
  link,     \* the messages on their way
  current,  \* the message demux's data pointer shows
  format,   \* [Ifcs -> the format of demux's output, 0 for none]
  output,   \* history: [Ifcs -> what went out: [num, format, length]]
  errors,   \* the receives that failed
  mixed,    \* history: the threads that saw another one's result
  unsent    \* history: the interfaces a message of which was lost

vars == <<pc, ret, own, got, input, link, current, format, output, errors,
          mixed, unsent>>

muxVars   == <<pc, ret, own, got, input, mixed>>
demuxVars == <<current, format, output>>

NoMessage == [kind |-> "none", ifc |-> 0, num |-> 0, length |-> 0, format |-> 0]

\* The format the input of thread i has been in since its last message.
InputFormat(i) == IF input[i] = <<>> THEN 0 ELSE Last(input[i])

\* The length of message n: nothing, the one byte that ends a stream, or more
\* (two stand for any length above one).
Length(n) == IF n = 0 THEN 0 ELSE IF n = MaxRecords THEN 1 ELSE 2

Init ==
  /\ pc = [i \in Ifcs |-> "recv"]
  /\ ret = "ok"
  /\ own = [i \in Ifcs |-> "ok"]
  /\ got = [i \in Ifcs |-> 0]
  /\ input = [i \in Ifcs |-> <<>>]
  /\ link = <<>>
  /\ current = NoMessage
  /\ format = [i \in Ifcs |-> 0]
  /\ output = [i \in Ifcs |-> <<>>]
  /\ errors = 0
  /\ mixed = {}
  /\ unsent = {}
-----------------------------------------------------------------------------
\* capture_thread, for input interface i.

GoTo(i, l) == pc' = [pc EXCEPT ![i] = l]

\* A receive returns result r to thread i.
Returns(i, r) ==
  /\ ret' = r
  /\ own' = [own EXCEPT ![i] = r]

\* How many messages have been received on all inputs.
Received == MapThenSumSet(LAMBDA j : Len(input[j]), Ifcs)

\* A record, or last the end of the stream, arrives in the format of the one
\* before it or in a new one.
Recv(i) ==
  /\ pc[i] = "recv"
  /\ Len(input[i]) < MaxRecords
  /\ Received < MaxTotal
  /\ \E f \in {InputFormat(i), InputFormat(i) + 1} \cap 1 .. MaxFormats :
       /\ input' = [input EXCEPT ![i] = Append(@, f)]
       /\ Returns(i, IF f = InputFormat(i) THEN "ok" ELSE "changed")
  /\ got' = [got EXCEPT ![i] = Len(input[i]) + 1]
  /\ GoTo(i, "test")
  /\ UNCHANGED <<link, demuxVars, errors, mixed, unsent>>

\* The receive fails; the data pointer stays as it is.
RecvFails(i) ==
  /\ pc[i] = "recv"
  /\ errors < MaxErrors
  /\ errors' = errors + 1
  /\ Returns(i, "error")
  /\ GoTo(i, "test")
  /\ UNCHANGED <<got, input, link, demuxVars, mixed, unsent>>

\* What thread i does next, when it takes its receive to have returned r.  One
\* that takes a change of format for its own when its input has none yet
\* cannot load it, and ends.
After(i, r) ==
  CASE r = "ok" -> "send"
    [] r = "error" -> "invalid"
    [] r = "changed" /\ InputFormat(i) > 0 -> "hello"
    [] OTHER -> "ended"

\* Mutant: a change of format is taken for plain data.
TestForgetsHello(i) ==
  /\ pc[i] = "test"
  /\ GoTo(i, IF own[i] = "error" THEN "invalid" ELSE "send")
  /\ UNCHANGED <<ret, own, got, input, link, demuxVars, errors, mixed, unsent>>

\* The tests of ret: all see the thread's own result, or all another one, or
\* a success turns into another success between two of them, and so fits none.
Test(i) ==
  /\ pc[i] = "test"
  /\ \/ /\ GoTo(i, After(i, own[i]))
        /\ UNCHANGED mixed
     \/ /\ ret # own[i]
        /\ \E l \in {After(i, ret), "invalid"} : GoTo(i, l)
        /\ mixed' = mixed \cup {i}
  /\ UNCHANGED <<ret, own, got, input, link, demuxVars, errors, unsent>>

\* trap_ctx_send of message m (a critical section): it is lost when there is no room.
SendOut(i, m) ==
  \/ /\ Len(link) < Capacity
     /\ link' = Append(link, m)
     /\ ret' = "ok"
     /\ UNCHANGED unsent
  \/ /\ Len(link) = Capacity
     /\ ret' = "error"
     /\ unsent' = unsent \cup {i}
     /\ UNCHANGED link

Hello(i) ==
  /\ pc[i] = "hello"
  /\ SendOut(i, [kind |-> "hello", ifc |-> i, num |-> 0, length |-> 0,
                 format |-> InputFormat(i)])
  /\ GoTo(i, "send")
  /\ UNCHANGED <<own, got, input, demuxVars, errors, mixed>>

Send(i) ==
  /\ pc[i] = "send"
  /\ SendOut(i, [kind |-> "data", ifc |-> i, num |-> got[i],
                 length |-> Length(got[i]),
                 format |-> 0])
  /\ GoTo(i, "recv")
  /\ UNCHANGED <<own, got, input, demuxVars, errors, mixed>>

\* A failed receive is passed on as a message with number -1.
SendInvalid(i) ==
  /\ pc[i] = "invalid"
  /\ SendOut(i, [NoMessage EXCEPT !.kind = "invalid"])
  /\ GoTo(i, "recv")
  /\ UNCHANGED <<own, got, input, demuxVars, errors, mixed>>

Thread(i) == Test(i) \/ Hello(i) \/ Send(i) \/ SendInvalid(i)
-----------------------------------------------------------------------------
\* The main loop of demux.

\* The header mux counts is a byte longer than the one demux cuts off.
Padding == 1

\* Message m is handled; unsent: the messages lost before.
Handle(m) ==
  CASE m.kind = "hello" ->
         /\ format' = [format EXCEPT ![m.ifc] = m.format]
         /\ UNCHANGED <<output, unsent>>
    [] m.kind = "data" ->
         /\ UNCHANGED format
         /\ \/ /\ output' = [output EXCEPT ![m.ifc] =
                     Append(@, [num |-> m.num, format |-> format[m.ifc],
                                length |-> m.length + Padding])]
               /\ UNCHANGED unsent
            \/ unsent' = unsent \cup {m.ifc} /\ UNCHANGED output
    [] OTHER -> UNCHANGED <<format, output, unsent>>

\* Mutant: the message handled is the one before.
DemuxLags ==
  /\ link # <<>>
  /\ current' = Head(link)
  /\ Handle(current)
  /\ link' = Tail(link)
  /\ UNCHANGED <<muxVars, errors>>

Demux ==
  /\ link # <<>>
  /\ current' = Head(link)
  /\ Handle(Head(link))
  /\ link' = Tail(link)
  /\ UNCHANGED <<muxVars, errors>>

\* A receive that fails goes unnoticed: the last message is handled again.
\* (Before the first one there is none to handle: demux would crash.)
DemuxRecvFails ==
  /\ errors < MaxErrors
  /\ current # NoMessage
  /\ errors' = errors + 1
  /\ Handle(current)
  /\ UNCHANGED <<muxVars, link, current>>

Next ==
  \/ \E i \in Ifcs : Recv(i) \/ RecvFails(i) \/ Thread(i)
  \/ Demux \/ DemuxRecvFails

\* The threads and demux keep running; the inputs and errors owe nothing.
Fairness == (\A i \in Ifcs : WF_vars(Thread(i))) /\ WF_vars(Demux)

Spec == Init /\ [][Next]_vars /\ Fairness
-----------------------------------------------------------------------------
\* Properties.

Results == {"ok", "changed", "error"}

\* Every variable has its type.
TypeOK ==
  /\ pc \in [Ifcs -> {"recv", "test", "hello", "send", "invalid", "ended"}]
  /\ ret \in Results /\ own \in [Ifcs -> Results]
  /\ \A i \in Ifcs : got[i] \in 0 .. Len(input[i])
  /\ \A i \in Ifcs : \A n \in DOMAIN output[i] :
       output[i][n].num \in 0 .. Len(input[i])
  /\ Len(link) <= Capacity
  /\ format \in [Ifcs -> 0 .. MaxFormats]
  /\ errors \in 0 .. MaxErrors
  /\ mixed \subseteq Ifcs /\ unsent \subseteq Ifcs

\* An output carries the messages of its own input, in their order; one comes
\* twice only after a failed receive.  It goes out in the format it came in,
\* whatever the other threads do, if none of its interface was lost and its
\* thread saw its own results, and nothing of it is cut off.
RoutedInOrder ==
  /\ TypeOK
  /\ \A i \in Ifcs : \A m, n \in DOMAIN output[i] :
       m < n => /\ output[i][m].num <= output[i][n].num
                /\ errors = 0 => output[i][m].num < output[i][n].num
  /\ \A i \in Ifcs \ (mixed \cup unsent) : \A n \in DOMAIN output[i] :
       /\ output[i][n].format = input[i][output[i][n].num]
       /\ output[i][n].length >= Length(output[i][n].num)

\* "send only payload data": what goes out is no longer than what came in, so
\* that demux recovers what mux was given.
PayloadOnly ==
  \A i \in Ifcs : \A n \in DOMAIN output[i] :
    output[i][n].length <= Length(output[i][n].num)

\* A message whose thread saw its own results goes out or is lost in a send.
GoesThrough ==
  \A i \in Ifcs : \A n \in 1 .. MaxRecords :
    (got[i] = n) ~> \/ \E m \in DOMAIN output[i] : output[i][m].num = n
                    \/ i \in mixed \cup unsent
=============================================================================
