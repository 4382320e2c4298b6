---------------------------- MODULE MuxDemux_proofs ----------------------------
(***************************************************************************)
(* Proofs about mux and demux: what demux puts out on an interface are the *)
(* messages of the input of the same number, in their order, and in the    *)
(* format they came in.                                                    *)
(***************************************************************************)
EXTENDS MuxDemux, SequenceTheorems, TLAPS

(***************************************************************************)
(* The inductive invariant.                                                *)
(***************************************************************************)

Formats == 0 .. MaxFormats

Messages ==
  [kind : {"none", "hello", "data", "invalid"}, ifc : Ifcs \cup {0}, num : Nat,
   length : Nat, format : Formats]

PutOut == [num : Nat, format : Formats, length : Nat]

TypeInv ==
  /\ pc \in [Ifcs -> {"recv", "test", "hello", "send", "invalid", "ended"}]
  /\ ret \in Results /\ own \in [Ifcs -> Results]
  /\ input \in [Ifcs -> Seq(1 .. MaxFormats)]
  /\ got \in [Ifcs -> Nat] /\ \A i \in Ifcs : got[i] <= Len(input[i])
  /\ link \in Seq(Messages) /\ Len(link) <= Capacity
  /\ current \in Messages
  /\ format \in [Ifcs -> Formats]
  /\ output \in [Ifcs -> Seq(PutOut)]
  /\ errors \in 0 .. MaxErrors
  /\ mixed \subseteq Ifcs /\ unsent \subseteq Ifcs

\* Message m carries data of interface i.
DataOf(i, m) == m.kind = "data" /\ m.ifc = i
HelloOf(i, m) == m.kind = "hello" /\ m.ifc = i
Addressed(m) == m.kind \in {"hello", "data"} => m.ifc \in Ifcs

\* Message x comes before message y, and not twice unless a receive has failed.
Before(x, y) == x <= y /\ (errors = 0 => x < y)

\* Thread i has still to send what it shows.
Holding(i) == pc[i] \in {"test", "hello", "send"}
Passed(i, x) == x <= got[i] /\ (errors = 0 /\ Holding(i) => x < got[i])

\* From the output back through demux and the link to the thread, the numbers rise.
OutputRises ==
  \A i \in Ifcs : \A m, n \in DOMAIN output[i] :
    m < n => Before(output[i][m].num, output[i][n].num)
LinkFollows ==
  \A i \in Ifcs : \A a \in DOMAIN link : DataOf(i, link[a]) =>
    \A n \in DOMAIN output[i] : Before(output[i][n].num, link[a].num)
LinkRises ==
  \A i \in Ifcs : \A a, b \in DOMAIN link :
    a < b /\ DataOf(i, link[a]) /\ DataOf(i, link[b]) => Before(link[a].num, link[b].num)
ThreadFollows ==
  \A i \in Ifcs :
    /\ \A n \in DOMAIN output[i] : Passed(i, output[i][n].num)
    /\ \A a \in DOMAIN link : DataOf(i, link[a]) => Passed(i, link[a].num)
CurrentLast ==
  /\ Addressed(current) /\ \A a \in DOMAIN link : Addressed(link[a])
  /\ \A i \in Ifcs : DataOf(i, current) =>
       /\ current.num <= got[i]
       /\ \A n \in DOMAIN output[i] : output[i][n].num <= current.num
       /\ \A a \in DOMAIN link : DataOf(i, link[a]) => current.num <= link[a].num

\* What comes after place b of the link, up to place a, is in the format announced at b:
\* place 0 is what demux knows already.
IsHello(i, b) == b = 0 \/ HelloOf(i, link[b])
FormatAt(i, b) == IF b = 0 THEN format[i] ELSE link[b].format
Sees(i, b, a) ==
  /\ b \in 0 .. a - 1 /\ IsHello(i, b)
  /\ \A c \in b + 1 .. a - 1 : ~IsHello(i, c)
Announced(i, a, f) == \A b \in 0 .. Len(link) : Sees(i, b, a) => FormatAt(i, b) = f

Clean == Ifcs \ (mixed \cup unsent)

\* Message n of input i, put on its way as length l.
Genuine(i, n, l) == n \in 1 .. Len(input[i]) /\ l = Length(n)

ThreadInForm ==
  \A i \in Clean :
    /\ pc[i] # "ended"
    /\ Holding(i) /\ (pc[i] = "test" => own[i] # "error") =>
         got[i] = Len(input[i]) /\ got[i] > 0
    /\ \/ pc[i] \in {"recv", "invalid", "send"}
       \/ pc[i] = "test" /\ own[i] # "changed"
       => Announced(i, Len(link) + 1, InputFormat(i))
LinkInForm ==
  \A i \in Clean : \A a \in DOMAIN link : DataOf(i, link[a]) =>
    /\ Genuine(i, link[a].num, link[a].length)
    /\ Announced(i, a, input[i][link[a].num])
CurrentInForm ==
  \A i \in Clean :
    /\ HelloOf(i, current) => format[i] = current.format
    /\ DataOf(i, current) => /\ Genuine(i, current.num, current.length)
                             /\ format[i] = input[i][current.num]
OutputInForm ==
  \A i \in Clean : \A n \in DOMAIN output[i] :
    /\ Genuine(i, output[i][n].num, output[i][n].length - Padding)
    /\ output[i][n].format = input[i][output[i][n].num]

Ordered == OutputRises /\ LinkFollows /\ LinkRises /\ ThreadFollows /\ CurrentLast
InForm == ThreadInForm /\ LinkInForm /\ CurrentInForm /\ OutputInForm

MuxInv == TypeInv /\ Ordered /\ InForm
-----------------------------------------------------------------------------
(***************************************************************************)
(* What is on the link and in the outputs.                                 *)
(***************************************************************************)

LEMMA Places ==
  ASSUME TypeInv
  PROVE  /\ Len(link) \in Nat /\ DOMAIN link = 1 .. Len(link)
         /\ \A a \in 1 .. Len(link) : link[a] \in Messages
         /\ \A i \in Ifcs : /\ Len(output[i]) \in Nat /\ DOMAIN output[i] = 1 .. Len(output[i])
                            /\ \A n \in 1 .. Len(output[i]) : output[i][n] \in PutOut
         /\ \A i \in Ifcs : /\ Len(input[i]) \in Nat /\ DOMAIN input[i] = 1 .. Len(input[i])
                            /\ \A n \in 1 .. Len(input[i]) : input[i][n] \in 1 .. MaxFormats
         /\ \A i \in Ifcs : got[i] \in Nat /\ got[i] <= Len(input[i])
<1>1. link \in Seq(Messages)
  BY DEF TypeInv
<1>2. /\ Len(link) \in Nat /\ DOMAIN link = 1 .. Len(link)
      /\ \A a \in 1 .. Len(link) : link[a] \in Messages
  BY <1>1, LenProperties, ElementOfSeq
<1>3. \A i \in Ifcs : /\ Len(output[i]) \in Nat /\ DOMAIN output[i] = 1 .. Len(output[i])
                      /\ \A n \in 1 .. Len(output[i]) : output[i][n] \in PutOut
  <2>1. \A i \in Ifcs : output[i] \in Seq(PutOut)
    BY DEF TypeInv
  <2> QED BY <2>1, LenProperties, ElementOfSeq
<1>4. \A i \in Ifcs : /\ Len(input[i]) \in Nat /\ DOMAIN input[i] = 1 .. Len(input[i])
                      /\ \A n \in 1 .. Len(input[i]) : input[i][n] \in 1 .. MaxFormats
  <2>1. \A i \in Ifcs : input[i] \in Seq(1 .. MaxFormats)
    BY DEF TypeInv
  <2> QED BY <2>1, LenProperties, ElementOfSeq
<1>5. \A i \in Ifcs : got[i] \in Nat /\ got[i] <= Len(input[i])
  BY DEF TypeInv
<1> QED BY <1>2, <1>3, <1>4, <1>5

\* The format an input is in is one of its formats, or none before the first message.
LEMMA InputFormatIs ==
  ASSUME TypeInv, NEW i \in Ifcs
  PROVE  /\ InputFormat(i) \in Formats
         /\ Len(input[i]) > 0 => InputFormat(i) = input[i][Len(input[i])]
                                 /\ InputFormat(i) \in 1 .. MaxFormats
         /\ Len(input[i]) = 0 => InputFormat(i) = 0
<1>1. input[i] \in Seq(1 .. MaxFormats)
  BY DEF TypeInv
<1>2. input[i] = <<>> <=> Len(input[i]) = 0
  BY <1>1, EmptySeq
<1>3. Len(input[i]) > 0 => input[i][Len(input[i])] \in 1 .. MaxFormats
  BY Places
<1>4. MaxFormats \in Nat
  BY MuxAssumption
<1>5. Len(input[i]) \in Nat
  BY Places
<1>6. CASE Len(input[i]) = 0
  BY <1>2, <1>4, <1>6 DEF InputFormat, Formats
<1>7. CASE Len(input[i]) > 0
  <2>1. InputFormat(i) = input[i][Len(input[i])]
    BY <1>2, <1>7 DEF InputFormat, Last
  <2> QED BY <1>3, <1>4, <1>7, <2>1 DEF Formats
<1> QED BY <1>5, <1>6, <1>7

LEMMA Pushes ==
  ASSUME TypeInv, NEW m \in Messages, link' = Append(link, m)
  PROVE  /\ link' \in Seq(Messages) /\ Len(link') = Len(link) + 1
         /\ DOMAIN link' = 1 .. Len(link) + 1
         /\ \A a \in 1 .. Len(link) : link'[a] = link[a]
         /\ link'[Len(link) + 1] = m
<1>1. link \in Seq(Messages)
  BY DEF TypeInv
<1>2. /\ link' \in Seq(Messages) /\ Len(link') = Len(link) + 1
      /\ \A a \in 1 .. Len(link) : link'[a] = link[a]
      /\ link'[Len(link) + 1] = m
  BY <1>1, AppendProperties
<1>3. DOMAIN link' = 1 .. Len(link')
  BY <1>2, LenProperties
<1> QED BY <1>2, <1>3

LEMMA Pops ==
  ASSUME TypeInv, link # <<>>, link' = Tail(link)
  PROVE  /\ link' \in Seq(Messages) /\ Len(link) > 0 /\ Len(link') = Len(link) - 1
         /\ DOMAIN link' = 1 .. Len(link) - 1
         /\ \A a \in 1 .. Len(link) - 1 : link'[a] = link[a + 1]
         /\ Head(link) = link[1] /\ Head(link) \in Messages
<1>1. link \in Seq(Messages)
  BY DEF TypeInv
<1>2. /\ link' \in Seq(Messages) /\ Len(link') = Len(link) - 1 /\ Head(link) \in Messages
      /\ \A a \in 1 .. Len(link') : link'[a] = link[a + 1]
  BY <1>1, HeadTailProperties
<1>3. DOMAIN link' = 1 .. Len(link')
  BY <1>2, LenProperties
<1>4. Len(link) \in Nat \ {0}
  BY <1>1, EmptySeq
<1>5. Head(link) = link[1]
  BY <1>1
<1> QED BY <1>2, <1>3, <1>4, <1>5

\* What the output of interface i gets from a message of it.
Wrapped(i, m) == [num |-> m.num, format |-> format[i], length |-> m.length + Padding]

LEMMA Puts ==
  ASSUME TypeInv, NEW m \in Messages, NEW i \in Ifcs,
         output' = [output EXCEPT ![i] = Append(@, Wrapped(i, m))]
  PROVE  /\ output' \in [Ifcs -> Seq(PutOut)]
         /\ \A j \in Ifcs \ {i} : output'[j] = output[j]
         /\ DOMAIN output'[i] = 1 .. Len(output[i]) + 1
         /\ \A n \in 1 .. Len(output[i]) : output'[i][n] = output[i][n]
         /\ output'[i][Len(output[i]) + 1] = Wrapped(i, m)
<1>1. Wrapped(i, m) \in PutOut
  BY DEF Wrapped, PutOut, Messages, Padding, TypeInv
<1>2. output \in [Ifcs -> Seq(PutOut)] /\ output[i] \in Seq(PutOut)
  BY DEF TypeInv
<1>3. output'[i] = Append(output[i], Wrapped(i, m))
  BY <1>2
<1>4. /\ output'[i] \in Seq(PutOut) /\ Len(output'[i]) = Len(output[i]) + 1
      /\ \A n \in 1 .. Len(output[i]) : output'[i][n] = output[i][n]
      /\ output'[i][Len(output[i]) + 1] = Wrapped(i, m)
  BY <1>1, <1>2, <1>3, AppendProperties
<1>5. DOMAIN output'[i] = 1 .. Len(output'[i])
  BY <1>4, LenProperties
<1>6. output' \in [Ifcs -> Seq(PutOut)] /\ \A j \in Ifcs \ {i} : output'[j] = output[j]
  BY <1>2, <1>4
<1> QED BY <1>4, <1>5, <1>6

\* Handling a message: it is the format of its output, goes out there, or is lost.
Heard(m) ==
  /\ m.kind = "hello" /\ format' = [format EXCEPT ![m.ifc] = m.format]
  /\ UNCHANGED <<output, unsent>>
Out(m) ==
  /\ m.kind = "data" /\ output' = [output EXCEPT ![m.ifc] = Append(@, Wrapped(m.ifc, m))]
  /\ UNCHANGED <<format, unsent>>
Missed(m) ==
  /\ m.kind = "data" /\ unsent' = unsent \cup {m.ifc} /\ UNCHANGED <<format, output>>
Ignored(m) == m.kind \notin {"hello", "data"} /\ UNCHANGED <<format, output, unsent>>

LEMMA HandleIs ==
  ASSUME NEW m, Handle(m)
  PROVE  Heard(m) \/ Out(m) \/ Missed(m) \/ Ignored(m)
<1>1. CASE m.kind = "hello"
  BY <1>1 DEF Handle, Heard
<1>2. CASE m.kind = "data"
  <2>1. UNCHANGED format
    BY <1>2 DEF Handle
  <2>2. CASE unsent' = unsent \cup {m.ifc} /\ UNCHANGED output
    BY <1>2, <2>1, <2>2 DEF Missed
  <2>3. CASE /\ output' = [output EXCEPT ![m.ifc] =
                   Append(@, [num |-> m.num, format |-> format[m.ifc],
                              length |-> m.length + Padding])]
             /\ UNCHANGED unsent
    BY <1>2, <2>1, <2>3 DEF Out, Wrapped
  <2> QED BY <1>2, <2>2, <2>3 DEF Handle
<1>3. CASE m.kind \notin {"hello", "data"}
  BY <1>3 DEF Handle, Ignored
<1> QED BY <1>1, <1>2, <1>3
-----------------------------------------------------------------------------
LEMMA InitType == Init => TypeInv
<1> SUFFICES ASSUME Init PROVE TypeInv
  OBVIOUS
<1>1. MaxFormats \in Nat /\ MaxErrors \in Nat /\ Capacity \in Nat \ {0} /\ 0 \in Formats
  BY MuxAssumption DEF Formats
<1>2. \A i \in Ifcs : input[i] = <<>> /\ Len(input[i]) = 0 /\ got[i] = 0
  BY DEF Init
<1>3. Len(link) = 0 /\ link \in Seq(Messages) /\ output \in [Ifcs -> Seq(PutOut)]
      /\ input \in [Ifcs -> Seq(1 .. MaxFormats)]
  BY EmptySeq DEF Init
<1>4. current \in Messages
  BY <1>1 DEF Init, NoMessage, Messages
<1> QED BY <1>1, <1>2, <1>3, <1>4 DEF Init, TypeInv, Results

LEMMA MessageType ==
  ASSUME TypeInv, NEW i \in Ifcs
  PROVE  /\ [kind |-> "hello", ifc |-> i, num |-> 0, length |-> 0,
             format |-> InputFormat(i)] \in Messages
         /\ [kind |-> "data", ifc |-> i, num |-> got[i], length |-> Length(got[i]),
             format |-> 0] \in Messages
         /\ [NoMessage EXCEPT !.kind = "invalid"] \in Messages
<1>1. InputFormat(i) \in Formats /\ 0 \in Formats
  BY InputFormatIs, MuxAssumption DEF Formats
<1>2. got[i] \in Nat /\ Length(got[i]) \in Nat
  BY Places DEF Length
<1> QED BY <1>1, <1>2 DEF Messages, NoMessage

LEMMA SendType ==
  ASSUME TypeInv, NEW i \in Ifcs, NEW m \in Messages, SendOut(i, m)
  PROVE  /\ link' \in Seq(Messages) /\ Len(link') <= Capacity
         /\ ret' \in Results /\ unsent' \subseteq Ifcs
<1>1. CASE Len(link) < Capacity /\ link' = Append(link, m) /\ ret' = "ok" /\ UNCHANGED unsent
  <2>1. link' \in Seq(Messages) /\ Len(link') = Len(link) + 1
    BY <1>1, Pushes
  <2>2. Len(link') <= Capacity
    BY <1>1, <2>1, Places, MuxAssumption
  <2> QED BY <1>1, <2>1, <2>2 DEF TypeInv, Results
<1>2. CASE ret' = "error" /\ unsent' = unsent \cup {i} /\ UNCHANGED link
  BY <1>2 DEF TypeInv, Results
<1> QED BY <1>1, <1>2 DEF SendOut

LEMMA HandleType ==
  ASSUME TypeInv, NEW m \in Messages, Addressed(m), Handle(m)
  PROVE  /\ format' \in [Ifcs -> Formats] /\ output' \in [Ifcs -> Seq(PutOut)]
         /\ unsent' \subseteq Ifcs
<1>1. CASE Heard(m)
  BY <1>1 DEF Heard, TypeInv, Messages
<1>2. CASE Out(m)
  BY <1>2, Puts DEF Out, TypeInv, Addressed
<1>3. CASE Missed(m)
  BY <1>3 DEF Missed, TypeInv, Addressed
<1>4. CASE Ignored(m)
  BY <1>4 DEF Ignored, TypeInv
<1> QED BY <1>1, <1>2, <1>3, <1>4, HandleIs

LEMMA StepType == TypeInv /\ CurrentLast /\ [Next]_vars => TypeInv'
<1> SUFFICES ASSUME TypeInv, CurrentLast, [Next]_vars PROVE TypeInv'
  OBVIOUS
<1> USE DEF muxVars, demuxVars
<1>1. ASSUME NEW i \in Ifcs, Recv(i) PROVE TypeInv'
  <2>1. PICK f \in 1 .. MaxFormats :
          input' = [input EXCEPT ![i] = Append(@, f)]
          /\ Returns(i, IF f = InputFormat(i) THEN "ok" ELSE "changed")
    BY <1>1 DEF Recv
  <2>2. input \in [Ifcs -> Seq(1 .. MaxFormats)] /\ input[i] \in Seq(1 .. MaxFormats)
    BY DEF TypeInv
  <2>3. /\ Append(input[i], f) \in Seq(1 .. MaxFormats)
        /\ Len(Append(input[i], f)) = Len(input[i]) + 1
    BY <2>2, AppendProperties
  <2>4. input' \in [Ifcs -> Seq(1 .. MaxFormats)]
    BY <2>1, <2>2, <2>3
  <2>5. /\ Len(input'[i]) = Len(input[i]) + 1
        /\ \A j \in Ifcs \ {i} : input'[j] = input[j]
    BY <2>1, <2>2, <2>3
  <2>6. got' \in [Ifcs -> Nat] /\ \A j \in Ifcs : got'[j] <= Len(input'[j])
    <3>1. got' = [got EXCEPT ![i] = Len(input[i]) + 1] /\ got \in [Ifcs -> Nat]
      BY <1>1 DEF Recv, TypeInv
    <3> QED BY <2>5, <3>1, Places
  <2>7. ret' \in Results /\ own' \in [Ifcs -> Results]
    BY <2>1 DEF Returns, Results, TypeInv
  <2>8. pc' \in [Ifcs -> {"recv", "test", "hello", "send", "invalid", "ended"}]
    BY <1>1 DEF Recv, GoTo, TypeInv
  <2> QED BY <1>1, <2>4, <2>6, <2>7, <2>8 DEF Recv, TypeInv
<1>2. ASSUME NEW i \in Ifcs, RecvFails(i) PROVE TypeInv'
  <2>1. errors' \in 0 .. MaxErrors
    BY <1>2, MuxAssumption DEF RecvFails, TypeInv
  <2>2. ret' \in Results /\ own' \in [Ifcs -> Results]
    BY <1>2 DEF RecvFails, Returns, Results, TypeInv
  <2>3. pc' \in [Ifcs -> {"recv", "test", "hello", "send", "invalid", "ended"}]
    BY <1>2 DEF RecvFails, GoTo, TypeInv
  <2> QED BY <1>2, <2>1, <2>2, <2>3 DEF RecvFails, TypeInv
<1>3. ASSUME NEW i \in Ifcs, Test(i) PROVE TypeInv'
  <2>1. pc' \in [Ifcs -> {"recv", "test", "hello", "send", "invalid", "ended"}]
    <3>1. \A r : After(i, r) \in {"send", "invalid", "hello", "ended"}
      BY DEF After
    <3>2. \E l \in {"send", "invalid", "hello", "ended"} : GoTo(i, l)
      BY <1>3, <3>1 DEF Test
    <3> QED BY <3>2 DEF GoTo, TypeInv
  <2> QED BY <1>3, <2>1 DEF Test, TypeInv
<1>4. ASSUME NEW i \in Ifcs, NEW m \in Messages, SendOut(i, m), pc[i] \in {"hello", "send", "invalid"},
             GoTo(i, "send") \/ GoTo(i, "recv"),
             UNCHANGED <<own, got, input, demuxVars, errors, mixed>>
      PROVE  TypeInv'
  <2>1. pc' \in [Ifcs -> {"recv", "test", "hello", "send", "invalid", "ended"}]
    BY <1>4 DEF GoTo, TypeInv
  <2> QED BY <1>4, <2>1, SendType DEF TypeInv
<1>5. ASSUME NEW i \in Ifcs, Hello(i) \/ Send(i) \/ SendInvalid(i) PROVE TypeInv'
  BY <1>4, <1>5, MessageType DEF Hello, Send, SendInvalid
<1>6. CASE Demux
  <2>1. /\ link' \in Seq(Messages) /\ Len(link') <= Capacity /\ current' \in Messages
        /\ Head(link) \in Messages /\ Addressed(Head(link)) /\ Handle(Head(link))
    BY <1>6, Pops, Places, MuxAssumption DEF Demux, TypeInv, CurrentLast
  <2> QED BY <1>6, <2>1, HandleType DEF Demux, TypeInv
<1>7. CASE DemuxRecvFails
  <2>1. errors' \in 0 .. MaxErrors
    BY <1>7, MuxAssumption DEF DemuxRecvFails, TypeInv
  <2>2. current \in Messages /\ Addressed(current) /\ Handle(current)
    BY <1>7 DEF DemuxRecvFails, TypeInv, CurrentLast
  <2> QED BY <1>7, <2>1, <2>2, HandleType DEF DemuxRecvFails, TypeInv
<1>8. CASE UNCHANGED vars
  BY <1>8 DEF vars, TypeInv
<1> QED BY <1>1, <1>2, <1>3, <1>5, <1>6, <1>7, <1>8 DEF Next, Thread
-----------------------------------------------------------------------------
(***************************************************************************)
(* The order.                                                              *)
(***************************************************************************)

LEMMA InitOrdered == Init => Ordered
<1> SUFFICES ASSUME Init PROVE Ordered
  OBVIOUS
<1>1. /\ DOMAIN link = {} /\ current.kind = "none"
      /\ \A i \in Ifcs : DOMAIN output[i] = {}
  BY DEF Init, NoMessage
<1> QED BY <1>1 DEF Ordered, OutputRises, LinkFollows, LinkRises, ThreadFollows, CurrentLast,
                    Addressed, DataOf

\* Nothing moves but the threads, and a thread takes a new message only when it has sent
\* the one before.
Onward ==
  /\ (errors' = 0 => errors = 0)
  /\ \A i \in Ifcs : /\ got'[i] \in Nat /\ got'[i] >= got[i]
                     /\ errors' = 0 /\ Holding(i)' => Holding(i) \/ got'[i] > got[i]

LEMMA OrderKept ==
  ASSUME TypeInv, Ordered, UNCHANGED <<link, output, current>>, Onward
  PROVE  Ordered'
<1>1. /\ \A i \in Ifcs : \A n \in DOMAIN output[i] : output[i][n].num \in Nat
      /\ \A a \in DOMAIN link : link[a].num \in Nat
      /\ current.num \in Nat /\ \A i \in Ifcs : got[i] \in Nat /\ got'[i] \in Nat
  BY Places DEF PutOut, Messages, Onward, TypeInv
<1>2. \A x, y \in Nat : Before(x, y) => Before(x, y)'
  BY DEF Before, Onward
<1>3. \A i \in Ifcs, x \in Nat : Passed(i, x) => Passed(i, x)'
  BY <1>1 DEF Passed, Onward
<1>4. OutputRises'
  BY <1>1, <1>2 DEF OutputRises, Ordered
<1>5. LinkFollows'
  BY <1>1, <1>2 DEF LinkFollows, Ordered, DataOf
<1>6. LinkRises'
  BY <1>1, <1>2 DEF LinkRises, Ordered, DataOf
<1>7. ThreadFollows'
  BY <1>1, <1>3 DEF ThreadFollows, Ordered, DataOf
<1>8. CurrentLast'
  BY <1>1 DEF CurrentLast, Ordered, DataOf, Addressed, Onward
<1> QED BY <1>4, <1>5, <1>6, <1>7, <1>8 DEF Ordered

\* A message is appended: data of thread i is what i holds until then.
LEMMA OrderPushed ==
  ASSUME TypeInv, Ordered, NEW m \in Messages, link' = Append(link, m), Addressed(m),
         UNCHANGED <<output, current, got, errors>>,
         \A i \in Ifcs : Holding(i)' => Holding(i),
         \A i \in Ifcs : DataOf(i, m) => Holding(i) /\ ~Holding(i)' /\ m.num = got[i]
  PROVE  Ordered'
<1> DEFINE L == Len(link)
<1>1. /\ L \in Nat /\ DOMAIN link = 1 .. L /\ DOMAIN link' = 1 .. L + 1
      /\ \A a \in 1 .. L : link'[a] = link[a]
      /\ link'[L + 1] = m
  BY Places, Pushes
<1> HIDE DEF L
<1>2. \A a \in DOMAIN link' : (a \in DOMAIN link /\ link'[a] = link[a]) \/ (a = L + 1 /\ link'[a] = m)
  BY <1>1
<1>3. /\ \A i \in Ifcs : \A n \in DOMAIN output[i] : output[i][n].num \in Nat
      /\ \A a \in DOMAIN link : link[a].num \in Nat
      /\ current.num \in Nat /\ \A i \in Ifcs : got[i] \in Nat
  BY Places DEF PutOut, Messages, TypeInv
<1>4. \A i \in Ifcs, x \in Nat :
        Passed(i, x) => /\ x <= got[i] /\ (errors = 0 /\ Holding(i)' => x < got[i])
                        /\ DataOf(i, m) => Before(x, m.num)
  BY <1>3 DEF Passed, Before
<1>6. OutputRises'
  BY DEF OutputRises, Ordered, Before
<1>7. LinkFollows'
  <2> SUFFICES ASSUME NEW i \in Ifcs, NEW a \in DOMAIN link', DataOf(i, link'[a]),
                      NEW n \in DOMAIN output[i]
               PROVE  Before(output[i][n].num, link'[a].num)
    BY DEF LinkFollows, DataOf, Before
  <2>1. CASE a \in DOMAIN link /\ link'[a] = link[a]
    BY <2>1 DEF LinkFollows, Ordered
  <2>2. CASE link'[a] = m
    <3>1. Passed(i, output[i][n].num)
      BY DEF ThreadFollows, Ordered
    <3> QED BY <1>3, <1>4, <2>2, <3>1
  <2> QED BY <1>2, <2>1, <2>2
<1>8. LinkRises'
  <2> SUFFICES ASSUME NEW i \in Ifcs, NEW a \in DOMAIN link', NEW b \in DOMAIN link', a < b,
                      DataOf(i, link'[a]), DataOf(i, link'[b])
               PROVE  Before(link'[a].num, link'[b].num)
    BY DEF LinkRises, DataOf, Before
  <2>0. a \in DOMAIN link /\ link'[a] = link[a]
    BY <1>1, <1>2
  <2>1. CASE b \in DOMAIN link /\ link'[b] = link[b]
    BY <2>0, <2>1 DEF LinkRises, Ordered
  <2>2. CASE link'[b] = m
    <3>1. Passed(i, link[a].num)
      BY <2>0 DEF ThreadFollows, Ordered
    <3> QED BY <1>3, <1>4, <2>0, <2>2, <3>1
  <2> QED BY <1>2, <2>1, <2>2
<1>9. ThreadFollows'
  <2> SUFFICES ASSUME NEW i \in Ifcs
               PROVE  /\ \A n \in DOMAIN output[i] :
                           /\ output[i][n].num <= got[i]
                           /\ errors = 0 /\ Holding(i)' => output[i][n].num < got[i]
                      /\ \A a \in DOMAIN link' : DataOf(i, link'[a]) =>
                           /\ link'[a].num <= got[i]
                           /\ errors = 0 /\ Holding(i)' => link'[a].num < got[i]
    BY DEF ThreadFollows, DataOf, Passed
  <2>1. \A n \in DOMAIN output[i] : Passed(i, output[i][n].num)
    BY DEF ThreadFollows, Ordered
  <2>2. ASSUME NEW a \in DOMAIN link', DataOf(i, link'[a])
        PROVE  /\ link'[a].num <= got[i]
               /\ errors = 0 /\ Holding(i)' => link'[a].num < got[i]
    <3>1. CASE a \in DOMAIN link /\ link'[a] = link[a]
      <4>1. Passed(i, link[a].num)
        BY <2>2, <3>1 DEF ThreadFollows, Ordered
      <4> QED BY <1>3, <1>4, <3>1, <4>1
    <3>2. CASE link'[a] = m
      BY <1>3, <2>2, <3>2
    <3> QED BY <1>2, <3>1, <3>2
  <2> QED BY <1>3, <1>4, <2>1, <2>2
<1>10. CurrentLast'
  <2>1. Addressed(current) /\ \A a \in DOMAIN link' : Addressed(link'[a])
    BY <1>2 DEF CurrentLast, Ordered
  <2>2. ASSUME NEW i \in Ifcs, DataOf(i, current)
        PROVE  /\ current.num <= got[i]
               /\ \A n \in DOMAIN output[i] : output[i][n].num <= current.num
               /\ \A a \in DOMAIN link' : DataOf(i, link'[a]) => current.num <= link'[a].num
    BY <1>2, <2>2 DEF CurrentLast, Ordered
  <2> QED BY <2>1, <2>2 DEF CurrentLast, Addressed, DataOf
<1> QED BY <1>6, <1>7, <1>8, <1>9, <1>10 DEF Ordered

\* A message goes out after what the output has: what is behind it on the link, and with its
\* thread, comes after it.
LEMMA OutputAfter ==
  ASSUME TypeInv, Ordered, NEW m \in Messages, NEW i \in Ifcs, DataOf(i, m),
         output' = [output EXCEPT ![i] = Append(@, Wrapped(i, m))],
         errors' = 0 => errors = 0,
         \A n \in DOMAIN output[i] : /\ output[i][n].num <= m.num
                                     /\ errors' = 0 => output[i][n].num < m.num
  PROVE  OutputRises'
<1>1. /\ \A j \in Ifcs \ {i} : output'[j] = output[j]
      /\ Len(output[i]) \in Nat /\ DOMAIN output[i] = 1 .. Len(output[i])
      /\ DOMAIN output'[i] = 1 .. Len(output[i]) + 1
      /\ \A n \in 1 .. Len(output[i]) : output'[i][n] = output[i][n]
      /\ output'[i][Len(output[i]) + 1].num = m.num
  <2>1. Wrapped(i, m).num = m.num
    BY DEF Wrapped
  <2> QED BY <2>1, Puts, Places
<1> SUFFICES ASSUME NEW j \in Ifcs, NEW a \in DOMAIN output'[j], NEW b \in DOMAIN output'[j], a < b
             PROVE  /\ output'[j][a].num <= output'[j][b].num
                    /\ errors' = 0 => output'[j][a].num < output'[j][b].num
  BY DEF OutputRises, Before
<1>2. CASE j # i
  BY <1>1, <1>2 DEF OutputRises, Ordered, Before
<1>3. CASE j = i /\ b \in 1 .. Len(output[i])
  <2>1. a \in DOMAIN output[i] /\ b \in DOMAIN output[i]
    BY <1>1, <1>3
  <2> QED BY <1>1, <1>3, <2>1 DEF OutputRises, Ordered, Before
<1>4. CASE j = i /\ b = Len(output[i]) + 1
  <2>1. a \in 1 .. Len(output[i])
    BY <1>1, <1>4
  <2>2. output'[i][a] = output[i][a] /\ output'[i][b].num = m.num
    BY <1>1, <1>4, <2>1
  <2> QED BY <1>1, <1>4, <2>1, <2>2
<1> QED BY <1>1, <1>2, <1>3, <1>4

\* What demux puts out for a message of number x is x or was there.
LEMMA OutputFrom ==
  ASSUME TypeInv, NEW m \in Messages, Addressed(m), Handle(m)
  PROVE  \A i \in Ifcs : \A n \in DOMAIN output'[i] :
           \/ n \in DOMAIN output[i] /\ output'[i][n] = output[i][n]
           \/ DataOf(i, m) /\ output'[i][n] = Wrapped(i, m)
<1>1. CASE UNCHANGED output
  BY <1>1
<1>2. CASE Out(m)
  <2>1. PICK i \in Ifcs : i = m.ifc
    BY <1>2 DEF Out, Addressed
  <2>2. output' = [output EXCEPT ![i] = Append(@, Wrapped(i, m))] /\ DataOf(i, m)
    BY <1>2, <2>1 DEF Out, DataOf
  <2> SUFFICES ASSUME NEW j \in Ifcs, NEW n \in DOMAIN output'[j]
               PROVE  \/ n \in DOMAIN output[j] /\ output'[j][n] = output[j][n]
                      \/ DataOf(j, m) /\ output'[j][n] = Wrapped(j, m)
    OBVIOUS
  <2>3. CASE j # i
    BY <2>2, <2>3, Puts
  <2>4. CASE j = i
    BY <2>2, <2>4, Puts, Places
  <2> QED BY <2>3, <2>4
<1> QED BY <1>1, <1>2, HandleIs DEF Heard, Missed, Ignored

LEMMA HandleRises ==
  ASSUME TypeInv, Ordered, NEW m \in Messages, Addressed(m), Handle(m),
         errors' = 0 => errors = 0,
         \A i \in Ifcs : DataOf(i, m) =>
           \A n \in DOMAIN output[i] : /\ output[i][n].num <= m.num
                                       /\ errors' = 0 => output[i][n].num < m.num
  PROVE  OutputRises'
<1>1. CASE UNCHANGED output
  BY <1>1 DEF OutputRises, Ordered, Before
<1>2. CASE Out(m)
  <2>1. PICK i \in Ifcs : i = m.ifc
    BY <1>2 DEF Out, Addressed
  <2>2. output' = [output EXCEPT ![i] = Append(@, Wrapped(i, m))] /\ DataOf(i, m)
    BY <1>2, <2>1 DEF Out, DataOf
  <2> QED BY <2>2, OutputAfter
<1> QED BY <1>1, <1>2, HandleIs DEF Heard, Missed, Ignored

LEMMA DemuxOrdered ==
  ASSUME TypeInv, Ordered, Demux
  PROVE  Ordered'
<1> USE DEF muxVars, demuxVars
<1>1. PICK m \in Messages : m = link[1] /\ m = Head(link)
  BY Pops DEF Demux
<1>2. /\ Len(link) \in Nat /\ Len(link) > 0 /\ DOMAIN link = 1 .. Len(link)
      /\ DOMAIN link' = 1 .. Len(link) - 1
      /\ \A a \in 1 .. Len(link) - 1 : link'[a] = link[a + 1]
      /\ 1 \in DOMAIN link /\ current' = m
  BY <1>1, Pops, Places DEF Demux
<1>3. \A a \in DOMAIN link' : /\ a + 1 \in DOMAIN link /\ link'[a] = link[a + 1]
                             /\ a \in Int /\ 1 < a + 1
  BY <1>2
<1>4. /\ \A i \in Ifcs : \A n \in DOMAIN output[i] : output[i][n].num \in Nat
      /\ \A a \in DOMAIN link : link[a].num \in Nat
      /\ m.num \in Nat /\ \A i \in Ifcs : got[i] \in Nat
  BY <1>1, Places DEF PutOut, Messages, TypeInv
<1>5. UNCHANGED <<pc, got, errors>> /\ Handle(m) /\ Addressed(m)
  BY <1>1, <1>2 DEF Demux, CurrentLast, Ordered
<1>6. \A x, y : Before(x, y)' <=> Before(x, y)
  BY <1>5 DEF Before
<1>7. \A i \in Ifcs, x \in Nat : Passed(i, x)' <=> Passed(i, x)
  BY <1>5 DEF Passed, Holding
<1>8. ASSUME NEW i \in Ifcs, DataOf(i, m)
      PROVE  /\ \A n \in DOMAIN output[i] : Before(output[i][n].num, m.num)
             /\ \A a \in DOMAIN link' : DataOf(i, link'[a]) => Before(m.num, link'[a].num)
             /\ Passed(i, m.num)
  <2>1. \A n \in DOMAIN output[i] : Before(output[i][n].num, m.num)
    BY <1>1, <1>2, <1>8 DEF LinkFollows, Ordered
  <2>2. \A a \in DOMAIN link' : DataOf(i, link'[a]) => Before(m.num, link'[a].num)
    <3> SUFFICES ASSUME NEW a \in DOMAIN link', DataOf(i, link'[a])
                 PROVE  Before(m.num, link'[a].num)
      OBVIOUS
    <3>1. PICK b \in DOMAIN link : b = a + 1 /\ link'[a] = link[b] /\ 1 < b
      BY <1>3
    <3> QED BY <1>1, <1>2, <1>8, <3>1 DEF LinkRises, Ordered
  <2>3. Passed(i, m.num)
    BY <1>1, <1>2, <1>8 DEF ThreadFollows, Ordered
  <2> QED BY <2>1, <2>2, <2>3
<1>9. ASSUME NEW i \in Ifcs, NEW n \in DOMAIN output'[i]
      PROVE  \/ n \in DOMAIN output[i] /\ output'[i][n] = output[i][n]
             \/ DataOf(i, m) /\ output'[i][n].num = m.num
  <2>1. Wrapped(i, m).num = m.num
    BY DEF Wrapped
  <2> QED BY <1>5, <2>1, OutputFrom
<1>10. OutputRises'
  BY <1>5, <1>8, HandleRises DEF Before
<1>11. LinkFollows'
  <2> SUFFICES ASSUME NEW i \in Ifcs, NEW a \in DOMAIN link', DataOf(i, link'[a]),
                      NEW n \in DOMAIN output'[i]
               PROVE  Before(output'[i][n].num, link'[a].num)
    BY <1>5 DEF LinkFollows, DataOf, Before
  <2>1. CASE n \in DOMAIN output[i] /\ output'[i][n] = output[i][n]
    BY <1>3, <2>1 DEF LinkFollows, Ordered
  <2>2. CASE DataOf(i, m) /\ output'[i][n].num = m.num
    BY <1>8, <2>2
  <2> QED BY <1>9, <2>1, <2>2
<1>12. LinkRises'
  <2> SUFFICES ASSUME NEW i \in Ifcs, NEW a \in DOMAIN link', NEW b \in DOMAIN link', a < b,
                      DataOf(i, link'[a]), DataOf(i, link'[b])
               PROVE  Before(link'[a].num, link'[b].num)
    BY <1>5 DEF LinkRises, DataOf, Before
  <2>1. a + 1 < b + 1
    BY <1>3
  <2> QED BY <1>3, <2>1 DEF LinkRises, Ordered
<1>13. ThreadFollows'
  <2> SUFFICES ASSUME NEW i \in Ifcs
               PROVE  /\ \A n \in DOMAIN output'[i] : Passed(i, output'[i][n].num)
                      /\ \A a \in DOMAIN link' : DataOf(i, link'[a]) => Passed(i, link'[a].num)
    BY <1>5 DEF ThreadFollows, DataOf, Passed, Holding
  <2>1. \A n \in DOMAIN output'[i] : Passed(i, output'[i][n].num)
    BY <1>8, <1>9 DEF ThreadFollows, Ordered
  <2>2. \A a \in DOMAIN link' : DataOf(i, link'[a]) => Passed(i, link'[a].num)
    BY <1>3 DEF ThreadFollows, Ordered
  <2> QED BY <2>1, <2>2
<1>14. CurrentLast'
  <2>1. Addressed(m) /\ \A a \in DOMAIN link' : Addressed(link'[a])
    BY <1>3, <1>5 DEF CurrentLast, Ordered
  <2>2. ASSUME NEW i \in Ifcs, DataOf(i, m)
        PROVE  /\ m.num <= got[i]
               /\ \A n \in DOMAIN output'[i] : output'[i][n].num <= m.num
               /\ \A a \in DOMAIN link' : DataOf(i, link'[a]) => m.num <= link'[a].num
    BY <1>4, <1>8, <1>9, <2>2 DEF Before, Passed
  <2> QED BY <1>2, <1>5, <2>1, <2>2 DEF CurrentLast, Addressed, DataOf
<1> QED BY <1>10, <1>11, <1>12, <1>13, <1>14 DEF Ordered

LEMMA RepeatOrdered ==
  ASSUME TypeInv, Ordered, DemuxRecvFails
  PROVE  Ordered'
<1> USE DEF muxVars, demuxVars
<1>1. /\ UNCHANGED <<pc, got, link, current>> /\ errors' # 0 /\ errors' \in Int
      /\ current \in Messages /\ Addressed(current) /\ Handle(current)
  BY DEF DemuxRecvFails, TypeInv, CurrentLast, Ordered
<1>2. /\ \A i \in Ifcs : \A n \in DOMAIN output[i] : output[i][n].num \in Nat
      /\ \A a \in DOMAIN link : link[a].num \in Nat
      /\ current.num \in Nat /\ \A i \in Ifcs : got[i] \in Nat
  BY Places DEF PutOut, Messages, TypeInv
<1>3. /\ \A x, y : Before(x, y)' <=> x <= y
      /\ \A i \in Ifcs, x \in Nat : Passed(i, x)' <=> x <= got[i]
  BY <1>1 DEF Before, Passed
<1>4. ASSUME NEW i \in Ifcs, NEW n \in DOMAIN output'[i]
      PROVE  \/ n \in DOMAIN output[i] /\ output'[i][n] = output[i][n]
             \/ DataOf(i, current) /\ output'[i][n].num = current.num
  <2>1. Wrapped(i, current).num = current.num
    BY DEF Wrapped
  <2> QED BY <1>1, <2>1, OutputFrom
<1>5. OutputRises'
  <2>1. \A i \in Ifcs : DataOf(i, current) =>
          \A n \in DOMAIN output[i] : output[i][n].num <= current.num
    BY DEF CurrentLast, Ordered
  <2> QED BY <1>1, <2>1, HandleRises
<1>6. LinkFollows'
  <2> SUFFICES ASSUME NEW i \in Ifcs, NEW a \in DOMAIN link, DataOf(i, link[a]),
                      NEW n \in DOMAIN output'[i]
               PROVE  output'[i][n].num <= link[a].num
    BY <1>1, <1>3 DEF LinkFollows, DataOf
  <2> QED BY <1>4 DEF CurrentLast, LinkFollows, Ordered, Before
<1>7. LinkRises'
  BY <1>1, <1>3 DEF LinkRises, Ordered, Before, DataOf
<1>8. ThreadFollows'
  <2>1. ASSUME NEW i \in Ifcs, NEW n \in DOMAIN output'[i] PROVE output'[i][n].num <= got[i]
    BY <1>4 DEF CurrentLast, ThreadFollows, Ordered, Passed
  <2>2. ASSUME NEW i \in Ifcs, NEW a \in DOMAIN link, DataOf(i, link[a])
        PROVE  link[a].num <= got[i]
    BY <2>2 DEF ThreadFollows, Ordered, Passed
  <2> QED BY <1>1, <2>1, <2>2 DEF ThreadFollows, Passed, DataOf
<1>9. CurrentLast'
  <2>1. ASSUME NEW i \in Ifcs, DataOf(i, current), NEW n \in DOMAIN output'[i]
        PROVE  output'[i][n].num <= current.num
    BY <1>2, <1>4, <2>1 DEF CurrentLast, Ordered
  <2> QED BY <1>1, <2>1 DEF CurrentLast, Ordered, Addressed, DataOf
<1> QED BY <1>5, <1>6, <1>7, <1>8, <1>9 DEF Ordered

LEMMA StepOrdered == TypeInv /\ Ordered /\ [Next]_vars => Ordered'
<1> SUFFICES ASSUME TypeInv, Ordered, [Next]_vars PROVE Ordered'
  OBVIOUS
<1> USE DEF muxVars, demuxVars
<1>0. \A i \in Ifcs : got[i] \in Nat /\ Len(input[i]) \in Nat /\ got[i] <= Len(input[i])
  BY Places
<1>1. ASSUME NEW i \in Ifcs, Recv(i) PROVE Ordered'
  <2>1. /\ UNCHANGED <<link, output, current, errors>>
        /\ \A j \in Ifcs : got'[j] = IF j = i THEN Len(input[i]) + 1 ELSE got[j]
        /\ \A j \in Ifcs \ {i} : pc'[j] = pc[j]
    BY <1>1 DEF Recv, GoTo, TypeInv
  <2>2. Onward
    BY <1>0, <2>1 DEF Onward, Holding
  <2> QED BY <2>1, <2>2, OrderKept
<1>2. ASSUME NEW i \in Ifcs, RecvFails(i) PROVE Ordered'
  <2>1. UNCHANGED <<link, output, current, got>> /\ errors' # 0
    BY <1>2 DEF RecvFails, TypeInv
  <2>2. Onward
    BY <1>0, <2>1 DEF Onward
  <2> QED BY <2>1, <2>2, OrderKept
<1>3. ASSUME NEW i \in Ifcs, Test(i) PROVE Ordered'
  <2>1. UNCHANGED <<link, output, current, got, errors>>
    BY <1>3 DEF Test
  <2>2. \A j \in Ifcs : Holding(j)' => Holding(j)
    BY <1>3 DEF Test, GoTo, TypeInv, Holding
  <2>3. Onward
    BY <1>0, <2>1, <2>2 DEF Onward
  <2> QED BY <2>1, <2>3, OrderKept
<1>4. ASSUME NEW i \in Ifcs, NEW m \in Messages, Addressed(m), SendOut(i, m),
             UNCHANGED <<output, current, got, errors>>,
             \A j \in Ifcs : Holding(j)' => Holding(j),
             \A j \in Ifcs : DataOf(j, m) => Holding(j) /\ ~Holding(j)' /\ m.num = got[j]
      PROVE  Ordered'
  <2>1. CASE link' = Append(link, m)
    BY <1>4, <2>1, OrderPushed
  <2>2. CASE UNCHANGED link
    <3>1. Onward
      BY <1>0, <1>4 DEF Onward
    <3> QED BY <1>4, <2>2, <3>1, OrderKept
  <2> QED BY <1>4, <2>1, <2>2 DEF SendOut
<1>5. ASSUME NEW i \in Ifcs, Hello(i) \/ SendInvalid(i) PROVE Ordered'
  <2>1. /\ UNCHANGED <<output, current, got, errors>>
        /\ \A j \in Ifcs : Holding(j)' => Holding(j)
    BY <1>5 DEF Hello, SendInvalid, GoTo, TypeInv, Holding
  <2>2. PICK m \in Messages : SendOut(i, m) /\ Addressed(m) /\ m.kind # "data"
    BY <1>5, MessageType DEF Hello, SendInvalid, Addressed, NoMessage
  <2> QED BY <1>4, <2>1, <2>2 DEF DataOf
<1>6. ASSUME NEW i \in Ifcs, Send(i) PROVE Ordered'
  <2>1. /\ UNCHANGED <<output, current, got, errors>>
        /\ \A j \in Ifcs : Holding(j)' => Holding(j)
        /\ Holding(i) /\ ~Holding(i)'
    BY <1>6 DEF Send, GoTo, TypeInv, Holding
  <2>2. PICK m \in Messages : /\ SendOut(i, m) /\ Addressed(m) /\ m.ifc = i /\ m.num = got[i]
    BY <1>6, MessageType DEF Send, Addressed
  <2>3. \A j \in Ifcs : DataOf(j, m) => Holding(j) /\ ~Holding(j)' /\ m.num = got[j]
    BY <2>1, <2>2 DEF DataOf
  <2> QED BY <1>4, <2>1, <2>2, <2>3
<1>7. CASE UNCHANGED vars
  <2>1. Onward
    BY <1>0, <1>7 DEF vars, Onward, Holding
  <2> QED BY <1>7, <2>1, OrderKept DEF vars
<1> QED BY <1>1, <1>2, <1>3, <1>5, <1>6, <1>7, DemuxOrdered, RepeatOrdered DEF Next, Thread
-----------------------------------------------------------------------------
(***************************************************************************)
(* The formats.                                                            *)
(***************************************************************************)

\* What a message that is appended announces: nothing for the places before it, and its
\* format, if it is a hello, for those after it.
LEMMA AnnouncedPushed ==
  ASSUME TypeInv, NEW m \in Messages, link' = Append(link, m), format' = format, NEW j \in Ifcs
  PROVE  /\ \A a \in 1 .. Len(link) + 1 : \A f : Announced(j, a, f) => Announced(j, a, f)'
         /\ \A f : ~HelloOf(j, m) /\ Announced(j, Len(link) + 1, f)
                     => Announced(j, Len(link) + 1, f)'
         /\ HelloOf(j, m) => Announced(j, Len(link) + 1, m.format)'
<1> DEFINE L == Len(link)
<1>1. /\ L \in Nat /\ Len(link') = L + 1
      /\ \A a \in 1 .. L : link'[a] = link[a]
      /\ link'[L + 1] = m
  BY Places, Pushes
<1>2. \A b \in 0 .. L : (IsHello(j, b)' <=> IsHello(j, b)) /\ FormatAt(j, b)' = FormatAt(j, b)
  BY <1>1 DEF IsHello, HelloOf, FormatAt
<1>3. (IsHello(j, L + 1) <=> HelloOf(j, link[L + 1]))
  BY <1>1 DEF IsHello
<1> HIDE DEF L
<1>4. PICK z : z = L + 1
  OBVIOUS
<1>5. z \in Nat /\ z # 0 /\ (IsHello(j, z)' <=> HelloOf(j, m)) /\ FormatAt(j, z)' = m.format
  BY <1>1, <1>4 DEF IsHello, HelloOf, FormatAt
<1>6. ASSUME NEW a \in 1 .. L + 1, NEW f, Announced(j, a, f)
      PROVE  Announced(j, a, f)'
  <2> SUFFICES ASSUME NEW b \in 0 .. L + 1, Sees(j, b, a)' PROVE FormatAt(j, b)' = f
    BY <1>1 DEF Announced
  <2>1. b \in 0 .. a - 1 /\ b \in 0 .. L /\ \A c \in b + 1 .. a - 1 : c \in 0 .. L
    BY <1>1 DEF Sees
  <2>2. Sees(j, b, a)
    BY <1>2, <2>1 DEF Sees
  <2> QED BY <1>2, <1>6, <2>1, <2>2 DEF Announced, L
<1>7. ASSUME NEW f, ~HelloOf(j, m), Announced(j, L + 1, f)
      PROVE  \A b \in 0 .. L + 1 : Sees(j, b, z + 1)' => FormatAt(j, b)' = f
  <2> SUFFICES ASSUME NEW b \in 0 .. L + 1, Sees(j, b, z + 1)' PROVE FormatAt(j, b)' = f
    OBVIOUS
  <2>1. b \in 0 .. L
    BY <1>1, <1>4, <1>5, <1>7 DEF Sees
  <2>2. \A c \in b + 1 .. L : c \in b + 1 .. (z + 1) - 1 /\ c \in 0 .. L
    BY <1>1, <1>4, <2>1
  <2>3. \A c \in b + 1 .. (L + 1) - 1 : c \in b + 1 .. L
    BY <1>1
  <2>4. b \in 0 .. (L + 1) - 1 /\ IsHello(j, b)
    BY <1>1, <1>2, <2>1 DEF Sees
  <2>5. Sees(j, b, L + 1)
    BY <1>2, <2>2, <2>3, <2>4 DEF Sees
  <2> QED BY <1>2, <1>7, <2>1, <2>5 DEF Announced, L
<1>8. ASSUME HelloOf(j, m)
      PROVE  \A b \in 0 .. L + 1 : Sees(j, b, z + 1)' => FormatAt(j, b)' = m.format
  <2> SUFFICES ASSUME NEW b \in 0 .. L + 1, Sees(j, b, z + 1)' PROVE b = z
    BY <1>5
  <2>1. b # z => z \in b + 1 .. (z + 1) - 1
    BY <1>1, <1>4
  <2> QED BY <1>5, <1>8, <2>1 DEF Sees
<1> QED BY <1>1, <1>4, <1>6, <1>7, <1>8 DEF L, Announced

\* Demux takes the first message off, and its format to heart: the rest is announced as before.
LEMMA AnnouncedPopped ==
  ASSUME TypeInv, link # <<>>, link' = Tail(link), NEW j \in Ifcs,
         IF HelloOf(j, Head(link)) THEN format'[j] = Head(link).format ELSE format'[j] = format[j],
         NEW a \in 1 .. Len(link), NEW f, Announced(j, a + 1, f)
  PROVE  Announced(j, a, f)'
<1>1. /\ Len(link) \in Nat /\ Len(link) > 0 /\ Len(link') = Len(link) - 1
      /\ \A b \in 1 .. Len(link) - 1 : link'[b] = link[b + 1]
      /\ Head(link) = link[1]
  BY Places, Pops
<1>2. \A b \in 1 .. Len(link) - 1 : /\ IsHello(j, b)' <=> IsHello(j, b + 1)
                                   /\ FormatAt(j, b)' = FormatAt(j, b + 1)
  BY <1>1 DEF IsHello, HelloOf, FormatAt
<1> SUFFICES ASSUME NEW b \in 0 .. Len(link) - 1, Sees(j, b, a)' PROVE FormatAt(j, b)' = f
  BY <1>1 DEF Announced
<1>3. b \in 0 .. a - 1 /\ \A c \in b + 1 .. a - 1 : c \in 1 .. Len(link) - 1 /\ ~IsHello(j, c)'
  BY <1>1 DEF Sees
<1>4. \A c \in b + 2 .. a : ~IsHello(j, c)
  <2> SUFFICES ASSUME NEW c \in b + 2 .. a PROVE ~IsHello(j, c)
    OBVIOUS
  <2>1. c - 1 \in b + 1 .. a - 1 /\ (c - 1) + 1 = c
    BY <1>1, <1>3
  <2> QED BY <1>2, <1>3, <2>1
<1>5. CASE b > 0
  <2>1. b \in 1 .. Len(link) - 1 /\ b + 1 \in 0 .. (a + 1) - 1 /\ b + 1 \in 0 .. Len(link)
    BY <1>1, <1>3, <1>5
  <2>2. \A c \in (b + 1) + 1 .. (a + 1) - 1 : c \in b + 2 .. a
    BY <1>1, <1>3
  <2>3. IsHello(j, b + 1)
    BY <1>2, <2>1 DEF Sees
  <2>4. Sees(j, b + 1, a + 1)
    BY <1>4, <2>1, <2>2, <2>3 DEF Sees
  <2> QED BY <1>2, <2>1, <2>4 DEF Announced
<1>6. CASE b = 0 /\ HelloOf(j, Head(link))
  <2>1. FormatAt(j, b)' = Head(link).format /\ FormatAt(j, 1) = Head(link).format
    BY <1>1, <1>6 DEF FormatAt
  <2>2. \A c \in 1 + 1 .. (a + 1) - 1 : c \in b + 2 .. a
    BY <1>1, <1>6
  <2>3. 1 \in 0 .. (a + 1) - 1 /\ 1 \in 0 .. Len(link) /\ IsHello(j, 1)
    BY <1>1, <1>6 DEF IsHello
  <2>4. Sees(j, 1, a + 1)
    BY <1>4, <2>2, <2>3 DEF Sees
  <2> QED BY <2>1, <2>3, <2>4 DEF Announced
<1>7. CASE b = 0 /\ ~HelloOf(j, Head(link))
  <2>1. FormatAt(j, b)' = format[j] /\ FormatAt(j, 0) = format[j]
    BY <1>7 DEF FormatAt
  <2>2. ~IsHello(j, 1)
    BY <1>1, <1>7 DEF IsHello
  <2>3. \A c \in 0 + 1 .. (a + 1) - 1 : c = 1 \/ c \in b + 2 .. a
    BY <1>1, <1>7
  <2>4. 0 \in 0 .. (a + 1) - 1 /\ 0 \in 0 .. Len(link) /\ IsHello(j, 0)
    BY <1>1 DEF IsHello
  <2>5. Sees(j, 0, a + 1)
    BY <1>4, <2>2, <2>3, <2>4 DEF Sees
  <2> QED BY <2>1, <2>4, <2>5 DEF Announced
<1> QED BY <1>3, <1>5, <1>6, <1>7

LEMMA AnnouncedStays ==
  ASSUME UNCHANGED link, NEW j, format'[j] = format[j], NEW a, NEW f, Announced(j, a, f)
  PROVE  Announced(j, a, f)'
<1>1. \A b : (IsHello(j, b)' <=> IsHello(j, b)) /\ FormatAt(j, b)' = FormatAt(j, b)
  BY DEF IsHello, FormatAt
<1>2. \A b : Sees(j, b, a)' => Sees(j, b, a)
  BY <1>1 DEF Sees
<1> QED BY <1>1, <1>2 DEF Announced

\* The next message demux takes is in the format it knows.
LEMMA AnnouncedNext ==
  ASSUME TypeInv, NEW j \in Ifcs, NEW f, Announced(j, 1, f)
  PROVE  format[j] = f
<1>1. 0 \in 0 .. Len(link) /\ Sees(j, 0, 1) /\ FormatAt(j, 0) = format[j]
  BY Places DEF Sees, IsHello, FormatAt
<1> QED BY <1>1 DEF Announced

\* What came in stays what it was.
Grown ==
  \A i \in Ifcs : /\ Len(input'[i]) \in Nat /\ Len(input'[i]) >= Len(input[i])
                  /\ \A n \in 1 .. Len(input[i]) : input'[i][n] = input[i][n]

LEMMA GenuineStays ==
  ASSUME TypeInv, Grown, NEW i \in Ifcs, NEW n, NEW l, Genuine(i, n, l)
  PROVE  Genuine(i, n, l)' /\ input'[i][n] = input[i][n]
<1>1. Len(input[i]) \in Nat
  BY Places
<1> QED BY <1>1 DEF Genuine, Grown

LEMMA CleanBack ==
  ASSUME [Next]_vars
  PROVE  Clean' \subseteq Clean
<1> USE DEF muxVars, demuxVars
<1>1. mixed \subseteq mixed'
  BY DEF Next, Recv, RecvFails, Thread, Test, Hello, Send, SendInvalid, Demux,
         DemuxRecvFails, vars
<1>2. unsent \subseteq unsent'
  <2>1. \A i \in Ifcs : \A m : SendOut(i, m) => unsent \subseteq unsent'
    BY DEF SendOut
  <2>2. \A m : Handle(m) => unsent \subseteq unsent'
    BY HandleIs DEF Heard, Out, Missed, Ignored
  <2> QED BY <2>1, <2>2 DEF Next, Recv, RecvFails, Thread, Test, Hello, Send, SendInvalid,
                            Demux, DemuxRecvFails, vars
<1> QED BY <1>1, <1>2 DEF Clean

\* What is in the outputs and with demux is as it was.
LEMMA OutputKept ==
  ASSUME TypeInv, OutputInForm, Grown, UNCHANGED output, Clean' \subseteq Clean
  PROVE  OutputInForm'
<1> SUFFICES ASSUME NEW i \in Clean', NEW n \in DOMAIN output[i]
             PROVE  /\ Genuine(i, output[i][n].num, output[i][n].length - Padding)'
                    /\ output[i][n].format = input'[i][output[i][n].num]
  BY DEF OutputInForm
<1>1. /\ i \in Ifcs /\ Genuine(i, output[i][n].num, output[i][n].length - Padding)
      /\ output[i][n].format = input[i][output[i][n].num]
  BY DEF OutputInForm, Clean
<1>2. PICK x : x = output[i][n].num
  OBVIOUS
<1>3. PICK l : l = output[i][n].length - Padding
  OBVIOUS
<1>4. Genuine(i, x, l)' /\ input'[i][x] = input[i][x]
  BY <1>1, <1>2, <1>3, GenuineStays
<1>5. output'[i][n].num = x /\ output'[i][n].length - Padding = l
  BY <1>2, <1>3
<1> QED BY <1>1, <1>2, <1>4, <1>5 DEF Genuine

LEMMA CurrentKept ==
  ASSUME TypeInv, CurrentInForm, Grown, UNCHANGED <<current, format>>, Clean' \subseteq Clean
  PROVE  CurrentInForm'
<1> SUFFICES ASSUME NEW i \in Clean'
             PROVE  /\ HelloOf(i, current) => format[i] = current.format
                    /\ DataOf(i, current) => /\ Genuine(i, current.num, current.length)'
                                             /\ format[i] = input'[i][current.num]
  BY DEF CurrentInForm, HelloOf, DataOf, Genuine
<1>1. i \in Clean /\ i \in Ifcs
  BY DEF Clean
<1>2. HelloOf(i, current) => format[i] = current.format
  BY <1>1 DEF CurrentInForm
<1>3. ASSUME DataOf(i, current)
      PROVE  Genuine(i, current.num, current.length)' /\ format[i] = input'[i][current.num]
  <2>1. Genuine(i, current.num, current.length) /\ format[i] = input[i][current.num]
    BY <1>1, <1>3 DEF CurrentInForm
  <2>2. PICK x : x = current.num
    OBVIOUS
  <2>3. PICK l : l = current.length
    OBVIOUS
  <2>4. Genuine(i, x, l)' /\ input'[i][x] = input[i][x]
    BY <1>1, <2>1, <2>2, <2>3, GenuineStays
  <2> QED BY <2>1, <2>2, <2>3, <2>4 DEF Genuine
<1> QED BY <1>2, <1>3

LEMMA LinkKept ==
  ASSUME TypeInv, LinkInForm, Grown, UNCHANGED link, Clean' \subseteq Clean,
         \A i \in Clean' : format'[i] = format[i]
  PROVE  LinkInForm'
<1> SUFFICES ASSUME NEW i \in Clean', NEW a \in DOMAIN link, DataOf(i, link[a])
             PROVE  /\ Genuine(i, link[a].num, link[a].length)'
                    /\ Announced(i, a, input[i][link[a].num])'
  BY DEF LinkInForm, DataOf
<1>1. /\ i \in Ifcs /\ Genuine(i, link[a].num, link[a].length)
      /\ Announced(i, a, input[i][link[a].num])
  BY DEF LinkInForm, Clean
<1>2. PICK x : x = link[a].num
  OBVIOUS
<1>3. PICK l : l = link[a].length
  OBVIOUS
<1>4. PICK f : f = input[i][link[a].num]
  OBVIOUS
<1>5. Genuine(i, x, l)' /\ input'[i][x] = f
  BY <1>1, <1>2, <1>3, <1>4, GenuineStays
<1>6. Announced(i, a, f)'
  BY <1>1, <1>4, AnnouncedStays
<1>7. link'[a].num = x /\ link'[a].length = l
  BY <1>2, <1>3
<1> QED BY <1>2, <1>3, <1>5, <1>6, <1>7 DEF Genuine, Announced
-----------------------------------------------------------------------------
LEMMA InitForm == Init => InForm
<1> SUFFICES ASSUME Init PROVE InForm
  OBVIOUS
<1>1. /\ link = <<>> /\ Len(link) = 0 /\ DOMAIN link = {} /\ current.kind = "none"
      /\ \A i \in Ifcs : /\ DOMAIN output[i] = {} /\ pc[i] = "recv" /\ format[i] = 0
                         /\ InputFormat(i) = 0
  BY DEF Init, NoMessage, InputFormat
<1>2. \A i \in Ifcs : Announced(i, Len(link) + 1, InputFormat(i))
  BY <1>1 DEF Announced, FormatAt
<1>3. ThreadInForm
  BY <1>1, <1>2 DEF ThreadInForm, Clean, Holding
<1> QED BY <1>1, <1>3 DEF InForm, LinkInForm, CurrentInForm, OutputInForm, HelloOf, DataOf,
                          Clean

\* A message is appended: data of a clean thread is what came in last, announced before.
LEMMA LinkPushed ==
  ASSUME TypeInv, LinkInForm, NEW m \in Messages, link' = Append(link, m),
         UNCHANGED <<format, input>>, Clean' \subseteq Clean,
         \A i \in Clean' : DataOf(i, m) => /\ Genuine(i, m.num, m.length)
                                           /\ Announced(i, Len(link) + 1, input[i][m.num])
  PROVE  LinkInForm'
<1>1. /\ Len(link) \in Nat /\ DOMAIN link = 1 .. Len(link)
      /\ DOMAIN link' = 1 .. Len(link) + 1
      /\ \A a \in 1 .. Len(link) : link'[a] = link[a]
      /\ link'[Len(link) + 1] = m
  BY Places, Pushes
<1> SUFFICES ASSUME NEW i \in Clean', NEW a \in DOMAIN link', DataOf(i, link'[a]),
                    NEW f, f = input[i][link'[a].num]
             PROVE  /\ Genuine(i, link'[a].num, link'[a].length)
                    /\ Announced(i, a, f)'
  <2>1. \A i \in Clean', a \in DOMAIN link' : DataOf(i, link'[a]) =>
          \A f : f = input[i][link'[a].num] =>
            Genuine(i, link'[a].num, link'[a].length) /\ Announced(i, a, f)'
    OBVIOUS
  <2> QED BY <2>1 DEF LinkInForm, DataOf, Genuine, Announced
<1>2. a \in 1 .. Len(link) + 1 /\ i \in Ifcs /\ i \in Clean
  BY <1>1 DEF Clean
<1>3. CASE a \in 1 .. Len(link)
  <2>1. link'[a] = link[a] /\ a \in DOMAIN link
    BY <1>1, <1>3
  <2>2. Genuine(i, link[a].num, link[a].length) /\ Announced(i, a, f)
    BY <1>2, <2>1 DEF LinkInForm
  <2>3. Announced(i, a, f)'
    BY <1>2, <2>2, AnnouncedPushed
  <2> QED BY <2>1, <2>2, <2>3
<1>4. CASE a = Len(link) + 1
  <2>1. link'[a] = m
    BY <1>1, <1>4
  <2>2. Genuine(i, m.num, m.length) /\ Announced(i, a, f)
    BY <1>4, <2>1
  <2>3. Announced(i, a, f)'
    BY <1>2, <2>2, AnnouncedPushed
  <2> QED BY <2>1, <2>2, <2>3
<1> QED BY <1>2, <1>3, <1>4

\* The other threads see nothing of a message sent.
LEMMA OthersPushed ==
  ASSUME TypeInv, ThreadInForm, NEW i \in Ifcs, NEW m \in Messages, SendOut(i, m),
         ~HelloOf(i, m) => pc[i] \in {"send", "invalid"},
         m.kind \in {"hello", "data"} => m.ifc = i,
         UNCHANGED <<own, got, input, format>>, Clean' \subseteq Clean,
         NEW l, GoTo(i, l), (l = "send" /\ HelloOf(i, m)) \/ (l = "recv" /\ ~HelloOf(i, m)),
         pc[i] = "hello" \/ ~HelloOf(i, m), HelloOf(i, m) => m.format = InputFormat(i)
  PROVE  ThreadInForm'
<1> SUFFICES ASSUME NEW j \in Clean'
             PROVE  /\ pc'[j] # "ended"
                    /\ Holding(j)' /\ (pc'[j] = "test" => own[j] # "error") =>
                         got[j] = Len(input[j]) /\ got[j] > 0
                    /\ \/ pc'[j] \in {"recv", "invalid", "send"}
                       \/ pc'[j] = "test" /\ own[j] # "changed"
                       => Announced(j, Len(link) + 1, InputFormat(j))'
  BY DEF ThreadInForm
<1>1. /\ j \in Clean /\ j \in Ifcs /\ InputFormat(j)' = InputFormat(j)
  BY DEF Clean, InputFormat
<1>2. /\ pc[j] # "ended"
      /\ Holding(j) /\ (pc[j] = "test" => own[j] # "error") => got[j] = Len(input[j]) /\ got[j] > 0
      /\ \/ pc[j] \in {"recv", "invalid", "send"}
         \/ pc[j] = "test" /\ own[j] # "changed"
         => Announced(j, Len(link) + 1, InputFormat(j))
  BY <1>1 DEF ThreadInForm
<1>3. PICK f : f = InputFormat(j)
  OBVIOUS
<1>4. ASSUME Announced(j, Len(link) + 1, f), ~HelloOf(j, m)
      PROVE  Announced(j, Len(link) + 1, InputFormat(j))'
  <2>1. CASE link' = Append(link, m)
    <3>1. Announced(j, Len(link) + 1, f)'
      BY <1>1, <1>4, <2>1, AnnouncedPushed
    <3> QED BY <1>1, <1>3, <3>1
  <2>2. CASE UNCHANGED link
    <3>1. Announced(j, Len(link) + 1, f)'
      <4>1. PICK z : z = Len(link) + 1
        OBVIOUS
      <4>2. Announced(j, z, f)'
        BY <1>4, <2>2, <4>1, AnnouncedStays
      <4> QED BY <2>2, <4>1, <4>2
    <3> QED BY <1>1, <1>3, <3>1
  <2> QED BY <2>1, <2>2 DEF SendOut
<1>5. CASE j # i
  <2>1. pc'[j] = pc[j] /\ ~HelloOf(j, m)
    BY <1>1, <1>5 DEF GoTo, TypeInv, HelloOf
  <2> QED BY <1>2, <1>3, <1>4, <2>1 DEF Holding
<1>6. CASE j = i
  <2>1. pc'[j] = l
    BY <1>1, <1>6 DEF GoTo, TypeInv
  <2>2. CASE HelloOf(i, m)
    <3>1. link' = Append(link, m)
      BY <1>6 DEF SendOut, Clean
    <3>2. Announced(j, Len(link) + 1, m.format)'
      BY <1>1, <1>6, <2>2, <3>1, AnnouncedPushed
    <3>3. l = "send" /\ pc[j] = "hello" /\ m.format = InputFormat(j)'
      BY <1>1, <1>6, <2>2
    <3> QED BY <1>2, <2>1, <3>2, <3>3 DEF Holding
  <2>3. CASE ~HelloOf(i, m)
    BY <1>2, <1>3, <1>4, <1>6, <2>1, <2>3 DEF Holding
  <2> QED BY <2>2, <2>3
<1> QED BY <1>5, <1>6

\* The threads on their own.
LEMMA RecvForm ==
  ASSUME TypeInv, ThreadInForm, NEW i \in Ifcs, Recv(i)
  PROVE  ThreadInForm' /\ Grown
<1> USE DEF muxVars, demuxVars
<1>1. PICK f \in {InputFormat(i), InputFormat(i) + 1} \cap 1 .. MaxFormats :
        /\ input' = [input EXCEPT ![i] = Append(@, f)]
        /\ Returns(i, IF f = InputFormat(i) THEN "ok" ELSE "changed")
  BY DEF Recv
<1>2. input \in [Ifcs -> Seq(1 .. MaxFormats)] /\ input[i] \in Seq(1 .. MaxFormats)
      /\ Len(input[i]) \in Nat
  BY Places DEF TypeInv
<1>3. /\ Len(Append(input[i], f)) = Len(input[i]) + 1
      /\ \A n \in 1 .. Len(input[i]) : Append(input[i], f)[n] = input[i][n]
      /\ Append(input[i], f)[Len(input[i]) + 1] = f /\ Append(input[i], f) # <<>>
  BY <1>2, AppendProperties
<1>4. input'[i] = Append(input[i], f) /\ \A j \in Ifcs \ {i} : input'[j] = input[j]
  BY <1>1, <1>2
<1>5. Grown
  <2> SUFFICES ASSUME NEW j \in Ifcs
               PROVE  /\ Len(input'[j]) \in Nat /\ Len(input'[j]) >= Len(input[j])
                      /\ \A n \in 1 .. Len(input[j]) : input'[j][n] = input[j][n]
    BY DEF Grown
  <2>1. CASE j = i
    BY <1>2, <1>3, <1>4, <2>1
  <2>2. CASE j # i
    <3>1. Len(input[j]) \in Nat
      BY Places
    <3> QED BY <1>4, <2>2, <3>1
  <2> QED BY <2>1, <2>2
<1>6. InputFormat(i)' = f
  BY <1>3, <1>4 DEF InputFormat, Last
<1>7. /\ UNCHANGED <<link, format, mixed, unsent>> /\ pc[i] = "recv"
      /\ got' = [got EXCEPT ![i] = Len(input[i]) + 1]
      /\ pc' = [pc EXCEPT ![i] = "test"]
  BY DEF Recv, GoTo
<1>8. own'[i] = (IF f = InputFormat(i) THEN "ok" ELSE "changed")
      /\ \A j \in Ifcs \ {i} : own'[j] = own[j]
  BY <1>1 DEF Returns, TypeInv
<1>9. ASSUME NEW j \in Clean'
      PROVE  /\ pc'[j] # "ended"
             /\ Holding(j)' /\ (pc'[j] = "test" => own'[j] # "error") =>
                  got'[j] = Len(input'[j]) /\ got'[j] > 0
             /\ \/ pc'[j] \in {"recv", "invalid", "send"}
                \/ pc'[j] = "test" /\ own'[j] # "changed"
                => Announced(j, Len(link) + 1, InputFormat(j))'
  <2>1. j \in Clean /\ j \in Ifcs
    BY <1>7 DEF Clean
  <2>2. /\ pc[j] # "ended"
        /\ Holding(j) /\ (pc[j] = "test" => own[j] # "error") =>
             got[j] = Len(input[j]) /\ got[j] > 0
        /\ \/ pc[j] \in {"recv", "invalid", "send"}
           \/ pc[j] = "test" /\ own[j] # "changed"
           => Announced(j, Len(link) + 1, InputFormat(j))
    BY <2>1 DEF ThreadInForm
  <2>3. Announced(j, Len(link) + 1, InputFormat(j)) /\ InputFormat(j)' = InputFormat(j)
          => Announced(j, Len(link) + 1, InputFormat(j))'
    BY <1>7 DEF Announced, Sees, FormatAt, IsHello
  <2>4. CASE j # i
    <3>1. pc'[j] = pc[j] /\ got'[j] = got[j] /\ own'[j] = own[j]
          /\ InputFormat(j)' = InputFormat(j) /\ input'[j] = input[j]
      BY <1>4, <1>7, <1>8, <2>1, <2>4 DEF TypeInv, InputFormat
    <3> QED BY <2>2, <2>3, <3>1 DEF Holding
  <2>5. CASE j = i
    <3>1. pc'[j] = "test" /\ got'[j] = Len(input[i]) + 1
      BY <1>7, <2>5 DEF TypeInv
    <3>2. got'[j] = Len(input'[j]) /\ got'[j] > 0
      BY <1>2, <1>3, <1>4, <2>5, <3>1
    <3>3. own'[j] # "changed" => InputFormat(j)' = InputFormat(j)
      BY <1>6, <1>8, <2>5
    <3> QED BY <1>7, <2>2, <2>3, <2>5, <3>1, <3>2, <3>3
  <2> QED BY <2>4, <2>5
<1> QED BY <1>5, <1>9 DEF ThreadInForm

LEMMA RecvFailsForm ==
  ASSUME TypeInv, ThreadInForm, NEW i \in Ifcs, RecvFails(i)
  PROVE  ThreadInForm'
<1> USE DEF muxVars, demuxVars
<1>1. /\ UNCHANGED <<link, format, mixed, unsent, got, input>> /\ pc[i] = "recv"
      /\ pc' = [pc EXCEPT ![i] = "test"] /\ own' = [own EXCEPT ![i] = "error"]
  BY DEF RecvFails, GoTo, Returns
<1>2. \A j \in Ifcs : Announced(j, Len(link) + 1, InputFormat(j))
                        => Announced(j, Len(link) + 1, InputFormat(j))'
  BY <1>1 DEF Announced, Sees, FormatAt, IsHello, InputFormat
<1>3. \A j \in Ifcs : /\ pc'[j] = IF j = i THEN "test" ELSE pc[j]
                      /\ own'[j] = IF j = i THEN "error" ELSE own[j]
  BY <1>1 DEF TypeInv
<1> QED BY <1>1, <1>2, <1>3 DEF ThreadInForm, Clean, Holding

LEMMA TestForm ==
  ASSUME TypeInv, ThreadInForm, NEW i \in Ifcs, Test(i)
  PROVE  ThreadInForm'
<1> USE DEF muxVars, demuxVars
<1>1. UNCHANGED <<link, format, unsent, got, input, own>> /\ pc[i] = "test"
  BY DEF Test
<1>2. PICK l : pc' = [pc EXCEPT ![i] = l]
               /\ (i \notin mixed' => l = After(i, own[i]) /\ UNCHANGED mixed)
  BY DEF Test, GoTo
<1>3. mixed \subseteq mixed' /\ (\A j \in Ifcs : pc'[j] = IF j = i THEN l ELSE pc[j])
  BY <1>2 DEF Test, TypeInv
<1>4. \A j \in Ifcs : Announced(j, Len(link) + 1, InputFormat(j))
                        => Announced(j, Len(link) + 1, InputFormat(j))'
  BY <1>1 DEF Announced, Sees, FormatAt, IsHello, InputFormat
<1>5. ASSUME NEW j \in Clean'
      PROVE  /\ pc'[j] # "ended"
             /\ Holding(j)' /\ (pc'[j] = "test" => own[j] # "error") =>
                  got[j] = Len(input[j]) /\ got[j] > 0
             /\ \/ pc'[j] \in {"recv", "invalid", "send"}
                \/ pc'[j] = "test" /\ own[j] # "changed"
                => Announced(j, Len(link) + 1, InputFormat(j))
  <2>1. j \in Clean /\ j \in Ifcs
    BY <1>1, <1>3 DEF Clean
  <2>2. /\ pc[j] # "ended"
        /\ Holding(j) /\ (pc[j] = "test" => own[j] # "error") =>
             got[j] = Len(input[j]) /\ got[j] > 0
        /\ \/ pc[j] \in {"recv", "invalid", "send"}
           \/ pc[j] = "test" /\ own[j] # "changed"
           => Announced(j, Len(link) + 1, InputFormat(j))
    BY <2>1 DEF ThreadInForm
  <2>3. CASE j # i
    BY <1>3, <2>1, <2>2, <2>3 DEF Holding
  <2>4. CASE j = i
    <3>1. pc'[j] = After(i, own[i]) /\ own[i] \in Results
      BY <1>2, <1>3, <2>1, <2>4 DEF TypeInv, Clean
    <3>2. CASE own[i] = "ok"
      <4>1. pc'[j] = "send"
        BY <3>1, <3>2 DEF After
      <4> QED BY <1>1, <2>2, <2>4, <3>2, <4>1 DEF Holding
    <3>3. CASE own[i] = "error"
      <4>1. pc'[j] = "invalid"
        BY <3>1, <3>3 DEF After
      <4> QED BY <1>1, <2>2, <2>4, <3>3, <4>1 DEF Holding
    <3>4. CASE own[i] = "changed"
      <4>1. got[j] = Len(input[j]) /\ got[j] > 0
        BY <1>1, <2>2, <2>4, <3>4 DEF Holding
      <4>2. InputFormat(i) \in 1 .. MaxFormats
        BY <2>4, <4>1, InputFormatIs
      <4>3. pc'[j] = "hello"
        BY <3>1, <3>4, <4>2, MuxAssumption DEF After
      <4> QED BY <4>1, <4>3
    <3> QED BY <3>1, <3>2, <3>3, <3>4 DEF Results
  <2> QED BY <2>3, <2>4
<1>6. \A j \in Clean' : j \in Ifcs
  BY DEF Clean
<1> QED BY <1>1, <1>4, <1>5, <1>6 DEF ThreadInForm
-----------------------------------------------------------------------------
\* A thread sends a message.
LEMMA SendForm ==
  ASSUME TypeInv, InForm, NEW i \in Ifcs, Hello(i) \/ Send(i) \/ SendInvalid(i),
         Clean' \subseteq Clean
  PROVE  InForm'
<1> USE DEF muxVars, demuxVars
<1>0. ThreadInForm /\ LinkInForm /\ CurrentInForm /\ OutputInForm
  BY DEF InForm
<1>1. /\ UNCHANGED <<own, got, input, format, current, output>> /\ Grown
      /\ \A j \in Ifcs : Len(input[j]) \in Nat
  <2>1. UNCHANGED <<own, got, input, format, current, output>>
    BY DEF Hello, Send, SendInvalid
  <2>2. \A j \in Ifcs : Len(input[j]) \in Nat
    BY Places
  <2> QED BY <2>1, <2>2 DEF Grown
<1>2. CurrentInForm' /\ OutputInForm'
  BY <1>0, <1>1, CurrentKept, OutputKept
<1>3. ASSUME NEW m \in Messages, SendOut(i, m),
             \A j \in Clean' : DataOf(j, m) => /\ Genuine(j, m.num, m.length)
                                               /\ Announced(j, Len(link) + 1, input[j][m.num])
      PROVE  LinkInForm'
  <2>1. CASE link' = Append(link, m)
    BY <1>0, <1>1, <1>3, <2>1, LinkPushed
  <2>2. CASE UNCHANGED link
    BY <1>0, <1>1, <2>2, LinkKept
  <2> QED BY <1>3, <2>1, <2>2 DEF SendOut
<1>4. CASE Hello(i)
  <2>1. PICK m \in Messages : /\ SendOut(i, m) /\ m.kind = "hello" /\ m.ifc = i
                              /\ m.format = InputFormat(i)
    BY <1>4, MessageType DEF Hello
  <2>2. pc[i] = "hello" /\ GoTo(i, "send") /\ HelloOf(i, m) /\ \A j : ~DataOf(j, m)
    BY <1>4, <2>1 DEF Hello, HelloOf, DataOf
  <2>3. ThreadInForm'
    <3>1. /\ ~HelloOf(i, m) => pc[i] \in {"send", "invalid"}
          /\ m.kind \in {"hello", "data"} => m.ifc = i
          /\ HelloOf(i, m) => m.format = InputFormat(i)
          /\ pc[i] = "hello" \/ ~HelloOf(i, m)
      BY <2>1, <2>2
    <3>2. PICK l : GoTo(i, l) /\ l = "send" /\ HelloOf(i, m)
      BY <2>2
    <3> QED BY <1>0, <1>1, <2>1, <3>1, <3>2, OthersPushed
  <2> QED BY <1>2, <1>3, <2>1, <2>2, <2>3 DEF InForm
<1>5. CASE Send(i)
  <2>1. PICK m \in Messages : /\ SendOut(i, m) /\ m.kind = "data" /\ m.ifc = i
                              /\ m.num = got[i] /\ m.length = Length(got[i])
    BY <1>5, MessageType DEF Send
  <2>2. pc[i] = "send" /\ GoTo(i, "recv") /\ ~HelloOf(i, m) /\ \A j : DataOf(j, m) => j = i
    BY <1>5, <2>1 DEF Send, HelloOf, DataOf
  <2>3. ThreadInForm'
    BY <1>0, <1>1, <2>1, <2>2, OthersPushed
  <2>4. ASSUME i \in Clean'
        PROVE  Genuine(i, m.num, m.length) /\ Announced(i, Len(link) + 1, input[i][m.num])
    <3>1. /\ got[i] = Len(input[i]) /\ got[i] > 0
          /\ Announced(i, Len(link) + 1, InputFormat(i))
      BY <1>0, <2>2, <2>4 DEF ThreadInForm, Holding
    <3>2. InputFormat(i) = input[i][got[i]] /\ got[i] \in 1 .. Len(input[i])
      BY <1>1, <3>1, InputFormatIs
    <3> QED BY <2>1, <3>1, <3>2 DEF Genuine
  <2> QED BY <1>2, <1>3, <2>1, <2>2, <2>3, <2>4 DEF InForm
<1>6. CASE SendInvalid(i)
  <2>1. PICK m \in Messages : SendOut(i, m) /\ m.kind = "invalid"
    BY <1>6, MessageType DEF SendInvalid, NoMessage
  <2>2. pc[i] = "invalid" /\ GoTo(i, "recv") /\ ~HelloOf(i, m) /\ \A j : ~DataOf(j, m)
    BY <1>6, <2>1 DEF SendInvalid, HelloOf, DataOf
  <2>3. ThreadInForm'
    BY <1>0, <1>1, <2>1, <2>2, OthersPushed
  <2> QED BY <1>2, <1>3, <2>1, <2>2, <2>3 DEF InForm
<1> QED BY <1>4, <1>5, <1>6

\* Demux handles a message in the form it announced: the output and demux's format for it.
LEMMA HandleForm ==
  ASSUME TypeInv, OutputInForm, NEW m \in Messages, Addressed(m), Handle(m), UNCHANGED input,
         current' = m, Clean' \subseteq Clean,
         \A i \in Clean : DataOf(i, m) => /\ Genuine(i, m.num, m.length)
                                          /\ format[i] = input[i][m.num]
  PROVE  OutputInForm' /\ CurrentInForm'
<1>1. ASSUME NEW i \in Clean', NEW n \in DOMAIN output'[i]
      PROVE  /\ Genuine(i, output'[i][n].num, output'[i][n].length - Padding)
             /\ output'[i][n].format = input[i][output'[i][n].num]
  <2>1. i \in Clean /\ i \in Ifcs
    BY DEF Clean
  <2>2. CASE n \in DOMAIN output[i] /\ output'[i][n] = output[i][n]
    BY <2>1, <2>2 DEF OutputInForm
  <2>3. CASE DataOf(i, m) /\ output'[i][n] = Wrapped(i, m)
    <3>1. /\ Wrapped(i, m).num = m.num /\ Wrapped(i, m).format = format[i]
          /\ Wrapped(i, m).length - Padding = m.length
      BY DEF Wrapped, Messages, Padding
    <3> QED BY <2>1, <2>3, <3>1
  <2> QED BY <2>1, <2>2, <2>3, OutputFrom
<1>2. ASSUME NEW i \in Clean'
      PROVE  /\ HelloOf(i, m) => format'[i] = m.format
             /\ DataOf(i, m) => /\ Genuine(i, m.num, m.length)
                                /\ format'[i] = input[i][m.num]
  <2>1. i \in Clean /\ i \in Ifcs
    BY DEF Clean
  <2>2. HelloOf(i, m) => format'[i] = m.format
    BY <2>1, HandleIs DEF HelloOf, Heard, Out, Missed, Ignored, TypeInv
  <2>3. DataOf(i, m) => format' = format
    BY HandleIs DEF DataOf, Heard, Out, Missed, Ignored
  <2> QED BY <2>1, <2>2, <2>3
<1>3. OutputInForm'
  BY <1>1 DEF OutputInForm, Genuine
<1>4. CurrentInForm'
  BY <1>2 DEF CurrentInForm, Genuine, HelloOf, DataOf
<1> QED BY <1>3, <1>4

LEMMA DemuxForm ==
  ASSUME TypeInv, Ordered, InForm, Demux, Clean' \subseteq Clean
  PROVE  InForm'
<1> USE DEF muxVars, demuxVars
<1>0. ThreadInForm /\ LinkInForm /\ CurrentInForm /\ OutputInForm
  BY DEF InForm
<1>1. PICK m \in Messages : m = link[1] /\ m = Head(link)
  BY Pops DEF Demux
<1>2. /\ Len(link) \in Nat /\ Len(link) > 0 /\ DOMAIN link = 1 .. Len(link)
      /\ DOMAIN link' = 1 .. Len(link) - 1 /\ Len(link') = Len(link) - 1
      /\ \A a \in 1 .. Len(link) - 1 : link'[a] = link[a + 1]
      /\ 1 \in DOMAIN link /\ current' = m /\ link # <<>> /\ link' = Tail(link)
  BY <1>1, Pops, Places DEF Demux
<1>3. UNCHANGED <<pc, ret, own, got, input, mixed>> /\ Handle(m) /\ Addressed(m)
  BY <1>1, <1>2 DEF Demux, CurrentLast, Ordered
<1>4. \A j \in Ifcs :
        IF HelloOf(j, m) THEN format'[j] = m.format ELSE format'[j] = format[j]
  BY <1>3, HandleIs DEF Heard, Out, Missed, Ignored, HelloOf, TypeInv
<1>5. \A j \in Ifcs : \A a \in 1 .. Len(link) : \A f :
        Announced(j, a + 1, f) => Announced(j, a, f)'
  BY <1>1, <1>2, <1>4, AnnouncedPopped
<1>6. OutputInForm' /\ CurrentInForm'
  <2>1. ASSUME NEW i \in Clean, DataOf(i, m)
        PROVE  Genuine(i, m.num, m.length) /\ format[i] = input[i][m.num]
    <3>1. Genuine(i, m.num, m.length) /\ Announced(i, 1, input[i][m.num])
      BY <1>0, <1>1, <1>2, <2>1 DEF LinkInForm
    <3>2. i \in Ifcs
      BY DEF Clean
    <3> QED BY <3>1, <3>2, AnnouncedNext
  <2> QED BY <1>0, <1>2, <1>3, <2>1, HandleForm
<1>7. LinkInForm'
  <2>1. ASSUME NEW i \in Clean', NEW a \in DOMAIN link', DataOf(i, link'[a]),
               NEW f, f = input[i][link'[a].num]
        PROVE  Genuine(i, link'[a].num, link'[a].length) /\ Announced(i, a, f)'
    <3>1. /\ i \in Clean /\ i \in Ifcs /\ a + 1 \in DOMAIN link /\ link'[a] = link[a + 1]
          /\ a \in 1 .. Len(link)
      BY <1>2 DEF Clean
    <3>2. Genuine(i, link'[a].num, link'[a].length) /\ Announced(i, a + 1, f)
      BY <1>0, <2>1, <3>1 DEF LinkInForm
    <3> QED BY <1>5, <3>1, <3>2
  <2>2. \A i \in Clean', a \in DOMAIN link' : DataOf(i, link'[a]) =>
          \A f : f = input[i][link'[a].num] =>
            Genuine(i, link'[a].num, link'[a].length) /\ Announced(i, a, f)'
    BY <2>1
  <2> QED BY <1>3, <2>2 DEF LinkInForm, DataOf, Genuine, Announced
<1>8. ThreadInForm'
  <2>1. ASSUME NEW j \in Ifcs, Announced(j, Len(link) + 1, InputFormat(j))
        PROVE  Announced(j, Len(link) + 1, InputFormat(j))'
    <3>1. PICK f : f = InputFormat(j)
      OBVIOUS
    <3>2. PICK z : z = Len(link)
      OBVIOUS
    <3>3. Announced(j, z, f)'
      BY <1>2, <1>5, <2>1, <3>1, <3>2
    <3>4. InputFormat(j)' = f /\ Len(link') + 1 = z
      BY <1>2, <1>3, <3>1, <3>2 DEF InputFormat
    <3> QED BY <3>3, <3>4
  <2>2. \A j \in Clean' : j \in Clean /\ j \in Ifcs
    BY DEF Clean
  <2> QED BY <1>0, <1>3, <2>1, <2>2 DEF ThreadInForm, Holding
<1> QED BY <1>6, <1>7, <1>8 DEF InForm

LEMMA RepeatForm ==
  ASSUME TypeInv, Ordered, InForm, DemuxRecvFails, Clean' \subseteq Clean
  PROVE  InForm'
<1> USE DEF muxVars, demuxVars
<1>0. ThreadInForm /\ LinkInForm /\ CurrentInForm /\ OutputInForm
  BY DEF InForm
<1>1. /\ UNCHANGED <<pc, ret, own, got, input, mixed, link, current>>
      /\ current \in Messages /\ Addressed(current) /\ Handle(current)
  BY DEF DemuxRecvFails, TypeInv, CurrentLast, Ordered
<1>2. OutputInForm' /\ CurrentInForm'
  BY <1>0, <1>1, HandleForm DEF CurrentInForm
<1>3. \A j \in Clean : format'[j] = format[j]
  <2>1. \A j \in Clean : HelloOf(j, current) => format[j] = current.format
    BY <1>0 DEF CurrentInForm
  <2>2. \A j \in Ifcs :
          IF HelloOf(j, current) THEN format'[j] = current.format ELSE format'[j] = format[j]
    BY <1>1, HandleIs DEF Heard, Out, Missed, Ignored, HelloOf, TypeInv
  <2> QED BY <2>1, <2>2 DEF Clean
<1>4. Grown
  BY <1>1, Places DEF Grown
<1>5. LinkInForm'
  BY <1>0, <1>1, <1>3, <1>4, LinkKept
<1>6. ThreadInForm'
  <2>1. \A j \in Clean' : Announced(j, Len(link) + 1, InputFormat(j))
                            => Announced(j, Len(link) + 1, InputFormat(j))'
    BY <1>1, <1>3 DEF Announced, Sees, FormatAt, IsHello, InputFormat
  <2> QED BY <1>0, <1>1, <2>1 DEF ThreadInForm, Holding
<1> QED BY <1>2, <1>5, <1>6 DEF InForm

LEMMA StepForm == TypeInv /\ Ordered /\ InForm /\ [Next]_vars => InForm'
<1> SUFFICES ASSUME TypeInv, Ordered, InForm, [Next]_vars PROVE InForm'
  OBVIOUS
<1> USE DEF muxVars, demuxVars
<1>0. /\ Clean' \subseteq Clean /\ \A j \in Ifcs : Len(input[j]) \in Nat
      /\ ThreadInForm /\ LinkInForm /\ CurrentInForm /\ OutputInForm
  BY CleanBack, Places DEF InForm
<1>1. ASSUME UNCHANGED <<link, format, output, current>>, Grown, ThreadInForm'
      PROVE  InForm'
  BY <1>0, <1>1, LinkKept, CurrentKept, OutputKept DEF InForm
<1>2. UNCHANGED input => Grown
  BY <1>0 DEF Grown
<1>3. ASSUME NEW i \in Ifcs, Recv(i) PROVE InForm'
  <2>1. UNCHANGED <<link, format, output, current>>
    BY <1>3 DEF Recv
  <2> QED BY <1>0, <1>1, <1>3, <2>1, RecvForm
<1>4. ASSUME NEW i \in Ifcs, RecvFails(i) PROVE InForm'
  <2>1. UNCHANGED <<link, format, output, current, input>>
    BY <1>4 DEF RecvFails
  <2> QED BY <1>0, <1>1, <1>2, <1>4, <2>1, RecvFailsForm
<1>5. ASSUME NEW i \in Ifcs, Test(i) PROVE InForm'
  <2>1. UNCHANGED <<link, format, output, current, input>>
    BY <1>5 DEF Test
  <2> QED BY <1>0, <1>1, <1>2, <1>5, <2>1, TestForm
<1>6. CASE UNCHANGED vars
  <2>1. ThreadInForm'
    BY <1>0, <1>6 DEF vars, ThreadInForm, Clean, Holding, Announced, Sees, FormatAt, IsHello,
                      InputFormat
  <2> QED BY <1>1, <1>2, <1>6, <2>1 DEF vars
<1> QED BY <1>0, <1>3, <1>4, <1>5, <1>6, SendForm, DemuxForm, RepeatForm DEF Next, Thread
-----------------------------------------------------------------------------
(***************************************************************************)
(* The theorem.                                                            *)
(***************************************************************************)

LEMMA MuxInvCorrect == Spec => []MuxInv
<1>1. Init => MuxInv
  BY InitType, InitOrdered, InitForm DEF MuxInv
<1>2. MuxInv /\ [Next]_vars => MuxInv'
  BY StepType, StepOrdered, StepForm DEF MuxInv, Ordered
<1> QED BY <1>1, <1>2, PTL DEF Spec

LEMMA MuxTyped == MuxInv => TypeOK
<1> SUFFICES ASSUME MuxInv PROVE TypeOK
  OBVIOUS
<1>1. TypeInv /\ ThreadFollows
  BY DEF MuxInv, Ordered
<1>2. \A i \in Ifcs : got[i] \in 0 .. Len(input[i])
  BY <1>1, Places
<1>3. ASSUME NEW i \in Ifcs, NEW n \in DOMAIN output[i]
      PROVE  output[i][n].num \in 0 .. Len(input[i])
  <2>1. output[i][n].num \in Nat /\ Len(input[i]) \in Nat /\ got[i] \in 0 .. Len(input[i])
    BY <1>1, <1>2, Places DEF PutOut
  <2>2. output[i][n].num <= got[i]
    BY <1>1 DEF ThreadFollows, Passed
  <2> QED BY <2>1, <2>2
<1> QED BY <1>1, <1>2, <1>3 DEF TypeOK, TypeInv, Formats

\* Every output of demux carries the messages of the input of mux with its number, in their
\* order, twice only after a failed receive; and, where no message of the interface was lost
\* and its thread did not read another one's result in ret, each in the format it came in and
\* with nothing cut off (capture_thread in mux.cpp, main in demux.cpp).
THEOREM RoutedInOrderCorrect == Spec => []RoutedInOrder
<1>1. ASSUME MuxInv PROVE RoutedInOrder
  <2>1. TypeOK /\ TypeInv /\ OutputRises /\ OutputInForm
    BY <1>1, MuxTyped DEF MuxInv, Ordered, InForm
  <2>2. \A i \in Ifcs : \A n \in DOMAIN output[i] : output[i][n] \in PutOut
    BY <2>1, Places
  <2>3. ASSUME NEW i \in Ifcs \ (mixed \cup unsent), NEW n \in DOMAIN output[i]
        PROVE  /\ output[i][n].format = input[i][output[i][n].num]
               /\ output[i][n].length >= Length(output[i][n].num)
    <3>1. /\ output[i][n].length - Padding = Length(output[i][n].num)
          /\ output[i][n].format = input[i][output[i][n].num]
      BY <2>1 DEF OutputInForm, Genuine, Clean
    <3>2. output[i][n].length \in Nat
      BY <2>2 DEF PutOut
    <3>3. Length(output[i][n].num) \in Nat
      BY DEF Length
    <3> QED BY <3>1, <3>2, <3>3 DEF Padding
  <2> QED BY <2>1, <2>3 DEF OutputRises, Before, RoutedInOrder
<1> QED BY <1>1, MuxInvCorrect, PTL
=============================================================================
