---------------------------- MODULE TrafficStats ----------------------------
(***************************************************************************)
(* The modules link_traffic and proto_traffic: main counts the flows of    *)
(* every link (or protocol), a second thread answers each client on the    *)
(* socket with a line of headers and a line of values.                     *)
(***************************************************************************)
EXTENDS Integers, Sequences, FiniteSets, Functions

CONSTANTS
  Tools,        \* {"link", "proto"}, or one of them
  LinkFiles,    \* the configuration files: sequences of [val, name]
  LinkValues,   \* what LINK_BIT_FIELD may hold
  Protocols,    \* the protocols that are counted: a sequence of [val, name]
  ProtoValues,  \* what PROTOCOL may hold
  Width,        \* what the int of a comparison wraps around at
  BufferLinks,  \* the links whose headers and values fit in the 4096 bytes of databuffer
  MaxRecords, MaxReplies    \* bounds

\* The protocols are those the code lists, each once.  A file has a link: without one the
\* reply has no header to end.
ConfigurationsTyped ==
  /\ Tools \subseteq {"link", "proto"} /\ Width \in Nat /\ BufferLinks \in Nat
  /\ Protocols \in Seq([val : Int, name : STRING])
  /\ \A i, j \in DOMAIN Protocols :
       i # j => Protocols[i].val # Protocols[j].val /\ Protocols[i].name # Protocols[j].name
  /\ \A i \in DOMAIN Protocols : Protocols[i].name # "others"
  /\ \A f \in LinkFiles : f \in Seq([val : Int, name : STRING]) /\ f # <<>>

VARIABLES
  tool, file,    \* which of the modules, and its configuration in the order of the file
  pc, server,    \* where main and the thread are
  stop, woken,   \* the flag, and whether trap_terminate was called
  slot, dir,     \* what main is adding to
  stats,         \* [slot -> [flows, volume] in each direction]
  values,        \* what the thread has printed so far
  asked,         \* history: stats when the client came
  records,       \* history: the records, by value and direction
  replies        \* history: how many were begun

vars == <<tool, file, pc, server, stop, woken, slot, dir, stats, values, asked, records, replies>>

\* The int that the difference of two numbers is returned as.
AsInt(n) == LET m == n % Width IN IF m >= Width \div 2 THEN m - Width ELSE m
Confcmp(a, b) == AsInt(b.val - a.val)

\* The links with their places in the file (m_id).
Entries == [i \in DOMAIN file |-> [val |-> file[i].val, name |-> file[i].name, id |-> i]]

\* qsort, by falling value.
Conf == CHOOSE s \in Bijection(DOMAIN file, Range(Entries)) :
          \A i, j \in DOMAIN file : i < j => Confcmp(s[i], s[j]) <= 0

\* bsearch between b[1] and b[2], 0 for none.
Bsearch(key) ==
  LET n == Len(file)
      look[b \in (0 .. n) \X (0 .. n)] ==
        LET l == b[1]  u == b[2]  m == (l + u) \div 2  c == Confcmp(key, Conf[m + 1])
        IN IF l >= u THEN 0 ELSE IF c < 0 THEN look[<<l, m>>]
           ELSE IF c > 0 THEN look[<<m + 1, u>>] ELSE m + 1
  IN look[<<0, n>>]

Others == Len(file) + 1

\* Mutant: links that are not found go to the first slot.
SlotOfFirst(v) ==
  LET places == {i \in DOMAIN file : file[i].val = v}
  IN IF places = {} THEN 1 ELSE CHOOSE i \in places : TRUE

\* Where main counts a record: the slots of links are in the order of the file.
SlotOf(v) ==
  IF tool = "proto"
  THEN IF \E i \in DOMAIN file : file[i].val = v
       THEN CHOOSE i \in DOMAIN file : file[i].val = v ELSE Others
  ELSE LET found == Bsearch([val |-> v]) IN IF found = 0 THEN Others ELSE Conf[found].id

\* The headers: links in the order of the sorted configuration, without the others.  The
\* values are in the order of the file.
Headers == IF tool = "proto" THEN [i \in 1 .. Others |-> IF i = Others THEN "others" ELSE file[i].name]
                             ELSE [i \in DOMAIN file |-> Conf[i].name]

Nothing == [i \in 1 .. Others |-> [d \in {0, 1} |-> [flows |-> 0, volume |-> 0]]]

Init ==
  /\ tool \in Tools
  /\ file \in IF tool = "proto" THEN {Protocols} ELSE LinkFiles
  /\ pc = "receive" /\ server = "setup"
  /\ stop = FALSE /\ woken = FALSE
  /\ slot = 1 /\ dir = 0
  /\ stats = Nothing /\ asked = Nothing
  /\ values = <<>> /\ records = <<>> /\ replies = 0

fixed == <<tool, file>>

-----------------------------------------------------------------------------
(* main                                                                    *)

MainOnly == UNCHANGED <<fixed, server, values, asked, replies>>

\* A direction other than in and out is not counted.
Receive ==
  /\ pc = "receive" /\ ~stop /\ Len(records) < MaxRecords
  /\ \E v \in IF tool = "proto" THEN ProtoValues ELSE LinkValues,
        d \in IF tool = "proto" THEN {0} ELSE {0, 1, 2} :
       /\ records' = Append(records, [val |-> v, dir |-> d])
       /\ slot' = SlotOf(v) /\ dir' = d
       /\ pc' = IF d \in {0, 1} THEN "count" ELSE "receive"
  /\ MainOnly /\ UNCHANGED <<stop, woken, stats>>

CountFlow ==
  /\ pc = "count"
  /\ stats' = [stats EXCEPT ![slot][dir].flows = @ + 1]
  /\ pc' = "volume"
  /\ MainOnly /\ UNCHANGED <<stop, woken, slot, dir, records>>

CountVolume ==
  /\ pc = "volume"
  /\ stats' = [stats EXCEPT ![slot][dir].volume = @ + 1]
  /\ pc' = "receive"
  /\ MainOnly /\ UNCHANGED <<stop, woken, slot, dir, records>>

\* The end of the input, or what trap_terminate makes of a receive.  The thread does not
\* outlive main: what it had begun is lost.
Leave ==
  /\ pc = "receive"
  /\ pc' = "exit"
  /\ MainOnly /\ UNCHANGED <<stop, woken, slot, dir, stats, records>>

SigTerm ==
  /\ ~stop /\ stop' = TRUE /\ woken' = TRUE
  /\ MainOnly /\ UNCHANGED <<pc, slot, dir, stats, records>>

-----------------------------------------------------------------------------
(* accept_clients                                                          *)

ServerOnly == UNCHANGED <<fixed, pc, slot, dir, stats, records>>

Listen ==
  /\ server = "setup" /\ pc # "exit"
  /\ server' = "accept"
  /\ ServerOnly /\ UNCHANGED <<stop, woken, values, asked, replies>>

\* Mutant: only the flag is set.
SetupFailsQuietly ==
  /\ server = "setup" /\ pc # "exit"
  /\ server' = "exit"
  /\ stop' = TRUE
  /\ ServerOnly /\ UNCHANGED <<woken, values, asked, replies>>

\* No socket: main is to stop.  Only link_traffic wakes it.
SetupFails ==
  /\ server = "setup" /\ pc # "exit"
  /\ server' = "exit"
  /\ stop' = TRUE /\ woken' = (woken \/ tool = "link")
  /\ ServerOnly /\ UNCHANGED <<values, asked, replies>>

AcceptClient ==
  /\ server = "accept" /\ pc # "exit" /\ replies < MaxReplies
  /\ server' = "print"
  /\ asked' = stats /\ values' = <<>> /\ replies' = replies + 1
  /\ ServerOnly /\ UNCHANGED <<stop, woken>>

Fits == tool = "proto" \/ Len(file) <= BufferLinks

\* The values are read one by one, while main goes on counting.
PrepareData ==
  /\ server = "print" /\ pc # "exit"
  /\ values' = Append(values, stats[Len(values) + 1])
  /\ server' = IF Len(values') = Len(Headers) THEN "send" ELSE "print"
  /\ ServerOnly /\ UNCHANGED <<stop, woken, asked, replies>>

\* Behind the end of databuffer the room that is left is a negative number taken for a
\* large one, and snprintf writes on into the heap: link_traffic dies of it, or what it
\* wrote there is overwritten, unless it is lucky (PrepareData).
Overrun ==
  /\ server = "print" /\ pc # "exit" /\ ~Fits
  /\ \/ server' = "exit" /\ pc' = "exit" /\ UNCHANGED values
     \/ /\ values' = Append(values, Nothing[1])
        /\ server' = IF Len(values') = Len(Headers) THEN "send" ELSE "print"
        /\ UNCHANGED pc
  /\ UNCHANGED <<fixed, stop, woken, slot, dir, stats, asked, records, replies>>

\* The flag is only looked at between two clients; link_traffic then wakes main.
SendToSock ==
  /\ server = "send" /\ pc # "exit"
  /\ server' = IF stop THEN "exit" ELSE "accept"
  /\ woken' = (woken \/ (stop /\ tool = "link"))
  /\ ServerOnly /\ UNCHANGED <<stop, values, asked, replies>>

AcceptFails ==
  /\ server = "accept" /\ pc # "exit" /\ stop
  /\ server' = "exit" /\ woken' = (woken \/ tool = "link")
  /\ ServerOnly /\ UNCHANGED <<stop, values, asked, replies>>

Next == Receive \/ CountFlow \/ CountVolume \/ Leave \/ SigTerm
        \/ Listen \/ SetupFails \/ AcceptClient \/ PrepareData \/ Overrun \/ SendToSock
        \/ AcceptFails

Fairness == WF_vars(CountFlow \/ CountVolume) /\ WF_vars(Leave /\ woken) /\ WF_vars(PrepareData \/ SendToSock)

Spec == Init /\ [][Next]_vars /\ Fairness

-----------------------------------------------------------------------------

\* The records of a direction that a slot is to count.
Under(i, d) ==
  Cardinality({k \in DOMAIN records : records[k].dir = d /\
    IF i = Others THEN \A j \in DOMAIN file : file[j].val # records[k].val
    ELSE file[i].val = records[k].val})

Told(i, d) == /\ values[i][d].flows <= Under(i, d)
              /\ asked[i][d].flows <= values[i][d].flows
              /\ pc = "receive" /\ stats = asked => values[i][d].flows = Under(i, d)

Complete == server = "send"

\* What the counts of link_traffic rely on: the file lists a link once, and all values are
\* small enough for the int of the comparison.
InReach(v) == v \in 0 .. Width \div 2 - 1
Legible == tool = "link" =>
  /\ \A i, j \in DOMAIN file : file[i].val = file[j].val => i = j
  /\ \A i \in DOMAIN file : InReach(file[i].val)
  /\ \A k \in DOMAIN records : InReach(records[k].val)

\* The values of a reply that fits in the buffer are the counts of the links in the order
\* of the file (of the protocols in theirs, under their headers), each as it was at some
\* moment since the client came; what no link is configured for counts as "others".
RepliesTruthful ==
  Legible =>
     /\ Complete /\ Fits => \A i \in DOMAIN Headers, d \in {0, 1} : Told(i, d)
     /\ pc = "receive" => \A d \in {0, 1} : stats[Others][d].flows = Under(Others, d)

\* link_traffic's README gives a reply as a line of headers and a line of values, a value
\* for each header: what stands under the name of a link is a count of that link.
ValuesUnderHeaders ==
  tool = "link" /\ Legible /\ Fits /\ Complete =>
    \A i \in DOMAIN Headers, d \in {0, 1} :
      \E j \in DOMAIN file : file[j].name = Headers[i] /\ values[i][d].flows <= Under(j, d)

\* A socket that cannot be set up ends link_traffic without another record.
SetupFailureEnds == (tool = "link" /\ server = "exit") ~> (pc = "exit")
=============================================================================
