----------------------------- MODULE Forwarders -----------------------------
(***************************************************************************)
(* Four modules with one input and one output: traffic_repeater sends on   *)
(* what it receives, endiverter with the bytes of the numbers swapped,     *)
(* anonymizer with its addresses anonymized, and prefix_tags with the tag  *)
(* of the prefix an address is from.  A record is its number and the       *)
(* values of its fields, each a sequence of parts: the bytes of a number,  *)
(* the addresses of an address field or in a text.                         *)
(***************************************************************************)
EXTENDS Integers, Sequences, FiniteSets, SequencesExt

CONSTANTS
  FwdFormats,   \* the formats that may come: [field -> type]
  Addresses,    \* SRC_IP and DST_IP: an IPv4 address (4 bits) or an IPv6 address (16)
  TagPrefixes,     \* the configuration of prefix_tags: a sequence of [ip, length, id]
  FwdMessages   \* bound on the messages

NoFormat == [x \in {} |-> "uint8"]
Parts == [uint8 |-> 1, uint16 |-> 2, uint32 |-> 4, time |-> 8, mac |-> 6, string |-> 4,
          ipaddr |-> 1, text |-> 2]

\* A format has fields, of the types that there are.
FormatsTyped ==
  \A fmt \in FwdFormats : fmt \in [DOMAIN fmt -> DOMAIN Parts] /\ DOMAIN fmt # {}

VARIABLES
  module, noEof,    \* which of the four; -n
  checkSrc, checkDst,   \* without -d, without -s
  at,        \* where the loop is
  rec,       \* the message: [num, fmt, filled, src, dst, ret], num 0 for the end
  tmplt,     \* the format of the input
  outTmplt,  \* the format the output was given last
  buffer,    \* the record of prefix_tags: [fmt, num, tag]
  anonFields,   \* anon_fields of anonymizer
  quit,      \* stop
  cntR, cntS, cntT,   \* the counters of traffic_repeater
  output,    \* history: the records sent: [num, fmt, values, tag, announced]
  refused    \* history: the records whose send did not succeed

vars == <<module, noEof, checkSrc, checkDst, at, rec, tmplt, outTmplt, buffer, anonFields, quit,
          cntR, cntS, cntT, output, refused>>

NoRecord == [num |-> 0, fmt |-> NoFormat, filled |-> FALSE, src |-> <<>>, dst |-> <<>>, ret |-> "none"]
Configuration == <<module, noEof, checkSrc, checkDst>>
Counters == <<cntR, cntS, cntT>>

Init ==
  /\ module \in {"repeater", "endiverter", "anonymizer", "tags"}
  /\ noEof \in BOOLEAN /\ checkSrc \in BOOLEAN /\ checkDst \in BOOLEAN
  /\ module \in {"tags", "anonymizer"} => ~noEof
  /\ module # "tags" => checkSrc /\ checkDst
  /\ at = "receive" /\ rec = NoRecord /\ tmplt = NoFormat
  /\ outTmplt = NoFormat /\ buffer = [fmt |-> NoFormat, num |-> 0, tag |-> 0]
  /\ anonFields = {}
  /\ quit = FALSE /\ cntR = 0 /\ cntS = 0 /\ cntT = 0
  /\ output = <<>> /\ refused = {}

-----------------------------------------------------------------------------
(* What a record holds.                                                    *)

\* The bytes of a string are its offset and its length; a text has an IPv6 address and
\* an IPv4 address behind it.
Values(r) == [f \in DOMAIN r.fmt |-> [i \in 1 .. Parts[r.fmt[f]] |-> <<r.num, i>>]]

\* endiverter: numbers and times are turned around, and so are the offset and the
\* length of a string; what has no byte order stays.
Diverted(r) ==
  [f \in DOMAIN r.fmt |->
     LET v == Values(r)[f]
     IN IF r.fmt[f] \in {"uint16", "uint32", "time"} THEN Reverse(v)
        ELSE IF r.fmt[f] = "string" THEN <<v[2], v[1], v[4], v[3]>> ELSE v]

AnonFieldNames == {"SRC_IP", "DST_IP", "SIP_CALLED_PARTY", "SIP_CALLING_PARTY", "SIP_CALL_ID",
                   "SIP_REQUEST_URI", "SIP_VIA"}
SetFieldsPresent(fmt) == DOMAIN fmt \cap AnonFieldNames

\* anon_present_fields: the address of an address field; of a text the first IPv4
\* address or, without one, the first IPv6 address.
Anonymized(r, fields) ==
  [f \in DOMAIN r.fmt |->
     IF f \in fields THEN [Values(r)[f] EXCEPT ![Len(Values(r)[f])] = Append(@, 0)] ELSE Values(r)[f]]

-----------------------------------------------------------------------------
(* prefix_tags: the prefix of an address                                   *)

\* ipps_search: addresses of one version that agree in the first bits.
IsFromPrefix(ip, prefix) ==
  /\ Len(ip) = Len(prefix.ip)
  /\ \A i \in 1 .. prefix.length : ip[i] = prefix.ip[i]

\* is_from_configured_prefix: the tag of one of the prefixes (which of them, is up to
\* the search of ip_prefix_search.h).
TagsOf(ip) == {TagPrefixes[i].id : i \in {i \in DOMAIN TagPrefixes : IsFromPrefix(ip, TagPrefixes[i])}}

\* The source decides, then the destination, unless they are not to be looked at.
Tags(r) ==
  IF checkSrc /\ TagsOf(r.src) # {} THEN TagsOf(r.src)
  ELSE IF checkDst THEN TagsOf(r.dst) ELSE {}

\* Mutant: the output keeps the first format it was given.
UpdateOutputFormatOnce(fmt) ==
  IF outTmplt # NoFormat THEN outTmplt ELSE [f \in DOMAIN fmt \cup {"PREFIX_TAG"} |->
                                IF f = "PREFIX_TAG" THEN "uint32" ELSE fmt[f]]

\* update_output_format: the format of the input and PREFIX_TAG.
UpdateOutputFormat(fmt) ==
  [f \in DOMAIN fmt \cup {"PREFIX_TAG"} |-> IF f = "PREFIX_TAG" THEN "uint32" ELSE fmt[f]]

HasString(fmt) == \E f \in DOMAIN fmt : fmt[f] = "string"

\* ur_rec_varlen_size of the record, not of its format.
HasVarlen(r) == r.filled

\* What is in a record without room for strings: they may be lost.
Written(r) ==
  {Values(r)} \cup
    IF HasVarlen(r)
    THEN {[f \in DOMAIN r.fmt |-> IF r.fmt[f] = "string" THEN <<>> ELSE Values(r)[f]]}
    ELSE {}

-----------------------------------------------------------------------------
(* The loops                                                               *)

Receive ==
  /\ at = "receive" /\ ~quit /\ rec.num < FwdMessages
  /\ \E fmt \in FwdFormats, filled \in BOOLEAN, src, dst \in Addresses :
       /\ filled => HasString(fmt)
       /\ module # "tags" => src = dst /\ filled = HasString(fmt)
       /\ rec' = [num |-> rec.num + 1, fmt |-> fmt, filled |-> filled, src |-> src,
                  dst |-> dst, ret |-> IF fmt = tmplt THEN "ok" ELSE "format"]
       /\ tmplt' = fmt
  /\ at' = "handle"
  /\ UNCHANGED <<Configuration, outTmplt, buffer, anonFields, quit, Counters, output, refused>>

\* The end: the repeater and endiverter send it on, unless -n says not to.
ReceiveEnd ==
  /\ at = "receive" /\ ~quit
  /\ at' = "exit"
  /\ cntR' = IF module = "repeater" THEN cntR + 1 ELSE cntR
  /\ cntS' = IF module = "repeater" /\ ~noEof THEN cntS + 1 ELSE cntS
  /\ quit' = (quit \/ module = "repeater")
  /\ UNCHANGED <<Configuration, rec, tmplt, outTmplt, buffer, anonFields, cntT, output, refused>>

\* A timeout is counted by the repeater; another error, or the flag, ends the loop.
ReceiveTimeout ==
  /\ at = "receive" /\ ~quit /\ cntT < 1
  /\ cntT' = IF module = "repeater" THEN cntT + 1 ELSE cntT
  /\ UNCHANGED <<Configuration, at, rec, tmplt, outTmplt, buffer, anonFields, quit, cntR, cntS, output, refused>>

ReceiveNothing ==
  /\ at = "receive"
  /\ at' = "exit"
  /\ UNCHANGED <<Configuration, rec, tmplt, outTmplt, buffer, anonFields, quit, Counters, output, refused>>

\* trap_send: what becomes of the record, and whether the loop goes on.
Send(fmt, num, values, tag, result) ==
  IF result = "ok"
  THEN /\ output' = Append(output, [num |-> num, fmt |-> fmt, values |-> values, tag |-> tag,
                                    announced |-> outTmplt'])
       /\ UNCHANGED refused
  ELSE refused' = refused \cup {num} /\ UNCHANGED output

Results == {"ok", "timeout", "error"}

\* A signal between the receive and the test takes the record, when no end is to be sent.
Repeat ==
  /\ at = "handle" /\ module = "repeater"
  /\ outTmplt' = IF rec.ret = "format" THEN rec.fmt ELSE outTmplt
  /\ cntR' = cntR + 1
  /\ \/ /\ quit /\ noEof
        /\ at' = "exit" /\ refused' = refused \cup {rec.num}
        /\ UNCHANGED <<cntS, cntT, output>>
     \/ /\ ~(quit /\ noEof)
        /\ \E result \in Results :
             /\ Send(rec.fmt, rec.num, Values(rec), 0, result)
             /\ cntS' = IF result = "ok" THEN cntS + 1 ELSE cntS
             /\ cntT' = IF result = "timeout" THEN cntT + 1 ELSE cntT
             /\ at' = IF result = "error" THEN "exit" ELSE "receive"
  /\ UNCHANGED <<Configuration, rec, tmplt, buffer, anonFields, quit>>

\* The result of the send is not looked at.
Divert ==
  /\ at = "handle" /\ module = "endiverter"
  /\ outTmplt' = IF rec.ret = "format" THEN rec.fmt ELSE outTmplt
  /\ \E result \in Results : Send(rec.fmt, rec.num, Diverted(rec), 0, result)
  /\ at' = "receive"
  /\ UNCHANGED <<Configuration, rec, tmplt, buffer, anonFields, quit, Counters>>

Anonymize ==
  /\ at = "handle" /\ module = "anonymizer"
  /\ outTmplt' = IF rec.ret = "format" THEN rec.fmt ELSE outTmplt
  /\ anonFields' = IF rec.ret = "format" THEN SetFieldsPresent(rec.fmt) ELSE anonFields
  /\ \E result \in Results : Send(rec.fmt, rec.num, Anonymized(rec, anonFields'), 0, result)
  /\ at' = "receive"
  /\ UNCHANGED <<Configuration, rec, tmplt, buffer, quit, Counters>>

\* A record whose strings are not empty is refused when it comes with a new format; one
\* that matches no prefix is not sent.  The buffer has no room for strings: those of a
\* later record are written behind it, which the module may die of.
Tag ==
  LET new == UpdateOutputFormat(rec.fmt)
      out == IF rec.ret = "format" THEN [fmt |-> new, num |-> 0, tag |-> 0] ELSE buffer
  IN /\ at = "handle" /\ module = "tags"
     /\ outTmplt' = IF rec.ret = "format" THEN new ELSE outTmplt
     /\ IF rec.ret = "format" /\ HasVarlen(rec)
        THEN at' = "exit" /\ UNCHANGED <<buffer, output, refused>>
        ELSE IF Tags(rec) = {}
        THEN at' = "receive" /\ buffer' = out /\ UNCHANGED <<output, refused>>
        ELSE \/ /\ HasVarlen(rec) /\ at' = "crash"
                /\ UNCHANGED <<buffer, output, refused>>
             \/ \E tag \in Tags(rec), result \in Results :
                  /\ buffer' = [out EXCEPT !.num = rec.num, !.tag = tag]
                  /\ \E values \in Written(rec) : Send(out.fmt, rec.num, values, tag, result)
                  /\ at' = IF result = "error" THEN "exit" ELSE "receive"
     /\ UNCHANGED <<Configuration, rec, tmplt, anonFields, quit, Counters>>

SigTerm ==
  /\ ~quit /\ at # "exit" /\ quit' = TRUE
  /\ UNCHANGED <<Configuration, at, rec, tmplt, outTmplt, buffer, anonFields, Counters, output, refused>>

Next == Receive \/ ReceiveEnd \/ ReceiveTimeout \/ ReceiveNothing \/ Repeat \/ Divert \/ Anonymize \/ Tag \/ SigTerm

Spec == Init /\ [][Next]_vars

-----------------------------------------------------------------------------

\* The values a record is to be sent with.
Due == CASE module = "endiverter" -> Diverted(rec)
         [] module = "anonymizer" -> Anonymized(rec, AnonFieldNames)
         [] OTHER                 -> Values(rec)

\* What is sent is what came: in order, each record once, with its own values, under the
\* format the output was given for it, and none missing but those whose send failed and,
\* in prefix_tags, those of no prefix; strings that prefix_tags has no room for are
\* excepted.  anonymizer lets no address out of the fields it lists, but for the second
\* one of a text.  The repeater's counters tell how many were sent.
SentOnAsReceived ==
  /\ \A j, k \in DOMAIN output : j < k => output[j].num < output[k].num
  /\ \A k \in DOMAIN output :
       /\ output[k].fmt = output[k].announced
       /\ module = "anonymizer" => \A f \in DOMAIN output[k].fmt :
            f \in AnonFieldNames <=> Last(output[k].values[f]) # <<output[k].num, Len(output[k].values[f])>>
       /\ DOMAIN output[k].fmt =
            DOMAIN output[k].values \cup (IF module = "tags" THEN {"PREFIX_TAG"} ELSE {})
  /\ at = "receive" /\ rec.num > 0 =>
       LET sent == \E k \in DOMAIN output : output[k].num = rec.num
           tags == IF module = "tags" THEN Tags(rec) ELSE {0}
       IN /\ sent \/ rec.num \in refused <=> tags # {}
          /\ sent => /\ Last(output).tag \in tags
                     /\ Last(output).values = Due \/ (module = "tags" /\ HasVarlen(rec))
  /\ module = "repeater" /\ at = "receive" => cntR = rec.num /\ cntS = Len(output)
=============================================================================
