------------------------------- MODULE MCTools -------------------------------
(***************************************************************************)
(* The values the constants of the small tools have in their run.          *)
(***************************************************************************)
EXTENDS SmallTools

\* merger: two inputs, one changes its format, the other shares a field of it.
MCMergerIfcs    == {1, 2}
MCMergerFormats == <<{{"A"}, {"A", "B"}}, {{"B"}}>>
MCNoTemplate    == {"none"}
MCUserTemplates == {{"none"}, {"A", "C"}}

\* link_traffic and proto_traffic: links that rise, that fall, and that are too many; one
\* value is of no link, and one wraps around in the comparison.
MCTrafficTools == {"link", "proto"}
Link(n, name) == [val |-> n, name |-> name]
MCLinkFiles   == {<<Link(2, "b"), Link(1, "c")>>, <<Link(1, "c"), Link(2, "b")>>,
                  <<Link(1, "c"), Link(3, "a"), Link(2, "b")>>}
MCLinkValues  == {1, 4, 20}
MCProtocols   == <<[val |-> 6, name |-> "tcp"], [val |-> 17, name |-> "udp"]>>
MCProtoValues == {6, 17, 1}

\* logger and logreplay: texts with a quote and a comma of which one is cut, and with a
\* backslash before a quote of theirs or the closing one.
NumberThenText == <<[name |-> "N", dynamic |-> FALSE], [name |-> "S", dynamic |-> TRUE]>>
TextThenNumber == <<[name |-> "S", dynamic |-> TRUE], [name |-> "N", dynamic |-> FALSE]>>
MCLogFormats == {NumberThenText, TextThenNumber}
MCTexts      == {<<"q", ",">>, <<"a", "q", ",", "a">>, <<"b", "q">>, <<"q", "b">>}
MCDigits     == <<"1", "2", "3", "4">>
MCDelimiters == {",", ";"}

\* ipv6stats: two addresses of one /64 and a third of their /48; the long window is a
\* multiple of the short one, or not.
Address(p64, host) == [p48 |-> 1, p64 |-> p64, host |-> host]
MCV4Sources   == {1}
MCV6Sources   == {Address(1, 1), Address(1, 2), Address(2, 1)}
MCTunnelTypes == {4, 64}
MCSizes       == {[short |-> 1, long |-> 2], [short |-> 2, long |-> 3]}

\* The forwarders: formats with numbers to swap, strings, and addresses to anonymize; a
\* prefix of one bit, a longer one beside it, and one of IPv6.
MCFwdFormats == {[A |-> "uint16", M |-> "mac"],
                 [T |-> "time", A |-> "uint16", B |-> "uint8"],
                 [S |-> "string", U |-> "uint32"],
                 [SRC_IP |-> "ipaddr", SIP_VIA |-> "text", T |-> "time"]}
MCAddresses   == {<<0, 1, 0, 1>>, <<1, 1, 0, 0>>, <<1, 0, 0, 0, 0, 0>>}
MCTagPrefixes == <<[ip |-> <<1, 1, 1, 1>>, length |-> 1, id |-> 7],
                   [ip |-> <<1, 1, 0, 0>>, length |-> 3, id |-> 8],
                   [ip |-> <<1, 1, 0, 0, 0, 0>>, length |-> 1, id |-> 9]>>

\* device_classifier: a flow, its answer within the pause, and one to an IPv6 address
\* after the timestamps wrapped around, half of all of them later; reports at the end, by
\* the period with and without -a, filters of which one is unreadable, and trainings that
\* bring new labels.
Flow(s, d, first, last) ==
  [src |-> s, dst |-> d, sport |-> IF s = <<0>> THEN 60000 ELSE 7, dport |-> 53,
   tcp |-> s = <<0>>, packets |-> s[1] + 1, first |-> first, last |-> last]
Rule(ip, subnet, labels, readable) ==
  [ip |-> ip, subnet |-> subnet, labels |-> labels, readable |-> readable]
Options(rules, train, accumulate, peers, minutes) ==
  [rules |-> rules, train |-> train, accumulate |-> accumulate, peers |-> peers,
   minutes |-> minutes]
MCDeviceFlows == {Flow(<<0>>, <<1>>, 18, 19), Flow(<<1>>, <<0>>, 20, 20),
                  Flow(<<0>>, <<9, 2>>, 42, 43)}
MCDeviceOptions ==
  {Options(<<>>, FALSE, FALSE, 1, 0), Options(<<>>, FALSE, FALSE, 0, 1),
   Options(<<>>, FALSE, TRUE, 0, 1),
   Options(<<Rule(1, -1, <<>>, TRUE)>>, FALSE, FALSE, 0, 0),
   Options(<<Rule(1, -1, <<>>, TRUE), Rule(2, -1, <<>>, FALSE)>>, FALSE, FALSE, 0, 0),
   Options(<<Rule(0, 1, <<"dns", "x">>, TRUE), Rule(2, -1, <<"x">>, TRUE)>>, TRUE, FALSE, 0, 0),
   Options(<<Rule(1, 2, <<"z">>, TRUE)>>, TRUE, TRUE, 0, 1)}
MCFirstModels == <<[id |-> 4, name |-> "web"], [id |-> 2, name |-> "dns"]>>
MCUntrained   == {4}
=============================================================================
