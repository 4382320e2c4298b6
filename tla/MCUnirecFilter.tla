--------------------------- MODULE MCUnirecFilter ---------------------------
(***************************************************************************)
(* Single filters on the command line, one for each kind of term and of    *)
(* operator, and a file for two outputs that is edited twice.              *)
(***************************************************************************)
EXTENDS UnirecFilter, TLC

CONSTANTS ProtocolNo, Wrap, AddressBits, Matching

\* The library as it is.
U == INSTANCE UrFilter
ASSUME LibraryTyped == U!ConstantsTyped

MCTreeOf(text, fields, taken) == U!GetTree(text, fields, taken)
MCTreeless == U!NoTree
MCEvaluate(tree, record) == U!EvalAST(tree, record)
MCIsPlain(text) == U!Plain(text)
MCFieldsUsed(text) == U!FieldsOf(text)
MCSays(text, record, fields) == U!Meaning(text, record, fields)

MCTypeOf == [A |-> "uint8", X |-> "uint8", B |-> "int8", H |-> "int16", W |-> "int32", L |-> "int64",
             U |-> "uint64", F |-> "float", D |-> "double", T |-> "time", S |-> "string", I |-> "ip",
             PROTOCOL |-> "uint8"]
MCWrap == [int8 |-> 32, uint8 |-> 32, int16 |-> 128, int32 |-> 512, int64 |-> 4096, uint64 |-> 4096]
MCProtocolNo == [TCP |-> 6, UDP |-> 17]

\* Texts are sequences of letters, the longest is longer than what is copied.
TextA == <<"a">>
TextB == <<"b">>
TextAB == <<"a", "b">>
TextABC == <<"a", "b", "c">>
StartsA == <<"^a">>
MCMatching == {StartsA} \X {TextA, TextAB, TextABC}

ip(version, n) == [version |-> version, n |-> n]
term(kind, field, cmp, value) ==
  [kind |-> kind, field |-> field, cmp |-> cmp, value |-> value, op |-> "and"]
int(field, cmp, value) == term("int", field, cmp, value)
or(t) == [t EXCEPT !.op = "or"]
spec(fields, defaults) == [fields |-> fields, defaults |-> defaults, malformed |-> {}]
section(s, filter) == [spec |-> s, filter |-> filter, unterminated |-> FALSE]

A1 == int("A", "==", 1)
Single ==
  {<<int("A", sign, 2)>> : sign \in {"=", "!=", "<", "<=", ">", ">=", "=>"}}
  \cup {<<int("B", "<", -1)>>, <<int("U", "<=", 200)>>, <<int("X", "==", 1)>>,
        <<int("H", "<", 0)>>, <<int("W", ">=", -1)>>, <<int("L", "!=", -600)>>,
        <<term("fp", "D", ">", 15)>>, <<term("fp", "F", "<", 15)>>, <<term("time", "T", ">=", 7)>>,
        <<term("array", "A", "in", <<3, 1>>)>>, <<term("array", "U", "in", <<200, 3, 7>>)>>,
        <<term("array", "B", "in", <<15, 1, 4>>)>>, <<term("array", "H", "in", <<63, 60, 2>>)>>,
        <<term("array", "W", "in", <<5, 255, 0, 9>>)>>, <<term("array", "W", "in", <<-1, 5>>)>>,
        <<term("array", "L", "in", <<-88, 7>>)>>, <<term("array", "F", "in", <<15>>)>>,
        <<term("array", "S", "in", <<1>>)>>, <<term("array", "X", "in", <<1>>)>>,
        <<term("array", "I", "in", <<ip(4, 6), ip(6, 1)>>)>>,
        <<term("string", "S", "==", TextAB)>>, <<term("string", "S", "=~", StartsA)>>,
        <<term("ip", "I", "==", ip(4, 6))>>,
        <<term("net", "I", "==", [address |-> ip(4, 7), bits |-> 2])>>,
        <<term("net", "I", "!=", [address |-> ip(6, 5), bits |-> 1])>>,
        <<term("protocol", "PROTOCOL", "==", "TCP")>>}
Joined ==
  {<<A1, or(int("U", ">", 5)), term("string", "S", "==", TextB)>>,
   <<A1, or(int("U", ">", 5)), or(term("string", "S", "==", TextB))>>,
   <<term("bracket", "", "", <<A1, or(int("H", "<", 0))>>), term("string", "S", "!=", TextAB)>>,
   <<term("not", "", "", <<A1>>), int("U", ">", 5)>>,
   <<term("not", "", "", <<term("bracket", "", "", <<A1, or(int("U", ">", 5))>>)>>)>>,
   <<int("U", ">", 5), term("bracket", "", "",
        <<A1, or(term("protocol", "PROTOCOL", "!=", "UDP"))>>)>>}

FullFormat == <<"A", "B", "H", "W", "L", "U", "F", "D", "T", "S", "I", "PROTOCOL">>
FullRecords ==
  {[A |-> 1, B |-> -2, H |-> -60, W |-> 255, L |-> -600, U |-> 200, F |-> 10, D |-> 10, T |-> 7,
    S |-> TextABC, I |-> ip(4, 6), PROTOCOL |-> 6],
   [A |-> 2, B |-> -1, H |-> -4, W |-> -1, L |-> 519, U |-> 3, F |-> 15, D |-> 15, T |-> 6,
    S |-> TextB, I |-> ip(4, 4), PROTOCOL |-> 17],
   [A |-> 3, B |-> 1, H |-> 63, W |-> -200, L |-> 7, U |-> 201, F |-> 16, D |-> 16, T |-> 8,
    S |-> TextAB, I |-> ip(6, 6), PROTOCOL |-> 6]}

OnCommandLine ==
  {[file |-> FALSE, outputs |-> 1, maxNum |-> 0, formats |-> {FullFormat}, records |-> FullRecords,
    versions |-> <<<<section(NoSpec, f)>>>>] : f \in Single \cup Joined \cup {NoText, Blank}}

\* Narrow records first; the wider format has a field the outputs ask for.
Narrow(a) == [A |-> a, U |-> 9]
Wide(a)   == [A |-> a, U |-> 3, B |-> 4]
SpecB    == spec(<<"A", "B">>, [B |-> 7])
SpecBad  == [spec(<<"B", "A">>, <<>>) EXCEPT !.malformed = {"B"}]

First  == <<section(SpecB, <<A1>>), section(NoSpec, <<int("B", ">", 2), or(int("U", ">", 5))>>)>>
Second == <<section(NoSpec, <<int("A", "!=", 1)>>), section(SpecB, Blank)>>
Broken == <<section(SpecB, <<A1>>), [section(NoSpec, <<A1>>) EXCEPT !.unterminated = TRUE]>>
Failing == <<section(SpecBad, <<A1>>), section(NoSpec, <<A1>>)>>
Empty   == <<section(SpecB, NoText), section(NoSpec, <<A1>>)>>

FromFile(versions, n) ==
  [file |-> TRUE, outputs |-> 2, maxNum |-> n, versions |-> versions,
   formats |-> {<<"A", "U">>, <<"A", "U", "B">>}, records |-> {Narrow(1), Wide(1), Wide(2)}]
MCPrograms == OnCommandLine
  \cup {FromFile(<<First, Second, Failing>>, 4), FromFile(<<First, Broken, Second>>, 0),
        FromFile(<<Failing>>, 0), FromFile(<<Empty>>, 2), FromFile(<<Second, First>>, 0),
        FromFile(<<<<section(SpecB, <<A1>>)>>>>, 0)}
MCReload == {FromFile(<<First, Second, First>>, 0)}

Numeric == DOMAIN MCWrap \cup {"float", "double", "time"}
MCNull == [t \in Numeric |-> 0] @@ [string |-> <<>>, ip |-> ip(4, 0)]
MCJunk == {MCNull, [t \in Numeric |-> 9] @@ [string |-> TextAB, ip |-> ip(6, 7)]}
=============================================================================
