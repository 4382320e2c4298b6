------------------------------ MODULE UrFilter ------------------------------
(***************************************************************************)
(* The filter library of unirecfilter: a filter text is parsed to a tree   *)
(* of terms, which is evaluated on a record.  A text is a list of terms    *)
(* joined by operators; numbers have the widths of the code, scaled down.  *)
(***************************************************************************)
EXTENDS Integers, Sequences, FiniteSets, SequencesExt, TLC

CONSTANTS
  TypeOf,       \* [field -> its type]
  ProtocolNo,   \* [protocol name -> its number], what /etc/protocols knows
  Wrap,         \* [integer type -> what a number of its width wraps around at]
  AddressBits,  \* the bits of an address
  Matching      \* the pairs of a regular expression and a text it matches

\* The types of numbers, those of uint16 and uint32 in uint64.
Signed   == {"int8", "int16", "int32", "int64"}
Unsigned == {"uint8", "uint64"}
Integral == Signed \cup Unsigned
Word     == Wrap["uint64"]

ConstantsTyped ==
  /\ Wrap \in [Integral -> Nat] /\ AddressBits \in Nat
  /\ "PROTOCOL" \in DOMAIN TypeOf

\* What the comparison signs of the scanner stand for: two have no entry.
GetOpType(sign) ==
  CASE sign \in {"==", "="}   -> "eq" [] sign \in {"!=", "<>"} -> "ne"
    [] sign = "<"  -> "lt" [] sign = "<=" -> "le"
    [] sign = ">"  -> "gt" [] sign = ">=" -> "ge"
    [] sign \in {"=~", "~="} -> "re" [] sign = "in" -> "in"
    [] OTHER -> "invalid"

-----------------------------------------------------------------------------
(* Terms.  A term whose field is unknown when it is built, or of another   *)
(* type than the term needs, has no id and is false ever after.            *)

Term(t, id) == [node |-> "term", kind |-> t.kind, field |-> t.field, value |-> t.value,
                cmp |-> GetOpType(t.cmp), id |-> id]

NewExpression(t, known) ==
  Term(t, t.field \in known /\ TypeOf[t.field] \in Integral)

NewExpressionFP(t, known) ==
  Term(t, t.field \in known /\ TypeOf[t.field] \in {"float", "double"})

NewExpressionDateTime(t, known) ==
  Term(t, t.field \in known /\ TypeOf[t.field] = "time")

\* compareI64 hands back the difference as an int.
AsInt(n) == LET half == Wrap["int32"] \div 2 IN ((n + half) % Wrap["int32"]) - half
CompareI64(a, b)  == AsInt(a - b)
CompareUI64(a, b) == IF a = b THEN 0 ELSE IF a > b THEN 1 ELSE -1

\* The values of an array are sorted by the type of the field (int64 that lie further
\* apart than an int have no order, the source leaves them in any).  A type that cannot
\* be in an array is an error, and so may be an array of a field that is not known,
\* whose type is read from where there is none.
ArraySorted(values, type) ==
  CASE type \in Signed   -> SortSeq(values, LAMBDA a, b : CompareI64(a, b) < 0)
    [] type \in Unsigned -> SortSeq([i \in DOMAIN values |-> values[i] % Word], <)
    [] OTHER -> values

NewExpressionArray(t, known) ==
  Term([t EXCEPT !.value = ArraySorted(@, TypeOf[t.field])], t.field \in known)
ArrayFits(t, known, taken) ==
  IF t.field \in known
  THEN TypeOf[t.field] \in Integral \cup {"ip", "time", "float", "double"} ELSE taken

NewIP(t, known) == Term(t, t.field \in known /\ TypeOf[t.field] = "ip")

IpMask(a, bits) ==
  LET host == 2 ^ (AddressBits - bits) IN [a EXCEPT !.n = @ - (@ % host)]

NewIPNET(t, known) ==
  Term([t EXCEPT !.value.address = IpMask(@, t.value.bits)],
       t.field \in known /\ TypeOf[t.field] = "ip")

NewString(t, known) ==
  Term(t, t.field \in known /\ TypeOf[t.field] \in {"string", "char"})

NewProtocol(t) == [node |-> "protocol", cmp |-> t.cmp, name |-> t.value]
NewAST(l, r, op) == [node |-> "ast", op |-> op, l |-> l, r |-> r]
NewBrack(b)    == [node |-> "bracket", b |-> b]
NewNegation(b) == [node |-> "negation", b |-> b]
NoTree         == [node |-> "none"]

\* The parser: AND and OR bind alike, from the left; NOT binds the next term.
RECURSIVE Exp(_, _)
Explist(list, known) ==
  FoldLeft(LAMBDA tree, item : NewAST(tree, Exp(item, known), item.op),
           NewAST(Exp(Head(list), known), NoTree, "nop"), Tail(list))

Exp(t, known) ==
  CASE t.kind = "int"      -> NewExpression(t, known)
    [] t.kind = "fp"       -> NewExpressionFP(t, known)
    [] t.kind = "time"     -> NewExpressionDateTime(t, known)
    [] t.kind = "array"    -> NewExpressionArray(t, known)
    [] t.kind = "ip"       -> NewIP(t, known)
    [] t.kind = "net"      -> NewIPNET(t, known)
    [] t.kind = "string"   -> NewString(t, known)
    [] t.kind = "protocol" -> NewProtocol(t)
    [] t.kind = "bracket"  -> NewBrack(Explist(t.value, known))
    [] t.kind = "not"      -> NewNegation(Explist(t.value, known))

RECURSIVE SyntaxError(_, _, _)
SyntaxError(list, known, taken) ==
  \E i \in DOMAIN list :
    \/ list[i].kind = "array" /\ ~ArrayFits(list[i], known, taken)
    \/ list[i].kind \in {"bracket", "not"} /\ SyntaxError(list[i].value, known, taken)

\* The names of protocols are replaced by numbers, except below a negation; a name
\* that is not known stands for 0.
RECURSIVE ChangeProtocol(_, _)
ChangeProtocol(tree, known) ==
  CASE tree.node = "ast" -> [tree EXCEPT !.l = ChangeProtocol(@, known),
                                         !.r = ChangeProtocol(@, known)]
    [] tree.node = "bracket" -> [tree EXCEPT !.b = ChangeProtocol(@, known)]
    [] tree.node = "protocol" ->
         NewExpression([kind |-> "int", field |-> "PROTOCOL", cmp |-> tree.cmp,
                        value |-> IF tree.name \in DOMAIN ProtocolNo
                                  THEN ProtocolNo[tree.name] ELSE 0], known)
    [] OTHER -> tree

\* getTree: the tree of a text, none when it does not parse.
GetTree(text, known, taken) ==
  IF SyntaxError(text, known, taken) THEN NoTree ELSE ChangeProtocol(Explist(text, known), known)

-----------------------------------------------------------------------------
(* Evaluation.                                                             *)

Compare(a, b, op) ==
  CASE op = "le" -> a <= b [] op = "lt" -> a < b [] op = "ne" -> a # b
    [] op = "ge" -> a >= b [] op = "gt" -> a > b [] op = "eq" -> a = b
    [] OTHER -> FALSE

CompareSigned(a, b, op)   == Compare(a, b, op)
CompareUnsigned(a, b, op) == Compare(a % Word, b % Word, op)

\* Numbers in tenths: two that differ by less than one are equal.
CompareFloating(a, b, op) ==
  IF op = "eq" THEN a - b \in -9 .. 9 ELSE Compare(a, b, op)

\* bsearch among the elements l .. u - 1 (from 0) of an array, which compare with the
\* key as results say.
RECURSIVE BSearch(_, _, _)
BSearch(results, l, u) ==
  l < u /\ LET at == (l + u) \div 2
           IN \/ results[at + 1] = 0
              \/ results[at + 1] < 0 /\ BSearch(results, l, at)
              \/ results[at + 1] > 0 /\ BSearch(results, at + 1, u)

\* A number with a sign is looked up by its bits, without the sign; as all the 64 bits
\* of an int64 are kept, that one is found as it is.
CompareElemInArray(v, t) ==
  LET type == TypeOf[t.field]
      found(Comparing(_)) ==
        BSearch([i \in DOMAIN t.value |-> Comparing(t.value[i])], 0, Len(t.value))
  IN CASE type = "int64"    -> found(LAMBDA x : CompareI64(v, x))
       [] type \in Signed \ {"int64"} -> found(LAMBDA x : CompareI64(v % Wrap[type], x))
       [] type \in Unsigned -> found(LAMBDA x : CompareUI64(v, x))
       [] OTHER             -> v \in ToSet(t.value)

\* The result of a comparison of addresses, as -1, 0 or 1.
CompareIps(a, b) ==
  IF a = b THEN 0
  ELSE IF a.version < b.version \/ (a.version = b.version /\ a.n < b.n) THEN -1 ELSE 1

EvalInt(t, v) ==
  IF TypeOf[t.field] \in {"uint8", "int16", "int32", "int64"}
  THEN CompareSigned(v, t.value, t.cmp) ELSE CompareUnsigned(v, t.value, t.cmp)

EvalNet(t, v) ==
  IF v.version # t.value.address.version THEN t.cmp \in {"ne", "lt", "gt"}
  ELSE Compare(CompareIps(IpMask(v, t.value.bits), t.value.address), 0, t.cmp)

EvalIp(t, v) == Compare(CompareIps(v, t.value), 0, t.cmp)

EvalString(t, v) ==
  IF TypeOf[t.field] = "string" /\ t.cmp = "re" THEN <<t.value, v>> \in Matching
  ELSE (v = t.value) = (t.cmp = "eq")

EvalTerm(t, record) ==
  /\ t.id
  /\ t.kind = "array" => t.field \in record.present
  /\ LET v == record.value[t.field] IN
     CASE t.kind = "int"    -> EvalInt(t, v)
       [] t.kind = "fp"     -> CompareFloating(v, t.value, t.cmp)
       [] t.kind = "time"   -> CompareUnsigned(v, t.value, t.cmp)
       [] t.kind = "array"  -> CompareElemInArray(v, t)
       [] t.kind = "net"    -> EvalNet(t, v)
       [] t.kind = "ip"     -> EvalIp(t, v)
       [] t.kind = "string" -> EvalString(t, v)

\* A name of a protocol that was left in the tree is false.
RECURSIVE EvalAST(_, _)
EvalAST(tree, record) ==
  CASE tree.node = "ast" ->
         IF tree.op = "or" THEN EvalAST(tree.l, record) \/ EvalAST(tree.r, record)
         ELSE IF tree.op = "and" THEN EvalAST(tree.l, record) /\ EvalAST(tree.r, record)
         ELSE EvalAST(tree.l, record)
    [] tree.node = "term"     -> EvalTerm(tree, record)
    [] tree.node = "bracket"  -> EvalAST(tree.b, record)
    [] tree.node = "negation" -> ~EvalAST(tree.b, record)
    [] OTHER -> FALSE

-----------------------------------------------------------------------------
(* What a filter says, read from its text without the tree: the reference  *)
(* for the texts that can only be read in one way, and whose terms the     *)
(* documentation and the code agree on.                                    *)

Orders == {"<", ">", "<=", ">="}
Equals == {"=", "==", "!=", "<>"}

\* A list that has both AND and OR is none of them: which of the two binds closer the
\* documentation does not say.  Nor is an array of int64, in which bsearch may miss or
\* mistake a value, or of negative numbers, which it misses.
RECURSIVE Plain(_)
Plain(list) ==
  /\ \A i, j \in 2 .. Len(list) : list[i].op = list[j].op
  /\ \A i \in DOMAIN list : LET t == list[i] type == TypeOf[t.field] IN
       CASE t.kind \in {"bracket", "not"} ->
              /\ Plain(t.value)
              /\ t.kind = "not" => \A j \in DOMAIN t.value : t.value[j].kind # "protocol"
         [] t.kind = "protocol" -> t.value \in DOMAIN ProtocolNo /\ t.cmp \in {"==", "!="}
         [] t.kind = "int" ->
              /\ t.cmp \in Orders \cup Equals /\ type \in Integral \ {"int8"}
              /\ type = "uint64" => t.value >= 0
         [] t.kind = "fp"     -> t.cmp \in Orders \cup {"!=", "<>"} /\ type = "double"
         [] t.kind = "time"   -> t.cmp \in Orders \cup Equals /\ type = "time"
         [] t.kind \in {"ip", "net"} -> t.cmp \in {"==", "!="} /\ type = "ip"
         [] t.kind = "string" -> t.cmp \in {"==", "!=", "=~"} /\ type = "string"
         [] t.kind = "array"  ->
              /\ t.cmp = "in"
              /\ \/ type \in {"ip", "time"}
                 \/ /\ type \in Integral \ {"int64"}
                    /\ \A j \in DOMAIN t.value : t.value[j] \in 0 .. Wrap[type] \div 2 - 1

Holds(t, v) ==
  LET sign == IF t.cmp \in {"=", "=="} THEN "==" ELSE IF t.cmp = "<>" THEN "!=" ELSE t.cmp
      number(a, b) == CASE sign = "==" -> a = b [] sign = "!=" -> a # b
                        [] sign = "<"  -> a < b [] sign = ">"  -> a > b
                        [] sign = "<=" -> a <= b [] sign = ">=" -> a >= b
      net == {n \in 0 .. 2 ^ AddressBits - 1 : \E host \in 0 .. 2 ^ (AddressBits - t.value.bits) - 1 :
                n = (t.value.address.n \div 2 ^ (AddressBits - t.value.bits))
                      * 2 ^ (AddressBits - t.value.bits) + host}
  IN CASE t.kind \in {"int", "fp", "time"} -> number(v, t.value)
       [] t.kind = "array"  -> v \in {t.value[i] : i \in DOMAIN t.value}
       [] t.kind = "net"    -> (v.version = t.value.address.version /\ v.n \in net) = (sign = "==")
       [] t.kind = "ip"     -> (v = t.value) = (sign = "==")
       [] t.kind = "string" -> IF sign = "=~" THEN <<t.value, v>> \in Matching
                               ELSE (v = t.value) = (sign = "==")

RECURSIVE FieldsOf(_)
FieldsOf(list) ==
  UNION {CASE list[i].kind \in {"bracket", "not"} -> FieldsOf(list[i].value)
           [] list[i].kind = "protocol" -> {"PROTOCOL"}
           [] OTHER -> {list[i].field} : i \in DOMAIN list}

RECURSIVE Meaning(_, _, _)
Meaning(list, record, known) ==
  LET says(t) ==
        CASE t.kind = "bracket" -> Meaning(t.value, record, known)
          [] t.kind = "not" -> ~Meaning(t.value, record, known)
          [] t.kind = "protocol" -> "PROTOCOL" \in known
               /\ (record["PROTOCOL"] = ProtocolNo[t.value]) = (t.cmp = "==")
          [] OTHER -> t.field \in known /\ Holds(t, record[t.field])
  IN IF \E i \in 2 .. Len(list) : list[i].op = "or"
     THEN \E i \in DOMAIN list : says(list[i]) ELSE \A i \in DOMAIN list : says(list[i])
=============================================================================
