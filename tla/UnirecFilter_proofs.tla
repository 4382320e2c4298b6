------------------------- MODULE UnirecFilter_proofs -------------------------
(***************************************************************************)
(* Proofs about unirecfilter, for any programs, fields and records: given  *)
(* that the library evaluates each filter as its text says, the verdicts   *)
(* and the records that go out are those of the file that was read last.   *)
(***************************************************************************)
EXTENDS UnirecFilter, SequenceTheorems, TLAPS

\* An output and its filter.
IsOutput(o) ==
  /\ o = [spec |-> o.spec, text |-> o.text, filter |-> o.filter, out |-> o.out]
  /\ o.filter = [text |-> o.filter.text, tree |-> o.filter.tree, known |-> o.filter.known]

\* The texts that filters have.
IsText(text) ==
  \/ text = NoText
  \/ \E v \in DOMAIN program.versions : \E i \in DOMAIN program.versions[v] :
       text = program.versions[v][i].filter

\* What is in the tree of a filter: the text, compiled when fewer fields were known.
TreeRight(filter) ==
  /\ filter.known \subseteq known
  /\ filter.tree # Treeless /\ filter.text # Blank =>
       \E taken \in BOOLEAN : filter.tree = TreeOf(filter.text, filter.known, taken)

\* Outputs that are well formed, whatever is in their filters.
Shaped(outs) ==
  /\ DOMAIN outs = Outputs
  /\ \A i \in Outputs :
       /\ IsOutput(outs[i]) /\ IsText(outs[i].text)
       /\ ToSet(outs[i].spec.fields) \subseteq DOMAIN TypeOf
       /\ TreeRight(outs[i].filter)

TypeInv ==
  /\ program \in Programs
  /\ edit \in DOMAIN program.versions
  /\ pc \in {"start", "process", "signals", "reload", "clear", "count", "receive", "cleanup",
             "exit", "crash"}
  /\ ifc \in Outputs
  /\ known \subseteq DOMAIN TypeOf
  /\ pc \notin {"start", "exit"} => rec \in program.records /\ DOMAIN rec \subseteq seen
  /\ DOMAIN turn = Outputs
  /\ Shaped(outputs)
  /\ pc = "start" => turn = Unhandled

\* The outputs are those of the file that was read last: not while it is read, nor when
\* that failed, which stops the module.
Settled == pc \in {"process", "signals"} \/ (pc \in {"clear", "count", "receive"} /\ ~stop)

\* The output of new templates, and what it is after some records.
OutputNew(o) ==
  /\ o.filter.text = o.text
  /\ DOMAIN o.out = ToSet(o.spec.fields)
  /\ \A f \in DOMAIN o.out : o.out[f] = DefaultOf(o.spec, f)

OutputRight(o) ==
  /\ o.filter.text = o.text
  /\ DOMAIN o.out = ToSet(o.spec.fields)
  /\ \A f \in DOMAIN o.out : f \notin seen => o.out[f] = DefaultOf(o.spec, f)

SettledRight == Settled /\ AllWell => \A i \in Outputs : OutputRight(outputs[i])

UnirecInv == TypeInv /\ SettledRight /\ VerdictsMeanFilter /\ FieldsFollowRecord

-----------------------------------------------------------------------------
(* The settings                                                            *)

\* Compiling keeps the text, and leaves a tree that is right.
LEMMA CompiledRight ==
  ASSUME TypeInv, NEW i \in Outputs, NEW taken \in BOOLEAN
  PROVE  LET filter == Compiled(outputs[i].filter, taken)
         IN /\ filter = [text |-> filter.text, tree |-> filter.tree, known |-> filter.known]
            /\ filter.text = outputs[i].filter.text
            /\ TreeRight(filter)
<1> DEFINE old == outputs[i].filter
           filter == Compiled(old, taken)
<1>1. old = [text |-> old.text, tree |-> old.tree, known |-> old.known] /\ TreeRight(old)
  BY DEF TypeInv, Shaped, IsOutput
<1>2. CASE old.tree # Treeless \/ old.text = NoText
  BY <1>1, <1>2 DEF Compiled
<1>3. CASE ~(old.tree # Treeless \/ old.text = NoText)
  <2>1. filter = [old EXCEPT !.tree = UrfilterCompile(old.text, taken), !.known = known]
    BY <1>3 DEF Compiled
  <2> HIDE DEF old, filter
  <2>2. /\ filter = [text |-> filter.text, tree |-> filter.tree, known |-> filter.known]
        /\ filter.text = old.text /\ filter.known = known
        /\ filter.tree = UrfilterCompile(old.text, taken)
    BY <1>1, <2>1
  <2>3. TreeRight(filter)
    BY <2>2 DEF TreeRight, UrfilterCompile
  <2> QED BY <2>2, <2>3 DEF old, filter
<1> QED BY <1>2, <1>3

\* What is read from the file are texts of it and specifiers with fields there are.
LEMMA ParsedShaped ==
  ASSUME TypeInv
  PROVE  Shaped(ParseFile(outputs, File))
<1> DEFINE content == File
           parsed == ParseFile(outputs, content)
<1>1. /\ program \in Programs /\ edit \in DOMAIN program.versions /\ Shaped(outputs)
  BY DEF TypeInv
<1>2. /\ IsSequence(content)
      /\ \A i \in DOMAIN content : ToSet(content[i].spec.fields) \subseteq DOMAIN TypeOf
  BY <1>1, UnirecFilterAssumption DEF File
<1>3. \A i \in DOMAIN content : IsText(content[i].filter)
  BY <1>1 DEF File, IsText
<1> HIDE DEF content
<1>4. DOMAIN parsed = Outputs
  BY <1>1 DEF ParseFile, Shaped
<1>5. ASSUME NEW i \in Outputs
      PROVE  /\ IsOutput(parsed[i]) /\ IsText(parsed[i].text)
             /\ ToSet(parsed[i].spec.fields) \subseteq DOMAIN TypeOf
             /\ TreeRight(parsed[i].filter)
  <2> DEFINE o == outputs[i]
             s == IF content[i].spec = NoSpec THEN o.spec ELSE content[i].spec
  <2>1. /\ IsOutput(o) /\ IsText(o.text) /\ ToSet(o.spec.fields) \subseteq DOMAIN TypeOf
        /\ TreeRight(o.filter)
    BY <1>1 DEF Shaped
  <2>2. CASE \E j \in Unterminated(content) : j <= i
    <3>1. parsed[i] = o
      BY <1>1, <2>2 DEF ParseFile, Shaped
    <3> QED BY <2>1, <3>1
  <2>3. CASE ~(\E j \in Unterminated(content) : j <= i)
    <3>1. parsed[i] = [o EXCEPT !.text = content[i].filter, !.spec = s]
      BY <1>1, <2>3 DEF ParseFile, Shaped
    <3>2. i \in DOMAIN content
      <4>1. Len(content) + 1 \in Unterminated(content) /\ Len(content) \in Nat
            /\ DOMAIN content = 1 .. Len(content)
        BY <1>2 DEF Unterminated, IsSequence
      <4>2. i \in Nat /\ i >= 1
        BY <1>1, UnirecFilterAssumption DEF Outputs
      <4> QED BY <2>3, <4>1, <4>2
    <3>3. parsed[i] = [spec |-> s, text |-> content[i].filter, filter |-> o.filter, out |-> o.out]
      BY <2>1, <3>1 DEF IsOutput
    <3>4. ToSet(s.fields) \subseteq DOMAIN TypeOf /\ IsText(content[i].filter)
      BY <1>2, <1>3, <2>1, <3>2
    <3> QED BY <2>1, <3>3, <3>4 DEF IsOutput
  <2> QED BY <2>2, <2>3
<1> QED BY <1>4, <1>5 DEF Shaped, content

\* The templates leave the texts and the specifiers, and each filter is that of before or
\* a new one; when every default parses, all of them are new.
LEMMA CreatedShaped ==
  ASSUME NEW outs, Shaped(outs)
  PROVE  LET made == CreateTemplates(outs)
         IN /\ Shaped(made)
            /\ \A i \in Outputs : made[i].spec = outs[i].spec
            /\ (\A i \in Outputs : Malformed(outs[i].spec) = {}) =>
                  \A i \in Outputs : OutputNew(made[i])
<1> DEFINE made == CreateTemplates(outs)
           stale(i) == \E j \in DOMAIN outs : j < i /\ Malformed(outs[j].spec) # {}
           filter(i) == [text |-> outs[i].text, tree |-> Treeless, known |-> {}]
<1>1. DOMAIN made = Outputs
  BY DEF CreateTemplates, Shaped
<1>2. \A i \in Outputs : stale(i) => made[i] = outs[i]
  BY DEF CreateTemplates, Shaped
<1>3. ASSUME NEW i \in Outputs, ~stale(i)
      PROVE  made[i] = [spec |-> outs[i].spec, text |-> outs[i].text, filter |-> filter(i),
                        out |-> SetDefaultValues(outs[i].spec)]
  <2>1. made[i] = [outs[i] EXCEPT !.out = SetDefaultValues(outs[i].spec),
                                  !.filter = [NoFilter EXCEPT !.text = outs[i].text]]
    BY <1>3 DEF CreateTemplates, Shaped
  <2>2. [NoFilter EXCEPT !.text = outs[i].text] = filter(i)
    BY DEF NoFilter
  <2>3. IsOutput(outs[i])
    BY DEF Shaped
  <2> HIDE DEF made, filter
  <2> QED BY <2>1, <2>2, <2>3 DEF IsOutput
<1> HIDE DEF made
<1> DEFINE new(i) == [spec |-> outs[i].spec, text |-> outs[i].text, filter |-> filter(i),
                      out |-> SetDefaultValues(outs[i].spec)]
<1>4. \A i \in Outputs : ~stale(i) => made[i] = new(i)
  BY <1>3
<1>5. \A i \in Outputs :
        /\ new(i).spec = outs[i].spec /\ new(i).text = outs[i].text /\ new(i).filter = filter(i)
        /\ new(i).out = SetDefaultValues(outs[i].spec)
        /\ filter(i).text = outs[i].text /\ IsOutput(new(i)) /\ TreeRight(filter(i))
  BY DEF IsOutput, TreeRight
<1> HIDE DEF new
<1>6. ASSUME NEW i \in Outputs
      PROVE  /\ IsOutput(made[i]) /\ made[i].spec = outs[i].spec /\ made[i].text = outs[i].text
             /\ TreeRight(made[i].filter)
  <2>1. CASE stale(i)
    BY <1>2, <2>1 DEF Shaped
  <2>2. CASE ~stale(i)
    BY <1>4, <1>5, <2>2
  <2> QED BY <2>1, <2>2
<1>7. Shaped(made)
  BY <1>1, <1>6 DEF Shaped
<1>8. ASSUME \A i \in Outputs : Malformed(outs[i].spec) = {}, NEW i \in Outputs
      PROVE  OutputNew(made[i])
  <2>1. ~stale(i)
    BY <1>8 DEF Shaped
  <2>2. /\ DOMAIN SetDefaultValues(outs[i].spec) = ToSet(outs[i].spec.fields)
        /\ \A f \in ToSet(outs[i].spec.fields) :
             SetDefaultValues(outs[i].spec)[f] = DefaultOf(outs[i].spec, f)
    BY <1>8 DEF SetDefaultValues
  <2>3. /\ made[i].spec = outs[i].spec /\ made[i].text = outs[i].text
        /\ made[i].filter.text = outs[i].text /\ made[i].out = SetDefaultValues(outs[i].spec)
    BY <1>4, <1>5, <2>1
  <2> QED BY <2>2, <2>3 DEF OutputNew
<1> QED BY <1>6, <1>7, <1>8 DEF made

\* The fields of the templates are fields there are.
LEMMA DefinedFields ==
  ASSUME NEW outs, Shaped(outs) PROVE DefinedBy(outs) \subseteq DOMAIN TypeOf
BY DEF DefinedBy, Shaped

-----------------------------------------------------------------------------
(* The steps                                                               *)

LEMMA InitHolds == Init => UnirecInv
<1> SUFFICES ASSUME Init PROVE UnirecInv
  OBVIOUS
<1>1. program \in Programs /\ edit = 1 /\ pc = "start" /\ ifc = 1 /\ known = {} /\ turn = Unhandled
  BY DEF Init
<1>2. program.outputs \in Nat \ {0} /\ IsSequence(program.versions) /\ program.versions # <<>>
  BY <1>1, UnirecFilterAssumption
<1>3. edit \in DOMAIN program.versions
  <2>1. Len(program.versions) # 0
    <3>1. Len(program.versions) = 0 => program.versions = <<>>
      BY <1>2 DEF IsSequence
    <3> QED BY <1>2, <3>1
  <2> QED BY <1>1, <1>2, <2>1 DEF IsSequence
<1>4. DOMAIN outputs = Outputs /\ \A i \in Outputs :
        outputs[i] = [spec |-> NoSpec, text |-> NoText, filter |-> NoPointer, out |-> <<>>]
  BY DEF Init
<1>5. \A i \in Outputs :
        /\ IsOutput(outputs[i]) /\ IsText(outputs[i].text)
        /\ ToSet(outputs[i].spec.fields) \subseteq DOMAIN TypeOf
        /\ TreeRight(outputs[i].filter)
  BY <1>4 DEF IsOutput, IsText, TreeRight, NoPointer, NoSpec, ToSet
<1>6. TypeInv
  BY <1>1, <1>2, <1>3, <1>4, <1>5 DEF TypeInv, Shaped, Outputs, Unhandled
<1>7. SettledRight /\ VerdictsMeanFilter /\ FieldsFollowRecord
  BY <1>1 DEF SettledRight, Settled, VerdictsMeanFilter, FieldsFollowRecord
<1> QED BY <1>6, <1>7 DEF UnirecInv

\* A tree stays right when more fields become known.
LEMMA TreesStay ==
  ASSUME known \subseteq known' PROVE \A filter : TreeRight(filter) => TreeRight(filter)'
BY DEF TreeRight

LEMMA TextsStay == ASSUME program' = program PROVE \A text : IsText(text)' <=> IsText(text)
BY DEF IsText

\* A turn begins: nothing was handled.
LEMMA UnhandledRight ==
  ASSUME program' = program, turn' = Unhandled
  PROVE  VerdictsMeanFilter' /\ FieldsFollowRecord'
<1>1. \A i \in Outputs' : turn'[i] = "none"
  BY DEF Unhandled, Outputs
<1> QED BY <1>1 DEF VerdictsMeanFilter, FieldsFollowRecord

LEMMA ShapedNext ==
  ASSUME program' = program, known \subseteq known', NEW outs, Shaped(outs), outputs' = outs
  PROVE  Shaped(outputs)'
<1>1. \A i \in Outputs : TreeRight(outs[i].filter)'
  BY TreesStay DEF Shaped
<1>2. \A i \in Outputs : IsText(outs[i].text)'
  BY TextsStay DEF Shaped
<1> QED BY <1>1, <1>2 DEF Shaped, Outputs

\* The steps that change neither the outputs nor what is known.
LEMMA SettingsStay ==
  ASSUME TypeInv, program' = program, known \subseteq known', outputs' = outputs
  PROVE  Shaped(outputs)'
<1>1. PICK outs : outs = outputs
  OBVIOUS
<1> QED BY <1>1, ShapedNext DEF TypeInv

\* The templates are made for outputs that are well formed.
LEMMA CreateKeeps ==
  ASSUME program' = program, known \subseteq known', NEW outs, Shaped(outs),
         outputs' = CreateTemplates(outs)
  PROVE  Shaped(outputs)' /\ (AllWell' => \A i \in Outputs : OutputRight(outputs[i])')
<1>1. PICK made : made = CreateTemplates(outs)
  OBVIOUS
<1>2. /\ Shaped(made)
      /\ \A i \in Outputs : made[i].spec = outs[i].spec
      /\ (\A i \in Outputs : Malformed(outs[i].spec) = {}) => \A i \in Outputs : OutputNew(made[i])
  BY <1>1, CreatedShaped
<1>3. Shaped(outputs)'
  BY <1>1, <1>2, ShapedNext
<1>4. ASSUME AllWell' PROVE \A i \in Outputs : OutputRight(outputs[i])'
  <2>1. \A i \in Outputs : Malformed(made[i].spec) = {}
    BY <1>1, <1>4 DEF AllWell, Outputs
  <2>2. \A i \in Outputs : OutputNew(made[i])
    BY <1>2, <2>1
  <2> QED BY <1>1, <2>2 DEF OutputNew, OutputRight, DefaultOf
<1> QED BY <1>3, <1>4

LEMMA StartKeeps == ASSUME UnirecInv, Start PROVE UnirecInv'
<1>1. /\ TypeInv /\ pc = "start" /\ program' = program /\ edit' = edit /\ ifc' = ifc /\ turn' = turn
      /\ turn = Unhandled
  BY DEF UnirecInv, TypeInv, Start, world
<1>2. PICK r \in program.records, format \in program.formats :
        LET parsed == ParseFile(outputs, File)
            specified == [i \in Outputs |->
              IF parsed[i].spec # NoSpec THEN parsed[i]
              ELSE [parsed[i] EXCEPT !.spec =
                      [fields |-> format, defaults |-> <<>>, malformed |-> {}]]]
        IN /\ Arrives(r)
           /\ \/ /\ outputs' = CreateTemplates(specified)
                 /\ known' = known \cup DOMAIN r \cup DefinedBy(specified)
                 /\ pc' = "process"
              \/ pc' = "exit" /\ UNCHANGED <<outputs, known>>
  BY DEF Start
<1>3. DOMAIN r \subseteq DOMAIN TypeOf /\ ToSet(format) \subseteq DOMAIN TypeOf
  BY <1>1, UnirecFilterAssumption DEF TypeInv
<1>4. rec' = r /\ DOMAIN r \subseteq seen'
  BY <1>2 DEF Arrives
<1>5. VerdictsMeanFilter' /\ FieldsFollowRecord'
  BY <1>1, UnhandledRight DEF Unhandled
<1>6. CASE pc' = "exit" /\ UNCHANGED <<outputs, known>>
  <2>1. Shaped(outputs)'
    BY <1>1, <1>6, SettingsStay
  <2>2. TypeInv'
    BY <1>1, <1>6, <2>1 DEF TypeInv, Outputs
  <2>3. SettledRight'
    BY <1>6 DEF SettledRight, Settled
  <2> QED BY <1>5, <2>2, <2>3 DEF UnirecInv
<1>7. CASE pc' # "exit"
  <2> DEFINE parsed == ParseFile(outputs, File)
             given == [fields |-> format, defaults |-> <<>>, malformed |-> {}]
             specified == [i \in Outputs |-> IF parsed[i].spec # NoSpec THEN parsed[i]
                                             ELSE [parsed[i] EXCEPT !.spec = given]]
  <2>1. Shaped(parsed)
    BY <1>1, ParsedShaped
  <2>2. /\ outputs' = CreateTemplates(specified) /\ pc' = "process"
        /\ known' = known \cup DOMAIN r \cup DefinedBy(specified)
    BY <1>2, <1>7
  <2>3. PICK outs : outs = specified
    OBVIOUS
  <2>4. ToSet(given.fields) \subseteq DOMAIN TypeOf
    BY <1>3
  <2> HIDE DEF parsed, given
  <2>5. ASSUME NEW i \in Outputs
        PROVE  /\ IsOutput(outs[i]) /\ IsText(outs[i].text)
               /\ ToSet(outs[i].spec.fields) \subseteq DOMAIN TypeOf
               /\ TreeRight(outs[i].filter)
    <3>1. /\ IsOutput(parsed[i]) /\ IsText(parsed[i].text)
          /\ ToSet(parsed[i].spec.fields) \subseteq DOMAIN TypeOf
          /\ TreeRight(parsed[i].filter)
      BY <2>1 DEF Shaped
    <3>2. CASE parsed[i].spec # NoSpec
      BY <2>3, <3>1, <3>2
    <3>3. CASE parsed[i].spec = NoSpec
      <4>1. outs[i] = [parsed[i] EXCEPT !.spec = given]
        BY <2>3, <3>3
      <4>2. outs[i] = [spec |-> given, text |-> parsed[i].text, filter |-> parsed[i].filter,
                       out |-> parsed[i].out]
        BY <3>1, <4>1 DEF IsOutput
      <4> QED BY <2>4, <3>1, <4>2 DEF IsOutput
    <3> QED BY <3>2, <3>3
  <2>6. Shaped(outs)
    BY <2>3, <2>5 DEF Shaped
  <2>7. DefinedBy(outs) \subseteq DOMAIN TypeOf
    BY <2>6, DefinedFields
  <2>8. known' \subseteq DOMAIN TypeOf /\ known \subseteq known'
    BY <1>1, <1>3, <2>2, <2>3, <2>7 DEF TypeInv
  <2>9. Shaped(outputs)' /\ (AllWell' => \A i \in Outputs : OutputRight(outputs[i])')
    BY <1>1, <2>2, <2>3, <2>6, <2>8, CreateKeeps
  <2>10. TypeInv'
    BY <1>1, <1>4, <2>2, <2>8, <2>9 DEF TypeInv, Outputs
  <2>11. SettledRight'
    BY <1>1, <2>9 DEF SettledRight, Outputs
  <2> QED BY <1>5, <2>10, <2>11 DEF UnirecInv
<1> QED BY <1>2, <1>6, <1>7

\* The steps that change no output and keep the record, and what they may do to pc.
LEMMA StepsStay ==
  ASSUME UnirecInv, program' = program, edit' \in DOMAIN program.versions, ifc' \in Outputs,
         known' = known, rec' = rec, outputs' = outputs, seen' = seen, turn' = turn,
         pc # "start", pc' = pc \/ pc' \in {"clear", "count", "receive", "cleanup", "exit", "crash"},
         pc = "exit" => pc' = "exit",
         Settled' => Settled
  PROVE  UnirecInv'
<1>1. Shaped(outputs)'
  BY SettingsStay DEF UnirecInv
<1>2. TypeInv'
  BY <1>1 DEF UnirecInv, TypeInv, Outputs
<1>3. AllWell' <=> AllWell
  BY DEF AllWell, Outputs, Malformed
<1>4. SettledRight'
  BY <1>3 DEF UnirecInv, SettledRight, OutputRight, DefaultOf, Outputs
<1>5. CASE pc' = pc
  BY <1>2, <1>3, <1>4, <1>5 DEF UnirecInv, VerdictsMeanFilter, FieldsFollowRecord, DefaultOf, Outputs
<1>6. CASE pc' \in {"clear", "count", "receive", "cleanup", "exit", "crash"}
  BY <1>2, <1>4, <1>6 DEF UnirecInv, VerdictsMeanFilter, FieldsFollowRecord
<1> QED BY <1>5, <1>6

LEMMA OthersKeep ==
  ASSUME UnirecInv,
         StartNothing \/ MatchNothing \/ Clear \/ Count \/ ReceiveNothing \/ Cleanup
         \/ ReloadFilterSignalHandler \/ EditFile \/ UNCHANGED vars
  PROVE  UnirecInv'
<1>1. edit \in DOMAIN program.versions /\ ifc \in Outputs /\ program \in Programs
  BY DEF UnirecInv, TypeInv
<1>2. CASE StartNothing
  <2>1. /\ program' = program /\ edit' = edit /\ ifc' = ifc /\ known' = known /\ pc' = "exit"
        /\ outputs' = outputs /\ turn' = turn
    BY <1>2 DEF StartNothing, world, settings
  <2>2. Shaped(outputs)'
    BY <2>1, SettingsStay DEF UnirecInv
  <2>3. TypeInv'
    BY <2>1, <2>2 DEF UnirecInv, TypeInv, Outputs
  <2> QED BY <2>1, <2>3 DEF UnirecInv, SettledRight, Settled, VerdictsMeanFilter, FieldsFollowRecord
<1>3. CASE MatchNothing
  BY <1>1, <1>3, StepsStay DEF MatchNothing, world, settings, input, Settled
<1>4. CASE Clear
  BY <1>1, <1>4, StepsStay DEF Clear, world, settings, input, Settled
<1>5. CASE Count
  BY <1>1, <1>5, StepsStay DEF Count, world, settings, input, Settled
<1>6. CASE ReceiveNothing
  BY <1>1, <1>6, StepsStay DEF ReceiveNothing, world, settings, input, Settled
<1>7. CASE Cleanup
  BY <1>1, <1>7, StepsStay DEF Cleanup, world, settings, input, Settled
<1>8. CASE ReloadFilterSignalHandler
  BY <1>1, <1>8, StepsStay DEF ReloadFilterSignalHandler, stage, Settled
<1>9. CASE EditFile \/ UNCHANGED vars
  <2>1. /\ program' = program /\ pc' = pc /\ ifc' = ifc /\ known' = known /\ rec' = rec
        /\ outputs' = outputs /\ turn' = turn /\ seen' = seen /\ (stop' = TRUE \/ stop' = stop)
    BY <1>9 DEF EditFile, vars, stage
  <2>2. edit' \in DOMAIN program.versions
    <3>1. CASE EditFile
      <4>1. edit' = edit + 1 /\ edit < Len(program.versions)
        BY <3>1 DEF EditFile
      <4>2. IsSequence(program.versions)
        BY <1>1, UnirecFilterAssumption
      <4> QED BY <1>1, <4>1, <4>2 DEF IsSequence
    <3>2. CASE ~EditFile
      BY <1>1, <1>9, <3>2 DEF vars, stage
    <3> QED BY <3>1, <3>2
  <2>3. CASE pc # "start"
    <3>1. Settled' => Settled
      BY <2>1 DEF Settled
    <3> QED BY <1>1, <2>1, <2>2, <2>3, <3>1, StepsStay
  <2>4. CASE pc = "start"
    <3>1. Shaped(outputs)'
      BY <2>1, SettingsStay DEF UnirecInv
    <3>2. TypeInv'
      BY <2>1, <2>2, <2>4, <3>1 DEF UnirecInv, TypeInv, Outputs, Unhandled
    <3> QED BY <2>1, <2>4, <3>2 DEF UnirecInv, SettledRight, Settled, VerdictsMeanFilter, FieldsFollowRecord
  <2> QED BY <2>3, <2>4
<1> QED BY <1>2, <1>3, <1>4, <1>5, <1>6, <1>7, <1>8, <1>9

\* The file is read: the outputs are not those of it until their templates are made.
LEMMA BeginReloadKeeps == ASSUME UnirecInv, BeginReload PROVE UnirecInv'
<1>1. /\ TypeInv /\ pc = "signals" /\ program' = program /\ edit' = edit /\ ifc' = ifc
      /\ known' = known /\ rec' = rec /\ seen' = seen /\ turn' = Unhandled
      /\ outputs' = IF program.file THEN ParseFile(outputs, File) ELSE outputs
      /\ pc' = "reload" \/ (pc' = "clear" /\ stop')
  BY DEF UnirecInv, BeginReload, world, input
<1>2. Shaped(outputs) /\ Shaped(ParseFile(outputs, File))
  BY <1>1, ParsedShaped DEF TypeInv
<1>3. PICK outs : outs = outputs'
  OBVIOUS
<1>4. Shaped(outs)
  BY <1>1, <1>2, <1>3
<1>5. Shaped(outputs)'
  BY <1>1, <1>3, <1>4, ShapedNext
<1>6. TypeInv'
  BY <1>1, <1>5 DEF TypeInv, Outputs, Unhandled
<1>7. SettledRight'
  BY <1>1 DEF SettledRight, Settled
<1> QED BY <1>1, <1>6, <1>7, UnhandledRight DEF UnirecInv

LEMMA CreateNewKeeps == ASSUME UnirecInv, CreateNew PROVE UnirecInv'
<1>1. /\ TypeInv /\ pc = "reload" /\ pc' = "clear" /\ program' = program /\ edit' = edit
      /\ ifc' = ifc /\ rec' = rec /\ seen' = seen /\ turn' = turn
      /\ outputs' = CreateTemplates(outputs) /\ known' = known \cup DefinedBy(outputs)
  BY DEF UnirecInv, CreateNew, world, input
<1>2. PICK outs : outs = outputs
  OBVIOUS
<1>3. Shaped(outs) /\ DefinedBy(outputs) \subseteq DOMAIN TypeOf
  BY <1>1, <1>2, DefinedFields DEF TypeInv
<1>4. Shaped(outputs)' /\ (AllWell' => \A i \in Outputs : OutputRight(outputs[i])')
  BY <1>1, <1>2, <1>3, CreateKeeps
<1>5. TypeInv'
  BY <1>1, <1>3, <1>4 DEF TypeInv, Outputs
<1>6. SettledRight'
  BY <1>1, <1>4 DEF SettledRight, Outputs
<1> QED BY <1>1, <1>5, <1>6 DEF UnirecInv, VerdictsMeanFilter, FieldsFollowRecord

\* A new turn, with a new record or the one of the turn before.
LEMMA ReceiveKeeps == ASSUME UnirecInv, Receive \/ ReceiveTimeout PROVE UnirecInv'
<1>1. /\ TypeInv /\ pc = "receive" /\ program' = program /\ edit' = edit /\ outputs' = outputs
      /\ stop' = stop /\ turn' = Unhandled /\ ifc' = 1
      /\ pc' = IF stop THEN "cleanup" ELSE "process"
  BY DEF UnirecInv, Receive, ReceiveTimeout, NextTurn, world, settings
<1>2. program \in Programs /\ rec \in program.records /\ DOMAIN rec \subseteq seen
      /\ known \subseteq DOMAIN TypeOf
  BY <1>1 DEF TypeInv
<1>3. /\ rec' \in program.records /\ DOMAIN rec' \subseteq seen' /\ seen \subseteq seen'
      /\ known' \subseteq known \cup DOMAIN rec' /\ known \subseteq known'
  BY <1>2 DEF Receive, ReceiveTimeout, Arrives, settings
<1>4. known' \subseteq DOMAIN TypeOf
  BY <1>2, <1>3, UnirecFilterAssumption
<1>5. Shaped(outputs)'
  BY <1>1, <1>3, SettingsStay
<1>6. 1 \in Outputs
  BY <1>2, UnirecFilterAssumption DEF Outputs
<1>7. TypeInv'
  BY <1>1, <1>3, <1>4, <1>5, <1>6 DEF TypeInv, Outputs, Unhandled
<1>8. SettledRight'
  <2> SUFFICES ASSUME Settled', AllWell', NEW i \in Outputs' PROVE OutputRight(outputs[i])'
    BY DEF SettledRight
  <2>1. Settled /\ AllWell /\ i \in Outputs
    BY <1>1 DEF Settled, AllWell, Outputs, Malformed
  <2>2. OutputRight(outputs[i])
    BY <2>1 DEF UnirecInv, SettledRight
  <2> QED BY <1>1, <1>3, <2>2 DEF OutputRight, DefaultOf
<1> QED BY <1>1, <1>7, <1>8, UnhandledRight DEF UnirecInv

-----------------------------------------------------------------------------
(* An output is asked                                                      *)

\* What main does with the answer of one filter.
Answered(filter, result, out, junk) ==
  \/ result = "error" /\ filter.tree = Treeless /\ out = outputs[ifc].out
  \/ /\ filter.tree # Treeless /\ junk \in Junk
     /\ \/ /\ result \in {"sent", "lost", "failed"} /\ out = Copied(outputs[ifc].out)
           /\ Evaluate(filter.tree, Readable(rec, junk))
        \/ /\ result = "declined" /\ out = outputs[ifc].out
           /\ ~Evaluate(filter.tree, Readable(rec, junk))

LEMMA MatchMeans ==
  ASSUME TypeInv, Match
  PROVE  /\ pc = "process" /\ pc' \in {"process", "signals"} /\ ifc' \in Outputs
         /\ program' = program /\ edit' = edit /\ known' = known /\ rec' = rec /\ seen' = seen
         /\ \E taken \in BOOLEAN : LET filter == Compiled(outputs[ifc].filter, taken)
            IN \E result, out, junk :
                 /\ outputs' = [outputs EXCEPT ![ifc].filter = filter, ![ifc].out = out]
                 /\ turn' = [turn EXCEPT ![ifc] = result]
                 /\ Answered(filter, result, out, junk)
<1>0. PICK taken \in BOOLEAN :
        LET filter == Compiled(outputs[ifc].filter, taken)
            accept(result, out) ==
              /\ outputs' = [outputs EXCEPT ![ifc].filter = filter, ![ifc].out = out]
              /\ turn' = [turn EXCEPT ![ifc] = result]
        IN \/ filter.tree = Treeless /\ accept("error", outputs[ifc].out) /\ LeaveLoop
           \/ \E junk \in Junk :
                /\ filter.tree # Treeless
                /\ IF Evaluate(filter.tree, Readable(rec, junk))
                   THEN \E result \in {"sent", "lost", "failed"} :
                          accept(result, Copied(outputs[ifc].out)) /\ (LeaveLoop \/ NextIfc)
                   ELSE accept("declined", outputs[ifc].out) /\ NextIfc
  BY DEF Match
<1> DEFINE filter == Compiled(outputs[ifc].filter, taken)
           accept(result, out) ==
             /\ outputs' = [outputs EXCEPT ![ifc].filter = filter, ![ifc].out = out]
             /\ turn' = [turn EXCEPT ![ifc] = result]
<1>1. /\ pc = "process" /\ program' = program /\ edit' = edit /\ known' = known /\ rec' = rec
      /\ seen' = seen
  BY DEF Match, world, input
<1>2. program \in Programs /\ ifc \in Outputs /\ program.outputs \in Nat \ {0}
  BY UnirecFilterAssumption DEF TypeInv
<1>3. NextIfc => pc' \in {"process", "signals"} /\ ifc' \in Outputs
  BY <1>1, <1>2 DEF NextIfc, Outputs
<1>4. LeaveLoop => pc' \in {"process", "signals"} /\ ifc' \in Outputs
  BY <1>2 DEF LeaveLoop
<1>5. \/ filter.tree = Treeless /\ accept("error", outputs[ifc].out) /\ LeaveLoop
      \/ \E junk \in Junk :
           /\ filter.tree # Treeless
           /\ IF Evaluate(filter.tree, Readable(rec, junk))
              THEN \E result \in {"sent", "lost", "failed"} :
                     accept(result, Copied(outputs[ifc].out)) /\ (LeaveLoop \/ NextIfc)
              ELSE accept("declined", outputs[ifc].out) /\ NextIfc
  BY <1>0
<1> HIDE DEF filter, accept
<1>6. CASE filter.tree = Treeless /\ accept("error", outputs[ifc].out) /\ LeaveLoop
  <2>1. \A junk : Answered(filter, "error", outputs[ifc].out, junk)
    BY <1>6 DEF Answered
  <2> QED BY <1>1, <1>4, <1>6, <2>1 DEF filter, accept
<1>7. ASSUME NEW junk \in Junk, filter.tree # Treeless,
             IF Evaluate(filter.tree, Readable(rec, junk))
             THEN \E result \in {"sent", "lost", "failed"} :
                    accept(result, Copied(outputs[ifc].out)) /\ (LeaveLoop \/ NextIfc)
             ELSE accept("declined", outputs[ifc].out) /\ NextIfc
      PROVE  /\ pc' \in {"process", "signals"} /\ ifc' \in Outputs
             /\ \E result, out : accept(result, out) /\ Answered(filter, result, out, junk)
  <2>1. CASE Evaluate(filter.tree, Readable(rec, junk))
    <3>1. PICK result \in {"sent", "lost", "failed"} :
            accept(result, Copied(outputs[ifc].out)) /\ (LeaveLoop \/ NextIfc)
      BY <1>7, <2>1
    <3>2. Answered(filter, result, Copied(outputs[ifc].out), junk)
      BY <1>7, <2>1 DEF Answered
    <3> QED BY <1>3, <1>4, <3>1, <3>2
  <2>2. CASE ~Evaluate(filter.tree, Readable(rec, junk))
    <3>1. accept("declined", outputs[ifc].out) /\ NextIfc
      BY <1>7, <2>2
    <3>2. Answered(filter, "declined", outputs[ifc].out, junk)
      BY <1>7, <2>2 DEF Answered
    <3> QED BY <1>3, <3>1, <3>2
  <2> QED BY <2>1, <2>2
<1> QED BY <1>1, <1>5, <1>6, <1>7 DEF filter, accept

\* A string is cut where it is longer than what is copied.
LEMMA CutFollows == ASSUME NEW v, IsSequence(v) PROVE Follows(Cut(v), v, TRUE)
<1> DEFINE S == {v[i] : i \in 1 .. Len(v)}
<1>1. Len(v) \in Nat /\ v \in Seq(S) /\ MaxDynamic \in Nat
  BY UnirecFilterAssumption DEF IsSequence
<1> HIDE DEF S
<1>2. CASE Len(v) > MaxDynamic
  <2>1. Cut(v) = SubSeq(v, 1, MaxDynamic)
    BY <1>2 DEF Cut
  <2>2. Len(Cut(v)) = MaxDynamic
    <3>1. CASE MaxDynamic = 0
      BY <1>1, <2>1, <3>1, SubSeqEmpty, EmptySeq
    <3>2. CASE MaxDynamic # 0
      BY <1>1, <1>2, <2>1, <3>2, SubSeqProperties
    <3> QED BY <3>1, <3>2
  <2> QED BY <1>1, <2>1, <2>2 DEF Follows
<1>3. CASE ~(Len(v) > MaxDynamic)
  <2>1. Cut(v) = v /\ Len(v) <= MaxDynamic
    BY <1>1, <1>3 DEF Cut
  <2>2. v = SubSeq(v, 1, Len(v))
    BY <1>1, SubSeqFull
  <2> QED BY <2>1, <2>2 DEF Follows
<1> QED BY <1>2, <1>3

\* The answer is the meaning of the text.
LEMMA AnswerRight ==
  ASSUME TypeInv, pc = "process", IsText(outputs[ifc].text),
         NEW filter, TreeRight(filter), filter.text = outputs[ifc].text,
         NEW result, NEW out, NEW junk, Answered(filter, result, out, junk),
         result \in {"sent", "lost", "failed", "declined"},
         filter.text \notin {NoText, Blank}, IsPlain(filter.text),
         FieldsUsed(filter.text) \cap known \subseteq DOMAIN rec
  PROVE  (result # "declined") = Says(filter.text, rec, filter.known)
<1>1. program \in Programs /\ rec \in program.records /\ known \subseteq DOMAIN TypeOf
  BY DEF TypeInv
<1>2. filter.tree # Treeless /\ junk \in Junk
  BY DEF Answered
<1>3. /\ \E taken \in BOOLEAN : filter.tree = TreeOf(filter.text, filter.known, taken)
      /\ filter.known \in SUBSET DOMAIN TypeOf
      /\ FieldsUsed(filter.text) \cap filter.known \subseteq DOMAIN rec
  BY <1>1, <1>2 DEF TreeRight
<1>4. PICK v \in DOMAIN program.versions : \E i \in DOMAIN program.versions[v] :
        filter.text = program.versions[v][i].filter
  BY DEF IsText
<1>5. PICK i \in DOMAIN program.versions[v] : filter.text = program.versions[v][i].filter
  BY <1>4
<1>6. \A fields \in SUBSET DOMAIN TypeOf, taken \in BOOLEAN, r \in program.records, x \in Junk :
        LET tree == TreeOf(filter.text, fields, taken)
        IN tree # Treeless /\ FieldsUsed(filter.text) \cap fields \subseteq DOMAIN r =>
             /\ Says(filter.text, r, fields) \in BOOLEAN
             /\ Evaluate(tree, Readable(r, x)) = Says(filter.text, r, fields)
  BY <1>1, <1>5, FilterLibrary
<1>7. /\ Says(filter.text, rec, filter.known) \in BOOLEAN
      /\ Evaluate(filter.tree, Readable(rec, junk)) = Says(filter.text, rec, filter.known)
  BY <1>1, <1>2, <1>3, <1>6
<1>8. CASE result = "declined"
  <2>1. ~Evaluate(filter.tree, Readable(rec, junk))
    BY <1>8 DEF Answered
  <2>2. Says(filter.text, rec, filter.known) = FALSE
    BY <1>7, <2>1
  <2> QED BY <1>8, <2>2
<1>9. CASE result # "declined"
  <2>1. Evaluate(filter.tree, Readable(rec, junk))
    BY <1>9 DEF Answered
  <2>2. Says(filter.text, rec, filter.known) = TRUE
    BY <1>7, <2>1
  <2> QED BY <1>9, <2>2
<1> QED BY <1>8, <1>9

LEMMA MatchKeeps == ASSUME UnirecInv, Match PROVE UnirecInv'
<1>1. /\ TypeInv /\ pc = "process" /\ pc' \in {"process", "signals"} /\ ifc \in Outputs
      /\ ifc' \in Outputs /\ program' = program /\ edit' = edit /\ known' = known /\ rec' = rec
      /\ seen' = seen /\ Outputs' = Outputs
  BY MatchMeans DEF UnirecInv, TypeInv, Outputs
<1>0. PICK taken \in BOOLEAN : LET filter == Compiled(outputs[ifc].filter, taken)
        IN \E result, out, junk :
             /\ outputs' = [outputs EXCEPT ![ifc].filter = filter, ![ifc].out = out]
             /\ turn' = [turn EXCEPT ![ifc] = result]
             /\ Answered(filter, result, out, junk)
  BY <1>1, MatchMeans
<1>2. PICK filter : filter = Compiled(outputs[ifc].filter, taken)
  OBVIOUS
<1>3. PICK result, out, junk :
        /\ outputs' = [outputs EXCEPT ![ifc].filter = filter, ![ifc].out = out]
        /\ turn' = [turn EXCEPT ![ifc] = result]
        /\ Answered(filter, result, out, junk)
  BY <1>0, <1>2
<1>4. /\ filter = [text |-> filter.text, tree |-> filter.tree, known |-> filter.known]
      /\ filter.text = outputs[ifc].filter.text /\ TreeRight(filter)
  BY <1>1, <1>2, CompiledRight
<1>5. Shaped(outputs) /\ DOMAIN turn = Outputs
  BY <1>1 DEF TypeInv
<1>6. PICK outs : outs = outputs'
  OBVIOUS
<1>7. /\ DOMAIN outs = Outputs
      /\ \A i \in Outputs \ {ifc} : outs[i] = outputs[i]
      /\ outs[ifc] = [spec |-> outputs[ifc].spec, text |-> outputs[ifc].text, filter |-> filter,
                      out |-> out]
  <2>1. IsOutput(outputs[ifc]) /\ DOMAIN outputs = Outputs
    BY <1>1, <1>5 DEF Shaped
  <2> QED BY <1>1, <1>3, <1>6, <2>1 DEF IsOutput
<1>8. Shaped(outs)
  <2>1. ASSUME NEW i \in Outputs
        PROVE  /\ IsOutput(outs[i]) /\ IsText(outs[i].text)
               /\ ToSet(outs[i].spec.fields) \subseteq DOMAIN TypeOf
               /\ TreeRight(outs[i].filter)
    <3>1. CASE i = ifc
      <4>1. /\ outs[ifc].spec = outputs[ifc].spec /\ outs[ifc].text = outputs[ifc].text
            /\ outs[ifc].filter = filter /\ outs[ifc].out = out
        BY <1>7
      <4>2. IsOutput(outs[ifc])
        BY <1>4, <1>7, <4>1 DEF IsOutput
      <4>3. IsText(outputs[ifc].text) /\ ToSet(outputs[ifc].spec.fields) \subseteq DOMAIN TypeOf
        BY <1>1, <1>5 DEF Shaped
      <4> QED BY <1>4, <3>1, <4>1, <4>2, <4>3
    <3>2. CASE i # ifc
      BY <1>5, <1>7, <3>2 DEF Shaped
    <3> QED BY <3>1, <3>2
  <2> QED BY <1>7, <2>1 DEF Shaped
<1>9. Shaped(outputs)'
  BY <1>1, <1>6, <1>8, ShapedNext
<1>10. TypeInv'
  BY <1>1, <1>3, <1>5, <1>9 DEF TypeInv
<1>11. AllWell' => AllWell
  BY <1>1, <1>6, <1>7 DEF AllWell, Malformed
<1>12. turn'[ifc] = result /\ \A i \in Outputs \ {ifc} : turn'[i] = turn[i]
  BY <1>1, <1>3, <1>5
<1>13. AllWell => \A i \in Outputs : OutputRight(outputs[i])
  BY <1>1 DEF UnirecInv, SettledRight, Settled
<1>14. DOMAIN rec \subseteq seen /\ IsText(outputs[ifc].text)
  BY <1>1, <1>5 DEF TypeInv, Shaped
<1>19. \A f \in DOMAIN rec : IsDynamic(f) => Follows(Cut(rec[f]), rec[f], TRUE)
  BY <1>1, CutFollows, UnirecFilterAssumption DEF TypeInv
<1>15. ASSUME AllWell
       PROVE  /\ filter.text = outputs[ifc].text
              /\ DOMAIN out = ToSet(outputs[ifc].spec.fields)
              /\ \A f \in DOMAIN out : f \notin seen => out[f] = DefaultOf(outputs[ifc].spec, f)
              /\ result \in {"sent", "lost", "failed"} =>
                   \A f \in DOMAIN out : f \in DOMAIN rec => Follows(out[f], rec[f], IsDynamic(f))
  <2>1. OutputRight(outputs[ifc])
    BY <1>1, <1>13, <1>15
  <2>2. CASE out = outputs[ifc].out /\ result \notin {"sent", "lost", "failed"}
    BY <1>4, <2>1, <2>2 DEF OutputRight
  <2>3. CASE out = Copied(outputs[ifc].out)
    <3>1. ASSUME NEW f \in DOMAIN out, f \in DOMAIN rec
          PROVE  Follows(out[f], rec[f], IsDynamic(f))
      <4>1. CASE IsDynamic(f)
        <5>1. out[f] = Cut(rec[f])
          BY <2>3, <3>1, <4>1 DEF Copied
        <5> QED BY <1>19, <3>1, <4>1, <5>1 DEF Follows
      <4>2. CASE ~IsDynamic(f)
        BY <2>3, <3>1, <4>2 DEF Copied, Follows
      <4> QED BY <4>1, <4>2
    <3> QED BY <1>4, <1>14, <2>1, <2>3, <3>1 DEF OutputRight, Copied
  <2> QED BY <1>3, <2>2, <2>3 DEF Answered
<1>16. SettledRight'
  <2> SUFFICES ASSUME AllWell', NEW i \in Outputs PROVE OutputRight(outs[i])'
    BY <1>1, <1>6 DEF SettledRight
  <2>1. AllWell
    BY <1>11
  <2>2. OutputRight(outs[i])
    <3>1. CASE i = ifc
      BY <1>7, <1>15, <2>1, <3>1 DEF OutputRight
    <3>2. CASE i # ifc
      BY <1>7, <1>13, <2>1, <3>2
    <3> QED BY <3>1, <3>2
  <2> QED BY <1>1, <2>2 DEF OutputRight, DefaultOf
<1>17. VerdictsMeanFilter'
  <2> SUFFICES ASSUME AllWell', NEW i \in Outputs,
                      turn'[i] \in {"sent", "lost", "failed", "declined"},
                      outs[i].text \notin {NoText, Blank}, IsPlain(outs[i].text),
                      FieldsUsed(outs[i].text) \cap known \subseteq DOMAIN rec
               PROVE  (turn'[i] # "declined") = Says(outs[i].text, rec, outs[i].filter.known)
    BY <1>1, <1>6 DEF VerdictsMeanFilter
  <2>1. AllWell
    BY <1>11
  <2>2. CASE i = ifc
    <3>1. outs[i].text = filter.text /\ outs[i].filter = filter /\ turn'[i] = result
      BY <1>7, <1>12, <1>15, <2>1, <2>2
    <3> QED BY <1>1, <1>3, <1>4, <1>14, <1>15, <2>1, <2>2, <3>1, AnswerRight
  <2>3. CASE i # ifc
    <3>1. outs[i] = outputs[i] /\ turn'[i] = turn[i]
      BY <1>7, <1>12, <2>3
    <3> QED BY <1>1, <2>1, <3>1 DEF UnirecInv, VerdictsMeanFilter
  <2> QED BY <2>2, <2>3
<1>18. FieldsFollowRecord'
  <2> SUFFICES ASSUME AllWell', NEW i \in Outputs, turn'[i] \in {"sent", "lost", "failed"}
               PROVE  /\ DOMAIN outs[i].out = ToSet(outs[i].spec.fields)
                      /\ \A f \in DOMAIN outs[i].out :
                           /\ f \in DOMAIN rec => Follows(outs[i].out[f], rec[f], IsDynamic(f))
                           /\ f \notin seen => outs[i].out[f] = DefaultOf(outs[i].spec, f)
    BY <1>1, <1>6 DEF FieldsFollowRecord, DefaultOf
  <2>1. AllWell
    BY <1>11
  <2>2. CASE i = ifc
    BY <1>7, <1>12, <1>15, <2>1, <2>2
  <2>3. CASE i # ifc
    <3>1. outs[i] = outputs[i] /\ turn'[i] = turn[i]
      BY <1>7, <1>12, <2>3
    <3> QED BY <1>1, <2>1, <3>1 DEF UnirecInv, FieldsFollowRecord
  <2> QED BY <2>2, <2>3
<1> QED BY <1>10, <1>16, <1>17, <1>18 DEF UnirecInv

-----------------------------------------------------------------------------
(* The theorems                                                            *)

LEMMA UnirecInvHolds == Spec => []UnirecInv
<1>1. Init => UnirecInv
  BY InitHolds
<1>2. UnirecInv /\ [Next]_vars => UnirecInv'
  BY StartKeeps, MatchKeeps, BeginReloadKeeps, CreateNewKeeps, ReceiveKeeps, OthersKeep
     DEF Next, Main
<1> QED BY <1>1, <1>2, PTL DEF Spec

\* A record is sent exactly to the outputs whose filter holds of it, as the file that was
\* read last says it, whatever was compiled before and how many fields were known then
\* (urfilter_match and the loop of main).
THEOREM VerdictsMeanFilterCorrect == Spec => []VerdictsMeanFilter
<1>1. UnirecInv => VerdictsMeanFilter
  BY DEF UnirecInv
<1> QED BY <1>1, UnirecInvHolds, PTL

\* What is sent has the fields of the output's specifier: the values of this record, a
\* string cut at MaxDynamic and nowhere else, and the default where the input has never
\* had the field (the copying in main).
THEOREM FieldsFollowRecordCorrect == Spec => []FieldsFollowRecord
<1>1. UnirecInv => FieldsFollowRecord
  BY DEF UnirecInv
<1> QED BY <1>1, UnirecInvHolds, PTL
=============================================================================
