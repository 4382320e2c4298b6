---------------------------- MODULE UnirecFilter ----------------------------
(***************************************************************************)
(* The module unirecfilter: each record goes to every output whose filter  *)
(* it passes, cut to the fields of that output.  The filters come from the *)
(* command line or from a file, which SIGUSR1 makes the module read again. *)
(***************************************************************************)
EXTENDS Integers, Sequences, FiniteSets, SequencesExt

CONSTANTS
  TypeOf,      \* [field -> its type]
  TreeOf(_, _, _), Treeless, \* the library: the tree of a text, compiled with some fields
                             \* known, or none (an array of a field that is not known has
                             \* the type found where none is: it is taken or it is not),
  Evaluate(_, _),            \* and whether a tree holds of a record
  IsPlain(_), FieldsUsed(_), Says(_, _, _),    \* what a text is to mean: see UrFilter
  Programs,    \* the command lines: [file, outputs, maxNum, versions, formats, records]:
               \* the contents its file has one after the other (or what it says itself),
               \* the fields the input may have, in order, and the records, [field -> value]
  Null,        \* [type -> what stands for no value]
  Junk,        \* what a field outside of its record may be read as: [type -> value]
  MaxDynamic,  \* DYN_FIELD_MAX_SIZE: what is copied of a value of variable length
  MaxReceived, MaxTimeouts     \* bounds on the environment

NoText    == <<>>
Blank     == <<[kind |-> "blank"]>>   \* nothing but white space
NoSpec    == [fields |-> <<>>, defaults |-> <<>>, malformed |-> {}]
NoFilter  == [text |-> NoText, tree |-> Treeless, known |-> {}]
NoPointer == [text |-> <<[kind |-> "null"]>>, tree |-> Treeless, known |-> {}]

\* Reading a field that is not in the record reads something else, and so does reading
\* a float, which is read as a double.
Readable(r, junk) ==
  [present |-> DOMAIN r,
   value |-> [f \in DOMAIN TypeOf |-> IF f \in DOMAIN r /\ TypeOf[f] # "float"
                                      THEN r[f] ELSE junk[TypeOf[f]]]]

IsDynamic(f) == TypeOf[f] = "string"

IsSequence(s) == Len(s) \in Nat /\ s = [i \in 1 .. Len(s) |-> s[i]]

ASSUME UnirecFilterAssumption ==
  /\ MaxReceived \in Nat /\ MaxTimeouts \in Nat /\ MaxDynamic \in Nat
  /\ \A p \in Programs :
       /\ p.outputs \in Nat \ {0} /\ (p.file \/ p.outputs = 1)
       /\ IsSequence(p.versions) /\ p.versions # <<>>
       /\ \A r \in p.records :
            /\ DOMAIN r \subseteq DOMAIN TypeOf
            /\ \A f \in DOMAIN r : IsDynamic(f) => IsSequence(r[f])
       /\ \A s \in p.formats : ToSet(s) \subseteq DOMAIN TypeOf
       /\ \A v \in DOMAIN p.versions :
            /\ IsSequence(p.versions[v])
            /\ \A i \in DOMAIN p.versions[v] :
                 ToSet(p.versions[v][i].spec.fields) \subseteq DOMAIN TypeOf

\* The library is right about the filters that are in use: a plain text, compiled when
\* some fields were known, holds of the records it says it does.
ASSUME FilterLibrary ==
  \A p \in Programs : \A v \in DOMAIN p.versions : \A i \in DOMAIN p.versions[v] :
    LET text == p.versions[v][i].filter
    IN text \notin {NoText, Blank} /\ IsPlain(text) =>
         \A fields \in SUBSET DOMAIN TypeOf, taken \in BOOLEAN, r \in p.records, junk \in Junk :
           LET tree == TreeOf(text, fields, taken)
           IN tree # Treeless /\ FieldsUsed(text) \cap fields \subseteq DOMAIN r =>
                /\ Says(text, r, fields) \in BOOLEAN
                /\ Evaluate(tree, Readable(r, junk)) = Says(text, r, fields)

VARIABLES
  program,    \* the command line
  pc, ifc,    \* where main is, and the output it is at
  known,      \* the fields defined so far
  rec,        \* the record at in_rec, in the format of in_tmplt
  outputs,    \* for every output its specifier, filter text, filter and record
  mainTree,   \* the tree the parser made last
  edit,       \* the version of the file
  reload,     \* reload_filter
  stop,
  num,        \* num_records
  turn,       \* history: what became of the record at each output
  seen,       \* history: the fields the input has had
  received, timeouts,  \* history: how many records, and how many receives that timed out
  asked, loaded        \* history: the version SIGUSR1 was last sent for, and the one read

vars == <<program, pc, ifc, known, rec, outputs, mainTree, edit, reload, stop, num,
          turn, seen, received, timeouts, asked, loaded>>

settings == <<known, outputs, mainTree, loaded>>
world    == <<program, edit, asked>>
input    == <<rec, seen, received, timeouts>>

Outputs   == 1 .. program.outputs
File      == program.versions[edit]
Unhandled == [i \in Outputs |-> "none"]

-----------------------------------------------------------------------------
(* The file: sections, each of a specifier (or none) and a filter.         *)

\* The index of the section at which parse_file gives up, or one behind the last.
Unterminated(content) ==
  {i \in DOMAIN content : content[i].unterminated} \cup {Len(content) + 1}

\* The sections before it are taken over; one without a specifier leaves the one in use.
ParseFile(outs, content) ==
  [i \in DOMAIN outs |-> IF \E j \in Unterminated(content) : j <= i THEN outs[i] ELSE
     [outs[i] EXCEPT !.text = content[i].filter,
                     !.spec = IF content[i].spec = NoSpec THEN @ ELSE content[i].spec]]

GetFilterFromFileOk(outs, content) ==
  Len(content) >= Len(outs) /\ \A i \in DOMAIN outs : ~content[i].unterminated

Malformed(spec) == {j \in DOMAIN spec.fields : spec.fields[j] \in spec.malformed}

DefaultOf(spec, f) ==
  IF f \in DOMAIN spec.defaults THEN spec.defaults[f] ELSE Null[TypeOf[f]]

\* The new record of an output: the defaults up to the first that does not parse, and
\* nothing but zeros behind it.
SetDefaultValues(spec) ==
  [f \in ToSet(spec.fields) |->
     LET at == CHOOSE j \in DOMAIN spec.fields : spec.fields[j] = f
     IN IF \E j \in Malformed(spec) : j <= at THEN Null[TypeOf[f]] ELSE DefaultOf(spec, f)]

\* Mutant: a filter that has been compiled stays when the file is read again.
CreateTemplatesKeepTree(outs) ==
  [i \in DOMAIN outs |->
     [outs[i] EXCEPT !.out = SetDefaultValues(outs[i].spec),
                     !.filter = [@ EXCEPT !.text = outs[i].text]]]

\* A default that does not parse ends the loop, with success: the outputs behind it
\* keep the filter and the record they have.
CreateTemplates(outs) ==
  [i \in DOMAIN outs |->
     IF \E j \in DOMAIN outs : j < i /\ Malformed(outs[j].spec) # {} THEN outs[i]
     ELSE [outs[i] EXCEPT !.out = SetDefaultValues(outs[i].spec),
                          !.filter = [NoFilter EXCEPT !.text = outs[i].text]]]

\* The fields that become known with the templates.
DefinedBy(outs) ==
  UNION {ToSet(outs[i].spec.fields) : i \in {i \in DOMAIN outs :
           \A j \in DOMAIN outs : j < i => Malformed(outs[j].spec) = {}}}

-----------------------------------------------------------------------------

Init ==
  /\ program \in Programs
  /\ edit = 1
  /\ pc = "start" /\ ifc = 1
  /\ rec = <<>> /\ known = {}
  /\ outputs = [i \in Outputs |-> [spec |-> NoSpec, text |-> NoText, filter |-> NoPointer,
                                   out |-> <<>>]]
  /\ mainTree = Treeless
  /\ reload = FALSE /\ stop = FALSE
  /\ num = 0 /\ received = 0 /\ timeouts = 0
  /\ turn = Unhandled /\ seen = {}
  /\ asked = 1 /\ loaded = 1

Arrives(r) ==
  /\ rec' = r
  /\ seen' = seen \cup DOMAIN r
  /\ received' = received + 1
  /\ UNCHANGED timeouts

\* The first record brings the format, for outputs that are given none as well.
\* A setting that is refused ends the module before it has sent anything.
Start ==
  /\ pc = "start"
  /\ \E r \in program.records, format \in program.formats :
       LET parsed == ParseFile(outputs, File)
           specified == [i \in Outputs |->
             IF parsed[i].spec # NoSpec THEN parsed[i]
             ELSE [parsed[i] EXCEPT !.spec =
                     [fields |-> format, defaults |-> <<>>, malformed |-> {}]]]
       IN /\ ToSet(format) = DOMAIN r
          /\ Arrives(r)
          /\ IF program.file => GetFilterFromFileOk(outputs, File)
             THEN /\ outputs' = CreateTemplates(specified)
                  /\ known' = known \cup DOMAIN r \cup DefinedBy(specified)
                  /\ loaded' = edit
                  /\ pc' = "process"
             ELSE pc' = "exit" /\ UNCHANGED <<outputs, known, loaded>>
  /\ UNCHANGED <<world, ifc, mainTree, reload, stop, num, turn>>

\* The first receive brings no format: it times out or fails, or libtrap has ended.
StartNothing ==
  /\ pc = "start"
  /\ pc' = "exit"
  /\ UNCHANGED <<world, settings, input, ifc, reload, stop, num, turn>>

-----------------------------------------------------------------------------
(* One output of the loop.                                                 *)

\* urfilter_compile: what the filter becomes when it is first asked, and the parser's
\* tree.  A text of white space leaves the tree of the text before.
UrfilterCompile(text, taken) == IF text = Blank THEN mainTree ELSE TreeOf(text, known, taken)

Compiled(filter, taken) ==
  IF filter.tree # Treeless \/ filter.text = NoText THEN filter
  ELSE [filter EXCEPT !.tree = UrfilterCompile(filter.text, taken), !.known = known]

\* Mutant: what the record does not have is not written at all.
CopiedOnly(out) == [f \in DOMAIN out \cap DOMAIN rec |-> rec[f]]

\* A value of variable length is cut to what the output has room for.
Cut(v) == IF Len(v) > MaxDynamic THEN SubSeq(v, 1, MaxDynamic) ELSE v

\* The fields the record has are copied, the others stay as they are.
Copied(out) ==
  [f \in DOMAIN out |-> IF f \notin DOMAIN rec THEN out[f]
                        ELSE IF IsDynamic(f) THEN Cut(rec[f]) ELSE rec[f]]

NextIfc == IF ifc = program.outputs THEN pc' = "signals" /\ UNCHANGED ifc
                                    ELSE ifc' = ifc + 1 /\ UNCHANGED pc
LeaveLoop == pc' = "signals" /\ UNCHANGED ifc

\* urfilter_match and what main does with its answer.  A send returns at once, having
\* lost the record on a timeout; the other results of it stop the module.
Match ==
  /\ pc = "process" /\ outputs[ifc].filter # NoPointer
  /\ \E taken \in BOOLEAN :
       LET filter == Compiled(outputs[ifc].filter, taken)
           accept(result, out) ==
             /\ outputs' = [outputs EXCEPT ![ifc].filter = filter, ![ifc].out = out]
             /\ turn' = [turn EXCEPT ![ifc] = result]
       IN /\ mainTree' = IF filter.tree # Treeless THEN filter.tree ELSE mainTree
          /\ \/ /\ filter.tree = Treeless
                /\ accept("error", outputs[ifc].out)
                /\ stop' = TRUE /\ LeaveLoop
             \/ \E junk \in Junk :
                /\ filter.tree # Treeless
                /\ IF Evaluate(filter.tree, Readable(rec, junk))
                   THEN \E result \in {"sent", "lost", "failed"} :
                          /\ accept(result, Copied(outputs[ifc].out))
                          /\ stop' = (stop \/ result = "failed")
                          /\ IF result = "failed" THEN LeaveLoop ELSE NextIfc
                   ELSE accept("declined", outputs[ifc].out) /\ NextIfc /\ UNCHANGED stop
  /\ UNCHANGED <<world, input, known, reload, num, loaded>>

\* An output behind a malformed default has no filter at all.
MatchNothing ==
  /\ pc = "process" /\ outputs[ifc].filter = NoPointer
  /\ pc' = "crash"
  /\ UNCHANGED <<world, settings, input, ifc, reload, stop, num, turn>>

-----------------------------------------------------------------------------
(* The rest of the turn.                                                   *)

\* The file is read.  Without one, or when a section is missing, the module stops.
BeginReload ==
  /\ pc = "signals" /\ reload
  /\ LET ok == program.file /\ GetFilterFromFileOk(outputs, File)
     IN /\ outputs' = IF program.file THEN ParseFile(outputs, File) ELSE outputs
        /\ stop' = (stop \/ ~ok)
        /\ pc' = IF ok THEN "reload" ELSE "clear"
        /\ loaded' = edit
  /\ turn' = Unhandled
  /\ UNCHANGED <<world, input, known, mainTree, ifc, reload, num>>

CreateNew ==
  /\ pc = "reload"
  /\ outputs' = CreateTemplates(outputs)
  /\ known' = known \cup DefinedBy(outputs)
  /\ pc' = "clear"
  /\ UNCHANGED <<world, input, mainTree, loaded, ifc, reload, stop, num, turn>>

Clear ==
  /\ pc = "clear"
  /\ reload' = FALSE
  /\ pc' = "count"
  /\ UNCHANGED <<world, settings, input, ifc, stop, num, turn>>

Count ==
  /\ pc = "count" \/ (pc = "signals" /\ ~reload)
  /\ num' = num + 1
  /\ pc' = IF num + 1 = program.maxNum THEN "cleanup" ELSE "receive"
  /\ UNCHANGED <<world, settings, input, ifc, reload, stop, turn>>

NextTurn == pc' = (IF stop THEN "cleanup" ELSE "process") /\ ifc' = 1 /\ turn' = Unhandled

Receive ==
  /\ pc = "receive" /\ received < MaxReceived
  /\ \E r \in program.records :
       Arrives(r) /\ known' = known \cup DOMAIN r
  /\ NextTurn
  /\ UNCHANGED <<world, outputs, mainTree, loaded, reload, stop, num>>

\* The record stays the one of the turn before.
ReceiveTimeout ==
  /\ pc = "receive" /\ timeouts < MaxTimeouts
  /\ timeouts' = timeouts + 1
  /\ NextTurn
  /\ UNCHANGED <<world, settings, rec, seen, received, reload, stop, num>>

\* The end of the input, a record of another size or an error.
ReceiveNothing ==
  /\ pc = "receive"
  /\ pc' = "cleanup"
  /\ UNCHANGED <<world, settings, input, ifc, reload, stop, num, turn>>

Cleanup ==
  /\ pc = "cleanup"
  /\ pc' = "exit"
  /\ UNCHANGED <<world, settings, input, ifc, reload, stop, num, turn>>

Main == Start \/ StartNothing \/ Match \/ MatchNothing \/ BeginReload \/ CreateNew
          \/ Clear \/ Count \/ Receive \/ ReceiveTimeout \/ ReceiveNothing \/ Cleanup

-----------------------------------------------------------------------------
(* The world around it.                                                    *)

Running == pc \notin {"exit", "crash"}
stage   == <<program, pc, ifc, known, rec, outputs, mainTree, num, turn, seen, received,
             timeouts, loaded>>

ReloadFilterSignalHandler ==
  /\ Running /\ pc # "start" /\ asked # edit
  /\ reload' = TRUE
  /\ asked' = edit
  /\ UNCHANGED <<stage, edit, stop>>

EditFile ==
  /\ program.file /\ pc # "start" /\ Running
  /\ edit < Len(program.versions)
  /\ edit' = edit + 1
  /\ UNCHANGED <<stage, reload, stop, asked>>

\* SIGUSR1 has the only handler that is registered: SIGTERM ends the process as it stands.
Next == Main \/ ReloadFilterSignalHandler \/ EditFile

Spec == Init /\ [][Next]_vars
-----------------------------------------------------------------------------
(* Properties.                                                             *)

AllWell == \A i \in Outputs : Malformed(outputs[i].spec) = {}

\* A record is sent exactly to the outputs whose filter, as the file read last says
\* it, holds of the record: whatever was compiled, and when.
VerdictsMeanFilter ==
  pc \in {"process", "signals"} /\ AllWell => \A i \in Outputs :
    LET text == outputs[i].text
    IN /\ turn[i] \in {"sent", "lost", "failed", "declined"}
       /\ text \notin {NoText, Blank} /\ IsPlain(text)
       /\ FieldsUsed(text) \cap known \subseteq DOMAIN rec
       => (turn[i] # "declined") = Says(text, rec, outputs[i].filter.known)

Follows(v, from, dynamic) ==
  IF dynamic THEN /\ Len(v) <= MaxDynamic /\ v = SubSeq(from, 1, Len(v))
                  /\ Len(v) < MaxDynamic => v = from
             ELSE v = from

\* What goes out has the specified fields: the value of this record, of which a string
\* is cut at MaxDynamic and nowhere else, and the default where the input has never had
\* the field.  A field that only earlier records had keeps the value of the last of them.
FieldsFollowRecord ==
  pc \in {"process", "signals"} /\ AllWell => \A i \in Outputs :
    turn[i] \in {"sent", "lost", "failed"} =>
      /\ DOMAIN outputs[i].out = ToSet(outputs[i].spec.fields)
      /\ \A f \in DOMAIN outputs[i].out :
           /\ f \in DOMAIN rec => Follows(outputs[i].out[f], rec[f], IsDynamic(f))
           /\ f \notin seen => outputs[i].out[f] = DefaultOf(outputs[i].spec, f)

\* The README: to reload the filter while unirecfilter is running, send SIGUSR1.  Once
\* no reload is pending, the filter is as new as the last signal.
ReloadTakesEffect == ~reload /\ Running => loaded >= asked
=============================================================================
