------------------------------ MODULE LogReplay ------------------------------
(***************************************************************************)
(* The modules logger and logreplay, and the file between them: logger     *)
(* writes a line for each record, below a header with the format;          *)
(* logreplay makes records of the lines and sends them, at the pace of the *)
(* time column.  A line is a sequence of marks: the values of static       *)
(* fields, the characters of texts, commas and quotes.                     *)
(***************************************************************************)
EXTENDS Integers, Sequences, FiniteSets, SequencesExt

CONSTANTS
  LogFormats,   \* the formats of the input: sequences of [name, dynamic]
  Digits,       \* the marks of numbers, in order: as many as there are times to log
  Texts,        \* the values of dynamic fields: sequences of marks
  Delimiters,   \* what -d may say, "," among them
  MaxText,      \* DYN_FIELD_MAX_SIZE
  MaxLines, MaxClock   \* bounds on the records logged and on the clock

\* The marks are told apart: those of numbers from each other, from a quote and a comma.
Mark ==
  ToSet(Digits) \cup (UNION {ToSet(text) : text \in Texts}) \cup Delimiters \cup {"q", "b", ","}

MarksTyped ==
  /\ MaxText \in Nat
  /\ Digits \in Seq(Mark) /\ Digits # <<>>
  /\ \A m, n \in DOMAIN Digits : Digits[m] = Digits[n] => m = n
  /\ \A n \in DOMAIN Digits : Digits[n] \notin {"q", ","}
  /\ \A text \in Texts : text \in Seq(Mark)
  /\ \A fields \in LogFormats :
       fields \in Seq([name : STRING, dynamic : BOOLEAN]) /\ fields # <<>>

VARIABLES
  title, time, delimiter, cut,   \* -t, -T, -d and -c of logger
  timing,     \* logreplay heeds the time column
  writer, reader,   \* where the two modules are
  format,     \* the format of logger's input, <<>> for none
  titled,     \* the header was written
  file,       \* the lines
  logged,     \* history: the records by line
  clock,
  header,     \* the format logreplay has read, and whether there is a time column
  line,       \* the lines logreplay has read
  stamp,      \* the time of the record before, 0 for none
  signals,    \* how often SIGTERM has come to logreplay, up to 2
  output      \* history: what was sent: [line, values, at]

vars == <<title, time, delimiter, cut, timing, writer, reader, format, titled, file, logged,
          clock, header, line, stamp, signals, output>>

Options == <<title, time, delimiter, cut, timing>>
Writing == <<writer, format, titled, file, logged>>
Reading == <<reader, header, line, stamp, output>>

NoHeader == [fields |-> <<>>, time |-> FALSE]

Init ==
  /\ title \in BOOLEAN /\ time \in BOOLEAN /\ timing \in BOOLEAN
  /\ delimiter \in Delimiters /\ cut \in {0, MaxLines}
  /\ writer = "recv" /\ reader = "open"
  /\ format = <<>> /\ titled = FALSE /\ file = <<>> /\ logged = <<>>
  /\ clock = 1
  /\ header = NoHeader /\ line = 0 /\ stamp = 0 /\ signals = 0 /\ output = <<>>

-----------------------------------------------------------------------------
(* logger: capture_data                                                    *)

\* A text is quoted, and the quotes in it are doubled (urcsv_record).
Quoted(text) ==
  <<"q">> \o FlattenSeq([i \in DOMAIN text |-> IF text[i] = "q" THEN <<"q", "q">> ELSE <<text[i]>>])
  \o <<"q">>

Row(columns, sep) ==
  FlattenSeq([i \in DOMAIN columns |-> IF i = 1 THEN columns[i] ELSE <<sep>> \o columns[i]])

Columns(fields, record) ==
  [i \in DOMAIN fields |-> IF fields[i].dynamic THEN Quoted(record[i]) ELSE record[i]]

\* The time is followed by a comma, whatever the delimiter is.
LogLine(fields, record, now) ==
  (IF time THEN <<Digits[now], ",">> ELSE <<>>) \o Row(Columns(fields, record), delimiter)

Values(fields) ==
  {r \in [DOMAIN fields -> Texts \cup {<<Last(Digits)>>}] :
     \A i \in DOMAIN fields : fields[i].dynamic = (r[i] \in Texts)}

\* A record, in the format of the one before or in another one.  The header is written
\* once, for the first format.
CaptureData ==
  /\ writer = "recv" /\ Len(logged) < MaxLines /\ clock \in DOMAIN Digits
  /\ \E fields \in LogFormats : \E r \in Values(fields) :
       /\ format' = fields
       /\ titled' = (titled \/ title)
       /\ file' = file \o (IF title /\ ~titled
                           THEN <<[header |-> fields, time |-> time, marks |-> <<>>]>> ELSE <<>>)
                       \o <<[header |-> <<>>, time |-> FALSE, marks |-> LogLine(fields, r, clock)]>>
       /\ logged' = Append(logged, [fields |-> fields, values |-> r, at |-> clock])
  /\ writer' = IF cut # 0 /\ Len(logged') >= cut THEN "exit" ELSE "recv"
  /\ UNCHANGED <<Options, Reading, clock, signals>>

\* The end of the input, a record of another size, an error.
LoggerExit ==
  /\ writer = "recv"
  /\ writer' = "exit"
  /\ UNCHANGED <<Options, Reading, format, titled, file, logged, clock, signals>>

Tick ==
  /\ clock < MaxClock
  /\ clock' = clock + 1
  /\ UNCHANGED <<Options, Writing, Reading, signals>>

-----------------------------------------------------------------------------
(* logreplay                                                               *)

\* Mutant: a comma ends a column wherever it stands.
GetNextFieldBare(marks, i) ==
  LET n == Len(marks)
      ends == {k \in i .. n : marks[k] = ","}
      end == IF ends = {} THEN n + 1 ELSE CHOOSE k \in ends : \A j \in ends : k <= j
  IN [column |-> SelectSeq(SubSeq(marks, i, end - 1), LAMBDA m : m # "q"), next |-> end + 1]

\* One character of a column: quotes are counted but for an escaped one, every other one
\* behind the opening one is kept, and a comma ends the column outside of them.
Scanned(s, prev, ch) ==
  LET quote == IF ch = "q" /\ prev # "b" THEN 1 ELSE 0
      quotes == s.quotes + quote
      in_quotes == s.in_quotes + quote
      fin == ch = "," /\ (quotes = 0 \/ (prev = "q" /\ quotes % 2 = 0))
      kept == ~fin /\ (ch # "q" \/ in_quotes % 2 = 0)
  IN [column |-> IF kept THEN Append(s.column, ch) ELSE s.column,
      quotes |-> quotes, in_quotes |-> in_quotes, fin |-> fin, next |-> s.next + 1]

\* get_next_field, from position i of the marks: the column and the position behind it.
GetNextField(marks, i) ==
  LET quoted == i <= Len(marks) /\ marks[i] = "q"
      start == IF quoted THEN i + 1 ELSE i
      left == Len(marks) - start + 1
      after[k \in 0 .. left] ==
        IF k = 0 THEN [column |-> <<>>, quotes |-> IF quoted THEN 1 ELSE 0, in_quotes |-> 0,
                       fin |-> FALSE, next |-> start]
        ELSE LET s == after[k - 1]
             IN IF s.fin THEN s
                ELSE Scanned(s, IF k = 1 THEN "" ELSE marks[start + k - 2], marks[start + k - 1])
      end == after[left]
  IN [column |-> end.column, next |-> end.next]

\* The columns of a line, as many as are asked for.
ColumnsOf(marks, count) ==
  LET at[k \in 1 .. count] == GetNextField(marks, IF k = 1 THEN 1 ELSE at[k - 1].next)
  IN [k \in 1 .. count |-> at[k].column]

\* Longer texts are cut; what is no number does not fit a static field.
Cut(text) == SubSeq(text, 1, IF Len(text) > MaxText THEN MaxText ELSE Len(text))
IsNumber(column) == Len(column) = 1 /\ column[1] \in ToSet(Digits)
StoreValue(dynamic, column) ==
  [value |-> Cut(column), valid |-> dynamic \/ IsNumber(column)]

Open ==
  /\ reader = "open"
  /\ IF file # <<>> /\ file[1].header # <<>>
     THEN /\ header' = [fields |-> file[1].header, time |-> file[1].time]
          /\ reader' = "read" /\ line' = 1
     ELSE reader' = "exit" /\ UNCHANGED <<header, line>>
  /\ UNCHANGED <<Options, Writing, clock, stamp, signals, output>>

Parsed ==
  LET skip == IF header.time THEN 1 ELSE 0
      columns == ColumnsOf(file[line + 1].marks, Len(header.fields) + skip)
  IN [time |-> IF header.time /\ IsNumber(columns[1])
               THEN CHOOSE n \in DOMAIN Digits : Digits[n] = columns[1][1] ELSE 0,
      values |-> [i \in DOMAIN header.fields |->
                    StoreValue(header.fields[i].dynamic, columns[i + skip])]]

\* One line: a record that has a field that does not parse is skipped.  A signal ends the
\* delay early, and the record is sent nevertheless; the second one makes the send fail.
Replay ==
  /\ reader = "read" /\ signals = 0 /\ line < Len(file)
  /\ line' = line + 1
  /\ LET parsed == Parsed
         heeded == timing /\ header.time
         delay  == IF heeded /\ stamp # 0 /\ parsed.time > stamp THEN parsed.time - stamp ELSE 0
     IN /\ signals' \in 0 .. 2
        /\ clock' \in (IF signals' = 0 THEN clock + delay ELSE clock) .. clock + delay
        /\ stamp' = IF heeded THEN parsed.time ELSE stamp
        /\ output' = IF signals' = 2 \/ \E i \in DOMAIN header.fields : ~parsed.values[i].valid
                     THEN output
                     ELSE Append(output, [line |-> line, at |-> clock',
                            values |-> [i \in DOMAIN header.fields |-> parsed.values[i].value]])
  /\ UNCHANGED <<Options, Writing, reader, header>>

\* The end of the file for now, the end for logreplay; or SIGTERM.
ReplayExit ==
  /\ reader = "read" /\ (line = Len(file) \/ signals > 0)
  /\ reader' = "exit"
  /\ UNCHANGED <<Options, Writing, header, line, stamp, output, clock, signals>>

\* The first signal sets stop, the second one calls trap_terminate.
DefaultSignalHandler ==
  /\ reader # "exit" /\ signals < 2
  /\ signals' = signals + 1
  /\ UNCHANGED <<Options, Writing, Reading, clock>>

Next == CaptureData \/ LoggerExit \/ Tick \/ Open \/ Replay \/ ReplayExit \/ DefaultSignalHandler

Spec == Init /\ [][Next]_vars

-----------------------------------------------------------------------------

\* A backslash before a quote, one in the text or the one behind it.
Escaped(text) ==
  \E i \in DOMAIN text : text[i] = "b" /\ (i = Len(text) \/ text[i + 1] = "q")

\* A line that was logged in the format of the header comes out as the record it was,
\* cut to the longest text, whatever commas and quotes its texts have (but for a
\* backslash before a quote); none comes twice, and no such line is skipped, but for the
\* last one when the second signal came.
ReplayedAsLogged ==
  LET plain(n) == /\ logged[n].fields = header.fields /\ delimiter = ","
                  /\ \A i \in DOMAIN header.fields :
                       header.fields[i].dynamic => ~Escaped(logged[n].values[i])
      told(n) == [i \in DOMAIN header.fields |-> Cut(logged[n].values[i])]
  IN header # NoHeader =>
       \A n \in 1 .. line - 1 : plain(n) =>
         \/ signals = 2 /\ n = line - 1 /\ \A j \in DOMAIN output : output[j].line # n
         \/ \E k \in DOMAIN output :
              output[k].values = told(n) /\ \A j \in DOMAIN output : output[j].line = n <=> j = k

\* The records come at least as far apart as they were logged, when no line between
\* them was in another format; but for the last one when a signal came, which ends the
\* delay before it.
PaceKept ==
  timing /\ header.time => \A k \in 1 .. Len(output) - 1 :
    LET m == output[k].line  n == output[k + 1].line
    IN n = m + 1 /\ (signals = 0 \/ k + 1 < Len(output)) =>
         output[k + 1].at - output[k].at >= logged[n].at - logged[m].at
=============================================================================
