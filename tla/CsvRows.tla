------------------------------ MODULE CsvRows ------------------------------
(* How an uploaded CSV is cut into rows: packages/dataset_ingest, the       *)
(* streaming reader (_find_row_end, _parse_csv_row and the chunk loop of    *)
(* iter_csv_chat_records) beside the whole-file reader of converter.py,     *)
(* which leaves it to Python's csv module.  Both cut with the comma here;   *)
(* CsvChat has the whole file's choice of another delimiter.                *)
(*                                                                          *)
(* A file is a sequence of symbols: a quote, a comma, a newline, or "x" for *)
(* anything else.                                                           *)
(***************************************************************************)
EXTENDS Naturals, FiniteSets, Sequences, SequencesExt

CONSTANTS
  MaxSymbols,   \* bound on the length of a file
  ChunkSizes    \* what a read of the object store may return

VARIABLES
  file,         \* the file, fixed
  at,           \* how much of it has been read
  buf,          \* what was read and is not yet a whole row
  rows,         \* the row texts handed on
  ended

vars == <<file, at, buf, rows, ended>>

Symbols == {"x", "comma", "quote", "newline"}
Texts   == UNION {[1 .. n -> Symbols] : n \in 0 .. MaxSymbols}

TypeOK ==
  /\ file \in Texts /\ at \in 0 .. Len(file)
  /\ buf \in Texts /\ rows \in Seq(Texts) /\ ended \in BOOLEAN

Init == file \in Texts /\ at = 0 /\ buf = <<>> /\ rows = <<>> /\ ended = FALSE

-----------------------------------------------------------------------------
(* The csv module (external)                                               *)

\* Its state between two symbols, in the excel dialect and not strict: where
\* it stands, the field and the row it is in, and the rows it has read.
\* A quote in a quoted field may be its closing one.
Parser == [at |-> "row", field |-> <<>>, row |-> <<>>, out |-> <<>>, bad |-> FALSE]

EndField(p) == [p EXCEPT !.row = Append(@, p.field), !.field = <<>>]
EndRow(p)   == [p EXCEPT !.out = Append(@, p.row), !.row = <<>>, !.at = "row"]
AddTo(p, s, where) == [p EXCEPT !.field = Append(@, s), !.at = where]

\* A quote opens a quoted field only where a field begins; anywhere else in an
\* unquoted field it is a character.  A newline ends the row outside quotes.
ReadSymbol(p, s) ==
  IF p.at = "quoted"
  THEN IF s = "quote" THEN [p EXCEPT !.at = "closing"] ELSE AddTo(p, s, "quoted")
  ELSE IF p.at = "closing" /\ s = "quote" THEN AddTo(p, s, "quoted")
  ELSE CASE s = "newline" -> EndRow(IF p.at = "row" THEN p ELSE EndField(p))
         [] s = "comma"   -> [EndField(p) EXCEPT !.at = "field"]
         [] s = "quote" /\ p.at \in {"row", "field"} -> [p EXCEPT !.at = "quoted"]
         [] OTHER -> AddTo(p, s, "unquoted")

EndOfFile(p) == IF p.at = "row" THEN p ELSE EndRow(EndField(p))

\* csv.reader over a whole file.
Read(t)     == FoldLeft(ReadSymbol, Parser, t)
ReadFile(t) == EndOfFile(Read(t)).out

\* csv.reader over a list with one text: text behind a newline that ended the
\* row is refused ("new-line character seen in unquoted field"), which fails the job;
\* it is shown as a row of its own kind.
ReadInRow(p, s) == ReadSymbol([p EXCEPT !.bad = @ \/ (p.out # <<>> /\ s # "newline")], s)
ReadRow(t)      == FoldLeft(ReadInRow, Parser, t)
ReadOne(t) ==
  LET p == EndOfFile(ReadRow(t))
  IN  IF p.bad THEN <<<<"error">>>> ELSE IF p.out = <<>> THEN <<>> ELSE Head(p.out)

\* Rows without text are passed over by both readers.
HasText(row) == \E i \in 1 .. Len(row) : \E j \in 1 .. Len(row[i]) : row[i][j] # "newline"
WithText(R)  == FoldLeft(LAMBDA kept, row : IF HasText(row) THEN Append(kept, row) ELSE kept, <<>>, R)

-----------------------------------------------------------------------------
(* The streaming reader                                                    *)

Quotes(t, n) == Cardinality({i \in 1 .. n : t[i] = "quote"})

FirstNewlines(t) ==  \* mutant: newlines inside quotes end a row
  {i \in 1 .. Len(t) : t[i] = "newline"}

\* The newlines with an even number of quotes before them, from the buffer's
\* start, which is the start of a row.
OutsideQuotes(t) == {i \in 1 .. Len(t) : t[i] = "newline" /\ Quotes(t, i) % 2 = 0}

\* _find_row_end
HasRowEnd(t) == OutsideQuotes(t) # {}
RowEnd(t)    == CHOOSE i \in OutsideQuotes(t) : \A j \in OutsideQuotes(t) : i <= j

\* A chunk arrives; the rows the last one completed have been taken.
ReadChunk(n) ==
  /\ ~HasRowEnd(buf) /\ n <= Len(file) - at
  /\ buf' = buf \o SubSeq(file, at + 1, at + n)
  /\ at' = at + n
  /\ UNCHANGED <<file, rows, ended>>

TakeRow ==
  /\ HasRowEnd(buf)
  /\ rows' = Append(rows, SubSeq(buf, 1, RowEnd(buf) - 1))
  /\ buf' = SubSeq(buf, RowEnd(buf) + 1, Len(buf))
  /\ UNCHANGED <<file, at, ended>>

\* A last row without its newline.
EndStream ==
  /\ ~ended /\ at = Len(file) /\ ~HasRowEnd(buf)
  /\ rows' = IF buf = <<>> THEN rows ELSE Append(rows, buf)
  /\ buf' = <<>> /\ ended' = TRUE
  /\ UNCHANGED <<file, at>>

Next == (\E n \in ChunkSizes : ReadChunk(n)) \/ TakeRow \/ EndStream

Spec == Init /\ [][Next]_vars

-----------------------------------------------------------------------------
(* Properties                                                              *)

RowsRead     == [i \in 1 .. Len(rows) |-> ReadOne(rows[i])]
StreamedRows == WithText(RowsRead)

\* No quote stands inside an unquoted field, where it is a character.
Regular(t) ==
  \A i \in 1 .. Len(t) : t[i] = "quote" => Read(SubSeq(t, 1, i - 1)).at # "unquoted"

\* Wherever the chunks of an upload end, the stream yields the rows a reader
\* of the whole file finds with the comma, quoted commas and newlines included: those read so
\* far are the first of them, and at the end all of them.
StreamReadsTheFile ==
  Regular(file) =>
    LET all == WithText(ReadFile(file))
    IN  IF ended THEN StreamedRows = all ELSE IsPrefix(StreamedRows, all)

\* The same for every file: a quote inside an unquoted field is a character.
StrayQuoteIsText ==
  ended => StreamedRows = WithText(ReadFile(file))

-----------------------------------------------------------------------------
(* The inductive invariant                                                 *)

\* The buffer is what was read last and begins a row, and the rows before it are
\* those the reader of the whole file has found when it is there.
RowsAreReadSoFar ==
  LET taken == at - Len(buf)
      p == Read(SubSeq(file, 1, taken))
  IN  /\ taken \in 0 .. at /\ buf = SubSeq(file, taken + 1, at)
      /\ ended => at = Len(file) /\ buf = <<>>
      /\ Regular(file) =>
           /\ ended => RowsRead = EndOfFile(p).out
           /\ ~ended => p.at = "row" /\ p.field = <<>> /\ p.row = <<>>
                         /\ RowsRead = p.out /\ ~p.bad

IInv == TypeOK /\ RowsAreReadSoFar
=============================================================================
