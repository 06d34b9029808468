------------------------------ MODULE CsvChat ------------------------------
(* From CSV rows to chat records: packages/dataset_ingest/csv_chat.py, used  *)
(* on a whole file by converter.csv_to_chat, which tries several delimiters  *)
(* first, and row by row by streaming.iter_csv_chat_records, which knows the *)
(* comma only and sees no more than the first rows when it has to choose the *)
(* columns.                                                                  *)
(***************************************************************************)
EXTENDS Naturals, Sequences, SequencesExt, FiniteSets

CONSTANTS
  Columns,         \* the header, as the comma cuts it
  OtherDelimiters, \* those tried behind the comma, in their order
  OtherTables,     \* what a text may read as by one of those: [header, rows]
  Hints,           \* pairs of columns whose names hint at a prompt, at a completion
  Rows,            \* data rows: functions from columns to cells, and Mismatch
  Mismatch,        \* a row with another number of fields than the header
  Width,           \* length of a cell's text
  Unusable,        \* cells that are a list's repr or hold control characters
  MinWidth,        \* _MIN_FIELD_CHARS
  HermesAnswers,   \* pairs of names the skill may answer with; <<>>: it failed
  MaxRows,
  BufferMax, SampleSize

VARIABLES
  csv,             \* the data rows of the upload, as the comma cuts them
  others,          \* what the upload reads as by each other delimiter
  sniffed,         \* the delimiter csv.Sniffer guesses, or "none"
  hints,
  hermes,          \* what the skill answers, to whoever asks
  next,            \* rows read
  pending,         \* rows waiting for the mapping
  mapping,         \* the columns used, <<>> before they are chosen
  seen,            \* pairs of texts already kept
  kept,            \* records yielded
  drops,           \* rows counted as dropped
  phase            \* reading, failed (MappingError), or ended

inputs == <<csv, others, sniffed, hints, hermes>>
vars == <<inputs, next, pending, mapping, seen, kept, drops, phase>>

Pairs(h) == ToSet(h) \X ToSet(h)
Cells == UNION {{r[c] : c \in ToSet(Columns)} : r \in Rows \ {Mismatch}}

TypeOK ==
  /\ next \in 0 .. Len(csv) /\ pending \in Seq(Rows) /\ Len(pending) < BufferMax
  /\ mapping \in Pairs(Columns) \cup {<<>>}
  /\ seen \subseteq (Cells \X Cells) /\ kept \in Seq(Cells \X Cells)
  /\ drops \in 0 .. Len(csv)
  /\ phase \in {"reading", "failed", "ended"}

\* A file that has data rows has some by any delimiter, blank fields aside.
OtherReadings ==
  {t \in [ToSet(OtherDelimiters) -> OtherTables] :
     \A d \in DOMAIN t : t[d].rows = <<>> <=> csv = <<>>}

Init ==
  /\ csv \in UNION {[1 .. n -> Rows] : n \in 0 .. MaxRows}
  /\ others \in OtherReadings
  /\ sniffed \in {"none", ","} \cup ToSet(OtherDelimiters)
  /\ hints \in Hints /\ hermes \in HermesAnswers
  /\ next = 0 /\ pending = <<>> /\ mapping = <<>>
  /\ seen = {} /\ kept = <<>> /\ drops = 0 /\ phase = "reading"

-----------------------------------------------------------------------------
(* resolve_mapping                                                         *)

\* The first rows of the header's width.
Samples(R) ==
  FoldLeft(LAMBDA S, r : IF r = Mismatch \/ Len(S) = SampleSize THEN S ELSE Append(S, r), <<>>, R)

Total(c, S) == FoldLeft(LAMBDA n, r : n + Width[r[c]], 0, S)

\* max(candidates, key=avg_len): the first of the longest.
Longest(h, C, S) ==
  LET cand == {i \in DOMAIN h : h[i] \in C}
      best == {i \in cand : \A j \in cand : Total(h[i], S) >= Total(h[j], S)}
  IN  h[CHOOSE i \in best : \A j \in best : i <= j]

Hinted(h, i) == hints[i] \cap ToSet(h)

\* The columns of a header h: by the hints, then the skill, or <<>>, a MappingError.
Resolve(h, S) ==
  LET p == Longest(h, Hinted(h, 1), S)
      c == Longest(h, Hinted(h, 2), S)
  IN  IF Len(h) < 2 THEN <<>>
      ELSE IF Hinted(h, 1) # {} /\ Hinted(h, 2) # {} /\ p # c THEN <<p, c>>
      ELSE IF hermes \in Pairs(h) /\ hermes[1] # hermes[2] THEN hermes ELSE <<>>

-----------------------------------------------------------------------------
(* RowCleaner                                                              *)

Clean0 == [seen |-> {}, kept |-> <<>>, drops |-> 0]

\* One row with mapping m: dropped when a text is too short or unusable, or the
\* pair was kept before; counted either way.
Clean(st, m, r) ==
  LET pair == <<r[m[1]], r[m[2]]>>
      bad  == \E t \in {pair[1], pair[2]} : Width[t] < MinWidth \/ t \in Unusable
  IN  IF r = Mismatch THEN [st EXCEPT !.drops = @ + 1]
      ELSE IF bad \/ pair \in st.seen THEN [st EXCEPT !.drops = @ + 1]
      ELSE [seen |-> st.seen \cup {pair}, kept |-> Append(st.kept, pair), drops |-> st.drops]

CleanRows(st, m, R) == FoldLeft(LAMBDA s, r : Clean(s, m, r), st, R)

-----------------------------------------------------------------------------
(* csv_to_chat before its threshold                                        *)

Table(d) == IF d = "," THEN [header |-> Columns, rows |-> csv] ELSE others[d]
Delimiters == <<",">> \o OtherDelimiters
Mismatches(d) == Cardinality({i \in DOMAIN Table(d).rows : Table(d).rows[i] = Mismatch})
Place(d) == IF d = sniffed THEN 0 ELSE CHOOSE i \in DOMAIN Delimiters : Delimiters[i] = d

\* Fewer mismatches, then more rows, then the earlier one, the one sniffed first of all.
Before(d, e) ==
  \/ Mismatches(d) < Mismatches(e)
  \/ /\ Mismatches(d) = Mismatches(e)
     /\ \/ Len(Table(d).rows) > Len(Table(e).rows)
        \/ Len(Table(d).rows) = Len(Table(e).rows) /\ Place(d) < Place(e)

\* _pick_delimiter: the best of those that find two columns or more.
Usable == {d \in ToSet(Delimiters) : Len(Table(d).header) >= 2}
Picked == CHOOSE d \in Usable : \A e \in Usable \ {d} : Before(d, e)

\* The columns chosen and what the rows of a table are cleaned to.
ReadTable(t) ==
  LET m == Resolve(t.header, Samples(t.rows))
  IN  [mapping |-> m, made |-> IF m = <<>> THEN Clean0 ELSE CleanRows(Clean0, m, t.rows)]

WholeFile == IF Usable = {} THEN [mapping |-> <<>>, made |-> Clean0] ELSE ReadTable(Table(Picked))

-----------------------------------------------------------------------------
(* iter_csv_chat_records                                                   *)

State0 == [seen |-> seen, kept |-> kept, drops |-> drops]
Become(st) == seen' = st.seen /\ kept' = st.kept /\ drops' = st.drops

\* The buffer is flushed in order through the cleaner.
Flush(R) ==
  LET m == Resolve(Columns, Samples(R))
  IN  /\ mapping' = m
      /\ pending' = <<>>
      /\ IF m = <<>> THEN phase' = "failed" /\ UNCHANGED <<seen, kept, drops>>
         ELSE Become(CleanRows(State0, m, R))

ReadRow ==
  /\ phase = "reading" /\ next < Len(csv)
  /\ next' = next + 1
  /\ LET r == csv[next + 1]
     IN  IF mapping # <<>>
         THEN Become(Clean(State0, mapping, r)) /\ UNCHANGED <<pending, mapping, phase>>
         ELSE IF Len(pending) + 1 < BufferMax
         THEN pending' = Append(pending, r) /\ UNCHANGED <<mapping, seen, kept, drops, phase>>
         ELSE Flush(Append(pending, r)) /\ (mapping' # <<>> => UNCHANGED phase)
  /\ UNCHANGED inputs

\* The end of the file before the buffer was full.
EndCsv ==
  /\ phase = "reading" /\ next = Len(csv)
  /\ IF mapping = <<>> THEN Flush(pending) /\ (mapping' # <<>> => phase' = "ended")
     ELSE phase' = "ended" /\ UNCHANGED <<pending, mapping, seen, kept, drops>>
  /\ UNCHANGED <<inputs, next>>

Next == ReadRow \/ EndCsv

Spec == Init /\ [][Next]_vars

-----------------------------------------------------------------------------
(* Properties                                                              *)

\* The threshold is taken of all data rows: each one read is kept, dropped or
\* waiting, and no pair of texts is kept twice.
RowsAddUp ==
  /\ phase # "failed" => Len(kept) + drops + Len(pending) = next
  /\ Cardinality(ToSet(kept)) = Len(kept)

\* The rows the buffer holds when the columns are chosen.
FirstRows == SubSeq(csv, 1, IF Len(csv) < BufferMax THEN Len(csv) ELSE BufferMax)

\* A small upload, read as a whole, and a large one, streamed, come to the same
\* columns, records and drops, or fail alike: unless the whole file is cut by another
\* delimiter, which the stream never looks for, or rows of the wrong width hide from
\* the buffer some of the samples a whole file has.
StreamAgreesWithFile ==
  phase # "reading" /\ (Usable = {} \/ Picked = ",") /\ Samples(FirstRows) = Samples(csv)
    => WholeFile = [mapping |-> mapping, made |-> State0]

CsvIsCleaned == RowsAddUp /\ StreamAgreesWithFile

-----------------------------------------------------------------------------
(* The inductive invariant                                                 *)

\* Rows wait for the columns, untouched; then they are cleaned in their order.
CleanedSoFar ==
  LET read == SubSeq(csv, 1, next) IN
  /\ (phase = "reading" /\ mapping = <<>>) => pending = read /\ State0 = Clean0
  /\ mapping # <<>> =>
       /\ pending = <<>> /\ Len(FirstRows) <= next
       /\ mapping = Resolve(Columns, Samples(FirstRows))
       /\ State0 = CleanRows(Clean0, mapping, read)
  /\ phase = "ended" => mapping # <<>> /\ next = Len(csv)
  /\ phase = "failed" =>
       mapping = <<>> /\ State0 = Clean0 /\ Resolve(Columns, Samples(FirstRows)) = <<>>

IInv ==
  /\ TypeOK /\ csv \in Seq(Rows) /\ hints \in Hints
  /\ CleanedSoFar /\ RowsAddUp
=============================================================================
