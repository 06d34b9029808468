----------------------------- MODULE Conversion -----------------------------
(* What an upload of any format becomes: _convert and the endpoints of       *)
(* routers/ingest_v2.py, with detect_file_format, parse_known and            *)
(* convert_via_ollama of packages/dataset_ingest/converter.py, beside the    *)
(* line reader and the gate of the large uploads.  CsvChat cleans tables,    *)
(* DatasetSplits divides the records, IngestJobs has the requests that race; *)
(* here one file is sent again and again, and the model may answer anything. *)
(***************************************************************************)
EXTENDS Naturals, Sequences, SequencesExt

CONSTANTS
  MaxItems,     \* bound on the lines, elements or paragraphs of a file
  SniffLines,   \* the lines _looks_like_jsonl tries
  DirectMin,    \* _DIRECT_MIN_RECORDS
  MaxChunks,    \* bound on the chunks a text is cut into
  MaxRequests   \* bound on the requests

VARIABLES
  ext, body,    \* the file: the ending of its name, what it holds
  request,      \* the one under way: [kind, force]
  pc,
  records, got, \* those parsed directly, those of the model so far
  chunks,       \* left to ask the model about
  answer,       \* the last one: [code, path, force, records]
  preview,      \* the last answer to a preview
  dataset,      \* published: [by, path, records], or none
  requests

vars == <<ext, body, request, pc, records, got, chunks, answer, preview, dataset, requests>>

\* JSON values.  "answer" is a pair under names other than prompt and completion;
\* "split" a chat record with a line separator of Unicode in one of its texts.
Trainable == {"chat", "completion", "text"}          \* is_mlx_trainable
Objects   == Trainable \cup {"answer", "odd"}
Lines     == Objects \cup {"split", "list", "bad"}
Forms     == {"lines", "array", "object", "table", "prose", "binary"}
\* commas: the first lines hold about as many of them.
Bodies ==
  [form : {"lines"}, items : BoundedSeq(Lines, MaxItems), commas : BOOLEAN]
    \cup [form : {"array"}, items : BoundedSeq(Objects \cup {"list"}, MaxItems), commas : {FALSE}]
    \cup [form : {"object"}, items : {<<"chat">>, <<"odd">>}, commas : {FALSE}]
    \cup [form : {"table"}, items : BoundedSeq({"row"}, MaxItems), commas : {TRUE}]
    \cup [form : {"prose"}, items : BoundedSeq({"text"}, MaxItems), commas : BOOLEAN]
    \cup [form : {"binary"}, items : {<<>>}, commas : {FALSE}]
Exts == {"jsonl", "json", "csv", "md", "txt", "none"}

Nothing   == [code |-> 0, path |-> "none", force |-> FALSE, records |-> <<>>]
NoDataset == [by |-> "none", path |-> "none", records |-> <<>>]
NoRequest == [kind |-> "none", force |-> FALSE]

\* Those of the values that are in S, in their order.
Only(S, values)     == FoldLeft(LAMBDA kept, v : IF v \in S THEN Append(kept, v) ELSE kept, <<>>, values)
OnlyObjects(values) == Only(Objects, values)

TypeOK ==
  /\ request.kind \in {"none", "upload", "preview", "large"} /\ request.force \in BOOLEAN
  /\ pc \in {"idle", "convert", "model", "answer"}
  /\ records \in Seq(Objects) /\ got \in Seq({"chat"})
  /\ chunks \in 0 .. MaxChunks /\ requests \in 0 .. MaxRequests
  /\ answer.code \in {0, 200, 202, 400, 409, 413, 422, 500}
  /\ dataset.records \in Seq(Objects)

Init ==
  /\ ext \in Exts /\ body \in Bodies
  /\ request = NoRequest /\ pc = "idle"
  /\ records = <<>> /\ got = <<>> /\ chunks = 0
  /\ answer = Nothing /\ preview = Nothing /\ dataset = NoDataset /\ requests = 0

-----------------------------------------------------------------------------
(* detect_file_format                                                      *)

\* splitlines() also breaks a line at the separators of Unicode.
SplitLines(items) ==
  FoldLeft(LAMBDA lines, v : IF v = "split" THEN lines \o <<"bad", "bad">> ELSE Append(lines, v),
           <<>>, items)

FirstLines(items) == SubSeq(items, 1, IF Len(items) < SniffLines THEN Len(items) ELSE SniffLines)
LooksLikeJsonl ==
  /\ body.form = "lines"
  /\ LET head == Range(FirstLines(SplitLines(body.items)))
     IN  "bad" \notin head /\ head \cap Objects # {}

\* _classify_jsonl: by the first line.
ClassifyJsonl ==
  LET lines == IF body.form = "lines" THEN SplitLines(body.items) ELSE <<"bad">> IN
  IF lines = <<>> \/ lines[1] \in {"bad", "list"} THEN "unknown"
  ELSE IF lines[1] = "chat" THEN "jsonl_chat"
  ELSE IF lines[1] \in {"completion", "answer"} THEN "jsonl_pc"
  ELSE "jsonl_text"

\* What json.loads makes of the whole file.
Whole ==
  IF body.form = "array" THEN "list"
  ELSE IF body.form = "object" \/ (body.form = "lines" /\ Len(body.items) = 1)
       THEN body.items[1] ELSE "bad"

IsJson == ext = "json" \/ body.form \in {"array", "object"}
            \/ (body.form = "lines" /\ body.items # <<>> /\ body.items[1] # "bad")
OpensList == body.form = "array"
               \/ (body.form = "lines" /\ body.items # <<>> /\ body.items[1] = "list")

Empty == body.form # "binary" /\ body.items = <<>>
DetectFileFormat ==
  IF ext = "jsonl" \/ LooksLikeJsonl THEN ClassifyJsonl
  ELSE IF IsJson /\ Whole \in {"chat", "split"} THEN "jsonl_chat"
  ELSE IF IsJson /\ OpensList THEN "json_array"
  ELSE IF ext = "csv" \/ body.commas THEN "csv"
  ELSE IF ext \in {"md", "txt"} \/ ~(Empty \/ body.form = "binary") THEN "prose"
  ELSE "unknown"

IsJsonl(format) == format \in {"jsonl_chat", "jsonl_pc", "jsonl_text"}

-----------------------------------------------------------------------------
(* Parsing                                                                 *)

\* parse_known of each format but csv; a list that is no JSON has no records,
\* and text without blank lines is one paragraph.
ParseKnown(format) ==
  IF IsJsonl(format)
  THEN IF body.form = "lines" THEN OnlyObjects(SplitLines(body.items)) ELSE <<>>
  ELSE IF format = "json_array"
  THEN IF body.form = "array" THEN OnlyObjects(body.items) ELSE <<>>
  ELSE IF body.form = "prose" THEN body.items
  ELSE IF Empty THEN <<>> ELSE <<"text">>

\* iter_jsonl_records, which breaks lines at newlines only.
Streamed ==
  IF body.form = "lines"
  THEN OnlyObjects([i \in DOMAIN body.items |->
         IF body.items[i] = "split" THEN "chat" ELSE body.items[i]])
  ELSE <<>>

Chats(n) == [i \in 1 .. n |-> "chat"]

-----------------------------------------------------------------------------
(* The synchronous endpoints                                               *)

Respond(code, path, made) ==
  LET says == [code |-> code, path |-> path, force |-> request.force, records |-> made] IN
  /\ answer' = says
  /\ pc' = "idle" /\ request' = NoRequest
  /\ records' = <<>> /\ got' = <<>> /\ chunks' = 0
  /\ IF code = 200 /\ request.kind = "preview"
     THEN preview' = says /\ UNCHANGED dataset
     ELSE IF code = 200
     THEN dataset' = [by |-> "sync", path |-> path, records |-> made] /\ UNCHANGED preview
     ELSE UNCHANGED <<preview, dataset>>
  /\ UNCHANGED <<ext, body, requests>>

\* An upload, from the request itself or fetched for it (_fetch_url, _fetch_scrape,
\* _fetch_s3), or its preview.
Request(kind, force) ==
  /\ pc = "idle" /\ requests < MaxRequests
  /\ requests' = requests + 1
  /\ request' = [kind |-> kind, force |-> force] /\ pc' = "convert"
  /\ UNCHANGED <<ext, body, records, got, chunks, answer, preview, dataset>>

\* The name is not valid or taken, the file is too large or cannot be fetched.
Refuse ==
  /\ pc = "convert"
  /\ \E code \in {400, 413} : Respond(code, "refused", <<>>)

Taken ==
  /\ pc = "convert" /\ request.kind = "upload" /\ dataset # NoDataset
  /\ Respond(409, "refused", <<>>)

Free == request.kind = "preview" \/ dataset = NoDataset

\* JSONL and CSV are read as they are, or refused; CsvChat has the cleaning.
ReadFormatted ==
  /\ pc = "convert" /\ Free /\ ~request.force
  /\ IF DetectFileFormat = "csv"
     THEN \E n \in 0 .. Len(body.items) :
            Respond(IF n = 0 THEN 400 ELSE 200, "direct", Chats(n))
     ELSE /\ IsJsonl(DetectFileFormat)
          /\ LET made == ParseKnown(DetectFileFormat)
             IN  Respond(IF made = <<>> THEN 400 ELSE 200, "direct", made)

\* Lists and prose are read directly when there is enough in them.
Enough(made) == Len(made) >= DirectMin
ReadSoft ==
  /\ pc = "convert" /\ Free /\ ~request.force
  /\ DetectFileFormat \in {"json_array", "prose"}
  /\ Enough(ParseKnown(DetectFileFormat))
  /\ Respond(200, "direct", ParseKnown(DetectFileFormat))

\* Everything else goes to the model, in chunks.
AskModel ==
  /\ pc = "convert" /\ Free
  /\ \/ request.force \/ DetectFileFormat = "unknown"
     \/ DetectFileFormat \in {"json_array", "prose"} /\ ~Enough(ParseKnown(DetectFileFormat))
  /\ records' = IF ~request.force /\ DetectFileFormat # "unknown"
                THEN ParseKnown(DetectFileFormat) ELSE <<>>
  /\ chunks' \in (IF Empty THEN {0} ELSE 1 .. MaxChunks)
  /\ pc' = "model"
  /\ UNCHANGED <<ext, body, request, got, answer, preview, dataset, requests>>

\* convert_via_ollama: the valid chat records of each answer, nothing of a call
\* that fails; an answer without a message is an error of the request.
ModelAnswers(n) ==
  /\ pc = "model" /\ chunks > 0
  /\ chunks' = chunks - 1 /\ got' = got \o Chats(n)
  /\ UNCHANGED <<ext, body, request, pc, records, answer, preview, dataset, requests>>

ModelBreaks ==
  /\ pc = "model" /\ chunks > 0
  /\ Respond(500, "refused", <<>>)

ModelOrRefuse ==   \* mutant: what was parsed directly is forgotten
  /\ pc = "model" /\ chunks = 0
  /\ IF got # <<>> THEN Respond(200, "ollama", got) ELSE Respond(400, "none", <<>>)

FinishModel ==
  /\ pc = "model" /\ chunks = 0
  /\ IF got # <<>> THEN Respond(200, "ollama", got)
     ELSE IF records # <<>> THEN Respond(200, "direct", records)
     ELSE Respond(400, "none", <<>>)

-----------------------------------------------------------------------------
(* The large upload: its gate, and the records its job is given            *)

LargeUpload ==
  /\ pc = "idle" /\ requests < MaxRequests /\ dataset = NoDataset
  /\ requests' = requests + 1
  /\ LET format == DetectFileFormat
         says(code) == answer' = [Nothing EXCEPT !.code = code, !.path = "stream"]
         publish(made) == dataset' = [by |-> "large", path |-> "stream", records |-> made]
     IN  IF IsJsonl(format)
         THEN LET made == Only(Trainable, Streamed)
              IN  says(202) /\ (UNCHANGED dataset \/ (made # <<>> /\ publish(made)))
         ELSE IF format = "csv"
         THEN \E n \in 0 .. Len(body.items) :
                says(202) /\ (UNCHANGED dataset \/ (n > 0 /\ publish(Chats(n))))
         ELSE says(422) /\ UNCHANGED dataset
  /\ UNCHANGED <<ext, body, request, pc, records, got, chunks, preview>>

Next ==
  \/ \E kind \in {"upload", "preview"}, force \in BOOLEAN : Request(kind, force)
  \/ Refuse \/ Taken \/ ReadFormatted \/ ReadSoft \/ AskModel
  \/ \E n \in 0 .. 1 : ModelAnswers(n)
  \/ ModelBreaks \/ FinishModel \/ LargeUpload

Spec == Init /\ [][Next]_vars

-----------------------------------------------------------------------------
(* Properties                                                              *)

\* A dataset has records; those read directly from JSONL are the ones a large
\* upload of the file would read, in their order, unless a text holds one of the
\* separators only splitlines() knows (converter.py:201, streaming.py:55).
ReadAlike ==
  dataset # NoDataset =>
    /\ dataset.records # <<>>
    /\ (dataset.path = "direct" /\ IsJsonl(DetectFileFormat) /\ "split" \notin Range(body.items))
         => dataset.records = Streamed

\* A list or prose with anything in it is not refused because the model made
\* nothing of it, and is left alone when there is enough (ingest_v2.py:187-206).
DirectSurvives ==
  (DetectFileFormat \in {"json_array", "prose"} /\ ~answer.force) =>
    /\ (answer.code = 400 /\ answer.path # "refused") => ParseKnown(DetectFileFormat) = <<>>
    /\ (answer.code = 200 /\ Enough(ParseKnown(DetectFileFormat))) =>
         answer.records = ParseKnown(DetectFileFormat)

\* A preview and an upload that were both read directly, and are no table, agree.
PreviewPredicts ==
  (/\ dataset.by = "sync" /\ dataset.path = "direct" /\ preview.path = "direct"
   /\ DetectFileFormat # "csv") => dataset.records = preview.records

\* What an upload becomes is what is in it.
UploadIsRead == ReadAlike /\ DirectSurvives /\ PreviewPredicts

-----------------------------------------------------------------------------
(* The inductive invariant                                                 *)

\* The model is asked of what could not be read directly or was to be sent to it,
\* and has beside it what there is of a list or prose.
ModelIsAsked ==
  pc = "model" =>
    /\ request.force \/ DetectFileFormat \in {"unknown", "json_array", "prose"}
    /\ ~request.force /\ DetectFileFormat # "unknown" => ~Enough(ParseKnown(DetectFileFormat))
    /\ records = IF request.force \/ DetectFileFormat = "unknown"
                 THEN <<>> ELSE ParseKnown(DetectFileFormat)

\* What was read directly and is no table is what parse_known makes of the file.
DirectIsParsed ==
  /\ \A made \in {preview, dataset} :
       made.path = "direct" /\ DetectFileFormat # "csv" => made.records = ParseKnown(DetectFileFormat)
  /\ dataset # NoDataset => dataset.records # <<>>

IInv ==
  /\ TypeOK /\ body \in Bodies
  /\ pc # "idle" => request.kind \in {"upload", "preview"}
  /\ ModelIsAsked /\ DirectIsParsed /\ DirectSurvives
=============================================================================
