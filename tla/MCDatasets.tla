----------------------------- MODULE MCDatasets -----------------------------
(* The way of a dataset: requests that publish one (IngestJobs), how an     *)
(* upload of any format is read (Conversion), how a table is cut into rows   *)
(* (CsvRows) and made into records (CsvChat), how more of them are           *)
(* synthesized (SynthEngine) and divided into splits (DatasetSplits), and    *)
(* who finds the result (DatasetPaths).  Each is a matter of its own data,   *)
(* so a behaviour exercises one of them, the focus, and the others stay as   *)
(* they began: their product would reach nothing that one does not.          *)
(***************************************************************************)
EXTENDS IngestJobs, Sequences, TLC

CONSTANTS
  j1, j2, u1, u2,                                   \* requests
  MaxSymbols, ChunkSizes,                           \* rows of a file
  Columns, OtherDelimiters, OtherTables, Rows, Mismatch, Width, Hints, HermesAnswers,
  Unusable, MinWidth, MaxRows, BufferMax, SampleSize,   \* its records
  MaxTotal, Requested, MaxFinalizes,                \* splits
  Answered, Malformed, Seeds, Target, BatchSize, MaxBatches, MaxAnswer,   \* synthesis
  MaxItems, SniffLines, DirectMin, MaxChunks, MaxRequests,   \* conversion
  Owners, Administrators, MaxVersions               \* paths

VARIABLES
  focus,
  file, at, buf, texts, ended,
  csv, others, sniffed, hints, hermes, next, pending, mapping, seen, kept, drops, phase,
  counts, asked, splitDir, finalizes,
  generated, hashes, batch, reports, outcome,
  ext, body, request, convPc, records, got, chunks, answer, preview, dataset, requests,
  auth, tree, origin, result

TwoJobs == {j1, j2}
TwoUploads == {u1, u2}

\* Three columns; a row may be of another width than the header.
ThreeColumns == <<"prompt", "input", "answer">>
SomeRows ==
  {Mismatch,
   "prompt" :> "long" @@ "input" :> "text" @@ "answer" :> "text",
   "prompt" :> "text" @@ "input" :> "long" @@ "answer" :> "text",
   "prompt" :> "list" @@ "input" :> "ab"   @@ "answer" :> "long"}
SomeWidth == "long" :> 9 @@ "text" :> 5 @@ "ab" :> 2 @@ "list" :> 7
\* The same text by another delimiter: one column, or a table whose rows fit or not.
OneOther == <<";">>
SomeTables ==
  [header : {<<"prompt,input,answer">>}, rows : {<<>>, <<Mismatch>>}] \cup
  [header : {<<"prompt", "answer">>},
   rows : {<<>>, <<Mismatch>>, <<"prompt" :> "long" @@ "answer" :> "text">>}]
\* Two columns that could be the prompt, none, and one that could be both.
SomeHints == {<<{"prompt", "input"}, {"answer"}>>, <<{}, {"answer"}>>, <<{"input"}, {"input"}>>}
SomeAnswers == {<<>>, <<"input", "answer">>, <<"nope", "answer">>}

SomeRequested == {[valid |-> v, canary |-> c] : v \in {0, 15, 50}, c \in {0, 5, 30}}

\* Two tenants, the first with an administrator.
User(t, u) == [tenant |-> t, user |-> u]
ThreeOwners == {User("acme", "ann"), User("acme", "dev"), User("other", "zoe")}
OneAdmin    == {User("acme", "ann")}

CR == INSTANCE CsvRows WITH rows <- texts
CC == INSTANCE CsvChat
DS == INSTANCE DatasetSplits WITH dir <- splitDir
SE == INSTANCE SynthEngine WITH Records <- Answered, MaxLines <- MaxAnswer
CO == INSTANCE Conversion WITH pc <- convPc
DP == INSTANCE DatasetPaths WITH People <- Owners, Admins <- Administrators

\* A text has a length; the buffer holds a row, and
\* what is read directly has records.  The
\* percentages are within the fields of FinalizeRequest.  The users are those
\* of their token, whose name is the subject Keycloak gave them: no one is in a
\* tenant of the program's own, and none is named like the tenant, nor a tenant
\* like the samples, which is how list_datasets tells their directories apart.
ASSUME DatasetsAssumption ==
  /\ MaxSymbols \in Nat /\ ChunkSizes \subseteq Nat
  /\ Columns \in Seq(STRING) /\ OtherDelimiters \in Seq(STRING)
  /\ \A text \in CC!Cells : Width[text] \in Nat
  /\ BufferMax \in Nat \ {0} /\ SampleSize \in Nat
  /\ DirectMin \in Nat \ {0} /\ MaxChunks \in Nat /\ MaxRequests \in Nat
  /\ MaxTotal \in Nat /\ MaxFinalizes \in Nat
  /\ Seeds \subseteq Answered
  /\ Target \in Nat /\ BatchSize \in Nat /\ MaxBatches \in Nat /\ MaxAnswer \in Nat
  /\ Requested \subseteq [valid : 0 .. 50, canary : 0 .. 30]
  /\ MaxVersions \in Nat \ {0}
  /\ Administrators \subseteq Owners
  /\ Owners \subseteq [tenant : STRING \ {"none", "system", "local", "global"}, user : STRING]
  /\ \A owner \in Owners : owner.tenant # owner.user

rowsVars   == <<file, at, buf, texts, ended>>
chatVars   == <<csv, others, sniffed, hints, hermes, next, pending, mapping, seen, kept, drops, phase>>
splitsVars == <<counts, asked, splitDir, finalizes>>
synthVars  == <<generated, hashes, batch, reports, outcome>>
convVars   == <<ext, body, request, convPc, records, got, chunks, answer, preview, dataset, requests>>
pathsVars  == <<auth, tree, origin, result>>
allVars    == <<focus, vars, rowsVars, chatVars, splitsVars, synthVars, convVars, pathsVars>>

\* Out of focus there is one way to begin.
DatasetsInit ==
  /\ focus \in {"ingest", "rows", "chat", "splits", "synthesis", "conversion", "paths"}
  /\ focus = "rows" \/ file = <<>>
  /\ focus = "chat" \/ (csv = <<>> /\ others = (CHOOSE t \in CC!OtherReadings : TRUE) /\ sniffed = "none"
                          /\ hints = (CHOOSE h \in Hints : TRUE) /\ hermes = <<>>)
  /\ focus = "splits" \/ asked = (CHOOSE p \in Requested : TRUE)
  /\ focus = "conversion" \/
       (ext = "none" /\ body = [form |-> "binary", items |-> <<>>, commas |-> FALSE])
  /\ focus = "paths" \/
       (auth = FALSE /\ tree = [h \in DP!Hosts |-> [p \in DP!Places |-> DP!NoDir]])
  /\ Init /\ CR!Init /\ CC!Init /\ DS!Init /\ SE!Init /\ CO!Init /\ DP!Init

DatasetsNext ==
  \/ focus = "ingest" /\ Next
     /\ UNCHANGED <<focus, rowsVars, chatVars, splitsVars, synthVars, convVars, pathsVars>>
  \/ focus = "rows" /\ CR!Next
     /\ UNCHANGED <<focus, vars, chatVars, splitsVars, synthVars, convVars, pathsVars>>
  \/ focus = "chat" /\ CC!Next
     /\ UNCHANGED <<focus, vars, rowsVars, splitsVars, synthVars, convVars, pathsVars>>
  \/ focus = "splits" /\ DS!Next
     /\ UNCHANGED <<focus, vars, rowsVars, chatVars, synthVars, convVars, pathsVars>>
  \/ focus = "synthesis" /\ SE!Next
     /\ UNCHANGED <<focus, vars, rowsVars, chatVars, splitsVars, convVars, pathsVars>>
  \/ focus = "conversion" /\ CO!Next
     /\ UNCHANGED <<focus, vars, rowsVars, chatVars, splitsVars, synthVars, pathsVars>>
  \/ focus = "paths" /\ DP!Next
     /\ UNCHANGED <<focus, vars, rowsVars, chatVars, splitsVars, synthVars, convVars>>

\* The fair steps of the jobs are disabled where these start, so the fairness
\* asks for nothing while another part is in focus.
DatasetsSpec == DatasetsInit /\ [][DatasetsNext]_allVars /\ Fairness

DatasetsTypeOK ==
  /\ TypeOK
  /\ focus = "rows" => CR!TypeOK
  /\ focus = "chat" => CC!TypeOK
  /\ focus = "splits" => DS!TypeOK
  /\ focus = "synthesis" => SE!TypeOK
  /\ focus = "conversion" => CO!TypeOK
  /\ focus = "paths" => DP!TypeOK

\* An upload becomes the records a reader of the whole file would make of it with
\* the comma, whatever its format and the endpoint: the same rows, every one of them
\* accounted for, and nothing kept twice or lost to the model.  They are divided
\* without loss, with enough of them to validate on; synthesized ones are new,
\* well-formed and no more than asked for.
RecordsAreSound ==
  /\ focus = "rows" => CR!StreamReadsTheFile
  /\ focus = "chat" => CC!CsvIsCleaned
  /\ focus = "conversion" => CO!UploadIsRead
  /\ focus = "splits" => DS!SplitsAreSound
  /\ focus = "synthesis" => SE!SynthesisIsSound

\* A dataset is found by those who may see it, and is the one a run trains on.
DatasetIsFound == focus = "paths" => DP!DatasetIsFound
=============================================================================
