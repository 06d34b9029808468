---------------------------- MODULE TrainingJob ----------------------------
(* What one training reads and reports: run_training_job of                 *)
(* packages/trainer/runner.py with the backends of packages/trainer/backends *)
(* and the CUDA program cuda_train.py.  RunClaims has the statuses of the    *)
(* run and DatasetPaths where its dataset comes from; here it is how the     *)
(* splits become a configuration the training program accepts, and how the   *)
(* lines it prints become the metrics and the losses of the run.             *)
(***************************************************************************)
EXTENDS Integers, Sequences, SequencesExt

CONSTANTS
  Datasets,     \* [rows: records per split, canaryFile: is it there, shape: of the records]
  BatchSizes,
  Values,       \* the finite losses
  NotANumber,   \* what a diverged training prints
  None,
  Iters,        \* the steps of a training
  MaxPrinted,   \* bound on the lines a training prints
  MaxLost       \* bound on the requests to the API that fail

VARIABLES
  backend, data, batch,   \* of the run
  pc,
  config,       \* what write_config wrote
  finals,       \* the losses run_training_job holds
  canary,       \* the result of run_canary_eval
  stored,       \* the metrics the API stored
  row,          \* the last report on the run the API got
  lost,
  printed       \* history: the lines the training printed

vars == <<backend, data, batch, pc, config, finals, canary, stored, row, lost, printed>>

Losses  == {"train_loss", "val_loss"}
Figures == Values \cup {NotANumber, None}
Metrics == Losses \cup {"learning_rate", "iters_per_sec", "tokens_per_sec", "canary_loss"}
Report(status, train, val, can) ==
  [status |-> status, train_loss |-> train, val_loss |-> val, canary_loss |-> can]
Event(step, name, value) == [step |-> step, name |-> name, value |-> value]
MinOf(a, b) == IF a < b THEN a ELSE b
MaxOf(a, b) == IF a > b THEN a ELSE b

TypeOK ==
  /\ backend \in {"mlx", "cuda"} /\ data \in Datasets /\ batch \in BatchSizes
  /\ pc \in {"config", "command", "train", "canary", "post", "report", "done", "raised"}
  /\ config \in [val_batches : 0 .. 25, mask_prompt : BOOLEAN]
  /\ finals \in [Losses -> Figures] /\ canary \in Values \cup {None}
  /\ stored \in Seq([step : 0 .. Iters, name : Metrics, value : Values])
  /\ row \in [status : {"running", "failed", "completed"}, train_loss : Values \cup {None},
              val_loss : Values \cup {None}, canary_loss : Values \cup {None}]
  /\ lost \in 0 .. MaxLost
  /\ printed \in Seq([step : 0 .. Iters, name : Losses \cup {"other"}, value : Figures])

Init ==
  /\ backend \in {"mlx", "cuda"} /\ data \in Datasets /\ batch \in BatchSizes
  /\ pc = "config" /\ config = [val_batches |-> 0, mask_prompt |-> FALSE]
  /\ finals = [l \in Losses |-> None] /\ canary = None
  /\ stored = <<>> /\ row = Report("running", None, None, None)
  /\ lost = 0 /\ printed = <<>>

-----------------------------------------------------------------------------
(* Requests to the API                                                     *)

\* A request that fails is logged and forgotten; so is one whose body holds a
\* value JSON has no word for, which the client refuses to encode.
Encodes(fields) == NotANumber \notin fields
MayFail == lost < MaxLost

Patch(report) ==
  \/ row' = report /\ Encodes({report.train_loss, report.val_loss}) /\ UNCHANGED lost
  \/ ~Encodes({report.train_loss, report.val_loss}) /\ UNCHANGED <<row, lost>>
  \/ MayFail /\ lost' = lost + 1 /\ UNCHANGED row

\* Only the first event of a line is a loss, which may be no number.
Sent(events) ==
  IF events # <<>> /\ ~Encodes({Head(events).value}) THEN Tail(events) ELSE events

\* One post per event, one after the other; of a line's, at most one fails.
Post(events) ==
  LET sent == Sent(events)
  IN  \/ stored' = stored \o sent /\ UNCHANGED lost
      \/ \E i \in 1 .. Len(sent) :
           MayFail /\ lost' = lost + 1 /\ stored' = stored \o RemoveAt(sent, i)

-----------------------------------------------------------------------------
(* The configuration                                                       *)

AlwaysDefault(valid) == 25  \* mutant: mlx-lm's default, whatever there is to validate on

\* _safe_val_batches
SafeValBatches(valid) ==
  IF valid = 0 THEN 0 ELSE MinOf(25, MaxOf(1, valid \div batch))

\* detect_dataset_format: of the first record; anything else counts as text.
Format(shape) == IF shape \in {"messages", "completion"} THEN "chat" ELSE "text"

\* write_config.  The CUDA program is given no number of validation batches.
Divides == backend = "cuda" \/ data.rows.valid = 0 \/ batch > 0
WriteConfig ==
  /\ pc = "config" /\ Divides
  /\ config' = [val_batches |-> IF backend = "mlx" THEN SafeValBatches(data.rows.valid) ELSE 0,
                mask_prompt |-> Format(data.shape) = "chat"]
  /\ pc' = "command"
  /\ UNCHANGED <<backend, data, batch, finals, canary, stored, row, lost, printed>>

\* build_command finds no way to run the toolchain.
NoToolchain ==
  /\ pc = "command"
  /\ Patch(Report("failed", None, None, None))
  /\ pc' = "done"
  /\ UNCHANGED <<backend, data, batch, config, finals, canary, stored, printed>>

\* A batch of no records, or a probe of the toolchain that hangs: the exception
\* leaves run_training_job, and the worker goes on to the next claim.
Raise ==
  /\ (pc = "config" /\ ~Divides) \/ pc = "command"
  /\ pc' = "raised"
  /\ UNCHANGED <<backend, data, batch, config, finals, canary, stored, row, lost, printed>>

BuildCommand ==
  /\ pc = "command"
  /\ Patch(Report("running", None, None, None))
  /\ pc' = "train"
  /\ UNCHANGED <<backend, data, batch, config, finals, canary, stored, printed>>

-----------------------------------------------------------------------------
(* The training program                                                    *)

\* What the comments of mlx.py and _load_dataset of cuda_train.py say the
\* program asks of its data: enough records for a batch and for the batches
\* of a validation, and no masked prompt in plain text.
Fits(rows, batches, size) == rows >= batches * size
Accepts ==
  /\ batch > 0
  /\ ~(config.mask_prompt /\ data.shape = "text")
  /\ data.shape # "other"
  /\ backend = "mlx" => /\ Fits(data.rows.train, 1, batch)
                        /\ Fits(data.rows.valid, config.val_batches, batch)

SomeValue == CHOOSE v \in Values : TRUE   \* of a metric no property reads

\* parse_line.  The patterns of the MLX backend match digits only; a report of
\* a training step brings four metrics with it, the CUDA program prints each on
\* a line of its own.
Parse(line) ==
  IF line.name = "other" \/ (backend = "mlx" /\ line.value = NotANumber) THEN <<>>
  ELSE IF line.name = "train_loss" /\ backend = "mlx"
       THEN <<line, Event(line.step, "learning_rate", SomeValue),
              Event(line.step, "iters_per_sec", SomeValue),
              Event(line.step, "tokens_per_sec", SomeValue)>>
       ELSE <<line>>

\* The program prints a line: MetricEmitter of cuda_train.py, or mlx-lm.
Emit(name, value) ==
  /\ pc = "train" /\ Accepts /\ Len(printed) < MaxPrinted
  /\ name = "val_loss" => (IF backend = "mlx" THEN config.val_batches > 0
                           ELSE data.rows.valid > 0)
  /\ \E step \in 1 .. Iters :
       LET line == Event(step, name, value) IN
       /\ printed # <<>> => step >= Last(printed).step
       /\ printed' = Append(printed, line)
       /\ finals' = IF name \in Losses /\ Parse(line) # <<>>
                    THEN [finals EXCEPT ![name] = value] ELSE finals
       /\ Post(Parse(line))
  /\ UNCHANGED <<backend, data, batch, pc, config, canary, row>>

ExitFailed ==
  /\ pc = "train"
  /\ Patch(Report("failed", None, None, None))
  /\ pc' = "done"
  /\ UNCHANGED <<backend, data, batch, config, finals, canary, stored, printed>>

ExitDone ==
  /\ pc = "train" /\ Accepts
  /\ pc' = "canary"
  /\ UNCHANGED <<backend, data, batch, config, finals, canary, stored, row, lost, printed>>

-----------------------------------------------------------------------------
(* After it                                                                *)

\* The batches of the canary evaluation, cut to the canary set.
CanaryBatch(rows)   == MinOf(MaxOf(1, batch), rows)
CanaryBatches(rows) == MaxOf(1, MinOf(10, rows \div CanaryBatch(rows)))
HasCanary == backend = "mlx" /\ data.canaryFile /\ data.rows.canary > 0

\* run_canary_eval: the loss the test prints, None when there is no canary,
\* no command, a failing test or no digits in what it prints.
EvalCanary(value) ==
  /\ pc = "canary"
  /\ value # None => /\ HasCanary
                     /\ Fits(data.rows.canary, CanaryBatches(data.rows.canary),
                             CanaryBatch(data.rows.canary))
  /\ canary' = value
  /\ pc' = IF value = None THEN "report" ELSE "post"
  /\ UNCHANGED <<backend, data, batch, config, finals, stored, row, lost, printed>>

PostCanary ==
  /\ pc = "post"
  /\ Post(<<Event(Iters, "canary_loss", canary)>>)
  /\ pc' = "report"
  /\ UNCHANGED <<backend, data, batch, config, finals, canary, row, printed>>

ReportDone ==
  /\ pc = "report"
  /\ Patch(Report("completed", finals["train_loss"], finals["val_loss"], canary))
  /\ pc' = "done"
  /\ UNCHANGED <<backend, data, batch, config, finals, canary, stored, printed>>

Next ==
  \/ WriteConfig \/ NoToolchain \/ Raise \/ BuildCommand
  \/ \E name \in Losses, value \in Values \cup {NotANumber} : Emit(name, value)
  \/ Emit("other", None)
  \/ ExitFailed \/ ExitDone
  \/ \E value \in Values \cup {None} : EvalCanary(value)
  \/ PostCanary \/ ReportDone

Spec == Init /\ [][Next]_vars

-----------------------------------------------------------------------------
(* Properties                                                              *)

\* The events of a name end on a value, None when there are none.
EndsOn(name, events, value) ==
  \/ value = None /\ \A i \in DOMAIN events : events[i].name # name
  \/ \E i \in DOMAIN events :
       /\ events[i].name = name /\ events[i].value = value
       /\ \A j \in DOMAIN events : j > i => events[j].name # name
Diverged(name) ==
  \E i \in DOMAIN printed : printed[i].name = name /\ printed[i].value = NotANumber

\* A dataset with a batch of each split, of records the trainers know, is never
\* refused for what write_config made of it (mlx.py:48, :72).
DatasetIsAccepted ==
  (pc = "train" /\ batch > 0 /\ data.rows.train >= batch
     /\ (data.rows.valid = 0 \/ data.rows.valid >= batch) /\ data.shape # "other") => Accepts

\* What a completed run says of its losses is what its training printed last and
\* the end of its curves, and its canary loss is the point behind all of them
\* (runner.py:136-169); except for a request that was lost and for a loss that
\* is no number, which an MLX run passes over.
ReportIsTrue ==
  row.status = "completed" =>
    /\ \A name \in Losses :
         /\ EndsOn(name, printed, row[name]) \/ (backend = "mlx" /\ Diverged(name))
         /\ EndsOn(name, stored, row[name]) \/ lost > 0 \/ (backend = "cuda" /\ Diverged(name))
    /\ row.canary_loss # None =>
         /\ data.rows.canary > 0
         /\ lost > 0 \/ Last(stored) = Event(Iters, "canary_loss", row.canary_loss)

\* A training that came back leaves its run running only when a request was
\* lost or when a CUDA training ended on a loss that is no number.
VerdictIsReported ==
  (pc = "done" /\ row.status = "running") =>
    lost > 0 \/ (backend = "cuda" /\ NotANumber \in Range(finals))

\* The report of a training is true, arrives, and is not the fault of the
\* configuration.
TrainingIsReported == DatasetIsAccepted /\ ReportIsTrue /\ VerdictIsReported

-----------------------------------------------------------------------------
(* The inductive invariant                                                 *)

\* The training runs with what write_config wrote.
ConfigIsWritten ==
  pc \in {"command", "train", "canary", "post", "report"} =>
    /\ backend = "mlx" => config.val_batches = SafeValBatches(data.rows.valid)
    /\ config.mask_prompt = (Format(data.shape) = "chat")

\* The losses run_training_job holds follow what is printed and what is stored.
LossesAreHeld ==
  \A name \in Losses :
    /\ EndsOn(name, printed, finals[name]) \/ (backend = "mlx" /\ Diverged(name))
    /\ EndsOn(name, stored, finals[name]) \/ lost > 0 \/ (backend = "cuda" /\ Diverged(name))
    /\ backend = "mlx" => finals[name] # NotANumber

\* The result of the canary evaluation, and where it is the end of the curves.
CanaryIsLast ==
  /\ pc \in {"config", "command", "train", "canary"} => canary = None
  /\ pc = "post" => canary # None
  /\ canary # None => HasCanary
  /\ (pc \in {"report", "done"} /\ canary # None) =>
       lost > 0 \/ (stored # <<>> /\ Last(stored) = Event(Iters, "canary_loss", canary))

\* The API has a completed run only from the last report, and no report is
\* missing but for a reason.
RowIsReported ==
  /\ pc # "done" => row.status = "running"
  /\ row.status = "completed" =>
       row = Report("completed", finals["train_loss"], finals["val_loss"], canary)
  /\ VerdictIsReported

IInv == TypeOK /\ ConfigIsWritten /\ LossesAreHeld /\ CanaryIsLast /\ RowIsReported
=============================================================================
