------------------------------ MODULE Recording ------------------------------
(* Telemetry recordings: the recorder and its background writer
   (recordings/recorder.py, database/writer.py), the rows they keep
   (database/repo.py, SQLite) and the HTTP handlers that start, stop and delete
   a recording (api/recordings.py).  Every await of a handler, and of a write,
   is a point where the others run.  A sample is the id of the recording it was
   queued for.                                                               *)
EXTENDS Naturals, Sequences, FiniteSets

CONSTANTS
  Caller,       \* HTTP requests that can be in progress at once
  Rows,         \* how many recordings an instance may make
  Room,         \* the writer's queue (DEFAULT_MAXSIZE)
  MaxSamples    \* MAX_SAMPLES

ASSUME RecordingAssumption == Rows \in Nat /\ Room \in Nat \ {0} /\ MaxSamples \in Nat

VARIABLES
  row,          \* the recordings table: the status of each id
  count,        \* its sample_count
  stored,       \* the rows of recording_samples
  active, samples,   \* Recorder.active (an id, or None) and _samples
  queue,        \* BackgroundWriter._queue
  writing,      \* the write its worker awaits
  flag,         \* state.recording, which status.py shows
  call,         \* what each request awaits, and for which recording
  accepted, lost,    \* history: samples queued for a recording, and those not written
  answer        \* history: the sample_count a stop answered

recVars == <<row, count, stored, active, samples, queue, writing, flag, call, accepted, lost, answer>>
rowVars == <<row, count, stored>>
histVars == <<accepted, lost, answer>>

Row == 1 .. Rows
None == 0
Idle == [at |-> "idle", id |-> None]
At(step, r) == [at |-> step, id |-> r]
NoWrite == [id |-> None, step |-> "none"]
Unanswered == MaxSamples + 1

RecInit ==
  /\ row = [r \in Row |-> "unused"]
  /\ count = [r \in Row |-> 0] /\ stored = [r \in Row |-> 0]
  /\ active = None /\ samples = 0 /\ queue = <<>> /\ writing = NoWrite
  /\ flag = FALSE /\ call = [c \in Caller |-> Idle]
  /\ accepted = [r \in Row |-> 0] /\ lost = [r \in Row |-> 0]
  /\ answer = [r \in Row |-> Unanswered]

Open(r) == row[r] = "recording"

----------------------------------------------------------------------------
(* The writer.                                                               *)

\* submit: the queue and the samples after one more is offered for recording r.
Submitted(r) == IF Len(queue) < Room THEN Append(queue, r) ELSE queue

submit(r) ==
  /\ queue' = Submitted(r)
  /\ accepted' = [accepted EXCEPT ![r] = @ + Len(queue') - Len(queue)]

Take ==
  /\ writing = NoWrite /\ queue # <<>>
  /\ writing' = [id |-> Head(queue), step |-> "insert"]
  /\ queue' = Tail(queue)
  /\ UNCHANGED <<rowVars, active, samples, flag, call, histVars>>

\* add_recording_sample: an INSERT, then an UPDATE that finds no row once the
\* recording was deleted.
InsertSample ==
  /\ writing.step = "insert"
  /\ stored' = [stored EXCEPT ![writing.id] = @ + 1]
  /\ writing' = [writing EXCEPT !.step = "count"]
  /\ UNCHANGED <<row, count, active, samples, queue, flag, call, histVars>>

CountSample ==
  /\ writing.step = "count"
  /\ count' = [count EXCEPT ![writing.id] = IF row[writing.id] = "deleted" THEN @ ELSE @ + 1]
  /\ writing' = NoWrite
  /\ UNCHANGED <<row, stored, active, samples, queue, flag, call, histVars>>

\* Either statement may raise; nothing is rolled back.
WriteFails ==
  /\ writing # NoWrite
  /\ lost' = [lost EXCEPT ![writing.id] = @ + 1]
  /\ writing' = NoWrite
  /\ UNCHANGED <<rowVars, active, samples, queue, flag, call, accepted, answer>>

\* Mutant: a stop that does not wait for what is queued.
JoinedAtOnce == TRUE

Joined == queue = <<>> /\ writing = NoWrite

----------------------------------------------------------------------------
(* The recorder.                                                             *)

\* offer, of a channel that is recorded and whose interval has passed.
offer ==
  IF active = None \/ samples >= MaxSamples
  THEN UNCHANGED <<queue, samples, accepted>>
  ELSE submit(active) /\ samples' = samples + Len(queue') - Len(queue)

\* start: no recording is active, and no row is open when SQLite looks.
StartLooks(c) ==
  /\ call[c] = Idle /\ active = None /\ ~\E r \in Row : Open(r)
  /\ call' = [call EXCEPT ![c] = At("looked", None)]
  /\ UNCHANGED <<rowVars, active, samples, queue, writing, flag, histVars>>

StartInserts(c) ==
  /\ call[c].at = "looked"
  /\ \E r \in Row :
       /\ \A o \in Row : row[o] = "unused" => r <= o
       /\ row[r] = "unused"
       /\ row' = [row EXCEPT ![r] = "recording"]
       /\ call' = [call EXCEPT ![c] = At("inserted", r)]
  /\ UNCHANGED <<count, stored, active, samples, queue, writing, flag, histVars>>

\* The row is read back, the recorder takes it, and the event "Recording
\* started" is its first sample.
StartBegins(c) ==
  /\ call[c].at = "inserted" /\ Open(call[c].id)
  /\ LET r == call[c].id IN
     /\ active' = r /\ flag' = TRUE
     /\ IF MaxSamples > 0 THEN submit(r) ELSE UNCHANGED <<queue, accepted>>
     /\ samples' = Len(queue') - Len(queue)
  /\ call' = [call EXCEPT ![c] = At("telling", None)]
  /\ UNCHANGED <<rowVars, writing, lost, answer>>

\* Deleted before it was read back: the request is refused.
StartFindsNothing(c) ==
  /\ call[c].at = "inserted" /\ ~Open(call[c].id)
  /\ call' = [call EXCEPT ![c] = Idle]
  /\ UNCHANGED <<rowVars, active, samples, queue, writing, flag, histVars>>

StopClears(c) ==
  /\ call[c] = Idle /\ active # None
  /\ call' = [call EXCEPT ![c] = At("flushing", active)]
  /\ active' = None
  /\ UNCHANGED <<rowVars, samples, queue, writing, flag, histVars>>

Closed(rows, r) == IF rows[r] = "recording" THEN [rows EXCEPT ![r] = "done"] ELSE rows

StopFlushes(c) ==
  /\ call[c].at = "flushing" /\ Joined
  /\ row' = Closed(row, call[c].id)
  /\ call' = [call EXCEPT ![c].at = "closed"]
  /\ UNCHANGED <<count, stored, active, samples, queue, writing, flag, histVars>>

\* get_recording's row is the answer; the event "Recording finished" may be a
\* sample of the next recording.
StopAnswers(c) ==
  /\ call[c].at = "closed" /\ row[call[c].id] = "done"
  /\ answer' = [answer EXCEPT ![call[c].id] = count[call[c].id]]
  /\ flag' = FALSE /\ offer
  /\ call' = [call EXCEPT ![c] = At("telling", None)]
  /\ UNCHANGED <<rowVars, active, writing, lost>>

StopFindsNothing(c) ==
  /\ call[c].at = "closed" /\ row[call[c].id] = "deleted"
  /\ call' = [call EXCEPT ![c] = Idle]
  /\ UNCHANGED <<rowVars, active, samples, queue, writing, flag, histVars>>

\* delete_recording: refused for the active recording only.
Delete(r) ==
  /\ row[r] \in {"recording", "done"} /\ active # r
  /\ row' = [row EXCEPT ![r] = "deleted"] /\ stored' = [stored EXCEPT ![r] = 0]
  /\ UNCHANGED <<count, active, samples, queue, writing, flag, call, histVars>>

\* The process ends, abandoning what is queued, and its successor's recover
\* closes the rows left open.  A row whose insertion was not committed is gone;
\* so is a sample not yet counted, unless another commit kept it.
RecRestart ==
  /\ \E kept \in SUBSET {r \in Row : \E c \in Caller : call[c] = At("inserted", r)} :
       row' = [r \in Row |-> IF ~Open(r) THEN row[r]
                              ELSE IF r \notin kept /\ \E c \in Caller : call[c] = At("inserted", r) THEN "deleted"
                              ELSE "done"]
  /\ \/ UNCHANGED stored
     \/ writing.step = "count" /\ stored' = [stored EXCEPT ![writing.id] = IF @ > 0 THEN @ - 1 ELSE 0]
  /\ lost' = [r \in Row |-> accepted[r] - count[r]]
  /\ active' = None /\ samples' = 0 /\ queue' = <<>> /\ writing' = NoWrite /\ flag' = FALSE
  /\ call' = [c \in Caller |-> Idle]
  /\ UNCHANGED <<count, accepted, answer>>

WriterStep == Take \/ InsertSample \/ CountSample \/ WriteFails

\* A request has sent its frames and answered.
Told(c) ==
  /\ call[c].at = "telling"
  /\ call' = [call EXCEPT ![c] = Idle]
  /\ UNCHANGED <<rowVars, active, samples, queue, writing, flag, histVars>>

----------------------------------------------------------------------------
RecTypeOK ==
  /\ row \in [Row -> {"unused", "recording", "done", "deleted"}]
  /\ \A r \in Row : count[r] <= accepted[r] /\ answer[r] \in 0 .. Unanswered
  /\ active \in {None} \cup Row /\ samples \in 0 .. MaxSamples
  /\ queue \in Seq(Row) /\ Len(queue) <= Room
  /\ writing.id \in {None} \cup Row
  /\ flag \in BOOLEAN /\ call \in [Caller -> [at : {"idle", "looked", "inserted", "telling", "flushing", "closed"},
                                              id : {None} \cup Row]]

\* The sample_count a stop answers is final and accounts for every sample the
\* recorder accepted, and nothing is queued or written for a recording that is
\* done (recorder.py, stop and its flush; writer.py, join), whatever starts,
\* stops, restarts, failed writes or deletions happen around it.
StopCountsEverything ==
  \A r \in Row : row[r] = "done" =>
    /\ writing.id # r /\ \A i \in DOMAIN queue : queue[i] # r
    /\ answer[r] # Unanswered => count[r] = answer[r] /\ count[r] + lost[r] = accepted[r]

\* repo.py, start_recording: "returns None when one is already in progress".
OneOpenRow == Cardinality({r \in Row : Open(r)}) <= 1
=============================================================================
