--------------------------- MODULE RecordingProofs ---------------------------
(***************************************************************************)
(* Proofs about the server's telemetry side, for any number of requests,   *)
(* recordings, samples and connections: a recording that is done accounts  *)
(* for every sample the recorder accepted, a disconnection is told once,   *)
(* and a browser that has lost nothing catches up with the server.         *)
(***************************************************************************)
EXTENDS Dashboard, SequenceLemmas, WellFoundedInduction

Calls == [at : {"idle", "looked", "inserted", "telling", "flushing", "closed"}, id : {None} \cup Row]
Writes == [id : Row, step : {"insert", "count"}]

RowTypes ==
  /\ row \in [Row -> {"unused", "recording", "done", "deleted"}]
  /\ count \in [Row -> Nat] /\ stored \in [Row -> Nat]
  /\ accepted \in [Row -> Nat] /\ lost \in [Row -> Nat]
  /\ answer \in [Row -> 0 .. Unanswered]

QueueTypes ==
  /\ active \in {None} \cup Row /\ samples \in 0 .. MaxSamples
  /\ queue \in Seq(Row) /\ Len(queue) <= Room
  /\ writing \in Writes \cup {NoWrite} /\ flag \in BOOLEAN

CallTypes == call \in [Caller -> Calls]

RecTypes == RowTypes /\ QueueTypes /\ CallTypes

\* Which request is concerned with which recording, and what became of it.
CallFits(c) ==
  /\ call[c].at \in {"idle", "looked", "telling"} => call[c].id = None
  /\ call[c].at \in {"inserted", "flushing"} => call[c].id \in Row /\ row[call[c].id] \in {"recording", "deleted"}
  /\ call[c].at = "closed" => call[c].id \in Row /\ row[call[c].id] \in {"done", "deleted"}

\* A recording is the recorder's or one request's at a time.
Owned ==
  /\ \A c \in Caller : CallFits(c)
  /\ \A c, d \in Caller : c # d /\ call[c].id = call[d].id => call[c].id = None
  /\ active # None => row[active] = "recording" /\ \A c \in Caller : call[c].id # active

\* Samples of a recording the writer still has.
Waiting(r) == Occurrences(queue, r) + (IF writing.id = r THEN 1 ELSE 0)

Begun(r) == row[r] # "unused" /\ ~\E c \in Caller : call[c] = At("inserted", r)

\* Every accepted sample is counted, lost or with the writer; of a deleted
\* recording some are neither.
Sums(r) ==
  /\ accepted[r] <= MaxSamples /\ (active = r => accepted[r] = samples)
  /\ count[r] + lost[r] + Waiting(r) <= accepted[r]
  /\ row[r] # "deleted" => count[r] + lost[r] + Waiting(r) = accepted[r]
  /\ row[r] = "done" => Waiting(r) = 0

\* What a request answered of it is what the row says.
Balanced(r) ==
  /\ Sums(r)
  /\ ~Begun(r) => accepted[r] = 0
  /\ answer[r] # Unanswered => row[r] \in {"done", "deleted"} /\ (row[r] = "done" => count[r] = answer[r])

Counted == \A r \in Row : Balanced(r)

RecInv == RecTypes /\ Owned /\ Counted
----------------------------------------------------------------------------
(* What the steps of the server are to the recorder.                       *)

\* The steps that answer a request or move it on.
CallStep(c) ==
  StartLooks(c) \/ StartInserts(c) \/ StartBegins(c) \/ StartFindsNothing(c)
    \/ StopClears(c) \/ StopFlushes(c) \/ StopAnswers(c) \/ StopFindsNothing(c) \/ Told(c)

\* Every step of the server concerns the recorder in one of these ways, or not.
LEMMA StepIs ==
  ASSUME [Next]_vars
  PROVE  \/ UNCHANGED recVars
         \/ offer /\ UNCHANGED recIdle
         \/ WriterStep \/ RecRestart
         \/ \E r \in Row : Delete(r)
         \/ \E c \in Caller : CallStep(c)
<1>1. UNCHANGED vars => UNCHANGED recVars
  BY DEF vars
<1>2. RecorderStep => \/ WriterStep \/ (\E r \in Row : Delete(r)) \/ \E c \in Caller : CallStep(c)
  BY DEF RecorderStep, Request, StartRequest, Tell, Answer, CallStep
<1>3. Restart => RecRestart
  BY DEF Restart
<1>4. ASSUME NEW h, NEW state, NEW a, NEW b, Announce(h, state, a, b)
      PROVE  offer \/ UNCHANGED <<queue, samples, accepted>>
  BY <1>4 DEF Announce
<1>5. ASSUME NEW h, NEW state, NEW p, NEW a, NEW b, Apply(h, state, p, a, b)
      PROVE  offer \/ UNCHANGED <<queue, samples, accepted>>
  BY <1>4, <1>5 DEF Apply
<1>6. UNCHANGED <<queue, samples, accepted>> /\ UNCHANGED recIdle => UNCHANGED recVars
  BY DEF recIdle, recVars, rowVars
<1>7. ASSUME NEW h, NEW p, NEW a, NEW b, Persisted(h, p, a, b)
      PROVE  (offer \/ UNCHANGED <<queue, samples, accepted>>) /\ UNCHANGED recIdle
  BY <1>4, <1>7 DEF Persisted
<1>8. RobotStep => UNCHANGED recVars \/ (offer /\ UNCHANGED recIdle)
  BY DEF RobotStep, Reading, Heartbeat
<1>9. MonitorStep => UNCHANGED recVars \/ (offer /\ UNCHANGED recIdle)
  BY <1>5, <1>6, <1>7 DEF MonitorStep, Tick, Settled
<1>10. ASSUME NEW h PROVE Gateway(h) => UNCHANGED recVars \/ (offer /\ UNCHANGED recIdle)
  BY <1>5, <1>6, <1>7 DEF Gateway, Swap, Capabilities, Leave, Settled
<1>11. SessionStep => UNCHANGED recVars \/ (offer /\ UNCHANGED recIdle)
  BY <1>9, <1>10 DEF SessionStep, Hello, Hangup, Quiet
<1>12. BrowserStep => UNCHANGED recVars
  BY DEF BrowserStep, Join, Joins, Send, Closes
<1> QED BY <1>1, <1>2, <1>3, <1>8, <1>11, <1>12 DEF Next

----------------------------------------------------------------------------
(* Submitting a sample.                                                    *)

\* Mostly submit: one sample more is queued for r and accepted, or nothing is.
LEMMA SubmitIs ==
  ASSUME RecTypes, NEW r \in Row, submit(r)
  PROVE  \E d \in {0, 1} :
           /\ queue' \in Seq(Row) /\ Len(queue') <= Room /\ Len(queue') - Len(queue) = d
           /\ accepted' = [accepted EXCEPT ![r] = accepted[r] + d]
           /\ \A o \in Row : Occurrences(queue', o) = IF o = r THEN Occurrences(queue, o) + d ELSE Occurrences(queue, o)
<1>0. queue \in Seq(Row) /\ Len(queue) \in Nat /\ Room \in Nat /\ accepted \in [Row -> Nat] /\ Len(queue) <= Room
  BY RecordingAssumption DEF RecTypes, QueueTypes, RowTypes
<1>1. /\ queue' = IF Len(queue) < Room THEN Append(queue, r) ELSE queue
      /\ accepted' = [accepted EXCEPT ![r] = accepted[r] + Len(queue') - Len(queue)]
  BY DEF submit, Submitted
<1>2. CASE Len(queue) < Room
  <2>1. queue' \in Seq(Row) /\ Len(queue') = Len(queue) + 1
    BY <1>0, <1>1, <1>2, AppendOne
  <2>2. \A o \in Row : Occurrences(queue', o) = IF o = r THEN Occurrences(queue, o) + 1 ELSE Occurrences(queue, o)
    BY <1>0, <1>1, <1>2, OccurrencesAppend
  <2>3. accepted[r] + Len(queue') - Len(queue) = accepted[r] + 1 /\ Len(queue') - Len(queue) = 1 /\ Len(queue') <= Room
    BY <1>0, <1>2, <2>1
  <2> QED BY <1>1, <2>1, <2>2, <2>3
<1>3. CASE ~(Len(queue) < Room)
  <2>1. queue' = queue /\ accepted[r] + Len(queue') - Len(queue) = accepted[r] + 0 /\ Len(queue') - Len(queue) = 0
    BY <1>0, <1>1, <1>3
  <2>2. accepted' = [accepted EXCEPT ![r] = accepted[r] + 0]
    BY <1>1, <2>1
  <2>3. \A o \in Row : Occurrences(queue, o) + 0 = Occurrences(queue, o)
    <3> SUFFICES ASSUME NEW o \in Row PROVE Occurrences(queue, o) + 0 = Occurrences(queue, o)
      OBVIOUS
    <3>1. Occurrences(queue, o) \in Nat
      BY <1>0, OccurrencesAre
    <3> QED BY <3>1
  <2> QED BY <1>0, <2>1, <2>2, <2>3
<1> QED BY <1>2, <1>3

\* offer is a submission for the active recording, or nothing.
LEMMA OfferIs ==
  ASSUME RecTypes, offer
  PROVE  \/ UNCHANGED <<queue, samples, accepted>>
         \/ active \in Row /\ samples < MaxSamples /\ submit(active) /\ samples' = samples + (Len(queue') - Len(queue))
<1>1. samples \in Nat /\ MaxSamples \in Nat /\ active \in {None} \cup Row
  BY RecordingAssumption DEF RecTypes, QueueTypes
<1>2. CASE active = None \/ samples >= MaxSamples
  BY <1>2 DEF offer
<1>3. CASE active \in Row /\ samples < MaxSamples
  <2>1. submit(active) /\ samples' = samples + Len(queue') - Len(queue)
    BY <1>1, <1>3, RecordingAssumption DEF offer, None, Row
  <2>2. \E d \in {0, 1} : Len(queue') \in Nat /\ Len(queue) \in Nat
    BY <1>3, <2>1, SubmitIs DEF RecTypes, QueueTypes
  <2> QED BY <1>1, <1>3, <2>1, <2>2
<1> QED BY <1>1, <1>2, <1>3

\* What the writer has of a recording is a number.
LEMMA WaitingIs ==
  ASSUME QueueTypes, NEW r \in Row
  PROVE  /\ Occurrences(queue, r) \in Nat /\ Waiting(r) \in Nat
         /\ Waiting(r) = IF writing.id = r THEN Occurrences(queue, r) + 1 ELSE Occurrences(queue, r)
<1>1. Occurrences(queue, r) \in Nat
  BY OccurrencesAre DEF QueueTypes
<1> QED BY <1>1 DEF Waiting

\* One sample accepted leaves every balance as it was.
LEMMA SubmitBalances ==
  ASSUME RecTypes, NEW r \in Row, submit(r), writing' = writing
  PROVE  \E d \in {0, 1} :
           /\ queue' \in Seq(Row) /\ Len(queue') <= Room /\ Len(queue') - Len(queue) = d
           /\ accepted' \in [Row -> Nat]
           /\ \A o \in Row : /\ Waiting(o)' = IF o = r THEN Waiting(o) + d ELSE Waiting(o)
                             /\ accepted'[o] = IF o = r THEN accepted[o] + d ELSE accepted[o]
                             /\ Waiting(o) \in Nat
<1>1. PICK d \in {0, 1} :
           /\ queue' \in Seq(Row) /\ Len(queue') <= Room /\ Len(queue') - Len(queue) = d
           /\ accepted' = [accepted EXCEPT ![r] = accepted[r] + d]
           /\ \A o \in Row : Occurrences(queue', o) = IF o = r THEN Occurrences(queue, o) + d ELSE Occurrences(queue, o)
  BY SubmitIs
<1>2. accepted \in [Row -> Nat]
  BY DEF RecTypes, RowTypes
<1>3. ASSUME NEW o \in Row
      PROVE  Waiting(o)' = (IF o = r THEN Waiting(o) + d ELSE Waiting(o)) /\ Waiting(o) \in Nat
  <2>1. Waiting(o)' = Occurrences(queue', o) + (IF writing.id = o THEN 1 ELSE 0)
    BY DEF Waiting
  <2>2. Waiting(o) = Occurrences(queue, o) + (IF writing.id = o THEN 1 ELSE 0) /\ Occurrences(queue, o) \in Nat
    BY WaitingIs DEF RecTypes, Waiting
  <2> QED BY <1>1, <2>1, <2>2
<1>4. accepted' \in [Row -> Nat] /\ \A o \in Row : accepted'[o] = IF o = r THEN accepted[o] + d ELSE accepted[o]
  BY <1>1, <1>2
<1> QED BY <1>1, <1>3, <1>4

----------------------------------------------------------------------------
\* A server that starts has recorded nothing.
LEMMA InitRec == Init => RecInv
<1> SUFFICES ASSUME Init PROVE RecInv
  OBVIOUS
<1>1. RecInit
  BY DEF Init
<1>2. MaxSamples \in Nat /\ Room \in Nat /\ Rows \in Nat /\ None \notin Row
  BY RecordingAssumption DEF None, Row
<1>3. RecTypes
  <2>1. RowTypes
    BY <1>1, <1>2 DEF RecInit, RowTypes, Unanswered
  <2>2. QueueTypes
    <3>1. flag \in BOOLEAN /\ queue \in Seq(Row) /\ Len(queue) <= Room
      <4>1. flag \in BOOLEAN
        BY <1>1 DEF RecInit
      <4>2. queue = <<>> /\ Room >= 0
        BY <1>1, <1>2 DEF RecInit
      <4> QED BY <1>2, <4>1, <4>2
    <3> QED BY <1>1, <1>2, <3>1 DEF RecInit, QueueTypes
  <2>3. CallTypes
    BY <1>1 DEF RecInit, CallTypes, Calls, Idle
  <2> QED BY <2>1, <2>2, <2>3 DEF RecTypes
<1>4. Owned
  BY <1>1 DEF RecInit, Owned, CallFits, Idle
<1>5. Counted
  <2> SUFFICES ASSUME NEW r \in Row PROVE Balanced(r)
    BY DEF Counted
  <2>1. Occurrences(queue, r) = 0
    <3>1. queue \in Seq(Row) /\ DOMAIN queue = {}
      BY <1>1 DEF RecInit
    <3> QED BY <3>1, OccurrencesAre
  <2>2. Waiting(r) = 0
    BY <1>1, <1>2, <2>1 DEF RecInit, Waiting, NoWrite
  <2>3. count[r] = 0 /\ lost[r] = 0 /\ accepted[r] = 0 /\ answer[r] = Unanswered /\ row[r] = "unused" /\ active # r
    BY <1>1, <1>2 DEF RecInit
  <2> QED BY <1>2, <2>2, <2>3 DEF Balanced, Sums
<1> QED BY <1>3, <1>4, <1>5 DEF RecInv

----------------------------------------------------------------------------
(* Every step keeps the balance.                                           *)

\* A sample offered is accepted for the active recording, or for none.
LEMMA OfferBalances ==
  ASSUME RecInv, offer, UNCHANGED <<row, count, active, writing, lost>>
  PROVE  /\ queue' \in Seq(Row) /\ Len(queue') <= Room /\ samples' \in 0 .. MaxSamples
         /\ accepted' \in [Row -> Nat]
         /\ \A o \in Row : Sums(o)' /\ (o # active => accepted'[o] = accepted[o])
<1>1. RecTypes /\ RowTypes /\ QueueTypes /\ Owned /\ Counted
  BY DEF RecInv, RecTypes
<1>2. \A o \in Row : count[o] \in Nat /\ lost[o] \in Nat /\ accepted[o] \in Nat /\ Sums(o)
  BY <1>1 DEF RowTypes, Counted, Balanced
<1>3. CASE UNCHANGED <<queue, samples, accepted>>
  <2>1. \A o \in Row : Waiting(o)' = Waiting(o)
    BY <1>3 DEF Waiting, Occurrences
  <2>2. \A o \in Row : Sums(o)'
    BY <1>2, <1>3, <2>1 DEF Sums
  <2> QED BY <1>1, <1>3, <2>2 DEF RowTypes, QueueTypes
<1>4. CASE active \in Row /\ samples < MaxSamples /\ submit(active) /\ samples' = samples + (Len(queue') - Len(queue))
  <2>1. PICK d \in {0, 1} :
           /\ queue' \in Seq(Row) /\ Len(queue') <= Room /\ Len(queue') - Len(queue) = d
           /\ accepted' \in [Row -> Nat]
           /\ \A o \in Row : /\ Waiting(o)' = IF o = active THEN Waiting(o) + d ELSE Waiting(o)
                             /\ accepted'[o] = IF o = active THEN accepted[o] + d ELSE accepted[o]
                             /\ Waiting(o) \in Nat
    BY <1>1, <1>4, SubmitBalances
  <2>2. samples \in Nat /\ MaxSamples \in Nat /\ samples' = samples + d /\ samples' \in 0 .. MaxSamples
    <3>1. samples' = samples + d
      BY <1>4, <2>1
    <3>2. samples \in Nat /\ MaxSamples \in Nat
      BY <1>1, RecordingAssumption DEF QueueTypes
    <3> QED BY <1>4, <3>1, <3>2
  <2>3. ASSUME NEW o \in Row PROVE Sums(o)' /\ (o # active => accepted'[o] = accepted[o])
    <3>1. CASE o = active
      <4>1. row[o] = "recording"
        BY <1>1, <1>4, <3>1, RecordingAssumption DEF Owned, Row, None
      <4>2. /\ accepted'[o] = accepted[o] + d /\ Waiting(o)' = Waiting(o) + d /\ Waiting(o) \in Nat
            /\ accepted[o] = samples /\ count[o] + lost[o] + Waiting(o) = accepted[o]
        BY <1>2, <2>1, <3>1, <4>1 DEF Sums
      <4>3. /\ accepted'[o] <= MaxSamples /\ accepted'[o] = samples' /\ accepted'[o] \in Nat
            /\ count[o] + lost[o] + Waiting(o)' = accepted'[o]
        BY <1>2, <2>2, <4>2
      <4> QED BY <3>1, <4>1, <4>3 DEF Sums
    <3>2. CASE o # active
      BY <1>2, <2>1, <3>2 DEF Sums
    <3> QED BY <3>1, <3>2
  <2> QED BY <2>1, <2>2, <2>3
<1> QED BY <1>1, <1>3, <1>4, OfferIs

\* A frame of the robot offered to the recorder (Recorder.offer).
LEMMA OfferKeeps ==
  ASSUME RecInv, offer, UNCHANGED recIdle
  PROVE  RecInv'
<1>1. RowTypes /\ QueueTypes /\ CallTypes /\ Owned /\ Counted
  BY DEF RecInv, RecTypes
<1>2. UNCHANGED <<row, count, stored, active, writing, flag, call, lost, answer>>
  BY DEF recIdle, rowVars
<1>3. Owned' /\ CallTypes' /\ \A o \in Row : Begun(o)' = Begun(o)
  BY <1>1, <1>2 DEF Owned, CallFits, CallTypes, Begun
<1>4. /\ queue' \in Seq(Row) /\ Len(queue') <= Room /\ samples' \in 0 .. MaxSamples
      /\ accepted' \in [Row -> Nat]
      /\ \A o \in Row : Sums(o)' /\ (o # active => accepted'[o] = accepted[o])
  BY <1>2, OfferBalances
<1>5. RowTypes' /\ QueueTypes'
  BY <1>1, <1>2, <1>4 DEF RowTypes, QueueTypes
<1>6. active \in Row => Begun(active)
  BY <1>1, RecordingAssumption DEF Owned, Begun, At, Row, None
<1>7. Counted'
  BY <1>1, <1>2, <1>3, <1>4, <1>6 DEF Counted, Balanced
<1> QED BY <1>3, <1>5, <1>7 DEF RecInv, RecTypes

\* The writer: what it takes from the queue it counts or loses.
LEMMA WriterKeeps ==
  ASSUME RecInv, WriterStep
  PROVE  RecInv'
<1>1. RecTypes /\ RowTypes /\ QueueTypes /\ CallTypes /\ Owned /\ Counted
  BY DEF RecInv, RecTypes
<1>2. UNCHANGED <<row, active, samples, flag, call, accepted, answer>>
  BY DEF WriterStep, Take, InsertSample, CountSample, WriteFails, rowVars, histVars
<1>3. Owned' /\ CallTypes' /\ \A o \in Row : Begun(o)' = Begun(o)
  BY <1>1, <1>2 DEF Owned, CallFits, CallTypes, Begun
<1>4. NoWrite.id \notin Row /\ NoWrite.step = "none"
  BY DEF NoWrite, None, Row
<1>5. CASE Take
  <2>1. writing = NoWrite /\ queue # <<>> /\ writing' = [id |-> Head(queue), step |-> "insert"] /\ queue' = Tail(queue)
        /\ UNCHANGED <<count, stored, lost>>
    BY <1>5 DEF Take, rowVars, histVars
  <2>2. Head(queue) \in Row /\ queue' \in Seq(Row) /\ Len(queue') = Len(queue) - 1 /\ Len(queue) \in Nat
    BY <1>1, <2>1, TakeFirst DEF QueueTypes
  <2>3. RowTypes' /\ QueueTypes'
    BY <1>1, <1>2, <2>1, <2>2, RecordingAssumption DEF RowTypes, QueueTypes, Writes
  <2>4. ASSUME NEW o \in Row PROVE Waiting(o)' = Waiting(o)
    <3>1. Occurrences(queue, o) = IF o = Head(queue) THEN Occurrences(queue', o) + 1 ELSE Occurrences(queue', o)
      BY <1>1, <2>1, OccurrencesTail DEF QueueTypes
    <3>2. Occurrences(queue', o) \in Nat
      BY <2>2, OccurrencesAre
    <3>3. writing.id # o /\ (writing'.id = o <=> o = Head(queue))
      BY <1>4, <2>1
    <3>4. Waiting(o)' = Occurrences(queue', o) + (IF writing'.id = o THEN 1 ELSE 0)
      BY DEF Waiting
    <3> QED BY <3>1, <3>2, <3>3, <3>4 DEF Waiting
  <2>5. Counted'
    BY <1>1, <1>2, <1>3, <2>1, <2>4 DEF Counted, Balanced, Sums
  <2> QED BY <1>3, <2>3, <2>5 DEF RecInv, RecTypes
<1>6. CASE ~Take
  <2>1. writing \in Writes /\ queue' = queue /\ writing.id \in Row
    BY <1>1, <1>4, <1>6 DEF WriterStep, InsertSample, CountSample, WriteFails, QueueTypes, Writes
  <2>2. ASSUME NEW o \in Row
        PROVE  /\ Occurrences(queue, o) \in Nat
               /\ Waiting(o) = IF o = writing.id THEN Occurrences(queue, o) + 1 ELSE Occurrences(queue, o)
               /\ Waiting(o)' = IF o = writing'.id THEN Occurrences(queue, o) + 1 ELSE Occurrences(queue, o)
    <3>1. Waiting(o)' = Occurrences(queue, o) + (IF writing'.id = o THEN 1 ELSE 0)
      BY <2>1 DEF Waiting
    <3>2. Occurrences(queue, o) \in Nat
      BY <1>1, WaitingIs
    <3> QED BY <3>1, <3>2 DEF Waiting
  <2>3. \A o \in Row : count[o] \in Nat /\ lost[o] \in Nat /\ accepted[o] \in Nat /\ Balanced(o)
    BY <1>1 DEF RowTypes, Counted
  <2>4. CASE InsertSample
    <3>1. writing' \in Writes /\ writing'.id = writing.id
      BY <2>1, <2>4 DEF InsertSample, Writes
    <3>2. UNCHANGED <<count, lost>> /\ stored' \in [Row -> Nat]
      BY <1>1, <2>1, <2>4 DEF InsertSample, histVars, RowTypes
    <3>3. RowTypes' /\ QueueTypes'
      BY <1>1, <1>2, <2>1, <3>1, <3>2 DEF RowTypes, QueueTypes
    <3>4. Counted'
      BY <1>2, <1>3, <2>2, <2>3, <3>1, <3>2 DEF Counted, Balanced, Sums
    <3> QED BY <1>3, <3>3, <3>4 DEF RecInv, RecTypes
  <2>5. CASE CountSample
    <3>1. writing' = NoWrite /\ UNCHANGED <<lost, stored>>
      BY <2>5 DEF CountSample, histVars
    <3>2. count' \in [Row -> Nat] /\ \A o \in Row : count'[o] = IF o = writing.id /\ row[o] # "deleted" THEN count[o] + 1 ELSE count[o]
      BY <1>1, <2>1, <2>5 DEF CountSample, RowTypes
    <3>3. RowTypes' /\ QueueTypes'
      BY <1>1, <1>2, <2>1, <3>1, <3>2 DEF RowTypes, QueueTypes
    <3>4. Counted'
      <4> SUFFICES ASSUME NEW o \in Row PROVE Balanced(o)'
        BY DEF Counted
      <4>1. Waiting(o)' = Occurrences(queue, o)
        BY <1>4, <2>2, <3>1
      <4> QED BY <1>2, <1>3, <2>2, <2>3, <3>1, <3>2, <4>1 DEF Balanced, Sums
    <3> QED BY <1>3, <3>3, <3>4 DEF RecInv, RecTypes
  <2>6. CASE WriteFails
    <3>1. writing' = NoWrite /\ UNCHANGED <<count, stored>>
      BY <2>6 DEF WriteFails, rowVars
    <3>2. lost' \in [Row -> Nat] /\ \A o \in Row : lost'[o] = IF o = writing.id THEN lost[o] + 1 ELSE lost[o]
      BY <1>1, <2>1, <2>6 DEF WriteFails, RowTypes
    <3>3. RowTypes' /\ QueueTypes'
      BY <1>1, <1>2, <2>1, <3>1, <3>2 DEF RowTypes, QueueTypes
    <3>4. Counted'
      <4> SUFFICES ASSUME NEW o \in Row PROVE Balanced(o)'
        BY DEF Counted
      <4>1. Waiting(o)' = Occurrences(queue, o)
        BY <1>4, <2>2, <3>1
      <4> QED BY <1>2, <1>3, <2>2, <2>3, <3>1, <3>2, <4>1 DEF Balanced, Sums
    <3> QED BY <1>3, <3>3, <3>4 DEF RecInv, RecTypes
  <2> QED BY <1>6, <2>4, <2>5, <2>6 DEF WriterStep
<1> QED BY <1>5, <1>6

\* A deleted recording may have samples that were counted nowhere.
LEMMA DeleteKeeps ==
  ASSUME RecInv, NEW r \in Row, Delete(r)
  PROVE  RecInv'
<1>1. RowTypes /\ QueueTypes /\ CallTypes /\ Owned /\ Counted
  BY DEF RecInv, RecTypes
<1>2. /\ row[r] \in {"recording", "done"} /\ active # r
      /\ row' = [row EXCEPT ![r] = "deleted"] /\ stored' = [stored EXCEPT ![r] = 0]
      /\ UNCHANGED <<count, active, samples, queue, writing, flag, call, accepted, lost, answer>>
  BY DEF Delete, histVars
<1>3. \A o \in Row : row'[o] = IF o = r THEN "deleted" ELSE row[o]
  BY <1>1, <1>2 DEF RowTypes
<1>4. RowTypes' /\ QueueTypes' /\ CallTypes'
  BY <1>1, <1>2 DEF RowTypes, QueueTypes, CallTypes
<1>5. Owned'
  <2>1. ASSUME NEW c \in Caller PROVE CallFits(c)'
    <3>1. CallFits(c)
      BY <1>1 DEF Owned
    <3> QED BY <1>2, <1>3, <3>1 DEF CallFits
  <2>2. active # None => active \in Row
    BY <1>1 DEF QueueTypes
  <2> QED BY <1>1, <1>2, <1>3, <2>1, <2>2 DEF Owned
<1>6. \A o \in Row : Waiting(o)' = Waiting(o)
  BY <1>2 DEF Waiting, Occurrences
<1>7. \A o \in Row : Begun(o)' = Begun(o)
  BY <1>2, <1>3 DEF Begun
<1>8. ASSUME NEW o \in Row PROVE Balanced(o)'
  <2>1. Balanced(o)
    BY <1>1 DEF Counted
  <2> QED BY <1>2, <1>3, <1>6, <1>7, <2>1 DEF Balanced, Sums
<1> QED BY <1>4, <1>5, <1>8 DEF RecInv, RecTypes, Counted

\* A restart loses what was not counted, and closes what was open.
LEMMA RestartKeeps ==
  ASSUME RecInv, RecRestart
  PROVE  RecInv'
<1>1. RowTypes /\ QueueTypes /\ CallTypes /\ Owned /\ Counted
  BY DEF RecInv, RecTypes
<1>2. MaxSamples \in Nat /\ Room \in Nat /\ None \notin Row
  BY RecordingAssumption DEF None, Row
<1>3. /\ lost' = [r \in Row |-> accepted[r] - count[r]]
      /\ active' = None /\ samples' = 0 /\ queue' = <<>> /\ writing' = NoWrite /\ flag' = FALSE
      /\ call' = [c \in Caller |-> Idle]
      /\ UNCHANGED <<count, accepted, answer>>
  BY DEF RecRestart
<1>4. /\ row' \in [Row -> {"unused", "recording", "done", "deleted"}]
      /\ \A r \in Row : row'[r] = IF Open(r) THEN row'[r] ELSE row[r]
      /\ \A r \in Row : Open(r) => row'[r] \in {"done", "deleted"}
  <2>1. PICK kept \in SUBSET {r \in Row : \E c \in Caller : call[c] = At("inserted", r)} :
          row' = [r \in Row |-> IF ~Open(r) THEN row[r]
                                 ELSE IF r \notin kept /\ \E c \in Caller : call[c] = At("inserted", r) THEN "deleted"
                                 ELSE "done"]
    BY DEF RecRestart
  <2>2. ASSUME NEW r \in Row
        PROVE  row'[r] = IF ~Open(r) THEN row[r]
                         ELSE IF r \notin kept /\ \E c \in Caller : call[c] = At("inserted", r) THEN "deleted"
                         ELSE "done"
    BY <2>1
  <2>3. ASSUME NEW r \in Row PROVE row'[r] \in {"unused", "recording", "done", "deleted"}
    BY <1>1, <2>2 DEF RowTypes
  <2>4. row' = [r \in Row |-> row'[r]]
    BY <2>1
  <2> QED BY <2>2, <2>3, <2>4
<1>5. stored' \in [Row -> Nat]
  <2>1. CASE UNCHANGED stored
    BY <1>1, <2>1 DEF RowTypes
  <2>2. CASE writing.step = "count" /\ stored' = [stored EXCEPT ![writing.id] = IF @ > 0 THEN @ - 1 ELSE 0]
    <3>1. writing.id \in Row
      BY <1>1, <2>2 DEF QueueTypes, Writes, NoWrite
    <3>2. stored[writing.id] \in Nat
      BY <1>1, <3>1 DEF RowTypes
    <3> QED BY <1>1, <2>2, <3>1, <3>2 DEF RowTypes
  <2> QED BY <2>1, <2>2 DEF RecRestart
<1>6. ASSUME NEW r \in Row
      PROVE  /\ count[r] \in Nat /\ accepted[r] \in Nat /\ lost[r] \in Nat /\ Waiting(r) \in Nat
             /\ count[r] + lost[r] + Waiting(r) <= accepted[r] /\ lost'[r] = accepted[r] - count[r]
             /\ lost'[r] \in Nat
  <2>1. count[r] \in Nat /\ accepted[r] \in Nat /\ lost[r] \in Nat /\ Waiting(r) \in Nat
    BY <1>1, WaitingIs DEF RowTypes
  <2>2. count[r] + lost[r] + Waiting(r) <= accepted[r]
    BY <1>1 DEF Counted, Balanced, Sums
  <2> QED BY <1>3, <2>1, <2>2
<1>7. RowTypes'
  <2>1. lost' \in [Row -> Nat]
    BY <1>3, <1>6
  <2> QED BY <1>1, <1>3, <1>4, <1>5, <2>1 DEF RowTypes
<1>8. QueueTypes' /\ CallTypes'
  <2>1. flag' \in BOOLEAN
    BY <1>3
  <2>2. queue' \in Seq(Row) /\ Len(queue') <= Room
    BY <1>2, <1>3
  <2> QED BY <1>2, <1>3, <2>1, <2>2 DEF QueueTypes, CallTypes, Calls, Idle
<1>9. Owned'
  BY <1>2, <1>3 DEF Owned, CallFits, Idle
<1>10. ASSUME NEW r \in Row PROVE Balanced(r)'
  <2>1. Waiting(r)' = 0
    <3>1. queue' \in Seq(Row) /\ DOMAIN queue' = {}
      BY <1>3
    <3>2. Occurrences(queue', r) = 0
      BY <3>1, OccurrencesAre
    <3>3. Waiting(r)' = Occurrences(queue', r) + (IF writing'.id = r THEN 1 ELSE 0)
      BY DEF Waiting
    <3> QED BY <1>2, <1>3, <3>2, <3>3 DEF NoWrite
  <2>2. Balanced(r)
    BY <1>1 DEF Counted
  <2>3. Begun(r) => Begun(r)'
    BY <1>3, <1>4 DEF Begun, Idle, At, Open
  <2>4. Sums(r)'
    BY <1>2, <1>3, <1>6, <2>1, <2>2 DEF Balanced, Sums
  <2>5. row[r] \in {"done", "deleted"} => row'[r] = row[r]
    BY <1>4 DEF Open
  <2>6. answer[r] # Unanswered => row'[r] \in {"done", "deleted"} /\ (row'[r] = "done" => count[r] = answer[r])
    BY <2>2, <2>5 DEF Balanced
  <2> QED BY <1>3, <2>2, <2>3, <2>4, <2>6 DEF Balanced
<1> QED BY <1>7, <1>8, <1>9, <1>10 DEF RecInv, RecTypes, Counted

----------------------------------------------------------------------------
(* The requests.                                                           *)

\* A request that only moves on, and lets go of the recording it had or keeps
\* one whose row it has seen or closed.
LEMMA RequestMoves ==
  ASSUME RecInv, NEW c \in Caller, NEW what \in Calls, call' = [call EXCEPT ![c] = what],
         UNCHANGED <<row, count, stored, samples, queue, writing, flag, accepted, lost, answer>>,
         active' \in {None, active},
         what.id = None \/ (active' # active /\ what = At("flushing", active)),
         what.at \in {"idle", "looked", "telling", "flushing"}, what.at = "flushing" => what.id # None
  PROVE  RecInv'
<1>1. RowTypes /\ QueueTypes /\ CallTypes /\ Owned /\ Counted
  BY DEF RecInv, RecTypes
<1>2. None \notin Row
  BY RecordingAssumption DEF None, Row
<1>3. \A o \in Caller : call'[o] = IF o = c THEN what ELSE call[o]
  BY <1>1 DEF CallTypes
<1>4. RowTypes' /\ QueueTypes' /\ CallTypes'
  BY <1>1 DEF RowTypes, QueueTypes, CallTypes
<1>5. what.id = None \/ (active' = None /\ active \in Row /\ what.id = active /\ what.at = "flushing" /\ row[active] = "recording")
  BY <1>1 DEF Owned, QueueTypes, At
<1>6. Owned'
  <2>1. ASSUME NEW o \in Caller PROVE CallFits(o)'
    <3>1. CASE o = c
      BY <1>1, <1>2, <1>3, <1>5, <3>1 DEF CallFits
    <3>2. CASE o # c
      BY <1>1, <1>3, <3>2 DEF CallFits, Owned
    <3> QED BY <3>1, <3>2
  <2>2. ASSUME NEW o \in Caller, NEW p \in Caller, o # p, call'[o].id = call'[p].id PROVE call'[o].id = None
    BY <1>1, <1>2, <1>3, <1>5, <2>2 DEF Owned
  <2>3. ASSUME active' # None
        PROVE  row'[active'] = "recording" /\ \A o \in Caller : call'[o].id # active'
    BY <1>1, <1>3, <1>5, <2>3 DEF Owned
  <2> QED BY <2>1, <2>2, <2>3 DEF Owned
<1>7. ASSUME NEW r \in Row PROVE Balanced(r)'
  <2>1. Waiting(r)' = Waiting(r)
    BY DEF Waiting, Occurrences
  <2>2. Begun(r) => Begun(r)'
    BY <1>3 DEF Begun, At
  <2>3. Balanced(r) /\ (active' = r => active = r)
    BY <1>1, <1>2 DEF Counted
  <2> QED BY <2>1, <2>2, <2>3 DEF Balanced, Sums
<1> QED BY <1>4, <1>6, <1>7 DEF RecInv, RecTypes, Counted

\* A request that moves on and touches no row.
LEMMA MovesKeep ==
  ASSUME RecInv, NEW c \in Caller,
         StartLooks(c) \/ StartFindsNothing(c) \/ StopClears(c) \/ StopFindsNothing(c) \/ Told(c)
  PROVE  RecInv'
<1>1. At("looked", None) \in Calls /\ Idle \in Calls
  BY DEF At, Idle, Calls
<1>2. CASE StartLooks(c)
  BY <1>1, <1>2, RequestMoves DEF StartLooks, rowVars, histVars, At
<1>3. CASE StartFindsNothing(c) \/ StopFindsNothing(c) \/ Told(c)
  BY <1>1, <1>3, RequestMoves DEF StartFindsNothing, StopFindsNothing, Told, rowVars, histVars, Idle
<1>4. CASE StopClears(c)
  <2>1. /\ active # None /\ active' = None /\ call' = [call EXCEPT ![c] = At("flushing", active)]
        /\ UNCHANGED <<row, count, stored, samples, queue, writing, flag, accepted, lost, answer>>
    BY <1>4 DEF StopClears, rowVars, histVars
  <2>2. At("flushing", active) \in Calls
    BY DEF RecInv, RecTypes, QueueTypes, At, Calls
  <2> QED BY <2>1, <2>2, RequestMoves DEF At
<1> QED BY <1>2, <1>3, <1>4

\* The row a request inserts has no sample yet.
LEMMA InsertKeeps ==
  ASSUME RecInv, NEW c \in Caller, StartInserts(c)
  PROVE  RecInv'
<1>1. RowTypes /\ QueueTypes /\ CallTypes /\ Owned /\ Counted
  BY DEF RecInv, RecTypes
<1>2. None \notin Row
  BY RecordingAssumption DEF None, Row
<1>3. PICK r \in Row : /\ row[r] = "unused" /\ row' = [row EXCEPT ![r] = "recording"]
                       /\ call' = [call EXCEPT ![c] = At("inserted", r)]
  BY DEF StartInserts
<1>4. UNCHANGED <<count, stored, active, samples, queue, writing, flag, accepted, lost, answer>>
  BY DEF StartInserts, histVars
<1>5. /\ \A o \in Row : row'[o] = IF o = r THEN "recording" ELSE row[o]
      /\ \A d \in Caller : call'[d] = IF d = c THEN At("inserted", r) ELSE call[d]
  BY <1>1, <1>3 DEF RowTypes, CallTypes
<1>6. RowTypes' /\ QueueTypes' /\ CallTypes'
  <2>1. At("inserted", r) \in Calls
    BY DEF At, Calls
  <2> QED BY <1>1, <1>3, <1>4, <2>1 DEF RowTypes, QueueTypes, CallTypes
<1>7. active # r /\ \A d \in Caller : call[d].id # r
  <2>1. active # r
    BY <1>1, <1>2, <1>3 DEF Owned
  <2>2. ASSUME NEW d \in Caller PROVE call[d].id # r
    <3>1. CallFits(d) /\ call[d].at \in {"idle", "looked", "inserted", "telling", "flushing", "closed"}
      BY <1>1 DEF Owned, CallTypes, Calls
    <3> QED BY <1>2, <1>3, <3>1 DEF CallFits
  <2> QED BY <2>1, <2>2
<1>8. Owned'
  <2>1. ASSUME NEW d \in Caller PROVE CallFits(d)'
    <3>1. CASE d = c
      BY <1>5, <3>1 DEF CallFits, At
    <3>2. CASE d # c
      BY <1>1, <1>3, <1>5, <1>7, <3>2 DEF CallFits, Owned
    <3> QED BY <3>1, <3>2
  <2>2. ASSUME NEW o \in Caller, NEW p \in Caller, o # p, call'[o].id = call'[p].id PROVE call'[o].id = None
    BY <1>1, <1>5, <1>7, <2>2 DEF Owned, At
  <2>3. ASSUME active' # None
        PROVE  row'[active'] = "recording" /\ \A o \in Caller : call'[o].id # active'
    <3>1. active \in Row
      BY <1>1, <1>4, <2>3 DEF QueueTypes
    <3> QED BY <1>1, <1>4, <1>5, <1>7, <2>3, <3>1 DEF Owned, At
  <2> QED BY <2>1, <2>2, <2>3 DEF Owned
<1>9. ASSUME NEW o \in Row PROVE Balanced(o)'
  <2>1. Waiting(o)' = Waiting(o) /\ Balanced(o)
    BY <1>1, <1>4 DEF Waiting, Occurrences, Counted
  <2>2. CASE o = r
    <3>1. ~Begun(o) /\ answer[o] = Unanswered
      BY <1>3, <2>1, <2>2 DEF Begun, Balanced
    <3> QED BY <1>3, <1>4, <1>5, <2>1, <2>2, <3>1 DEF Balanced, Sums
  <2>3. CASE o # r
    <3>1. Begun(o) => Begun(o)'
      BY <1>5, <2>3 DEF Begun, At
    <3> QED BY <1>4, <1>5, <2>1, <2>3, <3>1 DEF Balanced, Sums
  <2> QED BY <2>2, <2>3
<1> QED BY <1>6, <1>8, <1>9 DEF RecInv, RecTypes, Counted

\* The recorder takes the recording whose row the request has read back.
LEMMA BeginKeeps ==
  ASSUME RecInv, NEW c \in Caller, StartBegins(c)
  PROVE  RecInv'
<1> DEFINE r == call[c].id
<1>1. RecTypes /\ RowTypes /\ QueueTypes /\ CallTypes /\ Owned /\ Counted
  BY DEF RecInv, RecTypes
<1>2. None \notin Row /\ MaxSamples \in Nat
  BY RecordingAssumption DEF None, Row
<1>3. /\ call[c] = At("inserted", r) /\ r \in Row /\ row[r] = "recording"
  <2>1. call[c].at = "inserted" /\ Open(r) /\ call[c] \in Calls /\ CallFits(c)
    BY <1>1 DEF StartBegins, CallTypes, Owned
  <2> QED BY <2>1 DEF Calls, At, Open, CallFits
<1>4. /\ active' = r /\ flag' = TRUE /\ samples' = Len(queue') - Len(queue)
      /\ IF MaxSamples > 0 THEN submit(r) ELSE UNCHANGED <<queue, accepted>>
      /\ call' = [call EXCEPT ![c] = At("telling", None)]
      /\ UNCHANGED <<row, count, stored, writing, lost, answer>>
  BY DEF StartBegins, rowVars
<1>5. \A d \in Caller : call'[d] = IF d = c THEN At("telling", None) ELSE call[d]
  BY <1>1, <1>4 DEF CallTypes
<1> HIDE DEF r
<1>6. ~Begun(r) /\ \A d \in Caller : d # c => call[d].id # r
  <2>1. call[c].id = r
    BY DEF r
  <2> QED BY <1>1, <1>2, <1>3, <2>1 DEF Begun, Owned
<1>7. CallTypes'
  <2>1. At("telling", None) \in Calls
    BY DEF At, Calls
  <2> QED BY <1>1, <1>4, <2>1 DEF CallTypes
<1>8. Owned'
  <2>1. ASSUME NEW d \in Caller PROVE CallFits(d)'
    <3>1. CASE d = c
      BY <1>5, <3>1 DEF CallFits, At
    <3>2. CASE d # c
      BY <1>1, <1>4, <1>5, <3>2 DEF CallFits, Owned
    <3> QED BY <3>1, <3>2
  <2>2. ASSUME NEW o \in Caller, NEW p \in Caller, o # p, call'[o].id = call'[p].id PROVE call'[o].id = None
    BY <1>1, <1>5, <2>2 DEF Owned, At
  <2>3. row'[active'] = "recording" /\ \A o \in Caller : call'[o].id # active'
    BY <1>2, <1>3, <1>4, <1>5, <1>6 DEF At
  <2> QED BY <2>1, <2>2, <2>3 DEF Owned
\* r has at most one sample, accepted in this step; the others have what they had.
<1>9. \E d \in {0, 1} :
        /\ queue' \in Seq(Row) /\ Len(queue') <= Room /\ samples' = d /\ d <= MaxSamples
        /\ accepted' \in [Row -> Nat]
        /\ \A o \in Row : /\ Waiting(o)' = IF o = r THEN Waiting(o) + d ELSE Waiting(o)
                          /\ accepted'[o] = IF o = r THEN accepted[o] + d ELSE accepted[o]
                          /\ Waiting(o) \in Nat
  <2>1. CASE MaxSamples > 0
    <3>1. submit(r) /\ writing' = writing
      BY <1>4, <2>1
    <3> QED BY <1>1, <1>2, <1>3, <1>4, <2>1, <3>1, SubmitBalances
  <2>2. CASE ~(MaxSamples > 0)
    <3>1. UNCHANGED <<queue, accepted, writing>> /\ queue \in Seq(Row) /\ Len(queue) <= Room /\ Len(queue) \in Nat
      BY <1>1, <1>4, <2>2 DEF QueueTypes
    <3>2. samples' = 0 /\ 0 <= MaxSamples
      BY <1>2, <1>4, <3>1
    <3>3. \A o \in Row : Waiting(o)' = Waiting(o) /\ Waiting(o) \in Nat
      BY <1>1, <3>1, WaitingIs DEF Waiting, Occurrences
    <3>4. accepted' \in [Row -> Nat] /\ \A o \in Row : accepted'[o] = accepted[o] /\ accepted[o] \in Nat
      BY <1>1, <3>1 DEF RowTypes
    <3>5. \A o \in Row : /\ Waiting(o)' = IF o = r THEN Waiting(o) + 0 ELSE Waiting(o)
                         /\ accepted'[o] = IF o = r THEN accepted[o] + 0 ELSE accepted[o]
                         /\ Waiting(o) \in Nat
      BY <3>3, <3>4
    <3> QED BY <3>1, <3>2, <3>4, <3>5
  <2> QED BY <2>1, <2>2
<1>10. PICK d \in {0, 1} :
        /\ queue' \in Seq(Row) /\ Len(queue') <= Room /\ samples' = d /\ d <= MaxSamples
        /\ accepted' \in [Row -> Nat]
        /\ \A o \in Row : /\ Waiting(o)' = IF o = r THEN Waiting(o) + d ELSE Waiting(o)
                          /\ accepted'[o] = IF o = r THEN accepted[o] + d ELSE accepted[o]
                          /\ Waiting(o) \in Nat
  BY <1>9
<1>11. RowTypes' /\ QueueTypes'
  <2>1. flag' \in BOOLEAN
    BY <1>4
  <2>2. UNCHANGED <<row, count, stored, writing, lost, answer>> /\ active' = r
    BY <1>4
  <2>3. samples' \in 0 .. MaxSamples
    BY <1>2, <1>10
  <2>4. RowTypes'
    BY <1>1, <1>10, <2>2 DEF RowTypes
  <2>5. QueueTypes'
    BY <1>1, <1>3, <1>10, <2>1, <2>2, <2>3 DEF QueueTypes
  <2> QED BY <2>4, <2>5
<1>12. ASSUME NEW o \in Row PROVE Balanced(o)'
  <2>1. Balanced(o) /\ count[o] \in Nat /\ lost[o] \in Nat /\ accepted[o] \in Nat
    BY <1>1 DEF Counted, RowTypes
  <2>2. CASE o = r
    <3>1. accepted[o] = 0 /\ count[o] = 0 /\ lost[o] = 0 /\ Waiting(o) = 0 /\ answer[o] = Unanswered
      BY <1>3, <1>6, <1>10, <2>1, <2>2 DEF Balanced, Sums
    <3>2. Begun(o)'
      BY <1>3, <1>4, <1>5, <1>6, <2>2 DEF Begun, At
    <3>3. accepted'[o] = d /\ Waiting(o)' = d
      BY <1>10, <2>2, <3>1
    <3>4. UNCHANGED <<row, count, lost, answer>> /\ active' = r /\ samples' = d /\ d <= MaxSamples /\ row[o] = "recording"
      BY <1>3, <1>4, <1>10, <2>2
    <3>5. Sums(o)'
      BY <3>1, <3>3, <3>4 DEF Sums
    <3> QED BY <3>1, <3>2, <3>4, <3>5 DEF Balanced
  <2>3. CASE o # r
    <3>1. Begun(o) => Begun(o)'
      BY <1>4, <1>5 DEF Begun, At
    <3>2. Waiting(o)' = Waiting(o) /\ accepted'[o] = accepted[o]
      BY <1>10, <2>3
    <3> QED BY <1>4, <2>1, <2>3, <3>1, <3>2 DEF Balanced, Sums
  <2> QED BY <2>2, <2>3
<1> QED BY <1>7, <1>8, <1>11, <1>12 DEF RecInv, RecTypes, Counted

\* Nothing is with the writer when the row is closed.
LEMMA FlushKeeps ==
  ASSUME RecInv, NEW c \in Caller, StopFlushes(c)
  PROVE  RecInv'
<1> DEFINE r == call[c].id
<1>1. RowTypes /\ QueueTypes /\ CallTypes /\ Owned /\ Counted
  BY DEF RecInv, RecTypes
<1>2. None \notin Row
  BY RecordingAssumption DEF None, Row
<1>3. r \in Row /\ row[r] \in {"recording", "deleted"} /\ call[c] \in Calls /\ call[c] = At("flushing", r)
  <2>1. call[c].at = "flushing" /\ CallFits(c) /\ call[c] \in Calls
    BY <1>1 DEF StopFlushes, Owned, CallTypes
  <2> QED BY <2>1 DEF CallFits, Calls, At
<1>4. /\ Joined /\ row' = Closed(row, r) /\ call' = [call EXCEPT ![c].at = "closed"]
      /\ UNCHANGED <<count, stored, active, samples, queue, writing, flag, accepted, lost, answer>>
  BY DEF StopFlushes, histVars
<1>5. /\ row' \in [Row -> {"unused", "recording", "done", "deleted"}]
      /\ \A o \in Row : row'[o] = IF o = r /\ row[r] = "recording" THEN "done" ELSE row[o]
  BY <1>1, <1>3, <1>4 DEF RowTypes, Closed
<1>6. /\ \A d \in Caller : call'[d] = IF d = c THEN At("closed", r) ELSE call[d]
      /\ call' \in [Caller -> Calls]
  <2>1. [call[c] EXCEPT !.at = "closed"] = At("closed", r) /\ At("closed", r) \in Calls
    BY <1>3 DEF At, Calls
  <2> QED BY <1>1, <1>4, <2>1 DEF CallTypes
<1>7. RowTypes' /\ QueueTypes' /\ CallTypes'
  BY <1>1, <1>4, <1>5, <1>6 DEF RowTypes, QueueTypes, CallTypes
<1>8. active # r /\ \A d \in Caller : d # c => call[d].id # r
  BY <1>1, <1>2, <1>3 DEF Owned
<1> HIDE DEF r
<1>9. Owned'
  <2>1. ASSUME NEW d \in Caller PROVE CallFits(d)'
    <3>1. CASE d = c
      BY <1>3, <1>5, <1>6, <3>1 DEF CallFits, At
    <3>2. CASE d # c
      BY <1>1, <1>5, <1>6, <1>8, <3>2 DEF CallFits, Owned
    <3> QED BY <3>1, <3>2
  <2>2. ASSUME NEW o \in Caller, NEW p \in Caller, o # p, call'[o].id = call'[p].id PROVE call'[o].id = None
    BY <1>1, <1>6, <1>8, <2>2 DEF Owned, At
  <2>3. ASSUME active' # None
        PROVE  row'[active'] = "recording" /\ \A o \in Caller : call'[o].id # active'
    <3>1. active \in Row
      BY <1>1, <1>4, <2>3 DEF QueueTypes
    <3> QED BY <1>1, <1>4, <1>5, <1>6, <1>8, <2>3, <3>1 DEF Owned, At
  <2> QED BY <2>1, <2>2, <2>3 DEF Owned
<1>10. ASSUME NEW o \in Row PROVE Balanced(o)'
  <2>1. Waiting(o)' = Waiting(o) /\ Waiting(o) = 0
    <3>1. Occurrences(queue, o) = 0
      <4>1. queue \in Seq(Row) /\ DOMAIN queue = {}
        BY <1>1, <1>4 DEF Joined, QueueTypes
      <4> QED BY <4>1, OccurrencesAre
    <3> QED BY <1>2, <1>4, <3>1 DEF Waiting, Occurrences, Joined, NoWrite
  <2>2. Balanced(o)
    BY <1>1 DEF Counted
  <2>3. Begun(o) => Begun(o)'
    BY <1>5, <1>6 DEF Begun, At
  <2>4. Sums(o)'
    BY <1>4, <1>5, <2>1, <2>2 DEF Balanced, Sums
  <2>5. answer[o] # Unanswered => row'[o] = row[o]
    BY <1>5, <2>2 DEF Balanced
  <2> QED BY <1>4, <2>2, <2>3, <2>4, <2>5 DEF Balanced
<1> QED BY <1>7, <1>9, <1>10 DEF RecInv, RecTypes, Counted

\* The answer is the count of a row that is done; the event that tells of it
\* may be a sample of the recording that is active by then.
LEMMA AnswerKeeps ==
  ASSUME RecInv, NEW c \in Caller, StopAnswers(c)
  PROVE  RecInv'
<1> DEFINE r == call[c].id
<1>1. RowTypes /\ QueueTypes /\ CallTypes /\ Owned /\ Counted
  BY DEF RecInv, RecTypes
<1>2. None \notin Row /\ MaxSamples \in Nat
  BY RecordingAssumption DEF None, Row
<1>3. r \in Row /\ row[r] = "done"
  <2>1. CallFits(c) /\ call[c].at = "closed" /\ row[r] = "done"
    BY <1>1 DEF Owned, StopAnswers
  <2> QED BY <2>1 DEF CallFits
<1>4. /\ answer' = [answer EXCEPT ![r] = count[r]] /\ flag' = FALSE /\ offer
      /\ call' = [call EXCEPT ![c] = At("telling", None)]
      /\ UNCHANGED <<row, count, stored, active, writing, lost>>
  BY DEF StopAnswers, rowVars
<1> HIDE DEF r
<1>5. /\ queue' \in Seq(Row) /\ Len(queue') <= Room /\ samples' \in 0 .. MaxSamples
      /\ accepted' \in [Row -> Nat]
      /\ \A o \in Row : Sums(o)' /\ (o # active => accepted'[o] = accepted[o])
  BY <1>4, OfferBalances
<1>6. \A d \in Caller : call'[d] = IF d = c THEN At("telling", None) ELSE call[d]
  BY <1>1, <1>4 DEF CallTypes
<1>7. answer' \in [Row -> 0 .. Unanswered] /\ \A o \in Row : answer'[o] = IF o = r THEN count[r] ELSE answer[o]
  <2>1. count[r] \in 0 .. Unanswered
    <3>1. Balanced(r) /\ count[r] \in Nat /\ lost[r] \in Nat /\ accepted[r] \in Nat /\ Waiting(r) \in Nat
      BY <1>1, <1>3, WaitingIs DEF Counted, RowTypes
    <3> QED BY <1>2, <3>1 DEF Balanced, Sums, Unanswered
  <2> QED BY <1>1, <1>3, <1>4, <2>1 DEF RowTypes
<1>8. RowTypes' /\ QueueTypes' /\ CallTypes'
  <2>1. flag' \in BOOLEAN /\ At("telling", None) \in Calls
    BY <1>4 DEF At, Calls
  <2> QED BY <1>1, <1>4, <1>5, <1>7, <2>1 DEF RowTypes, QueueTypes, CallTypes
<1>9. Owned'
  <2>1. ASSUME NEW d \in Caller PROVE CallFits(d)'
    <3>1. CASE d = c
      BY <1>6, <3>1 DEF CallFits, At
    <3>2. CASE d # c
      BY <1>1, <1>4, <1>6, <3>2 DEF CallFits, Owned
    <3> QED BY <3>1, <3>2
  <2>2. ASSUME NEW o \in Caller, NEW p \in Caller, o # p, call'[o].id = call'[p].id PROVE call'[o].id = None
    BY <1>1, <1>6, <2>2 DEF Owned, At
  <2>3. ASSUME active' # None
        PROVE  row'[active'] = "recording" /\ \A o \in Caller : call'[o].id # active'
    BY <1>1, <1>4, <1>6, <2>3 DEF Owned, At
  <2> QED BY <2>1, <2>2, <2>3 DEF Owned
<1>10. ASSUME NEW o \in Row PROVE Balanced(o)'
  <2>1. Balanced(o) /\ Sums(o)'
    BY <1>1, <1>5 DEF Counted
  <2>2. Begun(o) => Begun(o)'
    BY <1>4, <1>6 DEF Begun, At
  <2>3. o = active => Begun(o)
    BY <1>1, <1>2 DEF Owned, Begun, At
  <2>4. ~Begun(o)' => accepted'[o] = 0
    BY <1>5, <2>1, <2>2, <2>3 DEF Balanced
  <2>5. answer'[o] # Unanswered => row[o] \in {"done", "deleted"} /\ (row[o] = "done" => count[o] = answer'[o])
    BY <1>3, <1>7, <2>1 DEF Balanced
  <2> QED BY <1>4, <2>1, <2>4, <2>5 DEF Balanced
<1> QED BY <1>8, <1>9, <1>10 DEF RecInv, RecTypes, Counted

----------------------------------------------------------------------------
\* Every step of a request.
LEMMA CallKeeps ==
  ASSUME RecInv, NEW c \in Caller, CallStep(c)
  PROVE  RecInv'
BY MovesKeep, InsertKeeps, BeginKeeps, FlushKeeps, AnswerKeeps DEF CallStep

\* Every step of the server keeps the recorder's invariant.
LEMMA RecKeeps == RecInv /\ [Next]_vars => RecInv'
<1> SUFFICES ASSUME RecInv, [Next]_vars PROVE RecInv'
  OBVIOUS
<1>1. ASSUME UNCHANGED recVars PROVE RecInv'
  <2>1. UNCHANGED <<row, count, stored, active, samples, queue, writing, flag, call, accepted, lost, answer>>
    BY <1>1 DEF recVars
  <2>2. RecTypes'
    BY <2>1 DEF RecInv, RecTypes, RowTypes, QueueTypes, CallTypes
  <2>3. Owned'
    BY <2>1 DEF RecInv, Owned, CallFits
  <2>4. Counted'
    BY <2>1 DEF RecInv, Counted, Balanced, Sums, Begun, Waiting, Occurrences
  <2> QED BY <2>2, <2>3, <2>4 DEF RecInv
<1> QED BY <1>1, StepIs, OfferKeeps, WriterKeeps, RestartKeeps, DeleteKeeps, CallKeeps

\* The balance of the recorder holds in every state.
LEMMA RecInvariant == Spec => []RecInv
BY InitRec, RecKeeps, PTL DEF Spec

\* The sample_count a stop answers is final and is every sample the recorder
\* accepted, written or lost, and nothing is queued or written for a recording
\* that is done: for any number of requests and recordings, and a queue and a
\* sample limit of any size (recorder.py, stop and flush; writer.py, join).
THEOREM EveryStopCounts == Spec => []StopCountsEverything
<1>1. RecInv => StopCountsEverything
  <2> SUFFICES ASSUME RecInv, NEW r \in Row, row[r] = "done"
               PROVE  /\ writing.id # r /\ \A i \in DOMAIN queue : queue[i] # r
                      /\ answer[r] # Unanswered => count[r] = answer[r] /\ count[r] + lost[r] = accepted[r]
    BY DEF StopCountsEverything
  <2>1. QueueTypes /\ RowTypes /\ Balanced(r) /\ count[r] \in Nat /\ lost[r] \in Nat
    BY DEF RecInv, RecTypes, Counted, RowTypes
  <2>2. Waiting(r) = 0 /\ count[r] + lost[r] + Waiting(r) = accepted[r]
    BY <2>1 DEF Balanced, Sums
  <2>3. writing.id # r /\ Occurrences(queue, r) = 0
    BY <2>1, <2>2, WaitingIs
  <2>4. \A i \in DOMAIN queue : queue[i] # r
    BY <2>1, <2>3, OccurrencesAre DEF QueueTypes
  <2> QED BY <2>1, <2>2, <2>3, <2>4 DEF Balanced
<1> QED BY <1>1, RecInvariant, PTL

----------------------------------------------------------------------------
(* The connection of the robot is what was said of it.                     *)

SaidFits ==
  /\ said \in {"nothing", "reachable", "disconnected"}
  /\ said = "disconnected" => connection = "offline"

\* What is said of the connection when it is announced.
LEMMA AnnounceSays ==
  ASSUME SaidFits, NEW h, NEW state, NEW a, NEW b, Announce(h, state, a, b)
  PROVE  SaidFits'
BY DEF Announce, Said, Alerting, SaidFits

\* And when a handler applies what it found.
LEMMA ApplySays ==
  ASSUME SaidFits, NEW h, NEW state, NEW p, NEW a, NEW b, Apply(h, state, p, a, b)
  PROVE  SaidFits'
BY AnnounceSays DEF Apply, SaidFits

\* What the robot, its sessions and the monitor do.
LEMMA SaidKeeps == SaidFits /\ [Next]_vars => SaidFits'
<1> SUFFICES ASSUME SaidFits, [Next]_vars PROVE SaidFits'
  OBVIOUS
<1>1. UNCHANGED <<connection, said>> => SaidFits'
  BY DEF SaidFits
<1>2. ASSUME NEW h, NEW p, NEW a, NEW b, Persisted(h, p, a, b) PROVE SaidFits'
  BY <1>2, AnnounceSays DEF Persisted
<1>3. ASSUME NEW h, NEW a, NEW b, Settled(h, a, b) PROVE SaidFits'
  BY <1>1, <1>3 DEF Settled
<1>4. ASSUME RecorderStep PROVE SaidFits'
  <2>1. UNCHANGED vars_t => UNCHANGED <<connection, said>>
    BY DEF vars_t, hubVars, stateVars
  <2>2. \A c \in Caller : Request(c) => UNCHANGED <<connection, said>>
    BY <2>1 DEF Request, StartRequest, Tell, Answer, hubVars, stateVars
  <2> QED BY <1>1, <1>4, <2>1, <2>2 DEF RecorderStep
<1>5. ASSUME RobotStep PROVE SaidFits'
  BY <1>1, <1>5 DEF RobotStep, Reading, Heartbeat
<1>6. ASSUME SessionStep PROVE SaidFits'
  <2>1. MonitorStep => SaidFits'
    BY <1>2, <1>3, ApplySays DEF MonitorStep, Tick
  <2>2. \A h \in Conn : Gateway(h) => SaidFits'
    BY <1>1, <1>2, <1>3, ApplySays DEF Gateway, Swap, Capabilities, Leave
  <2>3. \A h \in Conn : Hello(h) \/ Hangup(h) => SaidFits'
    BY <1>1 DEF Hello, Hangup, stateVars
  <2>4. Quiet("silent") \/ Quiet("late") => SaidFits'
    BY <1>1 DEF Quiet
  <2> QED BY <1>6, <2>1, <2>2, <2>3, <2>4 DEF SessionStep
<1>7. BrowserStep \/ UNCHANGED vars => UNCHANGED <<connection, said>>
  BY DEF BrowserStep, Join, Joins, Send, Closes, hubVars, stateVars, vars, vars_t
<1>8. Restart => SaidFits'
  BY DEF Restart, HubRestarts, SaidFits
<1> QED BY <1>1, <1>4, <1>5, <1>6, <1>7, <1>8 DEF Next

\* A disconnection is told once, whichever of the monitor and any number of
\* gateways find it, and however they overlap (hub.py, set_connection).
THEOREM ToldOnce == Spec => []DisconnectToldOnce
<1>1. Init => SaidFits
  BY DEF Init, Serving, TelemetryInit, StateInit, SaidFits
<1>2. SaidFits => DisconnectToldOnce
  BY DEF SaidFits, DisconnectToldOnce
<1> QED BY <1>1, <1>2, SaidKeeps, PTL DEF Spec


----------------------------------------------------------------------------
(* The browser's queue.                                                    *)

Connections == {"online", "stale", "offline"}
Statuses == {"offline", "recording", "ready"}
Views == [ws : BOOLEAN, connection : Connections, status : Statuses, capabilities : {{}, Robot}]

\* What the hub publishes, and the snapshot of a browser that joins.
Published ==
  ({"state.connection"} \X Connections) \cup ({"state.robot_status"} \X Statuses)
    \cup ({"state.capabilities"} \X {{}, Robot}) \cup ({"event.append", "telemetry.pose"} \X {""})
Frames == Published \cup ({"server.snapshot"} \X Views)

\* A BrowserClient, with a queue within its bound that no frame can be spared
\* of once it is overloaded.
Clients == [at : {"none", "joining", "live"}, queue : Seq(Frames), overloaded : BOOLEAN,
            snapshot : Views \cup {<<>>}, overtaken : BOOLEAN]
ClientFits(cl) ==
  /\ cl \in Clients /\ Len(cl.queue) <= Limit
  /\ cl.overloaded => Len(cl.queue) = Limit /\ Expendable(cl.queue) = {}
  /\ cl.at = "joining" => cl.snapshot \in Views

Tasks == {"idle", "replacing", "joined", "announcing", "serving", "leaving", "saving", "closing",
          "persisting", "settling"}

HubTypes ==
  /\ connection \in Connections /\ status \in Statuses /\ capabilities \in {{}, Robot}
  /\ age \in {"fresh", "late", "silent", "never"}
  /\ current \in {None} \cup Conn /\ linked \subseteq Conn
  /\ task \in [Conn \cup {Monitor} -> Tasks]
  /\ ClientFits(client) /\ browser \in Views

\* The frames that tell a field, and the value the browser b, with the frames q
\* still to come, will have of it.
Tells(frame, type) == frame[1] \in {"server.snapshot", type}
Carries(q, b, type, field, v) ==
  \/ (\A i \in DOMAIN q : ~Tells(q[i], type)) /\ v = b[field]
  \/ \E i \in DOMAIN q : /\ Tells(q[i], type) /\ v = Says(field, q[i])
                         /\ \A j \in DOMAIN q : j > i => ~Tells(q[j], type)

Fields == {<<"state.connection", "connection">>, <<"state.robot_status", "status">>,
           <<"state.capabilities", "capabilities">>}

\* A browser that has lost nothing will have v of the field.
Knows(cl, b, type, field, v) ==
  cl.at = "live" /\ ~cl.overloaded /\ ~cl.overtaken => Carries(cl.queue, b, type, field, v)

\* The robot's session has said what it can do.
Introduced == current = None \/ task[current] \notin {"joined", "announcing"}

CaughtUp ==
  /\ Knows(client, browser, "state.connection", "connection", connection)
  /\ Knows(client, browser, "state.robot_status", "status", status)
  /\ Introduced => Knows(client, browser, "state.capabilities", "capabilities", capabilities)

HubInv == HubTypes /\ CaughtUp

\* A set of numbers that is not empty has its oldest: _evict_unprotected finds
\* one when there is one.
LEMMA OldestIs ==
  ASSUME NEW S \in SUBSET Nat, S # {}
  PROVE  Oldest(S) \in S /\ \A j \in S : Oldest(S) <= j
<1> DEFINE R == OpToRel(<, Nat)
<1>1. \E x \in S : \A y \in S : ~(<<y, x>> \in R)
  <2>1. IsWellFoundedOn(R, Nat)
    BY NatLessThanWellFounded
  <2> HIDE DEF R
  <2> QED BY <2>1, WFMin
<1>2. PICK x \in S : \A y \in S : ~(<<y, x>> \in R)
  BY <1>1
<1>3. \A y \in S : ~(y < x)
  BY <1>2 DEF OpToRel
<1>4. \A y \in S : x <= y
  BY <1>3
<1> QED BY <1>4 DEF Oldest

\* What is left after one frame was taken out of the middle.
LEMMA RemoveAtIs ==
  ASSUME NEW S, NEW q \in Seq(S), NEW k \in 1 .. Len(q)
  PROVE  /\ RemoveAt(q, k) \in Seq(S) /\ Len(RemoveAt(q, k)) = Len(q) - 1
         /\ \A i \in 1 .. Len(q) - 1 : RemoveAt(q, k)[i] = IF i < k THEN q[i] ELSE q[i + 1]
<1> DEFINE a == SubSeq(q, 1, k - 1)
           b == SubSeq(q, k + 1, Len(q))
<1>0. Len(q) \in Nat /\ k \in Int /\ 1 <= k /\ k <= Len(q)
  BY LenProperties
<1>1. a \in Seq(S) /\ Len(a) = k - 1 /\ \A i \in 1 .. k - 1 : a[i] = q[i]
  <2>1. Len(a) = IF 1 <= k - 1 THEN k - 1 - 1 + 1 ELSE 0
    BY <1>0, SubSeqProperties
  <2> QED BY <1>0, <2>1, SubSeqProperties
<1>2. b \in Seq(S) /\ Len(b) = Len(q) - k /\ \A i \in 1 .. Len(q) - k : b[i] = q[k + i]
  BY <1>0, SubSeqProperties
<1> HIDE DEF a, b
<1>3. a \o b \in Seq(S) /\ Len(a \o b) = Len(q) - 1
  <2>1. a \o b \in Seq(S) /\ Len(a \o b) = Len(a) + Len(b)
    BY <1>1, <1>2, ConcatProperties
  <2> QED BY <1>0, <1>1, <1>2, <2>1
<1>4. ASSUME NEW i \in 1 .. Len(q) - 1 PROVE (a \o b)[i] = IF i < k THEN q[i] ELSE q[i + 1]
  <2>0. Len(a) \in Nat /\ Len(b) \in Nat /\ i \in 1 .. Len(a) + Len(b) /\ i \in Int
    BY <1>0, <1>1, <1>2
  <2>1. (a \o b)[i] = IF i <= Len(a) THEN a[i] ELSE b[i - Len(a)]
    BY <1>1, <1>2, <2>0, ConcatProperties
  <2>2. CASE i < k
    BY <1>0, <1>1, <2>1, <2>2
  <2>3. CASE i >= k
    <3>1. i - Len(a) = i - k + 1 /\ i - k + 1 \in 1 .. Len(q) - k /\ ~(i <= Len(a)) /\ k + (i - k + 1) = i + 1
      BY <1>0, <1>1, <2>3
    <3>2. b[i - k + 1] = q[k + (i - k + 1)]
      BY <1>2, <3>1
    <3>3. (a \o b)[i] = q[i + 1]
      BY <2>1, <3>1, <3>2
    <3> QED BY <1>0, <2>0, <2>3, <3>3
  <2> QED BY <1>0, <2>0, <2>2, <2>3
<1> QED BY <1>3, <1>4 DEF RemoveAt, a, b

----------------------------------------------------------------------------
(* What a frame does to a queue and to what its browser will show.         *)

\* A frame appended tells what it tells, and leaves the rest.
LEMMA AppendCarries ==
  ASSUME NEW q \in Seq(Frames), NEW frame \in Frames, NEW b, NEW type, NEW field, NEW v
  PROVE  /\ Tells(frame, type) => Carries(Append(q, frame), b, type, field, Says(field, frame))
         /\ ~Tells(frame, type) /\ Carries(q, b, type, field, v) => Carries(Append(q, frame), b, type, field, v)
<1> DEFINE a == Append(q, frame)
<1>1. /\ Len(q) \in Nat /\ DOMAIN q = 1 .. Len(q) /\ DOMAIN a = 1 .. Len(q) + 1
      /\ a[Len(q) + 1] = frame /\ \A i \in 1 .. Len(q) : a[i] = q[i]
  OBVIOUS
<1> HIDE DEF a
<1>2. \A i \in DOMAIN a : i \in DOMAIN q \/ i = Len(q) + 1
  BY <1>1
<1>3. Len(q) + 1 \in DOMAIN a /\ (\A j \in DOMAIN a : ~(j > Len(q) + 1)) /\ DOMAIN q \subseteq DOMAIN a
  BY <1>1
<1>4. Tells(frame, type) => Carries(a, b, type, field, Says(field, frame))
  BY <1>1, <1>3 DEF Carries
<1>5. ASSUME ~Tells(frame, type), Carries(q, b, type, field, v)
      PROVE  Carries(a, b, type, field, v)
  <2>1. CASE (\A i \in DOMAIN q : ~Tells(q[i], type)) /\ v = b[field]
    BY <1>1, <1>2, <1>5, <2>1 DEF Carries
  <2>2. CASE \E i \in DOMAIN q : Tells(q[i], type) /\ v = Says(field, q[i]) /\ \A j \in DOMAIN q : j > i => ~Tells(q[j], type)
    <3>1. PICK i \in DOMAIN q : Tells(q[i], type) /\ v = Says(field, q[i]) /\ \A j \in DOMAIN q : j > i => ~Tells(q[j], type)
      BY <2>2
    <3>2. a[i] = q[i] /\ i \in DOMAIN a
      BY <1>1, <1>3, <3>1
    <3>3. \A j \in DOMAIN a : j > i => ~Tells(a[j], type)
      BY <1>1, <1>2, <1>5, <3>1
    <3> QED BY <3>1, <3>2, <3>3 DEF Carries
  <2> QED BY <1>5, <2>1, <2>2 DEF Carries
<1> QED BY <1>4, <1>5 DEF a

\* A frame taken out of the middle takes nothing with it that it does not tell.
LEMMA EvictCarries ==
  ASSUME NEW q \in Seq(Frames), NEW k \in DOMAIN q, NEW b, NEW type, NEW field, NEW v,
         ~Tells(q[k], type), Carries(q, b, type, field, v)
  PROVE  Carries(RemoveAt(q, k), b, type, field, v)
<1> DEFINE a == RemoveAt(q, k)
<1>0. Len(q) \in Nat /\ DOMAIN q = 1 .. Len(q) /\ k \in 1 .. Len(q)
  BY LenProperties
<1>1. a \in Seq(Frames) /\ Len(a) = Len(q) - 1 /\ \A i \in 1 .. Len(q) - 1 : a[i] = IF i < k THEN q[i] ELSE q[i + 1]
  BY <1>0, RemoveAtIs
<1> HIDE DEF a
<1>2. DOMAIN a = 1 .. Len(q) - 1
  BY <1>1, LenProperties
<1>3. CASE (\A i \in DOMAIN q : ~Tells(q[i], type)) /\ v = b[field]
  <2>1. \A i \in DOMAIN a : \E j \in DOMAIN q : a[i] = q[j]
    BY <1>0, <1>1, <1>2
  <2> QED BY <1>3, <2>1 DEF Carries, a
<1>4. CASE \E i \in DOMAIN q : Tells(q[i], type) /\ v = Says(field, q[i]) /\ \A j \in DOMAIN q : j > i => ~Tells(q[j], type)
  <2>1. PICK i \in DOMAIN q : Tells(q[i], type) /\ v = Says(field, q[i]) /\ \A j \in DOMAIN q : j > i => ~Tells(q[j], type)
    BY <1>4
  <2>2. i # k /\ i \in Int /\ 1 <= i /\ i <= Len(q) /\ k \in Int /\ 1 <= k /\ k <= Len(q)
    BY <1>0, <2>1
  <2>3. PICK m \in DOMAIN a : a[m] = q[i] /\ m = IF i < k THEN i ELSE i - 1
    <3>1. CASE i < k
      BY <1>0, <1>1, <1>2, <2>2, <3>1
    <3>2. CASE i > k
      <4>1. i - 1 \in 1 .. Len(q) - 1 /\ ~(i - 1 < k) /\ i - 1 + 1 = i
        BY <1>0, <2>2, <3>2
      <4>2. a[i - 1] = q[i]
        BY <1>1, <4>1
      <4> QED BY <1>2, <2>2, <3>2, <4>1, <4>2
    <3> QED BY <2>2, <3>1, <3>2
  <2>4. ASSUME NEW j \in DOMAIN a, j > m PROVE ~Tells(a[j], type)
    <3>1. PICK n \in DOMAIN q : a[j] = q[n] /\ n = IF j < k THEN j ELSE j + 1
      BY <1>0, <1>1, <1>2
    <3>2. n > i
      BY <1>0, <1>2, <2>2, <2>3, <2>4, <3>1
    <3> QED BY <2>1, <3>1, <3>2
  <2> QED BY <2>1, <2>3, <2>4 DEF Carries, a
<1> QED BY <1>3, <1>4 DEF Carries

\* What the browser does with a frame is what the frame tells (handleFrame).
LEMMA HandledIs ==
  ASSUME NEW b \in Views, NEW frame \in Frames, NEW type, NEW field, <<type, field>> \in Fields
  PROVE  /\ handleFrame(b, frame) \in Views
         /\ handleFrame(b, frame)[field] = IF Tells(frame, type) THEN Says(field, frame) ELSE b[field]
<1>1. \/ type = "state.connection" /\ field = "connection"
      \/ type = "state.robot_status" /\ field = "status"
      \/ type = "state.capabilities" /\ field = "capabilities"
  BY DEF Fields
<1>2. CASE frame[1] = "server.snapshot"
  BY <1>1, <1>2 DEF handleFrame, Frames, Published, Tells, Says
<1>3. CASE frame[1] = "state.connection"
  BY <1>1, <1>3 DEF handleFrame, Frames, Published, Tells, Says, Views
<1>4. CASE frame[1] = "state.robot_status"
  BY <1>1, <1>4 DEF handleFrame, Frames, Published, Tells, Says, Views
<1>5. CASE frame[1] = "state.capabilities"
  BY <1>1, <1>5 DEF handleFrame, Frames, Published, Tells, Says, Views
<1>6. CASE frame[1] \in {"event.append", "telemetry.pose"}
  BY <1>1, <1>6 DEF handleFrame, Tells
<1> QED BY <1>2, <1>3, <1>4, <1>5, <1>6 DEF Frames, Published

\* Sending the oldest frame changes nothing of what the browser will show.
LEMMA SendCarries ==
  ASSUME NEW q \in Seq(Frames), q # <<>>, NEW b \in Views, NEW type, NEW field, <<type, field>> \in Fields,
         NEW v, Carries(q, b, type, field, v)
  PROVE  Carries(Tail(q), handleFrame(b, Head(q)), type, field, v)
<1> DEFINE a == Tail(q)
           after == handleFrame(b, Head(q))
<1>1. Head(q) \in Frames /\ Len(q) \in Nat \ {0} /\ DOMAIN q = 1 .. Len(q) /\ Head(q) = q[1]
  BY TakeFirst, LenProperties
<1>2. DOMAIN a = 1 .. Len(q) - 1 /\ \A i \in 1 .. Len(q) - 1 : a[i] = q[i + 1]
  BY <1>1, HeadTailProperties, TakeFirst, LenProperties
<1>3. after[field] = IF Tells(q[1], type) THEN Says(field, q[1]) ELSE b[field]
  BY <1>1, HandledIs
<1> HIDE DEF a, after
<1>4. \A i \in DOMAIN a : i + 1 \in DOMAIN q /\ i + 1 > 1 /\ a[i] = q[i + 1]
  BY <1>1, <1>2
<1>5. 1 \in DOMAIN q
  BY <1>1
<1>6. CASE (\A i \in DOMAIN q : ~Tells(q[i], type)) /\ v = b[field]
  BY <1>3, <1>4, <1>5, <1>6 DEF Carries, a, after
<1>7. CASE \E i \in DOMAIN q : Tells(q[i], type) /\ v = Says(field, q[i]) /\ \A j \in DOMAIN q : j > i => ~Tells(q[j], type)
  <2>1. PICK i \in DOMAIN q : Tells(q[i], type) /\ v = Says(field, q[i]) /\ \A j \in DOMAIN q : j > i => ~Tells(q[j], type)
    BY <1>7
  <2>2. CASE i = 1
    <3>1. after[field] = v
      BY <1>3, <2>1, <2>2
    <3>2. \A k \in DOMAIN a : ~Tells(a[k], type)
      BY <1>4, <2>1, <2>2
    <3> QED BY <3>1, <3>2 DEF Carries, a, after
  <2>3. CASE i # 1
    <3>1. i - 1 \in DOMAIN a /\ a[i - 1] = q[i]
      BY <1>1, <1>2, <2>3
    <3>2. \A k \in DOMAIN a : k > i - 1 => k + 1 > i
      BY <1>1, <1>2, <2>1
    <3>3. \A k \in DOMAIN a : k > i - 1 => ~Tells(a[k], type)
      BY <1>4, <2>1, <3>2
    <3> QED BY <2>1, <3>1, <3>3 DEF Carries, a
  <2> QED BY <2>2, <2>3
<1> QED BY <1>6, <1>7 DEF Carries

\* What the queue carries is what will be shown.
LEMMA ShownIs ==
  ASSUME NEW type, NEW field, NEW v, client.queue \in Seq(Frames), Carries(client.queue, browser, type, field, v)
  PROVE  Shown(type, field) = v
<1> DEFINE q == client.queue
           S == Telling(type, q)
<1>0. q \in Seq(Frames) /\ DOMAIN q \subseteq Int /\ \A i : i \in S <=> (i \in DOMAIN q /\ Tells(q[i], type))
  BY LenProperties DEF Telling, Tells
<1>1. CASE (\A i \in DOMAIN q : ~Tells(q[i], type)) /\ v = browser[field]
  <2>1. S = {}
    BY <1>0, <1>1
  <2> QED BY <1>1, <2>1 DEF Shown
<1>2. CASE \E i \in DOMAIN q : Tells(q[i], type) /\ v = Says(field, q[i]) /\ \A j \in DOMAIN q : j > i => ~Tells(q[j], type)
  <2>1. PICK i \in DOMAIN q : Tells(q[i], type) /\ v = Says(field, q[i]) /\ \A j \in DOMAIN q : j > i => ~Tells(q[j], type)
    BY <1>2
  <2>2. i \in S /\ \A j \in S : j <= i
    BY <1>0, <2>1
  <2>3. Newest(S) \in S /\ \A j \in S : j <= Newest(S)
    BY <2>2 DEF Newest
  <2>4. Newest(S) = i
    <3> HIDE DEF S
    <3>1. Newest(S) \in Int /\ i \in Int
      BY <1>0, <2>2, <2>3
    <3> QED BY <2>2, <2>3, <3>1
  <2> QED BY <2>1, <2>2, <2>4 DEF Shown
<1> QED BY <1>1, <1>2 DEF Carries

----------------------------------------------------------------------------
(* What is offered to a browser.                                           *)

\* A client that was offered a frame is within its bounds, and no further.
LEMMA OfferedFits ==
  ASSUME NEW cl, ClientFits(cl), NEW frame \in Frames
  PROVE  /\ ClientFits(Offer(cl, frame))
         /\ Offer(cl, frame).at = cl.at /\ Offer(cl, frame).overtaken = cl.overtaken
<1> DEFINE q == cl.queue
           k == Oldest(Expendable(q))
<1>1. /\ cl \in Clients /\ q \in Seq(Frames) /\ Len(q) \in Nat /\ Len(q) <= Limit /\ Limit \in Nat \ {0}
      /\ DOMAIN q = 1 .. Len(q)
  BY TelemetryAssumption, LenProperties DEF ClientFits, Clients
<1>2. CASE cl.at = "none" \/ cl.overloaded
  BY <1>2 DEF Offer, ClientFits
<1>3. CASE ~(cl.at = "none" \/ cl.overloaded) /\ Len(q) < Limit
  <2> DEFINE p == Append(q, frame)
  <2>1. Offer(cl, frame) = [cl EXCEPT !.queue = p]
    BY <1>3 DEF Offer
  <2>2. p \in Seq(Frames) /\ Len(p) <= Limit
    BY <1>1, <1>3
  <2> HIDE DEF p
  <2> QED BY <1>1, <1>3, <2>1, <2>2 DEF ClientFits, Clients
<1>4. CASE ~(cl.at = "none" \/ cl.overloaded) /\ ~(Len(q) < Limit) /\ Expendable(q) = {}
  <2>1. Offer(cl, frame) = [cl EXCEPT !.overloaded = TRUE]
    BY <1>4 DEF Offer
  <2>2. Len(q) = Limit
    BY <1>1, <1>4
  <2> QED BY <1>1, <1>4, <2>1, <2>2 DEF ClientFits, Clients
<1>5. CASE ~(cl.at = "none" \/ cl.overloaded) /\ ~(Len(q) < Limit) /\ Expendable(q) # {}
  <2> DEFINE p == Append(RemoveAt(q, k), frame)
  <2>1. Offer(cl, frame) = [cl EXCEPT !.queue = p]
    BY <1>5 DEF Offer
  <2>2. k \in 1 .. Len(q)
    <3>1. Expendable(q) \in SUBSET Nat /\ Expendable(q) \subseteq 1 .. Len(q)
      BY <1>1 DEF Expendable
    <3> QED BY <1>5, <3>1, OldestIs
  <2>3. RemoveAt(q, k) \in Seq(Frames) /\ Len(RemoveAt(q, k)) = Len(q) - 1
    BY <1>1, <2>2, RemoveAtIs
  <2>4. p \in Seq(Frames) /\ Len(p) <= Limit
    BY <1>1, <2>3
  <2> HIDE DEF p
  <2> QED BY <1>1, <1>5, <2>1, <2>4 DEF ClientFits, Clients
<1> QED BY <1>2, <1>3, <1>4, <1>5

\* A browser that has lost nothing knows what it was told last, whatever had to
\* give way for it: eviction takes no frame that tells it something (offer,
\* _evict_unprotected).
LEMMA OfferedKnows ==
  ASSUME NEW cl, ClientFits(cl), NEW frame \in Published, NEW b,
         NEW type, NEW field, <<type, field>> \in Fields, NEW v
  PROVE  /\ frame[1] = type => Knows(Offer(cl, frame), b, type, field, frame[2])
         /\ frame[1] # type /\ Knows(cl, b, type, field, v) => Knows(Offer(cl, frame), b, type, field, v)
<1> DEFINE q == cl.queue
           k == Oldest(Expendable(q))
<1>1. /\ cl \in Clients /\ q \in Seq(Frames) /\ DOMAIN q = 1 .. Len(q) /\ Len(q) \in Nat /\ frame \in Frames
      /\ type \in PROTECTED_TYPES
  BY LenProperties DEF ClientFits, Clients, Frames, Fields, PROTECTED_TYPES
<1>2. /\ (frame[1] = type) => Tells(frame, type) /\ Says(field, frame) = frame[2]
      /\ (frame[1] # type) => ~Tells(frame, type)
  BY DEF Published, Tells, Says, Fields
<1>3. CASE cl.at = "none" \/ cl.overloaded
  <2>1. Offer(cl, frame) = cl
    BY <1>3 DEF Offer
  <2> QED BY <1>3, <2>1 DEF Knows
<1>4. CASE ~(cl.at = "none" \/ cl.overloaded) /\ Len(q) < Limit
  <2> DEFINE p == Append(q, frame)
  <2>1. Offer(cl, frame) = [cl EXCEPT !.queue = p]
    BY <1>4 DEF Offer
  <2>2. /\ (frame[1] = type) => Carries(p, b, type, field, frame[2])
        /\ (frame[1] # type) /\ Carries(q, b, type, field, v) => Carries(p, b, type, field, v)
    BY <1>1, <1>2, AppendCarries
  <2> HIDE DEF p
  <2> QED BY <1>1, <2>1, <2>2 DEF Knows, Clients
<1>5. CASE ~(cl.at = "none" \/ cl.overloaded) /\ ~(Len(q) < Limit) /\ Expendable(q) = {}
  <2>1. Offer(cl, frame) = [cl EXCEPT !.overloaded = TRUE]
    BY <1>5 DEF Offer
  <2> QED BY <1>1, <2>1 DEF Knows, Clients
<1>6. CASE ~(cl.at = "none" \/ cl.overloaded) /\ ~(Len(q) < Limit) /\ Expendable(q) # {}
  <2> DEFINE r == RemoveAt(q, k)
             p == Append(r, frame)
  <2>1. Offer(cl, frame) = [cl EXCEPT !.queue = p]
    BY <1>6 DEF Offer
  <2>2. k \in DOMAIN q /\ q[k][1] \notin PROTECTED_TYPES
    <3>1. Expendable(q) \in SUBSET Nat
      BY <1>1 DEF Expendable
    <3>2. k \in Expendable(q)
      BY <1>6, <3>1, OldestIs
    <3> QED BY <3>2 DEF Expendable
  <2>3. ~Tells(q[k], type)
    BY <1>1, <2>2 DEF Tells, PROTECTED_TYPES
  <2>4. r \in Seq(Frames)
    BY <1>1, <2>2, RemoveAtIs
  <2>5. Carries(q, b, type, field, v) => Carries(r, b, type, field, v)
    BY <1>1, <2>2, <2>3, EvictCarries
  <2> HIDE DEF r, k
  <2>6. /\ (frame[1] = type) => Carries(p, b, type, field, frame[2])
        /\ (frame[1] # type) /\ Carries(r, b, type, field, v) => Carries(p, b, type, field, v)
    BY <1>1, <1>2, <2>4, AppendCarries
  <2> HIDE DEF p
  <2> QED BY <1>1, <2>1, <2>5, <2>6 DEF Knows, Clients
<1> QED BY <1>3, <1>4, <1>5, <1>6

\* The status derived is the one the browser is told (_emit_derived).
LEMMA DerivedKnows ==
  ASSUME NEW cl, ClientFits(cl), NEW conn \in Connections, flag \in BOOLEAN, _emit_derived(conn, cl),
         Knows(cl, browser, "state.robot_status", "status", status), status \in Statuses
  PROVE  /\ ClientFits(client') /\ status' \in Statuses
         /\ Knows(client', browser, "state.robot_status", "status", status')
         /\ \A v : Knows(cl, browser, "state.connection", "connection", v)
                     => Knows(client', browser, "state.connection", "connection", v)
         /\ \A v : Knows(cl, browser, "state.capabilities", "capabilities", v)
                     => Knows(client', browser, "state.capabilities", "capabilities", v)
<1>1. status' \in Statuses
  BY DEF _emit_derived, StatusNow, Statuses, Connections
<1>2. CASE status' = status
  BY <1>1, <1>2 DEF _emit_derived
<1>3. CASE status' # status
  <2> DEFINE frame == <<"state.robot_status", status'>>
  <2>1. client' = Offer(cl, frame)
    BY <1>3 DEF _emit_derived
  <2>2. frame \in Published /\ frame \in Frames /\ frame[1] = "state.robot_status" /\ frame[2] = status'
    BY <1>1 DEF Published, Frames
  <2> HIDE DEF frame
  <2>3. /\ <<"state.robot_status", "status">> \in Fields /\ <<"state.connection", "connection">> \in Fields
        /\ <<"state.capabilities", "capabilities">> \in Fields
    BY DEF Fields
  <2>4. ClientFits(client')
    BY <2>1, <2>2, OfferedFits
  <2>5. Knows(client', browser, "state.robot_status", "status", status')
    BY <2>1, <2>2, <2>3, OfferedKnows
  <2>6. \A v : Knows(cl, browser, "state.connection", "connection", v)
                 => Knows(client', browser, "state.connection", "connection", v)
    BY <2>1, <2>2, <2>3, OfferedKnows
  <2>7. \A v : Knows(cl, browser, "state.capabilities", "capabilities", v)
                 => Knows(client', browser, "state.capabilities", "capabilities", v)
    BY <2>1, <2>2, <2>3, OfferedKnows
  <2> QED BY <1>1, <2>4, <2>5, <2>6, <2>7
<1> QED BY <1>2, <1>3

----------------------------------------------------------------------------
(* The steps of the hub.                                                   *)

\* What a step of the hub says of the connection and the status, a browser that
\* has lost nothing will know; and it knows of the capabilities what it did.
Informs ==
  /\ ClientFits(client') /\ connection' \in Connections /\ status' \in Statuses
  /\ Knows(client', browser, "state.connection", "connection", connection')
  /\ Knows(client', browser, "state.robot_status", "status", status')
  /\ \A v : Knows(client, browser, "state.capabilities", "capabilities", v)
              => Knows(client', browser, "state.capabilities", "capabilities", v)

\* A task that moves on.
Moves(h, Steps) == \E s \in Steps : task' = [task EXCEPT ![h] = s]

\* The new connection is told, and then the alert or the status (Announce).
LEMMA AnnounceTells ==
  ASSUME HubInv, flag \in BOOLEAN, NEW h, NEW state \in Connections, NEW settling, NEW settled,
         Announce(h, state, settling, settled)
  PROVE  Informs /\ Moves(h, {settling, settled})
<1> DEFINE frame == <<"state.connection", state>>
           event == <<"event.append", "">>
           offered == Offer(client, frame)
<1>1. ClientFits(client) /\ status \in Statuses /\ Knows(client, browser, "state.robot_status", "status", status)
  BY DEF HubInv, HubTypes, CaughtUp
<1>2. /\ frame \in Published /\ frame \in Frames /\ frame[1] = "state.connection" /\ frame[2] = state
      /\ event \in Published /\ event \in Frames /\ event[1] = "event.append"
  BY DEF Published, Frames
<1>3. /\ <<"state.robot_status", "status">> \in Fields /\ <<"state.connection", "connection">> \in Fields
      /\ <<"state.capabilities", "capabilities">> \in Fields
  BY DEF Fields
<1>4. /\ connection' = state
      /\ \/ client' = Offer(offered, event) /\ status' = status /\ task' = [task EXCEPT ![h] = settling]
         \/ _emit_derived(state, offered) /\ task' = [task EXCEPT ![h] = settled]
  BY DEF Announce
<1> HIDE DEF frame, event
<1>5. ClientFits(offered)
  BY <1>1, <1>2, OfferedFits
<1>6. /\ Knows(offered, browser, "state.connection", "connection", state)
      /\ Knows(offered, browser, "state.robot_status", "status", status)
      /\ \A v : Knows(client, browser, "state.capabilities", "capabilities", v)
                  => Knows(offered, browser, "state.capabilities", "capabilities", v)
  BY <1>1, <1>2, <1>3, OfferedKnows
<1> HIDE DEF offered
<1>7. CASE client' = Offer(offered, event) /\ status' = status /\ task' = [task EXCEPT ![h] = settling]
  <2>1. ClientFits(client')
    BY <1>2, <1>5, <1>7, OfferedFits
  <2>2. /\ Knows(client', browser, "state.connection", "connection", state)
        /\ Knows(client', browser, "state.robot_status", "status", status)
        /\ \A v : Knows(offered, browser, "state.capabilities", "capabilities", v)
                    => Knows(client', browser, "state.capabilities", "capabilities", v)
    BY <1>2, <1>3, <1>5, <1>6, <1>7, OfferedKnows
  <2> QED BY <1>1, <1>4, <1>6, <1>7, <2>1, <2>2 DEF Informs, Moves
<1>8. CASE _emit_derived(state, offered) /\ task' = [task EXCEPT ![h] = settled]
  <2>1. /\ ClientFits(client') /\ status' \in Statuses
        /\ Knows(client', browser, "state.robot_status", "status", status')
        /\ \A v : Knows(offered, browser, "state.connection", "connection", v)
                    => Knows(client', browser, "state.connection", "connection", v)
        /\ \A v : Knows(offered, browser, "state.capabilities", "capabilities", v)
                    => Knows(client', browser, "state.capabilities", "capabilities", v)
    BY <1>1, <1>5, <1>6, <1>8, DerivedKnows
  <2> QED BY <1>4, <1>6, <1>8, <2>1 DEF Informs, Moves
<1> QED BY <1>4, <1>7, <1>8

\* A step that derives the status and tells no more than that.
LEMMA DeriveTells ==
  ASSUME HubInv, flag \in BOOLEAN, NEW cl, ClientFits(cl), _emit_derived(connection, cl), connection' = connection,
         \A type, field, v : <<type, field>> \in Fields /\ Knows(client, browser, type, field, v)
                               => Knows(cl, browser, type, field, v)
  PROVE  Informs
<1>1. /\ status \in Statuses /\ connection \in Connections
      /\ Knows(client, browser, "state.robot_status", "status", status)
      /\ Knows(client, browser, "state.connection", "connection", connection)
  BY DEF HubInv, HubTypes, CaughtUp
<1>2. /\ <<"state.robot_status", "status">> \in Fields /\ <<"state.connection", "connection">> \in Fields
      /\ <<"state.capabilities", "capabilities">> \in Fields
  BY DEF Fields
<1>3. /\ Knows(cl, browser, "state.robot_status", "status", status)
      /\ Knows(cl, browser, "state.connection", "connection", connection)
  BY <1>1, <1>2
<1>4. /\ ClientFits(client') /\ status' \in Statuses
      /\ Knows(client', browser, "state.robot_status", "status", status')
      /\ \A v : Knows(cl, browser, "state.connection", "connection", v)
                  => Knows(client', browser, "state.connection", "connection", v)
      /\ \A v : Knows(cl, browser, "state.capabilities", "capabilities", v)
                  => Knows(client', browser, "state.capabilities", "capabilities", v)
  BY <1>1, <1>3, DerivedKnows
<1> QED BY <1>1, <1>2, <1>3, <1>4 DEF Informs

\* The browser is told of whatever a handler finds (_apply_connection).
LEMMA ApplyTells ==
  ASSUME HubInv, flag \in BOOLEAN, NEW h, NEW state \in Connections, NEW persisting, NEW settling, NEW settled,
         Apply(h, state, persisting, settling, settled)
  PROVE  Informs /\ Moves(h, IF state = "offline" THEN {persisting, settling, settled} ELSE {settling, settled})
<1>0. ClientFits(client) /\ status \in Statuses /\ connection \in Connections
  BY DEF HubInv, HubTypes
<1>1. CASE state = connection
  <2>1. _emit_derived(connection, client) /\ connection' = connection /\ task' = [task EXCEPT ![h] = settled]
    BY <1>1 DEF Apply
  <2>2. Informs
    BY <1>0, <2>1, DeriveTells
  <2> QED BY <2>1, <2>2 DEF Moves
<1>2. CASE state # connection /\ state = "offline"
  <2>1. task' = [task EXCEPT ![h] = persisting] /\ UNCHANGED <<connection, status, client>>
    BY <1>2 DEF Apply
  <2>2. Informs
    BY <1>0, <2>1 DEF Informs, HubInv, CaughtUp
  <2> QED BY <1>2, <2>1, <2>2 DEF Moves
<1>3. CASE state # connection /\ state # "offline"
  <2>1. Announce(h, state, settling, settled)
    BY <1>3 DEF Apply
  <2> QED BY <1>3, <2>1, AnnounceTells
<1> QED BY <1>1, <1>2, <1>3

Ages == {"fresh", "late", "silent", "never"}

\* A handler that moves on keeps what its browser knows, as long as a session
\* that has yet to announce what it can do goes on to announce it.
LEMMA MoveKeeps ==
  ASSUME HubInv, Informs, NEW h \in Conn \cup {Monitor}, NEW Steps \in SUBSET Tasks, Moves(h, Steps),
         current' = current, capabilities' = capabilities, browser' = browser,
         linked' \subseteq Conn, age' \in Ages,
         h = current /\ ~Introduced => Steps \subseteq {"joined", "announcing"}
  PROVE  HubInv'
<1>1. HubTypes /\ CaughtUp
  BY DEF HubInv
<1>2. PICK s \in Steps : task' = [task EXCEPT ![h] = s]
  BY DEF Moves
<1>3. task' \in [Conn \cup {Monitor} -> Tasks]
  BY <1>1, <1>2 DEF HubTypes
<1>4. HubTypes'
  BY <1>1, <1>3 DEF HubTypes, Informs, Ages
<1>5. Introduced' => Introduced
  BY <1>1, <1>2 DEF Introduced, HubTypes
<1>6. CaughtUp'
  BY <1>1, <1>5 DEF CaughtUp, Informs
<1> QED BY <1>4, <1>6 DEF HubInv

\* Nothing is told and nothing changed: a socket that begins or ends.
LEMMA StillInforms ==
  ASSUME HubInv, UNCHANGED <<connection, status, client, browser>>
  PROVE  Informs
BY DEF HubInv, HubTypes, CaughtUp, Informs

\* The monitor is no connection, and no connection is none.
LEMMA HubSets ==
  /\ Monitor \notin Conn /\ None \notin Conn /\ Monitor = None
  /\ Monitor \in Conn \cup {Monitor}
BY TelemetryAssumption DEF Monitor, None, Conn

\* The last pose is saved, and the robot told offline (_persist_last_pose).
LEMMA PersistedKeeps ==
  ASSUME HubInv, flag \in BOOLEAN, NEW h \in Conn \cup {Monitor},
         NEW persisting \in {"persisting", "saving"}, NEW settling \in {"settling", "closing"},
         Persisted(h, persisting, settling, "idle")
  PROVE  HubInv'
<1>1. Announce(h, "offline", settling, "idle") /\ task[h] = persisting
      /\ UNCHANGED <<capabilities, age, current, linked, browser>>
  BY DEF Persisted
<1>2. Informs /\ Moves(h, {settling, "idle"})
  BY <1>1, AnnounceTells DEF Connections
<1>3. ~(h = current /\ ~Introduced)
  BY <1>1 DEF Introduced
<1>4. {settling, "idle"} \in SUBSET Tasks /\ age' \in Ages /\ linked' \subseteq Conn
  BY <1>1 DEF HubInv, HubTypes, Ages, Tasks
<1> QED BY <1>1, <1>2, <1>3, <1>4, MoveKeeps

\* The alert is stored, and the handler derives the status (_emit_events).
LEMMA SettledKeeps ==
  ASSUME HubInv, flag \in BOOLEAN, NEW h \in Conn \cup {Monitor}, NEW settling, NEW settled \in Tasks,
         Settled(h, settling, settled),
         settling \in {"settling", "closing"} \/ settled = "announcing"
  PROVE  HubInv'
<1>1. _emit_derived(connection, client) /\ task[h] = settling /\ task' = [task EXCEPT ![h] = settled]
      /\ UNCHANGED <<connection, capabilities, age, current, linked, browser>>
  BY DEF Settled
<1>2. Informs
  BY <1>1, DeriveTells DEF HubInv, HubTypes
<1>3. Moves(h, {settled})
  BY <1>1 DEF Moves
<1>4. h = current /\ ~Introduced => {settled} \subseteq {"joined", "announcing"}
  BY <1>1 DEF Introduced
<1>5. {settled} \in SUBSET Tasks /\ age' \in Ages /\ linked' \subseteq Conn
  BY <1>1 DEF HubInv, HubTypes, Ages, Tasks
<1> QED BY <1>1, <1>2, <1>3, <1>4, <1>5, MoveKeeps

\* The monitor looks at the connection once a second (_monitor_loop).
LEMMA MonitorKeeps ==
  ASSUME HubInv, flag \in BOOLEAN, MonitorStep
  PROVE  HubInv'
<1>1. CASE Tick
  <2>1. /\ Apply(Monitor, ConnectionFor(current \in linked, age), "persisting", "settling", "idle")
        /\ UNCHANGED <<capabilities, age, current, linked, browser>> /\ current # None
    BY <1>1 DEF Tick
  <2>2. ConnectionFor(current \in linked, age) \in Connections
    BY DEF ConnectionFor, Connections
  <2>3. Informs /\ \/ Moves(Monitor, {"persisting", "settling", "idle"})
                   \/ Moves(Monitor, {"settling", "idle"})
    BY <2>1, <2>2, ApplyTells
  <2>4. Moves(Monitor, {"persisting", "settling", "idle"})
    BY <2>3 DEF Moves
  <2>5. Monitor # current
    BY <2>1, HubSets
  <2>6. {"persisting", "settling", "idle"} \in SUBSET Tasks /\ age' \in Ages /\ linked' \subseteq Conn
    BY <2>1 DEF HubInv, HubTypes, Ages, Tasks
  <2> QED BY <2>1, <2>3, <2>4, <2>5, <2>6, HubSets, MoveKeeps
<1>2. CASE Persisted(Monitor, "persisting", "settling", "idle")
  BY <1>2, HubSets, PersistedKeeps
<1>3. CASE Settled(Monitor, "settling", "idle")
  BY <1>3, HubSets, SettledKeeps DEF Tasks
<1> QED BY <1>1, <1>2, <1>3 DEF MonitorStep

\* A robot session takes over: what it can do is unknown until it says so.
LEMMA SwapKeeps ==
  ASSUME HubInv, flag \in BOOLEAN, NEW h \in Conn, Swap(h)
  PROVE  HubInv'
<1>1. /\ current' = h /\ linked' = linked \cup {h} /\ capabilities' = {} /\ age' = "fresh" /\ browser' = browser
      /\ Apply(h, "online", "none", "joined", "announcing")
  BY DEF Swap
<1>2. Informs /\ Moves(h, {"joined", "announcing"})
  BY <1>1, ApplyTells DEF Connections
<1>3. PICK s \in {"joined", "announcing"} : task' = [task EXCEPT ![h] = s]
  BY <1>2 DEF Moves
<1>4. HubTypes /\ CaughtUp
  BY DEF HubInv
<1>5. HubTypes'
  <2>1. task' \in [Conn \cup {Monitor} -> Tasks]
    BY <1>3, <1>4 DEF HubTypes, Tasks
  <2> QED BY <1>1, <1>2, <1>4, <2>1 DEF HubTypes, Informs
<1>6. ~Introduced'
  BY <1>1, <1>3, <1>4, HubSets DEF Introduced, HubTypes
<1>7. CaughtUp'
  BY <1>1, <1>2, <1>6 DEF CaughtUp, Informs
<1> QED BY <1>5, <1>7 DEF HubInv

\* A frame that changes no field but its own.
LEMMA PublishTells ==
  ASSUME HubInv, NEW frame \in Published, frame[1] \in {"event.append", "telemetry.pose", "state.capabilities"}
  PROVE  /\ ClientFits(Offer(client, frame))
         /\ \A type, field, v : <<type, field>> \in Fields /\ type # frame[1] /\ Knows(client, browser, type, field, v)
                                  => Knows(Offer(client, frame), browser, type, field, v)
         /\ frame[1] = "state.capabilities"
              => Knows(Offer(client, frame), browser, "state.capabilities", "capabilities", frame[2])
<1>1. ClientFits(client) /\ frame \in Frames
  BY DEF HubInv, HubTypes, Frames
<1>2. ClientFits(Offer(client, frame))
  BY <1>1, OfferedFits
<1>3. <<"state.capabilities", "capabilities">> \in Fields
  BY DEF Fields
<1>4. frame[1] = "state.capabilities"
        => Knows(Offer(client, frame), browser, "state.capabilities", "capabilities", frame[2])
  BY <1>1, <1>3, OfferedKnows
<1>5. ASSUME NEW type, NEW field, NEW v, <<type, field>> \in Fields, type # frame[1], Knows(client, browser, type, field, v)
      PROVE  Knows(Offer(client, frame), browser, type, field, v)
  BY <1>1, <1>5, OfferedKnows
<1> QED BY <1>2, <1>4, <1>5

\* The capabilities are announced, and the announcing session goes on or ends.
LEMMA CapabilitiesKeeps ==
  ASSUME HubInv, NEW h \in Conn, Capabilities(h)
  PROVE  HubInv'
<1> DEFINE frame == <<"state.capabilities", Robot>>
<1>1. /\ client' = Offer(client, frame) /\ capabilities' = Robot
      /\ UNCHANGED <<connection, status, age, current, linked, browser>>
      /\ task' \in {[task EXCEPT ![h] = "serving"], [task EXCEPT ![h] = "idle"]}
  BY DEF Capabilities, publish
<1>2. frame \in Published /\ frame[1] = "state.capabilities" /\ frame[2] = Robot
  BY DEF Published
<1> HIDE DEF frame
<1>3. HubTypes /\ CaughtUp
  BY DEF HubInv
<1>4. /\ <<"state.robot_status", "status">> \in Fields /\ <<"state.connection", "connection">> \in Fields
  BY DEF Fields
<1>5. /\ ClientFits(client')
      /\ Knows(client', browser, "state.capabilities", "capabilities", Robot)
      /\ Knows(client', browser, "state.connection", "connection", connection)
      /\ Knows(client', browser, "state.robot_status", "status", status)
  BY <1>1, <1>2, <1>3, <1>4, PublishTells DEF CaughtUp
<1>6. task' \in [Conn \cup {Monitor} -> Tasks]
  BY <1>1, <1>3 DEF HubTypes, Tasks
<1>7. HubTypes'
  BY <1>1, <1>3, <1>5, <1>6 DEF HubTypes
<1>8. CaughtUp'
  BY <1>1, <1>5 DEF CaughtUp
<1> QED BY <1>7, <1>8 DEF HubInv

\* A robot session ends.
LEMMA LeaveKeeps ==
  ASSUME HubInv, flag \in BOOLEAN, NEW h \in Conn, Leave(h)
  PROVE  HubInv'
<1>1. /\ task[h] = "leaving" /\ linked' = linked \ {h} /\ age' = "never"
      /\ Apply(h, "offline", "saving", "closing", "idle") /\ UNCHANGED <<capabilities, current, browser>>
  BY DEF Leave
<1>2. Informs /\ Moves(h, {"saving", "closing", "idle"})
  BY <1>1, ApplyTells DEF Connections
<1>3. ~(h = current /\ ~Introduced)
  BY <1>1 DEF Introduced
<1>4. {"saving", "closing", "idle"} \in SUBSET Tasks /\ age' \in Ages /\ linked' \subseteq Conn
  BY <1>1 DEF HubInv, HubTypes, Ages, Tasks
<1> QED BY <1>1, <1>2, <1>3, <1>4, MoveKeeps

\* Every step of a gateway that the event loop will run.
LEMMA GatewayKeeps ==
  ASSUME HubInv, flag \in BOOLEAN, NEW h \in Conn, Gateway(h)
  PROVE  HubInv'
BY SwapKeeps, SettledKeeps, CapabilitiesKeeps, LeaveKeeps, PersistedKeeps DEF Gateway, Tasks

\* A connection that begins, or ends, before the hub is told.
LEMMA SocketKeeps ==
  ASSUME HubInv, NEW h \in Conn, Hello(h) \/ Hangup(h)
  PROVE  HubInv'
<1>1. UNCHANGED <<connection, status, capabilities, age, current, linked, client, browser>>
  BY DEF Hello, Hangup, stateVars
<1>2. Informs
  BY <1>1, StillInforms
<1>3. Moves(h, {"replacing", "leaving", "idle"})
  BY DEF Hello, Hangup, Moves
<1>4. ~(h = current /\ ~Introduced)
  BY DEF Hello, Hangup, Introduced
<1>5. {"replacing", "leaving", "idle"} \in SUBSET Tasks /\ age' \in Ages /\ linked' \subseteq Conn
  BY <1>1 DEF HubInv, HubTypes, Ages, Tasks
<1> QED BY <1>1, <1>2, <1>3, <1>4, <1>5, MoveKeeps

----------------------------------------------------------------------------
(* The robot's frames, the browser, the requests and a restart.            *)

\* A browser that is not connected.
LEMMA NoClientFits == ClientFits(NoClient) /\ Unconnected \in Views
<1>1. <<>> \in Seq(Frames) /\ Len(<<>>) = 0
  OBVIOUS
<1>2. NoClient \in Clients
  BY <1>1 DEF NoClient, Clients
<1>3. NoClient.queue = <<>> /\ NoClient.overloaded = FALSE /\ NoClient.at = "none"
  BY DEF NoClient
<1>4. ClientFits(NoClient)
  BY <1>1, <1>2, <1>3, TelemetryAssumption DEF ClientFits
<1>5. Unconnected \in Views
  BY DEF Unconnected, Views, Connections, Statuses
<1> QED BY <1>4, <1>5

\* A browser that is not there knows whatever it should.
LEMMA NobodyKnows ==
  ASSUME NEW b, NEW type, NEW field, NEW v
  PROVE  Knows(NoClient, b, type, field, v)
BY DEF Knows, NoClient

\* A step that leaves the hub's variables alone changes no type of theirs.
LEMMA HubStill ==
  ASSUME HubTypes, UNCHANGED hubVars
  PROVE  (ClientFits(client') /\ browser' \in Views => HubTypes') /\ Introduced' = Introduced
BY DEF HubTypes, hubVars, stateVars, Introduced

\* A reading or a heartbeat of the robot (handle_robot_message).
LEMMA RobotKeeps ==
  ASSUME HubInv, flag \in BOOLEAN, NEW h \in Conn, Reading(h) \/ Heartbeat(h)
  PROVE  HubInv'
<1> DEFINE frame == <<"telemetry.pose", "">>
<1>1. UNCHANGED <<connection, capabilities, current, linked, task, browser>> /\ age' = "fresh"
  BY DEF Reading, Heartbeat
<1>2. HubTypes /\ CaughtUp
  BY DEF HubInv
<1>3. frame \in Published /\ frame[1] = "telemetry.pose"
  BY DEF Published
<1> HIDE DEF frame
<1>4. Informs
  <2>1. CASE _emit_derived(connection, client)
    BY <1>1, <1>2, <2>1, DeriveTells DEF HubTypes
  <2>2. CASE _emit_derived(connection, Offer(client, frame))
    <3>1. ClientFits(Offer(client, frame))
      BY <1>3, PublishTells
    <3>2. \A type, field : <<type, field>> \in Fields => type # frame[1]
      BY <1>3 DEF Fields
    <3>3. \A type, field, v : <<type, field>> \in Fields /\ Knows(client, browser, type, field, v)
                                => Knows(Offer(client, frame), browser, type, field, v)
      BY <1>3, <3>2, PublishTells
    <3> QED BY <1>1, <2>2, <3>1, <3>3, DeriveTells
  <2> QED BY <2>1, <2>2 DEF Reading, Heartbeat, frame
<1>5. HubTypes'
  BY <1>1, <1>2, <1>4 DEF HubTypes, Informs
<1>6. CaughtUp'
  BY <1>1, <1>2, <1>4 DEF CaughtUp, Informs, Introduced
<1> QED BY <1>5, <1>6 DEF HubInv

\* A snapshot that nothing overtook, at the end of the queue, tells all there is.
LEMMA JoinsKeeps ==
  ASSUME HubInv, Joins
  PROVE  HubInv'
<1> DEFINE frame == <<"server.snapshot", client.snapshot>>
           cl == Offer(client, frame)
<1>1. /\ client.at = "joining" /\ UNCHANGED <<hubVars, browser>>
      /\ client' = [cl EXCEPT !.at = "live", !.snapshot = <<>>, !.overtaken = client.snapshot # View]
  BY DEF Joins
<1>2. HubTypes /\ ClientFits(client) /\ client \in Clients /\ client.snapshot \in Views
  BY <1>1 DEF HubInv, HubTypes, ClientFits
<1>3. frame \in Frames /\ frame[1] = "server.snapshot" /\ frame[2] = client.snapshot
  BY <1>2 DEF Frames
<1>4. ClientFits(cl)
  BY <1>2, <1>3, OfferedFits
<1>5. ASSUME ~cl.overloaded, client.snapshot = View, NEW type, NEW field, <<type, field>> \in Fields, NEW b
      PROVE  Carries(cl.queue, b, type, field, View[field])
  <2>1. Tells(frame, type) /\ Says(field, frame) = View[field]
    BY <1>3, <1>5 DEF Tells, Says
  <2>2. \E r \in Seq(Frames) : cl.queue = Append(r, frame)
    <3> DEFINE q == client.queue
               k == Oldest(Expendable(q))
    <3>0. q \in Seq(Frames) /\ Len(q) \in Nat /\ DOMAIN q = 1 .. Len(q)
      BY <1>2, LenProperties DEF Clients
    <3>1. client.at # "none" /\ ~client.overloaded
      BY <1>1, <1>2, <1>5 DEF Offer, Clients
    <3>2. CASE Len(q) < Limit
      BY <1>2, <3>0, <3>1, <3>2 DEF Offer, Clients
    <3>3. CASE ~(Len(q) < Limit) /\ Expendable(q) = {}
      BY <1>2, <1>5, <3>1, <3>3 DEF Offer, Clients
    <3>4. CASE ~(Len(q) < Limit) /\ Expendable(q) # {}
      <4>1. Expendable(q) \in SUBSET Nat /\ Expendable(q) \subseteq 1 .. Len(q)
        BY <3>0 DEF Expendable
      <4>2. k \in 1 .. Len(q)
        BY <3>4, <4>1, OldestIs
      <4>3. RemoveAt(q, k) \in Seq(Frames)
        BY <3>0, <4>2, RemoveAtIs
      <4>4. cl.queue = Append(RemoveAt(q, k), frame)
        BY <1>2, <3>1, <3>4 DEF Offer, Clients
      <4> QED BY <4>3, <4>4
    <3> QED BY <3>2, <3>3, <3>4
  <2> HIDE DEF frame, cl
  <2>3. PICK r \in Seq(Frames) : cl.queue = Append(r, frame)
    BY <2>2
  <2> QED BY <1>3, <2>1, <2>3, AppendCarries
<1> HIDE DEF frame, cl
<1>6. /\ client'.at = "live" /\ client'.queue = cl.queue /\ client'.overloaded = cl.overloaded
      /\ (client'.overtaken <=> client.snapshot # View)
      /\ client' \in Clients
  BY <1>1, <1>4 DEF ClientFits, Clients
<1>7. ClientFits(client')
  BY <1>4, <1>6 DEF ClientFits
<1>8. HubTypes'
  BY <1>1, <1>2, <1>7, HubStill DEF HubTypes
<1>9. ASSUME NEW type, NEW field, <<type, field>> \in Fields
      PROVE  Knows(client', browser', type, field, View[field])
  BY <1>5, <1>6, <1>9 DEF Knows
<1>10. View.connection = connection /\ View.status = status /\ View.capabilities = capabilities
  BY DEF View
<1>11. /\ <<"state.robot_status", "status">> \in Fields /\ <<"state.connection", "connection">> \in Fields
       /\ <<"state.capabilities", "capabilities">> \in Fields
  BY DEF Fields
<1>12. CaughtUp'
  BY <1>1, <1>9, <1>10, <1>11 DEF CaughtUp, hubVars, stateVars
<1> QED BY <1>8, <1>12 DEF HubInv

\* The sender takes from the queue what the browser then has.
LEMMA SendKeeps ==
  ASSUME HubInv, Send
  PROVE  HubInv'
<1> DEFINE q == client.queue
           t == Tail(q)
           b == handleFrame(browser, Head(q))
<1>1. /\ client.at = "live" /\ q # <<>> /\ ~client.overloaded
      /\ client' = [client EXCEPT !.queue = t] /\ browser' = b /\ UNCHANGED hubVars
  BY DEF Send
<1>2. HubTypes /\ CaughtUp /\ ClientFits(client) /\ client \in Clients /\ q \in Seq(Frames) /\ browser \in Views
  BY DEF HubInv, HubTypes, ClientFits, Clients
<1>3. t \in Seq(Frames) /\ Head(q) \in Frames /\ Len(t) = Len(q) - 1 /\ Len(q) \in Nat
  BY <1>1, <1>2, TakeFirst
<1>4. b \in Views
  <2>1. <<"state.connection", "connection">> \in Fields
    BY DEF Fields
  <2> QED BY <1>2, <1>3, <2>1, HandledIs
<1>5. ASSUME NEW type, NEW field, <<type, field>> \in Fields, NEW v, Carries(q, browser, type, field, v)
      PROVE  Carries(t, b, type, field, v)
  BY <1>1, <1>2, <1>5, SendCarries
<1> HIDE DEF t, b
<1>6. ClientFits(client')
  BY <1>1, <1>2, <1>3, TelemetryAssumption DEF ClientFits, Clients
<1>7. HubTypes'
  BY <1>1, <1>2, <1>4, <1>6, HubStill
<1>8. ASSUME NEW type, NEW field, <<type, field>> \in Fields, NEW v, Knows(client, browser, type, field, v)
      PROVE  Knows(client', browser', type, field, v)
  BY <1>1, <1>2, <1>5, <1>8 DEF Knows, Clients
<1>9. /\ <<"state.robot_status", "status">> \in Fields /\ <<"state.connection", "connection">> \in Fields
      /\ <<"state.capabilities", "capabilities">> \in Fields
  BY DEF Fields
<1>10. CaughtUp'
  BY <1>1, <1>2, <1>8, <1>9, HubStill DEF CaughtUp, hubVars, stateVars
<1> QED BY <1>7, <1>10 DEF HubInv

\* Joining, sending and closing of a browser.
LEMMA BrowserKeeps ==
  ASSUME HubInv, BrowserStep
  PROVE  HubInv'
<1>0. HubTypes /\ CaughtUp /\ client \in Clients /\ browser \in Views
  BY DEF HubInv, HubTypes, ClientFits
<1>1. CASE Join
  <2> DEFINE cl == [NoClient EXCEPT !.at = "joining", !.snapshot = View]
  <2>1. client' = cl /\ browser' = [browser EXCEPT !.ws = TRUE] /\ UNCHANGED hubVars
    BY <1>1 DEF Join
  <2>2. View \in Views
    BY <1>0 DEF View, Views, HubTypes
  <2>3. NoClient \in Clients /\ NoClient.queue = <<>> /\ NoClient.overloaded = FALSE
    BY NoClientFits DEF ClientFits, NoClient
  <2>4. cl \in Clients /\ cl.at = "joining" /\ cl.queue = <<>> /\ cl.overloaded = FALSE /\ cl.snapshot = View
    <3> HIDE DEF NoClient
    <3> QED BY <2>2, <2>3 DEF Clients
  <2> HIDE DEF cl
  <2>5. ClientFits(cl)
    BY <2>2, <2>4, TelemetryAssumption DEF ClientFits
  <2>6. browser' \in Views
    BY <1>0, <2>1 DEF Views
  <2>7. HubTypes'
    BY <1>0, <2>1, <2>5, <2>6, HubStill
  <2>8. CaughtUp'
    BY <2>1, <2>4 DEF CaughtUp, Knows
  <2> QED BY <2>7, <2>8 DEF HubInv
<1>2. CASE Closes
  <2>1. client' = NoClient /\ browser' = Unconnected /\ UNCHANGED hubVars
    BY <1>2 DEF Closes
  <2>2. HubTypes'
    BY <1>0, <2>1, NoClientFits, HubStill
  <2>3. CaughtUp'
    BY <2>1, NobodyKnows DEF CaughtUp
  <2> QED BY <2>2, <2>3 DEF HubInv
<1> QED BY <1>1, <1>2, JoinsKeeps, SendKeeps DEF BrowserStep

\* A request tells an event, derives the status, or does not concern the hub.
LEMMA RequestKeeps ==
  ASSUME HubInv, flag \in BOOLEAN, NEW c, Tell(c) \/ Answer(c)
  PROVE  HubInv'
<1> DEFINE frame == <<"event.append", "">>
<1>0. HubTypes /\ CaughtUp /\ ClientFits(client)
  BY DEF HubInv, HubTypes
<1>1. CASE Tell(c)
  <2>1. client' = Offer(client, frame) /\ UNCHANGED <<hubVars, browser>>
    BY <1>1 DEF Tell, publish
  <2>2. frame \in Published /\ frame[1] = "event.append"
    BY DEF Published
  <2>3. /\ <<"state.robot_status", "status">> \in Fields /\ <<"state.connection", "connection">> \in Fields
        /\ <<"state.capabilities", "capabilities">> \in Fields
    BY DEF Fields
  <2> HIDE DEF frame
  <2>4. ClientFits(client') /\ browser' \in Views
    BY <1>0, <2>1, <2>2, PublishTells DEF HubTypes
  <2>5. HubTypes'
    BY <1>0, <2>1, <2>4, HubStill
  <2>6. \A type, field, v : <<type, field>> \in Fields /\ Knows(client, browser, type, field, v)
                              => Knows(client', browser, type, field, v)
    <3>1. \A type, field : <<type, field>> \in Fields => type # frame[1]
      BY <2>2 DEF Fields
    <3> QED BY <2>1, <2>2, <3>1, PublishTells
  <2>7. CaughtUp'
    BY <1>0, <2>1, <2>3, <2>6, HubStill DEF CaughtUp, hubVars, stateVars
  <2> QED BY <2>5, <2>7 DEF HubInv
<1>2. CASE Answer(c)
  <2>1. _emit_derived(connection, client)
        /\ UNCHANGED <<connection, capabilities, age, current, linked, task, browser>>
    BY <1>2 DEF Answer
  <2>2. Informs
    BY <1>0, <2>1, DeriveTells
  <2>3. HubTypes'
    BY <1>0, <2>1, <2>2 DEF HubTypes, Informs
  <2>4. CaughtUp'
    BY <1>0, <2>1, <2>2 DEF CaughtUp, Informs, Introduced
  <2> QED BY <2>3, <2>4 DEF HubInv
<1> QED BY <1>1, <1>2

\* A server that restarts has no browser to tell.
LEMMA RestartForgets ==
  ASSUME HubInv, HubRestarts
  PROVE  HubInv'
<1>1. /\ connection' = "offline" /\ status' = "offline" /\ capabilities' = {} /\ age' = "never" /\ current' = None
      /\ linked' = {} /\ task' = [h \in DOMAIN task |-> "idle"] /\ client' = NoClient /\ browser' = Unconnected
  BY DEF HubRestarts
<1>2. DOMAIN task = Conn \cup {Monitor}
  BY DEF HubInv, HubTypes
<1>3. HubTypes'
  BY <1>1, <1>2, NoClientFits DEF HubTypes, Tasks, Connections, Statuses
<1>4. CaughtUp'
  BY <1>1, NobodyKnows DEF CaughtUp
<1> QED BY <1>3, <1>4 DEF HubInv

\* The hub starts within its types, and with nobody to know anything.
LEMMA InitHub == Init => HubInv
<1> SUFFICES ASSUME Init PROVE HubInv
  OBVIOUS
<1>0. Serving \/ (TelemetryInit /\ StateInit)
  BY DEF Init, TelemetryInit
<1>1. /\ connection \in Connections /\ status \in Statuses /\ capabilities \in {{}, Robot} /\ age \in Ages
      /\ client = NoClient /\ browser = Unconnected /\ task \in [Conn \cup {Monitor} -> Tasks]
      /\ current \in {None} \cup Conn /\ linked \subseteq Conn
  <2>1. CASE Serving
    <3>1. 1 \in Conn
      BY TelemetryAssumption DEF Conn
    <3>2. task \in [Conn \cup {Monitor} -> Tasks]
      BY <2>1 DEF Serving, Tasks
    <3> QED BY <2>1, <3>1, <3>2 DEF Serving, Connections, Statuses, Ages
  <2>2. CASE TelemetryInit /\ StateInit
    <3>1. task \in [Conn \cup {Monitor} -> Tasks]
      BY <2>2 DEF TelemetryInit, Tasks
    <3> QED BY <2>2, <3>1 DEF TelemetryInit, StateInit, Connections, Statuses, Ages
  <2> QED BY <1>0, <2>1, <2>2
<1>2. HubTypes
  BY <1>1, NoClientFits DEF HubTypes, Ages
<1>3. CaughtUp
  BY <1>1, NobodyKnows DEF CaughtUp
<1> QED BY <1>2, <1>3 DEF HubInv

----------------------------------------------------------------------------
\* Every step of the server keeps what its browser knows.
LEMMA HubKeeps == RecInv /\ HubInv /\ [Next]_vars => HubInv'
<1> SUFFICES ASSUME RecInv, HubInv, [Next]_vars PROVE HubInv'
  OBVIOUS
<1>0. flag \in BOOLEAN
  BY DEF RecInv, RecTypes, QueueTypes
<1>1. UNCHANGED vars_t => HubInv'
  BY DEF vars_t, hubVars, stateVars, HubInv, HubTypes, CaughtUp, Introduced
<1>2. CASE RecorderStep
  BY <1>0, <1>1, <1>2, RequestKeeps DEF RecorderStep, Request, StartRequest
<1>3. CASE RobotStep
  BY <1>0, <1>3, RobotKeeps DEF RobotStep
<1>4. CASE SessionStep
  <2>1. ASSUME NEW until \in {"silent", "late"}, Quiet(until) PROVE HubInv'
    BY <2>1 DEF Quiet, HubInv, HubTypes, CaughtUp, Introduced
  <2> QED BY <1>0, <1>4, <2>1, GatewayKeeps, SocketKeeps, MonitorKeeps DEF SessionStep
<1>5. CASE BrowserStep
  BY <1>5, BrowserKeeps
<1>6. CASE Restart
  BY <1>6, RestartForgets DEF Restart
<1>7. CASE UNCHANGED vars
  BY <1>1, <1>7 DEF vars
<1> QED BY <1>2, <1>3, <1>4, <1>5, <1>6, <1>7 DEF Next

\* The hub and the recorder keep their invariants together: the status follows
\* the recorder's flag.
LEMMA HubInvariant == Spec => [](RecInv /\ HubInv)
<1>1. Init => RecInv /\ HubInv
  BY InitRec, InitHub
<1>2. RecInv /\ HubInv /\ [Next]_vars => (RecInv /\ HubInv)'
  BY RecKeeps, HubKeeps
<1> QED BY <1>1, <1>2, PTL DEF Spec

\* The types and bounds of both sides: the writer's queue and the recorder's
\* samples (writer.py, put_nowait; recorder.py, offer), and the queue of a
\* browser, which is condemned only when it is full of frames that may not be
\* dropped (hub.py, QUEUE_LIMIT and offer).
THEOREM TypesHold == Spec => []TypeOK
<1>1. RecInv => RecTypeOK
  <2> SUFFICES ASSUME RecInv PROVE RecTypeOK
    OBVIOUS
  <2>1. RowTypes /\ QueueTypes /\ CallTypes /\ Counted
    BY DEF RecInv, RecTypes
  <2>2. ASSUME NEW r \in Row PROVE count[r] <= accepted[r]
    <3>1. Waiting(r) \in Nat /\ count[r] \in Nat /\ lost[r] \in Nat /\ accepted[r] \in Nat
      BY <2>1, WaitingIs DEF RowTypes
    <3>2. count[r] + lost[r] + Waiting(r) <= accepted[r]
      BY <2>1 DEF Counted, Balanced, Sums
    <3> QED BY <3>1, <3>2
  <2>3. writing.id \in {None} \cup Row
    BY <2>1 DEF QueueTypes, Writes, NoWrite
  <2> QED BY <2>1, <2>2, <2>3 DEF RecTypeOK, RowTypes, QueueTypes, CallTypes, Calls
<1>2. HubInv => TelemetryTypeOK
  BY DEF HubInv, HubTypes, ClientFits, TelemetryTypeOK, Connections, Statuses, Views
<1>3. RecInv /\ HubInv => TypeOK
  BY <1>1, <1>2 DEF TypeOK
<1> QED BY <1>3, HubInvariant, PTL

\* A browser that is neither disconnected nor overloaded nor was sent a snapshot
\* that its own await let others overtake will show the connection, the status
\* and the announced capabilities that the server has, once it has its queue
\* (hub.py, BrowserClient: eviction only ever takes an unprotected frame).
THEOREM BrowserIsCaughtUp == Spec => []BrowserCatchesUp
<1>1. HubInv => BrowserCatchesUp
  <2> SUFFICES ASSUME HubInv, client.at = "live", ~client.overloaded, ~client.overtaken PROVE ShowsServer
    BY DEF BrowserCatchesUp
  <2>1. client.queue \in Seq(Frames) /\ CaughtUp
    BY DEF HubInv, HubTypes, ClientFits, Clients
  <2>2. ASSUME NEW type, NEW field, NEW v, Knows(client, browser, type, field, v)
        PROVE  Shown(type, field) = v
    BY <2>1, <2>2, ShownIs DEF Knows
  <2> QED BY <2>1, <2>2 DEF ShowsServer, CaughtUp, Introduced
<1> QED BY <1>1, HubInvariant, PTL
=============================================================================
