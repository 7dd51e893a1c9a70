------------------------------ MODULE JobStream ------------------------------
(***************************************************************************)
(* The event log of one job and the SSE streams that follow it: nextSeq,   *)
(* emit, finish and failJob of pkg/job, Broker, Stream and drain of        *)
(* pkg/handler/job_handler.go, and the EventSource of the web client       *)
(* (web/src/store/jobStore.ts).                                            *)
(*                                                                         *)
(* The run goroutine (Main) emits started, then the workers emit item and  *)
(* progress events side by side, then Main emits a last progress, writes   *)
(* the verdict and emits finished.  To emit is three steps: take a number, *)
(* insert the row, notify the subscribers.  A stream knows only the last   *)
(* number it sent and reads the rows above it.  A client that loses its    *)
(* stream comes back with the last number it received, until it has the    *)
(* finished event.                                                         *)
(***************************************************************************)
EXTENDS Integers, Sequences, FiniteSets, FiniteSetsExt, SequencesExt

CONSTANTS Workers,   \* the workers of the job
          Main,      \* its run goroutine
          Clients,   \* SSE clients
          Emissions, \* bound: events the workers emit between them
          Batch,     \* eventBatch
          MaxFaults, \* bound: database calls that fail
          MaxDrops   \* bound: connections that break

ASSUME ConstantsOK == /\ Main \notin Workers
                      /\ Emissions \in Nat
                      /\ Batch \in Nat \ {0}
                      /\ MaxFaults \in Nat
                      /\ MaxDrops \in Nat

Emitters == Workers \union {Main}

VARIABLES
  log,       \* DB: the numbers of the rows in job_events
  ended,     \* DB: the number of the finished event, 0 while it has no row
  terminal,  \* DB: jobs.status is terminal
  counter,   \* Manager.seq[job], NoCounter when there is none
  stage,     \* where Main is
  todo,      \* events the workers have still to emit
  step,      \* where each emitter is within emit
  number,    \* the number it took
  subs,      \* Broker.subs[job]: the clients subscribed
  signal,    \* the one-place channel of each subscriber is full
  at,        \* where the stream of each client is
  lastSeq,   \* lastSeq of the stream
  sent,      \* this drain has sent something
  seen,      \* terminal, as the stream remembers it
  got,       \* the numbers of the events the client has received, in order
  faults, drops

jobVars    == <<ended, terminal, stage, todo>>
emitVars   == <<log, counter, step, number>>
streamVars == <<at, lastSeq, sent, seen, got>>
vars == <<jobVars, emitVars, subs, signal, streamVars, faults, drops>>

NoCounter == -1

\* The stream of a client: "off" when it does not watch, "cut" when its EventSource has
\* lost the stream and will come back, "over" when it has closed it for good.
Streaming == {"subscribe", "drain", "judge", "wait"}

\* The client has closed its EventSource if it has the finished event.
HasFinished(received) == ended # 0 /\ ended \in Range(received)
AfterLoss(received) == IF HasFinished(received) THEN "over" ELSE "cut"
Stages == {"begin", "items", "working", "summary", "verdict", "goodbye",
           "failing", "complain", "done", "dead"}

Init == /\ log = {}
        /\ ended = 0
        /\ terminal = FALSE
        /\ counter = NoCounter
        /\ stage = "begin"
        /\ todo = Emissions
        /\ step = [p \in Emitters |-> "idle"]
        /\ number = [p \in Emitters |-> 0]
        /\ subs = {}
        /\ signal = [c \in Clients |-> FALSE]
        /\ at = [c \in Clients |-> "off"]
        /\ lastSeq = [c \in Clients |-> 0]
        /\ sent = [c \in Clients |-> FALSE]
        /\ seen = [c \in Clients |-> FALSE]
        /\ got = [c \in Clients |-> <<>>]
        /\ faults = 0
        /\ drops = 0

Fails == faults < MaxFaults /\ faults' = faults + 1

-----------------------------------------------------------------------------
(* emit.                                                                   *)

\* When Main emits, and when a worker does, once it is started.
MayEmit(p) == IF p = Main THEN stage \in {"begin", "summary", "goodbye", "complain"}
                          ELSE stage \notin {"begin", "items", "dead"} /\ todo > 0

\* Seeded fault: the number is the highest row plus one.
TakeNumber_fromLog(p) ==
  /\ step[p] = "idle"
  /\ MayEmit(p)
  /\ counter' = Max(log \union {0}) + 1
  /\ number' = [number EXCEPT ![p] = counter']
  /\ step' = [step EXCEPT ![p] = "numbered"]
  /\ todo' = IF p = Main THEN todo ELSE todo - 1
  /\ UNCHANGED <<log, ended, terminal, stage, subs, signal, streamVars, faults, drops>>

\* nextSeq, under seqMu: a missing counter starts at the highest row, or at 0
\* when that cannot be read.
TakeNumber(p) ==
  /\ step[p] = "idle"
  /\ MayEmit(p)
  /\ \/ /\ counter # NoCounter
        /\ counter' = counter + 1
        /\ UNCHANGED faults
     \/ /\ counter = NoCounter
        /\ counter' = Max(log \union {0}) + 1
        /\ UNCHANGED faults
     \/ /\ counter = NoCounter
        /\ Fails
        /\ counter' = 1
  /\ number' = [number EXCEPT ![p] = counter']
  /\ step' = [step EXCEPT ![p] = "numbered"]
  /\ todo' = IF p = Main THEN todo ELSE todo - 1
  /\ UNCHANGED <<log, ended, terminal, stage, subs, signal, streamVars, drops>>

\* Main goes on after an emission; finish, but not failJob, drops the counter.
Proceed(p) ==
  IF p # Main THEN UNCHANGED <<stage, counter>>
  ELSE /\ stage' = CASE stage = "begin"   -> "items"
                     [] stage = "summary" -> "verdict"
                     [] OTHER             -> "done"
       /\ counter' = IF stage = "goodbye" THEN NoCounter ELSE counter

\* CreateJobEvent, with UNIQUE (job_id, seq).
Insert(p) ==
  /\ step[p] = "numbered"
  /\ number[p] \notin log
  /\ log' = log \union {number[p]}
  /\ ended' = IF p = Main /\ stage = "goodbye" THEN number[p] ELSE ended
  /\ step' = [step EXCEPT ![p] = "inserted"]
  /\ UNCHANGED <<counter, number, terminal, stage, todo, subs, signal, streamVars, faults,
                 drops>>

\* A failed insert is logged; nobody is notified.
InsertFails(p) ==
  /\ step[p] = "numbered"
  /\ \/ number[p] \in log /\ UNCHANGED faults
     \/ Fails
  /\ step' = [step EXCEPT ![p] = "idle"]
  /\ Proceed(p)
  /\ UNCHANGED <<log, number, ended, terminal, todo, subs, signal, streamVars, drops>>

\* Seeded fault: the channel has no place, so only a stream that waits gets the signal.
Notify_unbuffered(p) ==
  /\ step[p] = "inserted"
  /\ signal' = [c \in Clients |-> signal[c] \/ (c \in subs /\ at[c] = "wait")]
  /\ step' = [step EXCEPT ![p] = "idle"]
  /\ Proceed(p)
  /\ UNCHANGED <<log, number, ended, terminal, todo, subs, streamVars, faults, drops>>

\* Broker.Notify: a full channel stays full.
Notify(p) ==
  /\ step[p] = "inserted"
  /\ signal' = [c \in Clients |-> signal[c] \/ c \in subs]
  /\ step' = [step EXCEPT ![p] = "idle"]
  /\ Proceed(p)
  /\ UNCHANGED <<log, number, ended, terminal, todo, subs, streamVars, faults, drops>>

\* run reads the items; failJob takes over when it cannot.
ListPendingJobItems ==
  /\ stage = "items"
  /\ \/ stage' = "working" /\ UNCHANGED <<todo, faults>>
     \/ stage' = "failing" /\ todo' = 0 /\ Fails
  /\ UNCHANGED <<ended, terminal, emitVars, subs, signal, streamVars, drops>>

\* Manager.Stop notifies as well, without an event.
StopNotify ==
  /\ ~terminal
  /\ signal' = [c \in Clients |-> signal[c] \/ c \in subs]
  /\ UNCHANGED <<jobVars, emitVars, subs, streamVars, faults, drops>>

\* Seeded fault: dispatch does not wait for its workers.
WorkersDone_noWait ==
  /\ stage = "working"
  /\ stage' = "summary"
  /\ UNCHANGED <<ended, terminal, todo, emitVars, subs, signal, streamVars, faults, drops>>

\* wg.Wait of dispatch.
WorkersDone ==
  /\ stage = "working"
  /\ todo = 0
  /\ \A w \in Workers : step[w] = "idle"
  /\ stage' = "summary"
  /\ UNCHANGED <<ended, terminal, todo, emitVars, subs, signal, streamVars, faults, drops>>

\* FinishJob comes before the last event, and its failure is only logged.
FinishJob ==
  /\ stage \in {"verdict", "failing"}
  /\ \/ terminal' = TRUE /\ UNCHANGED faults
     \/ Fails /\ UNCHANGED terminal
  /\ stage' = IF stage = "verdict" THEN "goodbye" ELSE "complain"
  /\ UNCHANGED <<ended, todo, emitVars, subs, signal, streamVars, drops>>

\* The process dies, and every stream with it; a later one knows only the database.
Crash ==
  /\ stage \notin {"done", "dead"}
  /\ stage' = "dead"
  /\ step' = [p \in Emitters |-> "idle"]
  /\ counter' = NoCounter
  /\ subs' = {}
  /\ at' = [c \in Clients |-> IF at[c] \in Streaming THEN AfterLoss(got[c]) ELSE at[c]]
  /\ UNCHANGED <<log, number, ended, terminal, todo, signal, lastSeq, sent, seen, got,
                 faults, drops>>

\* ReapStale marks the job interrupted; it writes no event.
ReapStale ==
  /\ stage = "dead"
  /\ terminal' = TRUE
  /\ UNCHANGED <<ended, stage, todo, emitVars, subs, signal, streamVars, faults, drops>>

-----------------------------------------------------------------------------
(* A stream.                                                               *)

\* Seeded fault: Last-Event-ID is ignored.
ResumeFrom_zero(c) == 0

\* Last-Event-ID: the last id the client has received.
ResumeFrom(c) == IF got[c] = <<>> THEN 0 ELSE Last(got[c])

\* watch, or a reconnection: Stream reads the job.
Connect(c) ==
  /\ at[c] \in {"off", "cut"}
  /\ seen' = [seen EXCEPT ![c] = terminal]
  /\ lastSeq' = [lastSeq EXCEPT ![c] = ResumeFrom(c)]
  /\ sent' = [sent EXCEPT ![c] = FALSE]
  /\ at' = [at EXCEPT ![c] = "subscribe"]
  /\ UNCHANGED <<jobVars, emitVars, subs, signal, got, faults, drops>>

\* A fresh channel, before the history is read.
Subscribe(c) ==
  /\ at[c] = "subscribe"
  /\ subs' = subs \union {c}
  /\ signal' = [signal EXCEPT ![c] = FALSE]
  /\ at' = [at EXCEPT ![c] = "drain"]
  /\ UNCHANGED <<jobVars, emitVars, lastSeq, sent, seen, got, faults, drops>>

\* ListJobEventsAfter: the rows above n in order, at most Batch of them.
EventsAfter(n) ==
  LET rest == {s \in log : s > n}
      Place(s) == Cardinality({t \in rest : t <= s})
  IN  [k \in 1..Min({Batch, Cardinality(rest)}) |-> CHOOSE s \in rest : Place(s) = k]

Leave(c, how) ==
  /\ at' = [at EXCEPT ![c] = how]
  /\ subs' = subs \ {c}

\* One round of drain: a full batch may have more behind it.
DrainBatch(c) ==
  LET rows == EventsAfter(lastSeq[c]) IN
  /\ at[c] = "drain"
  /\ rows # <<>>
  /\ got' = [got EXCEPT ![c] = @ \o rows]
  /\ lastSeq' = [lastSeq EXCEPT ![c] = Last(rows)]
  /\ sent' = [sent EXCEPT ![c] = TRUE]
  /\ at' = [at EXCEPT ![c] = IF Len(rows) = Batch THEN "drain" ELSE "judge"]
  /\ UNCHANGED <<jobVars, emitVars, subs, signal, seen, faults, drops>>

DrainNothing(c) ==
  /\ at[c] = "drain"
  /\ EventsAfter(lastSeq[c]) = <<>>
  /\ at' = [at EXCEPT ![c] = "judge"]
  /\ UNCHANGED <<jobVars, emitVars, subs, signal, lastSeq, sent, seen, got, faults, drops>>

\* The connection breaks within a batch (what was sent and never arrived counts as not
\* sent), the read fails, or the user stops watching.
Break(c) ==
  /\ at[c] \in {"drain", "wait"}
  /\ drops < MaxDrops
  /\ drops' = drops + 1
  /\ LET rows == EventsAfter(lastSeq[c]) IN
     \E n \in 0..Len(rows) :
       /\ n > 0 => at[c] = "drain"
       /\ got' = [got EXCEPT ![c] = @ \o SubSeq(rows, 1, n)]
  /\ Leave(c, "off") \/ Leave(c, AfterLoss(got'[c]))
  /\ UNCHANGED <<jobVars, emitVars, signal, lastSeq, sent, seen, faults>>

\* The client closes its EventSource when the finished event arrives.
HangUp(c) ==
  /\ at[c] \in {"drain", "judge", "wait"}
  /\ HasFinished(got[c])
  /\ Leave(c, "over")
  /\ UNCHANGED <<jobVars, emitVars, signal, lastSeq, sent, seen, got, faults, drops>>

\* Terminal and nothing left to send: the server closes the stream ...
Close(c) ==
  /\ at[c] = "judge"
  /\ seen[c] /\ ~sent[c]
  /\ Leave(c, AfterLoss(got[c]))
  /\ UNCHANGED <<jobVars, emitVars, signal, lastSeq, sent, seen, got, faults, drops>>

\* ... or the status is read again, if it was not terminal, and the stream waits.
GoOn(c) ==
  /\ at[c] = "judge"
  /\ ~(seen[c] /\ ~sent[c])
  /\ \/ seen' = [seen EXCEPT ![c] = @ \/ terminal] /\ UNCHANGED faults
     \/ ~seen[c] /\ Fails /\ UNCHANGED seen
  /\ sent' = [sent EXCEPT ![c] = FALSE]
  /\ at' = [at EXCEPT ![c] = "wait"]
  /\ UNCHANGED <<jobVars, emitVars, subs, signal, lastSeq, got, drops>>

Wake(c) ==
  /\ at[c] = "wait"
  /\ signal[c]
  /\ signal' = [signal EXCEPT ![c] = FALSE]
  /\ at' = [at EXCEPT ![c] = "drain"]
  /\ UNCHANGED <<jobVars, emitVars, subs, lastSeq, sent, seen, got, faults, drops>>

\* The one-second ticker, or the keepalive.
Tick(c) ==
  /\ at[c] = "wait"
  /\ at' = [at EXCEPT ![c] = "drain"]
  /\ UNCHANGED <<jobVars, emitVars, subs, signal, lastSeq, sent, seen, got, faults, drops>>

-----------------------------------------------------------------------------
Emit(p) == TakeNumber(p) \/ Insert(p) \/ InsertFails(p) \/ Notify(p)

Stream(c) == \/ Subscribe(c)
             \/ DrainBatch(c) \/ DrainNothing(c)
             \/ HangUp(c) \/ Close(c) \/ GoOn(c)
             \/ Wake(c)

Job == ListPendingJobItems \/ WorkersDone \/ FinishJob

\* The job is over, and so is every stream.
Rest == /\ stage \in {"done", "dead"}
        /\ \A c \in Clients : at[c] = "over"
        /\ UNCHANGED vars

Next == \/ \E p \in Emitters : Emit(p)
        \/ Job \/ StopNotify \/ Crash \/ ReapStale
        \/ \E c \in Clients : Connect(c) \/ Stream(c) \/ Tick(c) \/ Break(c)
        \/ Rest

Spec == Init /\ [][Next]_vars

\* The goroutines of the job and of the streams are scheduled, and an EventSource that
\* is cut comes back; a client need not start to watch.  The ticker and the keepalive
\* may never fire: Notify alone must wake a stream.
Fairness == /\ \A p \in Emitters : WF_vars(Emit(p))
            /\ WF_vars(Job)
            /\ \A c \in Clients : WF_vars(Stream(c)) /\ WF_vars(HangUp(c))
                                 /\ WF_vars(at[c] = "cut" /\ Connect(c))

FairSpec == Spec /\ Fairness

-----------------------------------------------------------------------------
(* Properties.                                                             *)

\* Two emitters never hold the same number, and no insert hits the UNIQUE (job_id,
\* seq) constraint: an event is lost only to a fault of the database's own.
NumbersAreFresh ==
  /\ \A p \in Emitters : step[p] = "numbered" => number[p] \notin log
  /\ \A p, q \in Emitters :
       (p # q /\ step[p] = "numbered" /\ step[q] = "numbered") => number[p] # number[q]

\* A client sees no event twice and sees them in order, over all its connections.
InOrder ==
  \A c \in Clients : \A m, n \in DOMAIN got[c] : m < n => got[c][m] < got[c][n]

\* The finished event has the highest number of the log, so a client that resumes after
\* whatever it has can still read it.
FinishedIsLast == ended # 0 => ended = Max(log)

\* An event that is behind a stream has been received by its client: a slow client
\* reads late, it never misses an event (job_handler.go:93-95).
NoEventSkipped ==
  \A c \in Clients : at[c] \in Streaming =>
    \A s \in log : s <= lastSeq[c] => s \in Range(got[c])

\* Once the finished event is in the log, every client that watches receives it and
\* hangs up, whether it is slow, is cut off, or finds the stream closed too early,
\* and without the help of the ticker.
FinishReaches ==
  \A c \in Clients : (ended # 0 /\ at[c] # "off") ~> (at[c] \in {"over", "off"})

\* A client does not come back for ever to a job that has ended (jobStore.ts:161-162).
WatchingEnds ==
  \A c \in Clients : (terminal /\ at[c] # "off") ~> (at[c] \in {"over", "off"})
=============================================================================
