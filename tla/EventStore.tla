------------------------------ MODULE EventStore ------------------------------
(***************************************************************************)
(* The way of an event into the database: the bot's message is given its   *)
(* type (event_normalizer.go, handleBotConnection in cmd/server/main.go)   *)
(* and published; the sinks put it into one of two channels, four workers  *)
(* drain both and append to the store (eventstore/sqlite.go), whose worker *)
(* inserts in batches; a full buffer means an insertion at once.  Showing  *)
(* the event to the operator comes after Append and is left to UIHub.      *)
(*                                                                         *)
(* Stored events have the position in the log for ID.  The log is what     *)
(* learning/projections.go counts attempts from.                           *)
(***************************************************************************)
EXTENDS Naturals, Sequences, FiniteSets, SequencesExt

CONSTANTS
    Event,      \* 1..n, in the order of their publication
    Sent,       \* [Event -> the type the bot sends], a task's number for its events
    TaskOf,     \* [Event -> Nat]
    Worker,
    ChanCap, BufferCap, BatchSize,
    MaxFaults   \* bound: insertions the database refuses

VARIABLES
    sunk,       \* the events the sinks have taken up
    channels,   \* criticalWorkerCh and eventWorkerCh
    workers,    \* what each worker is at
    buffer,     \* SQLiteStore.buffer
    batch,      \* of batchWorker
    batcher,    \* where batchWorker is
    log,        \* the table of events
    phase,      \* of the server: "up", "stopping", "closing", "closed"
    lost,       \* events that will not be stored
    faults,     \* refused insertions
    overflowed  \* a channel was full

vars == <<sunk, channels, workers, buffer, batch, batcher, log, phase, lost, faults, overflowed>>
storeVars == <<buffer, batch, batcher, log>>
-----------------------------------------------------------------------------
(* A message type that is not in the switch has no handler. *)
NormalizeEventType(s) ==
    CASE s \in {"TASK_END", "TASKEND", "TASK_COMPLETED", "TASK_FAILED", "TASK_ABORTED"} -> "TASK_END"
      [] s \in {"TASK_START", "TASKSTART"} -> "TASK_START"
      [] s \in {"STATE_UPDATED", "STATEUPDATE", "STATE_UPDATE", "STATE_TICK", "STATETICK"} -> "STATE_TICK"
      [] s = "PANIC" -> "PANIC_TRIGGERED"
      [] s \in {"PLAN_CREATED", "PLAN_INVALIDATED", "PLAN_COMPLETED", "PLAN_FAILED", "BOT_DEATH",
                "BOT_RESPAWN", "PANIC_RESOLVED", "CONTROL_INPUT", "CAMERA_MOVE"} -> s
      [] OTHER -> "UNKNOWN"

Type(e) == NormalizeEventType(Sent[e])

Critical == {"TASK_START", "TASK_END", "PLAN_CREATED", "PLAN_INVALIDATED", "PLAN_COMPLETED", "PLAN_FAILED"}
Subscribed == Critical \union {"STATE_TICK", "STATE_UPDATED", "BOT_DEATH", "BOT_RESPAWN"}

Channel(e) == IF Type(e) \in Critical THEN "critical" ELSE "plain"
Free == [at |-> "select"]
Gone == [at |-> "gone"]

Init ==
    /\ sunk = {} /\ channels = [c \in {"critical", "plain"} |-> << >>]
    /\ workers = [w \in Worker |-> Free]
    /\ buffer = << >> /\ batch = << >> /\ batcher = "select" /\ log = << >>
    /\ phase = "up" /\ lost = {} /\ faults = 0 /\ overflowed = FALSE

(* globalSink, one proxy for each subscribed type: it waits 10 ms for a     *)
(* channel of critical events, and drops the event if it stays full.        *)
Sink(e) ==
    /\ e \notin sunk /\ phase # "closed"
    /\ \A d \in Event : (d < e /\ Type(d) = Type(e)) => d \in sunk
    /\ sunk' = sunk \union {e}
    /\ IF Type(e) \notin Subscribed THEN UNCHANGED <<channels, lost, overflowed>>
       ELSE IF Len(channels[Channel(e)]) < ChanCap
       THEN /\ channels' = [channels EXCEPT ![Channel(e)] = Append(@, e)]
            /\ UNCHANGED <<lost, overflowed>>
       ELSE /\ lost' = lost \union {e} /\ overflowed' = TRUE
            /\ UNCHANGED channels
    /\ UNCHANGED <<workers, storeVars, phase, faults>>

-----------------------------------------------------------------------------
(* The workers *)
WorkerTakes(w) ==
    /\ workers[w] = Free
    /\ \E c \in DOMAIN channels :
          /\ channels[c] # << >>
          /\ workers' = [workers EXCEPT ![w] = [at |-> "append", event |-> Head(channels[c])]]
          /\ channels' = [channels EXCEPT ![c] = Tail(@)]
    /\ UNCHANGED <<sunk, storeVars, phase, lost, faults, overflowed>>

(* case <-ctx.Done() *)
WorkerStops(w) ==
    /\ workers[w] = Free /\ phase # "up"
    /\ workers' = [workers EXCEPT ![w] = Gone]
    /\ UNCHANGED <<sunk, channels, storeVars, phase, lost, faults, overflowed>>

At(w, label) == workers[w] # Free /\ workers[w] # Gone /\ workers[w].at = label
Done(w) == workers' = [workers EXCEPT ![w] = Free]
unchangedByAppend == <<sunk, channels, batch, batcher, phase, overflowed>>

AppendBuffers(w) ==
    /\ At(w, "append") /\ Len(buffer) < BufferCap
    /\ buffer' = Append(buffer, workers[w].event)
    /\ Done(w)
    /\ UNCHANGED <<log, lost, faults, unchangedByAppend>>

AppendGivesUp(w) ==
    /\ At(w, "append") /\ phase # "up"
    /\ lost' = lost \union {workers[w].event}
    /\ Done(w)
    /\ UNCHANGED <<buffer, log, faults, unchangedByAppend>>

AppendFindsFull(w) ==
    /\ At(w, "append") /\ phase = "up" /\ Len(buffer) = BufferCap
    /\ workers' = [workers EXCEPT ![w].at = "insert"]
    /\ UNCHANGED <<buffer, log, lost, faults, unchangedByAppend>>

(* insertBatch is one transaction under a mutex: all events or none, and    *)
(* none if its context is cancelled.                                        *)
Refused == faults < MaxFaults /\ faults' = faults + 1

InsertAtOnce(w) ==
    /\ At(w, "insert")
    /\ \/ /\ phase = "up"
          /\ log' = Append(log, workers[w].event)
          /\ UNCHANGED <<lost, faults>>
       \/ /\ Refused \/ (phase # "up" /\ UNCHANGED faults)
          /\ lost' = lost \union {workers[w].event}
          /\ UNCHANGED log
    /\ Done(w)
    /\ UNCHANGED <<buffer, unchangedByAppend>>

-----------------------------------------------------------------------------
(* batchWorker *)
unchangedByBatcher == <<sunk, channels, workers, phase, overflowed>>

JoinedInFront(b, e) == <<e>> \o b   \* bug: the batch is built backwards
Joined(b, e) == Append(b, e)

BatchTakes ==
    /\ batcher = "select" /\ buffer # << >>
    /\ batch' = Joined(batch, Head(buffer))
    /\ buffer' = Tail(buffer)
    /\ batcher' = IF Len(batch') >= BatchSize \/ Len(buffer') > BufferCap \div 2
                  THEN "flush" ELSE "select"
    /\ UNCHANGED <<log, lost, faults, unchangedByBatcher>>

FlushIsDueFull == batcher = "select" /\ Len(batch) >= BatchSize   \* bug: no timer
FlushIsDue == batcher = "select" /\ batch # << >>

TimerFires ==
    /\ FlushIsDue
    /\ batcher' = "flush"
    /\ UNCHANGED <<buffer, batch, log, lost, faults, unchangedByBatcher>>

(* flush forgets the batch whether or not it was inserted. *)
Insert == log' = log \o batch /\ UNCHANGED <<lost, faults>>
InsertFails == lost' = lost \union ToSet(batch) /\ UNCHANGED log

Flush ==
    /\ batcher = "flush"
    /\ IF phase = "closing" THEN InsertFails /\ UNCHANGED faults   \* flush(s.ctx)
       ELSE Insert \/ (Refused /\ InsertFails)
    /\ batch' = << >> /\ batcher' = "select"
    /\ UNCHANGED <<buffer, unchangedByBatcher>>

(* case <-s.ctx.Done(): the rest is inserted with a context of its own. *)
DrainBegins ==
    /\ batcher = "select" /\ phase = "closing"
    /\ batcher' = "drain"
    /\ UNCHANGED <<buffer, batch, log, lost, faults, unchangedByBatcher>>

DrainTakes ==
    /\ batcher = "drain" /\ buffer # << >> /\ Len(batch) < BatchSize
    /\ batch' = Joined(batch, Head(buffer))
    /\ buffer' = Tail(buffer)
    /\ UNCHANGED <<batcher, log, lost, faults, unchangedByBatcher>>

DrainFlushes ==
    /\ batcher = "drain" /\ (buffer = << >> \/ Len(batch) >= BatchSize)
    /\ Insert \/ (Refused /\ InsertFails)
    /\ batch' = << >>
    /\ batcher' = IF buffer = << >> THEN "done" ELSE "drain"
    /\ UNCHANGED <<buffer, unchangedByBatcher>>

-----------------------------------------------------------------------------
(* The signal cancels the context of the workers; g.Wait waits for them     *)
(* before the store is closed, which waits for batchWorker.                 *)
Shutdown ==
    /\ \/ phase = "up" /\ phase' = "stopping"
       \/ phase = "stopping" /\ (\A w \in Worker : workers[w] = Gone) /\ phase' = "closing"
       \/ phase = "closing" /\ batcher = "done" /\ phase' = "closed"
    /\ UNCHANGED <<sunk, channels, workers, storeVars, lost, faults, overflowed>>

Work(w) ==
    \/ WorkerTakes(w) \/ WorkerStops(w)
    \/ AppendBuffers(w) \/ AppendGivesUp(w) \/ AppendFindsFull(w) \/ InsertAtOnce(w)

Batch ==
    BatchTakes \/ TimerFires \/ Flush \/ DrainBegins \/ DrainTakes \/ DrainFlushes

Next ==
    \/ \E e \in Event : Sink(e)
    \/ \E w \in Worker : Work(w)
    \/ Batch \/ Shutdown

-----------------------------------------------------------------------------
TypeOK ==
    /\ sunk \subseteq Event /\ lost \subseteq Event
    /\ channels \in [{"critical", "plain"} -> Seq(Event)]
    /\ \A w \in Worker : workers[w] \in {Free, Gone} \union [at : {"append", "insert"}, event : Event]
    /\ buffer \in Seq(Event) /\ batch \in Seq(Event) /\ log \in Seq(Event)
    /\ Len(buffer) <= BufferCap /\ Len(batch) <= BatchSize
    /\ batcher \in {"select", "flush", "drain", "done"}
    /\ phase \in {"up", "stopping", "closing", "closed"}
    /\ faults \in 0..MaxFaults /\ overflowed \in BOOLEAN

(* The store implements the log: whatever the workers, the batches, the     *)
(* overflow of the buffer and the shutdown do, an event is stored at most   *)
(* once, what went through the buffer keeps its order, and nothing is lost  *)
(* but by a refused insertion, a full channel or the shutdown.              *)
Log == INSTANCE EventLog WITH
          queue <- batch \o buffer,
          excused <- faults > 0 \/ overflowed \/ phase # "up"

LogSpec == Log!Spec

(* What Append has accepted is inserted or lost in the end; it does not     *)
(* wait for others to fill the batch.                                       *)
AcceptedSettled ==
    \A e \in Event : Contains(batch \o buffer, e) ~> (Contains(log, e) \/ e \in lost)

-----------------------------------------------------------------------------
(* learning/projections.go: the end of a task in flight, one that started   *)
(* and has not ended since among the events looked at, is an attempt;       *)
(* GetProjectedStats adds the events since the snapshot to the numbers of   *)
(* the snapshot.                                                            *)
Attempts(events) ==
    LET Is(n, type, task) == Type(events[n]) = type /\ TaskOf[events[n]] = task
        InFlight(n, task) ==
            \E m \in 1..(n - 1) : /\ Is(m, "TASK_START", task)
                                  /\ \A i \in (m + 1)..(n - 1) : ~Is(i, "TASK_END", task)
    IN  Cardinality({n \in DOMAIN events : /\ Type(events[n]) = "TASK_END"
                                          /\ InFlight(n, TaskOf[events[n]])})

LastIDBefore(k) == 0   \* bug: the snapshot is saved under the ID of the one before
LastID(k) == k

Projected(k) ==
    Attempts(SubSeq(log, 1, k)) + Attempts(SubSeq(log, LastID(k) + 1, Len(log)))

(* Whenever a snapshot was saved, the statistics built on it never count an *)
(* attempt twice.  (A task that spans the snapshot is not counted at all.)  *)
StatsNeverOvercount == \A k \in 0..Len(log) : Projected(k) <= Attempts(log)

=============================================================================
