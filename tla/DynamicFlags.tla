----------------------------- MODULE DynamicFlags -----------------------------
(***************************************************************************)
(* The feature flags that follow a file (internal/config/flags.go) and the *)
(* goroutine that hands them to the humanizer and the execution engine     *)
(* (the hot-reload loop of cmd/server/main.go).  The watcher looks at the  *)
(* file's time, then at its time again, then at its content; the file may  *)
(* be written at any moment, and be found half-written.  The loop has      *)
(* subscribed before the watcher's first look, 5 seconds after the start.  *)
(*                                                                         *)
(* Assumed: the clock of the file system tells any two writings apart.  Of *)
(* two that it gives the same time the later one may go unnoticed.         *)
(***************************************************************************)
EXTENDS Naturals

CONSTANTS
    Key, Value, \* a flag may have any value; some flag of the default is
    Broken,     \* a file that cannot be parsed
    MaxWrites   \* bound: how often the file is written

VARIABLES
    content, modTime,   \* of the file; each writing has a later time (see above)
    flags, lastMod,     \* DynamicFlags.flags, lastMod
    watcher,            \* what Watch is at, and the time that LoadFromFile read
    signal,             \* whether the subscriber's channel is full
    consumer,           \* what the loop is at, and the flags it hands out
    applied             \* by component, the flags it was given last

vars == <<content, modTime, flags, lastMod, watcher, signal, consumer, applied>>

Flags == [Key -> Value]
Content == (UNION {[ks -> Value] : ks \in SUBSET Key}) \union {Broken}
Component == {"humanizer", "engine"}
Waiting == [at |-> "waiting", flags |-> CHOOSE f \in Flags : TRUE]
Sleeping == [at |-> "sleeping", time |-> 0]
-----------------------------------------------------------------------------
(* NewDynamicFlags has loaded the file, if it could.                        *)
Init ==
    /\ content = Broken /\ modTime = 0
    /\ flags \in Flags /\ lastMod = 0
    /\ watcher = Sleeping /\ signal = FALSE /\ consumer = Waiting
    /\ applied = [c \in Component |-> flags]

FileWritten ==
    /\ modTime < MaxWrites
    /\ content' \in Content /\ modTime' = modTime + 1
    /\ UNCHANGED <<flags, lastMod, watcher, signal, consumer, applied>>

(* hasConfigChanged, at the tick of the watcher *)
CheckChanged ==
    /\ watcher.at = "sleeping" /\ modTime > lastMod
    /\ watcher' = [watcher EXCEPT !.at = "stat"]
    /\ UNCHANGED <<content, modTime, flags, lastMod, signal, consumer, applied>>

StatFile ==
    /\ watcher.at = "stat"
    /\ watcher' = [at |-> "read", time |-> modTime]
    /\ UNCHANGED <<content, modTime, flags, lastMod, signal, consumer, applied>>

(* What the file does not mention keeps its value.                          *)
Merged(c) == [k \in Key |-> IF k \in DOMAIN c THEN c[k] ELSE flags[k]]

LoadFile ==
    /\ watcher.at = "read"
    /\ IF content = Broken
       THEN watcher' = Sleeping /\ UNCHANGED <<flags, lastMod>>
       ELSE /\ flags' = Merged(content)
            /\ lastMod' = watcher.time
            /\ watcher' = [watcher EXCEPT !.at = "notify"]
    /\ UNCHANGED <<content, modTime, signal, consumer, applied>>

(* A signal that waits already will do.                                     *)
Notify ==
    /\ watcher.at = "notify"
    /\ signal' = TRUE /\ watcher' = Sleeping
    /\ UNCHANGED <<content, modTime, flags, lastMod, consumer, applied>>

-----------------------------------------------------------------------------
(* Bug: the flags are read before the signal is waited for                  *)
ReadsAhead(f) == consumer.flags
Reads(f) == f

ConsumerTakes ==
    /\ consumer.at = "waiting" /\ signal
    /\ signal' = FALSE
    /\ consumer' = [consumer EXCEPT !.at = "get"]
    /\ UNCHANGED <<content, modTime, flags, lastMod, watcher, applied>>

ConsumerGets ==
    /\ consumer.at = "get"
    /\ consumer' = [at |-> "humanizer", flags |-> Reads(flags)]
    /\ UNCHANGED <<content, modTime, flags, lastMod, watcher, signal, applied>>

UpdateConfig(c, then) ==
    /\ consumer.at = c
    /\ applied' = [applied EXCEPT ![c] = consumer.flags]
    /\ consumer' = [consumer EXCEPT !.at = then]
    /\ UNCHANGED <<content, modTime, flags, lastMod, watcher, signal>>

Next ==
    \/ FileWritten \/ CheckChanged \/ StatFile \/ LoadFile \/ Notify
    \/ ConsumerTakes \/ ConsumerGets
    \/ UpdateConfig("humanizer", "engine") \/ UpdateConfig("engine", "waiting")

-----------------------------------------------------------------------------
TypeOK ==
    /\ content \in Content /\ modTime \in 0..MaxWrites /\ lastMod \in 0..modTime
    /\ flags \in Flags /\ applied \in [Component -> Flags] /\ signal \in BOOLEAN
    /\ watcher.at \in {"sleeping", "stat", "read", "notify"} /\ watcher.time \in 0..modTime
    /\ consumer \in [at : {"waiting", "get", "humanizer", "engine"}, flags : Flags]

(* A change of the flags reaches both components: one that works with       *)
(* others than the current ones will be given them, for a signal waits, the *)
(* watcher is about to give one, or the loop has them in hand; and what the *)
(* file said last is in the flags, unless the watcher will see that it is   *)
(* newer.                                                                   *)
Underway(c) ==
    \/ signal \/ watcher.at = "notify" \/ consumer.at = "get"
    \/ consumer.flags = flags /\ consumer.at \in {c, "humanizer"}

SignalNotLost ==
    /\ \A c \in Component : applied[c] # flags => Underway(c)
    /\ modTime > lastMod \/ content = Broken \/ flags = Merged(content)

=============================================================================
