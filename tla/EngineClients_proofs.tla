------------------------- MODULE EngineClients_proofs -------------------------
(***************************************************************************)
(* Proofs about the engine under arbitrary callers, for any actions,       *)
(* contexts and reasons and any number of goroutines.                      *)
(***************************************************************************)
EXTENDS EngineClients, TLAPS

USE DEF EngineAssumption

Threads == threads \subseteq Goroutine
Record == inFlight \in [id : Id, started : BOOLEAN] \union {NoTask}

(* A spawned goroutine is at the beginning of its work. *)
LEMMA SpawnAdds ==
    ASSUME Threads, NEW id \in Id, NEW ctx \in Ctx \union {Background},
           NEW label \in {"dispatch", "preload"}, Spawn(id, ctx, label)
    PROVE  /\ Threads'
           /\ threads \subseteq threads'
           /\ \E g \in threads' : g.id = id /\ g.pc = label
<1> DEFINE free == {n \in 1..MaxThreads :
                      \A g \in threads : (g.id = id /\ g.ctx = ctx) => g.n # n}
           new == [id |-> id, ctx |-> ctx, n |-> CHOOSE n \in free : TRUE, pc |-> label]
<1>1. free # {} /\ threads' = threads \union {new}
  BY DEF Spawn
<1>2. (CHOOSE n \in free : TRUE) \in free
  BY <1>1
<1>3. new \in Goroutine
  BY <1>2 DEF Goroutine
<1>4. new \in threads' /\ new.id = id /\ new.pc = label
  BY <1>1
<1> HIDE DEF new, free
<1>5. QED
  BY <1>1, <1>3, <1>4 DEF Threads

(* A goroutine moves on within its type. *)
LEMMA GoToStays ==
    ASSUME Threads, NEW g \in threads, NEW label \in {"loop", "abort"}, GoTo(g, label)
    PROVE  /\ Threads'
           /\ \A h \in threads \ {g} : h \in threads'
           /\ \E h \in threads' : h.id = g.id /\ h.pc = label
<1>1. [g EXCEPT !.pc = label] \in Goroutine
  BY DEF Threads, Goroutine
<1>2. [g EXCEPT !.pc = label].id = g.id /\ [g EXCEPT !.pc = label].pc = label
  BY DEF Threads, Goroutine
<1>3. QED
  BY <1>1, <1>2 DEF GoTo, Threads

(* Whatever is in flight is dispatched or watched by a goroutine, however   *)
(* the engine's callers and goroutines interleave.                          *)
THEOREM AlwaysWatched == Spec => []InFlightWatched
<1> DEFINE Inv == Threads /\ Record /\ InFlightWatched
<1>1. ClientsInit => Inv
  BY DEF ClientsInit, Init, Threads, Record, InFlightWatched
<1>2. Inv /\ [Next]_vars => Inv'
  <2> SUFFICES ASSUME Inv, [Next]_vars PROVE Inv'
    OBVIOUS
  <2> USE DEF Record, InFlightWatched, InFlight
  <2>1. ASSUME NEW ctx \in Ctx \union {Background}, NEW id \in Id, ExecuteAsync(ctx, id)
        PROVE  Inv'
    BY <2>1, SpawnAdds DEF ExecuteAsync
  <2>2. ASSUME NEW id \in Id, Preload(id) PROVE Inv'
    <3>1. CASE UNCHANGED threads
      BY <2>2, <3>1 DEF Preload, Threads
    <3>2. CASE Spawn(id, Background, "preload")
      BY <2>2, <3>2, SpawnAdds DEF Preload
    <3>3. QED
      BY <2>2, <3>1, <3>2 DEF Preload
  <2>3. ASSUME NEW id \in Id, OnTaskStart(id) \/ OnTaskEnd(id) PROVE Inv'
    BY <2>3 DEF OnTaskStart, OnTaskEnd, Threads
  <2>4. CASE CheckStuckTasks
    BY <2>4 DEF CheckStuckTasks, Threads
  <2>5. CASE UNCHANGED <<inFlight, threads>>
    BY <2>5 DEF Threads
  <2>6. ASSUME NEW reason \in Reason, AbortBegins(reason) PROVE Inv'
    BY <2>6 DEF AbortBegins, ForgetInFlight, Threads
  <2>7. ASSUME NEW g \in threads, ThreadStep(g) PROVE Inv'
    <3>1. CASE ThreadDispatch(g)
      BY <3>1, GoToStays DEF ThreadDispatch, At
    <3>2. CASE ThreadPreload(g)
      BY <3>2 DEF ThreadPreload, At, Exit, Threads
    <3>3. CASE ThreadCancelled(g)
      BY <3>3, GoToStays DEF ThreadCancelled, ForgetInFlight
    <3>4. CASE ThreadAbort(g)
      BY <3>4 DEF ThreadAbort, At, Exit, Threads
    <3>5. CASE ThreadExit(g)
      BY <3>5 DEF ThreadExit, Exit, Threads
    <3>6. QED
      BY <2>7, <3>1, <3>2, <3>3, <3>4, <3>5 DEF ThreadStep
  <2>8. QED
    BY <2>1, <2>2, <2>3, <2>4, <2>5, <2>6, <2>7
       DEF Next, ExecuteCancellable, Cancel, AbortSends, Take, vars, engineVars
<1>3. QED
  BY <1>1, <1>2, PTL DEF Spec

=============================================================================
