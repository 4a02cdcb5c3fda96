----------------------------- MODULE EngineClients -----------------------------
(***************************************************************************)
(* TaskEngine on its own: its callers (dispatch queue, arbiter, event      *)
(* handlers) call it at any time and with any task, and contexts are       *)
(* cancelled at any time, as Complete, Halt and preemption do.             *)
(***************************************************************************)
EXTENDS TaskEngine

CONSTANT NoReason   \* no caller is inside AbortCurrent

VARIABLE aborting   \* the reason a caller inside AbortCurrent still has to send

vars == <<engineVars, liveCtx, aborting>>

ClientsInit ==
    /\ Init
    /\ liveCtx = {}
    /\ aborting = NoReason

(* ctx, cancel := context.WithCancel(...); ExecuteAsync(ctx, id): a context  *)
(* is not reused while a goroutine still watches it.  tm.mu is free between  *)
(* the two, so that the context may be cancelled before the engine gets it.  *)
Fresh(c) == c \notin liveCtx /\ \A g \in threads : g.ctx # c

ExecuteCancellable(c, id) ==
    /\ Fresh(c)
    /\ ExecuteAsync(c, id)
    /\ liveCtx' \in {liveCtx, liveCtx \union {c}}
    /\ UNCHANGED aborting

Cancel(c) ==
    /\ liveCtx' = liveCtx \ {c}
    /\ UNCHANGED <<engineVars, aborting>>

AbortBegins(reason) ==
    /\ aborting = NoReason
    /\ ForgetInFlight
    /\ aborting' = reason
    /\ UNCHANGED <<threads, outbox, liveCtx>>

AbortSends ==
    /\ aborting # NoReason
    /\ Send(Aborted(aborting))
    /\ aborting' = NoReason
    /\ UNCHANGED <<inFlight, threads, liveCtx>>

(* the connection manager takes the next message *)
Take ==
    /\ outbox # << >>
    /\ outbox' = Tail(outbox)
    /\ UNCHANGED <<inFlight, threads, liveCtx, aborting>>

Next ==
    \/ \E c \in Ctx, id \in Id : ExecuteCancellable(c, id)
    \/ \E id \in Id : /\ \/ ExecuteAsync(Background, id)
                         \/ Preload(id)
                         \/ OnTaskStart(id)
                         \/ OnTaskEnd(id)
                      /\ UNCHANGED <<liveCtx, aborting>>
    \/ CheckStuckTasks /\ UNCHANGED <<liveCtx, aborting>>
    \/ \E c \in liveCtx : Cancel(c)
    \/ \E reason \in Reason : AbortBegins(reason)
    \/ AbortSends
    \/ \E g \in threads : ThreadStep(g) /\ UNCHANGED <<liveCtx, aborting>>
    \/ Take

Spec == ClientsInit /\ [][Next]_vars

=============================================================================
