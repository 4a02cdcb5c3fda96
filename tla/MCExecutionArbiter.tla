------------------------- MODULE MCExecutionArbiter -------------------------
(* A small arbiter: two plan tasks of one kind, the prep orchestrator's     *)
(* retreat, a panic reflex and an idle look nobody asks for.  Durations     *)
(* keep the order of the code's (minimum hold < survival timeout <          *)
(* cooldown, backoff doubling up to its cap) in units of one Tick.          *)
EXTENDS ExecutionArbiter

MCTask == {"plan1", "plan2", "escape", "reflex", "idle1"}

MCKind ==
    [t \in Task |-> CASE t \in {"plan1", "plan2"} -> "gather"
                        [] t = "escape" -> "retreat"
                        [] t = "reflex" -> "emergency_reflex"
                        [] t = "idle1" -> "look"]

MCDeclaredPriority ==
    [t \in Task |-> CASE t = "plan1" -> 0
                        [] t = "plan2" -> 60
                        [] t = "escape" -> 110
                        [] t = "reflex" -> 1000
                        [] t = "idle1" -> -1]

(* one cause of each class, and a controlled stop, which is not passed on *)
MCCause == {"BLOCKED", "death", "preempted", "plan_invalidated"}

=============================================================================
