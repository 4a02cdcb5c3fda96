---------------------------- MODULE MCTaskPipeline ----------------------------
(* A small pipeline: plans of one task each, one of them more urgent by more *)
(* than the preemption margin, one panic reflex, and one action of every     *)
(* other kind.                                                               *)
EXTENDS TaskPipeline

MCPriority == [id \in Id |->
                 CASE id = "farm" -> 40 [] id = "mine" -> 50 [] id = "retreat" -> 100
                   [] id = "escape" -> 110 [] OTHER -> 1000]

MCKey == [id \in Id |-> id]

Nothing ==
    [plan |-> 0, panic_triggered |-> 0, plan_invalidated |-> 0, bot_died |-> 0,
     resolved |-> 0, deadline |-> 0, window |-> 0, botPanic |-> 0, death |-> 0,
     disconnect |-> 0, humanize |-> 0, drift |-> 0, prep |-> 0, control |-> 0,
     cleanup |-> 0, failure |-> 0, forget |-> 0, any |-> 0]

(* any two things happen from outside: two plans, or a plan and one of the rest *)
TwoEvents == [what \in DOMAIN Nothing |-> IF what \in {"plan", "any"} THEN 2 ELSE 1]

(* a plan whose task fails: by itself, by its deadline, by a lost connection *)
Faults == [Nothing EXCEPT !.plan = 1, !.failure = 1, !.deadline = 1, !.cleanup = 1,
                          !.disconnect = 1, !.any = 4]

(* a plan whose task fails by itself, and the cleanup of the engine *)
PlanAndFailure == [Nothing EXCEPT !.plan = 1, !.failure = 1, !.cleanup = 1, !.any = 3]

=============================================================================
