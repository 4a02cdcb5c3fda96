---------------------------- MODULE MCTaskManager ----------------------------
(* A small dispatch queue: two plan tasks whose priorities are closer than   *)
(* the preemption margin and that share a dedup key, an urgent task, and the *)
(* curiosity item.                                                           *)
EXTENDS TaskManager

MCCuriosity == [id |-> "curiosity", prio |-> -1]

MCItem == {[id |-> "gather", prio |-> 50], [id |-> "mine", prio |-> 53],
           [id |-> "retreat", prio |-> 110], MCCuriosity}

MCDedupKey == [i \in MCItem |-> IF i.id \in {"gather", "mine"} THEN "wood" ELSE i.id]

=============================================================================
