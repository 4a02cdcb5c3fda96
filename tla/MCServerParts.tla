----------------------------- MODULE MCServerParts -----------------------------
(* A small instance of ServerParts for TLC.                                 *)
EXTENDS ServerParts

(* A task starts and ends, then a state, and a message without a handler.   *)
MCSent == <<"TASK_START", "TASK_COMPLETED", "STATE_UPDATE", "PANIC_TRIGGERED">>
MCTaskOf == <<1, 1, 0, 0>>

=============================================================================
