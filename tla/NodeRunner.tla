------------------------------ MODULE NodeRunner ------------------------------
(***************************************************************************)
(* The supervisor of the bot's process (internal/supervisor/runner.go): it *)
(* starts the process again after a delay that grows with the crashes, and *)
(* a watchdog kills a process from which no state has been heard for 45    *)
(* seconds.  Pings come from the bot's connection (cmd/server/main.go),    *)
(* which may outlive the process for a moment.  Time is counted in ticks   *)
(* of 5 seconds.                                                           *)
(***************************************************************************)
EXTENDS Naturals

VARIABLES
    pc,         \* "start", "running", "waiting", "stopped"
    crashCount, \* up to 4, where the delay stops growing (bound)
    sinceStart, \* the age of lastStartTime, up to Stable + 1
    sincePing,  \* the age of lastPing, up to Starved + 1
    delay       \* what is left of it

vars == <<pc, crashCount, sinceStart, sincePing, delay>>

Starved == 9
Stable == 60
Delay(crashes) == <<1, 1, 2, 6>>[crashes]   \* 1, 3, 10 and 30 seconds

Init ==
    /\ pc = "start" /\ crashCount = 0 /\ delay = 0
    /\ sinceStart = 0 /\ sincePing = Starved + 1

Tick ==
    /\ pc \in {"running", "waiting"}
    /\ pc = "waiting" => delay > 0
    /\ pc = "running" => sincePing <= Starved   \* the watchdog looks every 2 seconds
    /\ sinceStart' = IF sinceStart > Stable THEN sinceStart ELSE sinceStart + 1
    /\ sincePing' = IF sincePing > Starved THEN sincePing ELSE sincePing + 1
    /\ delay' = IF delay = 0 THEN 0 ELSE delay - 1
    /\ UNCHANGED <<pc, crashCount>>

PingNotReset == UNCHANGED sincePing   \* bug: the last process's ping counts
PingOnStartup == sincePing' = 0

waitBeforeRestart(crashes) ==
    /\ crashCount' = IF crashes < 4 THEN crashes + 1 ELSE 4
    /\ delay' = Delay(crashCount')
    /\ pc' = "waiting"

(* The loop's head.  The script's path may not resolve, which is tried      *)
(* again after 5 seconds and is no crash; cmd.Start may fail, which is one. *)
(* "Stable" includes the delay.                                             *)
Start ==
    /\ pc = "start"
    /\ LET crashes == IF sinceStart > Stable THEN 0 ELSE crashCount IN
       \/ pc' = "running" /\ crashCount' = crashes /\ UNCHANGED delay
       \/ pc' = "waiting" /\ crashCount' = crashes /\ delay' = 1
       \/ waitBeforeRestart(crashes)
    /\ sinceStart' = 0
    /\ PingOnStartup

WaitIsOver ==
    /\ pc = "waiting" /\ delay = 0
    /\ pc' = "start"
    /\ UNCHANGED <<crashCount, sinceStart, sincePing, delay>>

(* A message of the bot *)
Ping ==
    /\ pc \in {"running", "waiting"}
    /\ sincePing' = 0
    /\ UNCHANGED <<pc, crashCount, sinceStart, delay>>

ProcessEnds ==
    /\ pc = "running"
    /\ waitBeforeRestart(crashCount)
    /\ UNCHANGED <<sinceStart, sincePing>>

(* The watchdog: cmd.Wait returns from the kill.                            *)
Kill ==
    /\ pc = "running" /\ sincePing > Starved
    /\ waitBeforeRestart(crashCount)
    /\ UNCHANGED <<sinceStart, sincePing>>

(* ctx.Done() ends the process and the loop.                                *)
Stop ==
    /\ pc \in {"start", "running"}
    /\ pc' = "stopped"
    /\ UNCHANGED <<crashCount, sinceStart, sincePing, delay>>

Next == Tick \/ Start \/ WaitIsOver \/ Ping \/ ProcessEnds \/ Kill \/ Stop

-----------------------------------------------------------------------------
TypeOK ==
    /\ pc \in {"start", "running", "waiting", "stopped"} /\ crashCount \in 0..4
    /\ sinceStart \in 0..(Stable + 1) /\ sincePing \in 0..(Starved + 1)
    /\ delay \in 0..6

(* The watchdog kills only a process that itself had its 45 seconds: what   *)
(* its predecessor was silent for, and the delay in between, do not count.  *)
KillsOnlyStarved ==
    [][ (pc = "running" /\ sincePing > Starved /\ pc' = "waiting") => sinceStart > Starved ]_vars

=============================================================================
