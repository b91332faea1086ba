------------------------------- MODULE DspCycle -------------------------------
(***************************************************************************)
(* What one processing period of the Synthpod engine promises about the    *)
(* modules of its graph, whoever runs them: between the start and the end  *)
(* of a period every module present runs exactly once, and a module starts *)
(* only after every module that feeds it has ended.  The graph of the      *)
(* period is fixed when the period starts.  DspMaster implements this with *)
(* a pool of threads, reference counts and compare-and-swap.               *)
(***************************************************************************)
EXTENDS Naturals

CONSTANTS
  NumMods,  \* how many modules there may be; a module is its rank in app->mods
  Edges     \* the connections the patch may hold, as <<source, sink>>

VARIABLES
  phase,    \* "idle" between periods, "cycle" inside one, "stopped" at shutdown
  plan,     \* the edges of the period, from a lower to a higher rank
  status    \* what has become of each module in the period

vars == <<phase, plan, status>>

Mods == 1 .. NumMods

Forward == {e \in Edges : e[1] < e[2]}

Init ==
  /\ phase = "idle"
  /\ plan = {}
  /\ status = [m \in Mods |-> "off"]

(* A period starts: some modules are present, connected by some edges. *)
Start ==
  /\ phase = "idle"
  /\ phase' = "cycle"
  /\ status' \in [Mods -> {"off", "todo"}]
  /\ plan' \in SUBSET Forward
  /\ \A e \in plan' : status'[e[1]] = "todo" /\ status'[e[2]] = "todo"

(* A module starts once all its sources have ended. *)
Begin(m) ==
  /\ phase = "cycle"
  /\ status[m] = "todo"
  /\ \A e \in plan : e[2] = m => status[e[1]] = "done"
  /\ status' = [status EXCEPT ![m] = "running"]
  /\ UNCHANGED <<phase, plan>>

End(m) ==
  /\ phase = "cycle"
  /\ status[m] = "running"
  /\ status' = [status EXCEPT ![m] = "done"]
  /\ UNCHANGED <<phase, plan>>

(* The period ends when nothing is left to do and nobody is at work. *)
Finish ==
  /\ phase = "cycle"
  /\ \A m \in Mods : status[m] \in {"off", "done"}
  /\ phase' = "idle"
  /\ plan' = {}
  /\ status' = [m \in Mods |-> "off"]

Stop ==
  /\ phase = "idle"
  /\ phase' = "stopped"
  /\ UNCHANGED <<plan, status>>

Next ==
  \/ Start
  \/ \E m \in Mods : Begin(m) \/ End(m)
  \/ Finish
  \/ Stop

Spec == Init /\ [][Next]_vars

===============================================================================
