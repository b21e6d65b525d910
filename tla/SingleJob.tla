------------------------------ MODULE SingleJob ------------------------------
(***************************************************************************)
(* What EFI_SCRIPT_ENGINE_PROTOCOL promises its users, without timers,     *)
(* jump buffers or memory: an engine that holds at most one script, runs   *)
(* each accepted script exactly once from start to end, possibly in        *)
(* slices, and turns every launch down while it holds one.                 *)
(***************************************************************************)
CONSTANTS Job, NULL

VARIABLES job,    \* the accepted script that has not ended, or NULL
          phase,  \* "idle", "pending", "running" or "asleep"
          done    \* scripts that have run to their end

jobVars == <<job, phase, done>>

Init == job = NULL /\ phase = "idle" /\ done = {}

\* ExecuteAsync leaves the script pending, Execute runs it at once.
Accept(j) ==
  /\ phase = "idle" /\ j \notin done
  /\ job' = j
  /\ phase' \in {"pending", "running"}
  /\ UNCHANGED done

Run == /\ phase \in {"pending", "asleep"}
       /\ phase' = "running"
       /\ UNCHANGED <<job, done>>

Sleep == /\ phase = "running"
         /\ phase' = "asleep"
         /\ UNCHANGED <<job, done>>

End == /\ phase = "running"
       /\ done' = done \cup {job}
       /\ job' = NULL
       /\ phase' = "idle"

Next == (\E j \in Job : Accept(j)) \/ Run \/ Sleep \/ End

Spec == Init /\ [][Next]_jobVars
FairSpec == Spec /\ WF_jobVars(Run)
=============================================================================
