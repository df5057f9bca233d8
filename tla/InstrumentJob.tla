--------------------------- MODULE InstrumentJob ---------------------------
(***************************************************************************)
(* What "go-easy-instrumentation instrument <path>" promises to the shell, *)
(* in whichever mode it runs: a job succeeds or fails once, and the process *)
(* ends saying "Done!" only if it succeeded and with status 1 only if it   *)
(* or its display failed.  The user can interrupt it, and a panic or a     *)
(* broken display can end it, at any time.                                 *)
(***************************************************************************)
VARIABLES job,   \* working, succeeded or failed
          exit   \* none, then how the process ended

Init == job = "working" /\ exit = "none"

Work == /\ exit = "none"
        /\ job = "working"
        /\ job' \in {"succeeded", "failed"}
        /\ exit' = exit

Report == /\ exit = "none"
          /\ \/ job = "succeeded" /\ exit' = "done"
             \/ job = "failed" /\ exit' = "error"
          /\ job' = job

(* Interrupted, killed or left by its display, whatever it has come to.    *)
Cancel == /\ exit = "none"
          /\ exit' \in {"silent", "killed", "panic", "broken"}
          /\ job' = job

Next == Work \/ Report \/ Cancel

(* The job does not hang, and its outcome is reported.                     *)
Spec == /\ Init /\ [][Next]_<<job, exit>>
        /\ WF_<<job, exit>>(Next)
=============================================================================
