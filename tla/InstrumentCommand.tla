------------------------- MODULE InstrumentCommand -------------------------
(***************************************************************************)
(* cmd/instrument.go.  The pipeline loads the packages and runs its steps  *)
(* in order, stopping at the first that fails.  On a terminal it runs in a *)
(* worker goroutine that reports to a Bubble Tea program over an unbuffered *)
(* channel: each message is received by a command (waitForNext) that the   *)
(* handling of the previous message started, and reaches Update later, on  *)
(* the event loop.  Without a terminal the steps run in main.              *)
(*                                                                         *)
(* Bubble Tea itself is modelled from its use here: commands run in their  *)
(* own goroutines, their messages are handled one at a time in any order,  *)
(* tea.Quit is a command whose message ends Run with the model as it is,   *)
(* and Run may fail at any time, on its own account.                       *)
(***************************************************************************)
EXTENDS Naturals, Sequences

CONSTANTS NumFiles,   \* files WriteDiff goes through
          None        \* nothing offered on the channel

ASSUME FilesAssumption == NumFiles \in Nat

TuiSteps  == <<"create", "register", "trace", "scan", "instrument", "resolve",
               "modules", "write">>
TextSteps_WriteFirst ==   \* faulty: the modules are added last
  <<"create", "trace", "scan", "instrument", "resolve", "write", "modules">>
TextSteps == <<"create", "trace", "scan", "instrument", "resolve", "modules",
               "write">>

VARIABLES
  mode,         \* "tui" or "text": runTUIMode or runTextMode was called
  step,         \* 0 while loading, then the position in Steps
  working,      \* the pipeline runs code; not while it sends, nor after it
  announced,    \* WriteDiff has reported the file it is about to write
  offered,      \* the message a blocked send offers, or None
  result,       \* of the pipeline: none, ok, failed
  receivers,    \* waitForNext commands blocked on the channel
  messages,     \* received, on their way to Update
  current,      \* model.currentStep
  done, err,    \* model.done, model.err # nil
  quitting,     \* a QuitMsg is on its way
  process,      \* running, or how it ended
  diff,         \* the diff file: as it was before, or created anew
  modules,      \* required modules added: none, some, all
  filesWritten, \* patches in the diff file
  interrupted,  \* history: Ctrl-C was pressed
  sent          \* history: progress messages sent

worker == <<step, working, announced, offered, result>>
link   == <<receivers, messages, sent>>
ui     == <<current, done, err, quitting>>
disk   == <<diff, modules, filesWritten>>
vars   == <<mode, worker, link, ui, process, disk, interrupted>>

Steps     == IF mode = "tui" THEN TuiSteps ELSE TextSteps
AtStep(s) == step \in DOMAIN Steps /\ Steps[step] = s
Message   == {"loaded", "progress", "error", "completed"}

ASSUME NoneAssumption == None \notin Message

Busy == process = "running" /\ working

-----------------------------------------------------------------------------
(* The pipeline: in the worker goroutine, or in main in text mode.         *)

(* updates <- msg: the worker stops until the message is received.         *)
Offer(msg) == offered' = msg /\ working' = FALSE

(* What the pipeline came to: the TUI worker sends it, in text mode        *)
(* instrumentPackages returns it.                                          *)
Outcome(res, msg) ==
  /\ result' = res
  /\ step' = step
  /\ IF mode = "tui" THEN Offer(msg)
     ELSE working' = FALSE /\ UNCHANGED offered

(* Faulty: the loop over the steps goes on after an error.                 *)
Fail_Ignored ==
  IF step = Len(Steps) THEN Outcome("ok", "completed")
  ELSE /\ step' = step + 1
       /\ UNCHANGED <<result, working, offered>>

Fail == Outcome("failed", "error")

Succeed_PastEnd ==   \* faulty: off by one
  IF step > Len(Steps) THEN Outcome("ok", "completed")
  ELSE /\ step' = step + 1
       /\ result' = result
       /\ IF mode = "tui" THEN Offer(IF step = 0 THEN "loaded" ELSE "progress")
          ELSE UNCHANGED <<working, offered>>

(* The step at hand is over: on to the next one, which is announced first. *)
Succeed ==
  IF step = Len(Steps) THEN Outcome("ok", "completed")
  ELSE /\ step' = step + 1
       /\ result' = result
       /\ IF mode = "tui" THEN Offer(IF step = 0 THEN "loaded" ELSE "progress")
          ELSE UNCHANGED <<working, offered>>

Load ==
  /\ Busy
  /\ step = 0
  /\ Succeed \/ Fail
  /\ UNCHANGED <<mode, announced, link, ui, process, disk, interrupted>>

CreateDiffFile ==
  /\ Busy
  /\ AtStep("create")
  /\ \/ Succeed /\ diff' = "new"
     \/ Fail /\ UNCHANGED diff
  /\ UNCHANGED <<mode, announced, link, ui, process, modules, filesWritten,
                 interrupted>>

(* Steps that work on the syntax trees only: registerIntegrations cannot   *)
(* fail, TracePackageCalls, ScanApplication and InstrumentApplication can; *)
(* ResolveUnitTests always returns nil.                                    *)
WorkOnTrees ==
  /\ Busy
  /\ step \in DOMAIN Steps
  /\ Steps[step] \in {"register", "trace", "scan", "instrument", "resolve"}
  /\ \/ Succeed
     \/ Steps[step] \in {"trace", "scan", "instrument"} /\ Fail
  /\ UNCHANGED <<mode, announced, link, ui, process, disk, interrupted>>

(* go get in each package: some packages have their modules when one fails. *)
AddRequiredModules ==
  /\ Busy
  /\ AtStep("modules")
  /\ \/ Succeed /\ modules' = "all"
     \/ Fail /\ modules' \in {"none", "some"}
  /\ UNCHANGED <<mode, announced, link, ui, process, diff, filesWritten,
                 interrupted>>

(* WriteDiff, for each file: read the original, report it, then restore it *)
(* and append its patch.  The callback of text mode does nothing.          *)
AnnounceFile ==
  /\ Busy
  /\ AtStep("write")
  /\ ~announced
  /\ filesWritten < NumFiles
  /\ \/ /\ announced' = TRUE
        /\ IF mode = "tui" THEN Offer("progress")
           ELSE UNCHANGED <<working, offered>>
        /\ UNCHANGED <<step, result>>
     \/ Fail /\ UNCHANGED announced
  /\ UNCHANGED <<mode, link, ui, process, disk, interrupted>>

WriteFile ==
  /\ Busy
  /\ AtStep("write")
  /\ announced
  /\ announced' = FALSE
  /\ \/ /\ filesWritten' = filesWritten + 1
        /\ UNCHANGED <<step, working, offered, result>>
     \/ Fail /\ UNCHANGED filesWritten
  /\ UNCHANGED <<mode, link, ui, process, diff, modules, interrupted>>

EndWriteDiff ==
  /\ Busy
  /\ AtStep("write")
  /\ ~announced
  /\ filesWritten = NumFiles
  /\ Succeed
  /\ UNCHANGED <<mode, announced, link, ui, process, disk, interrupted>>

(* A step panics, or exhausts its stack: the whole process dies.           *)
Panic ==
  /\ Busy
  /\ process' = "panic"
  /\ UNCHANGED <<mode, worker, link, ui, disk, interrupted>>

Pipeline == \/ Load \/ CreateDiffFile \/ WorkOnTrees \/ AddRequiredModules
            \/ AnnounceFile \/ WriteFile \/ EndWriteDiff

-----------------------------------------------------------------------------
(* The channel.  After pkgLoadedMsg the worker offers the first step right *)
(* away; after an error or the completion it has returned.                 *)
Receive ==
  /\ process = "running"
  /\ offered # None
  /\ receivers > 0
  /\ receivers' = receivers - 1
  /\ messages' = Append(messages, offered)
  /\ offered' = IF offered = "loaded" THEN "progress" ELSE None
  /\ working' = (offered = "progress")
  /\ sent' = IF offered = "progress" THEN sent + 1 ELSE sent
  /\ UNCHANGED <<mode, step, announced, result, ui, process, disk,
                 interrupted>>

-----------------------------------------------------------------------------
(* The event loop.                                                         *)

(* Which messages make Update start another waitForNext.                   *)
Awaits_Loaded(msg) == msg = "progress"   \* faulty: not after pkgLoadedMsg
Awaits(msg)        == msg \in {"loaded", "progress"}

Update ==
  /\ process = "running"
  /\ \E i \in DOMAIN messages :
       LET msg == messages[i]
       IN  /\ messages' = SubSeq(messages, 1, i - 1) \o
                          SubSeq(messages, i + 1, Len(messages))
           /\ current' = IF msg = "progress" THEN current + 1 ELSE current
           /\ err' = (err \/ msg = "error")
           /\ done' = (done \/ msg = "completed")
           /\ quitting' = (quitting \/ msg \in {"error", "completed"})
           /\ receivers' = IF Awaits(msg) THEN receivers + 1 ELSE receivers
  /\ UNCHANGED <<mode, worker, sent, process, disk, interrupted>>

(* Ctrl-C: a key the program handles in the TUI, a signal otherwise.       *)
Interrupt ==
  /\ process = "running"
  /\ ~interrupted
  /\ interrupted' = TRUE
  /\ IF mode = "tui" THEN quitting' = TRUE /\ UNCHANGED process
     ELSE process' = "killed" /\ UNCHANGED quitting
  /\ UNCHANGED <<mode, worker, link, current, done, err, disk>>

ReturnText_Done ==   \* faulty: the error is printed like a success
  /\ process = "running"
  /\ mode = "text"
  /\ result # "none"
  /\ process' = "done"
  /\ UNCHANGED <<mode, worker, link, ui, disk, interrupted>>

(* runTextMode prints what instrumentPackages returned, or exits with 1.   *)
ReturnText ==
  /\ process = "running"
  /\ mode = "text"
  /\ result # "none"
  /\ process' = IF result = "ok" THEN "done" ELSE "error"
  /\ UNCHANGED <<mode, worker, link, ui, disk, interrupted>>

Quit_DoneFirst ==    \* faulty: the error of the model is not looked at
  /\ process = "running"
  /\ quitting
  /\ process' = IF done THEN "done" ELSE "silent"
  /\ UNCHANGED <<mode, worker, link, ui, disk, interrupted>>

(* Run returns, and main with it; the goroutines end where they are.       *)
Quit ==
  /\ process = "running"
  /\ quitting
  /\ process' = CASE err -> "error"
                  [] ~err /\ done -> "done"
                  [] OTHER -> "silent"
  /\ UNCHANGED <<mode, worker, link, ui, disk, interrupted>>

(* Run returns an error instead: the terminal was lost, or Bubble Tea was  *)
(* killed.  It is printed and the process exits with 1, whatever the model *)
(* says and wherever the worker is.                                        *)
RunFails ==
  /\ process = "running"
  /\ mode = "tui"
  /\ process' = "broken"
  /\ UNCHANGED <<mode, worker, link, ui, disk, interrupted>>

(* The process is gone.                                                    *)
Ended == process # "running" /\ UNCHANGED vars

(* initialModel.Init starts one waitForNext; faulty: it starts two.        *)
FirstCommands_Two == IF mode = "tui" THEN 2 ELSE 0
FirstCommands     == IF mode = "tui" THEN 1 ELSE 0

Init ==
  /\ mode \in {"tui", "text"}
  /\ step = 0 /\ working = TRUE /\ announced = FALSE
  /\ offered = None /\ result = "none"
  /\ receivers = FirstCommands
  /\ messages = << >> /\ sent = 0
  /\ current = 0 /\ done = FALSE /\ err = FALSE /\ quitting = FALSE
  /\ process = "running"
  /\ diff = "old" /\ modules = "none" /\ filesWritten = 0
  /\ interrupted = FALSE

Next == Pipeline \/ Panic \/ Receive \/ Update \/ Interrupt \/ Quit
        \/ RunFails \/ ReturnText \/ Ended

(* Every step of the pipeline returns, the scheduler runs the goroutines   *)
(* and the event loop, the runtime completes a send that has a receiver.   *)
Fairness == /\ WF_vars(Pipeline) /\ WF_vars(Receive)
            /\ WF_vars(Update) /\ WF_vars(Quit) /\ WF_vars(ReturnText)

Spec == Init /\ [][Next]_vars /\ Fairness

-----------------------------------------------------------------------------
(* Properties.                                                             *)

TypeOK ==
  /\ mode \in {"tui", "text"}
  /\ step \in 0 .. Len(Steps)
  /\ working \in BOOLEAN /\ announced \in BOOLEAN
  /\ offered \in Message \cup {None}
  /\ result \in {"none", "ok", "failed"}
  /\ receivers \in Nat /\ messages \in Seq(Message)
  /\ sent \in Nat /\ current \in Nat
  /\ done \in BOOLEAN /\ err \in BOOLEAN /\ quitting \in BOOLEAN
  /\ process \in {"running", "done", "error", "silent", "killed", "panic",
                  "broken"}
  /\ diff \in {"old", "new"} /\ modules \in {"none", "some", "all"}
  /\ filesWritten \in 0 .. NumFiles
  /\ interrupted \in BOOLEAN

(* The user interface is never more than one message behind: the worker    *)
(* does not run step i before Update has handled all announcements but     *)
(* the last, though it never waits for Update itself.                      *)
KeepsUp == /\ receivers + Len(messages) <= 1
           /\ sent - current \in {0, 1}

(* "Done!" is printed only over a complete diff whose modules are all      *)
(* required, whatever messages and key presses were in flight.             *)
HonestDone == process = "done" => /\ diff = "new" /\ modules = "all"
                                  /\ filesWritten = NumFiles

(* A patch is in the diff file only if every module it needs was added.    *)
ModulesBeforePatches == filesWritten > 0 => diff = "new" /\ modules = "all"

(* The process ends with status 0 and without "Done!" only after Ctrl-C:   *)
(* an error or a completion that is still in flight is never dropped.      *)
QuietOnlyOnInterrupt == process = "silent" => interrupted

(* The command ends: no message is left unread that the worker or main     *)
(* waits for.                                                              *)
Termination == <>(process # "running")

(* The command is an InstrumentJob: the worker, the channel, the commands  *)
(* and the model together report the outcome of the pipeline once.         *)
JobState == CASE result = "none" -> "working"
              [] result = "ok" -> "succeeded"
              [] result = "failed" -> "failed"
JobExit  == IF process = "running" THEN "none" ELSE process

Job == INSTANCE InstrumentJob WITH job <- JobState, exit <- JobExit

ImplementsJob == Job!Spec

=============================================================================
