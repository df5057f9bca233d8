---------------------- MODULE InstrumentCommand_proofs ----------------------
(***************************************************************************)
(* Theorems about the command, for every number of files: the user         *)
(* interface keeps up, the process ends with the truth about the disk, and *)
(* every step is one the shell was promised (InstrumentJob).               *)
(***************************************************************************)
EXTENDS InstrumentCommand, SequenceTheorems, TLAPS

(* The inductive invariant.                                                *)

(* One message at most is between the worker and the model.                *)
InFlight == IF messages = <<"progress">> THEN 1 ELSE 0
LinkInv  == /\ receivers + Len(messages) <= 1
            /\ sent = current + InFlight

(* How far the pipeline is says what is on the disk.                       *)
DiskInv ==
  /\ step >= 2 => diff = "new"
  /\ step = Len(Steps) => modules = "all"
  /\ filesWritten > 0 => step = Len(Steps)
  /\ announced => step = Len(Steps) /\ filesWritten < NumFiles

(* A message, once sent, tells what the pipeline came to wherever it is:   *)
(* on the channel, on its way to Update, or in the model.                  *)
Told(msg, flag) == \/ offered = msg
                   \/ \E i \in DOMAIN messages : messages[i] = msg
                   \/ flag

OutcomeInv ==
  /\ result # "none" => ~working /\ offered \notin {"loaded", "progress"}
  /\ result = "ok" => step = Len(Steps) /\ filesWritten = NumFiles
  /\ Told("completed", done) => result = "ok"
  /\ Told("error", err) => result = "failed"
  /\ mode = "text" => offered = None
  /\ quitting => interrupted \/ err \/ done
  /\ process = "done" => result = "ok"
  /\ process = "silent" => interrupted

IInv == TypeOK /\ LinkInv /\ DiskInv /\ OutcomeInv

-----------------------------------------------------------------------------
(* The steps of the pipeline and the messages.                             *)

LEMMA StepsShape ==
  ASSUME mode \in {"tui", "text"}
  PROVE  /\ Len(Steps) = IF mode = "tui" THEN 8 ELSE 7
         /\ DOMAIN Steps = 1 .. Len(Steps)
         /\ Steps[1] = "create"
         /\ Steps[Len(Steps) - 1] = "modules"
         /\ Steps[Len(Steps)] = "write"
         /\ \A i \in DOMAIN Steps :
              /\ Steps[i] = "create" => i = 1
              /\ Steps[i] = "modules" => i = Len(Steps) - 1
              /\ Steps[i] = "write" => i = Len(Steps)
<1>1. CASE mode = "tui"
  <2>1. Steps = TuiSteps
    BY <1>1 DEF Steps
  <2>2. Len(TuiSteps) = 8 /\ DOMAIN TuiSteps = 1 .. 8
    BY DEF TuiSteps
  <2>3. /\ TuiSteps[1] = "create" /\ TuiSteps[2] = "register"
        /\ TuiSteps[3] = "trace" /\ TuiSteps[4] = "scan"
        /\ TuiSteps[5] = "instrument" /\ TuiSteps[6] = "resolve"
        /\ TuiSteps[7] = "modules" /\ TuiSteps[8] = "write"
    BY DEF TuiSteps
  <2>4. \A i \in 1 .. 8 : i \in {1, 2, 3, 4, 5, 6, 7, 8}
    OBVIOUS
  <2>. QED BY <1>1, <2>1, <2>2, <2>3, <2>4
<1>2. CASE mode = "text"
  <2>1. Steps = TextSteps
    BY <1>2 DEF Steps
  <2>2. Len(TextSteps) = 7 /\ DOMAIN TextSteps = 1 .. 7
    BY DEF TextSteps
  <2>3. /\ TextSteps[1] = "create" /\ TextSteps[2] = "trace"
        /\ TextSteps[3] = "scan" /\ TextSteps[4] = "instrument"
        /\ TextSteps[5] = "resolve" /\ TextSteps[6] = "modules"
        /\ TextSteps[7] = "write"
    BY DEF TextSteps
  <2>4. \A i \in 1 .. 7 : i \in {1, 2, 3, 4, 5, 6, 7}
    OBVIOUS
  <2>. QED BY <1>2, <2>1, <2>2, <2>3, <2>4
<1>. QED BY <1>1, <1>2

(* The commands never hold more than one message: Update takes the only one. *)
LEMMA OnlyMessage ==
  ASSUME messages \in Seq(Message), Len(messages) <= 1,
         NEW i \in DOMAIN messages
  PROVE  /\ i = 1 /\ messages = <<messages[1]>> /\ messages[1] \in Message
         /\ SubSeq(messages, 1, i - 1) \o SubSeq(messages, i + 1, Len(messages))
              = << >>
<1>1. i = 1 /\ Len(messages) = 1
  BY LenProperties
<1>2. messages = <<messages[1]>> /\ messages[1] \in Message
  BY <1>1
<1>3. SubSeq(messages, 1, i - 1) = << >>
  BY <1>1, SubSeqEmpty
<1>4. SubSeq(messages, i + 1, Len(messages)) = << >>
  BY <1>1, SubSeqEmpty
<1>5. << >> \o << >> = << >>
  BY EmptySeq, ConcatEmptySeq
<1>. QED
  BY <1>1, <1>2, <1>3, <1>4, <1>5

LEMMA InitIInv == Init => IInv
<1>. SUFFICES ASSUME Init PROVE IInv
  OBVIOUS
<1>1. TypeOK
  <2>1. << >> \in Seq(Message)
    BY EmptySeq
  <2>2. 0 \in 0 .. Len(Steps)
    BY StepsShape DEF Init
  <2>3. /\ working \in BOOLEAN /\ announced \in BOOLEAN /\ done \in BOOLEAN
        /\ err \in BOOLEAN /\ quitting \in BOOLEAN
        /\ interrupted \in BOOLEAN
    BY Zenon DEF Init
  <2>4. receivers \in Nat
    BY DEF Init, FirstCommands
  <2>5. messages \in Seq(Message) /\ step \in 0 .. Len(Steps)
    BY <2>1, <2>2 DEF Init
  <2>. QED
    BY <2>3, <2>4, <2>5, FilesAssumption DEF Init, TypeOK
<1>2. LinkInv
  BY DEF Init, LinkInv, InFlight, FirstCommands
<1>3. DiskInv
  BY FilesAssumption, StepsShape DEF Init, DiskInv
<1>4. OutcomeInv
  BY NoneAssumption DEF Init, OutcomeInv, Told, Message
<1>. QED
  BY <1>1, <1>2, <1>3, <1>4 DEF IInv

-----------------------------------------------------------------------------
(* The pipeline.                                                           *)

(* A step of the pipeline moves on within its steps, or comes to an        *)
(* outcome, which it sends in the TUI and returns in text mode.            *)
LEMMA SucceedMoves ==
  ASSUME IInv, Succeed, step \in 0 .. Len(Steps), Busy
  PROVE  /\ result = "none"
         /\ \/ /\ step = Len(Steps) /\ step' = step /\ result' = "ok"
               /\ working' = FALSE
               /\ offered' = IF mode = "tui" THEN "completed" ELSE offered
            \/ /\ step < Len(Steps) /\ step' = step + 1 /\ result' = "none"
               /\ \/ working' = working /\ offered' = offered
                  \/ /\ mode = "tui" /\ working' = FALSE
                     /\ offered' \in {"loaded", "progress"}
<1>1. result = "none"
  BY DEF IInv, OutcomeInv, Busy
<1>2. CASE step = Len(Steps)
  BY <1>1, <1>2, Zenon DEF Succeed, Outcome, Offer
<1>3. CASE step # Len(Steps)
  <2>1. step < Len(Steps)
    BY <1>3, StepsShape DEF IInv, TypeOK
  <2>2. step' = step + 1 /\ result' = "none"
    BY <1>1, <1>3 DEF Succeed
  <2>3. \/ working' = working /\ offered' = offered
        \/ mode = "tui" /\ working' = FALSE /\ offered' \in {"loaded", "progress"}
    BY <1>3, Zenon DEF Succeed, Offer
  <2>. QED BY <1>1, <2>1, <2>2, <2>3
<1>. QED BY <1>2, <1>3

LEMMA FailMoves ==
  ASSUME IInv, Fail, Busy
  PROVE  /\ result = "none" /\ result' = "failed" /\ step' = step
         /\ working' = FALSE
         /\ offered' = IF mode = "tui" THEN "error" ELSE offered
BY DEF IInv, TypeOK, OutcomeInv, Fail, Outcome, Offer, Busy

(* What a step of the pipeline does to the worker, whichever step it is.   *)
Sent(msg) == IF mode = "tui" THEN msg ELSE offered
GoesOn ==
  /\ result' = "none"
  /\ step' \in 0 .. Len(Steps)
  /\ \/ working' = working /\ offered' = offered
     \/ mode = "tui" /\ working' = FALSE /\ offered' \in {"loaded", "progress"}
EndsOk ==
  /\ step = Len(Steps) /\ filesWritten = NumFiles
  /\ step' = step /\ filesWritten' = filesWritten
  /\ result' = "ok" /\ working' = FALSE /\ offered' = Sent("completed")
EndsFailed ==
  /\ step' = step
  /\ result' = "failed" /\ working' = FALSE /\ offered' = Sent("error")

LEMMA PipelineMoves ==
  ASSUME IInv, Pipeline
  PROVE  /\ result = "none" /\ process = "running" /\ working
         /\ UNCHANGED <<mode, link, ui, process, interrupted>>
         /\ GoesOn \/ EndsOk \/ EndsFailed
<1>1. Busy /\ UNCHANGED <<mode, link, ui, process, interrupted>>
  BY DEF Pipeline, Load, CreateDiffFile, WorkOnTrees, AddRequiredModules,
         AnnounceFile, WriteFile, EndWriteDiff
<1>2. result = "none" /\ process = "running" /\ working
  BY <1>1 DEF Busy, IInv, OutcomeInv
<1>3. step \in 0 .. Len(Steps) /\ mode \in {"tui", "text"}
  BY DEF IInv, TypeOK
<1>4. ASSUME Succeed, step # Len(Steps)
      PROVE  GoesOn
  <2>1. step < Len(Steps)
    BY <1>3, <1>4, StepsShape
  <2>2. step' \in 0 .. Len(Steps)
    <3>1. step' = step + 1
      BY <1>4 DEF Succeed
    <3>. QED BY <1>3, <2>1, <3>1, StepsShape
  <2>. QED BY <1>1, <1>3, <1>4, <2>1, <2>2, SucceedMoves DEF GoesOn
<1>5. ASSUME Fail PROVE EndsFailed
  BY <1>1, <1>5, FailMoves DEF EndsFailed, Sent
<1>6. ASSUME NEW s, s # "write", AtStep(s) PROVE step # Len(Steps)
  BY <1>3, <1>6, StepsShape DEF AtStep
<1>7. CASE Load
  <2>1. step # Len(Steps)
    BY <1>3, <1>7, StepsShape DEF Load
  <2>. QED BY <1>2, <1>1, <1>4, <1>5, <1>7, <2>1 DEF Load
<1>8. CASE CreateDiffFile
  <2>1. step # Len(Steps)
    BY <1>6, <1>8 DEF CreateDiffFile
  <2>. QED BY <1>2, <1>1, <1>4, <1>5, <1>8, <2>1 DEF CreateDiffFile
<1>9. CASE WorkOnTrees
  <2>1. step # Len(Steps)
    BY <1>6, <1>9 DEF WorkOnTrees, AtStep
  <2>. QED BY <1>2, <1>1, <1>4, <1>5, <1>9, <2>1 DEF WorkOnTrees
<1>10. CASE AddRequiredModules
  <2>1. step # Len(Steps)
    BY <1>6, <1>10 DEF AddRequiredModules
  <2>. QED BY <1>2, <1>1, <1>4, <1>5, <1>10, <2>1 DEF AddRequiredModules
<1>11. CASE AnnounceFile
  <2>1. \/ Fail
        \/ /\ step' = step /\ result' = result
           /\ IF mode = "tui" THEN offered' = "progress" /\ working' = FALSE
              ELSE working' = working /\ offered' = offered
    BY <1>11, Zenon DEF AnnounceFile, Offer
  <2>2. CASE ~Fail
    <3>1. /\ result' = "none" /\ step' \in 0 .. Len(Steps)
          /\ mode = "tui" => offered' \in {"loaded", "progress"}
      BY <1>2, <1>3, <2>1, <2>2
    <3>. QED BY <1>1, <1>2, <2>1, <2>2, <3>1, Zenon DEF GoesOn
  <2>. QED BY <1>1, <1>2, <1>5, <2>2
<1>12. CASE WriteFile
  <2>1. Fail \/ (step' = step /\ result' = result
                  /\ working' = working /\ offered' = offered)
    BY <1>12 DEF WriteFile
  <2>. QED BY <1>1, <1>2, <1>3, <1>5, <2>1 DEF GoesOn
<1>13. CASE EndWriteDiff
  <2>1. step = Len(Steps)
    BY <1>3, <1>13, StepsShape DEF EndWriteDiff, AtStep
  <2>2. Succeed /\ filesWritten = NumFiles /\ filesWritten' = filesWritten
    BY <1>13 DEF EndWriteDiff, disk
  <2>3. EndsOk
    BY <2>1, <2>2, Zenon DEF EndsOk, Sent, Succeed, Outcome, Offer
  <2>. QED BY <1>1, <1>2, <2>3
<1>. QED
  BY <1>7, <1>8, <1>9, <1>10, <1>11, <1>12, <1>13 DEF Pipeline

(* What a step of the pipeline does to the disk.                           *)
LEMMA PipelineDisk ==
  ASSUME IInv, Pipeline
  PROVE  /\ announced' \in BOOLEAN /\ diff' \in {"old", "new"}
         /\ modules' \in {"none", "some", "all"}
         /\ filesWritten' \in 0 .. NumFiles
         /\ DiskInv'
<1>1. /\ step \in 0 .. Len(Steps) /\ mode \in {"tui", "text"}
      /\ announced \in BOOLEAN /\ diff \in {"old", "new"}
      /\ modules \in {"none", "some", "all"}
      /\ filesWritten \in 0 .. NumFiles /\ DiskInv
  BY DEF IInv, TypeOK
<1>2. mode' = mode /\ Steps' = Steps
  BY PipelineMoves DEF Steps
<1>3. ASSUME Succeed
      PROVE  step' = IF step = Len(Steps) THEN step ELSE step + 1
  BY <1>3 DEF Succeed, Outcome
<1>4. ASSUME Fail PROVE step' = step
  BY <1>4 DEF Fail, Outcome
<1>5. ASSUME Load \/ WorkOnTrees
      PROVE  /\ announced' = announced /\ diff' = diff /\ modules' = modules
             /\ filesWritten' = filesWritten /\ DiskInv'
  <2>1. UNCHANGED <<announced, disk>>
    BY <1>5 DEF Load, WorkOnTrees
  <2>2. step = 0 \/ (step \in DOMAIN Steps
                      /\ Steps[step] \notin {"create", "modules", "write"})
    BY <1>5 DEF Load, WorkOnTrees
  <2>3. step < Len(Steps) - 1 /\ (step = 0 \/ step >= 2)
    BY <1>1, <2>2, StepsShape
  <2>4. step' = step \/ step' = step + 1
    BY <1>3, <1>4, <1>5 DEF Load, WorkOnTrees
  <2>5. step' # Len(Steps) /\ (step' >= 2 => step >= 2)
    BY <1>1, <2>3, <2>4, StepsShape
  <2>. QED
    BY <1>1, <1>2, <2>1, <2>3, <2>5, StepsShape DEF DiskInv, disk
<1>6. CASE Load \/ WorkOnTrees
  BY <1>1, <1>5, <1>6
<1>7. CASE CreateDiffFile
  <2>1. step = 1
    BY <1>1, <1>7, StepsShape DEF CreateDiffFile, AtStep
  <2>2. UNCHANGED <<announced, modules, filesWritten>>
    BY <1>7 DEF CreateDiffFile
  <2>3. (step' = 2 /\ diff' = "new") \/ (step' = 1 /\ diff' = diff)
    BY <1>1, <1>3, <1>4, <1>7, <2>1, StepsShape DEF CreateDiffFile
  <2>. QED BY <1>1, <1>2, <2>1, <2>2, <2>3, StepsShape DEF DiskInv
<1>8. CASE AddRequiredModules
  <2>1. step = Len(Steps) - 1
    BY <1>1, <1>8, StepsShape DEF AddRequiredModules, AtStep
  <2>2. UNCHANGED <<announced, diff, filesWritten>>
    BY <1>8 DEF AddRequiredModules
  <2>3. \/ step' = Len(Steps) /\ modules' = "all"
        \/ step' = step /\ modules' \in {"none", "some"}
    BY <1>1, <1>3, <1>4, <1>8, <2>1, StepsShape DEF AddRequiredModules
  <2>. QED BY <1>1, <1>2, <2>1, <2>2, <2>3, StepsShape DEF DiskInv
<1>9. ASSUME AnnounceFile \/ WriteFile \/ EndWriteDiff
      PROVE  step = Len(Steps) /\ step' = step
  <2>1. step = Len(Steps)
    BY <1>1, <1>9, StepsShape
    DEF AnnounceFile, WriteFile, EndWriteDiff, AtStep
  <2>. QED
    BY <1>3, <1>4, <1>9, <2>1 DEF AnnounceFile, WriteFile, EndWriteDiff
<1>10. CASE AnnounceFile
  <2>1. filesWritten < NumFiles /\ UNCHANGED disk
    BY <1>10 DEF AnnounceFile
  <2>2. announced' = TRUE \/ announced' = announced
    BY <1>10 DEF AnnounceFile
  <2>. QED BY <1>1, <1>2, <1>9, <1>10, <2>1, <2>2 DEF DiskInv, disk
<1>11. CASE WriteFile
  <2>1. announced' = FALSE /\ filesWritten < NumFiles
    BY <1>1, <1>11 DEF WriteFile, DiskInv
  <2>2. UNCHANGED <<diff, modules>>
    BY <1>11 DEF WriteFile
  <2>3. filesWritten' = filesWritten + 1 \/ filesWritten' = filesWritten
    BY <1>11 DEF WriteFile
  <2>4. filesWritten' \in 0 .. NumFiles
    BY <1>1, <2>1, <2>3, FilesAssumption
  <2>. QED BY <1>1, <1>2, <1>9, <1>11, <2>1, <2>2, <2>4 DEF DiskInv
<1>12. CASE EndWriteDiff
  <2>1. UNCHANGED <<announced, disk>>
    BY <1>12 DEF EndWriteDiff
  <2>. QED BY <1>1, <1>2, <1>9, <1>12, <2>1 DEF DiskInv, disk
<1>. QED
  BY <1>6, <1>7, <1>8, <1>10, <1>11, <1>12 DEF Pipeline

(* The pipeline keeps the invariant: it sends what it came to.             *)
LEMMA PipelineStep ==
  ASSUME IInv, Pipeline
  PROVE  IInv'
<1>1. /\ result = "none" /\ process = "running" /\ working
      /\ UNCHANGED <<mode, link, ui, process, interrupted>>
      /\ GoesOn \/ EndsOk \/ EndsFailed
  BY PipelineMoves
<1>2. TypeOK /\ LinkInv /\ OutcomeInv /\ Steps' = Steps
  BY <1>1 DEF IInv, Steps
<1>3. TypeOK'
  <2>1. step' \in 0 .. Len(Steps)
    BY <1>1, <1>2 DEF TypeOK, GoesOn, EndsOk, EndsFailed
  <2>2. result' \in {"none", "ok", "failed"}
    BY <1>1 DEF GoesOn, EndsOk, EndsFailed
  <2>3. working' \in BOOLEAN
    BY <1>1, <1>2, Zenon DEF TypeOK, GoesOn, EndsOk, EndsFailed
  <2>4. offered' \in Message \cup {None}
    BY <1>1, <1>2 DEF TypeOK, GoesOn, EndsOk, EndsFailed, Sent, Message
  <2>. QED
    BY <1>1, <1>2, <2>1, <2>2, <2>3, <2>4, PipelineDisk
    DEF TypeOK, link, ui
<1>4. LinkInv'
  BY <1>1, <1>2 DEF LinkInv, InFlight, link, ui
<1>5. OutcomeInv'
  <2>1. /\ \A i \in DOMAIN messages : messages[i] \notin {"completed", "error"}
        /\ offered \notin {"completed", "error"} /\ ~done /\ ~err
        /\ process # "done" /\ process # "silent"
    BY <1>1, <1>2 DEF OutcomeInv, Told
  <2>2. CASE GoesOn
    BY <1>1, <1>2, <2>1, <2>2 DEF OutcomeInv, Told, GoesOn, link, ui
  <2>3. CASE EndsOk
    BY <1>1, <1>2, <2>1, <2>3, NoneAssumption
    DEF OutcomeInv, Told, EndsOk, Sent, link, ui, Message, TypeOK
  <2>4. CASE EndsFailed
    BY <1>1, <1>2, <2>1, <2>4, NoneAssumption
    DEF OutcomeInv, Told, EndsFailed, Sent, link, ui, Message, TypeOK
  <2>. QED BY <1>1, <2>2, <2>3, <2>4
<1>. QED
  BY <1>3, <1>4, <1>5, PipelineDisk DEF IInv

-----------------------------------------------------------------------------
(* The channel, the event loop and the end.                                *)

(* A step that touches neither the pipeline's place nor the disk.          *)
LEMMA DiskKept ==
  ASSUME DiskInv, UNCHANGED <<mode, step, announced, disk>>
  PROVE  DiskInv'
BY DEF DiskInv, Steps, disk

(* The only receiver takes what is offered: nothing else is in flight.     *)
LEMMA ReceiveStep ==
  ASSUME IInv, Receive
  PROVE  IInv'
<1>1. TypeOK /\ LinkInv /\ DiskInv /\ OutcomeInv
  BY DEF IInv
<1>2. /\ UNCHANGED <<mode, step, announced, result, ui, process, disk,
                     interrupted>>
      /\ offered # None /\ receivers > 0
  BY DEF Receive
<1>3. Steps' = Steps
  BY <1>2 DEF Steps
<1>4. receivers = 1 /\ Len(messages) = 0 /\ messages = << >>
  <2>1. receivers \in Nat /\ Len(messages) \in Nat
    BY <1>1, LenProperties DEF TypeOK
  <2>2. receivers = 1 /\ Len(messages) = 0
    BY <1>1, <1>2, <2>1 DEF LinkInv
  <2>. QED BY <1>1, <2>2, EmptySeq DEF TypeOK
<1>5. receivers' = 0 /\ messages' = <<offered>> /\ offered \in Message
  BY <1>1, <1>2, <1>4 DEF Receive, TypeOK
<1>6. offered' = IF offered = "loaded" THEN "progress" ELSE None
  BY DEF Receive
<1>7. working' = (offered = "progress")
  BY DEF Receive
<1>8. sent' = IF offered = "progress" THEN sent + 1 ELSE sent
  BY DEF Receive
<1>9. TypeOK'
  <2>1. working' \in BOOLEAN
    BY <1>7
  <2>2. offered' \in Message \cup {None} /\ sent' \in Nat
    BY <1>1, <1>6, <1>8 DEF TypeOK, Message
  <2>3. messages' \in Seq(Message) /\ receivers' \in Nat
    BY <1>5
  <2>. QED
    BY <1>1, <1>2, <1>3, <2>1, <2>2, <2>3 DEF TypeOK, ui, disk
<1>10. LinkInv'
  <2>1. receivers' + Len(messages') <= 1
    BY <1>5
  <2>2. InFlight = 0
    BY <1>4 DEF InFlight
  <2>3. InFlight' = IF offered = "progress" THEN 1 ELSE 0
    BY <1>5 DEF InFlight
  <2>. QED
    BY <1>1, <1>2, <1>8, <2>1, <2>2, <2>3 DEF LinkInv, ui, TypeOK
<1>11. OutcomeInv'
  <2>1. /\ result # "none" => offered \notin {"loaded", "progress"}
        /\ offered = "completed" \/ done => result = "ok"
        /\ offered = "error" \/ err => result = "failed"
        /\ mode # "text"
    BY <1>1, <1>2 DEF OutcomeInv, Told
  <2>2. result' # "none" => ~working' /\ offered' \notin {"loaded", "progress"}
    BY <1>2, <1>6, <1>7, <2>1, NoneAssumption DEF Message
  <2>3. \A i \in DOMAIN messages' : messages'[i] = offered
    BY <1>5
  <2>4. offered' \notin {"completed", "error"}
    BY <1>6, NoneAssumption DEF Message
  <2>5. /\ Told("completed", done)' => result' = "ok"
        /\ Told("error", err)' => result' = "failed"
    BY <1>2, <2>1, <2>3, <2>4 DEF Told, ui
  <2>. QED
    BY <1>1, <1>2, <1>3, <2>1, <2>2, <2>5 DEF OutcomeInv, ui, disk
<1>. QED
  BY <1>1, <1>2, <1>9, <1>10, <1>11, DiskKept DEF IInv

(* Update has handled what was sent before the next message is received.   *)
LEMMA UpdateStep ==
  ASSUME IInv, Update
  PROVE  IInv'
<1>1. TypeOK /\ LinkInv /\ DiskInv /\ OutcomeInv
  BY DEF IInv
<1>2. UNCHANGED <<mode, worker, sent, process, disk, interrupted>>
  BY DEF Update
<1>3. Steps' = Steps
  BY <1>2 DEF Steps
<1>4. PICK i \in DOMAIN messages :
        /\ messages' = SubSeq(messages, 1, i - 1) \o
                       SubSeq(messages, i + 1, Len(messages))
        /\ current' = IF messages[i] = "progress" THEN current + 1 ELSE current
        /\ err' = (err \/ messages[i] = "error")
        /\ done' = (done \/ messages[i] = "completed")
        /\ quitting' = (quitting \/ messages[i] \in {"error", "completed"})
        /\ receivers' = IF Awaits(messages[i]) THEN receivers + 1 ELSE receivers
  BY DEF Update
<1>5. /\ receivers \in Nat /\ Len(messages) \in Nat
      /\ receivers + Len(messages) <= 1
  BY <1>1, LenProperties DEF TypeOK, LinkInv
<1>6. /\ messages' = << >> /\ messages = <<messages[i]>>
      /\ messages[i] \in Message /\ i = 1
  BY <1>1, <1>4, <1>5, OnlyMessage DEF TypeOK
<1>7. receivers = 0 /\ receivers' \in {0, 1}
  BY <1>4, <1>5, <1>6
<1>8. TypeOK'
  <2>1. err' \in BOOLEAN /\ done' \in BOOLEAN /\ quitting' \in BOOLEAN
    BY <1>4
  <2>2. current' \in Nat
    BY <1>1, <1>4 DEF TypeOK
  <2>3. messages' \in Seq(Message)
    BY <1>6, EmptySeq
  <2>. QED
    BY <1>1, <1>2, <1>3, <1>7, <2>1, <2>2, <2>3
    DEF TypeOK, worker, disk
<1>9. LinkInv'
  <2>1. InFlight' = 0
    BY <1>6 DEF InFlight
  <2>2. InFlight = IF messages[i] = "progress" THEN 1 ELSE 0
    BY <1>6 DEF InFlight
  <2>3. Len(messages') = 0
    BY <1>6
  <2>. QED
    BY <1>1, <1>2, <1>4, <1>7, <2>1, <2>2, <2>3 DEF LinkInv, TypeOK
<1>10. OutcomeInv'
  <2>1. /\ Told("completed", done) => result = "ok"
        /\ Told("error", err) => result = "failed"
        /\ quitting => interrupted \/ err \/ done
    BY <1>1 DEF OutcomeInv
  <2>2. DOMAIN messages' = {}
    BY <1>6
  <2>3. Told("completed", done)' => Told("completed", done)
    BY <1>2, <1>4, <2>2 DEF Told, worker
  <2>4. Told("error", err)' => Told("error", err)
    BY <1>2, <1>4, <2>2 DEF Told, worker
  <2>5. quitting' => interrupted \/ err' \/ done'
    BY <1>4, <2>1
  <2>. QED
    BY <1>1, <1>2, <1>3, <2>1, <2>3, <2>4, <2>5
    DEF OutcomeInv, worker, disk
<1>. QED
  BY <1>1, <1>2, <1>8, <1>9, <1>10, DiskKept DEF IInv, worker

(* Whatever ends the process only looks at what the others have left.      *)
LEMMA EndStep ==
  ASSUME IInv, Panic \/ Interrupt \/ Quit \/ RunFails \/ ReturnText
  PROVE  IInv'
<1>1. TypeOK /\ LinkInv /\ DiskInv /\ OutcomeInv
  BY DEF IInv
<1>2. UNCHANGED <<mode, worker, link, current, done, err, disk>>
  BY DEF Panic, Interrupt, Quit, RunFails, ReturnText, ui
<1>3. Steps' = Steps
  BY <1>2 DEF Steps
<1>4. /\ process' \in {"running", "done", "error", "silent", "killed", "panic",
                     "broken"}
      /\ quitting' \in BOOLEAN /\ interrupted' \in BOOLEAN
      /\ quitting' => interrupted' \/ err \/ done
      /\ process' = "done" => result = "ok"
      /\ process' = "silent" => interrupted'
  <2>1. /\ done => result = "ok"
        /\ quitting => interrupted \/ err \/ done
        /\ process = "done" => result = "ok"
        /\ process = "silent" => interrupted
        /\ quitting \in BOOLEAN /\ interrupted \in BOOLEAN
    BY <1>1 DEF OutcomeInv, Told, TypeOK
  <2>2. CASE Panic
    BY <2>1, <2>2 DEF Panic, ui
  <2>3. CASE Interrupt
    BY <1>1, <2>1, <2>3 DEF Interrupt, TypeOK
  <2>4. CASE Quit
    BY <2>1, <2>4 DEF Quit, ui
  <2>5. CASE ReturnText
    BY <2>1, <2>5 DEF ReturnText, ui
  <2>6. CASE RunFails
    BY <2>1, <2>6 DEF RunFails, ui
  <2>. QED BY <2>2, <2>3, <2>4, <2>5, <2>6
<1>5. TypeOK'
  BY <1>1, <1>2, <1>3, <1>4 DEF TypeOK, worker, link, disk
<1>6. LinkInv'
  BY <1>1, <1>2 DEF LinkInv, InFlight, link
<1>7. OutcomeInv'
  <2>1. /\ Told("completed", done)' => Told("completed", done)
        /\ Told("error", err)' => Told("error", err)
    BY <1>2 DEF Told, worker, link
  <2>. QED
    BY <1>1, <1>2, <1>3, <1>4, <2>1 DEF OutcomeInv, worker, disk
<1>. QED
  BY <1>1, <1>2, <1>5, <1>6, <1>7, DiskKept DEF IInv, worker

LEMMA Unchanged ==
  ASSUME IInv, UNCHANGED vars
  PROVE  IInv'
<1>1. TypeOK' /\ LinkInv' /\ DiskInv' /\ OutcomeInv'
  BY DEF IInv, vars, worker, link, ui, disk, TypeOK, LinkInv, InFlight,
         DiskInv, OutcomeInv, Told, Steps
<1>. QED BY <1>1 DEF IInv

(* Every step of the command keeps the invariant.                          *)
LEMMA StepIInv == IInv /\ [Next]_vars => IInv'
BY PipelineStep, ReceiveStep, UpdateStep, EndStep, Unchanged
DEF Next, Ended

-----------------------------------------------------------------------------
(* The theorems.                                                           *)

(* The inductive invariant: the messages on their way, the worker, the     *)
(* model and the disk always fit together.                                 *)
THEOREM CommandInvariant == Spec => []IInv
BY InitIInv, StepIInv, PTL DEF Spec

(* Every variable of the command keeps its type, in either mode.           *)
THEOREM CommandTypeCorrect == Spec => []TypeOK
<1>1. IInv => TypeOK
  BY DEF IInv
<1>. QED BY <1>1, CommandInvariant, PTL

(* The worker is never more than one announcement ahead of Update.         *)
THEOREM KeepsUpHolds == Spec => []KeepsUp
<1>1. IInv => KeepsUp
  BY DEF IInv, LinkInv, KeepsUp, InFlight, TypeOK
<1>. QED BY <1>1, CommandInvariant, PTL

(* "Done!" is only printed over a complete diff and complete modules,      *)
(* for any number of files and any order of messages and keys.             *)
THEOREM HonestDoneHolds == Spec => []HonestDone
<1>1. IInv => HonestDone
  <2>1. mode \in {"tui", "text"} => Len(Steps) >= 2
    BY StepsShape
  <2>. QED BY <2>1 DEF IInv, TypeOK, DiskInv, OutcomeInv, HonestDone
<1>. QED BY <1>1, CommandInvariant, PTL

(* No patch is written before all modules are required.                    *)
THEOREM ModulesBeforePatchesHolds == Spec => []ModulesBeforePatches
<1>1. IInv => ModulesBeforePatches
  <2>1. mode \in {"tui", "text"} => Len(Steps) >= 2
    BY StepsShape
  <2>. QED BY <2>1 DEF IInv, TypeOK, DiskInv, ModulesBeforePatches
<1>. QED BY <1>1, CommandInvariant, PTL

(* Only Ctrl-C ends the process silently.                                  *)
THEOREM QuietOnlyOnInterruptHolds == Spec => []QuietOnlyOnInterrupt
<1>1. IInv => QuietOnlyOnInterrupt
  BY DEF IInv, OutcomeInv, QuietOnlyOnInterrupt
<1>. QED BY <1>1, CommandInvariant, PTL

-----------------------------------------------------------------------------
(* The refinement.                                                         *)

LEMMA InitJob == Init => Job!Init
BY DEF Init, Job!Init, JobState, JobExit

LEMMA StepJob == IInv /\ [Next]_vars => [Job!Next]_<<JobState, JobExit>>
<1>. SUFFICES ASSUME IInv, [Next]_vars
              PROVE  Job!Next \/ UNCHANGED <<JobState, JobExit>>
  OBVIOUS
<1>1. CASE Pipeline
  <2>1. /\ result = "none" /\ process = "running" /\ process' = process
        /\ result' \in {"none", "ok", "failed"}
    BY <1>1, PipelineMoves DEF GoesOn, EndsOk, EndsFailed
  <2>. QED BY <2>1 DEF Job!Next, Job!Work, JobState, JobExit
<1>2. CASE Panic
  BY <1>2 DEF Panic, Busy, worker, Job!Next, Job!Cancel, JobState, JobExit
<1>3. CASE Receive
  BY <1>3 DEF Receive, JobState, JobExit
<1>4. CASE Update
  BY <1>4 DEF Update, worker, JobState, JobExit
<1>5. CASE Interrupt
  BY <1>5 DEF Interrupt, worker, Job!Next, Job!Cancel, JobState, JobExit
<1>6. CASE Quit
  <2>1. /\ done => result = "ok"
        /\ err => result = "failed"
    BY DEF IInv, OutcomeInv, Told
  <2>2. process = "running" /\ result' = result
    BY <1>6 DEF Quit, worker
  <2>3. \/ result = "failed" /\ process' = "error"
        \/ result = "ok" /\ process' = "done"
        \/ process' = "silent"
    BY <1>6, <2>1 DEF Quit
  <2>. QED
    BY <2>2, <2>3 DEF Job!Next, Job!Report, Job!Cancel, JobState, JobExit
<1>7. CASE ReturnText
  <2>1. /\ process = "running" /\ result' = result
        /\ result \in {"ok", "failed"}
        /\ process' = IF result = "ok" THEN "done" ELSE "error"
    BY <1>7 DEF ReturnText, worker, IInv, TypeOK
  <2>. QED BY <2>1 DEF Job!Next, Job!Report, JobState, JobExit
<1>8. CASE RunFails
  BY <1>8 DEF RunFails, worker, Job!Next, Job!Cancel, JobState, JobExit
<1>9. CASE UNCHANGED vars
  BY <1>9 DEF vars, worker, JobState, JobExit
<1>. QED
  BY <1>1, <1>2, <1>3, <1>4, <1>5, <1>6, <1>7, <1>8, <1>9 DEF Next, Ended

(* Every step of the command is one of the job, or none: the outcome is    *)
(* reported once and truthfully unless the user, a panic or a failure of   *)
(* Bubble Tea ends it.                                                     *)
THEOREM CommandIsAJob ==
  Spec => Job!Init /\ [][Job!Next]_<<JobState, JobExit>>
BY InitJob, StepJob, CommandInvariant, PTL DEF Spec
=============================================================================
