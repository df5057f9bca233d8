------------------------ MODULE ManagerOutputs_proofs ------------------------
(***************************************************************************)
(* Proofs about the last steps of the pipeline, for every application and  *)
(* every limit of open files.                                              *)
(***************************************************************************)
EXTENDS ManagerOutputs, SequenceTheorems, TLAPS

(* AddRequiredModules holds the directory of the command at the bottom of  *)
(* its deferred calls, or has not left it yet.                             *)
Bottom == IF deferred = << >> THEN cwd = Start ELSE deferred[1] = Start

Place == stage # "modules" => deferred = << >>

(* Nothing is written before WriteDiff.                                    *)
Early == stage \in {"tests", "modules"} => disk[Start] = << >>

TypeInv == TypeOK /\ Bottom /\ Place

-----------------------------------------------------------------------------
(* Types.                                                                  *)

(* The application keeps its type: everything the engine leaves is data.   *)
LEMMA AppFacts ==
  ASSUME TypeOK
  PROVE  /\ app \in AppType
         /\ app.pkgs \subseteq Package
         /\ app.text \in [Package -> [File -> Seq(Seq(Call))]]
         /\ \A p \in Package : app.dir[p] \in Dir
         /\ \A p \in Package : app.syntax[p] \in Seq(File)
  BY OutputsAssumption DEF TypeOK, AppType

(* A repaired call is a call.                                              *)
LEMMA RepairCallType ==
  ASSUME NEW p, NEW c \in Call
  PROVE  RepairCall(p, c) \in Call
  BY DEF RepairCall, Call

(* A repaired file has calls where it had calls.                           *)
LEMMA RepairFileType ==
  ASSUME TypeOK, NEW p \in Package, NEW f \in File
  PROVE  RepairFile(p, f) \in Seq(Seq(Call))
<1> DEFINE old == text[p][f]
           decl(i) == IF Repairs(p, f, i)
                      THEN [j \in DOMAIN old[i] |-> RepairCall(p, old[i][j])]
                      ELSE old[i]
<1>1. old \in Seq(Seq(Call))
  BY DEF TypeOK
<1>2. ASSUME NEW i \in DOMAIN old
      PROVE  decl(i) \in Seq(Call)
  <2>1. old[i] \in Seq(Call)
    BY <1>1
  <2>2. \A j \in DOMAIN old[i] : RepairCall(p, old[i][j]) \in Call
    BY <2>1, RepairCallType
  <2>. QED BY <2>1, <2>2
<1>3. RepairFile(p, f) = [i \in DOMAIN old |-> decl(i)]
  BY DEF RepairFile
<1>. HIDE DEF old, decl
<1>4. DOMAIN old = 1 .. Len(old) /\ Len(old) \in Nat
  BY <1>1
<1>. QED BY <1>2, <1>3, <1>4

(* Leaving one more directory keeps the first one at the bottom.           *)
LEMMA BottomKept ==
  ASSUME TypeOK, Bottom
  PROVE  /\ Append(deferred, cwd) \in Seq(Dir)
         /\ Append(deferred, cwd) # << >>
         /\ Append(deferred, cwd)[1] = Start
<1>1. deferred \in Seq(Dir) /\ cwd \in Dir
  BY DEF TypeOK
<1>2. CASE deferred = << >>
  BY <1>1, <1>2, AppendProperties DEF Bottom
<1>3. CASE deferred # << >>
  <2>1. Len(deferred) \in Nat /\ Len(deferred) >= 1
    BY <1>1, <1>3
  <2>. QED BY <1>1, <1>3, <2>1, AppendProperties DEF Bottom
<1>. QED BY <1>2, <1>3

(* A position names a file of a package.                                   *)
LEMMA FileAtType ==
  ASSUME TypeOK, NEW x \in AllFiles
  PROVE  /\ FileAt(x) \in File
         /\ x[1] \in app.pkgs /\ x[2] \in DOMAIN app.syntax[x[1]]
<1>1. PICK p \in app.pkgs : x \in {p} \X DOMAIN app.syntax[p]
  BY DEF AllFiles
<1>2. x[1] = p /\ x[2] \in DOMAIN app.syntax[p]
  BY <1>1
<1>3. app.syntax[p] \in Seq(File)
  BY AppFacts
<1>. QED BY <1>1, <1>2, <1>3 DEF FileAt

LEMMA InitType == Init => TypeInv
<1>. SUFFICES ASSUME Init PROVE TypeInv
  OBVIOUS
<1>1. app \in AppType
  BY OutputsAssumption DEF Init
<1>2. TypeOK
  BY <1>1, OutputsAssumption DEF Init, TypeOK, AppType, AllFiles
<1>. QED BY <1>2 DEF Init, TypeInv, Bottom, Place

(* One step per action.                                                    *)
LEMMA TypeStep == TypeInv /\ [Next]_vars => TypeInv'
<1>. SUFFICES ASSUME TypeInv, [Next]_vars PROVE TypeInv'
  OBVIOUS
<1>. USE DEF TypeInv, Bottom, Place
<1>0. /\ app \in AppType
      /\ app.pkgs \subseteq Package
      /\ app.text \in [Package -> [File -> Seq(Seq(Call))]]
      /\ \A p \in Package : app.dir[p] \in Dir
      /\ \A p \in Package : app.syntax[p] \in Seq(File)
  BY AppFacts
<1>1. ASSUME NEW p \in Package, ResolvePackage(p) PROVE TypeInv'
  <2>1. text' \in [Package -> [File -> Seq(Seq(Call))]]
    <3>1. CASE ForTest(p) = NoPackage
      BY <1>1, <3>1 DEF ResolvePackage, TypeOK
    <3>2. CASE ForTest(p) # NoPackage
      <4> DEFINE new == [f \in File |-> IF f \in FilesOf(p) /\ ~IsGenerated(f)
                                        THEN RepairFile(p, f) ELSE text[p][f]]
      <4>1. \A f \in File : RepairFile(p, f) \in Seq(Seq(Call))
        BY RepairFileType
      <4>2. \A f \in File : text[p][f] \in Seq(Seq(Call))
        BY DEF TypeOK
      <4>3. new \in [File -> Seq(Seq(Call))]
        BY <4>1, <4>2
      <4>4. text' = [text EXCEPT ![p] = new]
        BY <1>1, <3>2 DEF ResolvePackage
      <4>. HIDE DEF new
      <4>. QED BY <4>3, <4>4 DEF TypeOK
    <3>. QED BY <3>1, <3>2
  <2>. QED BY <1>1, <2>1 DEF ResolvePackage, TypeOK, AllFiles
<1>2. ASSUME EndResolve PROVE TypeInv'
  BY <1>2 DEF EndResolve, TypeOK, AllFiles
<1>3. ASSUME NEW p \in Package, SkipTestPackage(p) PROVE TypeInv'
  BY <1>3 DEF SkipTestPackage, TypeOK, AllFiles
<1>4. ASSUME NEW p \in Package, AddModules(p) PROVE TypeInv'
  <2>1. required' \subseteq Dir \X Module
    BY <1>0, <1>4 DEF AddModules, TypeOK, AppType
  <2>2. deferred' \in Seq(Dir) /\ deferred'[1] = Start /\ deferred' # << >>
    BY <1>4, BottomKept DEF AddModules
  <2>3. cwd' \in Dir
    BY <1>0, <1>4 DEF AddModules
  <2>. QED BY <1>4, <2>1, <2>2, <2>3 DEF AddModules, TypeOK, AllFiles
<1>5. ASSUME NEW p \in Package, FailModules(p) PROVE TypeInv'
  <2>1. required' \subseteq Dir \X Module
    BY <1>0, <1>5 DEF FailModules, TypeOK, AppType
  <2>2. cwd' = Start
    BY <1>5, BottomKept DEF FailModules, Restored
  <2>3. open' \in 0 .. MaxOpen /\ deferred' \in Seq(Dir)
    BY <1>5, OutputsAssumption DEF FailModules, Fail
  <2>. QED BY <1>5, <2>1, <2>2, <2>3, OutputsAssumption
           DEF FailModules, Fail, TypeOK
<1>6. ASSUME EndModules PROVE TypeInv'
  <2>1. cwd' = Start /\ deferred' = << >>
    BY <1>6 DEF EndModules, Restored
  <2>2. deferred' \in Seq(Dir)
    BY <2>1
  <2>3. unwritten' = AllFiles'
    BY <1>6 DEF EndModules, AllFiles
  <2>. QED BY <1>6, <2>1, <2>2, <2>3, OutputsAssumption DEF EndModules, TypeOK
<1>7. ASSUME NEW x \in unwritten, SkipGenerated(x) PROVE TypeInv'
  BY <1>7 DEF SkipGenerated, TypeOK, AllFiles
<1>8. ASSUME NEW x \in unwritten, WriteFile(x) PROVE TypeInv'
  <2>1. FileAt(x) \in File
    BY FileAtType DEF TypeOK
  <2>2. disk' \in [Dir -> Seq([file : File, base : Dir])]
    <3> DEFINE patch == [file |-> FileAt(x), base |-> cwd]
    <3>1. patch \in [file : File, base : Dir]
      BY <2>1 DEF TypeOK
    <3>2. disk' = disk \/ disk' = [disk EXCEPT ![cwd] = Append(disk[cwd], patch)]
      BY <1>8 DEF WriteFile, WithPatch
    <3>. HIDE DEF patch
    <3>3. Append(disk[cwd], patch) \in Seq([file : File, base : Dir])
      BY <3>1, AppendProperties DEF TypeOK
    <3>. QED BY <3>2, <3>3 DEF TypeOK
  <2>3. open' \in 0 .. MaxOpen
    BY <1>8, OutputsAssumption DEF WriteFile, TypeOK
  <2>. QED BY <1>8, <2>2, <2>3 DEF WriteFile, TypeOK, AllFiles
<1>9. ASSUME NEW x \in unwritten, FailWrite(x) PROVE TypeInv'
  <2>1. open' \in 0 .. MaxOpen
    BY <1>9, OutputsAssumption DEF FailWrite, Fail
  <2>. QED BY <1>9, <2>1 DEF FailWrite, Fail, TypeOK
<1>10. ASSUME EndWrite PROVE TypeInv'
  <2>1. open' \in 0 .. MaxOpen
    BY <1>10, OutputsAssumption DEF EndWrite
  <2>. QED BY <1>10, <2>1 DEF EndWrite, TypeOK, AllFiles
<1>11. ASSUME UNCHANGED vars PROVE TypeInv'
  BY <1>11 DEF vars, TypeOK, AllFiles
<1>. QED
  BY <1>1, <1>2, <1>3, <1>4, <1>5, <1>6, <1>7, <1>8, <1>9, <1>10, <1>11
  DEF Next, Done

THEOREM OutputsInvariant == Spec => []TypeInv
  BY InitType, TypeStep, PTL DEF Spec

(* Every variable keeps to what the code can store: what is still to be    *)
(* written are files of the packages, and no more handles than allowed.    *)
THEOREM OutputsTypeCorrect == Spec => []TypeOK
  BY OutputsInvariant, PTL DEF TypeInv

-----------------------------------------------------------------------------
(* PatchInPlace.                                                           *)

LEMMA InitPlace == Init => PatchInPlace
  BY OutputsAssumption DEF Init, PatchInPlace

LEMMA PlaceStep == TypeInv /\ PatchInPlace /\ [Next]_vars => PatchInPlace'
<1>. SUFFICES ASSUME TypeInv, PatchInPlace, [Next]_vars PROVE PatchInPlace'
  OBVIOUS
<1>. USE DEF TypeInv, Bottom, Place, PatchInPlace
<1>0. app.pkgs \subseteq Package
  BY AppFacts
<1>1. ASSUME NEW p \in Package, ResolvePackage(p) PROVE PatchInPlace'
  BY <1>1 DEF ResolvePackage
<1>2. ASSUME EndResolve PROVE PatchInPlace'
  BY <1>2 DEF EndResolve
<1>3. ASSUME NEW p \in Package, SkipTestPackage(p) PROVE PatchInPlace'
  BY <1>3 DEF SkipTestPackage
<1>4. ASSUME NEW p \in Package, AddModules(p) PROVE PatchInPlace'
  <2>1. p \in app.pkgs
    BY <1>4 DEF AddModules, TypeOK
  <2>. QED BY <1>4, <2>1 DEF AddModules
<1>5. ASSUME NEW p \in Package, FailModules(p) PROVE PatchInPlace'
  <2>1. p \in app.pkgs
    BY <1>5 DEF FailModules, TypeOK
  <2>2. cwd' = Start
    BY <1>5, BottomKept DEF FailModules, Restored
  <2>3. \A r \in required' : \E q \in app.pkgs : r[1] = app.dir[q]
    BY <1>5, <2>1 DEF FailModules
  <2>. QED BY <1>5, <2>2, <2>3 DEF FailModules
<1>6. ASSUME EndModules PROVE PatchInPlace'
  BY <1>6 DEF EndModules, Restored
<1>7. ASSUME NEW x \in unwritten, SkipGenerated(x) PROVE PatchInPlace'
  BY <1>7 DEF SkipGenerated
<1>8. ASSUME NEW x \in unwritten, WriteFile(x) PROVE PatchInPlace'
  <2> DEFINE patch == [file |-> FileAt(x), base |-> cwd]
  <2>1. cwd = Start
    BY <1>8 DEF WriteFile
  <2>2. CASE disk' = disk
    BY <1>8, <2>2 DEF WriteFile
  <2>3. CASE disk' = [disk EXCEPT ![cwd] = Append(disk[cwd], patch)]
    <3>1. disk'[Start] = Append(disk[Start], patch)
      BY <2>1, <2>3, OutputsAssumption DEF TypeOK
    <3>2. \A d \in Dir \ {Start} : disk'[d] = << >>
      BY <2>1, <2>3 DEF TypeOK
    <3>3. disk[Start] \in Seq([file : File, base : Dir])
      BY OutputsAssumption DEF TypeOK
    <3>4. patch.base = Start
      BY <2>1
    <3>. HIDE DEF patch
    <3>5. \A i \in DOMAIN disk'[Start] : disk'[Start][i].base = Start
      BY <3>1, <3>3, <3>4
    <3>. QED BY <1>8, <3>2, <3>5 DEF WriteFile
  <2>. QED BY <1>8, <2>2, <2>3 DEF WriteFile, WithPatch
<1>9. ASSUME NEW x \in unwritten, FailWrite(x) PROVE PatchInPlace'
  BY <1>9 DEF FailWrite, Fail
<1>10. ASSUME EndWrite PROVE PatchInPlace'
  BY <1>10 DEF EndWrite
<1>11. ASSUME UNCHANGED vars PROVE PatchInPlace'
  BY <1>11 DEF vars
<1>. QED
  BY <1>1, <1>2, <1>3, <1>4, <1>5, <1>6, <1>7, <1>8, <1>9, <1>10, <1>11
  DEF Next, Done

(* Whatever directories go get ran in, and wherever it failed, the patches *)
(* are in the file that was created and relative to the application.       *)
THEOREM PatchInPlaceHolds == Spec => []PatchInPlace
  BY OutputsInvariant, InitPlace, PlaceStep, PTL DEF Spec

-----------------------------------------------------------------------------
(* TestCallsAgree.                                                         *)

(* A second tree of a file of the package under test is left as it is.     *)
CopyKept(p) ==
  \A f \in FilesOf(p) : ~TestFile(app, p, f) /\ ~IsGenerated(f) =>
    text[p][f] = app.text[p][f]

(* Packages wait untouched; those visited agree.                           *)
TestsInv ==
  Supported(app) =>
    /\ stage = "tests" => \A p \in pending : text[p] = app.text[p]
    /\ \A p \in app.pkgs : ForTest(p) # NoPackage =>
         /\ CopyKept(p)
         /\ (stage = "tests" /\ p \in pending) \/ CallsOfTestAgree(p)

(* A call that compiled is repaired to what the declaration has become.    *)
LEMMA RepairCallAgrees ==
  ASSUME NEW p, NEW c \in Call, Compiled(app, p, c),
         app \in AppType, app.pkgs \subseteq Package,
         NEW d \in Invocation(p, RepairCall(p, c))
  PROVE  RepairCall(p, c).args = d.fields
<1> DEFINE r == RepairCall(p, c)
           q == ResolvePath(c.path, ForTest(p))
<1>1. r.fun = c.fun /\ r.path = c.path /\ r.ident = c.ident
  BY DEF RepairCall, Call
<1>2. /\ c.ident /\ q \in app.pkgs /\ app.table[q][c.fun].declared
      /\ d = app.table[q][c.fun]
  BY <1>1 DEF Invocation, IsDefinedInPackage, Declared
<1>3. Invocation(p, c) = {d}
  BY <1>2 DEF Invocation, IsDefinedInPackage, Declared, Call
<1>4. /\ d.added => d.given
      /\ d.fields = c.args + (IF d.added THEN 1 ELSE 0)
  BY <1>2 DEF Compiled, ForTest
<1>5. d \in Entry /\ c.args \in Nat
  BY <1>2 DEF AppType, Call
<1>6. r = IF d.given /\ c.args # d.fields
          THEN [c EXCEPT !.args = c.args + 1] ELSE c
  BY <1>3 DEF RepairCall
<1>7. CASE d.given /\ c.args # d.fields
  <2>1. d.added
    BY <1>4, <1>5, <1>7
  <2>2. r.args = c.args + 1
    BY <1>6, <1>7 DEF Call
  <2>. QED BY <1>4, <2>1, <2>2
<1>8. CASE ~(d.given /\ c.args # d.fields)
  <2>1. r = c
    BY <1>6, <1>8
  <2>2. c.args = d.fields
    BY <1>4, <1>5, <1>8 DEF Entry
  <2>. QED BY <2>1, <2>2
<1>. QED BY <1>7, <1>8

(* What Supported says of one file of a test package.                      *)
LEMMA SupportedFile ==
  ASSUME Supported(app), NEW p \in app.pkgs, ForTest(p) # NoPackage,
         NEW f \in FilesOf(p)
  PROVE  /\ TestFile(app, p, f) => ~IsGenerated(f) /\ TestCompiled(app, p, f)
         /\ ~TestFile(app, p, f) => IsGenerated(f) \/ CopyDeclared(app, p, f)
         /\ f \in File => <<p, f>> \notin app.edited
         /\ ForTest(p) \in app.pkgs
<1>1. PICK i \in DOMAIN app.syntax[p] : app.syntax[p][i] = f
  BY DEF FilesOf
<1>. QED BY <1>1 DEF Supported, ForTest, IsGenerated

LEMMA FilesType == ASSUME TypeOK, NEW p \in app.pkgs PROVE FilesOf(p) \subseteq File
<1>1. app.syntax[p] \in Seq(File)
  BY AppFacts
<1>. QED BY <1>1 DEF FilesOf

(* The package that is visited comes to agree.                             *)
LEMMA VisitedAgrees ==
  ASSUME TypeOK, Supported(app), NEW p \in app.pkgs, ForTest(p) # NoPackage,
         text[p] = app.text[p], ResolvePackage(p)
  PROVE  CallsOfTestAgree(p)' /\ CopyKept(p)'
<1> DEFINE new(f) == IF f \in FilesOf(p) /\ ~IsGenerated(f)
                     THEN RepairFile(p, f) ELSE text[p][f]
<1>0. app \in AppType /\ app.pkgs \subseteq Package /\ app' = app /\ p \in Package
  BY AppFacts DEF ResolvePackage
<1>1. \A f \in File : text'[p][f] = new(f)
  BY <1>0 DEF ResolvePackage, TypeOK
<1>2. FilesOf(p) \subseteq File /\ FilesOf(p)' = FilesOf(p)
  BY <1>0, FilesType DEF FilesOf
<1>3. ASSUME NEW f \in FilesOf(p), TestFile(app, p, f),
             NEW i \in DOMAIN text'[p][f], NEW j \in DOMAIN text'[p][f][i],
             NEW d \in Invocation(p, text'[p][f][i][j])
      PROVE  text'[p][f][i][j].args = d.fields
  <2> DEFINE old == text[p][f]
  <2>1. ~IsGenerated(f) /\ TestCompiled(app, p, f)
    BY <1>3, SupportedFile
  <2>2. text'[p][f] = RepairFile(p, f)
    BY <1>1, <1>2, <2>1
  <2>3. DOMAIN text'[p][f] = DOMAIN old
    BY <2>2 DEF RepairFile
  <2>4. Repairs(p, f, i)
    BY <2>1, <2>3, <1>3 DEF TestCompiled, Repairs, IsDefinedInPackage, ForTest
  <2>5. text'[p][f][i] = [k \in DOMAIN old[i] |-> RepairCall(p, old[i][k])]
    BY <2>2, <2>3, <2>4 DEF RepairFile
  <2>6. j \in DOMAIN old[i] /\ text'[p][f][i][j] = RepairCall(p, old[i][j])
    BY <2>5
  <2>7. Compiled(app, p, old[i][j])
    BY <2>1, <2>3, <2>6 DEF TestCompiled
  <2>8. old[i][j] \in Call
    <3>1. old \in Seq(Seq(Call))
      BY <1>0, <1>2 DEF TypeOK
    <3>2. old[i] \in Seq(Call)
      BY <2>3, <3>1
    <3>. QED BY <2>6, <3>2
  <2>. QED BY <1>0, <2>6, <2>7, <2>8, RepairCallAgrees
<1>4. CallsOfTestAgree(p)'
  BY <1>0, <1>2, <1>3
  DEF CallsOfTestAgree, Invocation, IsDefinedInPackage, Declared, ForTest
<1>5. ASSUME NEW f \in FilesOf(p), ~TestFile(app, p, f), ~IsGenerated(f)
      PROVE  text'[p][f] = app.text[p][f]
  <2> DEFINE old == text[p][f]
  <2>1. CopyDeclared(app, p, f)
    BY <1>5, SupportedFile
  <2>2. \A i \in DOMAIN old : ~Repairs(p, f, i)
    BY <2>1 DEF CopyDeclared, Repairs, IsDefinedInPackage, ForTest
  <2>3. RepairFile(p, f) = [i \in DOMAIN old |-> old[i]]
    BY <2>2 DEF RepairFile
  <2>4. old \in Seq(Seq(Call))
    BY <1>0, <1>2 DEF TypeOK
  <2>5. old = [i \in DOMAIN old |-> old[i]]
    BY <2>4
  <2>. QED BY <1>1, <1>2, <1>5, <2>3, <2>5
<1>6. CopyKept(p)'
  BY <1>0, <1>2, <1>5 DEF CopyKept, IsGenerated
<1>. QED BY <1>4, <1>6

(* Another package stays as it is.                                         *)
LEMMA OthersKept ==
  ASSUME TypeOK, NEW p \in Package, ResolvePackage(p), NEW q \in Package, q # p
  PROVE  text'[q] = text[q]
  BY DEF ResolvePackage, TypeOK

(* Nor does agreement depend on anything else.                             *)
LEMMA AgreementKept ==
  ASSUME NEW q, app' = app, text'[q] = text[q], CallsOfTestAgree(q)
  PROVE  CallsOfTestAgree(q)'
<1>1. FilesOf(q)' = FilesOf(q)
  BY DEF FilesOf
<1>2. \A c : Invocation(q, c)' = Invocation(q, c)
  BY DEF Invocation, IsDefinedInPackage, Declared, ForTest
<1>3. ASSUME NEW f \in FilesOf(q), TestFile(app, q, f),
             NEW i \in DOMAIN text'[q][f], NEW j \in DOMAIN text'[q][f][i]
      PROVE  \A d \in Invocation(q, text'[q][f][i][j]) :
               text'[q][f][i][j].args = d.fields
  BY <1>3 DEF CallsOfTestAgree
<1>. QED
  BY <1>1, <1>2, <1>3
  DEF CallsOfTestAgree, Invocation, IsDefinedInPackage, Declared, ForTest

LEMMA TestsInit == Init => TestsInv
  BY DEF Init, TestsInv, CopyKept

(* The application is data.                                                *)
LEMMA AppKept == [Next]_vars => app' = app
<1>1. (\E p \in Package : ResolvePackage(p)) => app' = app
  BY DEF ResolvePackage
<1>2. EndResolve => app' = app
  BY DEF EndResolve
<1>3. (\E p \in Package : SkipTestPackage(p) \/ AddModules(p) \/ FailModules(p))
        => app' = app
  BY DEF SkipTestPackage, AddModules, FailModules
<1>4. EndModules \/ EndWrite \/ UNCHANGED vars => app' = app
  BY DEF EndModules, EndWrite, vars
<1>5. (\E x \in unwritten : SkipGenerated(x) \/ WriteFile(x) \/ FailWrite(x))
        => app' = app
  BY DEF SkipGenerated, WriteFile, FailWrite
<1>. QED BY <1>1, <1>2, <1>3, <1>4, <1>5 DEF Next, Done

LEMMA TestsStep == TypeInv /\ TestsInv /\ [Next]_vars => TestsInv'
<1>. SUFFICES ASSUME TypeOK, TestsInv, [Next]_vars, Supported(app)
              PROVE  TestsInv'
  BY AppKept DEF TypeInv, TestsInv
<1>0. /\ stage = "tests" => \A p \in pending : text[p] = app.text[p]
      /\ \A p \in app.pkgs : ForTest(p) # NoPackage =>
           /\ CopyKept(p)
           /\ (stage = "tests" /\ p \in pending) \/ CallsOfTestAgree(p)
  BY DEF TestsInv
<1>1. ASSUME NEW p \in Package, ResolvePackage(p) PROVE TestsInv'
  <2>0. /\ app' = app /\ stage = "tests" /\ stage' = "tests"
        /\ pending' = pending \ {p} /\ p \in pending
        /\ pending \subseteq app.pkgs /\ app.pkgs \subseteq Package
    BY <1>1, AppFacts DEF ResolvePackage, TypeOK
  <2>1. \A q \in pending' : text'[q] = app'.text[q]
    BY <1>0, <1>1, <2>0, OthersKept
  <2>2. ASSUME NEW q \in app.pkgs, ForTest(q) # NoPackage
        PROVE  CopyKept(q)' /\ (q \in pending' \/ CallsOfTestAgree(q)')
    <3>1. CASE q = p
      BY <1>0, <1>1, <2>0, <2>2, <3>1, VisitedAgrees
    <3>2. CASE q # p
      <4>1. text'[q] = text[q]
        BY <1>1, <2>0, <3>2, OthersKept
      <4>2. CopyKept(q)'
        BY <1>0, <2>0, <2>2, <4>1 DEF CopyKept, FilesOf, IsGenerated
      <4>3. CallsOfTestAgree(q) => CallsOfTestAgree(q)'
        BY <2>0, <4>1, AgreementKept
      <4>. QED BY <1>0, <2>0, <2>2, <3>2, <4>2, <4>3
    <3>. QED BY <3>1, <3>2
  <2>. QED BY <2>0, <2>1, <2>2 DEF TestsInv, ForTest
<1>2. ASSUME app' = app, text' = text, stage' # "tests",
             stage = "tests" => pending = {}
      PROVE  TestsInv'
  <2>1. ASSUME NEW q \in app.pkgs, ForTest(q) # NoPackage
        PROVE  CopyKept(q)' /\ CallsOfTestAgree(q)'
    <3>1. CopyKept(q)'
      BY <1>0, <1>2, <2>1 DEF CopyKept, FilesOf, IsGenerated
    <3>2. CallsOfTestAgree(q)
      BY <1>0, <1>2, <2>1
    <3>3. CallsOfTestAgree(q)'
      BY <1>2, <3>2, AgreementKept
    <3>. QED BY <3>1, <3>3
  <2>. QED BY <1>2, <2>1 DEF TestsInv, ForTest
<1>3. ASSUME EndResolve PROVE TestsInv'
  BY <1>2, <1>3 DEF EndResolve
<1>4. ASSUME NEW p \in Package, SkipTestPackage(p) PROVE TestsInv'
  BY <1>2, <1>4 DEF SkipTestPackage
<1>5. ASSUME NEW p \in Package, AddModules(p) PROVE TestsInv'
  BY <1>2, <1>5 DEF AddModules
<1>6. ASSUME NEW p \in Package, FailModules(p) PROVE TestsInv'
  BY <1>2, <1>6 DEF FailModules, Fail
<1>7. ASSUME EndModules PROVE TestsInv'
  BY <1>2, <1>7 DEF EndModules
<1>8. ASSUME NEW x \in unwritten, SkipGenerated(x) PROVE TestsInv'
  BY <1>2, <1>8 DEF SkipGenerated
<1>9. ASSUME NEW x \in unwritten, WriteFile(x) PROVE TestsInv'
  BY <1>2, <1>9 DEF WriteFile
<1>10. ASSUME NEW x \in unwritten, FailWrite(x) PROVE TestsInv'
  BY <1>2, <1>10 DEF FailWrite, Fail
<1>11. ASSUME EndWrite PROVE TestsInv'
  BY <1>2, <1>11 DEF EndWrite
<1>12. ASSUME UNCHANGED vars PROVE TestsInv'
  <2>1. app' = app /\ text' = text /\ stage' = stage /\ pending' = pending
    BY <1>12 DEF vars
  <2>2. ASSUME NEW q \in app.pkgs, ForTest(q) # NoPackage
        PROVE  /\ CopyKept(q)'
               /\ (stage = "tests" /\ q \in pending) \/ CallsOfTestAgree(q)'
    <3>1. CopyKept(q)'
      BY <1>0, <2>1, <2>2 DEF CopyKept, FilesOf, IsGenerated
    <3>. QED BY <1>0, <2>1, <2>2, <3>1, AgreementKept
  <2>. QED BY <1>0, <2>1, <2>2 DEF TestsInv, ForTest
<1>. QED
  BY <1>1, <1>3, <1>4, <1>5, <1>6, <1>7, <1>8, <1>9, <1>10, <1>11, <1>12
  DEF Next, Done

(* In whatever order the packages are visited, a test that compiled before *)
(* passes every function of the application what it takes now.             *)
THEOREM TestCallsAgreeHolds == Spec => []TestCallsAgree
<1>1. TypeInv /\ TestsInv => TestCallsAgree
  BY DEF TestsInv, TestCallsAgree
<1>2. Spec => []TestsInv
  BY OutputsInvariant, TestsInit, TestsStep, PTL DEF Spec
<1>. QED BY OutputsInvariant, <1>1, <1>2, PTL

-----------------------------------------------------------------------------
(* DiffWhole.                                                              *)

Printed(x) == Changed(x[1], FileAt(x)) /\ ~IsGenerated(FileAt(x))

(* Every patch is that of a position already behind, and no two agree.     *)
PatchOf(i, x) == FileAt(x) = disk[Start][i].file /\ Printed(x)
Backed    == \A i \in DOMAIN disk[Start] :
               \E x \in AllFiles : x \notin unwritten /\ PatchOf(i, x)
Distinct  == \A i, j \in DOMAIN disk[Start] :
               disk[Start][i].file = disk[Start][j].file => i = j
(* What is behind has its patch.                                           *)
Complete  == stage \in {"diff", "done"} =>
               \A x \in AllFiles : x \notin unwritten /\ Printed(x) =>
                 FileAt(x) \in Patched
Exhausted == stage = "done" => unwritten = {}

DiffInv == /\ Early /\ Backed /\ Complete /\ Exhausted
           /\ Supported(app) => Distinct

LEMMA PositionPair ==
  ASSUME NEW x \in AllFiles PROVE x = <<x[1], x[2]>>
  BY DEF AllFiles

(* Of two trees of one file, one is a copy that prints as the source.      *)
LEMMA CopyUnchanged ==
  ASSUME TypeOK, TestsInv, Supported(app), NEW x \in AllFiles,
         NEW y \in AllFiles, FileAt(x) = FileAt(y),
         app.forTest[x[1]] # NoPackage, app.forTest[x[1]] = y[1]
  PROVE  ~Printed(x)
<1> DEFINE f == FileAt(x)
<1>1. /\ x[1] \in app.pkgs /\ f \in FilesOf(x[1]) /\ f \in File
      /\ y[2] \in DOMAIN app.syntax[y[1]]
  BY FileAtType DEF FileAt, FilesOf
<1>2. ~TestFile(app, x[1], f)
  BY <1>1 DEF TestFile, FileAt
<1>3. ForTest(x[1]) # NoPackage
  BY DEF ForTest
<1>4. <<x[1], f>> \notin app.edited
  BY <1>1, <1>3, SupportedFile
<1>5. CopyKept(x[1])
  BY <1>1, <1>3 DEF TestsInv
<1>. QED BY <1>1, <1>2, <1>4, <1>5 DEF CopyKept, Printed, Changed

LEMMA PrintedOnce ==
  ASSUME TypeOK, TestsInv, Supported(app), NEW x \in AllFiles,
         NEW y \in AllFiles, FileAt(x) = FileAt(y), Printed(x), Printed(y)
  PROVE  x = y
<1>. SUFFICES ASSUME x # y PROVE FALSE
  OBVIOUS
<1>1. /\ x[1] \in app.pkgs /\ x[2] \in DOMAIN app.syntax[x[1]]
      /\ y[1] \in app.pkgs /\ y[2] \in DOMAIN app.syntax[y[1]]
  BY FileAtType
<1>2. <<x[1], x[2]>> # <<y[1], y[2]>>
  BY PositionPair
<1>3. \/ app.forTest[x[1]] # NoPackage /\ app.forTest[x[1]] = y[1]
      \/ app.forTest[y[1]] # NoPackage /\ app.forTest[y[1]] = x[1]
  BY <1>1, <1>2 DEF Supported, OneCopy, FileAt
<1>. QED BY <1>3, CopyUnchanged

LEMMA DiffInit == Init => DiffInv
  BY OutputsAssumption
  DEF Init, DiffInv, Early, Backed, Complete, Exhausted, Distinct

(* A step that leaves texts and patches alone.                             *)
LEMMA PrintKept ==
  ASSUME app' = app, text' = text
  PROVE  /\ AllFiles' = AllFiles
         /\ \A x : FileAt(x)' = FileAt(x) /\ (Printed(x)' <=> Printed(x))
  BY DEF AllFiles, FileAt, Printed, Changed, IsGenerated

LEMMA WriteStep ==
  ASSUME TypeInv, PatchInPlace, TestsInv, DiffInv, NEW x \in AllFiles,
         x \in unwritten, WriteFile(x)
  PROVE  DiffInv'
<1> DEFINE patch == [file |-> FileAt(x), base |-> cwd]
           old == disk[Start]
<1>0. /\ app' = app /\ text' = text /\ stage = "diff" /\ stage' = "diff"
      /\ unwritten' = unwritten \ {x} /\ ~IsGenerated(FileAt(x))
      /\ cwd = Start /\ TypeOK
  BY DEF WriteFile, TypeInv, PatchInPlace
<1>1. /\ AllFiles' = AllFiles
      /\ \A y : FileAt(y)' = FileAt(y) /\ (Printed(y)' <=> Printed(y))
  BY <1>0, PrintKept
<1>2. CASE ~Printed(x)
  <2>1. disk' = disk
    BY <1>0, <1>2 DEF WriteFile, WithPatch, Printed
  <2>2. Backed' /\ (Distinct => Distinct') /\ Patched' = Patched
    BY <1>0, <1>1, <2>1 DEF DiffInv, Backed, PatchOf, Distinct, Patched
  <2>3. Complete'
    BY <1>0, <1>1, <1>2, <2>2 DEF DiffInv, Complete
  <2>. QED BY <1>0, <2>2, <2>3 DEF DiffInv, Early, Exhausted
<1>3. CASE Printed(x)
  <2>1. disk'[Start] = Append(old, patch)
    BY <1>0, <1>3, OutputsAssumption DEF WriteFile, WithPatch, Printed, TypeOK
  <2>2. old \in Seq([file : File, base : Dir]) /\ Len(old) \in Nat
    <3>1. Start \in Dir /\ disk \in [Dir -> Seq([file : File, base : Dir])]
      BY <1>0, OutputsAssumption DEF TypeOK
    <3>2. disk[Start] \in Seq([file : File, base : Dir])
      BY <3>1
    <3>. QED BY <3>2
  <2>3. /\ DOMAIN disk'[Start] = 1 .. Len(old) + 1
        /\ DOMAIN old = 1 .. Len(old)
        /\ disk'[Start][Len(old) + 1].file = FileAt(x)
        /\ \A i \in 1 .. Len(old) : disk'[Start][i] = old[i]
    BY <2>1, <2>2
  <2>4. Backed'
    <3>1. ASSUME NEW i \in 1 .. Len(old) + 1
          PROVE  \E y \in AllFiles : /\ y \notin unwritten' /\ Printed(y)
                                     /\ FileAt(y) = disk'[Start][i].file
      <4>1. CASE i = Len(old) + 1
        BY <1>0, <1>3, <2>3, <4>1
      <4>2. CASE i \in 1 .. Len(old)
        BY <1>0, <2>3, <4>2 DEF DiffInv, Backed, PatchOf
      <4>. QED BY <2>2, <4>1, <4>2
    <3>. QED BY <1>1, <2>3, <3>1 DEF Backed, PatchOf
  <2>5. ASSUME Supported(app) PROVE Distinct'
    <3>1. \A i \in 1 .. Len(old) : old[i].file # FileAt(x)
      BY <1>0, <1>3, <2>3, <2>5, PrintedOnce DEF DiffInv, Backed, PatchOf
    <3>2. \A i, j \in 1 .. Len(old) : old[i].file = old[j].file => i = j
      BY <2>3, <2>5 DEF DiffInv, Distinct
    <3>3. ASSUME NEW i \in 1 .. Len(old) + 1, NEW j \in 1 .. Len(old) + 1,
                 disk'[Start][i].file = disk'[Start][j].file
          PROVE  i = j
      <4>1. CASE i \in 1 .. Len(old) /\ j \in 1 .. Len(old)
        BY <2>3, <3>2, <3>3, <4>1
      <4>2. CASE i \in 1 .. Len(old) /\ j = Len(old) + 1
        BY <2>3, <3>1, <3>3, <4>2
      <4>3. CASE i = Len(old) + 1 /\ j \in 1 .. Len(old)
        BY <2>3, <3>1, <3>3, <4>3
      <4>4. CASE i = Len(old) + 1 /\ j = Len(old) + 1
        BY <4>4
      <4>. QED BY <2>2, <4>1, <4>2, <4>3, <4>4
    <3>. QED BY <2>3, <3>3 DEF Distinct
  <2>6. Complete'
    <3>1. Patched' = Patched \cup {FileAt(x)}
      <4>1. ASSUME NEW i \in 1 .. Len(old) + 1
            PROVE  disk'[Start][i].file \in Patched \cup {FileAt(x)}
        <5>1. i \in 1 .. Len(old) \/ i = Len(old) + 1
          BY <2>2
        <5>. QED BY <2>3, <5>1 DEF Patched
      <4>2. ASSUME NEW i \in 1 .. Len(old)
            PROVE  \E j \in 1 .. Len(old) + 1 :
                     disk'[Start][j].file = old[i].file
        BY <2>2, <2>3, <4>2
      <4>3. Len(old) + 1 \in 1 .. Len(old) + 1
        BY <2>2
      <4>. HIDE DEF patch
      <4>4. Patched' = {disk'[Start][i].file : i \in 1 .. Len(old) + 1}
        BY <2>3 DEF Patched
      <4>5. Patched = {old[i].file : i \in 1 .. Len(old)}
        BY <2>3 DEF Patched
      <4>6. Patched' \subseteq Patched \cup {FileAt(x)}
        BY <4>1, <4>4
      <4>7. FileAt(x) \in Patched'
        BY <2>3, <4>3, <4>4
      <4>8. Patched \subseteq Patched'
        BY <4>2, <4>4, <4>5
      <4>. QED BY <4>6, <4>7, <4>8
    <3>. QED BY <1>0, <1>1, <3>1 DEF DiffInv, Complete
  <2>. QED BY <1>0, <2>4, <2>5, <2>6 DEF DiffInv, Early, Exhausted
<1>. QED BY <1>2, <1>3

LEMMA DiffStep ==
  TypeInv /\ PatchInPlace /\ TestsInv /\ DiffInv /\ [Next]_vars => DiffInv'
<1>. SUFFICES ASSUME TypeInv, PatchInPlace, TestsInv, DiffInv, [Next]_vars
              PROVE  DiffInv'
  OBVIOUS
<1>0. app' = app /\ unwritten \subseteq AllFiles
  BY AppKept DEF TypeInv, TypeOK
(* Before WriteDiff there is no patch, and nothing else matters.           *)
<1>1. ASSUME stage' \in {"tests", "modules"}, disk' = disk,
             stage \in {"tests", "modules"}
      PROVE  DiffInv'
  BY <1>1 DEF DiffInv, Early, Backed, Complete, Exhausted, Distinct
<1>2. ASSUME NEW p \in Package, ResolvePackage(p) PROVE DiffInv'
  BY <1>1, <1>2 DEF ResolvePackage
<1>3. ASSUME EndResolve PROVE DiffInv'
  BY <1>1, <1>3 DEF EndResolve
<1>4. ASSUME NEW p \in Package, SkipTestPackage(p) PROVE DiffInv'
  BY <1>1, <1>4 DEF SkipTestPackage
<1>5. ASSUME NEW p \in Package, AddModules(p) PROVE DiffInv'
  BY <1>1, <1>5 DEF AddModules
<1>6. ASSUME stage' = "failed", disk' = disk, text' = text, unwritten' = {}
      PROVE  DiffInv'
  <2>1. /\ AllFiles' = AllFiles
        /\ \A y : FileAt(y)' = FileAt(y) /\ (Printed(y)' <=> Printed(y))
    BY <1>0, <1>6, PrintKept
  <2>. QED BY <1>0, <1>6, <2>1
           DEF DiffInv, Early, Backed, PatchOf, Complete, Exhausted, Distinct
<1>7. ASSUME NEW p \in Package, FailModules(p) PROVE DiffInv'
  BY <1>6, <1>7 DEF FailModules, Fail
<1>8. ASSUME EndModules PROVE DiffInv'
  <2>1. /\ stage' = "diff" /\ disk'[Start] = << >> /\ unwritten' = AllFiles'
    BY <1>8 DEF EndModules, DiffInv, Early, AllFiles
  <2>. QED BY <2>1 DEF DiffInv, Early, Backed, Complete, Exhausted, Distinct
<1>9. ASSUME NEW x \in unwritten, SkipGenerated(x) PROVE DiffInv'
  <2>1. /\ text' = text /\ disk' = disk /\ stage' = stage /\ stage = "diff"
        /\ unwritten' = unwritten \ {x} /\ IsGenerated(FileAt(x))
    BY <1>9 DEF SkipGenerated
  <2>2. /\ AllFiles' = AllFiles
        /\ \A y : FileAt(y)' = FileAt(y) /\ (Printed(y)' <=> Printed(y))
    BY <1>0, <2>1, PrintKept
  <2>3. ~Printed(x)
    BY <2>1 DEF Printed
  <2>4. Backed' /\ (Distinct => Distinct') /\ Patched' = Patched
    BY <2>1, <2>2 DEF DiffInv, Backed, PatchOf, Distinct, Patched
  <2>5. Complete'
    BY <2>1, <2>2, <2>3, <2>4 DEF DiffInv, Complete
  <2>. QED BY <1>0, <2>1, <2>4, <2>5 DEF DiffInv, Early, Exhausted
<1>10. ASSUME NEW x \in unwritten, WriteFile(x) PROVE DiffInv'
  BY <1>0, <1>10, WriteStep
<1>11. ASSUME NEW x \in unwritten, FailWrite(x) PROVE DiffInv'
  BY <1>6, <1>11 DEF FailWrite, Fail
<1>12. ASSUME text' = text, disk' = disk, unwritten' = unwritten,
              \/ stage' = stage
              \/ stage = "diff" /\ stage' = "done" /\ unwritten = {}
       PROVE  DiffInv'
  <2>1. /\ AllFiles' = AllFiles
        /\ \A y : FileAt(y)' = FileAt(y) /\ (Printed(y)' <=> Printed(y))
    BY <1>0, <1>12, PrintKept
  <2>2. Backed' /\ (Distinct => Distinct') /\ Patched' = Patched
    BY <1>12, <2>1 DEF DiffInv, Backed, PatchOf, Distinct, Patched
  <2>3. Complete'
    BY <1>12, <2>1, <2>2 DEF DiffInv, Complete
  <2>. QED BY <1>0, <1>12, <2>2, <2>3 DEF DiffInv, Early, Exhausted
<1>13. ASSUME EndWrite PROVE DiffInv'
  BY <1>12, <1>13 DEF EndWrite
<1>14. ASSUME UNCHANGED vars PROVE DiffInv'
  BY <1>12, <1>14 DEF vars
<1>. QED
  BY <1>2, <1>3, <1>4, <1>5, <1>7, <1>8, <1>9, <1>10, <1>11, <1>13, <1>14
  DEF Next, Done

(* Wherever WriteDiff stops, no file has two patches, and when it succeeds *)
(* every file that changed has one.                                        *)
THEOREM DiffWholeHolds == Spec => []DiffWhole
<1>1. ASSUME TypeInv, DiffInv PROVE DiffWhole
  <2>1. ASSUME stage = "done", NEW p \in app.pkgs, NEW f \in FilesOf(p),
               Changed(p, f), ~IsGenerated(f)
        PROVE  f \in Patched
    <3>1. PICK i \in DOMAIN app.syntax[p] : app.syntax[p][i] = f
      BY DEF FilesOf
    <3>2. <<p, i>> \in AllFiles /\ FileAt(<<p, i>>) = f
      BY <3>1 DEF AllFiles, FileAt
    <3>. QED BY <1>1, <2>1, <3>2 DEF DiffInv, Exhausted, Complete, Printed
  <2>. QED BY <1>1, <2>1 DEF DiffWhole, DiffInv, Distinct
<1>2. TypeInv /\ DiffInv => DiffWhole
  BY <1>1
<1>3. Spec => []TestsInv
  BY OutputsInvariant, TestsInit, TestsStep, PTL DEF Spec
<1>4. Spec => []DiffInv
  BY OutputsInvariant, PatchInPlaceHolds, <1>3, DiffInit, DiffStep, PTL DEF Spec
<1>. QED BY OutputsInvariant, <1>2, <1>4, PTL
=============================================================================
