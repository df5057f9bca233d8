--------------------------- MODULE ManagerOutputs ---------------------------
(***************************************************************************)
(* The last steps of the pipeline, once the engine has changed the trees:  *)
(* ResolveUnitTests repairs the calls in test packages, AddRequiredModules *)
(* runs go get in the directory of every package, and WriteDiff appends a  *)
(* patch for every file.                                                   *)
(*                                                                         *)
(* With Tests set, go/packages lists a package again for its tests: its    *)
(* files are then in the manager twice, each with a tree of its own.  A    *)
(* test package records the package it is for; the binary that runs the    *)
(* tests is a test package for none.                                       *)
(*                                                                         *)
(* The trees are reduced to the calls in the declarations of a file.  Both *)
(* the path of the application and that of the diff may be relative: what  *)
(* they name depends on the working directory.                             *)
(***************************************************************************)
EXTENDS Naturals, Sequences

CONSTANTS Package,  \* identifiers of packages, numbered as they are sorted
          NoPackage,
          File, Name, Dir, Module,
          Start,    \* the working directory of the command
          Apps,     \* the applications considered, as the engine left them
          MaxOpen   \* files a process may have open

(* ident: the function is named, not selected from a value; path is the    *)
(* package it is qualified with.                                           *)
Call == [fun : Name, path : Package \cup {NoPackage}, ident : BOOLEAN,
         args : Nat]

(* A declaration in the table: its number of parameters, whether the last  *)
(* of them is a *newrelic.Transaction, and whether the engine added it.    *)
Entry == [declared : BOOLEAN, fields : Nat, given : BOOLEAN, added : BOOLEAN]

AppType ==
  [pkgs      : SUBSET Package,
   forTest   : [Package -> Package \cup {NoPackage}],
   testMain  : SUBSET Package,
   dir       : [Package -> Dir],
   syntax    : [Package -> Seq(File)],
   generated : SUBSET File,
   names     : [Package -> [File -> Seq(Name \cup {"var"})]],
   text      : [Package -> [File -> Seq(Seq(Call))]],
   table     : [Package -> [Name -> Entry]],
   edited    : SUBSET (Package \X File),
   imports   : [Package -> SUBSET Module]]

ASSUME OutputsAssumption ==
  /\ Package \subseteq Nat /\ NoPackage \notin Package
  /\ Start \in Dir /\ MaxOpen \in Nat
  /\ Apps \subseteq AppType

VARIABLES
  app,       \* the application, chosen once
  stage,     \* the step that runs
  pending,   \* packages the step has still to visit
  text,      \* the calls in every tree
  cwd,       \* the working directory of the process
  deferred,  \* directories to change back to, the last one first
  required,  \* modules added, with the directory
  unwritten, \* files WriteDiff has still to write
  open,      \* files it has opened
  disk       \* the patches under the path of the diff, in each directory

vars == <<app, stage, pending, text, cwd, deferred, required, unwritten, open,
          disk>>

ForTest(p)       == app.forTest[p]
IsTestPackage(p) == p \in app.testMain \/ ForTest(p) # NoPackage
IsGenerated(f)   == f \in app.generated
FilesOf(p)       == {app.syntax[p][i] : i \in DOMAIN app.syntax[p]}

Declared(a, q, name) ==
  name \in Name /\ q \in a.pkgs /\ a.table[q][name].declared
IsDefinedInPackage(name, q) == Declared(app, q, name)

Init ==
  /\ app \in Apps
  /\ stage = "tests" /\ pending = app.pkgs
  /\ text = app.text
  /\ cwd = Start /\ deferred = << >> /\ required = {}
  /\ unwritten = {} /\ open = 0
  /\ disk = [d \in Dir |-> << >>]

-----------------------------------------------------------------------------
(* ResolveUnitTests                                                        *)

ResolvePath(identPath, forTest) ==
  IF identPath # NoPackage THEN identPath ELSE forTest

(* getInvocationInfoFromCall: the table's entry, for a plain call only.    *)
Invocation(p, call) ==
  LET q == ResolvePath(call.path, ForTest(p))
  IN  IF call.ident /\ IsDefinedInPackage(call.fun, q)
      THEN {app.table[q][call.fun]} ELSE {}

(* Faulty: repairs what is already complete.                               *)
RepairCallAgain(p, call) ==
  IF \E d \in Invocation(p, call) : d.given
  THEN [call EXCEPT !.args = call.args + 1] ELSE call

RepairCall(p, call) ==
  IF \E d \in Invocation(p, call) : d.given /\ call.args # d.fields
  THEN [call EXCEPT !.args = call.args + 1] ELSE call

(* Faulty: declarations of the package under test are repaired, too.       *)
RepairsAny(p, f, i) == app.names[p][f][i] # "var"

(* A variable is no function; a declaration of the package under test is   *)
(* left to its own package.                                                *)
Repairs(p, f, i) ==
  /\ app.names[p][f][i] # "var"
  /\ ~IsDefinedInPackage(app.names[p][f][i], ForTest(p))

RepairFile(p, f) ==
  [i \in DOMAIN text[p][f] |->
     IF Repairs(p, f, i)
     THEN [j \in DOMAIN text[p][f][i] |-> RepairCall(p, text[p][f][i][j])]
     ELSE text[p][f][i]]

ResolvePackage(p) ==
  /\ stage = "tests" /\ p \in pending
  /\ text' = IF ForTest(p) = NoPackage THEN text
             ELSE [text EXCEPT ![p] =
                     [f \in File |-> IF f \in FilesOf(p) /\ ~IsGenerated(f)
                                     THEN RepairFile(p, f) ELSE text[p][f]]]
  /\ pending' = pending \ {p}
  /\ UNCHANGED <<app, stage, cwd, deferred, required, unwritten, open, disk>>

EndResolve ==
  /\ stage = "tests" /\ pending = {}
  /\ stage' = "modules" /\ pending' = app.pkgs
  /\ UNCHANGED <<app, text, cwd, deferred, required, unwritten, open, disk>>

-----------------------------------------------------------------------------
(* AddRequiredModules                                                      *)

(* Positions of files in the lists of the packages.                        *)
AllFiles == UNION {{p} \X DOMAIN app.syntax[p] : p \in app.pkgs}

(* Faulty: goes back in the order the directories were left.               *)
RestoredInOrder(dirs) == IF dirs = << >> THEN cwd ELSE dirs[Len(dirs)]

(* Deferred calls run when the function returns, the last one first: the   *)
(* directory that was left first is changed to at the end.                 *)
Restored(dirs) == IF dirs = << >> THEN cwd ELSE dirs[1]

Fail ==
  /\ stage' = "failed" /\ pending' = {} /\ unwritten' = {} /\ open' = 0

SkipTestPackage(p) ==
  /\ stage = "modules" /\ p \in pending /\ IsTestPackage(p)
  /\ pending' = pending \ {p}
  /\ UNCHANGED <<app, stage, text, cwd, deferred, required, unwritten, open,
                 disk>>

AddModules(p) ==
  /\ stage = "modules" /\ p \in pending /\ ~IsTestPackage(p)
  /\ deferred' = Append(deferred, cwd) /\ cwd' = app.dir[p]
  /\ required' = required \cup {<<app.dir[p], m>> : m \in app.imports[p]}
  /\ pending' = pending \ {p}
  /\ UNCHANGED <<app, stage, text, unwritten, open, disk>>

(* The directory cannot be entered, or one go get fails after others.      *)
FailModules(p) ==
  /\ stage = "modules" /\ p \in pending /\ ~IsTestPackage(p)
  /\ \/ required' = required
     \/ \E M \in SUBSET app.imports[p] :
          M # app.imports[p]
            /\ required' = required \cup {<<app.dir[p], m>> : m \in M}
  /\ cwd' = Restored(Append(deferred, cwd)) /\ deferred' = << >>
  /\ Fail /\ UNCHANGED <<app, text, disk>>

EndModules ==
  /\ stage = "modules" /\ pending = {}
  /\ cwd' = Restored(deferred) /\ deferred' = << >>
  /\ stage' = "diff" /\ pending' = {}
  /\ unwritten' = AllFiles
  /\ UNCHANGED <<app, text, required, open, disk>>

-----------------------------------------------------------------------------
(* WriteDiff                                                               *)

(* getSortedPackages, and the files of a package in order.                 *)
Before(x, y) == x[1] < y[1] \/ (x[1] = y[1] /\ x[2] <= y[2])
IsNext(x) == x \in unwritten /\ \A y \in unwritten : Before(x, y)
FileAt(x) == app.syntax[x[1]][x[2]]

(* The printed tree is compared with the file on the disk.                 *)
Changed(p, f) == <<p, f>> \in app.edited \/ text[p][f] # app.text[p][f]

(* An unchanged file gives an empty patch.                                 *)
WithPatch(x) ==
  IF Changed(x[1], FileAt(x))
  THEN [disk EXCEPT ![cwd] = Append(disk[cwd], [file |-> FileAt(x),
                                                base |-> cwd])]
  ELSE disk

SkipGenerated(x) ==
  /\ stage = "diff" /\ IsNext(x) /\ IsGenerated(FileAt(x))
  /\ unwritten' = unwritten \ {x}
  /\ UNCHANGED <<app, stage, pending, text, cwd, deferred, required, open, disk>>

(* Faulty: goes on when the diff could not be opened.                      *)
WriteFileUnopened(x) ==
  /\ stage = "diff" /\ IsNext(x) /\ ~IsGenerated(FileAt(x))
  /\ disk' = WithPatch(x)
  /\ open' = open + 1 /\ unwritten' = unwritten \ {x}
  /\ UNCHANGED <<app, stage, pending, text, cwd, deferred, required>>

(* The handle stays open until WriteDiff returns.                          *)
WriteFile(x) ==
  /\ stage = "diff" /\ IsNext(x) /\ ~IsGenerated(FileAt(x))
  /\ open < MaxOpen
  /\ disk' = WithPatch(x)
  /\ open' = open + 1 /\ unwritten' = unwritten \ {x}
  /\ UNCHANGED <<app, stage, pending, text, cwd, deferred, required>>

(* Reading, printing, opening (no handle left) or writing failed.          *)
FailWrite(x) ==
  /\ stage = "diff" /\ IsNext(x) /\ ~IsGenerated(FileAt(x))
  /\ Fail /\ UNCHANGED <<app, text, cwd, deferred, required, disk>>

EndWrite ==
  /\ stage = "diff" /\ unwritten = {}
  /\ stage' = "done" /\ open' = 0
  /\ UNCHANGED <<app, pending, text, cwd, deferred, required, unwritten, disk>>

Done == stage \in {"done", "failed"} /\ UNCHANGED vars

Next == \/ (\E p \in Package : ResolvePackage(p)) \/ EndResolve
        \/ (\E p \in Package : SkipTestPackage(p))
        \/ (\E p \in Package : AddModules(p))
        \/ (\E p \in Package : FailModules(p)) \/ EndModules
        \/ (\E x \in unwritten : SkipGenerated(x))
        \/ (\E x \in unwritten : WriteFile(x))
        \/ (\E x \in unwritten : FailWrite(x)) \/ EndWrite \/ Done

Spec == Init /\ [][Next]_vars

-----------------------------------------------------------------------------
(* The applications the repair is meant for.                               *)

(* A file of the package under test is listed again with its tests, and    *)
(* declares what the scan has seen; no other file is listed twice.         *)
TestFile(a, p, f) == \A i \in DOMAIN a.syntax[a.forTest[p]] :
                       a.syntax[a.forTest[p]][i] # f

OneCopy(a) ==
  \A p, q \in a.pkgs : \A i \in DOMAIN a.syntax[p], j \in DOMAIN a.syntax[q] :
    a.syntax[p][i] = a.syntax[q][j] /\ <<p, i>> # <<q, j>> =>
      (a.forTest[p] # NoPackage /\ a.forTest[p] = q)
        \/ (a.forTest[q] # NoPackage /\ a.forTest[q] = p)

CopyDeclared(a, p, f) ==
  \A i \in DOMAIN a.text[p][f] :
    a.names[p][f][i] = "var" \/ Declared(a, a.forTest[p], a.names[p][f][i])

(* A test compiled before the engine added a parameter, and calls what it  *)
(* was added to by name, in functions that have no name of the application. *)
Compiled(a, p, call) ==
  LET q == ResolvePath(call.path, a.forTest[p])
      d == a.table[q][call.fun]
  IN  q \in a.pkgs /\ d.declared =>
        /\ call.ident /\ (d.added => d.given)
        /\ d.fields = call.args + (IF d.added THEN 1 ELSE 0)

TestCompiled(a, p, f) ==
  \A i \in DOMAIN a.text[p][f] :
    /\ a.names[p][f][i] # "var"
    /\ ~Declared(a, a.forTest[p], a.names[p][f][i])
    /\ \A j \in DOMAIN a.text[p][f][i] : Compiled(a, p, a.text[p][f][i][j])

Supported(a) ==
  /\ OneCopy(a)
  /\ \A p \in a.pkgs : a.forTest[p] # NoPackage =>
       /\ a.forTest[p] \in a.pkgs
       /\ \A f \in File : <<p, f>> \notin a.edited
       /\ \A i \in DOMAIN a.syntax[p] :
            LET f == a.syntax[p][i] IN
            IF TestFile(a, p, f) THEN f \notin a.generated /\ TestCompiled(a, p, f)
            ELSE f \in a.generated \/ CopyDeclared(a, p, f)

-----------------------------------------------------------------------------
(* Properties.                                                             *)

TypeOK ==
  /\ app \in Apps
  /\ stage \in {"tests", "modules", "diff", "done", "failed"}
  /\ pending \subseteq app.pkgs
  /\ text \in [Package -> [File -> Seq(Seq(Call))]]
  /\ cwd \in Dir /\ deferred \in Seq(Dir)
  /\ required \subseteq Dir \X Module
  /\ unwritten \subseteq AllFiles
  /\ open \in 0 .. MaxOpen
  /\ disk \in [Dir -> Seq([file : File, base : Dir])]

(* Whatever directories AddRequiredModules went through, and wherever it   *)
(* failed, the patches go to the file CreateDiffFile made and name files   *)
(* relative to the application, and go get ran in a package's directory.   *)
PatchInPlace ==
  /\ stage # "modules" => cwd = Start
  /\ \A d \in Dir \ {Start} : disk[d] = << >>
  /\ \A i \in DOMAIN disk[Start] : disk[Start][i].base = Start
  /\ \A r \in required : \E p \in app.pkgs : r[1] = app.dir[p]

(* A test passes a function of the application as many arguments as the    *)
(* engine left it parameters, those it already passed included.            *)
CallsOfTestAgree(p) ==
  \A f \in FilesOf(p) : TestFile(app, p, f) =>
    \A i \in DOMAIN text[p][f] : \A j \in DOMAIN text[p][f][i] :
      \A d \in Invocation(p, text[p][f][i][j]) :
        text[p][f][i][j].args = d.fields
TestCallsAgree ==
  Supported(app) /\ stage # "tests" =>
    \A p \in app.pkgs : ForTest(p) # NoPackage => CallsOfTestAgree(p)

(* No file is patched twice although the manager holds it twice, and when  *)
(* WriteDiff succeeds every file that changed has its patch.               *)
Patched == {disk[Start][i].file : i \in DOMAIN disk[Start]}
DiffWhole ==
  /\ Supported(app) => \A i, j \in DOMAIN disk[Start] :
       disk[Start][i].file = disk[Start][j].file => i = j
  /\ stage = "done" =>
       \A p \in app.pkgs : \A f \in FilesOf(p) :
         Changed(p, f) /\ ~IsGenerated(f) => f \in Patched
=============================================================================
