# Verification of go-easy-instrumentation

`go-easy-instrumentation instrument <path>` reads a Go application, adds New
Relic instrumentation to its syntax trees and writes the difference as a patch.
This directory holds TLA+ models of the program in `src/`, the TLC runs that
check them on small instances, and proofs, checked by TLAPS, that hold for every
application.

## 1. The system

| Part | State it keeps | Operations |
| --- | --- | --- |
| `cmd/instrument.go` | the Bubble Tea `model`, an unbuffered channel, the diff file on disk | load, the steps of the pipeline, `Update`, `waitForNext`, exit |
| `parser/manager.go` | `packages` (declarations, marks, imports), `currentPackage`, `setupFunc`, the error cache, the transaction cache, facts | the two walks of the packages, lookup of calls, `AddImport`, `AddRequiredModules`, `WriteDiff`, `ResolveUnitTests` |
| `parser/tracing.go` | the locals of each activation of `TraceFunction` | one recursive walk of a function body |
| `parser/tracestate` | one `State` per activation, a trace object (transaction or context) | `AddToCall`, `AddParameterToDeclaration`, `CreateSegment`, `WrapWithTransaction`, `AssignTransactionVariable` |
| `parser/errors.go`, `errorcache` | one pending error for the whole manager | `NoticeError` |
| `parser/preinstrumentationtracing.go`, `transactioncache` | the user's own transactions and the calls in them | the `Detect...` scans |
| `parser/facts` | facts by name | `AddFact`, `GetFact` |
| `integrations/*` | none, except through the manager | roots of the walk (`InstrumentMain`, HTTP, gRPC, Gin, Echo), statement rewriting (`ExternalHttpCall`, ...) |
| `internal/*` | pending comments | syntax construction, type queries, comments |

How they interact. The command builds a manager and runs the steps *create diff
file, register integrations, trace package calls, scan, instrument, resolve unit
tests, add modules, write diff*; in a terminal they run in a worker goroutine
that sends progress over a channel. Within a step everything is sequential: the
difficulty is in shared mutable state that is used across deep recursion (the
current package, the error slot, the setup function, the marks, the text that
other activations have already changed) and in orders nobody chose (the order of
declarations, the iteration order of Go maps). The hazards, each at its line,
are listed in `PROJECT.json`.

What makes each part correct:

* the engine: every call agrees with the declaration it calls; every use of
  `nrTxn` is bound; a function is edited once; exactly the reachable functions
  are traced; lookups use the package of the function being walked; errors are
  neither lost nor captured twice nor captured out of scope; user code that is
  already instrumented, and the setup function, stay as they are;
* the command: it ends; "Done!" and, unless the display fails, the exit status
  tell what the disk says; the patch is never written over modules that could not be added;
* the scans: they end; a call is recorded for a transaction exactly if it runs
  in it; an ended transaction takes no more; the table of declarations they
  leave does not depend on the order of the packages;
* the fact keeper: each fact once;
* the integrations: together they leave a text in which every name is declared
  before it is read and no name is declared twice, the user's statements stand
  where they stood, every endpoint gets its New Relic part once, and a
  transaction is used only while it is live;
* test repair: calls in tests agree with the changed declarations;
* the outputs: patches land in the file that was created, name their files from
  there, and every changed file has exactly one.

## 2. Modules

| Module | What it is |
| --- | --- |
| `TraceFunction` | the engine: `instrumentPackages`, `InstrumentMain`, HTTP handlers, `TraceFunction`, the trace objects and the error cache |
| `MCTraceFunction` | the families of applications TLC enumerates |
| `TraceFunction_proofs` | theorems about the engine: types, packages, imports; what the steps of a walk have in common; no error is lost; the stack is a chain of calls |
| `TracedOnce_proofs` | what holds without recursion: each function edited once, each error accounted for once |
| `TracesReachable_proofs` | complete passes: the agent, the set-up, what is traced, where the transaction is in scope |
| `CallsAndErrors_proofs` | calls agree with the declarations they call; errors are captured once, where they come from |
| `ScanApplication` | the two passes before it: `TracePackageCalls` with the facts, `ScanApplication` with its detectors and the transaction cache |
| `MCScanApplication`, `ScanApplication_proofs` | its families and its theorems |
| `GoStatements` | the statements the integrations look at and generate |
| `WebIntegrations` | nrnethttp, nrgrpc, nrgin, nrecho-v3, nrecho-v4, nrgochi: what they recognise and what they make of it |
| `SqlDrivers` | nrpq, nrpgx5 and the shared sqlhelpers |
| `Loggers` | nrslog and nrlogrus |
| `InstrumentDeclaration` | one declaration under all integrations, in the order they are registered |
| `MCInstrumentDeclaration`, `InstrumentDeclaration_proofs` | the declarations TLC enumerates, and the theorems |
| `ManagerOutputs` | `ResolveUnitTests`, `AddRequiredModules`, `WriteDiff` |
| `MCManagerOutputs`, `ManagerOutputs_proofs` | its applications and its theorems |
| `InstrumentJob` | abstract: what the command promises to the shell |
| `InstrumentCommand` | `cmd/instrument.go`: pipeline, worker, channel, event loop, exit; implements `InstrumentJob` |
| `InstrumentCommand_proofs` | the theorems about the command, the steps of the refinement among them |

How they fit together. `InstrumentCommand` takes each step of the pipeline as
one action that succeeds or fails (three for `WriteDiff`); the other modules
open these steps up, in the order of the pipeline: `ScanApplication` (trace and
scan), `TraceFunction` and `InstrumentDeclaration` (instrument),
`ManagerOutputs` (resolve, modules, write). The last two views of *instrument*
divide the code between them: `TraceFunction` has the recursion into callees,
the tables, the errors, and counts edits; `InstrumentDeclaration` stays in one
declaration and has its text. The modules are checked apart; where one takes
what another leaves as its input, the text says so.

### TraceFunction

The user's application is a constant of the behaviour (`app`, chosen from
`Apps`). A function body is the sequence of nodes at which `dstutil.Apply` stops
in `TraceFunction`, in pre-order. A statement that contains another without a
block in between gives one node for each, and both list the call, because
`findInvocationInfo` finds it in both. A node says its kind, the calls found in
it, whether it is a member of a statement list (`c.Index() >= 0`), the error it
assigns or returns, whether it checks one, and whether it performs an outbound
HTTP call. The text of the program is not rendered: the model counts what is
appended to each call and each declaration, the segments, the `nrTxn :=`
statements, and records which functions mention `nrTxn`.

| Code | Model |
| --- | --- |
| locals of an activation and its `tracestate.State` | a `Frame` of `stack` |
| `manager.currentPackage`, `setupFunc`, `errorCache`, `importsAdded` | variables of the same names |
| `packageState.tracedFuncs` | `tracedFuncs[package][name]` |
| `instrumentPackages` and the root integrations | `StartPackage`, `VisitMain`, `VisitDecl` |
| before the walk (tracing.go:48-91) | `BeginFunction` |
| `go` statements (98-139) | `SkipGoInMain`, `TraceGoLiteral`, `TraceGoCall`, `FinishGo` |
| `f := func() {...}` (141-158) | `TraceLiteralAssignment` |
| the loop over the calls of a statement (160-187) | `TraceCall`, `SkipCall` |
| `NoticeError` and the stateful functions (189-199) | `FinishStatement` |
| after the walk (204-220) and `setPackage(rootPkg)` | `EndFunction` |

Abstractions, and why they are sound for the properties: only the agent's import
is recorded (the integrations' own imports are not asked for); a bare name
belongs to one package entry as in the code, methods without their receiver; the
results of the scan (marks, names in a user transaction, wrapped handlers) are
inputs of the family; the lookups of existing transaction parameters, segments
and existing errors compare identifier nodes by address, which never holds for
two places of a parsed program, so they have no effect and are left out; the
search of `getTracingParameter` for a `Transaction` parameter looks for a
non-pointer type and finds none. `MaxDepth` bounds the stack: a deeper call
sets `crashed`, as exhausting a goroutine's stack ends the process. From there
no action is enabled, so the deadlock check of a run reports a crash: that no
application of `Propagation` exhausts the stack, and that each pass of it can go
on until it is over, is what that check shows.

### ScanApplication

Again the application is a constant of the behaviour; a body is the sequence of
its calls, outer before inner, as `dstutil.Apply` meets them. A call says its
form (`f()`, `v.m()`, a call on a call, `<-c`), whether it is a statement, what
it is handed, and what the detectors look for in it.

| Code | Model |
| --- | --- |
| `packageState.tracedFuncs`, the fact keeper, `hasMain`, `errReturn` | `tracedFuncs`, `facts`, `hasMain`, `errReturn` |
| `TransactionCache` (`Functions`, `Transactions`, `ExistingErrors`) | `functions`, `transactions`, `existingErrors` |
| an activation of `DetectTransactions` or `trackFunctionCalls` | a `Frame` with role `detect` or `track` |
| `tracePackageFunctionCalls` | `StartPackage`, `DeclareFunction`, `EndDeclare` |
| `scanPackages` | `StartPackage`, `BeginDeclaration`, `EndDeclaration`, `EndScan` |
| `DetectTransactions` | `TakeTransaction`, `PassStatement`, `RecordStatement` |
| `trackFunctionCalls` | `RecordCall`, `SkipReceive`, `EndTrack` |
| `AddCall`, `IsTxnEnd`, `AddFuncDecl` | operators of the same names |
| the Gin and Echo detectors, `DetectWrappedRoutes`, `DetectErrors` | `WithWeb`, `WithRoutes`, `DetectErrors`, in the order `registerIntegrations` gives them |

The detectors run on every node of a declaration, the declaration last. On an
inner node only `DetectErrors` can have an effect of its own, with what earlier
declarations left (the `"many"` visits of `BeginDeclaration`); the others match
the same syntax again when they are given the declaration. `DetectErrors` stops at
an expression that is no call, such as a receive, and with it the loop over a Go
map: the model leaves out any of the transactions not yet visited.

How it meets the engine: `TableLeft` says what the entry and the mark of each
name are when the scan is done, and that is the table `TraceFunction` starts with
(`StoredDecl`, `hasTxn`), except that `TraceFunction` has no generated files.
The two modules are checked apart and not composed.

### GoStatements, WebIntegrations, SqlDrivers, Loggers, InstrumentDeclaration

A statement is a record of what the recognisers of the integrations ask of it:
its form, the function it calls and on what, the names it assigns with `:=` or
`=`, a field or literal it is about, its arguments, a call nested in them, the
options passed, and the block it contains. `id` is the position of a statement
of the user and 0 for a generated one. The generated statements are those of
`internal/codegen` and of each integration's `codegen.go`.

| Code | Model |
| --- | --- |
| the post-order walk of `instrumentPackages`, twelve stateless functions on each node | `visit`, `step`; `PostOrder`, `Running`, `NextFunction` |
| `TraceFunction` on this declaration: calls first, then the stateful functions | `tracing`, `walk`, `hook`, `state`; `StartTrace`, `Walking`, `TraceCalls`, `NextHook`, `EndTrace` |
| `InstrumentMain`, `checkForExistingApplicationInMain`, `handleAssignStmtForAgentVariable` | `InstrumentMain`, `AgentNoted` |
| `WrapWithTransaction` with `definedTxn`; `AddToCall`; `AssignTransactionVariable` | `WrapWithTransaction` and `state.defined`, `AddToCall`, `AssignTransactionVariable` |
| `importsAdded`, `agentVariableName`, `setupFunc` | `imports`, `agentVariable`, `setup` |
| `Instrument...` of each integration | an operator or action of the same name |

nrecho-v3 and nrecho-v4 are the same code with other import paths: one set of
operators with the version as a parameter. An application is given by one
declaration (`prog`): a `main` or a function, its literals, a nested block, an
`Init`, the parameters of each, whether it is a method of a registered gRPC
server (a fact of the scan) or a handler the user wrapped. A panic of the tool,
by a failed type assertion or an insertion where there is no list, sets
`crashed` and ends the pass, as it ends the process.

### ManagerOutputs

| Code | Model |
| --- | --- |
| `ResolveUnitTests` and the trees of the test packages | `ResolvePackage`, `EndResolve`; `text` |
| `getInvocationInfoFromCall` for a test package | `Invocation` |
| `AddRequiredModules`: `os.Chdir`, the deferred change back, `go get` per import | `SkipTestPackage`, `AddModules`, `FailModules`, `EndModules`; `cwd`, `deferred`, `required` |
| `sortPackages`, the loop of `WriteDiff`, its `os.OpenFile` with the deferred `Close` | `SkipGenerated`, `WriteFile`, `FailWrite`, `EndWrite`; `unwritten`, `open`, `disk` |

The trees are what the engine left. `go/packages` gives a package once for
itself and again for its tests, with trees of their own: only the copy of the
application was changed. A test package names the package it is for. The diff's
path may be relative, so `disk` is indexed by the directory it is resolved in,
which is how a wrong working directory would show.

### InstrumentCommand

| Code | Model |
| --- | --- |
| the worker goroutine, or `instrumentPackages` in text mode | `Load`, `CreateDiffFile`, `WorkOnTrees`, `AddRequiredModules`, `AnnounceFile`, `WriteFile`, `EndWriteDiff`, `Panic` |
| `updates <- msg` | `offered`; the worker stops until `Receive` |
| `waitForNext` commands | `receivers`, `Receive` |
| `model.Update` | `Update`, messages in any order |
| Ctrl-C | `Interrupt` |
| `tea.Quit` and the end of `runTUIMode` / `runTextMode` | `Quit`, `ReturnText` |
| an error of `tea.NewProgram(...).Run()` (325-329) | `RunFails` |

Bubble Tea is external and modelled from how the code uses it: a command runs in
a goroutine of its own, its message is handled later, one at a time, in any
order; and `Run` may return an error at any time, which is printed and ends the
process with status 1 (`process = "broken"`), whatever the worker has done by
then. `CreateDiffFile`, `AddRequiredModules` and `WriteDiff` can fail at each of
their system calls, and a failure leaves what was done so far.

`InstrumentJob` is the contract with the shell: one outcome, reported once and
truthfully, unless the user, a panic or a broken display ends the process.
Status 1 therefore does not say that the job failed: a job that has succeeded,
its diff complete, ends with it when Bubble Tea fails before the model is told.
"Done!" does say that it succeeded. `ImplementsJob` is the refinement, checked as
a property.

## 3. Runs

| Run | Shows | Bounds |
| --- | --- | --- |
| `Propagation` | types, the current package, one edit per function, calls against declarations, scope of `nrTxn`, imports, reachability, setup function, one agent, the error cache, no crash | `main`, a handler, two functions in one or two packages, a literal, a setup function, a user transaction, an undeclared callee, with and without contexts; for the errors a handler, a function and its callee in two packages with up to five statements before, at and after the call, in all orders of assign, check, `if` with `Init`, return; both declaration orders; all package orders |
| `ScanApplication` | types, what is recorded for a transaction and what is not, closed transactions, the table the engine starts from, when the command gives up, the known errors, termination | `main`, a handler, two functions and a method of the name of one of them; three layouts over two packages; all package orders in either pass; up to two transactions in `main`, Gin, Echo and wrapped handlers, two gRPC server types, generated files |
| `InstrumentDeclaration` | names, user code, transactions, endpoints and loggers in the text that comes out | 219 declarations: each framework as `main` and as handler, with the agent made by the tool, by `main` or by a setup function; outbound calls by both clients; existing middleware; gRPC dials, servers and methods of every signature; every database method; handlers of slog and entries of logrus; combinations of two integrations in one body |
| `ManagerOutputs` | types, repaired tests, the working directory, the patches | 28 applications: a package with tests inside and outside of it, its test binary and a second package, generated files; functions that got, had or have no transaction; calls in tests to either package and to helpers; every order of the packages; a failure at any step; `MaxOpen` = 5, once one less than the files |
| `InstrumentCommand` | the command in both modes, every interleaving | three files, all failures, Bubble Tea's own included, one Ctrl-C |
| `Recursion`, `LiteralCall`, `SetupLate`, `PendingError`, `SegmentEnd`, `ClientInMain`, `BlockScope` | seven places where the code does not do what a comment or document says (violations, see `findings`) | the smallest application of each kind |

Why the bounds are enough: the engine relates a function only to its callers, its
callees and the roots, so two functions below two roots give every relation
(shared callee, deep callee, callee in another package, callee met before its own
root). Three files let a failure come before, between and after complete patches.
`MaxDepth = 5` is one more than the deepest acyclic chain of a family, so only
recursion exceeds it. An integration looks at one statement and at its block, and
passes to another only the agent's name, the trace state and the text: one
statement of each kind, in pairs, gives every such relation. `ManagerOutputs` has
every kind of package `go/packages` produces, and a second directory for the
working directory to be wrong in.

Deadlock is checked in every run; the only stuttering states are those in which
the modelled pass or process has ended.

Fairness. The engine is stated without: every step moves a walk forward in a
finite program, so all that could keep a pass from ending is recursion, which the
run `Recursion` and the deadlock check are about. The two passes of the scan are
one goroutine that runs as long as it can: `WF_vars(Next)`. In the command the
pipeline, the receive, the event loop and the exit are weakly fair: each is code
the Go scheduler or Bubble Tea runs when it is ready. Ctrl-C, panics and a failure
of Bubble Tea are not fair.

### What the passing families leave out

They are the applications the tool supports. Besides what the violation runs
show, these are not among them. Each was met while modelling; the actions model
what the code does with them.

The engine:

* a handler or a function with its own transaction that is also called directly
  (the call gets an extra argument); a goroutine on such a function (it gets a
  second transaction: tracing.go:126 does not ask for the scope);
* `go f(g())`, where each call found adds to the outer one; a function reached
  only from a goroutine of `main` and from elsewhere (the goroutine's call keeps
  its old arguments);
* `return g()` in a literal of a handler that is not changed otherwise;
* a call with a context in a statement that is visited twice, as in the `Init` of
  an `if` (its argument was replaced and is not recognised);
* a second caller of a traced function, which captures its error again
  (tracing.go:184).

The scan:

* a function that is reached while a transaction of the user is open and that
  reaches itself before it ends the transaction: `trackFunctionCalls` does not
  remember where it was. The proofs do cover these applications (`overflow`), the
  run's `Termination` does not;
* a function its own transaction reaches can hold an End of that variable that
  stands before a call recorded earlier: `NothingAfterEnd` is stated without it;
* a receive in a handler the user wrapped makes `DetectErrors` give up:
  `ErrorsKnown` is stated without one;
* an Echo transaction and a call by the user in one handler: the Echo detector
  empties the entry (preinstrumentationtracing.go:198).

The integrations:

* in `main`: calls of the application inside a handler's literal, or in a nested
  block before one outside of it (`BlockScope`); an outbound call in `main`
  itself; queries of the standard library's drivers together with calls of the
  application;
* two `http.DefaultClient.Do` in one block (`externalSegment` is defined twice),
  one in the `Init` of an `if`, a router or handler made there (the insertion
  panics), a target that is a field (the assertion panics);
* names of the user that the generated text relies on or collides with: a `ctx` or
  `config` of theirs, an error that is not named `err`, two pgx connections;
* the blank import of `lib/pq` in another package than the one that opens the
  database: it is not swapped;
* middleware: the receiver is not compared, so a second router of the same
  framework is skipped; existing middleware of Chi and gRPC is not looked for;
  `x.Middleware()` of anything is taken for Echo's;
* a client the user has already given a New Relic round tripper: it gets a second
  one, although the comment at nrnethttp/http.go:374-376 says that this is
  checked (`clientTransportAlreadyInstrumented` has no caller). `EndpointsCovered`
  asks for exactly one per client and would fail on such a program; any other
  `client.Transport` set by the user is wrapped as it should be;
* slog handlers and logrus loggers outside of `main`, and slog when the agent is
  not called `NewRelicAgent`; entries written by the package while a logger
  variable exists;
* any call of the agent's package assigned in `main` counts as the application
  (`ClientInMain`); a setup function in another file is not resolved
  (`ident.Obj` is nil) and the name of the agent not noted;
* a Chi route inside a handler, which may define `nrTxn` unused; Gin and Echo
  handlers that are functions record no import of their own.

The outputs:

* calls of methods in tests; declarations of a test package that share the name
  of a function of the application, and external helpers that do; `f(g())` with
  several results; initialisers of variables and generated test files: none of
  these is repaired, or they are mistaken (`Supported` says which);
* source files that are not formatted: their copy in a test package is patched
  too;
* a change back of the working directory that fails is logged and the next step
  goes on; this is not modelled.

## 4. Proofs

`TraceFunction_proofs` proves, for every set of applications, packages, names and
every stack bound:

* `Invariant` : `Spec => []IInv`
* `TypeCorrect` : `Spec => []TypeOK`
* `ActivePackageHolds` : `Spec => []ActivePackage`
* `ImportsRecordedHolds` : `Spec => []ImportsRecorded`

They rest on four assumptions of `TraceFunction`: the sentinels are not members
of their sets (`SentinelAssumption`, `CacheAssumption`); every application is
well formed (types; declarations in the package that lists them, once; a literal
in the package of the function around it, written in one place, and not declared);
`MaxDepth` is positive. TLC evaluates them in every run.

`ActivePackage` is not inductive: when an activation ends, the package is set to
what the activation saved, and nothing in `ActivePackage` says that this is the
package of the caller. `IInv` adds three facts:

* `DeclarationsAtHome`: a declaration stored under package *p* belongs to *p*, so
  that `setPackage(invInfo.packageName)` enters the callee's own package. It
  holds initially by the lemma `StoredDeclHome` and is kept because the mark is
  written under the current package, which by `ActivePackage` is the function's;
* `StackLinked`: each activation's saved package is that of the one below it;
* `RootsAtHome`: the declarations still to visit belong to the package the first
  activation will leave behind.

The proof has one lemma per action. All actions that only move the top activation
go through `TopMovesStep`, those that start one through `ActivationStarts`,
`EndFunction` through `TopEnds`. `ImportsRecorded` follows by its own induction
with `IInv` as a lemma: edits are made only in `BeginFunction`, in the current
package, and no step drops an import.

The rest of it and the other three modules about the engine say what a pass
achieves, for any number of functions, packages and nested walks:

| Theorem | Statement | Of which applications |
| --- | --- | --- |
| `ErrorOwnerActiveHolds` | `ErrorOwnerActive` | all |
| `NoErrorLost` | what was loaded is held, captured or reported | all |
| `CapturedPendingHolds` | `CapturedPending` | all |
| `NoReentryHolds` | no function is walked while it is open | `Acyclic` |
| `TracedOnceHolds` | `TracedOnce` | `NoRecursion` |
| `ErrorsAccountedHolds` | `ErrorsAccounted` | `NoRecursion` |
| `OneAgentHolds` | `OneAgent` | `AgentSeen` |
| `SetupUntouchedHolds` | `SetupUntouched` | `SetupFirst` |
| `TracesReachableHolds` | `TracesReachable` | `Traceable`, recursion included |
| `TxnInScopeHolds` | `TxnInScope` | `TransactionAtHand`, recursion included |
| `CallsAgreeHolds` | `CallsAgree` | `NoRecursion`, `Traceable`, `PlainCalls` |
| `CapturedAtRootHolds` | `CapturedAtRoot` | `NoRecursion`, `Traceable`, `ErrorsOfFirstCalls` |

`ErrorOwnerActive` is about what is walked after a function has ended: that cannot
capture its error. A callee walked before the end can (the run `PendingError`), and
`CapturedPending` says how far that goes: only by way of a call that stands behind
the statement of the error and before the first check in its function. It is
inductive together with `WaitsWell`: a pending error belongs to the top
activation, which has met no check since, or the program has such a call. Nothing
about the rest of the stack is needed, because `EndFunction` empties the slot.

The right column is a premise of the theorem (`Spec => [](P(app) => Property)`),
a predicate on the user's program at the end of `TraceFunction`, because without
it the code does not do what the property says: the runs `Recursion`,
`SetupLate`, `LiteralCall` and `ClientInMain` are programs outside of it. The
premises are no empty ones: the assumption `PremisesMet` of `MCTraceFunction`
has TLC check that all applications of the run `Propagation` meet all of them.
None is about the order of packages, which stays free. The last two say more
than the others about the program:

* `PlainCalls`: what calls a reachable function is reachable itself; a call of a
  function with a context is given one, and one that is handed on as it is found
  can be met again, any other is written in one place (a transaction that is
  wrapped into the context cannot be told from one that is still to come); a literal called
  through its variable stands below its assignment, with the agent set up above every
  root (else the run `LiteralCall`); a goroutine is on one call; what has a transaction of
  its own is called in one of the user's;
* `ErrorsOfFirstCalls`: the statement that takes the error of a traced function over is
  the first to call it. A second one finds the function traced, is not told that
  the error was captured inside, and captures it again, as section 3 says.

How they are proved. `Steps` lemmas (`Continues`, `Begins`, `WalkStep`) reduce
the actions to what a proof needs: an activation goes on, starts another, or
ends. On these stand eight inductive invariants, each with the theorem of its name:

* `Shaped` (`ShapedInv`, all applications): each activation was started by the one
  below it, by a call or a literal of its body, and once it is under way its
  function has the parameter or the segment of its kind. A function open twice
  would thus be a cycle of calls (`NoReentryHolds`);
* `Once` (`OnceInv`): `TracedOnce` alone is not inductive, since the mark is set
  only when the walk of a function *ends*. A function that is edited is
  open, or it will not start again: a declaration because it is marked and is no
  root any more, a literal because the place where it is written lies behind
  every activation of the function around it (`Passed`). `ErrorsOnce`
  puts the errors on the same footing: what is loaded lies at a passed place;
* `Agents` (`AgentInv`): the roots left are the end of a package in file order,
  and a main already visited has the agent unless a set-up was seen;
* `Setup` (`SetupInv`): for a set `R` of functions closed under calls that leaves
  the set-up out, whatever is on the stack before the set-up is visited is in
  `R`;
* `Tracing` (`TraceInv`): *sound*, whatever is open or has a segment is reachable;
  and *complete*, what an open or finished walk has passed has been done or is
  being done. `Reachable` is the least set closed under calls; the proof only uses that
  it is closed and least, so that cycles need no special case;
* `Scope` (`ScopeInv`): whoever mentions `nrTxn` is bound already, or is open and
  will define it when it ends; and main has handed out nothing before it defines
  the transaction;
* `CallsGiven` (`CallInv`, theorem `CallsGivenHolds`): `CallsAgree` only speaks of
  the end, when every walk is over. Before it, a call may be edited while its
  function is not yet, or the other way round. `EditsOK`: an edited call is
  one of a reachable function, edited once, and an edit that cannot be recognised belongs to a
  place some walk has passed. `CallsGiven`: what an open walk has passed, and
  all that a finished one holds, is given. `CallFrames`: an activation uses the
  trace object of its declaration, and knows the literals assigned above its
  cursor. `ParamsOK`: a parameter comes with the segment. At the end everything
  reachable is finished, so both sides of the equation are 0 or both are 1;
* `Capture` (`CaptureInv`, theorem `CaptureHolds`): `ErrorsClean`: no error held or captured
  comes from a call of a function that has a segment or will get one.
  `StartedBelow`: what is called by a statement with an error, and is begun
  anywhere, was begun there, behind the cursor. `KnowsDown`: an activation in the middle
  of such a statement remembers that it walked a callee. The second makes the
  first hold when the statement ends: the callee was not traced before, so the
  walk came from here, and `NoticeError` is told.

The last two were checked by TLC on the applications of the run `Propagation`
before they were proved.

`ScanApplication_proofs` proves, for every set of well-formed applications,
recursive ones included:

* `ScanInvariant` : `Spec => []IInv`
* `ScanTypeCorrect` : `Spec => []TypeOK`
* `ScopeReachedHolds` : `Spec => []ScopeReached`
* `ClosedForGoodHolds` : `Spec => ClosedForGood`
* `TableLeftHolds` : `Spec => []TableLeft`
* `OutcomeAgreesHolds` : `Spec => []OutcomeAgrees`
* `NothingAfterEndHolds` : `Spec => []NothingAfterEnd`
* `ScopeCompleteHolds` : `Spec => []ScopeComplete`
* `ErrorsKnownHolds` : `Spec => []ErrorsKnown`

from four assumptions of `ScanApplication`: the sentinels, `NoKey` among them, are
not members of their sets; the applications are well formed; `MaxDepth` is
positive. `ScopeReached` is about what the cache holds and says nothing of the
activations that are about to add to it, so `IInv` adds

* `FramesLinked`: the transaction of a `detect` activation was started before, in
  the same function, and none after it; that of a `track` activation reaches the
  function (`Reached` is the least set closed under calls, so that one more
  step of the walk stays in it, lemma `FollowsReached`);
* `NamesFound`: what `functions` gives for a name is a declaration of that name,
  whichever was seen last;
* `RestDeclared`, `Visiting`: the declarations still to visit are declarations,
  and while a walk is under way there is one;
* `HandlersWhole`: the entry of a wrapped handler is all statements of its body.
  `ClosedForGood` needs it: `AddFuncDecl` writes such a closed entry again, and
  only because it is always the same is nothing added.

All other steps of `ClosedForGood` follow from the guard of `AddCall`
(`ClosedAdd`) and from the web detectors only ever emptying an entry.

`TableLeft` and `OutcomeAgrees` are about what is there when both passes are over
and rest on a second inductive invariant, `OrderInv` (theorem `Order`):

* `PassOK`: what is left of the current package is the end of its declarations.
  `Behind` counts, package by package, what a pass has visited; every step
  leaves it alone or advances it by one (`StepsOfThePass`);
* `WalkOK`: the activations on the stack are one `detect` and its `track`s, all
  with the transaction of the first, for the declaration the pass is at;
* `TableInv`: what the table holds under a name is right for the declarations
  *visited so far*: the first outside generated files, or the last one that was
  found to have instrumentation (`StoreFits`, `FindFits`);
* `DoneOK`: the passes are over only when all packages have been visited.

`OutcomeInv` says the same of the facts: during the first pass `facts`, `hasMain`
and `errReturn` are what the declarations visited so far amount to (`Learnt`), in
whatever order the packages came (`VisitedNext`, `ClashNext`). The sum over
all of them does not depend on the order, hence `OutcomeAgrees`.

The last three are about what is *missing* from the cache, or missing behind an
End, and rest on a third invariant, `ScopeInv` (theorem `Scope`), which says what
the walk has passed at every moment:

* `EndsClose`: an entry is closed exactly if it holds an End of its own, so
  "left out because it was closed" always has an End to point to;
* `CalleesBehind`, `CalleesWhole`: of a function being walked everything before
  the current call is recorded or was left out (`Kept`); of any callee what is
  recorded is a beginning of it, also when it is called again;
* `PastOnly`: of the function the detector is on, what is recorded is behind the
  detector, unless the transaction reaches that function;
* `KeysMet`: entries are of declarations met so far, whose names are known:
  hence a call of a function declared before is always followed (`CalleeEntered`);
* `OwnBehind`: each statement of an open transaction that was passed is recorded,
  or an End can have come before it, and so is every callee declared before,
  except the one the walk is in (`InCall`); `OwnScouted` is what it leaves
  of a declaration when the detectors are through with it.

`EndsLast` follows (`EndsLastKept`): an End is only new if the entry is open, and
then a later call of the same function would, by `CalleesWhole`, mean that this
End had been recorded before. `NothingAfterEnd` is about transactions that do not
reach the function they start in: in `v.End(); v := ..; g(v)`, with `g` calling that
function, the End in front is recorded when the walk comes round, and `g(v)` was
before. `ErrorsKnown` names the End that excuses a missing error by the
application (`EndsBefore`), not by the cache: the Echo detector has emptied the
entry by then.

`ManagerOutputs_proofs` proves, for any packages, directories, files and limit
of open files:

* `OutputsInvariant` : `Spec => []TypeInv`
* `OutputsTypeCorrect` : `Spec => []TypeOK`
* `PatchInPlaceHolds` : `Spec => []PatchInPlace`
* `TestCallsAgreeHolds` : `Spec => []TestCallsAgree`
* `DiffWholeHolds` : `Spec => []DiffWhole`

from `OutputsAssumption` (packages are numbers, `Start` is a directory, the
applications are typed). `TypeInv` adds where the deferred directories lead: the
last one to be restored is `Start` (`Bottom`), and without any the process is
there (`Place`). It is what makes `PatchInPlace` inductive: `FailModules` and
`EndModules` restore in reverse order. `TestCallsAgree` needs to know which packages are
still untouched (`TestsInv`) and that a call repaired once agrees (`RepairCallAgrees`);
`DiffWhole` that every patch belongs to a position already behind and what is
behind has its patch (`DiffInv`). `Supported` is a premise of
`TestCallsAgree` and of the half of `DiffWhole` that says no file is patched
twice; that a finished diff has every changed file holds for all applications.

`InstrumentDeclaration_proofs` proves, for any blocks, nested to any depth, any
statements in them and any names:

* `DeclarationInvariant` : `Spec => []IInv`
* `DeclarationTypes` : `Spec => []TypeOK`
* `DeclarationKeepsUserCode` : `Spec => []UserCodeKept`

from four assumptions: what generated code spells are strings
(`SpelledAssumption`; the provers do not know it of a literal), the wrapped name
of a slog handler is a string (`HandlerAssumption`), the blocks are finitely many
(`BlockAssumption`), and every declaration is one that parses
(`ProgsAssumption`): an assignment has a target, a call of `Do` its request,
each statement a position of its own in its block, and blocks nest. Nothing is
asked of what the declaration does, so the theorems cover the programs that
panic (`ClientInMain`) and those whose names go wrong (`BlockScope`) too.

`UserCodeKept` is not inductive. The statement a stateful function rewrites was
put on the walk before others inserted statements around it; that it is
still found is what `IInv` adds:

* `GoodText`: each block keeps the user's statements (`Kept`), is of statements
  that parse (`SoundStatement`), and a statement without a position holds no
  block;
* `visit` and `walk` hold nodes of the *original* declaration (`NodesIn`), which
  `GoodText` says are all there (`KeptIds`), and a trace runs for a node that is
  still to be visited.

The lemmas are about one relation: `Edits(list, new)` says that an increasing
function places each statement of `list` in `new`, where it is *alike*, and that
all others are generated. It is reflexive and transitive and survives
concatenation (`EditsSelf`, `EditsTrans`, `EditsJoin`), so an edit is proved from
its parts: `PrependEdits`, `InsertBeforeEdits`, `InsertAfterEdits`,
`ReplaceEdits`, `MapEdits`, and `FlattenEdits` for those that rebuild a whole block.
`EditsKeep` turns it into `Kept`; `BlockStep`, `TraceStarts`, `ModifyStep` and
`HookStep` do the rest for the stateless and the stateful functions, and each action
has a lemma that its edit is one. That the two walks, recursive functions over
blocks, exist and give nodes is `FixedPoint`: blocks nest, so as many
iterations as there are blocks settle all of them, and a block that did not
settle would hold another that did not (`NoneInnermost`).

One exception in `UserCodeKept` comes from the code: a replaced connection of pgx
calls its error `err`, whatever the user called it (nrpgx5/codegen.go), and the
theorem says that nothing else is renamed.

`InstrumentCommand_proofs` proves, for every number of files and in both modes:

* `CommandInvariant` : `Spec => []IInv`
* `CommandTypeCorrect`, `KeepsUpHolds`, `HonestDoneHolds`,
  `ModulesBeforePatchesHolds`, `QuietOnlyOnInterruptHolds`: the five invariants
  of the run
* `CommandIsAJob` : `Spec => Job!Init /\ [][Job!Next]_<<JobState, JobExit>>`

from two assumptions: the number of files is a natural number, and `None` is no
message. None of the five invariants is inductive. `IInv` adds

* `LinkInv`: receivers and messages on their way are one together, and a progress
  message on its way is exactly what the model has yet to count. `KeepsUp` only
  says that the difference is 0 or 1, which a second receiver could break;
* `DiskInv`: how far the pipeline is says what is on the disk, so that the last
  step finds all modules;
* `OutcomeInv`: "completed" or "error", wherever it is (on the channel, on its
  way, in the model), is what the pipeline came to, and after it nothing is sent.
  With it `Quit` cannot report the wrong end.

`PipelineMoves` says once what a step of the pipeline does to the worker,
whichever it is; `UpdateStep` and `ReceiveStep` rest on there being one message.
The liveness half of `ImplementsJob` is checked by TLC only.

Only model-checked: all liveness properties and the liveness half of the
refinement (out of the prover's reach); of the integrations, `NamesDeclared`,
`DeclaresNew`, `LiveTransaction`, `EndpointsCovered` and `LogsDecorated`: they hold of
the programs section 3 does not exclude, and the premise each would need is the
shape of a whole program. Every other safety property of a passing run is the
statement of a theorem.

## 5. Not modelled

* The layout of the generated syntax (decorations, comments) and
  `internal/comment`: they change no statement.
* `internal/util` and the type and path helpers: pure queries; the models ask
  their answers of the input.
* The prompt, the flags, the check of the output path: terminal I/O before any
  state exists.
* nrmysql: it is never registered in `cmd/instrument.go`, although README.md:105
  lists it.
* `NoticeError` and `shouldNoticeError` of nragent,
  `clientTransportAlreadyInstrumented`: no caller; `CannotInstrumentHttpMethod`:
  writes a comment.
* Hazards without a property: a goroutine on a function in a transaction of the
  user, the diff file lost to a panic, `DetectErrors` giving up in the order of a
  map, the lookup of a function in a transaction by its bare name, the second
  method of a name. Each is described in `PROJECT.json`.

## 6. Plan

Done: all modules of section 2, their runs, and theorems about all five
components; of the engine, every safety property a passing run checks is proved. What is left:

1. `EndpointsCovered` for gRPC, whose options are only ever appended to.
2. An abstract specification of tracing (what is reached is edited once, in any
   order) implemented by `TraceFunction`, and `ManagerOutputs` as a refinement of
   the last steps of `InstrumentCommand`.
3. Generated files in the engine, and the scan composed with it in place of the
   inputs `hasTxn` and `inTxn`.
