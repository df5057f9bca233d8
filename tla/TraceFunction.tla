--------------------------- MODULE TraceFunction ---------------------------
(***************************************************************************)
(* The engine of the tool: instrumentPackages walks every declaration of   *)
(* every package of the user's application and starts TraceFunction at     *)
(* main and at each HTTP handler; TraceFunction then walks the body of a   *)
(* function statement by statement, hands the transaction to the calls it  *)
(* meets, and recurses into the callees that are not traced yet.           *)
(*                                                                         *)
(* The application is data (see AppType): a function body is the pre-order *)
(* sequence of the nodes at which the walk stops.  A statement that        *)
(* contains another one without a block between them (an if or switch and  *)
(* its Init, a case clause and its body) gives one node for each, and the  *)
(* calls inside are listed by both, as findInvocationInfo finds them twice.*)
(* What the tool changes in the program text is counted, never rendered.   *)
(***************************************************************************)
EXTENDS Naturals, Sequences, FiniteSets

CONSTANTS
  Fn,        \* function declarations and function literals
  Pkg,       \* application packages that are not test packages
  Name,      \* bare names of declarations: methods carry no receiver here
  Site,      \* call expressions
  ErrVar,    \* names of error variables
  NoFn,      \* a nil *dst.FuncDecl
  NoErr,     \* an empty error cache; a node without an error variable
  ReturnVal, \* the variable generated for the error of "return f()"
  Apps,      \* the applications considered
  MaxDepth   \* bound: nested activations a goroutine stack has room for

Kind == {"assign", "if", "return", "other", "go", "golit", "litassign"}

Node == [kind   : Kind,
         calls  : Seq(Site),         \* what findInvocationInfo searches
         outer  : Site,              \* the call of a go statement
         lit    : Fn \cup {NoFn},    \* the literal of golit and litassign
         listed : BOOLEAN,           \* c.Index() >= 0: member of a block
         err    : ErrVar \cup {NoErr}, \* the error it assigns or returns
         checks : BOOLEAN,           \* if: err != nil; return: f() error
         http   : BOOLEAN]           \* performs an outbound net/http call

AppType == [lits    : SUBSET Fn,
            pkg     : [Fn -> Pkg],
            name    : [Fn -> Name],
            param   : [Fn -> {"none", "ctx", "handler"}],
            body    : [Fn -> Seq(Node)],
            decls   : [Pkg -> Seq(Fn)],       \* in file order
            to      : [Site -> Fn],
            arg     : [Site -> {"none", "own", "other", "expr"}],
            mains   : SUBSET Fn,
            creates : SUBSET Fn,              \* return or create the agent
            wrapped : SUBSET Fn,              \* handlers wrapped by the user
            hasTxn  : SUBSET Fn,              \* start a transaction themselves
            inTxn   : SUBSET Name]            \* called in a user transaction

(* A goroutine on a function literal, or one assigned to a variable.       *)
HoldsLiteral(n) == n.kind \in {"golit", "litassign"}

(* Declarations live in the package that lists them, each is listed once,  *)
(* and main is one of them; a literal is no declaration, is written at one *)
(* place, and lives in the package of the function around it; what sets    *)
(* the agent up or starts a transaction is looked for in declarations.     *)
WellFormed(a) ==
  /\ \A p \in Pkg : \A i \in DOMAIN a.decls[p] :
       /\ a.pkg[a.decls[p][i]] = p
       /\ a.decls[p][i] \notin a.lits
       /\ \A j \in DOMAIN a.decls[p] : a.decls[p][j] = a.decls[p][i] => j = i
  /\ \A f \in a.mains : \E i \in DOMAIN a.decls[a.pkg[f]] :
       a.decls[a.pkg[f]][i] = f
  /\ (a.creates \cup a.hasTxn) \cap a.lits = {}
  /\ \A f \in Fn : \A i \in DOMAIN a.body[f] :
       HoldsLiteral(a.body[f][i]) =>
         /\ a.body[f][i].lit \in a.lits
         /\ a.pkg[a.body[f][i].lit] = a.pkg[f]
         /\ \A g \in Fn : \A j \in DOMAIN a.body[g] :
              HoldsLiteral(a.body[g][j]) /\ a.body[g][j].lit = a.body[f][i].lit
                => g = f /\ j = i

ASSUME SentinelAssumption == /\ NoFn \notin Fn /\ NoErr \notin ErrVar
                             /\ ReturnVal \notin ErrVar
ASSUME AppsAssumption     == \A a \in Apps : a \in AppType /\ WellFormed(a)
ASSUME DepthAssumption    == MaxDepth \in Nat \ {0}

VARIABLES
  app,            \* the application, chosen once
  pending,        \* packages instrumentPackages has not started
  roots,          \* declarations of the current package still to visit
  stack,          \* activations of TraceFunction, innermost last
  currentPackage,
  setupFunc,
  tracedFuncs,    \* package -> bare name -> declaration and its status
  errorCache,     \* the one slot for an error nobody has checked yet
  crashed,        \* the goroutine stack was exhausted
  \* The edits of the program text, and of go.mod.
  txnParams,      \* transaction parameters appended to a function
  txnArgs,        \* transaction arguments appended to a call
  plainArg,       \* calls with the bare identifier nrTxn as an argument
  ctxWrapped,     \* calls whose context was wrapped in NewContext
  segments,       \* segments started at the top of a function
  txnDefs,        \* statements "nrTxn := ..." in a function
  txnUses,        \* functions whose text mentions nrTxn
  agentInits,     \* mains that got InitializeAgent
  importsAdded,   \* packages the agent import is recorded for
  \* History of the error capture.
  loaded,         \* errors that ever entered the cache
  noticed,        \* NoticeError statements: where, and for which error
  unchecked       \* errors reported as unchecked

control == <<pending, roots, currentPackage, setupFunc, crashed>>
callText == <<txnArgs, plainArg, ctxWrapped>>
declText == <<txnParams, segments>>
errs    == <<errorCache, loaded, noticed, unchecked>>
vars == <<app, control, stack, tracedFuncs, callText, declText, txnDefs,
          txnUses, agentInits, importsAdded, errs>>

-----------------------------------------------------------------------------
(* Activations.  A frame stands for the locals of TraceFunction and for    *)
(* its *tracestate.State; the kind says which constructor made the state.  *)

FrameKind == {"main", "handler", "call", "go", "lit"}

Frame == [fn : Fn, kind : FrameKind, obj : {"txn", "ctx"},
          pc : Nat,              \* next node; 0 before the walk
          call : Nat \ {0},      \* next invocation of the node
          down : BOOLEAN,        \* downstreamFunctionTraced
          started : BOOLEAN,     \* transactionCreatedForStatement
          txnUsed : BOOLEAN, definedTxn : BOOLEAN,
          changed : BOOLEAN,     \* TopLevelFunctionChanged
          litVars : SUBSET Fn,   \* funcLitVariables
          root : Pkg]            \* rootPkg, set again after a call

NewFrame(f, k, p) ==
  [fn |-> f, kind |-> k, obj |-> "txn", pc |-> 0, call |-> 1,
   down |-> FALSE, started |-> FALSE, txnUsed |-> FALSE,
   definedTxn |-> FALSE, changed |-> FALSE, litVars |-> {}, root |-> p]

Top       == stack[Len(stack)]
TopNode   == app.body[Top.fn][Top.pc]
Running   == stack # << >> /\ ~crashed
Walking   == Running /\ Top.pc \in DOMAIN app.body[Top.fn]
SetTop(t) == [stack EXCEPT ![Len(stack)] = t]
NextNode(t) == [t EXCEPT !.pc = @ + 1, !.call = 1, !.down = FALSE,
                         !.started = FALSE]

-----------------------------------------------------------------------------
(* Looking functions up: by package and bare name.                         *)

(* The first declaration of a name is kept (createFunctionDeclaration),    *)
(* until the scan meets one that starts a transaction and marks it traced. *)
StoredDecl(a, p, n) ==
  LET I == {i \in DOMAIN a.decls[p] : a.name[a.decls[p][i]] = n}
      T == {i \in I : a.decls[p][i] \in a.hasTxn}
  IN  CASE I = {} -> [body |-> NoFn, traced |-> FALSE]
        [] T # {} -> [body |-> a.decls[p][CHOOSE i \in T : \A j \in T : j <= i],
                      traced |-> TRUE]
        [] OTHER  -> [body |-> a.decls[p][CHOOSE i \in I : \A j \in I : i <= j],
                      traced |-> FALSE]

Entry(f) == tracedFuncs[app.pkg[f]][app.name[f]]

(* The declaration an invocation resolves to, nil for a function literal.  *)
InvDecl(s) == IF app.to[s] \in app.lits THEN NoFn ELSE Entry(app.to[s]).body

IsInvocation(t, s) ==
  IF app.to[s] \in app.lits THEN app.to[s] \in t.litVars
                            ELSE InvDecl(s) # NoFn

(* Faulty variants, for the mutation runs: a literal counts as a function  *)
(* that is not traced yet; only functions of the current package count.    *)
ShouldInstrument_Literal(s) == ~Entry(app.to[s]).traced
ShouldInstrument_SamePackage(s) ==
  /\ InvDecl(s) # NoFn
  /\ ~Entry(app.to[s]).traced
  /\ app.pkg[app.to[s]] = currentPackage

ShouldInstrument(s) == InvDecl(s) # NoFn /\ ~Entry(app.to[s]).traced

(* Faulty: the declaration is stored but not marked.                       *)
UpdateFunctionDeclaration_Unmarked(f) ==
  IF tracedFuncs[currentPackage][app.name[f]].body = NoFn THEN tracedFuncs
  ELSE [tracedFuncs EXCEPT ![currentPackage][app.name[f]].body = f]

UpdateFunctionDeclaration(f) ==
  IF tracedFuncs[currentPackage][app.name[f]].body = NoFn THEN tracedFuncs
  ELSE [tracedFuncs EXCEPT
          ![currentPackage][app.name[f]] = [body |-> f, traced |-> TRUE]]

-----------------------------------------------------------------------------
(* AddToCall of the two trace objects.  The type of an argument is known   *)
(* only as long as the tool has not replaced it.                           *)

(* Faulty: the call is not searched for a transaction argument.            *)
TransactionHandOver_Again(s) ==
  IF app.arg[s] # "none" /\ s \notin ctxWrapped THEN "wrap" ELSE "append"

TransactionHandOver(s) ==
  CASE app.arg[s] # "none" /\ s \notin ctxWrapped -> "wrap"
    [] (app.arg[s] = "none" \/ s \in ctxWrapped) /\ s \in plainArg -> "keep"
    [] OTHER -> "append"

(* A context that is not a plain variable is not recognised.               *)
ContextHandOver(s, async) ==
  CASE app.arg[s] = "own" /\ s \notin ctxWrapped /\ ~async -> "pass"
    [] app.arg[s] = "own" /\ s \notin ctxWrapped /\ async -> "wrap"
    [] app.arg[s] = "other" /\ s \notin ctxWrapped -> "wrap"
    [] OTHER -> "append"

HandOver(obj, s, async) == IF obj = "txn" THEN TransactionHandOver(s)
                                          ELSE ContextHandOver(s, async)

(* Faulty: the packages noted before are forgotten.                        *)
AddImport_Overwrites == importsAdded' = {currentPackage}

AddImport == importsAdded' = importsAdded \cup {currentPackage}

(* The frame t as the call leaves it; every outcome but "pass" needs a     *)
(* transaction in scope and returns the agent's import path.               *)
AddToCall(t, s, async) ==
  LET how == HandOver(t.obj, s, async)
  IN  /\ ctxWrapped' = IF how = "wrap" THEN ctxWrapped \cup {s} ELSE ctxWrapped
      /\ txnArgs' = IF how = "append" THEN [txnArgs EXCEPT ![s] = @ + 1]
                                      ELSE txnArgs
      /\ plainArg' = IF how = "append" /\ ~async THEN plainArg \cup {s}
                                                 ELSE plainArg
      /\ txnUses' = IF how = "pass" THEN txnUses ELSE txnUses \cup {t.fn}
      /\ IF how = "pass" THEN UNCHANGED importsAdded ELSE AddImport

AfterCall(t, s, async) ==
  [t EXCEPT !.changed = TRUE,
            !.txnUsed = @ \/ HandOver(t.obj, s, async) # "pass"]

(* TraceFunction is called for f, after setPackage(p); the frame below is  *)
(* left as t.                                                              *)
Enter(t, f, k, p) ==
  IF Len(stack) < MaxDepth
  THEN /\ stack' = Append(SetTop(t), NewFrame(f, k, currentPackage))
       /\ currentPackage' = p
       /\ UNCHANGED <<pending, roots, setupFunc, crashed>>
  ELSE /\ crashed' = TRUE
       /\ UNCHANGED <<stack, pending, roots, currentPackage, setupFunc>>

-----------------------------------------------------------------------------
(* NoticeError, as a change of the error cache and of what is captured.    *)

CachedError == [fn : Fn, node : Nat, var : ErrVar \cup {ReturnVal}]

ASSUME CacheAssumption == NoErr \notin CachedError

ErrNow == [cache |-> errorCache, loaded |-> loaded, noticed |-> noticed,
           unchecked |-> unchecked, hit |-> FALSE]

(* Faulty: the pending error is overwritten in silence; the error of a     *)
(* traced callee is loaded too.                                            *)
NoticeAssign_Silent(t, node, e) ==
  IF ~node.listed \/ t.down \/ node.err = NoErr THEN e
  ELSE LET new == [fn |-> t.fn, node |-> t.pc, var |-> node.err]
       IN  [e EXCEPT !.cache = new, !.loaded = @ \cup {new}]
NoticeAssign_Traced(t, node, e) ==
  IF ~node.listed \/ node.err = NoErr THEN e
  ELSE LET new == [fn |-> t.fn, node |-> t.pc, var |-> node.err]
       IN  [e EXCEPT !.cache = new, !.loaded = @ \cup {new},
                     !.unchecked = @ \cup ({e.cache} \ {NoErr})]

(* An assignment of an error that no traced callee has captured already    *)
(* takes the slot; the error that was there is reported as unchecked.      *)
NoticeAssign(t, node, e) ==
  IF ~node.listed \/ t.down \/ node.err = NoErr THEN e
  ELSE LET new == [fn |-> t.fn, node |-> t.pc, var |-> node.err]
       IN  [e EXCEPT !.cache = new, !.loaded = @ \cup {new},
                     !.unchecked = @ \cup ({e.cache} \ {NoErr})]

(* Faulty: the cache is read but not cleared.                              *)
NoticeCached_Kept(t, e) ==
  [e EXCEPT !.hit = TRUE,
            !.noticed = @ \cup {[in |-> t.fn, err |-> e.cache]}]

NoticeCached(t, e) ==
  [e EXCEPT !.cache = NoErr, !.hit = TRUE,
            !.noticed = @ \cup {[in |-> t.fn, err |-> e.cache]}]

NoticeIf(t, node, e) ==
  LET init == NoticeAssign(t, node, e)
  IN  IF node.checks /\ init.cache # NoErr THEN NoticeCached(t, init) ELSE init

NoticeReturn(t, node, e) ==
  CASE ~node.listed \/ t.down -> e
    [] node.listed /\ ~t.down /\ node.checks ->
         LET new == [fn |-> t.fn, node |-> t.pc, var |-> ReturnVal]
         IN  [e EXCEPT !.hit = TRUE,
                       !.noticed = @ \cup {[in |-> t.fn, err |-> new]}]
    [] node.listed /\ ~t.down /\ ~node.checks ->
         IF e.cache # NoErr /\ node.err = e.cache.var
         THEN NoticeCached(t, e) ELSE e

NoticeError(t, node) ==
  CASE t.kind = "main"       -> ErrNow
    [] t.kind # "main" /\ node.kind = "assign" -> NoticeAssign(t, node, ErrNow)
    [] t.kind # "main" /\ node.kind = "if"     -> NoticeIf(t, node, ErrNow)
    [] t.kind # "main" /\ node.kind = "return" -> NoticeReturn(t, node, ErrNow)
    [] OTHER                 -> ErrNow

(* What NoticeError tells TraceFunction: not that it rewrote "return f()". *)
SaysChanged(node, e) == e.hit /\ ~(node.kind = "return" /\ node.checks)

SetErrors(e) ==
  /\ errorCache' = e.cache
  /\ loaded'     = e.loaded
  /\ noticed'    = e.noticed
  /\ unchecked'  = e.unchecked

-----------------------------------------------------------------------------
(* instrumentPackages: the packages in the order of a Go map.              *)

Idle == stack = << >> /\ ~crashed

StartPackage(p) ==
  /\ Idle
  /\ roots = << >>
  /\ p \in pending
  /\ pending' = pending \ {p}
  /\ currentPackage' = p
  /\ roots' = app.decls[p]
  /\ UNCHANGED <<app, setupFunc, crashed, stack, tracedFuncs, callText,
                 declText, txnDefs, txnUses, agentInits, importsAdded, errs>>

(* Faulty: a main that creates the agent itself is not noted.              *)
NotedSetup_NotMain(f) ==
  IF f \in app.creates /\ f \notin app.mains THEN f ELSE setupFunc

(* InstrumentMain notes a declaration that returns the agent; in a main    *)
(* that neither follows such a declaration nor creates the agent itself it *)
(* injects the initialisation; then it traces main.                        *)
NotedSetup(f) ==
  IF f \in app.creates /\ (f \notin app.mains \/ setupFunc = NoFn)
  THEN f ELSE setupFunc

VisitMain ==
  /\ Idle
  /\ roots # << >>
  /\ LET f == Head(roots)
         s == NotedSetup(f)
     IN  /\ f \in app.mains
         /\ setupFunc' = s
         /\ agentInits' = IF s = NoFn THEN agentInits \cup {f} ELSE agentInits
         /\ IF s = NoFn THEN AddImport ELSE UNCHANGED importsAdded
         /\ stack' = <<NewFrame(f, "main", currentPackage)>>
  /\ roots' = Tail(roots)
  /\ UNCHANGED <<app, pending, currentPackage, crashed, tracedFuncs, callText,
                 declText, txnDefs, txnUses, errs>>

(* A declaration is a handler as long as it has exactly the two handler    *)
(* parameters.  InstrumentHandleFunction does not ask whether it has been  *)
(* traced.                                                                 *)
IsHandler(f) == /\ app.param[f] = "handler" /\ txnParams[f] = 0
                /\ f \notin app.wrapped

VisitDecl ==
  /\ Idle
  /\ roots # << >>
  /\ LET f == Head(roots)
     IN  /\ f \notin app.mains
         /\ setupFunc' = NotedSetup(f)
         /\ stack' = IF IsHandler(f)
                     THEN <<NewFrame(f, "handler", currentPackage)>>
                     ELSE << >>
  /\ roots' = Tail(roots)
  /\ UNCHANGED <<app, pending, currentPackage, crashed, tracedFuncs, callText,
                 declText, txnDefs, txnUses, agentInits, importsAdded, errs>>

-----------------------------------------------------------------------------
(* TraceFunction.                                                          *)

(* Before the walk: AddParameterToDeclaration and CreateSegment.  The      *)
(* lookups of an existing transaction parameter or segment compare         *)
(* identifier nodes by address and find nothing in a parsed program.       *)
BeginFunction ==
  /\ Running
  /\ Top.pc = 0
  /\ LET t     == Top
         param == t.kind \in {"call", "go", "lit"}
         ctx   == app.param[t.fn] = "ctx"
     IN  /\ txnParams' = IF param /\ ~ctx
                         THEN [txnParams EXCEPT ![t.fn] = @ + 1] ELSE txnParams
         /\ segments' = IF param THEN [segments EXCEPT ![t.fn] = @ + 1]
                                 ELSE segments
         /\ txnUses' = IF param THEN txnUses \cup {t.fn} ELSE txnUses
         /\ IF param THEN AddImport ELSE UNCHANGED importsAdded
         /\ stack' = SetTop([t EXCEPT !.pc = 1,
                                      !.obj = IF param /\ ctx THEN "ctx"
                                                              ELSE "txn",
                                      !.txnUsed = param,
                                      !.changed = param])
  /\ UNCHANGED <<app, control, tracedFuncs, callText, txnDefs, agentInits, errs>>

(* Goroutines of main are left alone.                                      *)
SkipGoInMain ==
  /\ Walking
  /\ Top.kind = "main"
  /\ TopNode.kind \in {"go", "golit"}
  /\ stack' = SetTop(NextNode(Top))
  /\ UNCHANGED <<app, control, tracedFuncs, callText, declText, txnDefs,
                 txnUses, agentInits, importsAdded, errs>>

(* go func() {...}(): the literal takes the transaction and is traced.     *)
TraceGoLiteral ==
  /\ Walking
  /\ Top.kind # "main"
  /\ TopNode.kind = "golit"
  /\ LET s == TopNode.outer
     IN  /\ AddToCall(Top, s, TRUE)
         /\ Enter(NextNode(AfterCall(Top, s, TRUE)), TopNode.lit, "lit",
               currentPackage)
  /\ UNCHANGED <<app, tracedFuncs, declText, txnDefs, agentInits, errs>>

(* f := func() {...}: traced with the caller's trace object, remembered by *)
(* its variable, and its own calls are not looked at again.                *)
TraceLiteralAssignment ==
  /\ Walking
  /\ TopNode.kind = "litassign"
  /\ Enter(NextNode([Top EXCEPT !.litVars = @ \cup {TopNode.lit}]),
           TopNode.lit, "lit", currentPackage)
  /\ UNCHANGED <<app, tracedFuncs, callText, declText, txnDefs, txnUses,
                 agentInits, importsAdded, errs>>

HasCall    == Walking /\ Top.call \in DOMAIN TopNode.calls
TopCall    == TopNode.calls[Top.call]
NextCall(t) == [t EXCEPT !.call = @ + 1]

(* go f(): each invocation found in the call adds to the call itself.      *)
TraceGoCall ==
  /\ HasCall
  /\ Top.kind # "main"
  /\ TopNode.kind = "go"
  /\ IsInvocation(Top, TopCall)
  /\ LET t == NextCall(AfterCall(Top, TopNode.outer, TRUE))
     IN  /\ AddToCall(Top, TopNode.outer, TRUE)
         /\ IF ShouldInstrument(TopCall)
            THEN Enter(t, InvDecl(TopCall), "go", app.pkg[app.to[TopCall]])
            ELSE stack' = SetTop(t) /\ UNCHANGED control
  /\ UNCHANGED <<app, tracedFuncs, declText, txnDefs, agentInits, errs>>

IsStmt == TopNode.kind \in {"assign", "if", "return", "other"}

(* Faulty: the setup function is traced like any other.                    *)
Excluded_Setup(s) ==
  app.to[s] \notin app.lits /\ app.name[app.to[s]] \in app.inTxn

(* setupFunc and an unresolved declaration are both nil pointers.          *)
Excluded(s) ==
  \/ setupFunc = InvDecl(s)
  \/ app.to[s] \notin app.lits /\ app.name[app.to[s]] \in app.inTxn

(* A call no transaction is handed to.                                     *)
Skipped ==
  /\ HasCall
  /\ \/ IsStmt /\ (IsInvocation(Top, TopCall) => Excluded(TopCall))
     \/ /\ TopNode.kind = "go" /\ Top.kind # "main"
        /\ ~IsInvocation(Top, TopCall)

SkipCall ==
  /\ Skipped
  /\ stack' = SetTop(NextCall(Top))
  /\ UNCHANGED <<app, control, tracedFuncs, callText, declText, txnDefs,
                 txnUses, agentInits, importsAdded, errs>>

(* WrapWithTransaction: main starts a transaction around the statement, as *)
(* nrTxn := ... the first time and nrTxn = ... from then on.               *)
Wraps(t) == t.kind = "main" /\ ~t.started /\ TopNode.listed

TraceCall ==
  /\ HasCall
  /\ IsStmt
  /\ IsInvocation(Top, TopCall)
  /\ ~Excluded(TopCall)
  /\ AddToCall(Top, TopCall, FALSE)
  /\ txnDefs' = IF Wraps(Top) /\ ~Top.definedTxn
                THEN [txnDefs EXCEPT ![Top.fn] = @ + 1] ELSE txnDefs
  /\ LET t == [NextCall(AfterCall(Top, TopCall, FALSE)) EXCEPT
                 !.started = TRUE,
                 !.definedTxn = @ \/ Wraps(Top)]
     IN  IF ShouldInstrument(TopCall)
         THEN Enter([t EXCEPT !.down = TRUE], InvDecl(TopCall), "call",
                    app.pkg[app.to[TopCall]])
         ELSE stack' = SetTop(t) /\ UNCHANGED control
  /\ UNCHANGED <<app, tracedFuncs, declText, agentInits, errs>>

(* After the invocations of a statement: NoticeError, then the stateful    *)
(* tracing functions, of which ExternalHttpCall uses the transaction.      *)
FinishStatement ==
  /\ Walking
  /\ Top.call \notin DOMAIN TopNode.calls
  /\ IsStmt
  /\ LET t    == Top
         e    == NoticeError(t, TopNode)
         http == TopNode.http /\ TopNode.listed
     IN  /\ SetErrors(e)
         /\ txnUses' = IF http \/ e.hit THEN txnUses \cup {t.fn} ELSE txnUses
         /\ IF http THEN AddImport ELSE UNCHANGED importsAdded
         /\ stack' = SetTop(NextNode(
              [t EXCEPT !.txnUsed = @ \/ http \/ e.hit,
                        !.changed = @ \/ http \/ SaysChanged(TopNode, e)]))
  /\ UNCHANGED <<app, control, tracedFuncs, callText, declText, txnDefs,
                 agentInits>>

FinishGo ==
  /\ Walking
  /\ Top.kind # "main"
  /\ TopNode.kind = "go"
  /\ Top.call \notin DOMAIN TopNode.calls
  /\ stack' = SetTop(NextNode(Top))
  /\ UNCHANGED <<app, control, tracedFuncs, callText, declText, txnDefs,
                 txnUses, agentInits, importsAdded, errs>>

(* Faulty: setPackage(rootPkg) is forgotten.                               *)
RestoredPackage_Kept(t) == currentPackage

RestoredPackage(t) == IF t.kind \in {"call", "go"} THEN t.root
                                                   ELSE currentPackage

(* Faulty: a handler relies on a parameter it does not get.                *)
DefinesTxn_Handler(t) == t.txnUsed /\ t.obj = "ctx"

DefinesTxn(t) == \/ t.txnUsed /\ t.obj = "ctx"
                 \/ t.kind = "handler" /\ t.changed

(* Faulty: the warning is written but the cache is not cleared.            *)
ReportedError_Kept ==
  [ErrNow EXCEPT !.unchecked = @ \cup ({errorCache} \ {NoErr})]

ReportedError ==
  [ErrNow EXCEPT !.cache = NoErr,
                 !.unchecked = @ \cup ({errorCache} \ {NoErr})]

(* After the walk: AssignTransactionVariable, the unchecked error, the     *)
(* mark on the declaration.  Back in the caller, setPackage(rootPkg); and  *)
(* InstrumentHandleFunction defines nrTxn in a handler that was changed.   *)
EndFunction ==
  /\ Running
  /\ Top.pc = Len(app.body[Top.fn]) + 1
  /\ LET t == Top
     IN  /\ txnDefs' = IF DefinesTxn(t) THEN [txnDefs EXCEPT ![t.fn] = @ + 1]
                                        ELSE txnDefs
         /\ tracedFuncs' = IF t.kind = "lit" THEN tracedFuncs
                           ELSE UpdateFunctionDeclaration(t.fn)
         /\ txnUses' = IF DefinesTxn(t) THEN txnUses \cup {t.fn} ELSE txnUses
         /\ currentPackage' = RestoredPackage(t)
         /\ stack' = SubSeq(stack, 1, Len(stack) - 1)
  /\ SetErrors(ReportedError)
  /\ UNCHANGED <<app, pending, roots, setupFunc, crashed, callText, declText,
                 agentInits, importsAdded>>

-----------------------------------------------------------------------------
Finished == pending = {} /\ roots = << >> /\ stack = << >> /\ ~crashed

(* The pass is over.  After a crash there is no step at all: TLC's check    *)
(* for deadlock reports it.                                                *)
Halt == Finished /\ UNCHANGED vars

Init ==
  /\ app \in Apps
  /\ pending = Pkg
  /\ roots = << >>
  /\ stack = << >>
  /\ currentPackage \in Pkg      \* left by the scanning pass
  /\ setupFunc = NoFn
  /\ tracedFuncs = [p \in Pkg |-> [n \in Name |-> StoredDecl(app, p, n)]]
  /\ errorCache = NoErr
  /\ crashed = FALSE
  /\ txnParams = [f \in Fn |-> 0]
  /\ txnArgs = [s \in Site |-> 0]
  /\ plainArg = {} /\ ctxWrapped = {}
  /\ segments = [f \in Fn |-> 0]
  /\ txnDefs = [f \in Fn |-> 0]
  /\ txnUses = {} /\ agentInits = {} /\ importsAdded = {}
  /\ loaded = {} /\ noticed = {} /\ unchecked = {}

Walk == \/ BeginFunction \/ SkipGoInMain \/ TraceGoLiteral
        \/ TraceLiteralAssignment \/ TraceGoCall \/ SkipCall \/ TraceCall
        \/ FinishStatement \/ FinishGo \/ EndFunction

Next == \/ \E p \in Pkg : StartPackage(p)
        \/ VisitMain
        \/ VisitDecl
        \/ Walk
        \/ Halt

(* One goroutine runs the whole pass and never waits.                      *)
Spec == Init /\ [][Next]_vars

-----------------------------------------------------------------------------
(* Properties.                                                             *)

EditCounts == [Fn -> Nat]

ControlTypeOK ==
  /\ pending \subseteq Pkg /\ roots \in Seq(Fn)
  /\ stack \in Seq(Frame)
  /\ currentPackage \in Pkg
  /\ setupFunc \in Fn \cup {NoFn}
  /\ tracedFuncs \in
       [Pkg -> [Name -> [body : Fn \cup {NoFn}, traced : BOOLEAN]]]
  /\ crashed \in BOOLEAN

TextTypeOK ==
  /\ txnParams \in EditCounts /\ segments \in EditCounts
  /\ txnDefs \in EditCounts /\ txnArgs \in [Site -> Nat]
  /\ plainArg \subseteq Site /\ ctxWrapped \subseteq Site
  /\ txnUses \subseteq Fn /\ agentInits \subseteq Fn
  /\ importsAdded \subseteq Pkg

ErrorTypeOK ==
  /\ errorCache \in CachedError \cup {NoErr}
  /\ loaded \subseteq CachedError /\ unchecked \subseteq CachedError
  /\ noticed \subseteq [in : Fn, err : CachedError]

(* Every variable holds what the code can store in it; in particular no    *)
(* activation is ever started for a nil declaration.                       *)
TypeOK == ControlTypeOK /\ TextTypeOK /\ ErrorTypeOK

(* The manager's current package is the package of the function being      *)
(* walked, however deep the recursion went and whatever it came back from: *)
(* lookups of callees, imports, types and the mark on the declaration all  *)
(* read manager.currentPackage, a global that calls set and restore.       *)
ActivePackage == stack # << >> => currentPackage = app.pkg[Top.fn]

(* No function is traced while an activation of it is still open: marking  *)
(* happens only at the end of TraceFunction.                               *)
NoReentry ==
  \A i, j \in DOMAIN stack : i # j => stack[i].fn # stack[j].fn

(* A function is edited once, whichever callers and roots reach it: at     *)
(* most one transaction parameter, one segment, one "nrTxn :=".            *)
TracedOnce ==
  \A f \in Fn : txnParams[f] <= 1 /\ segments[f] <= 1 /\ txnDefs[f] <= 1

(* The calls a function body contains.                                     *)
SitesOf(f) ==
  UNION {LET n == app.body[f][i]
         IN  {n.calls[j] : j \in DOMAIN n.calls} \cup
             (IF n.kind \in {"go", "golit"} THEN {n.outer} ELSE {}) :
         i \in DOMAIN app.body[f]}

(* When the tool is done every call in the application passes as many      *)
(* added arguments as the function it calls has added parameters: a call   *)
(* is edited by the walk of the caller, a declaration by the walk of the   *)
(* callee, and the two decide from different data.                         *)
CallsAgree ==
  Finished => \A s \in UNION {SitesOf(f) : f \in Fn} :
                txnArgs[s] = txnParams[app.to[s]]

(* Every function whose text mentions nrTxn in the end binds it, by a      *)
(* parameter or by a definition: AddToCall, NoticeError and the stateful   *)
(* tracing functions write the name long before, or long after, the code   *)
(* that declares it runs.                                                  *)
TxnInScope ==
  Finished => \A f \in txnUses : txnParams[f] + txnDefs[f] > 0

(* The import is recorded for the package whose text got a parameter or a  *)
(* segment, not for the package of whoever called it.                      *)
ImportsRecorded ==
  \A f \in Fn : txnParams[f] + segments[f] > 0 =>
                 app.pkg[f] \in importsAdded

(* The reference definition of what is to be traced: the functions a       *)
(* transaction can be carried to from main or from a handler.  Goroutines  *)
(* of main, functions called in a transaction of the user, functions that  *)
(* start their own and functions that set the agent up do not carry it.    *)
Carried(a, f, n) ==
  IF f \in a.mains /\ n.kind \in {"go", "golit"} THEN {}
  ELSE (IF n.kind \in {"golit", "litassign"} THEN {n.lit} ELSE {}) \cup
       ({a.to[n.calls[j]] : j \in DOMAIN n.calls} \ a.lits)

Declared(a) == UNION {{a.decls[p][i] : i \in DOMAIN a.decls[p]} : p \in Pkg}

Callees(a, f) ==
  {g \in UNION {Carried(a, f, a.body[f][i]) : i \in DOMAIN a.body[f]} :
     /\ g \in a.lits \cup Declared(a)
     /\ g \notin a.creates \cup a.hasTxn
     /\ a.name[g] \notin a.inTxn}

(* The roots of the walks, as far as the declarations tell.                *)
RootsOf(a) ==
  {f \in Fn : /\ \E i \in DOMAIN a.decls[a.pkg[f]] : a.decls[a.pkg[f]][i] = f
              /\ \/ f \in a.mains
                 \/ a.param[f] = "handler" /\ f \notin a.wrapped}

(* A function is reachable if no set without it holds the roots and the    *)
(* callees of its members.                                                 *)
Reachable(a) ==
  LET from == RootsOf(a)
  IN  {f \in Fn : \A R \in SUBSET (Fn \ {f}) :
                    from \subseteq R => \E g \in R : ~(Callees(a, g) \subseteq R)}

(* The pass is complete and goes no further than that: in the end exactly  *)
(* the reachable functions that are not roots got a segment, from whatever *)
(* package, declaration order or root the walk started.                    *)
TracesReachable ==
  Finished => {f \in Fn : segments[f] > 0} = Reachable(app) \ RootsOf(app)

(* The function that sets the agent up is never traced itself.             *)
SetupUntouched ==
  \A f \in app.creates : segments[f] = 0 /\ txnParams[f] = 0

(* A main has one agent: it gets the initialisation exactly when neither   *)
(* it nor a function of the application creates one.                       *)
OneAgent ==
  Finished => \A m \in app.mains : m \in agentInits <=> app.creates = {}

(* No error is lost and none is handled twice: each that was ever cached   *)
(* is still cached, or captured by NoticeError, or reported as unchecked,  *)
(* and only one of these.                                                  *)
CapturedErrors == {n.err : n \in {m \in noticed : m.err.var # ReturnVal}}

ErrorsAccounted ==
  LET held == {errorCache} \ {NoErr}
  IN  /\ loaded = held \cup CapturedErrors \cup unchecked
      /\ held \cap CapturedErrors = {} /\ held \cap unchecked = {}
      /\ CapturedErrors \cap unchecked = {}

(* An error waits in the cache only while the function that assigned it is *)
(* being walked: the cache is one slot for the whole manager, and what is  *)
(* walked after that function ended cannot capture its error.  A callee    *)
(* walked before the end still can.                                        *)
ErrorOwnerActive ==
  errorCache # NoErr => \E i \in DOMAIN stack : stack[i].fn = errorCache.fn

(* NoticeError is only ever given a variable of the function it is         *)
(* written in.                                                             *)
ErrorInScope == \A n \in noticed : n.in = n.err.fn

(* An error that a traced function returns is captured inside it, at the   *)
(* root cause, and not again by its callers: no captured error comes from  *)
(* a statement that calls a function with a segment.                       *)
CapturedAtRoot ==
  Finished => \A n \in noticed :
    LET node == app.body[n.err.fn][n.err.node]
    IN  \A j \in DOMAIN node.calls : segments[app.to[node.calls[j]]] = 0

(* A later node of the function of e, before the first check of errors     *)
(* there, that a callee may be walked from: a literal, or a call of a      *)
(* declaration.                                                            *)
ChecksError(n) == n.kind = "if" /\ n.checks
HandsOn(a, e) ==
  LET text == a.body[e.fn]
  IN  \E i \in e.node + 1 .. Len(text) :
        /\ \/ HoldsLiteral(text[i])
           \/ \E j \in DOMAIN text[i].calls : a.to[text[i].calls[j]] \notin a.lits
        /\ \A j \in e.node .. i - 1 : ~ChecksError(text[j])

(* An error that its own function checks is not captured anywhere else: in *)
(* another function it ends up only by way of a later call in its own,     *)
(* before the first check there, which takes it out of the slot.           *)
CapturedPending ==
  \A n \in noticed : n.in # n.err.fn => HandsOn(app, n.err)

-----------------------------------------------------------------------------
(* Conditions on an application, the premises of theorems.                 *)

(* The functions the walk of f may start: the literals written in it, and  *)
(* the declarations a call in it is looked up as.                          *)
Starts(a, f) ==
  {g \in Fn : \E i \in DOMAIN a.body[f] :
     LET n == a.body[f][i]
     IN  \/ HoldsLiteral(n) /\ g = n.lit
         \/ /\ g \notin a.lits
            /\ \E j \in DOMAIN n.calls :
                 /\ a.to[n.calls[j]] \notin a.lits
                 /\ a.pkg[g] = a.pkg[a.to[n.calls[j]]]
                 /\ a.name[g] = a.name[a.to[n.calls[j]]]}

(* No function calls itself, in however many calls.                        *)
Acyclic(a) ==
  \A R \in SUBSET Fn : R # {} => \E f \in R : Starts(a, f) \cap R = {}

(* Nothing but the runtime calls main.                                     *)
MainsNotCalled(a) == \A f \in Fn : Starts(a, f) \cap a.mains = {}

NoRecursion(a) == Acyclic(a) /\ MainsNotCalled(a)

(* Where the agent is set up at all, each main sets it up or has a         *)
(* function that does above it, in its own package.                        *)
AgentSeen(a) ==
  a.creates # {} => \A m \in a.mains :
    LET d == a.decls[a.pkg[m]]
    IN  \E i, j \in DOMAIN d : i <= j /\ d[i] \in a.creates /\ d[j] = m

(* R is closed under what walks start and leaves out the setup function c: *)
(* a root outside of R comes after c in the package of c.                  *)
Separates(a, c, R) ==
  /\ c \in a.creates \ R
  /\ \A f \in R : Starts(a, f) \subseteq R
  /\ \A f \in RootsOf(a) \ R :
       /\ a.creates = {c}
       /\ LET d == a.decls[a.pkg[f]]
          IN  \E i, j \in DOMAIN d : i <= j /\ d[i] = c /\ d[j] = f

(* The function n calls as its j-th invocation goes by the name of g.      *)
LooksUp(a, n, j, g) == /\ a.to[n.calls[j]] \notin a.lits
                       /\ a.pkg[a.to[n.calls[j]]] = a.pkg[g]
                       /\ a.name[a.to[n.calls[j]]] = a.name[g]

(* Whatever may reach the setup function is walked after it is known, and  *)
(* no goroutine sets the agent up.                                         *)
SetupFirst(a) ==
  /\ \A c \in a.creates : \E R \in SUBSET Fn : Separates(a, c, R)
  /\ \A c \in a.creates, f \in Fn : \A i \in DOMAIN a.body[f] :
       a.body[f][i].kind = "go" =>
         \A j \in DOMAIN a.body[f][i].calls : ~LooksUp(a, a.body[f][i], j, c)

(* A bare name means one function of its package.                          *)
NamesUnique(a) ==
  \A p \in Pkg : \A i \in DOMAIN a.decls[p] : \A f \in Fn \ a.lits :
    a.pkg[f] = p /\ a.name[f] = a.name[a.decls[p][i]] => f = a.decls[p][i]

(* Nothing calls main or a handler.                                        *)
RootsNotCalled(a) == \A f \in Fn : Starts(a, f) \cap RootsOf(a) = {}

(* No name called in a transaction of the user is also the name of a       *)
(* literal or called as a goroutine, and a statement with a function       *)
(* literal of its own makes no other call.                                 *)
PlainStatements(a) ==
  /\ \A f \in a.lits : a.name[f] \notin a.inTxn
  /\ \A f \in Fn : \A i \in DOMAIN a.body[f] :
       LET n == a.body[f][i]
       IN  /\ HoldsLiteral(n) => n.calls = << >>
           /\ n.kind = "go" => \A j \in DOMAIN n.calls :
                               a.name[a.to[n.calls[j]]] \notin a.inTxn

Traceable(a) == /\ SetupFirst(a) /\ NamesUnique(a)
                /\ RootsNotCalled(a) /\ PlainStatements(a)

(* A handler returns nothing; main itself makes no outbound HTTP call; and *)
(* a statement of main that is in no block calls declared functions only,  *)
(* and those that the statement around it, which comes first, calls too.   *)
TransactionAtHand(a) ==
  /\ NamesUnique(a)
  /\ \A f \in Fn : \A i \in DOMAIN a.body[f] :
       LET n == a.body[f][i]
       IN  /\ a.param[f] = "handler" => n.kind # "return" \/ ~n.checks
           /\ f \in a.mains =>
                /\ ~(n.http /\ n.listed)
                /\ n.listed \/ \A j \in DOMAIN n.calls :
                     /\ a.to[n.calls[j]] \notin a.lits
                     /\ \E h \in 1 .. i - 1 : LET m == a.body[f][h]
                        IN  /\ m.kind \in {"assign", "if", "return", "other"}
                            /\ \E k \in DOMAIN m.calls : m.calls[k] = n.calls[j]

(* The calls the walk looks at in a node; a goroutine on a literal is one. *)
CallsIn(n) == IF n.kind = "golit" THEN <<n.outer>> ELSE n.calls

CallAt(a, s, f, i, j) == /\ i \in DOMAIN a.body[f]
                         /\ j \in DOMAIN CallsIn(a.body[f][i])
                         /\ s = CallsIn(a.body[f][i])[j]

(* Every root sets the agent up or stands below a declaration that does.   *)
SetupAbove(a) ==
  \A f \in RootsOf(a) :
    LET d == a.decls[a.pkg[f]]
    IN  \E i, j \in DOMAIN d : i <= j /\ d[i] \in a.creates /\ d[j] = f

(* A call in a statement, which hands over the same when it is met again.  *)
Repeatable(a, s, f, i) ==
  /\ a.body[f][i].kind \notin {"go", "golit"}
  /\ a.arg[s] = IF a.param[f] = "ctx" THEN "own" ELSE "none"

(* A call of a reachable function is given a context if the function takes *)
(* one, and is met once or repeatable; a literal is called below its       *)
(* assignment, with the agent set up; goroutines of main call no such.     *)
Fits(a, s, f, i, j) ==
  LET n == a.body[f][i]
  IN  /\ f \in a.mains => n.kind \notin {"go", "golit"}
      /\ a.arg[s] = "none" <=> a.param[a.to[s]] # "ctx"
      /\ a.arg[s] = "expr" => a.param[f] # "ctx"
      /\ \/ Repeatable(a, s, f, i)
         \/ \A g \in Fn : \A k \in DOMAIN a.body[g] :
              \A l \in DOMAIN CallsIn(a.body[g][k]) :
                CallAt(a, s, g, k, l) => <<g, k, l>> = <<f, i, j>>
      /\ a.to[s] \in a.lits /\ n.kind # "golit" =>
           /\ SetupAbove(a)
           /\ \E h \in 1 .. i - 1 : /\ a.body[f][h].kind = "litassign"
                                    /\ a.body[f][h].lit = a.to[s]

(* Calls are plain: those of reachable functions fit and are in reachable  *)
(* functions, goroutines are on one call, and what starts a transaction of *)
(* its own is called in one of the user.                                   *)
PlainCalls(a) ==
  LET R == Reachable(a)
  IN  /\ \A f \in a.mains : a.param[f] # "ctx"
      /\ \A f \in Fn : \A i \in DOMAIN a.body[f] :
           LET n == a.body[f][i]
           IN  /\ n.kind = "go" => n.calls = <<n.outer>>
               /\ n.kind = "golit" => a.to[n.outer] = n.lit
               /\ \A j \in DOMAIN CallsIn(n) :
                    LET s == CallsIn(n)[j]
                    IN  /\ a.to[s] \in R => f \in R /\ Fits(a, s, f, i, j)
                        /\ a.to[s] \in a.hasTxn => a.name[a.to[s]] \in a.inTxn

(* What NoticeError takes for the origin of an error.                      *)
Originates(n) ==
  n.listed /\ \/ n.kind \in {"assign", "if"} /\ n.err # NoErr
              \/ n.kind = "return" /\ n.checks

(* A statement that the error of a traced function comes from is the first *)
(* to call it, and calls it by its name.                                   *)
ErrorsOfFirstCalls(a) ==
  LET R == Reachable(a)
  IN  \A f \in R \ a.mains : \A i \in DOMAIN a.body[f] :
        LET n == a.body[f][i]
        IN  Originates(n) => \A j \in DOMAIN n.calls :
              LET g == a.to[n.calls[j]]
              IN  g \in R \ RootsOf(a) =>
                    /\ g \notin a.lits
                    /\ \A h \in Fn : \A k \in DOMAIN a.body[h] :
                         \A l \in DOMAIN a.body[h][k].calls :
                           a.to[a.body[h][k].calls[l]] = g => h = f /\ k >= i
=============================================================================
