--------------------------- MODULE ScanApplication ---------------------------
(***************************************************************************)
(* The two passes over the application that come before any edit:          *)
(* tracePackageFunctionCalls stores the declarations and the facts, and    *)
(* scanPackages looks for instrumentation the user already has, with the   *)
(* detectors in the order registerIntegrations gives them.  Packages are   *)
(* visited in the order of a Go map, each time another one; the            *)
(* declarations of a package in the order of its files.                    *)
(*                                                                         *)
(* A body is the sequence of its calls, outer before inner, as             *)
(* dstutil.Apply meets them.                                               *)
(***************************************************************************)
EXTENDS Naturals, Sequences, FiniteSets

CONSTANTS
  Fn,       \* declarations with a body, methods included
  Pkg,      \* packages that are not test packages
  Name,     \* identifiers: functions without package and receiver, variables
  Type,     \* type strings of gRPC server objects
  ErrVar,   \* error variables passed to NoticeError
  NoFn, NoName, NoType, NoErr,
  NoPkg,    \* no package is current
  NoKey,    \* currentTransaction is nil
  Main,     \* the name "main"
  Apps,     \* the applications considered
  MaxDepth  \* bound: nested activations a goroutine stack has room for

Call ==
  [form   : {"ident", "method", "chain", "recv"}, \* f(), v.m(), ().m(), <-c
   name   : Name \cup {NoName},    \* the f or the v
   stmt   : {"none", "nested", "top"}, \* an ExprStmt; one of the body itself
   end    : BOOLEAN,               \* the method is End
   passes : SUBSET Name,           \* identifiers among its arguments
   notes  : ErrVar \cup {NoErr},   \* NoticeError of that variable
   origin : {"none", "agent", "echo", "gin"}, \* assigned a transaction from
   binds  : Name \cup {NoName},    \* ... to this variable
   uses   : BOOLEAN,               \* .Use(nrecho.Middleware) or nrgin's
   wraps  : Name \cup {NoName},    \* HandleFunc(.. WrapHandleFunc(.. h))
   serves : Type \cup {NoType}]    \* RegisterXServer(s, object of that type)

AppType == [pkg : [Fn -> Pkg], name : [Fn -> Name], body : [Fn -> Seq(Call)],
            decls : [Pkg -> Seq(Fn)], generated : SUBSET Fn]

(* A package lists the declarations it has, each once; only a transaction  *)
(* is bound.                                                               *)
WellFormed(a) ==
  /\ \A p \in Pkg : \A i \in DOMAIN a.decls[p] :
       /\ a.pkg[a.decls[p][i]] = p
       /\ \A j \in DOMAIN a.decls[p] : a.decls[p][j] = a.decls[p][i] => j = i
  /\ \A f \in Fn : \A i \in DOMAIN a.body[f] :
       LET c == a.body[f][i]
       IN  /\ c.origin = "none" <=> c.binds = NoName
           /\ c.stmt # "none" => c.origin = "none"
           /\ c.form = "recv" => c.stmt # "none"

ASSUME SentinelAssumption == /\ NoFn \notin Fn /\ NoName \notin Name
                             /\ NoType \notin Type /\ NoErr \notin ErrVar
ASSUME AppsAssumption     == \A a \in Apps : a \in AppType /\ WellFormed(a)
ASSUME DepthAssumption    == MaxDepth \in Nat \ {0}

(* The identifier node a transaction is kept under: the variable assigned  *)
(* at a call of a function, or at 0 the name of a declaration.             *)
Key == [fn : Fn, at : Nat]
ASSUME KeyAssumption == NoKey \notin Key

VARIABLES
  app,            \* the application, chosen once
  phase,          \* declare, detect, then how it ended
  todo,           \* packages the pass has not started
  rest,           \* declarations of the current package still to visit
  currentPackage,
  tracedFuncs,    \* package -> bare name -> declaration and its mark
  facts,          \* types known to be gRPC servers
  hasMain, errReturn,
  functions,      \* bare name -> the declaration seen last
  transactions,   \* identifier -> recorded calls, and whether it has ended
  existingErrors,
  stack           \* DetectTransactions and the calls of trackFunctionCalls

tables == <<tracedFuncs, facts, hasMain, errReturn>>
cache  == <<functions, transactions, existingErrors>>
vars   == <<app, phase, todo, rest, currentPackage, tables, cache, stack>>

Frame == [fn : Fn, pc : Nat \ {0}, role : {"detect", "track"},
          key : Key \cup {NoKey},  \* currentTransaction, or txn
          has : BOOLEAN]           \* hasExistingTransaction

Top     == stack[Len(stack)]
TopCall == app.body[Top.fn][Top.pc]
Walking == phase = "detect" /\ stack # << >> /\ Top.pc \in DOMAIN app.body[Top.fn]
Caller  == [stack EXCEPT ![Len(stack)].pc = @ + 1]

-----------------------------------------------------------------------------
(* The tables.                                                             *)

(* The first declaration of a name stays; faulty: the latest replaces it.  *)
CreateFunctionDeclaration_Latest(t, f) ==
  [t EXCEPT ![currentPackage][app.name[f]].body = f]

CreateFunctionDeclaration(t, f) ==
  IF t[currentPackage][app.name[f]].body = NoFn
  THEN [t EXCEPT ![currentPackage][app.name[f]] = [body |-> f, traced |-> FALSE]]
  ELSE t

UpdateFunctionDeclaration(t, f) ==
  IF t[currentPackage][app.name[f]].body = NoFn THEN t
  ELSE [t EXCEPT ![currentPackage][app.name[f]] = [body |-> f, traced |-> TRUE]]

(* What FindGrpcServerObject finds in a declaration.                       *)
Served(f) == {i \in DOMAIN app.body[f] : app.body[f][i].serves # NoType}
ServedTypes(f) == {app.body[f][i].serves : i \in Served(f)}

(* Faulty: only registrations in one declaration are compared.             *)
DuplicateFact_OneFunction(f) == Cardinality(ServedTypes(f)) < Cardinality(Served(f))

(* AddFact refuses a name it has; the others of the declaration are added. *)
DuplicateFact(f) == \/ ServedTypes(f) \cap facts # {}
                    \/ Cardinality(ServedTypes(f)) < Cardinality(Served(f))

(* Either pass: the next package, in any order.                            *)
StartPackage(p) ==
  /\ phase \in {"declare", "detect"}
  /\ stack = << >> /\ rest = << >>
  /\ p \in todo
  /\ todo' = todo \ {p}
  /\ rest' = app.decls[p]
  /\ currentPackage' = p
  /\ UNCHANGED <<app, phase, tables, cache, stack>>

(* tracePackageFunctionCalls: generated files are passed over.             *)
DeclareFunction ==
  /\ phase = "declare"
  /\ rest # << >>
  /\ LET f == Head(rest)
     IN  IF f \in app.generated
         THEN UNCHANGED tables
         ELSE /\ tracedFuncs' = CreateFunctionDeclaration(tracedFuncs, f)
              /\ hasMain' = (hasMain \/ app.name[f] = Main)
              /\ facts' = facts \cup ServedTypes(f)
              /\ errReturn' = (errReturn \/ DuplicateFact(f))
  /\ rest' = Tail(rest)
  /\ UNCHANGED <<app, phase, todo, currentPackage, cache, stack>>

(* Its end: the command stops, or goes on to ScanApplication.              *)
EndDeclare ==
  /\ phase = "declare"
  /\ todo = {} /\ rest = << >>
  /\ phase' = IF hasMain /\ ~errReturn THEN "detect" ELSE "failed"
  /\ todo' = Pkg
  /\ UNCHANGED <<app, rest, currentPackage, tables, cache, stack>>
-----------------------------------------------------------------------------
(* The transaction cache.                                                  *)

NoData == [exprs |-> {}, closed |-> FALSE]
DataOf(k) == IF k \in DOMAIN transactions THEN transactions[k] ELSE NoData

AddTxnToCache(t, k, d) ==
  [j \in DOMAIN t \cup {k} |-> IF j = k THEN d ELSE t[j]]

TxnName(k) == IF k.at = 0 THEN app.name[k.fn] ELSE app.body[k.fn][k.at].binds

(* Faulty, for the mutation runs: the receiver is compared by address, or  *)
(* not at all.                                                             *)
IsTxnEnd_SameNode(k, c) == k = NoKey /\ c.end
IsTxnEnd_AnyVariable(k, c) == k # NoKey /\ c.form = "method" /\ c.end

IsTxnEnd(k, c) == c.form = "method" /\ c.end /\ c.name = TxnName(k)

(* Faulty: an ended transaction takes more calls.                          *)
CanAdd_Always(k) == k # NoKey

(* What AddCall returns; the call <<f, i>> it is given.                    *)
CanAdd(k) == ~DataOf(k).closed

(* Faulty: only the caller asks whether the transaction has ended.         *)
AddCall_Unguarded(k, x) ==
  transactions' = AddTxnToCache(transactions, k,
    [exprs  |-> DataOf(k).exprs \cup {x},
     closed |-> DataOf(k).closed \/ IsTxnEnd(k, app.body[x[1]][x[2]])])

AddCall(k, x) ==
  IF CanAdd(k)
  THEN transactions' = AddTxnToCache(transactions, k,
         [exprs  |-> DataOf(k).exprs \cup {x},
          closed |-> IsTxnEnd(k, app.body[x[1]][x[2]])])
  ELSE UNCHANGED transactions

(* A handler the user wrapped: the statements of its body, and closed.     *)
AddFuncDecl(t, f) ==
  AddTxnToCache(t, [fn |-> f, at |-> 0],
    [exprs  |-> {<<f, i>> : i \in {j \in DOMAIN app.body[f] :
                                     app.body[f][j].stmt = "top"}},
     closed |-> TRUE])

(* The calls of a transaction DetectErrors looks at: it gives up at an     *)
(* expression that is no call.                                             *)
IsReceive(x) == app.body[x[1]][x[2]].form = "recv"
LookedAt(d) == {x \in d.exprs : ~\E y \in d.exprs :
                  IsReceive(y) /\ y[1] = x[1] /\ y[2] <= x[2]}
Noticed(t, K) == {app.body[x[1]][x[2]].notes : x \in UNION {LookedAt(t[k]) : k \in K}}
                   \ {NoErr}

(* Faulty: the detector is not run on the declaration itself.              *)
DetectErrors_Inner(t, visits) ==
  existingErrors' = IF visits = "one" THEN existingErrors
                    ELSE existingErrors \cup Noticed(t, DOMAIN t)

(* Giving up ends the loop over the transactions too, a Go map: those it   *)
(* did not come to are left out.  One visit of the detector stops at one   *)
(* transaction, the visits of many nodes at any of them.                   *)
DetectErrors(t, visits) ==
  LET B == {k \in DOMAIN t : \E x \in t[k].exprs : IsReceive(x)}
  IN  \/ B = {} /\ existingErrors' = existingErrors \cup Noticed(t, DOMAIN t)
      \/ \E K \in SUBSET DOMAIN t :
           /\ K \cap B # {}
           /\ visits = "one" => Cardinality(K \cap B) = 1
           /\ existingErrors' = existingErrors \cup Noticed(t, K)

-----------------------------------------------------------------------------
(* The detectors, run on every node of a declaration, the declaration last. *)

(* The nodes inside it: DetectErrors with what earlier declarations left.  *)
(* Then DetectTransactions starts on the declaration.                      *)
BeginDeclaration ==
  /\ phase = "detect"
  /\ stack = << >> /\ rest # << >>
  /\ LET f == Head(rest)
     IN  /\ functions' = [functions EXCEPT ![app.name[f]] = f]
         /\ stack' = <<[fn |-> f, pc |-> 1, role |-> "detect", key |-> NoKey,
                        has |-> FALSE]>>
  /\ DetectErrors(transactions, "many")
  /\ UNCHANGED <<app, phase, todo, rest, currentPackage, tables, transactions>>

(* txn := app.StartTransaction(..) or .. := FromContext(..), of whichever  *)
(* package: DetectTransactions does not know nrgin.Transaction.            *)
TakeTransaction ==
  /\ Walking
  /\ Top.role = "detect"
  /\ TopCall.origin \in {"agent", "echo"}
  /\ stack' = [stack EXCEPT ![Len(stack)] =
                 [fn |-> Top.fn, pc |-> Top.pc + 1, role |-> "detect",
                  key |-> [fn |-> Top.fn, at |-> Top.pc], has |-> TRUE]]
  /\ UNCHANGED <<app, phase, todo, rest, currentPackage, tables, cache>>

(* A statement of a function that has no transaction yet, or no statement. *)
Recordable == TopCall.stmt # "none" /\ TopCall.form # "recv" /\ Top.key # NoKey

PassStatement ==
  /\ Walking
  /\ Top.role = "detect"
  /\ TopCall.origin \notin {"agent", "echo"}
  /\ ~Recordable
  /\ stack' = Caller
  /\ UNCHANGED <<app, phase, todo, rest, currentPackage, tables, cache>>

(* trackFunctionCalls on the declaration seen last under that name; faulty: *)
(* whether there is one or not.                                            *)
Known_Named(n) == n \in DOMAIN functions

Known(n) == n # NoName /\ functions[n] # NoFn

TrackFunctionCalls(n, k) ==
  IF Len(stack) < MaxDepth
  THEN /\ stack' = Append(Caller, [fn |-> functions[n], pc |-> 1,
                                   role |-> "track", key |-> k, has |-> FALSE])
       /\ UNCHANGED phase
  ELSE phase' = "overflow" /\ UNCHANGED stack

(* The call is handed the transaction and can be followed; faulty: whatever *)
(* it is handed.                                                           *)
PassesTxn_Anything(c, k) == k # NoKey /\ c.form = "ident" /\ Known(c.name)

PassesTxn(c, k) == /\ TxnName(k) \in c.passes
                   /\ c.form = "ident"
                   /\ Known(c.name)

(* The type assertion of the End check fails on a chain of calls.          *)
RecordStatement ==
  /\ Walking
  /\ Top.role = "detect"
  /\ Recordable
  /\ AddCall(Top.key, <<Top.fn, Top.pc>>)
  /\ CASE TopCall.form = "chain" /\ TopCall.end ->
            phase' = "panicked" /\ UNCHANGED stack
       [] PassesTxn(TopCall, Top.key) ->
            TrackFunctionCalls(TopCall.name, Top.key)
       [] OTHER -> stack' = Caller /\ UNCHANGED phase
  /\ UNCHANGED <<app, todo, rest, currentPackage, tables, functions,
                 existingErrors>>

(* trackFunctionCalls follows every call it can, handed the transaction or *)
(* not, unless the transaction has ended.                                  *)
RecordCall ==
  /\ Walking
  /\ Top.role = "track"
  /\ TopCall.form # "recv"
  /\ AddCall(Top.key, <<Top.fn, Top.pc>>)
  /\ IF /\ CanAdd(Top.key)
        /\ ~IsTxnEnd(Top.key, TopCall)
        /\ TopCall.form = "ident"
        /\ Known(TopCall.name)
     THEN TrackFunctionCalls(TopCall.name, Top.key)
     ELSE stack' = Caller /\ UNCHANGED phase
  /\ UNCHANGED <<app, todo, rest, currentPackage, tables, functions,
                 existingErrors>>

SkipReceive ==
  /\ Walking
  /\ Top.role = "track"
  /\ TopCall.form = "recv"
  /\ stack' = Caller
  /\ UNCHANGED <<app, phase, todo, rest, currentPackage, tables, cache>>

AtEnd == phase = "detect" /\ stack # << >> /\ Top.pc > Len(app.body[Top.fn])

EndTrack ==
  /\ AtEnd
  /\ Top.role = "track"
  /\ stack' = SubSeq(stack, 1, Len(stack) - 1)
  /\ UNCHANGED <<app, phase, todo, rest, currentPackage, tables, cache>>

(* DetectGinInstrumentation and the two of Echo: an empty entry for the    *)
(* variable, in place of the one DetectTransactions made.                  *)
WebTransactions(f) == {i \in DOMAIN app.body[f] :
                         app.body[f][i].origin \in {"gin", "echo"}}

WithWeb(t, f) ==
  LET W == {[fn |-> f, at |-> i] : i \in WebTransactions(f)}
  IN  [k \in DOMAIN t \cup W |-> IF k \in W THEN NoData ELSE t[k]]

(* DetectWrappedRoutes, in a declaration called main.                      *)
WrappedHandlers(f) ==
  IF app.name[f] # Main THEN {}
  ELSE {functions[n] : n \in {app.body[f][i].wraps : i \in DOMAIN app.body[f]}
                             \ {NoName}} \ {NoFn}

WithRoutes(t, f) ==
  LET R == {[fn |-> h, at |-> 0] : h \in WrappedHandlers(f)}
  IN  [k \in DOMAIN t \cup R |-> IF k \in R THEN AddFuncDecl(t, k.fn)[k] ELSE t[k]]

HasInstrumentation(f) ==
  \/ Top.has
  \/ WebTransactions(f) # {}
  \/ \E i \in DOMAIN app.body[f] : app.body[f][i].uses

(* The end of DetectTransactions, and the detectors after it.              *)
EndDeclaration ==
  /\ AtEnd
  /\ Top.role = "detect"
  /\ LET f == Top.fn
     IN  /\ tracedFuncs' =
              IF HasInstrumentation(f)
              THEN UpdateFunctionDeclaration(
                     CreateFunctionDeclaration(tracedFuncs, f), f)
              ELSE tracedFuncs
         /\ transactions' = WithRoutes(WithWeb(transactions, f), f)
  /\ DetectErrors(transactions, "one")
  /\ rest' = Tail(rest)
  /\ stack' = << >>
  /\ UNCHANGED <<app, phase, todo, currentPackage, facts, hasMain, errReturn,
                 functions>>

EndScan ==
  /\ phase = "detect"
  /\ todo = {} /\ rest = << >>
  /\ phase' = "done"
  /\ UNCHANGED <<app, todo, rest, currentPackage, tables, cache, stack>>

Ended == phase \in {"done", "failed", "panicked", "overflow"}
Halt  == Ended /\ UNCHANGED vars

Init ==
  /\ app \in Apps
  /\ phase = "declare"
  /\ todo = Pkg
  /\ rest = << >> /\ stack = << >>
  /\ currentPackage = NoPkg
  /\ tracedFuncs = [p \in Pkg |-> [n \in Name |-> [body |-> NoFn, traced |-> FALSE]]]
  /\ facts = {} /\ hasMain = FALSE /\ errReturn = FALSE
  /\ functions = [n \in Name |-> NoFn]
  /\ transactions = << >>
  /\ existingErrors = {}

Next == \/ \E p \in Pkg : StartPackage(p)
        \/ DeclareFunction \/ EndDeclare
        \/ BeginDeclaration \/ TakeTransaction \/ PassStatement
        \/ RecordStatement \/ RecordCall \/ SkipReceive \/ EndTrack
        \/ EndDeclaration \/ EndScan
        \/ Halt

(* One goroutine runs both passes and never waits.                         *)
Spec == Init /\ [][Next]_vars /\ WF_vars(Next)

-----------------------------------------------------------------------------
(* Properties.                                                             *)

Declared(a) == UNION {{a.decls[p][i] : i \in DOMAIN a.decls[p]} : p \in Pkg}
Calls(a) == UNION {{f} \X DOMAIN a.body[f] : f \in Fn}
Data(a)  == [exprs : SUBSET Calls(a), closed : BOOLEAN]
Phase    == {"declare", "detect", "done", "failed", "panicked", "overflow"}

(* Every variable keeps to what the code can store in it: the cache is     *)
(* about calls and identifiers of the program, and trackFunctionCalls is   *)
(* never started for a nil declaration or a nil transaction.               *)
ControlTypeOK ==
  /\ phase \in Phase /\ todo \in SUBSET Pkg
  /\ rest \in Seq(Fn) /\ currentPackage \in Pkg \cup {NoPkg}
  /\ stack \in Seq(Frame)
  /\ \A i \in 1 .. Len(stack) : stack[i].role = "track" => stack[i].key # NoKey

TablesTypeOK ==
  /\ tracedFuncs \in [Pkg -> [Name -> [body : Fn \cup {NoFn}, traced : BOOLEAN]]]
  /\ facts \in SUBSET Type /\ hasMain \in BOOLEAN /\ errReturn \in BOOLEAN

CacheTypeOK ==
  /\ functions \in [Name -> Fn \cup {NoFn}]
  /\ DOMAIN transactions \subseteq
       {k \in Key : k.at \in {0} \cup DOMAIN app.body[k.fn]}
  /\ \A k \in DOMAIN transactions : transactions[k] \in Data(app)
  /\ existingErrors \in SUBSET ErrVar

TypeOK == ControlTypeOK /\ TablesTypeOK /\ CacheTypeOK

(* The statements that belong to the transaction of k in its own function  *)
(* of application a: up to the next one that is started there.             *)
Takes(c) == c.origin \in {"agent", "echo"}
Own(a, k) == {i \in DOMAIN a.body[k.fn] :
                /\ i > k.at
                /\ ~\E j \in k.at + 1 .. i : Takes(a.body[k.fn][j])}

CallsTo(a, c, g) == c.form = "ident" /\ c.name = a.name[g]
Follows(a, f) == {g \in Declared(a) : \E i \in DOMAIN a.body[f] :
                                        CallsTo(a, a.body[f][i], g)}
Handed(a, k) == {g \in Declared(a) : \E i \in Own(a, k) :
                   /\ CallsTo(a, a.body[k.fn][i], g)
                   /\ a.body[k.fn][k.at].binds \in a.body[k.fn][i].passes}
Reached(a, k) ==
  LET F == [g \in Declared(a) |-> Follows(a, g)]
      C == {S \in SUBSET Declared(a) : \A h \in S : F[h] \subseteq S}
      H == Handed(a, k)
  IN  {g \in Declared(a) : \A S \in C : H \subseteq S => g \in S}

(* No call is taken for one of a transaction it cannot run in: the calls   *)
(* recorded are statements after its start or calls of functions it        *)
(* reaches by way of one that is handed it.                                *)
ScopeReached ==
  \A k \in DOMAIN transactions : k.at # 0 =>
    LET own == {k.fn} \X Own(app, k)
        R   == Reached(app, k)
    IN  \A x \in transactions[k].exprs \ own : x[1] \in R

IsEnd(k, x) == LET c == app.body[x[1]][x[2]]
               IN  /\ c.form = "method" /\ c.end
                   /\ c.name = app.body[k.fn][k.at].binds

(* A declaration of the package seen before f, the only one of its name.   *)
Before(g, f) ==
  /\ \A h \in Declared(app) : app.name[h] = app.name[g] => h = g
  /\ app.pkg[g] = app.pkg[f]
  /\ \E i, j \in DOMAIN app.decls[app.pkg[f]] :
       /\ i < j
       /\ app.decls[app.pkg[f]][i] = g /\ app.decls[app.pkg[f]][j] = f

(* Nothing of a transaction is missed until it is ended: its own           *)
(* statements, and the calls of the functions declared before it that are  *)
(* handed it.  (Echo transactions are emptied by their own detector.)      *)
ScopeComplete ==
  phase = "done" =>
    \A f \in Declared(app) : \A a \in DOMAIN app.body[f] :
      app.body[f][a].origin = "agent" =>
        LET k == [fn |-> f, at |-> a]
            d == DataOf(k).exprs
        IN  \/ \E x \in d : IsEnd(k, x)
            \/ \A i \in Own(app, k) :
                 app.body[f][i].stmt # "none" /\ app.body[f][i].form # "recv" =>
                   /\ <<f, i>> \in d
                   /\ \A g \in Declared(app) :
                        /\ Before(g, f)
                        /\ CallsTo(app, app.body[f][i], g)
                        /\ app.body[f][a].binds \in app.body[f][i].passes
                        => \A j \in DOMAIN app.body[g] :
                             app.body[g][j].form # "recv" => <<g, j>> \in d

(* "Logic after transaction ends should not be captured"                   *)
(* (preinstrumentationtracing_test.go): behind an End that was recorded    *)
(* nothing of the same function is, however it was reached.  (A function   *)
(* its own transaction reaches may have an End of that variable before.)   *)
NothingAfterEnd ==
  \A k \in DOMAIN transactions : k.at # 0 /\ k.fn \notin Reached(app, k) =>
    \A x, y \in transactions[k].exprs :
      IsEnd(k, x) /\ y[1] = x[1] => y[2] <= x[2]

(* IsClosed "ensures that no further expressions are added once a          *)
(* transaction is marked as ended": in its own function, in a callee, in   *)
(* the callers the walk returns to and by the detectors that come later.   *)
ClosedForGood ==
  [][\A k \in DOMAIN transactions : transactions[k].closed =>
       /\ k \in DOMAIN transactions'
       /\ transactions'[k].exprs \subseteq transactions[k].exprs]_vars

(* What TraceFunction finds in the tables: the first declaration of a name *)
(* in its package outside generated files or the last one that has         *)
(* instrumentation, and the mark exactly if there is one, in whatever      *)
(* order the packages were visited in the two passes.                      *)
Instrumented(f) == \E i \in DOMAIN app.body[f] :
                     app.body[f][i].origin # "none" \/ app.body[f][i].uses

TableLeft ==
  phase = "done" =>
    \A p \in Pkg, n \in Name :
      LET I == {i \in DOMAIN app.decls[p] : app.name[app.decls[p][i]] = n}
          T == {i \in I : Instrumented(app.decls[p][i])}
          W == {i \in I : app.decls[p][i] \notin app.generated}
          e == tracedFuncs[p][n]
      IN  /\ e.traced <=> T # {}
          /\ e.body = NoFn <=> T \cup W = {}
          /\ \A i \in T : (\A j \in T : j <= i) => e.body = app.decls[p][i]
          /\ T = {} => \A i \in W : (\A j \in W : i <= j) =>
                                      e.body = app.decls[p][i]

(* The command goes on exactly if there is a main outside generated files  *)
(* and no gRPC server type is registered twice, whichever package is       *)
(* visited last; then the facts are all the types registered.              *)
Scanned == Declared(app) \ app.generated
Registrations == UNION {{<<f, i>> : i \in Served(f)} : f \in Scanned}
Proceeds == /\ \E f \in Scanned : app.name[f] = Main
            /\ \A r, s \in Registrations :
                 app.body[r[1]][r[2]].serves = app.body[s[1]][s[2]].serves => r = s

OutcomeAgrees ==
  /\ phase = "failed" => ~Proceeds
  /\ phase \notin {"declare", "failed"} =>
       /\ Proceeds
       /\ facts = UNION {ServedTypes(f) : f \in Scanned}

(* The transaction can end before the i-th call of its own function.       *)
EndsBefore(k, i) ==
  \E x \in Calls(app) :
    /\ IsEnd(k, x)
    /\ x[1] \in Reached(app, k) \/ (x \in {k.fn} \X Own(app, k) /\ x[2] < i)

(* The errors the user reports in a transaction, before its End, are known *)
(* when instrumentation starts: DetectErrors sees them before the Echo     *)
(* detector empties the entry.  (A receive in a wrapped handler can make   *)
(* it give up.)                                                            *)
ErrorsKnown ==
  /\ phase = "done"
  /\ \A f \in Declared(app) : \A i \in DOMAIN app.body[f] : app.body[f][i].form # "recv"
  => \A f \in Declared(app) : \A a \in DOMAIN app.body[f] :
       Takes(app.body[f][a]) =>
         LET k == [fn |-> f, at |-> a]
         IN  \A i \in Own(app, k) :
               \/ app.body[f][i].stmt = "none"
               \/ app.body[f][i].notes \in existingErrors \cup {NoErr}
               \/ EndsBefore(k, i)

(* Both passes end, with tables, with an error or with a panic: a          *)
(* recursive function is not followed again once it has ended the          *)
(* transaction.                                                            *)
Termination == <>(phase \in {"done", "failed", "panicked"})

(* An End that is "part of a segment ... does not mark the transaction as  *)
(* closed" (transactioncache.go): the scan takes no harm from it.          *)
SegmentEndsTolerated == phase # "panicked"
=============================================================================
