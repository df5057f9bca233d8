----------------------- MODULE CallsAndErrors_proofs ------------------------
(***************************************************************************)
(* Proofs about TraceFunction: that the calls and the declarations of an   *)
(* application agree when the pass is over, and that errors are captured   *)
(* at the root cause.                                                      *)
(***************************************************************************)
EXTENDS TracesReachable_proofs

-----------------------------------------------------------------------------
(* Calls and declarations agree.                                           *)

Nodes(f)    == DOMAIN app.body[f]
Calls(f, i) == DOMAIN CallsIn(app.body[f][i])

(* The activation t is past the j-th call of the i-th node.                *)
PastCall(t, i, j) ==
  \/ i < t.pc
  \/ i = t.pc /\ j < t.call /\ j \in DOMAIN app.body[t.fn][i].calls

(* No walk will come to that call of f again.                              *)
PassedCall(f, i, j) ==
  /\ f \in Started
  /\ \A k \in DOMAIN stack : stack[k].fn = f => PastCall(stack[k], i, j)

Edited(s) == txnArgs[s] # 0 \/ s \in plainArg \cup ctxWrapped

(* The call passes what its function takes.                                *)
Given(s) == app.param[app.to[s]] # "ctx" => txnArgs[s] = 1

(* A call of a function that can be reached, at its place.                 *)
ReachedAt(s, f, i, j) ==
  f \in Fn /\ CallAt(app, s, f, i, j) /\ app.to[s] \in Reachable(app)

(* Only calls of what can be reached are edited, and once; those whose     *)
(* edit cannot be made out again are met once.                             *)
EditsOK ==
  /\ \A s \in Site : Edited(s) => app.to[s] \in Reachable(app)
  /\ \A s \in Site : txnArgs[s] = 0 \/ (txnArgs[s] = 1 /\ app.param[app.to[s]] # "ctx")
  /\ \A s \in Site : s \in plainArg => txnArgs[s] = 1
  /\ \A s \in Site : s \in ctxWrapped => app.param[app.to[s]] = "ctx"
  /\ \A s \in Site, f \in Fn : \A i \in Nodes(f) : \A j \in Calls(f, i) :
       ReachedAt(s, f, i, j) =>
       /\ Repeatable(app, s, f, i) =>
            s \notin ctxWrapped /\ (txnArgs[s] = 1 => s \in plainArg)
       /\ ~Repeatable(app, s, f, i) /\ Edited(s) => PassedCall(f, i, j)

(* What walks have passed is given.                                        *)
GivenBy(t) ==
  \A i \in Nodes(t.fn) : \A j \in Calls(t.fn, i) : \A s \in Site :
    ReachedAt(s, t.fn, i, j) /\ PastCall(t, i, j) => Given(s)

AllGiven(f) ==
  \A i \in Nodes(f) : \A j \in Calls(f, i) : \A s \in Site : ReachedAt(s, f, i, j) => Given(s)

CallsGiven ==
  /\ \A k \in DOMAIN stack : GivenBy(stack[k])
  /\ \A f \in Traced \ OnStack : (f \in RootsOf(app) /\ f \in Waiting) \/ AllGiven(f)

(* The trace object is that of the declaration, and the variables of the   *)
(* literals assigned so far are known.                                     *)
CallFrames ==
  {t \in Frame : /\ t.pc > 0 => (t.obj = "ctx" <=> Handed(t) /\ app.param[t.fn] = "ctx")
                 /\ t.litVars \subseteq Callees(app, t.fn)
                 /\ \A h \in DOMAIN app.body[t.fn] :
                      h < t.pc /\ app.body[t.fn][h].kind = "litassign"
                        => app.body[t.fn][h].lit \in t.litVars}

SetupReady == SetupAbove(app) /\ stack # << >> => setupFunc # NoFn

ParamsOK == \A f \in Fn : txnParams[f] = IF app.param[f] = "ctx" THEN 0 ELSE segments[f]

CallInv == /\ SetupReady /\ ParamsOK
           /\ \/ crashed
              \/ /\ EditsOK /\ CallsGiven
                 /\ \A k \in DOMAIN stack : stack[k] \in CallFrames

LEMMA ReachableIs ==
  ASSUME app \in Apps, NEW g \in Reachable(app), g \notin RootsOf(app)
  PROVE  /\ g \in Fn /\ (g \in app.lits \/ IsDeclared(g))
         /\ g \notin app.creates \cup app.hasTxn /\ app.name[g] \notin app.inTxn
<1> DEFINE R == RootsOf(app) \cup
                {h \in Fn : /\ h \in app.lits \cup Declared(app)
                            /\ h \notin app.creates \cup app.hasTxn
                            /\ app.name[h] \notin app.inTxn}
<1>1. R \subseteq Fn
  BY ReachableClosed
<1>2. \A f \in R : Callees(app, f) \subseteq R
  BY CalleesKnown DEF Callees
<1>3. Reachable(app) \subseteq R
  <2> HIDE DEF R
  <2>1. RootsOf(app) \subseteq R
    BY DEF R
  <2> QED
    BY <1>1, <1>2, <2>1, ReachableClosed
<1> QED
  BY <1>1, <1>3, DeclaredKnown

(* Where a call stands.                                                    *)
LEMMA CallKnown ==
  ASSUME app \in Apps, NEW s, NEW f \in Fn, NEW i, NEW j, CallAt(app, s, f, i, j)
  PROVE  /\ s \in Site /\ app.to[s] \in Fn /\ i \in DOMAIN app.body[f]
         /\ i \in Nat \ {0} /\ j \in Nat \ {0} /\ app.body[f][i] \in Node
<1> DEFINE n == app.body[f][i]
<1>1. i \in DOMAIN app.body[f] /\ j \in DOMAIN CallsIn(n) /\ s = CallsIn(n)[j]
  BY DEF CallAt
<1>2. i \in Nat \ {0} /\ n \in Node
  BY <1>1, PcTyped, NodeTyped
<1>3. n.calls \in Seq(Site) /\ n.outer \in Site
  BY <1>2 DEF Node
<1>4. CASE n.kind = "golit"
  <2>1. CallsIn(n) = <<n.outer>>
    BY <1>4 DEF CallsIn
  <2>2. j = 1 /\ s = n.outer
    BY <1>1, <2>1
  <2> QED
    BY <1>1, <1>2, <1>3, <1>4, <2>2, AppTyped DEF AppType
<1>5. CASE n.kind # "golit"
  <2>1. CallsIn(n) = n.calls
    BY <1>5 DEF CallsIn
  <2>2. j \in DOMAIN n.calls /\ s = n.calls[j] /\ s \in Site /\ j \in Nat \ {0}
    BY <1>1, <1>3, <2>1
  <2> QED
    BY <1>1, <1>2, <1>5, <2>2, AppTyped DEF AppType
<1> QED
  BY <1>4, <1>5

LEMMA CallAtGo ==
  ASSUME NEW s, NEW f, NEW i, NEW j, CallAt(app, s, f, i, j), app.body[f][i].kind = "golit"
  PROVE  j = 1 /\ s = app.body[f][i].outer
<1> DEFINE q == <<app.body[f][i].outer>>
<1>1. CallsIn(app.body[f][i]) = q
  BY DEF CallsIn
<1>2. j \in DOMAIN q /\ s = q[j]
  BY <1>1 DEF CallAt
<1>3. DOMAIN q = {1} /\ q[1] = app.body[f][i].outer
  OBVIOUS
<1> QED
  BY <1>2, <1>3

LEMMA CallAtStatement ==
  ASSUME NEW s, NEW f, NEW i, NEW j, CallAt(app, s, f, i, j), app.body[f][i].kind # "golit"
  PROVE  j \in DOMAIN app.body[f][i].calls /\ s = app.body[f][i].calls[j]
<1>1. CallsIn(app.body[f][i]) = app.body[f][i].calls
  BY DEF CallsIn
<1> QED
  BY <1>1 DEF CallAt

(* The premise at one call.                                                *)
LEMMA PlainAt ==
  ASSUME app \in Apps, PlainCalls(app), NEW s, NEW f \in Fn, NEW i, NEW j,
         CallAt(app, s, f, i, j)
  PROVE  /\ app.to[s] \in Reachable(app) => f \in Reachable(app) /\ Fits(app, s, f, i, j)
         /\ app.to[s] \in app.hasTxn => app.name[app.to[s]] \in app.inTxn
         /\ app.body[f][i].kind = "go" => app.body[f][i].calls = <<app.body[f][i].outer>>
         /\ app.body[f][i].kind = "golit" => app.to[s] = app.body[f][i].lit
<1>1. /\ i \in DOMAIN app.body[f] /\ j \in DOMAIN CallsIn(app.body[f][i])
      /\ s = CallsIn(app.body[f][i])[j]
  BY DEF CallAt
<1>2. app.body[f][i].kind = "golit" => s = app.body[f][i].outer
  BY CallAtGo
<1> QED
  BY <1>1, <1>2 DEF PlainCalls

(* A call of what can be reached is not one of a root.                     *)
LEMMA ReachedIs ==
  ASSUME app \in Apps, Traceable(app), PlainCalls(app),
         NEW s, NEW f, NEW i, NEW j, ReachedAt(s, f, i, j)
  PROVE  LET g == app.to[s]
         IN  /\ g \in Fn /\ g \notin RootsOf(app) /\ (g \in app.lits \/ IsDeclared(g))
             /\ g \notin app.creates \cup app.hasTxn /\ app.name[g] \notin app.inTxn
<1> DEFINE g == app.to[s]
           n == app.body[f][i]
<1>1. f \in Fn /\ CallAt(app, s, f, i, j) /\ g \in Reachable(app)
  BY DEF ReachedAt
<1>2. g \in Fn /\ i \in DOMAIN app.body[f]
  BY <1>1, CallKnown
<1>3. g \notin RootsOf(app)
  <2>1. CASE g \in app.lits
    BY <1>1, <2>1, DeclaredKnown, DeclaredIsNoLiteral DEF RootsOf, IsDeclared
  <2>2. CASE g \notin app.lits
    <3>1. n.kind # "golit"
      <4> SUFFICES ASSUME n.kind = "golit" PROVE FALSE
        OBVIOUS
      <4>1. g = n.lit
        BY <1>1, PlainAt
      <4> QED
        BY <1>1, <1>2, <2>2, <4>1, AppTyped, Zenon DEF WellFormed, HoldsLiteral
    <3>2. g \in Starts(app, f)
      <4>1. j \in DOMAIN app.body[f][i].calls /\ app.to[app.body[f][i].calls[j]] = g
        BY <1>1, <3>1, CallAtStatement
      <4> HIDE DEF n, g
      <4> QED
        BY <1>2, <2>2, <4>1 DEF Starts
    <3> QED
      BY <1>1, <3>2 DEF Traceable, RootsNotCalled
  <2> QED
    BY <2>1, <2>2
<1> QED
  BY <1>1, <1>3, ReachableIs

LEMMA ReachedTyped ==
  ASSUME app \in Apps, NEW s, NEW f, NEW i, NEW j, ReachedAt(s, f, i, j)
  PROVE  /\ s \in Site /\ f \in Fn /\ i \in Nodes(f) /\ j \in Calls(f, i)
         /\ i \in Nat \ {0} /\ j \in Nat \ {0} /\ app.to[s] \in Fn
<1>1. f \in Fn /\ CallAt(app, s, f, i, j)
  BY DEF ReachedAt
<1>2. s \in Site /\ i \in DOMAIN app.body[f] /\ i \in Nat \ {0} /\ j \in Nat \ {0}
      /\ app.to[s] \in Fn
  BY <1>1, CallKnown
<1> QED
  BY <1>1, <1>2 DEF CallAt, Nodes, Calls

LEMMA PlacesSteady ==
  ASSUME app' = app
  PROVE  /\ \A s, f, i, j : ReachedAt(s, f, i, j)' <=> ReachedAt(s, f, i, j)
         /\ \A s, f, i : Repeatable(app, s, f, i)' <=> Repeatable(app, s, f, i)
         /\ \A t, i, j : PastCall(t, i, j)' <=> PastCall(t, i, j)
         /\ \A f, i : Nodes(f)' = Nodes(f) /\ Calls(f, i)' = Calls(f, i)
         /\ SetupAbove(app)' <=> SetupAbove(app)
<1>1. Reachable(app)' = Reachable(app) /\ RootsOf(app)' = RootsOf(app)
  BY AppSteady
<1>2. \A s, f, i, j : CallAt(app, s, f, i, j)' <=> CallAt(app, s, f, i, j)
  BY DEF CallAt, CallsIn
<1>3. \A s, f, i, j : ReachedAt(s, f, i, j)' <=> ReachedAt(s, f, i, j)
  BY <1>1, <1>2 DEF ReachedAt
<1>4. \A s, f, i : Repeatable(app, s, f, i)' <=> Repeatable(app, s, f, i)
  BY DEF Repeatable
<1>5. \A t, i, j : PastCall(t, i, j)' <=> PastCall(t, i, j)
  BY DEF PastCall
<1>6. \A f, i : Nodes(f)' = Nodes(f) /\ Calls(f, i)' = Calls(f, i)
  BY DEF Nodes, Calls, CallsIn
<1>7. SetupAbove(app)' <=> SetupAbove(app)
  BY <1>1 DEF SetupAbove
<1> QED
  BY <1>3, <1>4, <1>5, <1>6, <1>7

LEMMA FreshPast ==
  ASSUME app \in Apps, NEW t, t.fn \in Fn, t.call = 1, t.pc \in {0, 1},
         NEW i \in Nodes(t.fn), NEW j
  PROVE  ~PastCall(t, i, j)
<1>1. i \in Nat \ {0} /\ app.body[t.fn][i] \in Node
  BY PcTyped, NodeTyped DEF Nodes
<1>2. app.body[t.fn][i].calls \in Seq(Site)
  BY <1>1 DEF Node
<1>3. ASSUME j \in DOMAIN app.body[t.fn][i].calls PROVE ~(j < 1)
  BY <1>2, <1>3
<1> QED
  BY <1>1, <1>3 DEF PastCall

LEMMA PastMoves ==
  ASSUME ShapedInv, NEW u, WalkStep(u), NEW i \in Nodes(Top.fn), NEW j
  PROVE  /\ AtNext(u) \/ AtNextCall(u) => (PastCall(Top, i, j) => PastCall(u, i, j))
         /\ AtNext(u) /\ PastCall(u, i, j) => i < Top.pc \/ i = Top.pc
         /\ AtNextCall(u) /\ PastCall(u, i, j) =>
              PastCall(Top, i, j) \/ (i = Top.pc /\ j = Top.call)
<1>1. /\ Top \in Frame /\ Top.fn \in Fn /\ app \in Apps /\ u.fn = Top.fn
      /\ Top.pc \in Nat /\ Top.call \in Nat \ {0}
  BY TopNodeTyped DEF ShapedInv, IInv, WalkStep, Walking, Continues, Same, Frame
<1>2. i \in Nat \ {0} /\ app.body[Top.fn][i] \in Node
  BY <1>1, PcTyped, NodeTyped DEF Nodes
<1>3. app.body[Top.fn][i].calls \in Seq(Site)
  BY <1>2 DEF Node
<1> DEFINE c == app.body[Top.fn][i].calls
<1>4. j \in DOMAIN c => j \in Nat \ {0}
  <2>1. c \in Seq(Site)
    BY <1>3
  <2> HIDE DEF c
  <2> QED
    BY <2>1
<1>5. CASE AtNext(u)
  <2>1. u.pc = Top.pc + 1 /\ u.call = 1
    BY <1>5 DEF AtNext
  <2>2. PastCall(u, i, j) => i < u.pc
    BY <1>1, <1>4, <2>1 DEF PastCall
  <2>3. ~AtNextCall(u)
    BY <1>1, <2>1 DEF AtNextCall
  <2>4. PastCall(Top, i, j) => i < Top.pc \/ i = Top.pc
    BY DEF PastCall
  <2>5. i < u.pc => PastCall(u, i, j)
    BY DEF PastCall
  <2>6. i < u.pc <=> (i < Top.pc \/ i = Top.pc)
    BY <1>1, <1>2, <2>1
  <2> QED
    BY <2>2, <2>3, <2>4, <2>5, <2>6
<1>6. CASE AtNextCall(u)
  <2>1. u.pc = Top.pc /\ u.call = Top.call + 1
    BY <1>6 DEF AtNextCall
  <2>2. ~AtNext(u)
    BY <1>1, <2>1 DEF AtNext
  <2> QED
    BY <1>1, <1>4, <2>1, <2>2 DEF PastCall
<1> QED
  BY <1>5, <1>6

(* A call that is passed is left behind for good.                          *)
LEMMA PassedCallKept ==
  ASSUME ShapedInv, OnceInv, Acyclic(app), [Next]_vars,
         NEW f \in Fn, NEW i \in Nodes(f), NEW j, PassedCall(f, i, j)
  PROVE  PassedCall(f, i, j)'
<1>0. /\ app' = app /\ app \in Apps /\ f \in Started /\ f \in Started'
  BY WaitingShrinks, StartedGrows DEF PassedCall, ShapedInv, IInv
<1>1. ASSUME NEW k \in DOMAIN stack', stack'[k].fn = f
      PROVE  PastCall(stack'[k], i, j)
  <2>1. CASE StaysAt(k)
    <3>1. k \in DOMAIN stack /\ stack[k].fn = f /\ PastCall(stack[k], i, j)
      BY <1>1, <2>1 DEF StaysAt, PassedCall
    <3>2. CASE stack'[k] = stack[k]
      BY <3>1, <3>2
    <3>3. CASE stack[k] = Top /\ BeginFunction
      <4>1. Top.pc = 0 /\ i \in Nat \ {0}
        BY <1>0, <3>3, PcTyped DEF BeginFunction, Nodes
      <4> QED
        BY <3>1, <3>3, <4>1 DEF PastCall
    <3>4. ASSUME NEW u, WalkStep(u), stack'[k] = u, stack' # stack, stack[k] = Top
          PROVE  PastCall(stack'[k], i, j)
      <4>1. AtNext(u) \/ AtNextCall(u)
        BY <3>4 DEF WalkStep, StackStep, PassesNode, PassesCall, Begins
      <4> QED
        BY <3>1, <3>4, <4>1, PastMoves
    <3> QED
      BY <2>1, <3>2, <3>3, <3>4 DEF StaysAt, MovesAt
  <2>2. CASE RootAt(k)
    <3>1. stack' # << >>
      BY <1>1
    <3> QED
      BY <1>0, <1>1, <2>2, <3>1, RootNotStarted DEF RootAt
  <2>3. CASE BegunAt(k)
    BY <1>0, <1>1, <2>3, BegunNotStarted DEF BegunAt
  <2> QED
    BY <2>1, <2>2, <2>3, FramesCome
<1>2. \A t : PastCall(t, i, j)' <=> PastCall(t, i, j)
  BY <1>0, PlacesSteady
<1> QED
  BY <1>0, <1>1, <1>2 DEF PassedCall

(* The walk hands the transaction to the call s, or comes to no call of    *)
(* what can be reached.                                                    *)
HandsTo(u, s) ==
  /\ \/ TopNode.kind \in {"go", "golit"} /\ AddToCall(Top, s, TRUE)
     \/ TopNode.kind \notin {"go", "golit"} /\ AddToCall(Top, s, FALSE)
  /\ \E j : /\ ReachedAt(s, Top.fn, Top.pc, j)
            /\ ~PastCall(Top, Top.pc, j) /\ PastCall(u, Top.pc, j)
            /\ \A r, i, l : ReachedAt(r, Top.fn, i, l) /\ PastCall(u, i, l) =>
                              PastCall(Top, i, l) \/ r = s

HandsNo(u) ==
  /\ UNCHANGED callText
  /\ \A r, i, l : ReachedAt(r, Top.fn, i, l) /\ PastCall(u, i, l) => PastCall(Top, i, l)

CallStep(u) == /\ WalkStep(u) /\ u \in CallFrames
               /\ HandsNo(u) \/ \E s \in Site : HandsTo(u, s)

(* What has been proved before, and the conditions on the application.     *)
Context == /\ ShapedInv /\ AgentInv /\ SetupInv /\ TraceInv
           /\ Traceable(app) /\ PlainCalls(app)

LEMMA ContextHas ==
  ASSUME Context, Walking
  PROVE  /\ ShapedInv /\ IInv /\ ShapeInv /\ TablesNamed /\ app \in Apps /\ NamesUnique(app)
         /\ PlainStatements(app) /\ SetupFirst(app) /\ Rooted /\ MarksOK /\ AgentInv /\ SetupInv
         /\ Traceable(app) /\ PlainCalls(app)
         /\ Top \in Frame /\ Top.fn \in Fn /\ Top.fn \in Reachable(app)
         /\ Top.pc \in DOMAIN app.body[Top.fn] /\ TopNode = app.body[Top.fn][Top.pc]
         /\ Top.pc \in Nat \ {0} /\ TopNode \in Node
         /\ stack # << >> /\ Len(stack) \in DOMAIN stack /\ Top = stack[Len(stack)]
         /\ Top.kind = "main" <=> Top.fn \in app.mains
<1>1. /\ ShapedInv /\ IInv /\ ShapeInv /\ TablesNamed /\ app \in Apps /\ NamesUnique(app)
      /\ PlainStatements(app) /\ SetupFirst(app) /\ Rooted /\ MarksOK /\ AgentInv /\ SetupInv
      /\ Traceable(app) /\ PlainCalls(app) /\ Sound
  BY DEF Context, ShapedInv, ShapeInv, IInv, Traceable, TraceInv
<1>2. stack # << >> /\ Top.pc \in DOMAIN app.body[Top.fn]
  BY DEF Walking, Running
<1>3. /\ Top \in RootedFrames /\ Top \in Frame /\ Top.fn \in Fn /\ Top.fn \in OnStack
      /\ Len(stack) \in DOMAIN stack /\ Top = stack[Len(stack)]
  BY <1>1, <1>2, TopKnown
<1>4. Top.pc \in Nat \ {0} /\ TopNode \in Node
  BY <1>1, <1>2, <1>3, PcTyped, TopNodeTyped
<1>5. Top.fn \in Reachable(app)
  BY <1>1, <1>3 DEF Sound
<1>6. Top.kind = "main" <=> Top.fn \in app.mains
  BY <1>3 DEF RootedFrames
<1> QED
  BY <1>1, <1>2, <1>3, <1>4, <1>5, <1>6 DEF TopNode

(* The call that is looked at, in its place.                               *)
LEMMA TopCallAt ==
  ASSUME Context, Walking, Top.call \in DOMAIN TopNode.calls, TopNode.kind # "golit"
  PROVE  /\ CallAt(app, TopCall, Top.fn, Top.pc, Top.call)
         /\ TopCall \in Site /\ app.to[TopCall] \in Fn
         /\ ~PastCall(Top, Top.pc, Top.call)
         /\ app.to[TopCall] \notin app.lits => app.to[TopCall] \in Starts(app, Top.fn)
<1>1. /\ app \in Apps /\ Top.fn \in Fn /\ Top.pc \in DOMAIN app.body[Top.fn]
      /\ TopNode = app.body[Top.fn][Top.pc] /\ Top \in Frame
  BY ContextHas
<1>2. CallsIn(TopNode) = TopNode.calls
  BY DEF CallsIn
<1>3. CallAt(app, TopCall, Top.fn, Top.pc, Top.call)
  BY <1>1, <1>2 DEF CallAt, TopCall
<1>4. TopCall \in Site /\ app.to[TopCall] \in Fn
  BY <1>1, <1>3, CallKnown
<1>5. ~PastCall(Top, Top.pc, Top.call)
  BY <1>1 DEF PastCall, Frame
<1>6. ASSUME app.to[TopCall] \notin app.lits PROVE app.to[TopCall] \in Starts(app, Top.fn)
  <2>1. TopCall = app.body[Top.fn][Top.pc].calls[Top.call]
    BY <1>1 DEF TopCall
  <2> QED
    BY <1>1, <1>4, <1>6, <2>1 DEF Starts
<1> QED
  BY <1>3, <1>4, <1>5, <1>6

(* A call that is handed the transaction calls what can be reached.        *)
LEMMA HandedReached ==
  ASSUME Context, Walking, Top \in CallFrames, Top.call \in DOMAIN TopNode.calls,
         IsInvocation(Top, TopCall),
         \/ IsStmt /\ ~Excluded(TopCall)
         \/ TopNode.kind = "go" /\ Top.kind # "main"
  PROVE  ReachedAt(TopCall, Top.fn, Top.pc, Top.call)
<1> DEFINE s == TopCall
           h == app.to[s]
<1>0. /\ ShapedInv /\ IInv /\ TablesNamed /\ app \in Apps /\ NamesUnique(app)
      /\ PlainStatements(app) /\ SetupFirst(app) /\ SetupInv /\ PlainCalls(app)
      /\ Top.fn \in Fn /\ Top.fn \in Reachable(app)
      /\ Top.pc \in DOMAIN app.body[Top.fn] /\ TopNode = app.body[Top.fn][Top.pc]
      /\ Len(stack) \in DOMAIN stack /\ Top = stack[Len(stack)]
      /\ Top.kind = "main" <=> Top.fn \in app.mains
  BY ContextHas
<1>1. /\ CallAt(app, s, Top.fn, Top.pc, Top.call) /\ s \in Site /\ h \in Fn
      /\ h \notin app.lits => h \in Starts(app, Top.fn)
  BY TopCallAt DEF IsStmt
<1> SUFFICES h \in Callees(app, Top.fn)
  BY <1>0, <1>1, ReachableClosed DEF ReachedAt
<1>2. CASE h \in app.lits
  BY <1>2 DEF IsInvocation, CallFrames
<1>3. CASE h \notin app.lits
  <2>1. h = InvDecl(s) /\ IsDeclared(h)
    BY <1>0, <1>1, <1>3, ResolvesTo DEF IsInvocation
  <2>2. app.name[h] \notin app.inTxn
    <3>1. CASE IsStmt /\ ~Excluded(s)
      BY <1>3, <3>1 DEF Excluded
    <3>2. CASE TopNode.kind = "go"
      BY <1>0, <3>2 DEF PlainStatements, TopCall
    <3> QED
      BY <3>1, <3>2
  <2>3. h \notin app.hasTxn
    BY <1>0, <1>1, <2>2, PlainAt
  <2>4. ASSUME h \in app.creates PROVE FALSE
    <3>1. PICK R \in SUBSET Fn : Separates(app, h, R) /\ SetupSafe(h, R)
      BY <1>0, <2>4 DEF SetupFirst, SetupInv
    <3>2. h \notin R /\ \A f \in R : Starts(app, f) \subseteq R
      BY <3>1 DEF Separates
    <3>3. setupFunc = h
      BY <1>0, <1>1, <1>3, <3>1, <3>2 DEF SetupSafe
    <3>4. TopNode.kind = "go"
      BY <2>1, <3>3 DEF Excluded
    <3>5. ~LooksUp(app, TopNode, Top.call, h)
      BY <1>0, <2>4, <3>4 DEF SetupFirst
    <3> QED
      BY <1>3, <3>5 DEF LooksUp, TopCall
  <2>5. h \in {app.to[TopNode.calls[j]] : j \in DOMAIN TopNode.calls}
    BY DEF TopCall
  <2>6. ~(Top.fn \in app.mains /\ TopNode.kind \in {"go", "golit"})
    BY <1>0 DEF IsStmt
  <2> HIDE DEF s, h
  <2>7. h \in Carried(app, Top.fn, TopNode)
    BY <1>3, <2>5, <2>6, Zenon DEF Carried
  <2>8. h \in Declared(app)
    BY <1>0, <1>1, <2>1, DeclaredKnown
  <2> QED
    BY <1>0, <2>2, <2>3, <2>4, <2>7, <2>8, Zenon DEF Callees
<1> QED
  BY <1>2, <1>3

(* A call that is passed over does not.                                    *)
LEMMA PassedOverNotReached ==
  ASSUME Context, Walking, Top \in CallFrames, SetupReady,
         Top.call \in DOMAIN TopNode.calls,
         \/ IsStmt /\ (IsInvocation(Top, TopCall) => Excluded(TopCall))
         \/ TopNode.kind = "go" /\ ~IsInvocation(Top, TopCall)
  PROVE  app.to[TopCall] \notin Reachable(app)
<1> DEFINE s == TopCall
           h == app.to[s]
           i == Top.pc
           f == Top.fn
<1>0. /\ ShapedInv /\ IInv /\ TablesNamed /\ app \in Apps /\ NamesUnique(app)
      /\ AgentInv /\ PlainCalls(app) /\ Traceable(app)
      /\ f \in Fn /\ i \in DOMAIN app.body[f] /\ TopNode = app.body[f][i]
      /\ i \in Nat \ {0} /\ stack # << >>
  BY ContextHas
<1>1. CallAt(app, s, f, i, Top.call) /\ s \in Site
  BY TopCallAt DEF IsStmt
<1> SUFFICES ASSUME h \in Reachable(app) PROVE FALSE
  OBVIOUS
<1>2. /\ h \in Fn /\ (h \in app.lits \/ IsDeclared(h))
      /\ h \notin app.creates \cup app.hasTxn /\ app.name[h] \notin app.inTxn
  BY <1>0, <1>1, ReachedIs DEF ReachedAt
<1>3. Fits(app, s, f, i, Top.call)
  BY <1>0, <1>1, PlainAt
<1>4. CASE h \in app.lits
  <2>1. TopNode.kind # "golit"
    BY DEF IsStmt
  <2>2. SetupAbove(app) /\ \E e \in 1 .. i - 1 : /\ app.body[f][e].kind = "litassign"
                                                 /\ app.body[f][e].lit = h
    BY <1>0, <1>3, <1>4, <2>1 DEF Fits
  <2>3. PICK e \in 1 .. i - 1 : app.body[f][e].kind = "litassign" /\ app.body[f][e].lit = h
    BY <2>2
  <2>4. e \in DOMAIN app.body[f] /\ e < i
    <3>1. app.body[f] \in Seq(Node)
      BY <1>0, AppTyped DEF AppType
    <3> DEFINE B == app.body[f]
    <3>2. DOMAIN B = 1 .. Len(B) /\ Len(B) \in Nat /\ i \in 1 .. Len(B)
      BY <1>0, <3>1
    <3> HIDE DEF B
    <3>3. e \in DOMAIN B /\ e < i
      BY <1>0, <3>2
    <3> QED
      BY <3>3 DEF B
  <2>5. h \in Top.litVars
    BY <2>3, <2>4 DEF CallFrames
  <2>6. IsInvocation(Top, s)
    BY <1>4, <2>5 DEF IsInvocation
  <2>7. ~Excluded(s)
    BY <1>0, <1>4, <2>2 DEF Excluded, InvDecl, SetupReady
  <2> QED
    BY <2>6, <2>7
<1>5. CASE h \notin app.lits
  <2>1. InvDecl(s) # NoFn
    BY <1>0, <1>2, <1>5 DEF TablesNamed, InvDecl
  <2>2. InvDecl(s) = h
    BY <1>0, <1>1, <2>1, ResolvesTo
  <2>3. IsInvocation(Top, s)
    BY <1>5, <2>1 DEF IsInvocation
  <2>4. setupFunc # h
    BY <1>0, <1>2, <2>1, <2>2 DEF AgentInv
  <2>5. ~Excluded(s)
    BY <1>2, <2>2, <2>4 DEF Excluded
  <2> QED
    BY <2>3, <2>5
<1> QED
  BY <1>4, <1>5

LEMMA CallFrameOn ==
  ASSUME Context, Walking, Top \in CallFrames, NEW u, WalkStep(u),
         AtNext(u) \/ AtNextCall(u), u.litVars = Top.litVars, TopNode.kind # "litassign"
  PROVE  u \in CallFrames
<1>1. /\ app \in Apps /\ Top.fn \in Fn /\ Top.pc \in DOMAIN app.body[Top.fn]
      /\ TopNode = app.body[Top.fn][Top.pc] /\ Top.pc \in Nat \ {0}
  BY ContextHas
<1>2. /\ u \in Frame /\ u.fn = Top.fn /\ u.kind = Top.kind /\ u.obj = Top.obj
      /\ u.pc \in {Top.pc, Top.pc + 1}
  BY DEF WalkStep, Continues, Same
<1>3. u.obj = "ctx" <=> Handed(u) /\ app.param[u.fn] = "ctx"
  BY <1>1, <1>2 DEF CallFrames, Handed
<1>4. ASSUME NEW h \in DOMAIN app.body[u.fn], h < u.pc, app.body[u.fn][h].kind = "litassign"
      PROVE  app.body[u.fn][h].lit \in u.litVars
  <2>1. h \in Nat \ {0}
    BY <1>1, <1>2, PcTyped
  <2>2. h < Top.pc \/ h = Top.pc
    BY <1>1, <1>2, <1>4, <2>1
  <2>3. h < Top.pc
    BY <1>1, <1>2, <1>4, <2>2
  <2> QED
    BY <1>2, <1>4, <2>3 DEF CallFrames
<1> QED
  BY <1>2, <1>3, <1>4 DEF CallFrames

(* A node is left when the calls in it have been passed.                   *)
LEMMA NodeDone ==
  ASSUME Context, NEW u, WalkStep(u), AtNext(u),
         \/ Top.kind = "main" /\ TopNode.kind \in {"go", "golit"}
         \/ TopNode.kind # "golit" /\ Top.call \notin DOMAIN TopNode.calls,
         NEW r, NEW i, NEW l, ReachedAt(r, Top.fn, i, l), PastCall(u, i, l)
  PROVE  PastCall(Top, i, l)
<1>1. /\ ShapedInv /\ app \in Apps /\ Top.fn \in Fn /\ Top.pc \in DOMAIN app.body[Top.fn]
      /\ TopNode = app.body[Top.fn][Top.pc] /\ Top \in Frame /\ PlainCalls(app)
      /\ Top.kind = "main" <=> Top.fn \in app.mains
  BY ContextHas DEF WalkStep
<1>2. /\ i \in Nodes(Top.fn) /\ CallAt(app, r, Top.fn, i, l) /\ app.to[r] \in Reachable(app)
  BY <1>1, ReachedTyped DEF ReachedAt
<1>3. i < Top.pc \/ i = Top.pc
  BY <1>1, <1>2, PastMoves
<1>4. CASE i < Top.pc
  BY <1>4 DEF PastCall
<1>5. CASE i = Top.pc
  <2>1. Fits(app, r, Top.fn, i, l)
    BY <1>1, <1>2, PlainAt
  <2>2. TopNode.kind # "golit" /\ Top.call \notin DOMAIN TopNode.calls
    BY <1>1, <1>5, <2>1 DEF Fits
  <2>3. l \in DOMAIN TopNode.calls
    BY <1>1, <1>2, <1>5, <2>2, CallAtStatement
  <2>4. TopNode.calls \in Seq(Site) /\ Top.call \in Nat \ {0}
    <3>1. TopNode \in Node
      BY ContextHas DEF WalkStep
    <3> QED
      BY <1>1, <3>1 DEF Node, Frame
  <2>5. l < Top.call
    BY <2>2, <2>3, <2>4
  <2> QED
    BY <1>1, <1>5, <2>3, <2>5 DEF PastCall
<1> QED
  BY <1>3, <1>4, <1>5

LEMMA CallDone ==
  ASSUME Context, NEW u, WalkStep(u), AtNextCall(u), TopNode.kind # "golit",
         NEW r, NEW i, NEW l, ReachedAt(r, Top.fn, i, l), PastCall(u, i, l)
  PROVE  PastCall(Top, i, l) \/ r = TopCall
<1>1. /\ ShapedInv /\ app \in Apps /\ Top.fn \in Fn
      /\ TopNode = app.body[Top.fn][Top.pc]
  BY ContextHas DEF WalkStep
<1>2. i \in Nodes(Top.fn) /\ CallAt(app, r, Top.fn, i, l)
  BY <1>1, ReachedTyped DEF ReachedAt
<1>3. PastCall(Top, i, l) \/ (i = Top.pc /\ l = Top.call)
  BY <1>1, <1>2, PastMoves
<1>4. CASE i = Top.pc /\ l = Top.call
  <2>1. r = app.body[Top.fn][i].calls[l]
    BY <1>1, <1>2, <1>4, CallAtStatement
  <2> QED
    BY <1>1, <1>4, <2>1 DEF TopCall
<1> QED
  BY <1>3, <1>4

LEMMA CallSkips ==
  ASSUME Context, Top \in CallFrames, SetupReady,
         SkipGoInMain \/ FinishGo \/ SkipCall \/ FinishStatement
  PROVE  \E u : CallStep(u)
<1>0. Walking /\ callText' = callText
  BY DEF SkipGoInMain, FinishGo, SkipCall, Skipped, HasCall, FinishStatement, callText
<1>1. IInv /\ Top \in Frame
  BY <1>0, ContextHas
<1>2. ASSUME NEW u, WalkStep(u), AtNext(u), u.litVars = Top.litVars,
             \/ Top.kind = "main" /\ TopNode.kind \in {"go", "golit"}
             \/ TopNode.kind # "golit" /\ Top.call \notin DOMAIN TopNode.calls,
             TopNode.kind # "litassign"
      PROVE  CallStep(u)
  BY <1>0, <1>2, NodeDone, CallFrameOn DEF CallStep, HandsNo, callText
<1>3. CASE SkipGoInMain \/ FinishGo
  <2> DEFINE u == NextNode(Top)
  <2>1. WalkStep(u)
    BY <1>1, <1>3, SkipGoInMainWalks, FinishGoWalks
  <2>2. AtNext(u) /\ u.litVars = Top.litVars
    BY <1>1, NextNodeContinues DEF AtNext
  <2>3. \/ Top.kind = "main" /\ TopNode.kind \in {"go", "golit"}
        \/ TopNode.kind = "go" /\ Top.call \notin DOMAIN TopNode.calls
    BY <1>3 DEF SkipGoInMain, FinishGo
  <2> HIDE DEF u
  <2> QED
    BY <1>2, <2>1, <2>2, <2>3
<1>4. CASE FinishStatement
  <2>1. WalkStep(StatementFrame)
    BY <1>1, <1>4, FinishStatementWalks
  <2>2. AtNext(StatementFrame) /\ StatementFrame.litVars = Top.litVars
    BY <1>1, StatementFrameContinues DEF AtNext
  <2>3. IsStmt /\ Top.call \notin DOMAIN TopNode.calls
    BY <1>4 DEF FinishStatement
  <2> QED
    BY <1>2, <2>1, <2>2, <2>3 DEF IsStmt
<1>5. CASE SkipCall
  <2> DEFINE u == NextCall(Top)
  <2>1. WalkStep(u)
    BY <1>1, <1>5, SkipCallWalks
  <2>2. /\ Top.call \in DOMAIN TopNode.calls
        /\ \/ IsStmt /\ (IsInvocation(Top, TopCall) => Excluded(TopCall))
           \/ TopNode.kind = "go" /\ ~IsInvocation(Top, TopCall)
    BY <1>5 DEF SkipCall, Skipped, HasCall
  <2>3. AtNextCall(u) /\ u.litVars = Top.litVars
    BY <1>1, <2>2, NextCallContinues DEF AtNextCall
  <2>4. TopNode.kind \notin {"golit", "litassign"}
    BY <2>2 DEF IsStmt
  <2>5. app.to[TopCall] \notin Reachable(app)
    BY <1>0, <2>2, PassedOverNotReached
  <2> HIDE DEF u
  <2>6. HandsNo(u)
    BY <1>0, <2>1, <2>3, <2>4, <2>5, CallDone DEF HandsNo, ReachedAt
  <2>7. u \in CallFrames
    BY <1>0, <2>1, <2>3, <2>4, CallFrameOn
  <2> QED
    BY <2>1, <2>6, <2>7 DEF CallStep
<1> QED
  BY <1>3, <1>4, <1>5

LEMMA CallLiteralAssignment ==
  ASSUME Context, Top \in CallFrames, TraceLiteralAssignment
  PROVE  \E u : CallStep(u)
<1> DEFINE t == [Top EXCEPT !.litVars = @ \cup {TopNode.lit}]
           u == NextNode(t)
<1>0. Walking /\ callText' = callText /\ TopNode.kind = "litassign"
  BY DEF TraceLiteralAssignment
<1>1. /\ IInv /\ Top \in Frame /\ Top.fn \in Fn /\ app \in Apps /\ PlainStatements(app)
      /\ Top.pc \in DOMAIN app.body[Top.fn] /\ TopNode = app.body[Top.fn][Top.pc]
      /\ Top.pc \in Nat \ {0} /\ Rooted /\ MarksOK
  BY <1>0, ContextHas
<1>2. WalkStep(u)
  BY <1>1, TraceLiteralAssignmentWalks
<1>3. TopNode.lit \in Fn
  BY <1>0, <1>1, TopNodeTyped
<1>4. t \in Frame /\ t.pc = Top.pc /\ t.litVars = Top.litVars \cup {TopNode.lit}
  BY <1>1, <1>3 DEF Frame
<1> HIDE DEF t
<1>5. /\ AtNext(u) /\ u.litVars = Top.litVars \cup {TopNode.lit} /\ u \in Frame
  BY <1>4, NextNodeContinues DEF AtNext, Continues
<1>6. u.fn = Top.fn /\ u.kind = Top.kind /\ u.obj = Top.obj
  BY <1>2 DEF WalkStep, Continues, Same
<1> HIDE DEF u
<1>7. Begins(u, TopNode.lit, "lit")
  BY <1>0, <1>5 DEF Begins, HoldsLiteral, LeftAlone
<1>8. TopNode.lit \in Callees(app, Top.fn)
  BY <1>1, <1>2, <1>3, <1>7, BegunReachable DEF Context
<1>9. HandsNo(u)
  <2>1. TopNode.calls = << >>
    BY <1>0, <1>1 DEF PlainStatements, HoldsLiteral
  <2>2. Top.call \notin DOMAIN TopNode.calls
    BY <2>1
  <2> QED
    BY <1>0, <1>2, <1>5, <2>2, NodeDone DEF HandsNo, callText
<1>10. u \in CallFrames
  <2>1. u.pc = Top.pc + 1
    BY <1>5 DEF AtNext
  <2>2. u.obj = "ctx" <=> Handed(u) /\ app.param[u.fn] = "ctx"
    BY <1>1, <1>6 DEF CallFrames, Handed
  <2>3. u.litVars \subseteq Callees(app, u.fn)
    BY <1>5, <1>6, <1>8 DEF CallFrames
  <2>4. ASSUME NEW h \in DOMAIN app.body[u.fn], h < u.pc, app.body[u.fn][h].kind = "litassign"
        PROVE  app.body[u.fn][h].lit \in u.litVars
    <3>1. h \in Nat \ {0}
      BY <1>1, <1>6, PcTyped
    <3>2. h < Top.pc \/ h = Top.pc
      BY <1>1, <2>1, <2>4, <3>1
    <3>3. CASE h = Top.pc
      BY <1>1, <1>5, <1>6, <3>3
    <3>4. CASE h < Top.pc
      BY <1>5, <1>6, <2>4, <3>4 DEF CallFrames
    <3> QED
      BY <3>2, <3>3, <3>4
  <2> QED
    BY <1>5, <2>2, <2>3, <2>4 DEF CallFrames
<1> QED
  BY <1>2, <1>9, <1>10 DEF CallStep

LEMMA CallGoLiteral ==
  ASSUME Context, Top \in CallFrames, TraceGoLiteral
  PROVE  \E u : CallStep(u)
<1> DEFINE s == TopNode.outer
           t == AfterCall(Top, s, TRUE)
           u == NextNode(t)
<1>0. Walking /\ AddToCall(Top, s, TRUE) /\ TopNode.kind = "golit" /\ Top.kind # "main"
  BY DEF TraceGoLiteral
<1>1. /\ ShapedInv /\ IInv /\ Top \in Frame /\ Top.fn \in Fn /\ app \in Apps /\ PlainStatements(app)
      /\ Top.pc \in DOMAIN app.body[Top.fn] /\ TopNode = app.body[Top.fn][Top.pc]
      /\ Top.pc \in Nat \ {0} /\ Rooted /\ MarksOK /\ PlainCalls(app)
      /\ Top.fn \in Reachable(app)
  BY <1>0, ContextHas
<1>2. WalkStep(u)
  BY <1>1, TraceGoLiteralWalks
<1>3. t \in Frame /\ t.pc = Top.pc /\ t.litVars = Top.litVars
  <2>1. Continues(t, Top)
    BY <1>1, AfterCallContinues, ZenonT(60)
  <2>2. t.pc = Top.pc /\ t.litVars = Top.litVars
    BY <1>1 DEF AfterCall, Frame
  <2> QED
    BY <2>1, <2>2, Zenon DEF Continues
<1> HIDE DEF t
<1>4. AtNext(u) /\ u.litVars = Top.litVars
  BY <1>3, NextNodeContinues DEF AtNext
<1> HIDE DEF u
<1>5. TopNode.lit \in Fn /\ s \in Site
  BY <1>0, <1>1, TopNodeTyped
<1>6. Begins(u, TopNode.lit, "lit")
  BY <1>0, <1>4 DEF Begins, HoldsLiteral, LeftAlone
<1>7. TopNode.lit \in Reachable(app)
  <2>1. TopNode.lit \in Callees(app, Top.fn)
    BY <1>1, <1>2, <1>5, <1>6, BegunReachable DEF Context
  <2> QED
    BY <1>1, <2>1, ReachableClosed
<1>8. ReachedAt(s, Top.fn, Top.pc, 1)
  <2>1. CallsIn(TopNode) = <<s>>
    BY <1>0 DEF CallsIn
  <2> DEFINE q == <<s>>
  <2>2. 1 \in DOMAIN q /\ q[1] = s
    OBVIOUS
  <2>3. CallAt(app, s, Top.fn, Top.pc, 1)
    BY <1>1, <2>1, <2>2 DEF CallAt
  <2>4. app.to[s] = TopNode.lit
    BY <1>0, <1>1, Zenon DEF PlainCalls
  <2> QED
    BY <1>1, <1>7, <2>3, <2>4 DEF ReachedAt
<1>9. ~PastCall(Top, Top.pc, 1)
  <2>1. TopNode.calls = << >>
    BY <1>0, <1>1 DEF PlainStatements, HoldsLiteral
  <2>2. 1 \notin DOMAIN TopNode.calls
    BY <2>1
  <2> QED
    BY <1>1, <2>2 DEF PastCall
<1>10. PastCall(u, Top.pc, 1)
  BY <1>1, <1>4 DEF PastCall, AtNext
<1>11. ASSUME NEW r, NEW i, NEW l, ReachedAt(r, Top.fn, i, l), PastCall(u, i, l)
       PROVE  PastCall(Top, i, l) \/ r = s
  <2>1. i \in Nodes(Top.fn) /\ CallAt(app, r, Top.fn, i, l)
    BY <1>1, <1>11, ReachedTyped DEF ReachedAt
  <2>2. i < Top.pc \/ i = Top.pc
    BY <1>1, <1>2, <1>4, <1>11, <2>1, PastMoves
  <2>3. i = Top.pc => r = s
    BY <1>0, <1>1, <2>1, CallAtGo
  <2> QED
    BY <2>2, <2>3 DEF PastCall
<1>12. HandsTo(u, s)
  BY <1>0, <1>8, <1>9, <1>10, <1>11 DEF HandsTo
<1>13. u \in CallFrames
  BY <1>0, <1>2, <1>4, CallFrameOn
<1> QED
  BY <1>2, <1>5, <1>12, <1>13 DEF CallStep

(* The step hands the transaction to the call that is looked at.           *)
LEMMA CallHands ==
  ASSUME Context, Top \in CallFrames, NEW u, WalkStep(u), AtNextCall(u),
         u.litVars = Top.litVars, IsInvocation(Top, TopCall),
         \/ IsStmt /\ ~Excluded(TopCall) /\ AddToCall(Top, TopCall, FALSE)
         \/ TopNode.kind = "go" /\ Top.kind # "main" /\ AddToCall(Top, TopCall, TRUE)
  PROVE  CallStep(u)
<1>0. /\ Walking /\ Top.call \in DOMAIN TopNode.calls
      /\ TopNode.kind \notin {"golit", "litassign"}
      /\ TopNode.kind \in {"go", "golit"} <=> ~IsStmt
  BY DEF WalkStep, AtNextCall, IsStmt
<1>1. ReachedAt(TopCall, Top.fn, Top.pc, Top.call)
  BY <1>0, HandedReached
<1>2. ~PastCall(Top, Top.pc, Top.call) /\ TopCall \in Site
  BY <1>0, TopCallAt
<1>3. PastCall(u, Top.pc, Top.call)
  <2>1. Top \in Frame /\ u.fn = Top.fn /\ TopNode = app.body[Top.fn][Top.pc]
    BY <1>0, ContextHas DEF WalkStep, Continues, Same
  <2> QED
    BY <1>0, <2>1 DEF PastCall, AtNextCall, Frame
<1>4. \A r, i, l : ReachedAt(r, Top.fn, i, l) /\ PastCall(u, i, l) =>
        PastCall(Top, i, l) \/ r = TopCall
  BY <1>0, CallDone
<1>5. HandsTo(u, TopCall)
  BY <1>0, <1>1, <1>2, <1>3, <1>4 DEF HandsTo
<1>6. u \in CallFrames
  BY <1>0, CallFrameOn
<1> QED
  BY <1>2, <1>5, <1>6 DEF CallStep

LEMMA CallCalls ==
  ASSUME Context, Top \in CallFrames, TraceGoCall \/ TraceCall
  PROVE  \E u : CallStep(u)
<1>0. /\ Walking /\ Top.call \in DOMAIN TopNode.calls /\ IsInvocation(Top, TopCall)
  BY DEF TraceGoCall, TraceCall, HasCall
<1>1. /\ IInv /\ Top \in Frame /\ app \in Apps /\ Top.fn \in Fn /\ PlainCalls(app)
      /\ Top.pc \in DOMAIN app.body[Top.fn] /\ TopNode = app.body[Top.fn][Top.pc]
  BY <1>0, ContextHas
<1>2. CASE TraceGoCall
  <2> DEFINE s == TopNode.outer
             t == AfterCall(Top, s, TRUE)
             u == NextCall(t)
  <2>1. /\ AddToCall(Top, s, TRUE) /\ TopNode.kind = "go" /\ Top.kind # "main"
    BY <1>2 DEF TraceGoCall
  <2>2. TopCall = s
    <3>1. TopNode.calls = <<s>>
      BY <1>1, <2>1 DEF PlainCalls
    <3> DEFINE q == <<s>>
    <3>2. Top.call \in DOMAIN q /\ TopCall = q[Top.call]
      BY <1>0, <3>1 DEF TopCall
    <3>3. DOMAIN q = {1} /\ q[1] = s
      OBVIOUS
    <3> HIDE DEF q
    <3> QED
      BY <3>2, <3>3
  <2>3. WalkStep(u)
    BY <1>1, <1>2, TraceGoCallWalks
  <2>4. t \in Frame /\ t.pc = Top.pc /\ t.litVars = Top.litVars /\ t.call = Top.call
    <3>1. Continues(t, Top)
      BY <1>1, AfterCallContinues, ZenonT(60)
    <3>2. t.pc = Top.pc /\ t.litVars = Top.litVars
      BY <1>1 DEF AfterCall, Frame
    <3>3. t.call = Top.call
      BY <1>1, AfterCallStays, ZenonT(60)
    <3> QED
      BY <3>1, <3>2, <3>3, Zenon DEF Continues
  <2> HIDE DEF t
  <2>5. AtNextCall(u) /\ u.litVars = Top.litVars
    BY <1>0, <2>4, NextCallContinues DEF AtNextCall
  <2> HIDE DEF u
  <2>6. AddToCall(Top, TopCall, TRUE)
    BY <2>1, <2>2
  <2> QED
    BY <1>0, <2>1, <2>3, <2>5, <2>6, CallHands
<1>3. CASE TraceCall
  <2>1. WalkStep(CallerFrame)
    BY <1>1, <1>3, TraceCallWalks
  <2>2. AtNextCall(CallerFrame) /\ CallerFrame.litVars = Top.litVars
    BY <1>0, <1>1, CallFrameContinues DEF AtNextCall
  <2>3. IsStmt /\ ~Excluded(TopCall) /\ AddToCall(Top, TopCall, FALSE)
    BY <1>3 DEF TraceCall
  <2> QED
    BY <1>0, <2>1, <2>2, <2>3, CallHands
<1> QED
  BY <1>2, <1>3

(* What a step does, as far as calls are concerned.                        *)
LEMMA CallCases ==
  ASSUME Context, SetupReady, stack # << >> => Top \in CallFrames, [Next]_vars
  PROVE  \/ \E p \in Pkg : StartPackage(p)
         \/ VisitMain \/ VisitDecl
         \/ BeginFunction
         \/ \E u : CallStep(u)
         \/ EndFunction
         \/ UNCHANGED vars
<1> DEFINE Goal == \E u : CallStep(u)
<1>1. /\ SkipGoInMain \/ FinishGo \/ SkipCall \/ FinishStatement => Goal
      /\ TraceLiteralAssignment => Goal
      /\ TraceGoLiteral => Goal
      /\ TraceGoCall \/ TraceCall => Goal
  <2>1. SkipGoInMain \/ FinishGo \/ SkipCall \/ FinishStatement \/ TraceLiteralAssignment
        \/ TraceGoLiteral \/ TraceGoCall \/ TraceCall => stack # << >>
    BY DEF SkipGoInMain, FinishGo, SkipCall, Skipped, HasCall, FinishStatement,
           TraceLiteralAssignment, TraceGoLiteral, TraceGoCall, TraceCall, Walking, Running
  <2> QED
    BY <2>1, CallSkips, CallLiteralAssignment, CallGoLiteral, CallCalls
<1> HIDE DEF Goal
<1>2. \/ \E p \in Pkg : StartPackage(p)
      \/ VisitMain \/ VisitDecl
      \/ BeginFunction
      \/ Goal
      \/ EndFunction
      \/ UNCHANGED vars
  BY <1>1 DEF Next, Walk, Halt
<1> QED
  BY <1>2 DEF Goal

(* What handing over leaves of the text of the calls.                      *)
LEMMA AddToCallText ==
  ASSUME TypeOK, NEW s \in Site, NEW async \in BOOLEAN, AddToCall(Top, s, async)
  PROVE  LET how == HandOver(Top.obj, s, async)
         IN  /\ \A r \in Site \ {s} : /\ txnArgs'[r] = txnArgs[r]
                                      /\ r \in plainArg' <=> r \in plainArg
                                      /\ r \in ctxWrapped' <=> r \in ctxWrapped
             /\ txnArgs'[s] = IF how = "append" THEN txnArgs[s] + 1 ELSE txnArgs[s]
             /\ s \in plainArg' <=> s \in plainArg \/ (how = "append" /\ ~async)
             /\ s \in ctxWrapped' <=> s \in ctxWrapped \/ how = "wrap"
<1> DEFINE how == HandOver(Top.obj, s, async)
<1>1. /\ ctxWrapped' = IF how = "wrap" THEN ctxWrapped \cup {s} ELSE ctxWrapped
      /\ txnArgs' = IF how = "append" THEN [txnArgs EXCEPT ![s] = @ + 1] ELSE txnArgs
      /\ plainArg' = IF how = "append" /\ ~async THEN plainArg \cup {s} ELSE plainArg
  BY DEF AddToCall
<1>2. txnArgs \in [Site -> Nat]
  BY DEF TypeOK, TextTypeOK
<1> HIDE DEF how
<1> QED
  BY <1>1, <1>2 DEF how

(* A call that is handed the transaction passes what its function takes,   *)
(* and its edit can be made out again where it is met again.               *)
LEMMA HandedTo ==
  ASSUME Context, Walking, EditsOK, Top \in CallFrames,
         NEW u, NEW s \in Site, HandsTo(u, s)
  PROVE  LET ctx == app.param[app.to[s]] = "ctx"
         IN  /\ app.to[s] \in Reachable(app)
             /\ txnArgs'[s] = IF ctx THEN 0 ELSE 1
             /\ s \in plainArg' => ~ctx
             /\ s \in ctxWrapped' => ctx
             /\ Repeatable(app, s, Top.fn, Top.pc) =>
                  s \notin ctxWrapped' /\ (txnArgs'[s] = 1 => s \in plainArg')
<1> DEFINE f     == Top.fn
           i     == Top.pc
           ctx   == app.param[app.to[s]] = "ctx"
           async == TopNode.kind \in {"go", "golit"}
           how   == HandOver(Top.obj, s, async)
           again == Repeatable(app, s, f, i)
<1>0. /\ TypeOK /\ app \in Apps /\ f \in Fn /\ f \in OnStack /\ PlainCalls(app)
      /\ TopNode = app.body[f][i] /\ i \in DOMAIN app.body[f] /\ i \in Nat \ {0}
      /\ stack # << >> /\ Len(stack) \in DOMAIN stack /\ Top = stack[Len(stack)]
      /\ Top.obj \in {"txn", "ctx"} /\ Top \in RootedFrames
  <2>1. /\ ShapedInv /\ Rooted /\ IInv /\ app \in Apps /\ PlainCalls(app) /\ Top \in Frame
        /\ stack # << >> /\ TopNode = app.body[f][i] /\ i \in DOMAIN app.body[f]
        /\ i \in Nat \ {0}
    BY ContextHas
  <2> QED
    BY <2>1, TopKnown DEF IInv, Frame
<1>1. PICK j : ReachedAt(s, f, i, j) /\ ~PastCall(Top, i, j)
  BY DEF HandsTo
<1>2. /\ CallAt(app, s, f, i, j) /\ app.to[s] \in Reachable(app)
      /\ i \in Nodes(f) /\ j \in Calls(f, i) /\ Fits(app, s, f, i, j)
  BY <1>0, <1>1, ReachedTyped, PlainAt DEF ReachedAt
<1>3. /\ \A r \in Site \ {s} : /\ txnArgs'[r] = txnArgs[r]
                               /\ r \in plainArg' <=> r \in plainArg
                               /\ r \in ctxWrapped' <=> r \in ctxWrapped
      /\ txnArgs'[s] = IF how = "append" THEN txnArgs[s] + 1 ELSE txnArgs[s]
      /\ s \in plainArg' <=> s \in plainArg \/ (how = "append" /\ ~async)
      /\ s \in ctxWrapped' <=> s \in ctxWrapped \/ how = "wrap"
  <2>1. \/ async /\ AddToCall(Top, s, TRUE)
        \/ ~async /\ AddToCall(Top, s, FALSE)
    BY DEF HandsTo
  <2>2. async \in BOOLEAN
    OBVIOUS
  <2> HIDE DEF async
  <2>3. AddToCall(Top, s, async)
    <3>1. CASE async
      <4>1. async = TRUE
        BY <2>2, <3>1
      <4> QED
        BY <2>1, <3>1, <4>1
    <3>2. CASE ~async
      <4>1. async = FALSE
        BY <2>2, <3>2
      <4> QED
        BY <2>1, <3>2, <4>1
    <3> QED
      BY <3>1, <3>2
  <2> QED
    BY <1>0, <2>2, <2>3, AddToCallText
<1>4. Top.obj = "ctx" <=> app.param[f] = "ctx"
  <2>1. app.param[f] = "ctx" => f \notin RootsOf(app)
    BY <1>0 DEF PlainCalls, RootsOf
  <2> QED
    BY <1>0, <2>1 DEF CallFrames, RootedFrames
<1>5. /\ app.arg[s] = "none" <=> ~ctx
      /\ app.arg[s] = "expr" => app.param[f] # "ctx"
      /\ app.arg[s] \in {"none", "own", "other", "expr"}
  BY <1>0, <1>2, AppTyped DEF Fits, AppType
<1>6. /\ txnArgs[s] = 0 \/ (txnArgs[s] = 1 /\ ~ctx)
      /\ s \in plainArg => txnArgs[s] = 1
      /\ s \in ctxWrapped => ctx
  BY DEF EditsOK
<1>7. CASE again
  <2>1. ~async /\ app.arg[s] = IF app.param[f] = "ctx" THEN "own" ELSE "none"
    BY <1>0, <1>7 DEF Repeatable
  <2>2. s \notin ctxWrapped /\ (txnArgs[s] = 1 => s \in plainArg)
    BY <1>0, <1>1, <1>2, <1>7 DEF EditsOK
  <2>3. how = IF ctx THEN "pass" ELSE IF s \in plainArg THEN "keep" ELSE "append"
    BY <1>0, <1>4, <1>5, <2>1, <2>2
       DEF HandOver, TransactionHandOver, ContextHandOver
  <2> HIDE DEF how, async, ctx, again
  <2> QED
    BY <1>2, <1>3, <1>6, <2>1, <2>2, <2>3 DEF ctx
<1>8. CASE ~again
  <2>1. ~Edited(s)
    <3> SUFFICES ASSUME Edited(s) PROVE FALSE
      OBVIOUS
    <3>1. PassedCall(f, i, j)
      BY <1>0, <1>1, <1>2, <1>8 DEF EditsOK
    <3> QED
      BY <1>0, <1>1, <3>1 DEF PassedCall
  <2>2. txnArgs[s] = 0 /\ s \notin plainArg /\ s \notin ctxWrapped
    BY <2>1 DEF Edited
  <2>3. how = IF ~ctx THEN "append"
              ELSE IF app.param[f] = "ctx" /\ app.arg[s] = "own" /\ ~async
                   THEN "pass" ELSE "wrap"
    <3>1. CASE Top.obj = "ctx"
      BY <1>4, <1>5, <2>2, <3>1 DEF HandOver, ContextHandOver
    <3>2. CASE Top.obj = "txn"
      BY <1>4, <1>5, <2>2, <3>2 DEF HandOver, TransactionHandOver
    <3> QED
      BY <1>0, <3>1, <3>2
  <2> HIDE DEF how, async, ctx, again
  <2> QED
    BY <1>2, <1>3, <1>8, <2>2, <2>3 DEF ctx, again
<1> QED
  BY <1>7, <1>8

(* A call whose edit cannot be made out again stands at one place.         *)
LEMMA MetOnce ==
  ASSUME app \in Apps, PlainCalls(app), NEW s, NEW f, NEW i, NEW j, NEW g, NEW k, NEW l,
         ReachedAt(s, f, i, j), ReachedAt(s, g, k, l), ~Repeatable(app, s, f, i)
  PROVE  g = f /\ k = i /\ l = j
<1>1. /\ f \in Fn /\ g \in Fn /\ CallAt(app, s, f, i, j) /\ CallAt(app, s, g, k, l)
      /\ app.to[s] \in Reachable(app)
  BY DEF ReachedAt
<1>2. Fits(app, s, f, i, j)
  BY <1>1, PlainAt
<1>3. k \in DOMAIN app.body[g] /\ l \in DOMAIN CallsIn(app.body[g][k])
  BY <1>1 DEF CallAt
<1>4. <<g, k, l>> = <<f, i, j>>
  BY <1>1, <1>2, <1>3 DEF Fits
<1> QED
  BY <1>4

(* What the walk leaves behind is passed.                                  *)
LEMMA PassedNow ==
  ASSUME ShapedInv, OnceInv, Acyclic(app), [Next]_vars,
         NEW u, WalkStep(u), ~crashed', NEW f, f = Top.fn, NEW i, NEW j, PastCall(u, i, j)
  PROVE  PassedCall(f, i, j)'
<1> DEFINE n == Len(stack)
<1>0. IInv /\ TypeOK /\ Linked /\ app' = app
  BY WaitingShrinks DEF ShapedInv, IInv, ShapeInv
<1>1. /\ n \in Nat \ {0} /\ DOMAIN stack = 1 .. n /\ n \in 1 .. n /\ Top = stack[n]
      /\ u.fn = f
      /\ \/ DOMAIN stack' = 1 .. n /\ Below(n, u)
         \/ \E g \in Fn, k \in FrameKind :
              /\ Begins(u, g, k)
              /\ DOMAIN stack' = 1 .. n + 1 /\ Below(n, u)
              /\ stack'[n + 1] = NewFrame(g, k, currentPackage)
  BY <1>0, WalkStack
<1>2. f \in OnStack /\ f \in Started /\ f \in Started'
  <2>1. f \in OnStack
    BY <1>1 DEF OnStack
  <2> QED
    BY <2>1, StartedGrows DEF Started
<1>3. ASSUME NEW k \in 1 .. n, stack'[k].fn = f, Below(n, u)
      PROVE  stack'[k] = u
  <2>1. CASE k = n
    BY <1>3, <2>1 DEF Below
  <2>2. CASE k # n
    <3>1. stack[k].fn = stack[n].fn
      BY <1>1, <1>3, <2>2 DEF Below
    <3> QED
      BY <1>0, <1>1, <2>2, <3>1, NoCycle DEF NoReentry
  <2> QED
    BY <2>1, <2>2
<1>4. ASSUME NEW g \in Fn, NEW k, Begins(u, g, k),
             stack'[n + 1] = NewFrame(g, k, currentPackage)
      PROVE  stack'[n + 1].fn # f
  <2>1. stack'[n + 1].fn = g
    BY <1>4 DEF NewFrame
  <2> QED
    BY <1>2, <1>4, <2>1, BegunNotStarted
<1>5. ASSUME NEW k \in DOMAIN stack', stack'[k].fn = f
      PROVE  stack'[k] = u
  <2>1. CASE DOMAIN stack' = 1 .. n /\ Below(n, u)
    BY <1>3, <1>5, <2>1
  <2>2. ASSUME NEW g \in Fn, NEW kind \in FrameKind, Begins(u, g, kind),
               DOMAIN stack' = 1 .. n + 1, Below(n, u),
               stack'[n + 1] = NewFrame(g, kind, currentPackage)
        PROVE  stack'[k] = u
    <3>1. k # n + 1
      BY <1>4, <1>5, <2>2
    <3>2. k \in 1 .. n
      <4>1. k \in 1 .. n + 1 /\ n \in Nat
        BY <1>1, <1>5, <2>2
      <4> HIDE DEF n
      <4> QED
        BY <3>1, <4>1
    <3> QED
      BY <1>3, <1>5, <2>2, <3>2
  <2> QED
    BY <1>1, <2>1, <2>2
<1>6. \A t : PastCall(t, i, j)' <=> PastCall(t, i, j)
  BY <1>0, PlacesSteady
<1> QED
  BY <1>2, <1>5, <1>6 DEF PassedCall

LEMMA EditsStay ==
  ASSUME ShapedInv, OnceInv, Acyclic(app), [Next]_vars, EditsOK, UNCHANGED callText
  PROVE  EditsOK'
<1>0. app' = app /\ txnArgs' = txnArgs /\ plainArg' = plainArg /\ ctxWrapped' = ctxWrapped
  BY WaitingShrinks DEF ShapedInv, callText
<1>1. Reachable(app)' = Reachable(app) /\ \A s : Edited(s)' <=> Edited(s)
  BY <1>0, AppSteady DEF Edited
<1>2. ASSUME NEW s \in Site, NEW f \in Fn, NEW i \in Nodes(f), NEW j \in Calls(f, i),
             ReachedAt(s, f, i, j)
      PROVE  /\ Repeatable(app, s, f, i) =>
                  s \notin ctxWrapped /\ (txnArgs[s] = 1 => s \in plainArg)
             /\ ~Repeatable(app, s, f, i) /\ Edited(s) => PassedCall(f, i, j)'
  BY <1>2, PassedCallKept DEF EditsOK
<1>3. /\ \A s, f, i, j : ReachedAt(s, f, i, j)' <=> ReachedAt(s, f, i, j)
      /\ \A s, f, i : Repeatable(app, s, f, i)' <=> Repeatable(app, s, f, i)
      /\ \A f, i : Nodes(f)' = Nodes(f) /\ Calls(f, i)' = Calls(f, i)
  BY <1>0, PlacesSteady
<1>4. \A s \in Site, f \in Fn : \A i \in Nodes(f)' : \A j \in Calls(f, i)' :
        ReachedAt(s, f, i, j)' =>
        /\ Repeatable(app, s, f, i)' =>
             s \notin ctxWrapped' /\ (txnArgs'[s] = 1 => s \in plainArg')
        /\ ~Repeatable(app, s, f, i)' /\ Edited(s)' => PassedCall(f, i, j)'
  BY <1>0, <1>1, <1>2, <1>3
<1> QED
  BY <1>0, <1>1, <1>4 DEF EditsOK

LEMMA EditsKept ==
  ASSUME Context, OnceInv, Acyclic(app), [Next]_vars, EditsOK, Top \in CallFrames,
         NEW u, CallStep(u), ~crashed'
  PROVE  EditsOK'
<1>0. WalkStep(u) /\ Walking /\ ShapedInv /\ app \in Apps /\ PlainCalls(app) /\ TypeOK
  BY ContextHas DEF CallStep, WalkStep, IInv
<1>1. CASE HandsNo(u)
  BY <1>0, <1>1, EditsStay DEF HandsNo
<1>2. ASSUME NEW s \in Site, HandsTo(u, s) PROVE EditsOK'
  <2>0. app' = app /\ \A r \in Site \ {s} : /\ txnArgs'[r] = txnArgs[r]
                                            /\ r \in plainArg' <=> r \in plainArg
                                            /\ r \in ctxWrapped' <=> r \in ctxWrapped
    BY <1>0, <1>2, AddToCallText, WaitingShrinks DEF HandsTo, ShapedInv
  <2> DEFINE ctx == app.param[app.to[s]] = "ctx"
  <2>1. /\ app.to[s] \in Reachable(app)
        /\ txnArgs'[s] = IF ctx THEN 0 ELSE 1
        /\ s \in plainArg' => ~ctx
        /\ s \in ctxWrapped' => ctx
        /\ Repeatable(app, s, Top.fn, Top.pc) =>
             s \notin ctxWrapped' /\ (txnArgs'[s] = 1 => s \in plainArg')
    BY <1>0, <1>2, HandedTo
  <2>2. PICK l : ReachedAt(s, Top.fn, Top.pc, l) /\ PastCall(u, Top.pc, l)
    BY <1>2 DEF HandsTo
  <2>3. ASSUME NEW r \in Site
        PROVE  /\ Edited(r)' => app.to[r] \in Reachable(app)
               /\ txnArgs'[r] = 0 \/ (txnArgs'[r] = 1 /\ app.param[app.to[r]] # "ctx")
               /\ r \in plainArg' => txnArgs'[r] = 1
               /\ r \in ctxWrapped' => app.param[app.to[r]] = "ctx"
    <3>1. CASE r = s
      BY <2>1, <3>1
    <3>2. CASE r # s
      BY <2>0, <3>2 DEF EditsOK, Edited
    <3> QED
      BY <3>1, <3>2
  <2>4. ASSUME NEW r \in Site, NEW f \in Fn, NEW i \in Nodes(f), NEW j \in Calls(f, i),
               ReachedAt(r, f, i, j)
        PROVE  /\ Repeatable(app, r, f, i) =>
                    r \notin ctxWrapped' /\ (txnArgs'[r] = 1 => r \in plainArg')
               /\ ~Repeatable(app, r, f, i) /\ Edited(r)' => PassedCall(f, i, j)'
    <3>1. CASE r # s
      <4>1. Edited(r)' <=> Edited(r)
        BY <2>0, <3>1 DEF Edited
      <4>2. PassedCall(f, i, j) => PassedCall(f, i, j)'
        BY <1>0, PassedCallKept
      <4> QED
        BY <2>0, <2>4, <3>1, <4>1, <4>2 DEF EditsOK
    <3>2. CASE r = s /\ Repeatable(app, r, f, i)
      <4>1. Repeatable(app, s, Top.fn, Top.pc)
        <5> SUFFICES ASSUME ~Repeatable(app, s, Top.fn, Top.pc) PROVE FALSE
          OBVIOUS
        <5>1. f = Top.fn /\ i = Top.pc
          BY <1>0, <2>2, <2>4, <3>2, MetOnce
        <5> QED
          BY <3>2, <5>1
      <4> QED
        BY <2>1, <3>2, <4>1
    <3>3. CASE r = s /\ ~Repeatable(app, r, f, i)
      <4>1. Top.fn = f /\ Top.pc = i /\ l = j
        BY <1>0, <2>2, <2>4, <3>3, MetOnce
      <4>2. PastCall(u, i, j)
        BY <2>2, <4>1
      <4>3. PassedCall(f, i, j)'
        BY <1>0, <4>1, <4>2, PassedNow
      <4> QED
        BY <3>3, <4>3
    <3> QED
      BY <3>1, <3>2, <3>3
  <2>5. /\ \A r, f, i, j : ReachedAt(r, f, i, j)' <=> ReachedAt(r, f, i, j)
        /\ \A r, f, i : Repeatable(app, r, f, i)' <=> Repeatable(app, r, f, i)
        /\ \A f, i : Nodes(f)' = Nodes(f) /\ Calls(f, i)' = Calls(f, i)
        /\ Reachable(app)' = Reachable(app)
    BY <2>0, PlacesSteady, AppSteady
  <2>6. \A r \in Site, f \in Fn : \A i \in Nodes(f)' : \A j \in Calls(f, i)' :
          ReachedAt(r, f, i, j)' =>
          /\ Repeatable(app, r, f, i)' =>
               r \notin ctxWrapped' /\ (txnArgs'[r] = 1 => r \in plainArg')
          /\ ~Repeatable(app, r, f, i)' /\ Edited(r)' => PassedCall(f, i, j)'
    BY <2>4, <2>5
  <2> QED
    BY <2>0, <2>3, <2>5, <2>6 DEF EditsOK
<1> QED
  BY <1>1, <1>2 DEF CallStep

LEMMA NewCallFrame ==
  ASSUME app \in Apps, NEW f, NEW k, NEW p, NewFrame(f, k, p) \in Frame
  PROVE  LET v == NewFrame(f, k, p) IN v.pc = 0 /\ v.call = 1 /\ v \in CallFrames
<1> DEFINE v == NewFrame(f, k, p)
<1>1. v \in Frame /\ v.pc = 0 /\ v.call = 1 /\ v.litVars = {}
  BY DEF NewFrame
<1> HIDE DEF v
<1>2. v.fn \in Fn
  BY <1>1 DEF Frame
<1>3. \A h \in DOMAIN app.body[v.fn] : ~(h < v.pc)
  <2>1. \A h \in DOMAIN app.body[v.fn] : h \in Nat \ {0}
    BY <1>2, PcTyped
  <2> QED
    BY <1>1, <2>1
<1>4. ~(v.pc > 0)
  BY <1>1
<1>5. v \in CallFrames
  BY <1>1, <1>3, <1>4 DEF CallFrames
<1> QED
  BY <1>1, <1>5 DEF v

LEMMA BegunCallFrame ==
  ASSUME Context, Top \in CallFrames, BeginFunction
  PROVE  \E u \in CallFrames : stack' = SetTop(u) /\ u.pc = 1 /\ u.call = 1
<1>1. IInv /\ app \in Apps /\ stack # << >> /\ Top.pc = 0 /\ Top \in RootedFrames /\ Top.fn \in Fn
  BY TopKnown DEF Context, TraceInv, ShapedInv, IInv, BeginFunction, Running
<1>2. PICK u \in Frame :
        /\ stack' = SetTop(u) /\ Same(u, Top) /\ u.fn = Top.fn /\ u.pc = 1
        /\ u.litVars = Top.litVars /\ u.call = Top.call
        /\ u.obj = IF Handed(Top) /\ app.param[Top.fn] = "ctx" THEN "ctx" ELSE "txn"
  BY <1>1, BeginFunctionMoves
<1>3. u.call = 1 /\ u.litVars \subseteq Callees(app, u.fn)
  BY <1>1, <1>2 DEF RootedFrames, CallFrames
<1>4. u.obj = "ctx" <=> Handed(u) /\ app.param[u.fn] = "ctx"
  BY <1>2 DEF Same, Handed
<1>5. \A h \in DOMAIN app.body[u.fn] : ~(h < u.pc)
  <2>1. \A h \in DOMAIN app.body[u.fn] : h \in Nat \ {0}
    BY <1>1, <1>2, PcTyped
  <2> QED
    BY <1>2, <2>1
<1>6. u \in CallFrames
  BY <1>2, <1>3, <1>4, <1>5 DEF CallFrames
<1> QED
  BY <1>2, <1>3, <1>6

(* An activation is left as it was, has passed no call yet, or is the one  *)
(* that walks.                                                             *)
LEMMA CallFramesCome ==
  ASSUME Context, SetupReady, stack # << >> => Top \in CallFrames, [Next]_vars, ~crashed',
         NEW k \in DOMAIN stack'
  PROVE  \/ k \in DOMAIN stack /\ stack'[k] = stack[k]
         \/ stack'[k].pc \in {0, 1} /\ stack'[k].call = 1 /\ stack'[k] \in CallFrames
         \/ stack # << >> /\ \E u : CallStep(u) /\ stack'[k] = u
<1> DEFINE Goal == \/ k \in DOMAIN stack /\ stack'[k] = stack[k]
                   \/ stack'[k].pc \in {0, 1} /\ stack'[k].call = 1 /\ stack'[k] \in CallFrames
                   \/ stack # << >> /\ \E u : CallStep(u) /\ stack'[k] = u
<1>0. /\ IInv /\ ShapeInv /\ TypeOK /\ app \in Apps
      /\ \A m \in DOMAIN stack' : stack'[m] \in Frame
  <2>1. ShapedInv /\ ShapedInv'
    BY ShapedInductive DEF Context
  <2> QED
    BY <2>1 DEF ShapedInv, IInv, TypeOK, ControlTypeOK
<1>1. CASE UNCHANGED vars \/ \E p \in Pkg : StartPackage(p)
  BY <1>1 DEF StartPackage, vars
<1>2. CASE VisitMain \/ VisitDecl
  <2>1. \E f, kind : stack' = <<NewFrame(f, kind, currentPackage)>>
    BY <1>2 DEF VisitMain, VisitDecl
  <2>2. PICK f, kind : stack' = <<NewFrame(f, kind, currentPackage)>>
    BY <2>1
  <2> DEFINE v == NewFrame(f, kind, currentPackage)
  <2>3. stack'[k] = v
    <3>1. stack' = <<v>>
      BY <2>2
    <3> HIDE DEF v
    <3> QED
      BY <3>1
  <2> QED
    BY <1>0, <2>3, NewCallFrame
<1>3. CASE BeginFunction
  <2>1. stack # << >>
    BY <1>3 DEF BeginFunction, Running
  <2>2. PICK u \in CallFrames : stack' = SetTop(u) /\ u.pc = 1 /\ u.call = 1
    BY <1>3, <2>1, BegunCallFrame
  <2>3. u \in Frame
    BY DEF CallFrames
  <2>4. /\ DOMAIN stack' = DOMAIN stack
        /\ \A m \in DOMAIN stack : stack'[m] = IF m = Len(stack) THEN u ELSE stack[m]
    BY <1>0, <2>1, <2>2, <2>3, TopReplaced
  <2> QED
    BY <2>2, <2>4
<1>4. ASSUME NEW u, CallStep(u) PROVE Goal
  <2> DEFINE n == Len(stack)
  <2>1. WalkStep(u)
    BY <1>4 DEF CallStep
  <2>2. /\ n \in Nat \ {0} /\ DOMAIN stack = 1 .. n /\ n \in 1 .. n
        /\ \/ DOMAIN stack' = 1 .. n /\ Below(n, u)
           \/ \E g \in Fn, kind \in FrameKind :
                /\ DOMAIN stack' = 1 .. n + 1 /\ Below(n, u)
                /\ stack'[n + 1] = NewFrame(g, kind, currentPackage)
    BY <1>0, <2>1, WalkStack
  <2>3. stack # << >>
    BY <2>1 DEF WalkStep, Walking, Running
  <2>4. ASSUME k \in 1 .. n PROVE Goal
    <3>1. stack'[k] = IF k = n THEN u ELSE stack[k]
      BY <2>2, <2>4 DEF Below
    <3> QED
      BY <1>4, <2>2, <2>3, <2>4, <3>1
  <2>5. ASSUME k = n + 1, NEW g, NEW kind, stack'[n + 1] = NewFrame(g, kind, currentPackage)
        PROVE  Goal
    <3>1. stack'[k] = NewFrame(g, kind, currentPackage)
      BY <2>5
    <3> QED
      BY <1>0, <3>1, NewCallFrame
  <2>6. k \in 1 .. n \/ (k = n + 1 /\ \E g \in Fn, kind \in FrameKind :
                            stack'[n + 1] = NewFrame(g, kind, currentPackage))
    <3> HIDE DEF n
    <3> QED
      BY <2>2
  <2> HIDE DEF Goal, n
  <2> QED
    BY <2>4, <2>5, <2>6
<1>5. CASE EndFunction
  <2>1. stack # << >> /\ stack' = SubSeq(stack, 1, Len(stack) - 1)
    BY <1>5 DEF EndFunction, Running
  <2> QED
    BY <1>0, <2>1, TopPopped
<1> HIDE DEF Goal
<1>6. Goal
  BY <1>1, <1>2, <1>3, <1>4, <1>5, CallCases DEF Goal
<1> QED
  BY <1>6 DEF Goal

LEMMA GivenAfter ==
  ASSUME Context, EditsOK, Top \in CallFrames, NEW u, CallStep(u)
  PROVE  /\ app' = app
         /\ \A r \in Site : Given(r) => Given(r)'
         /\ \A s \in Site : HandsTo(u, s) => Given(s)'
<1>0. Walking /\ app' = app /\ TypeOK
  <2>1. Walking /\ app' = app
    BY DEF CallStep, WalkStep
  <2> QED
    BY <2>1, ContextHas DEF IInv
<1>1. ASSUME NEW s \in Site, HandsTo(u, s)
      PROVE  Given(s)' /\ \A r \in Site : Given(r) => Given(r)'
  <2>1. Given(s)'
    BY <1>0, <1>1, HandedTo DEF Given
  <2>2. \A r \in Site \ {s} : txnArgs'[r] = txnArgs[r]
    BY <1>0, <1>1, AddToCallText DEF HandsTo
  <2> QED
    BY <1>0, <2>1, <2>2 DEF Given
<1>2. HandsNo(u) => \A r \in Site : Given(r) => Given(r)'
  BY <1>0 DEF HandsNo, callText, Given
<1> QED
  BY <1>0, <1>1, <1>2 DEF CallStep

(* What is neither done before nor waits has just ended.                   *)
LEMMA DoneComes ==
  ASSUME ShapedInv, TraceInv, [Next]_vars, NEW f \in Traced', f \notin OnStack'
  PROVE  /\ f \in Traced
         /\ \/ f \in RootsOf(app) /\ f \in Waiting'
            \/ EndFunction /\ f = Top.fn /\ Len(stack) \in DOMAIN stack
            \/ f \notin OnStack /\ ~(f \in RootsOf(app) /\ f \in Waiting)
<1>0. /\ IInv /\ app \in Apps /\ app' = app /\ RootsOf(app)' = RootsOf(app)
      /\ Rooted /\ RootsClean /\ Traced \subseteq Traced'
  BY TracedGrows DEF ShapedInv, IInv, TraceInv
<1>1. f \in Traced
  <2> SUFFICES ASSUME f \notin Traced PROVE FALSE
    OBVIOUS
  <2>1. f \in Fn /\ segments'[f] > 0 /\ ~(segments[f] > 0)
    BY <1>0 DEF Traced
  <2>2. BeginFunction
    BY <1>0, <2>1, DeclTextStep
  <2>3. f = Top.fn
    BY <1>0, <2>1, <2>2, BeginText
  <2>4. stack # << >> /\ Top.pc = 0
    BY <2>2 DEF BeginFunction, Running
  <2>5. ~EndFunction
    <3>1. app.body[Top.fn] \in Seq(Node)
      BY <1>0, <2>1, <2>3, AppTyped DEF AppType
    <3> QED
      BY <2>4, <3>1 DEF EndFunction
  <2>6. Len(stack) \in DOMAIN stack' /\ StaysAt(Len(stack))
    BY <1>0, <2>4, <2>5, TopKnown, FramesCome
  <2>7. stack'[Len(stack)].fn = f
    BY <2>3, <2>6 DEF StaysAt, Top
  <2> QED
    BY <2>6, <2>7 DEF OnStack
<1>2. CASE f \in OnStack
  <2>1. PICK k \in DOMAIN stack : stack[k].fn = f
    BY <1>2 DEF OnStack
  <2>2. ~(k \in DOMAIN stack' /\ StaysAt(k))
    BY <2>1 DEF StaysAt, OnStack
  <2>3. EndFunction /\ stack[k] = Top
    BY <2>2, FramesCome
  <2>4. Len(stack) \in DOMAIN stack
    BY <1>0, <2>3, TopKnown DEF EndFunction, Running
  <2> QED
    BY <1>1, <2>1, <2>3, <2>4
<1>3. CASE f \notin OnStack /\ f \in RootsOf(app) /\ f \in Waiting
  <2> SUFFICES ASSUME f \notin Waiting' PROVE FALSE
    BY <1>1, <1>3
  <2>1. (VisitMain \/ VisitDecl) /\ f = Head(roots)
    BY <1>3, WaitingEnds
  <2>2. f \notin app.mains => IsHandler(f)
    BY <1>0, <1>3 DEF RootsOf, IsHandler, RootsClean
  <2>3. ASSUME NEW kind, stack' = <<NewFrame(f, kind, currentPackage)>>
        PROVE  FALSE
    <3> DEFINE w == NewFrame(f, kind, currentPackage)
    <3>1. w.fn = f /\ stack' = <<w>>
      BY <2>3 DEF NewFrame
    <3> HIDE DEF w
    <3>2. 1 \in DOMAIN stack' /\ stack'[1] = w
      BY <3>1
    <3> QED
      BY <3>1, <3>2 DEF OnStack
  <2>4. VisitMain => stack' = <<NewFrame(f, "main", currentPackage)>>
    BY <2>1 DEF VisitMain
  <2>5. VisitDecl => stack' = <<NewFrame(f, "handler", currentPackage)>>
    BY <2>1, <2>2 DEF VisitDecl
  <2> QED
    BY <2>1, <2>3, <2>4, <2>5
<1> QED
  BY <1>1, <1>2, <1>3

(* All calls have been passed at the end of a walk.                        *)
LEMMA EndPast ==
  ASSUME ShapedInv, Rooted, EndFunction, NEW i \in Nodes(Top.fn), NEW j
  PROVE  PastCall(Top, i, j)
<1>1. app \in Apps /\ Top.pc = Len(app.body[Top.fn]) + 1 /\ Top.fn \in Fn
  BY EndTraced DEF ShapedInv, IInv
<1>2. i \in Nat \ {0} /\ i <= Len(app.body[Top.fn])
  BY <1>1, PcTyped DEF Nodes
<1>3. app.body[Top.fn] \in Seq(Node)
  BY <1>1, AppTyped DEF AppType
<1>4. Len(app.body[Top.fn]) \in Nat
  BY <1>3
<1> QED
  BY <1>1, <1>2, <1>4 DEF PastCall

LEMMA CallFramesKept ==
  ASSUME Context, SetupReady, [Next]_vars, ~crashed',
         \A k \in DOMAIN stack : stack[k] \in CallFrames, NEW k \in DOMAIN stack'
  PROVE  stack'[k] \in CallFrames'
<1>1. app' = app /\ (stack # << >> => Top \in CallFrames)
  <2>1. ShapedInv /\ Rooted /\ IInv
    BY DEF Context, TraceInv, ShapedInv
  <2> QED
    BY <2>1, WaitingShrinks, TopKnown
<1>2. stack'[k] \in CallFrames
  BY <1>1, CallFramesCome DEF CallStep
<1>3. CallFrames' = CallFrames
  BY <1>1, AppSteady DEF CallFrames
<1> QED
  BY <1>2, <1>3

LEMMA CallsGivenKept ==
  ASSUME Context, SetupReady, [Next]_vars, ~crashed', EditsOK, CallsGiven,
         \A k \in DOMAIN stack : stack[k] \in CallFrames
  PROVE  CallsGiven'
<1>0. /\ ShapedInv /\ Rooted /\ IInv /\ TraceInv /\ app \in Apps /\ app' = app
      /\ stack # << >> => Top \in CallFrames /\ GivenBy(Top)
      /\ \A k \in DOMAIN stack' : stack'[k].fn \in Fn
  <2>1. ShapedInv /\ ShapedInv' /\ Rooted /\ IInv /\ app \in Apps /\ TraceInv
    BY ShapedInductive DEF Context, TraceInv, ShapedInv, IInv
  <2>2. \A k \in DOMAIN stack' : stack'[k] \in Frame
    BY <2>1 DEF ShapedInv, IInv, TypeOK, ControlTypeOK
  <2> QED
    BY <2>1, <2>2, WaitingShrinks, TopKnown DEF CallsGiven, Frame
<1>1. \A s \in Site : Given(s) => Given(s)'
  <2>1. callText' = callText => \A s \in Site : Given(s) => Given(s)'
    BY <1>0 DEF callText, Given
  <2>2. \A p \in Pkg : StartPackage(p) => callText' = callText
    BY DEF StartPackage
  <2>3. VisitMain \/ VisitDecl \/ BeginFunction \/ EndFunction \/ UNCHANGED vars
          => callText' = callText
    BY DEF VisitMain, VisitDecl, BeginFunction, EndFunction, vars
  <2>4. \A u : CallStep(u) => stack # << >>
    BY DEF CallStep, WalkStep, Walking, Running
  <2> QED
    BY <1>0, <2>1, <2>2, <2>3, <2>4, GivenAfter, CallCases
<1>2. ASSUME NEW k \in DOMAIN stack', NEW i \in Nodes(stack'[k].fn),
             NEW j \in Calls(stack'[k].fn, i), NEW s \in Site,
             ReachedAt(s, stack'[k].fn, i, j), PastCall(stack'[k], i, j)
      PROVE  Given(s)'
  <2>1. CASE k \in DOMAIN stack /\ stack'[k] = stack[k]
    BY <1>1, <1>2, <2>1 DEF CallsGiven, GivenBy
  <2>2. CASE stack'[k].pc \in {0, 1} /\ stack'[k].call = 1
    BY <1>0, <1>2, <2>2, FreshPast
  <2>3. ASSUME stack # << >>, NEW u, CallStep(u), stack'[k] = u PROVE Given(s)'
    <3>1. u.fn = Top.fn
      BY <2>3 DEF CallStep, WalkStep, Continues, Same
    <3>2. PastCall(Top, i, j) => Given(s)'
      BY <1>0, <1>1, <1>2, <2>3, <3>1 DEF GivenBy
    <3>3. CASE HandsNo(u)
      BY <1>2, <2>3, <3>1, <3>2, <3>3 DEF HandsNo
    <3>4. ASSUME NEW r \in Site, HandsTo(u, r) PROVE Given(s)'
      <4>1. PastCall(Top, i, j) \/ s = r
        BY <1>2, <2>3, <3>1, <3>4 DEF HandsTo
      <4>2. Given(r)'
        BY <1>0, <2>3, <3>4, GivenAfter
      <4> QED
        BY <3>2, <4>1, <4>2
    <3> QED
      BY <2>3, <3>3, <3>4 DEF CallStep
  <2> QED
    BY <1>0, <2>1, <2>2, <2>3, CallFramesCome
<1>3. ASSUME NEW f \in Traced', f \notin OnStack', ~(f \in RootsOf(app) /\ f \in Waiting'),
             NEW i \in Nodes(f), NEW j \in Calls(f, i), NEW s \in Site, ReachedAt(s, f, i, j)
      PROVE  Given(s)'
  <2>1. CASE EndFunction /\ f = Top.fn /\ Len(stack) \in DOMAIN stack
    <3>1. PastCall(Top, i, j)
      BY <1>0, <1>3, <2>1, EndPast
    <3>2. GivenBy(Top)
      BY <2>1 DEF CallsGiven, Top
    <3> QED
      BY <1>1, <1>3, <2>1, <3>1, <3>2 DEF GivenBy
  <2>2. CASE f \in Traced /\ f \notin OnStack /\ ~(f \in RootsOf(app) /\ f \in Waiting)
    BY <1>1, <1>3, <2>2 DEF CallsGiven, AllGiven
  <2> QED
    BY <1>0, <1>3, <2>1, <2>2, DoneComes
<1>4. /\ \A s, f, i, j : ReachedAt(s, f, i, j)' <=> ReachedAt(s, f, i, j)
      /\ \A t, i, j : PastCall(t, i, j)' <=> PastCall(t, i, j)
      /\ \A f, i : Nodes(f)' = Nodes(f) /\ Calls(f, i)' = Calls(f, i)
      /\ RootsOf(app)' = RootsOf(app)
  BY <1>0, PlacesSteady, AppSteady
<1>5. ASSUME NEW k \in DOMAIN stack' PROVE GivenBy(stack[k])'
  BY <1>2, <1>4 DEF GivenBy
<1>6. ASSUME NEW f \in Traced' \ OnStack'
      PROVE  (f \in RootsOf(app)' /\ f \in Waiting') \/ AllGiven(f)'
  BY <1>3, <1>4 DEF AllGiven
<1> QED
  BY <1>5, <1>6 DEF CallsGiven

(* The walks start when the agent is set up, where it is set up above.     *)
LEMMA SetupReadyKept ==
  ASSUME ShapedInv, AgentInv, SetupReady, [Next]_vars
  PROVE  SetupReady'
<1>0. IInv /\ ShapeInv /\ app' = app /\ app \in Apps /\ AgentInv' /\ Waiting' \subseteq Waiting
  BY WaitingShrinks, AgentInvKept DEF ShapedInv, IInv
<1>1. SetupAbove(app)' <=> SetupAbove(app)
  BY <1>0, PlacesSteady
<1>2. CASE setupFunc' = setupFunc /\ (stack = << >> => stack' = << >>)
  BY <1>1, <1>2 DEF SetupReady
<1>3. CASE VisitMain \/ VisitDecl
  <2> SUFFICES ASSUME SetupAbove(app), stack' # << >> PROVE setupFunc' # NoFn
    BY <1>1 DEF SetupReady
  <2> DEFINE f == Head(roots)
             d == app.decls[app.pkg[f]]
  <2>1. /\ f \in Fn /\ IsDeclared(f) /\ f \notin Waiting' /\ roots # << >>
        /\ f \in app.mains \/ IsHandler(f)
    BY <1>0, <1>3, RootTaken DEF VisitMain, VisitDecl
  <2>2. f \in RootsOf(app)
    BY <2>1 DEF RootsOf, IsDeclared, IsHandler
  <2>3. PICK i \in DOMAIN d, j \in DOMAIN d : i <= j /\ d[i] \in app.creates /\ d[j] = f
    BY <2>2 DEF SetupAbove
  <2>4. app.pkg[f] \in Pkg /\ d \in Seq(Fn)
    BY <1>0, <2>1, EntryTyped, DeclTyped
  <2>5. d[i] \notin Waiting'
    <3>1. CASE i = j
      BY <2>1, <2>3, <3>1
    <3>2. CASE i # j
      <4>1. i < j
        <5>1. i \in Nat /\ j \in Nat
          BY <2>3, <2>4
        <5> QED
          BY <2>3, <3>2, <5>1
      <4>2. d[i] \notin Waiting
        BY <1>0, <2>1, <2>3, <2>4, <4>1, VisitedInOrder DEF AgentInv
      <4> QED
        BY <1>0, <4>2
    <3> QED
      BY <3>1, <3>2
  <2>6. IsDeclared(d[i])
    BY <1>0, <2>3, <2>4, ListedIsDeclared
  <2>7. ASSUME NEW g, g \in app.creates, IsDeclared(g), g \notin Waiting'
        PROVE  setupFunc' # NoFn
    <3>1. g \in app'.creates /\ IsDeclared(g)'
      BY <1>0, <2>7 DEF IsDeclared
    <3> QED
      BY <1>0, <2>7, <3>1 DEF AgentInv
  <2> QED
    BY <2>3, <2>5, <2>6, <2>7
<1>4. \A p \in Pkg : StartPackage(p) => setupFunc' = setupFunc /\ (stack = << >> => stack' = << >>)
  BY DEF StartPackage
<1>5. ASSUME BeginFunction \/ EndFunction \/ \E u : WalkStep(u)
      PROVE  setupFunc' = setupFunc /\ (stack = << >> => stack' = << >>)
  BY <1>5 DEF BeginFunction, EndFunction, WalkStep, Walking, Running, control
<1>6. UNCHANGED vars => setupFunc' = setupFunc /\ (stack = << >> => stack' = << >>)
  BY DEF vars, control
<1> QED
  BY <1>0, <1>2, <1>3, <1>4, <1>5, <1>6, StepCases

(* A declaration has the parameter if and only if it has the segment,      *)
(* unless it takes a context.                                              *)
LEMMA ParamsKept ==
  ASSUME ShapedInv, ParamsOK, [Next]_vars
  PROVE  ParamsOK'
<1>0. IInv /\ app' = app
  BY WaitingShrinks DEF ShapedInv
<1>1. CASE UNCHANGED <<txnParams, segments>>
  BY <1>0, <1>1 DEF ParamsOK
<1>2. CASE BeginFunction
  <2>1. ASSUME NEW f \in Fn
        PROVE  txnParams'[f] = IF app.param[f] = "ctx" THEN 0 ELSE segments'[f]
    <3>1. txnParams[f] = IF app.param[f] = "ctx" THEN 0 ELSE segments[f]
      BY DEF ParamsOK
    <3>2. CASE f = Top.fn
      BY <1>0, <1>2, <3>1, <3>2, BeginText
    <3>3. CASE f # Top.fn
      BY <1>0, <1>2, <3>1, <3>3, BeginText
    <3> QED
      BY <3>2, <3>3
  <2> QED
    BY <1>0, <2>1 DEF ParamsOK
<1> QED
  BY <1>0, <1>1, <1>2, DeclTextStep

LEMMA CallInvKept ==
  ASSUME Context, OnceInv, Acyclic(app), CallInv, [Next]_vars
  PROVE  CallInv'
<1>0. ShapedInv /\ AgentInv /\ Rooted /\ SetupReady /\ ParamsOK
  BY DEF Context, TraceInv, CallInv
<1>1. SetupReady' /\ ParamsOK'
  BY <1>0, SetupReadyKept, ParamsKept
<1>2. CASE crashed'
  BY <1>1, <1>2 DEF CallInv
<1>3. CASE ~crashed'
  <2>1. ~crashed
    BY <1>0, <1>3, CrashStays
  <2>2. EditsOK /\ CallsGiven /\ \A k \in DOMAIN stack : stack[k] \in CallFrames
    BY <2>1 DEF CallInv
  <2>3. stack # << >> => Top \in CallFrames
    BY <1>0, <2>2, TopKnown
  <2>4. \A u : CallStep(u) => stack # << >>
    BY DEF CallStep, WalkStep, Walking, Running
  <2>5. EditsOK'
    <3>1. CASE callText' = callText
      BY <1>0, <2>2, <3>1, EditsStay
    <3>2. \A p \in Pkg : StartPackage(p) => callText' = callText
      BY DEF StartPackage
    <3>3. VisitMain \/ VisitDecl \/ BeginFunction \/ EndFunction \/ UNCHANGED vars
            => callText' = callText
      BY DEF VisitMain, VisitDecl, BeginFunction, EndFunction, vars
    <3>4. \A u : CallStep(u) => EditsOK'
      BY <1>3, <2>2, <2>3, <2>4, EditsKept
    <3> QED
      BY <1>0, <2>3, <3>1, <3>2, <3>3, <3>4, CallCases
  <2>6. CallsGiven' /\ \A k \in DOMAIN stack' : stack'[k] \in CallFrames'
    BY <1>0, <1>3, <2>2, CallsGivenKept, CallFramesKept
  <2> QED
    BY <1>1, <2>5, <2>6 DEF CallInv
<1> QED
  BY <1>2, <1>3

LEMMA CallInvInitially ==
  ASSUME Init
  PROVE  CallInv
<1>0. /\ app \in Apps /\ stack = << >> /\ pending = Pkg /\ OnStack = {}
      /\ \A f \in Fn : segments[f] = 0 /\ txnParams[f] = 0
      /\ \A s \in Site : ~Edited(s) /\ txnArgs[s] = 0 /\ s \notin plainArg /\ s \notin ctxWrapped
  BY DEF Init, Edited, OnStack
<1>1. RootsOf(app) \subseteq Waiting
  <2>1. \A f \in Fn : app.pkg[f] \in Pkg
    BY <1>0, AppTyped DEF AppType
  <2>2. RootsOf(app) \subseteq Fn /\ \A f \in RootsOf(app) : IsDeclared(f)
    BY DEF RootsOf, IsDeclared
  <2> QED
    BY <1>0, <2>1, <2>2 DEF Waiting
<1>2. \A f \in Fn : ~(segments[f] > 0)
  BY <1>0
<1>3. CallsGiven
  BY <1>0, <1>1, <1>2 DEF CallsGiven, Traced
<1>4. EditsOK
  BY <1>0 DEF EditsOK
<1>5. SetupReady /\ ParamsOK
  BY <1>0 DEF SetupReady, ParamsOK
<1> QED
  BY <1>0, <1>3, <1>4, <1>5 DEF CallInv

(* The inductive invariant: only calls of what can be reached are edited,  *)
(* each once, and those a walk has passed pass what their function takes.  *)
THEOREM CallsGivenHolds ==
  Spec => [](NoRecursion(app) /\ Traceable(app) /\ PlainCalls(app) => CallInv)
<1> DEFINE J == NoRecursion(app) /\ Traceable(app) /\ PlainCalls(app) => CallInv
           T == Traceable(app) => TraceInv
           O == NoRecursion(app) => OnceInv
<1>1. Init => J
  BY CallInvInitially
<1>2. ShapedInv /\ AgentInv /\ SetupInv /\ T /\ O /\ J /\ [Next]_vars => J'
  <2> SUFFICES ASSUME ShapedInv, AgentInv, SetupInv, T, O, J, [Next]_vars,
                      NoRecursion(app)', Traceable(app)', PlainCalls(app)'
               PROVE  CallInv'
    OBVIOUS
  <2>1. app' = app
    BY WaitingShrinks DEF ShapedInv
  <2>2. NoRecursion(app) /\ Traceable(app) /\ PlainCalls(app)
    BY <2>1
  <2>3. Context /\ OnceInv /\ Acyclic(app) /\ CallInv
    BY <2>2 DEF Context, NoRecursion
  <2> QED
    BY <2>3, CallInvKept
<1> QED
  BY <1>1, <1>2, Shaped, Agents, Setup, Tracing, Once, PTL DEF Spec

(* A call listed for a function that can be reached stands at a place the  *)
(* walk looks at.                                                          *)
LEMMA ListedAtPlace ==
  ASSUME app \in Apps, Traceable(app), PlainCalls(app), NEW f \in Fn, NEW s \in SitesOf(f)
  PROVE  s \in Site /\ \E i \in Nodes(f) : \E j \in Calls(f, i) : CallAt(app, s, f, i, j)
<1>1. PICK i \in DOMAIN app.body[f] :
        \/ s \in {app.body[f][i].calls[j] : j \in DOMAIN app.body[f][i].calls}
        \/ app.body[f][i].kind \in {"go", "golit"} /\ s = app.body[f][i].outer
  BY DEF SitesOf
<1> DEFINE n == app.body[f][i]
<1>2. /\ n.kind = "go" => n.calls = <<n.outer>>
      /\ HoldsLiteral(n) => n.calls = << >>
  <2>1. n.kind = "go" => n.calls = <<n.outer>>
    BY <1>1 DEF PlainCalls
  <2>2. HoldsLiteral(n) => n.calls = << >>
    BY <1>1 DEF Traceable, PlainStatements
  <2> QED
    BY <2>1, <2>2
<1> DEFINE q == <<n.outer>>
<1>3. DOMAIN q = {1} /\ q[1] = n.outer
  OBVIOUS
<1>4. \E j \in DOMAIN CallsIn(n) : s = CallsIn(n)[j]
  <2>1. CASE n.kind = "golit"
    <3>1. n.calls = << >> /\ CallsIn(n) = q
      BY <1>2, <2>1 DEF HoldsLiteral, CallsIn
    <3>2. DOMAIN n.calls = {}
      BY <3>1
    <3>3. s = n.outer
      BY <1>1, <3>2
    <3> HIDE DEF q
    <3> QED
      BY <1>3, <3>1, <3>3
  <2>2. CASE n.kind # "golit" /\ s \in {n.calls[j] : j \in DOMAIN n.calls}
    BY <2>2 DEF CallsIn
  <2>3. CASE n.kind = "go" /\ s = n.outer
    <3>1. CallsIn(n) = q
      BY <1>2, <2>3 DEF CallsIn
    <3> HIDE DEF q
    <3> QED
      BY <1>3, <2>3, <3>1
  <2> QED
    BY <1>1, <2>1, <2>2, <2>3
<1>5. PICK j \in DOMAIN CallsIn(n) : s = CallsIn(n)[j]
  BY <1>4
<1>6. CallAt(app, s, f, i, j)
  BY <1>5 DEF CallAt
<1> QED
  BY <1>1, <1>5, <1>6, CallKnown DEF Nodes, Calls

(* When the pass is over every call in the application passes as many      *)
(* transactions as the function it calls has got parameters for: where     *)
(* calls are plain, the walk of the caller and the walk of the callee      *)
(* decide alike, whichever comes first and however often a statement is    *)
(* met.  The run LiteralCall shows a call that is not plain.               *)
THEOREM CallsAgreeHolds ==
  Spec => [](NoRecursion(app) /\ Traceable(app) /\ PlainCalls(app) => CallsAgree)
<1>1. ASSUME ShapedInv, TraceInv, TracesReachable, OnceInv, CallInv,
             Traceable(app), PlainCalls(app)
      PROVE  CallsAgree
  <2> SUFFICES ASSUME Finished, NEW f \in Fn, NEW s \in SitesOf(f)
               PROVE  txnArgs[s] = txnParams[app.to[s]]
    BY DEF CallsAgree
  <2>1. /\ app \in Apps /\ Sound /\ EditsOK /\ CallsGiven /\ ParamsOK
        /\ {g \in Fn : segments[g] > 0} = Reachable(app) \ RootsOf(app)
        /\ OnStack = {} /\ Waiting = {}
    BY <1>1 DEF ShapedInv, IInv, TraceInv, CallInv, TracesReachable, Finished, OnStack,
                Waiting, Visiting
  <2>2. PICK i \in Nodes(f) : \E j \in Calls(f, i) : CallAt(app, s, f, i, j)
    BY <1>1, <2>1, ListedAtPlace
  <2>2a. PICK j \in Calls(f, i) : CallAt(app, s, f, i, j)
    BY <2>2
  <2>3. s \in Site /\ app.to[s] \in Fn
    BY <2>1, <2>2a, CallKnown
  <2> DEFINE h == app.to[s]
  <2>4. /\ txnParams[h] = IF app.param[h] = "ctx" THEN 0 ELSE segments[h]
        /\ segments[h] \in Nat /\ segments[h] <= 1
    BY <1>1, <2>1, <2>3, TextTyped DEF ParamsOK, OnceInv, TracedOnce
  <2>5. CASE h \notin Reachable(app)
    <3>1. txnArgs[s] = 0
      BY <2>1, <2>3, <2>5 DEF EditsOK, Edited
    <3>2. segments[h] = 0
      <4>1. ~(segments[h] > 0)
        BY <2>1, <2>3, <2>5
      <4> QED
        BY <2>4, <4>1
    <3> QED
      BY <2>4, <3>1, <3>2
  <2>6. CASE h \in Reachable(app)
    <3>1. ReachedAt(s, f, i, j)
      BY <2>2a, <2>6 DEF ReachedAt
    <3>2. h \notin RootsOf(app) /\ f \in Reachable(app)
      BY <1>1, <2>1, <2>2a, <2>6, <3>1, ReachedIs, PlainAt
    <3>3. f \in Traced
      BY <2>1, <3>2 DEF Traced
    <3>4. Given(s)
      BY <2>1, <2>3, <3>1, <3>3 DEF CallsGiven, AllGiven
    <3>5. segments[h] = 1
      <4>1. segments[h] > 0
        BY <2>1, <2>3, <2>6, <3>2
      <4> QED
        BY <2>4, <4>1
    <3>6. txnArgs[s] = 0 \/ (txnArgs[s] = 1 /\ app.param[h] # "ctx")
      BY <2>1, <2>3 DEF EditsOK
    <3> QED
      BY <2>4, <3>4, <3>5, <3>6 DEF Given
  <2> QED
    BY <2>5, <2>6
<1> DEFINE P == NoRecursion(app) /\ Traceable(app) /\ PlainCalls(app)
<1>2. /\ ShapedInv /\ (Traceable(app) => TraceInv) /\ (Traceable(app) => TracesReachable)
      /\ (NoRecursion(app) => OnceInv) /\ (P => CallInv)
      => (P => CallsAgree)
  BY <1>1
<1> QED
  BY <1>2, Shaped, Tracing, TracesReachableHolds, Once, CallsGivenHolds, PTL

-----------------------------------------------------------------------------
(* Errors are captured at the root cause.                                  *)

(* The function the j-th invocation of a node calls.                       *)
Callee(f, i, j) == app.to[app.body[f][i].calls[j]]

(* Functions that get a segment.                                           *)
Instrumented == Reachable(app) \ RootsOf(app)

(* The i-th node of f originates an error, and its j-th call is traced.    *)
Blames(f, i, j) ==
  /\ f \in Reachable(app) \ app.mains
  /\ i \in Nodes(f) /\ Originates(app.body[f][i])
  /\ j \in DOMAIN app.body[f][i].calls
  /\ Callee(f, i, j) \in Instrumented

(* A walk that has come past such a call in its statement knows it.        *)
KnowsDown(t) ==
  t.pc \in Nodes(t.fn) =>
    \A j \in DOMAIN app.body[t.fn][t.pc].calls :
      Blames(t.fn, t.pc, j) /\ j < t.call => t.down

(* What such a statement calls starts there, or after it.                  *)
StartedBelow ==
  \A f \in Fn : \A i \in Nodes(f) : \A j \in DOMAIN app.body[f][i].calls :
    Blames(f, i, j) /\ Callee(f, i, j) \in Covered =>
      \E l \in DOMAIN app.body[f][i].calls :
        Callee(f, i, l) = Callee(f, i, j) /\ PassedCall(f, i, l)

(* No call of the statement the error comes from gets a segment.           *)
Clean(e) ==
  /\ e.fn \in Fn /\ e.node \in Nodes(e.fn)
  /\ \A j \in DOMAIN app.body[e.fn][e.node].calls :
       Callee(e.fn, e.node, j) \notin Instrumented

ErrorsClean == /\ errorCache # NoErr => Clean(errorCache)
               /\ \A n \in noticed : Clean(n.err)

CaptureInv == /\ ErrorsClean
              /\ \/ crashed
                 \/ StartedBelow /\ \A k \in DOMAIN stack : KnowsDown(stack[k])

-----------------------------------------------------------------------------
(* What NoticeError brings into the slot, or captures, was there before,   *)
(* or comes from the statement itself when no callee has taken it.         *)
Comes(t, node, e) == /\ e.fn = t.fn /\ e.node = t.pc
                     /\ t.kind # "main" /\ ~t.down /\ Originates(node)

LEMMA NoticeComes ==
  ASSUME TypeOK, NEW t \in Frame, NEW node \in Node
  PROVE  LET y == NoticeError(t, node)
         IN  /\ y.cache \in {errorCache, NoErr} \/ Comes(t, node, y.cache)
             /\ \A n \in y.noticed : \/ n \in noticed
                                     \/ n.err = errorCache /\ errorCache # NoErr
                                     \/ Comes(t, node, n.err)
<1> DEFINE x == ErrNow
           Fine(y) == /\ y.cache \in {errorCache, NoErr} \/ Comes(t, node, y.cache)
                      /\ \A n \in y.noticed : \/ n \in noticed
                                              \/ n.err = errorCache /\ errorCache # NoErr
                                              \/ Comes(t, node, n.err)
<1>0. node.listed \in BOOLEAN /\ node.checks \in BOOLEAN /\ t.down \in BOOLEAN
  BY DEF Node, Frame
<1>1. x \in ErrState /\ x.cache = errorCache /\ x.noticed = noticed
  BY ErrNowTyped DEF ErrNow
<1> HIDE DEF x
<1>2. Fine(x)
  BY <1>1
<1>3. ASSUME NEW z \in ErrState, Fine(z), z.cache # NoErr
      PROVE  Fine(NoticeCached(t, z))
  <2> DEFINE n == [in |-> t.fn, err |-> z.cache]
             m == z.noticed \cup {n}
             y == NoticeCached(t, z)
  <2>1. y = [z EXCEPT !.cache = NoErr, !.hit = TRUE, !.noticed = m]
    BY DEF NoticeCached, ErrState
  <2>2. n.err = z.cache
    OBVIOUS
  <2> HIDE DEF n, m, y
  <2>3. y.cache = NoErr /\ y.noticed = m
    BY <2>1 DEF ErrState
  <2>4. \A o \in m : o \in z.noticed \/ o = n
    BY DEF m
  <2>5. Fine(y)
    BY <1>3, <2>2, <2>3, <2>4
  <2> QED
    BY <2>5 DEF y
<1>4. CASE t.kind = "main"
  <2>1. NoticeError(t, node) = x
    BY <1>4 DEF NoticeError, x
  <2> QED
    BY <1>2, <2>1
<1>5. ASSUME t.kind # "main", node.kind \in {"assign", "if"}
      PROVE  Fine(NoticeAssign(t, node, x)) /\ NoticeAssign(t, node, x) \in ErrState
  <2> DEFINE new == [fn |-> t.fn, node |-> t.pc, var |-> node.err]
             y == NoticeAssign(t, node, x)
  <2>1. y \in ErrState
    BY <1>1, NoticeAssignTyped
  <2>2. CASE ~node.listed \/ t.down \/ node.err = NoErr
    <3>1. y = x
      BY <2>2 DEF NoticeAssign
    <3> QED
      BY <1>2, <2>1, <3>1
  <2>3. CASE ~(~node.listed \/ t.down \/ node.err = NoErr)
    <3> DEFINE u == x.unchecked \cup ({x.cache} \ {NoErr})
               l == x.loaded \cup {new}
    <3>1. y = [x EXCEPT !.cache = new, !.loaded = l, !.unchecked = u]
      BY <1>1, <2>3 DEF NoticeAssign, ErrState
    <3>2. new.fn = t.fn /\ new.node = t.pc
      OBVIOUS
    <3> HIDE DEF new, u, l
    <3>3. Comes(t, node, new)
      BY <1>5, <2>3, <3>2 DEF Comes, Originates
    <3> HIDE DEF y
    <3>4. y.cache = new /\ y.noticed = x.noticed
      BY <1>1, <3>1 DEF ErrState
    <3>5. Fine(y)
      BY <1>1, <3>3, <3>4
    <3> QED
      BY <2>1, <3>5 DEF y
  <2> QED
    BY <2>2, <2>3
<1>6. ASSUME t.kind # "main", node.kind = "if"
      PROVE  Fine(NoticeIf(t, node, x))
  <2> DEFINE y == NoticeAssign(t, node, x)
  <2>1. Fine(y) /\ y \in ErrState
    BY <1>5, <1>6
  <2>2. NoticeIf(t, node, x) =
          IF node.checks /\ y.cache # NoErr THEN NoticeCached(t, y) ELSE y
    BY DEF NoticeIf
  <2> HIDE DEF y
  <2>3. y.cache # NoErr => Fine(NoticeCached(t, y))
    BY <1>3, <2>1
  <2> HIDE DEF Fine
  <2> QED
    BY <2>1, <2>2, <2>3
<1>7. ASSUME t.kind # "main", node.kind = "return"
      PROVE  Fine(NoticeReturn(t, node, x))
  <2>1. CASE ~node.listed \/ t.down
    <3>1. NoticeReturn(t, node, x) = x
      BY <1>0, <2>1 DEF NoticeReturn
    <3> QED
      BY <1>2, <3>1
  <2>2. CASE node.listed /\ ~t.down /\ node.checks
    <3> DEFINE new == [fn |-> t.fn, node |-> t.pc, var |-> ReturnVal]
               n == [in |-> t.fn, err |-> new]
               z == NoticeReturn(t, node, x)
    <3>1. z = [x EXCEPT !.hit = TRUE, !.noticed = @ \cup {n}]
      BY <1>0, <2>2 DEF NoticeReturn
    <3>2. n.err = new /\ new.fn = t.fn /\ new.node = t.pc
      OBVIOUS
    <3> HIDE DEF new, n, z
    <3>3. z.cache = x.cache /\ z.noticed = x.noticed \cup {n}
      BY <1>1, <3>1 DEF ErrState
    <3>4. Comes(t, node, n.err)
      BY <1>7, <2>2, <3>2 DEF Comes, Originates
    <3>5. Fine(z)
      BY <1>1, <3>3, <3>4
    <3> QED
      BY <3>5 DEF z
  <2>3. CASE node.listed /\ ~t.down /\ ~node.checks
    <3>1. NoticeReturn(t, node, x) = IF x.cache # NoErr /\ node.err = x.cache.var
                                     THEN NoticeCached(t, x) ELSE x
      BY <1>0, <2>3 DEF NoticeReturn
    <3>2. x.cache # NoErr => Fine(NoticeCached(t, x))
      BY <1>1, <1>2, <1>3
    <3> HIDE DEF Fine
    <3> QED
      BY <1>2, <3>1, <3>2
  <2> QED
    BY <1>0, <2>1, <2>2, <2>3
<1>8. CASE t.kind # "main"
  <2>1. CASE node.kind = "assign"
    <3>1. NoticeError(t, node) = NoticeAssign(t, node, x)
      BY <1>8, <2>1 DEF NoticeError, x
    <3> HIDE DEF Fine
    <3> QED
      BY <1>5, <1>8, <2>1, <3>1 DEF Fine
  <2>2. CASE node.kind = "if"
    <3>1. NoticeError(t, node) = NoticeIf(t, node, x)
      BY <1>8, <2>2 DEF NoticeError, x
    <3> QED
      BY <1>6, <1>8, <2>2, <3>1
  <2>3. CASE node.kind = "return"
    <3>1. NoticeError(t, node) = NoticeReturn(t, node, x)
      BY <1>8, <2>3 DEF NoticeError, x
    <3> QED
      BY <1>7, <1>8, <2>3, <3>1
  <2>4. CASE node.kind \notin {"assign", "if", "return"}
    <3>1. NoticeError(t, node) = x
      BY <1>8, <2>4 DEF NoticeError, x
    <3> QED
      BY <1>2, <3>1
  <2> QED
    BY <2>1, <2>2, <2>3, <2>4
<1> QED
  BY <1>4, <1>8

-----------------------------------------------------------------------------
(* The place where an error originates.                                    *)

CaptureContext ==
  /\ ShapedInv /\ AgentInv /\ TraceInv /\ OnceInv
  /\ Acyclic(app) /\ Traceable(app) /\ ErrorsOfFirstCalls(app)

LEMMA CaptureContextHas ==
  ASSUME CaptureContext
  PROVE  /\ ShapedInv /\ IInv /\ TypeOK /\ ShapeInv /\ TablesNamed /\ Linked /\ app \in Apps
         /\ NamesUnique(app) /\ Rooted /\ MarksOK /\ Sound /\ AgentInv /\ OnceInv
         /\ Acyclic(app)
         /\ RootsOf(app) \subseteq Reachable(app) /\ Reachable(app) \subseteq Fn
BY ReachableClosed DEF CaptureContext, ShapedInv, IInv, ShapeInv, Traceable, TraceInv

LEMMA WalkingHas ==
  ASSUME CaptureContext, Walking
  PROVE  /\ Top \in Frame /\ Top.fn \in Fn /\ Top.fn \in Reachable(app)
         /\ Top.pc \in Nodes(Top.fn) /\ TopNode = app.body[Top.fn][Top.pc]
         /\ Top.pc \in Nat \ {0} /\ TopNode \in Node /\ Top.call \in Nat \ {0}
         /\ TopNode.calls \in Seq(Site)
         /\ stack # << >> /\ Len(stack) \in DOMAIN stack /\ Top = stack[Len(stack)]
         /\ Top.kind = "main" <=> Top.fn \in app.mains
<1>1. /\ ShapedInv /\ IInv /\ Rooted /\ Sound /\ app \in Apps
  BY CaptureContextHas
<1>2. stack # << >> /\ Top.pc \in DOMAIN app.body[Top.fn]
  BY DEF Walking, Running
<1>3. /\ Top \in RootedFrames /\ Top \in Frame /\ Top.fn \in Fn /\ Top.fn \in OnStack
      /\ Len(stack) \in DOMAIN stack /\ Top = stack[Len(stack)]
  BY <1>1, <1>2, TopKnown
<1>4. Top.pc \in Nat \ {0} /\ TopNode \in Node
  BY <1>1, <1>2, <1>3, PcTyped, TopNodeTyped
<1>5. TopNode.calls \in Seq(Site) /\ Top.call \in Nat \ {0}
  BY <1>3, <1>4 DEF Node, Frame
<1>6. Top.fn \in Reachable(app) /\ (Top.kind = "main" <=> Top.fn \in app.mains)
  BY <1>1, <1>3 DEF Sound, RootedFrames
<1> QED
  BY <1>2, <1>3, <1>4, <1>5, <1>6 DEF TopNode, Nodes

(* The application does not change, nor what is said of it and of a walk.  *)
LEMMA CaptureSteady ==
  ASSUME app' = app
  PROVE  /\ \A f, i, j : Callee(f, i, j)' = Callee(f, i, j)
         /\ Instrumented' = Instrumented
         /\ \A f, i, j : Blames(f, i, j)' <=> Blames(f, i, j)
         /\ \A t : KnowsDown(t)' <=> KnowsDown(t)
         /\ \A e : Clean(e)' <=> Clean(e)
<1>1. Instrumented' = Instrumented
  BY AppSteady DEF Instrumented
<1>2. Reachable(app)' = Reachable(app)
  BY AppSteady
<1>3. \A f, i, j : Callee(f, i, j)' = Callee(f, i, j)
  BY DEF Callee
<1>4. \A f : Nodes(f)' = Nodes(f)
  BY DEF Nodes
<1>5. \A f, i, j : Blames(f, i, j)' <=> Blames(f, i, j)
  BY <1>1, <1>2, <1>3, <1>4 DEF Blames
<1>6. \A t : KnowsDown(t)' <=> KnowsDown(t)
  BY <1>4, <1>5 DEF KnowsDown
<1>7. \A e : Clean(e)' <=> Clean(e)
  BY <1>1, <1>3, <1>4 DEF Clean
<1> QED
  BY <1>1, <1>3, <1>5, <1>6, <1>7

LEMMA BlamedIs ==
  ASSUME CaptureContext, NEW f, NEW i, NEW j, Blames(f, i, j)
  PROVE  LET g == Callee(f, i, j)
         IN  /\ f \in Fn /\ f \in Reachable(app) \ app.mains
             /\ i \in Nodes(f) /\ i \in Nat \ {0} /\ j \in Nat \ {0}
             /\ app.body[f][i] \in Node /\ app.body[f][i].calls \in Seq(Site)
             /\ app.body[f][i].kind \in {"assign", "if", "return"}
             /\ g \in Fn /\ g \notin app.lits /\ IsDeclared(g) /\ g \notin RootsOf(app)
             /\ g \notin app.creates \cup app.hasTxn /\ app.name[g] \notin app.inTxn
             /\ \A h \in Fn : \A k \in Nodes(h) : \A l \in DOMAIN app.body[h][k].calls :
                  Callee(h, k, l) = g => h = f /\ k >= i
<1> DEFINE n == app.body[f][i]
           g == Callee(f, i, j)
<1>0. app \in Apps /\ Reachable(app) \subseteq Fn
  BY CaptureContextHas
<1>1. /\ f \in Reachable(app) \ app.mains /\ f \in Fn
      /\ i \in Nodes(f) /\ Originates(n) /\ j \in DOMAIN n.calls
      /\ g \in Reachable(app) \ RootsOf(app)
  BY <1>0 DEF Blames, Instrumented
<1>2. i \in Nat \ {0} /\ n \in Node /\ n.calls \in Seq(Site)
  <2>1. i \in Nat \ {0} /\ n \in Node
    BY <1>0, <1>1, PcTyped, NodeTyped DEF Nodes
  <2> QED
    BY <2>1 DEF Node
<1>3. j \in Nat \ {0}
  <2> DEFINE c == n.calls
  <2>1. c \in Seq(Site) /\ j \in DOMAIN c
    BY <1>1, <1>2
  <2> HIDE DEF c
  <2> QED
    BY <2>1
<1>4. n.kind \in {"assign", "if", "return"}
  BY <1>1 DEF Originates
<1>5. /\ g \in Fn /\ (g \in app.lits \/ IsDeclared(g))
      /\ g \notin app.creates \cup app.hasTxn /\ app.name[g] \notin app.inTxn
  BY <1>0, <1>1, ReachableIs
<1>6. g \notin app.lits /\ \A h \in Fn : \A k \in Nodes(h) :
        \A l \in DOMAIN app.body[h][k].calls : Callee(h, k, l) = g => h = f /\ k >= i
  BY <1>1 DEF CaptureContext, ErrorsOfFirstCalls, Callee, Nodes
<1> QED
  BY <1>0, <1>1, <1>2, <1>3, <1>4, <1>5, <1>6

(* Such a call is found and not passed over.                               *)
LEMMA BlamedHandled ==
  ASSUME CaptureContext, Walking, Blames(Top.fn, Top.pc, Top.call)
  PROVE  /\ IsInvocation(Top, TopCall) /\ ~Excluded(TopCall) /\ IsStmt
         /\ app.to[TopCall] = Callee(Top.fn, Top.pc, Top.call)
         /\ InvDecl(TopCall) = app.to[TopCall] /\ InvDecl(TopCall) # NoFn
<1> DEFINE s == TopCall
           g == app.to[s]
<1>1. /\ IInv /\ TablesNamed /\ NamesUnique(app) /\ AgentInv
      /\ TopNode = app.body[Top.fn][Top.pc] /\ TopNode \in Node
  BY CaptureContextHas, WalkingHas
<1>2. g = Callee(Top.fn, Top.pc, Top.call)
  BY <1>1 DEF Callee, TopCall
<1>3. /\ g \in Fn /\ g \notin app.lits /\ IsDeclared(g) /\ g \notin app.creates
      /\ app.name[g] \notin app.inTxn /\ TopNode.kind \in {"assign", "if", "return"}
  BY <1>1, <1>2, BlamedIs
<1>4. s \in Site
  BY <1>1, CallTyped DEF Blames, TopCall
<1>5. InvDecl(s) # NoFn
  BY <1>1, <1>3 DEF TablesNamed, InvDecl
<1>6. InvDecl(s) = g
  BY <1>1, <1>4, <1>5, ResolvesTo
<1>7. setupFunc # g
  BY <1>1, <1>3, <1>5, <1>6 DEF AgentInv
<1> QED
  BY <1>2, <1>3, <1>5, <1>6, <1>7 DEF IsInvocation, Excluded, IsStmt

(* An activation at the beginning of a node has come past nothing in it.   *)
LEMMA AtStartKnows ==
  ASSUME CaptureContext, NEW t, t.fn \in Fn, t.call = 1
  PROVE  KnowsDown(t)
<1>1. \A j : Blames(t.fn, t.pc, j) => ~(j < t.call)
  <2>1. \A j : Blames(t.fn, t.pc, j) => j \in Nat \ {0}
    BY BlamedIs
  <2> QED
    BY <2>1
<1> QED
  BY <1>1 DEF KnowsDown

-----------------------------------------------------------------------------
(* A step of the walk keeps track of the calls it has come past.           *)

DownStep(u) == WalkStep(u) /\ KnowsDown(u) /\ ErrorsClean'

LEMMA ErrorsStay ==
  ASSUME CaptureContext, [Next]_vars, ErrorsClean, UNCHANGED errs
  PROVE  ErrorsClean'
<1>1. app' = app
  BY CaptureContextHas, WaitingShrinks
<1> QED
  BY <1>1, CaptureSteady DEF ErrorsClean, errs

(* The next invocation of the node, this one being passed over or known.   *)
LEMMA NextCallKnows ==
  ASSUME CaptureContext, Walking, KnowsDown(Top), NEW u, u.fn = Top.fn,
         u.pc = Top.pc, u.call = Top.call + 1, Top.down => u.down,
         Blames(Top.fn, Top.pc, Top.call) => u.down
  PROVE  KnowsDown(u)
<1>1. Top.call \in Nat \ {0} /\ Top.pc \in Nodes(Top.fn)
  BY WalkingHas
<1>2. ASSUME NEW j, Blames(Top.fn, Top.pc, j), j < u.call
      PROVE  u.down
  <2>1. j \in Nat \ {0} /\ j \in DOMAIN app.body[Top.fn][Top.pc].calls
    BY <1>2, BlamedIs DEF Blames
  <2>2. j < Top.call \/ j = Top.call
    BY <1>1, <1>2, <2>1
  <2>3. CASE j < Top.call
    BY <1>1, <1>2, <2>1, <2>3 DEF KnowsDown
  <2>4. CASE j = Top.call
    BY <1>2, <2>4
  <2> QED
    BY <2>2, <2>3, <2>4
<1> QED
  BY <1>2 DEF KnowsDown

LEMMA DownSkips ==
  ASSUME CaptureContext, [Next]_vars, ErrorsClean, KnowsDown(Top),
         SkipGoInMain \/ FinishGo \/ SkipCall
  PROVE  \E u : DownStep(u)
<1>1. Walking /\ IInv /\ UNCHANGED errs
  BY CaptureContextHas DEF SkipGoInMain, FinishGo, SkipCall, Skipped, HasCall
<1>2. Top \in Frame /\ Top.fn \in Fn /\ ErrorsClean'
  BY <1>1, WalkingHas, ErrorsStay
<1>3. CASE SkipGoInMain \/ FinishGo
  <2> DEFINE u == NextNode(Top)
  <2>1. WalkStep(u)
    BY <1>1, <1>3, SkipGoInMainWalks, FinishGoWalks
  <2>2. u.fn = Top.fn /\ u.call = 1
    BY <1>2 DEF NextNode, Frame
  <2> HIDE DEF u
  <2>3. KnowsDown(u)
    BY <1>2, <2>2, AtStartKnows
  <2> QED
    BY <1>2, <2>1, <2>3 DEF DownStep
<1>4. CASE SkipCall
  <2> DEFINE u == NextCall(Top)
  <2>1. WalkStep(u)
    BY <1>1, <1>4, SkipCallWalks
  <2>2. u.fn = Top.fn /\ u.pc = Top.pc /\ u.call = Top.call + 1 /\ u.down = Top.down
    BY <1>2 DEF NextCall, Frame
  <2>3. ~Blames(Top.fn, Top.pc, Top.call)
    BY <1>1, <1>4, BlamedHandled DEF SkipCall, Skipped, IsStmt
  <2> HIDE DEF u
  <2>4. KnowsDown(u)
    BY <1>1, <2>2, <2>3, NextCallKnows
  <2> QED
    BY <1>2, <2>1, <2>4 DEF DownStep
<1> QED
  BY <1>3, <1>4

LEMMA DownLiterals ==
  ASSUME CaptureContext, [Next]_vars, ErrorsClean,
         TraceGoLiteral \/ TraceLiteralAssignment
  PROVE  \E u : DownStep(u)
<1>1. Walking /\ IInv /\ UNCHANGED errs
  BY CaptureContextHas DEF TraceGoLiteral, TraceLiteralAssignment
<1>2. Top \in Frame /\ Top.fn \in Fn /\ ErrorsClean'
  BY <1>1, WalkingHas, ErrorsStay
<1>3. CASE TraceGoLiteral
  <2> DEFINE t == AfterCall(Top, TopNode.outer, TRUE)
             u == NextNode(t)
  <2>1. WalkStep(u)
    BY <1>1, <1>3, TraceGoLiteralWalks
  <2>2. t \in Frame /\ t.fn = Top.fn
    <3>1. Continues(t, Top)
      BY <1>2, AfterCallContinues, ZenonT(60)
    <3> HIDE DEF t
    <3> QED
      BY <3>1 DEF Continues, Same
  <2> HIDE DEF t
  <2>3. u.fn = Top.fn /\ u.call = 1
    BY <2>2 DEF NextNode, Frame
  <2> HIDE DEF u
  <2>4. KnowsDown(u)
    BY <1>2, <2>3, AtStartKnows
  <2> QED
    BY <1>2, <2>1, <2>4 DEF DownStep
<1>4. CASE TraceLiteralAssignment
  <2> DEFINE v == Top.litVars \cup {TopNode.lit}
             t == [Top EXCEPT !.litVars = @ \cup {TopNode.lit}]
             u == NextNode(t)
  <2>1. WalkStep(u)
    BY <1>1, <1>4, TraceLiteralAssignmentWalks
  <2>2. u.fn = Top.fn /\ u.call = 1
    BY <1>2 DEF NextNode, Frame
  <2> HIDE DEF u
  <2>3. KnowsDown(u)
    BY <1>2, <2>2, AtStartKnows
  <2> QED
    BY <1>2, <2>1, <2>3 DEF DownStep
<1> QED
  BY <1>3, <1>4

LEMMA DownGoCall ==
  ASSUME CaptureContext, [Next]_vars, ErrorsClean, TraceGoCall
  PROVE  \E u : DownStep(u)
<1>1. Walking /\ IInv /\ UNCHANGED errs /\ TopNode.kind = "go"
  BY CaptureContextHas DEF TraceGoCall, HasCall
<1>2. /\ Top \in Frame /\ Top.fn \in Fn /\ TopNode = app.body[Top.fn][Top.pc]
      /\ ErrorsClean'
  BY <1>1, WalkingHas, ErrorsStay
<1> DEFINE t == AfterCall(Top, TopNode.outer, TRUE)
           u == NextCall(t)
<1>3. WalkStep(u)
  BY <1>1, TraceGoCallWalks
<1>4. t \in Frame /\ t.fn = Top.fn /\ t.pc = Top.pc
  <2>1. Continues(t, Top)
    BY <1>2, AfterCallContinues, ZenonT(60)
  <2>2. t.pc = Top.pc
    BY <1>2 DEF AfterCall, Frame
  <2> HIDE DEF t
  <2> QED
    BY <2>1, <2>2 DEF Continues, Same
<1> HIDE DEF t
<1>5. u.fn = Top.fn /\ u.pc = Top.pc
  BY <1>4 DEF NextCall, Frame
<1> HIDE DEF u
<1>6. \A j : ~Blames(Top.fn, Top.pc, j)
  BY <1>1, <1>2, BlamedIs
<1>7. KnowsDown(u)
  BY <1>5, <1>6 DEF KnowsDown
<1> QED
  BY <1>2, <1>3, <1>7 DEF DownStep

(* A call whose function is traced or under way is not the first one; the  *)
(* walk of any other is started, and remembered.                           *)
LEMMA DownCall ==
  ASSUME CaptureContext, [Next]_vars, ErrorsClean, StartedBelow, KnowsDown(Top), TraceCall
  PROVE  \E u : DownStep(u)
<1>1. Walking /\ IInv /\ UNCHANGED errs
  BY CaptureContextHas DEF TraceCall, HasCall
<1>2. /\ Top \in Frame /\ Top.fn \in Fn /\ Top.pc \in Nodes(Top.fn)
      /\ Top.pc \in Nat \ {0} /\ Len(stack) \in DOMAIN stack /\ Top = stack[Len(stack)]
      /\ ErrorsClean' /\ MarksOK
  BY <1>1, WalkingHas, ErrorsStay, CaptureContextHas
<1> DEFINE u == CallerFrame
           g == app.to[TopCall]
<1>3. WalkStep(u)
  BY <1>1, TraceCallWalks
<1>4. /\ u.fn = Top.fn /\ u.pc = Top.pc /\ u.call = Top.call + 1
      /\ Top.down \/ ShouldInstrument(TopCall) => u.down
  <2>1. u.fn = Top.fn /\ u.pc = Top.pc /\ u.call = Top.call + 1
    BY <1>2, CallFrameContinues DEF Continues, Same
  <2> DEFINE t == AfterCall(Top, TopCall, FALSE)
  <2>2. t \in Frame /\ t.down = Top.down
    <3>1. Continues(t, Top)
      BY <1>2, AfterCallContinues, ZenonT(60)
    <3>2. t.down = Top.down
      BY <1>2 DEF AfterCall, Frame
    <3> QED
      BY <3>1, <3>2, Zenon DEF Continues
  <2> HIDE DEF t
  <2>3. Top.down \/ ShouldInstrument(TopCall) => u.down
    <3> DEFINE v == NextCall(t)
               d == v.definedTxn \/ Wraps(Top)
               c == [v EXCEPT !.started = TRUE, !.definedTxn = d]
               w == [c EXCEPT !.down = TRUE]
    <3>1. v \in Frame /\ v.down = Top.down
      <4>1. Continues(v, t)
        BY <2>2, NextCallContinues, Zenon
      <4>2. v.down = t.down
        BY <2>2 DEF NextCall, Frame
      <4> QED
        BY <2>2, <4>1, <4>2, Zenon DEF Continues
    <3>2. CallFrame = c
      <4> HIDE DEF v
      <4> QED
        BY <3>1 DEF CallFrame, t, v, Frame
    <3> HIDE DEF v
    <3>3. d \in BOOLEAN
      BY Zenon
    <3> HIDE DEF d
    <3>4. c \in Frame /\ c.down = v.down
      BY <3>1, <3>3 DEF Frame
    <3> HIDE DEF c
    <3>5. w.down = TRUE /\ c.down \in BOOLEAN
      BY <3>4 DEF Frame
    <3>6. u = IF ShouldInstrument(TopCall) THEN w ELSE c
      BY <3>2 DEF CallerFrame
    <3> HIDE DEF u, w
    <3>7. CASE ShouldInstrument(TopCall)
      BY <3>5, <3>6, <3>7
    <3>8. CASE ~ShouldInstrument(TopCall)
      BY <3>1, <3>4, <3>6, <3>8, Zenon
    <3> QED
      BY <3>7, <3>8
  <2> QED
    BY <2>1, <2>3
<1> HIDE DEF u
<1>5. ASSUME Blames(Top.fn, Top.pc, Top.call), ~ShouldInstrument(TopCall)
      PROVE  Top.down
  <2>1. /\ g = Callee(Top.fn, Top.pc, Top.call) /\ InvDecl(TopCall) # NoFn
        /\ g \in Fn /\ IsDeclared(g) /\ g \notin app.hasTxn
        /\ Top.call \in DOMAIN app.body[Top.fn][Top.pc].calls
    BY <1>1, <1>5, BlamedHandled, BlamedIs DEF Blames
  <2>2. Entry(g).traced
    BY <1>5, <2>1 DEF ShouldInstrument
  <2>3. g \in Covered
    BY <1>2, <2>1, <2>2 DEF MarksOK, Covered
  <2>4. PICK l \in DOMAIN app.body[Top.fn][Top.pc].calls :
          Callee(Top.fn, Top.pc, l) = g /\ PassedCall(Top.fn, Top.pc, l)
    BY <1>2, <1>5, <2>1, <2>3 DEF StartedBelow
  <2>5. PastCall(Top, Top.pc, l)
    BY <1>2, <2>4 DEF PassedCall
  <2>6. l < Top.call
    BY <1>2, <2>5 DEF PastCall
  <2>7. Blames(Top.fn, Top.pc, l)
    BY <1>5, <2>1, <2>4 DEF Blames
  <2> QED
    BY <1>2, <2>4, <2>6, <2>7 DEF KnowsDown
<1>6. KnowsDown(u)
  BY <1>1, <1>4, <1>5, NextCallKnows
<1> QED
  BY <1>2, <1>3, <1>6 DEF DownStep

(* An error comes from a statement none of whose calls is traced.          *)
LEMMA DownStatement ==
  ASSUME CaptureContext, [Next]_vars, ErrorsClean, KnowsDown(Top), FinishStatement
  PROVE  \E u : DownStep(u)
<1>1. Walking /\ IInv /\ TypeOK /\ app' = app /\ Top.call \notin DOMAIN TopNode.calls
  BY CaptureContextHas, WaitingShrinks DEF FinishStatement
<1>2. /\ Top \in Frame /\ Top.fn \in Fn /\ Top.fn \in Reachable(app)
      /\ Top.pc \in Nodes(Top.fn) /\ TopNode = app.body[Top.fn][Top.pc]
      /\ TopNode \in Node /\ Top.call \in Nat \ {0} /\ TopNode.calls \in Seq(Site)
      /\ Top.kind = "main" <=> Top.fn \in app.mains
  BY <1>1, WalkingHas
<1>3. WalkStep(StatementFrame)
  BY <1>1, FinishStatementWalks
<1>4. StatementFrame.fn = Top.fn /\ StatementFrame.call = 1
  BY <1>2, StatementFrameContinues DEF Continues, Same
<1>5. ASSUME NEW e, Comes(Top, TopNode, e)
      PROVE  Clean(e)
  <2>1. ASSUME NEW j \in DOMAIN TopNode.calls, Callee(Top.fn, Top.pc, j) \in Instrumented
        PROVE  FALSE
    <3>1. Blames(Top.fn, Top.pc, j)
      BY <1>2, <1>5, <2>1 DEF Blames, Comes
    <3>2. j < Top.call
      <4> DEFINE c == TopNode.calls
                 b == Top.call
      <4>1. c \in Seq(Site) /\ j \in DOMAIN c /\ b \in Nat \ {0} /\ b \notin DOMAIN c
        BY <1>1, <1>2
      <4> HIDE DEF c, b
      <4>2. j < b
        BY <4>1
      <4> QED
        BY <4>2 DEF b
    <3> QED
      BY <1>2, <1>5, <2>1, <3>1, <3>2 DEF KnowsDown, Comes
  <2> QED
    BY <1>2, <1>5, <2>1 DEF Clean, Comes
<1>6. ErrorsClean'
  <2> DEFINE y == NoticeError(Top, TopNode)
  <2>1. /\ y.cache \in {errorCache, NoErr} \/ Comes(Top, TopNode, y.cache)
        /\ \A n \in y.noticed : \/ n \in noticed
                                \/ n.err = errorCache /\ errorCache # NoErr
                                \/ Comes(Top, TopNode, n.err)
    BY <1>1, <1>2, NoticeComes
  <2>2. errorCache' = y.cache /\ noticed' = y.noticed
    BY DEF FinishStatement, SetErrors
  <2> HIDE DEF y
  <2>3. errorCache' # NoErr => Clean(errorCache')
    BY <1>5, <2>1, <2>2 DEF ErrorsClean
  <2>4. \A n \in noticed' : Clean(n.err)
    BY <1>5, <2>1, <2>2 DEF ErrorsClean
  <2>5. \A e : Clean(e)' <=> Clean(e)
    BY <1>1, CaptureSteady
  <2> QED
    BY <2>3, <2>4, <2>5 DEF ErrorsClean
<1>7. KnowsDown(StatementFrame)
  BY <1>2, <1>4, AtStartKnows
<1> QED
  BY <1>3, <1>6, <1>7 DEF DownStep

(* What a step does, as far as errors are concerned.                       *)
LEMMA DownCases ==
  ASSUME CaptureContext, [Next]_vars, ErrorsClean, StartedBelow,
         stack # << >> => KnowsDown(Top)
  PROVE  \/ \E p \in Pkg : StartPackage(p)
         \/ VisitMain \/ VisitDecl
         \/ BeginFunction
         \/ \E u : DownStep(u)
         \/ EndFunction
         \/ UNCHANGED vars
<1> DEFINE Goal == \E u : DownStep(u)
<1>1. /\ SkipGoInMain \/ FinishGo \/ SkipCall => Goal
      /\ TraceGoLiteral \/ TraceLiteralAssignment => Goal
      /\ TraceGoCall => Goal
      /\ TraceCall => Goal
      /\ FinishStatement => Goal
  <2>1. SkipGoInMain \/ FinishGo \/ SkipCall \/ FinishStatement \/ TraceLiteralAssignment
        \/ TraceGoLiteral \/ TraceGoCall \/ TraceCall => stack # << >>
    BY DEF SkipGoInMain, FinishGo, SkipCall, Skipped, HasCall, FinishStatement,
           TraceLiteralAssignment, TraceGoLiteral, TraceGoCall, TraceCall, Walking, Running
  <2> QED
    BY <2>1, DownSkips, DownLiterals, DownGoCall, DownCall, DownStatement
<1> HIDE DEF Goal
<1>2. \/ \E p \in Pkg : StartPackage(p)
      \/ VisitMain \/ VisitDecl
      \/ BeginFunction
      \/ Goal
      \/ EndFunction
      \/ UNCHANGED vars
  BY <1>1 DEF Next, Walk, Halt
<1> QED
  BY <1>2 DEF Goal

-----------------------------------------------------------------------------
(* The invariant of the capture.                                           *)

(* An activation is left as it was, begins, or is the one that walks.      *)
LEMMA WalkMoves ==
  ASSUME ShapedInv, NEW u, WalkStep(u), ~crashed', NEW k \in DOMAIN stack'
  PROVE  \/ k \in DOMAIN stack /\ stack'[k] = stack[k]
         \/ stack'[k] = u
         \/ IsFresh(stack'[k])
<1> DEFINE n == Len(stack)
<1>1. /\ n \in Nat \ {0} /\ DOMAIN stack = 1 .. n /\ n \in 1 .. n
      /\ \/ DOMAIN stack' = 1 .. n /\ Below(n, u)
         \/ \E g \in Fn, kind \in FrameKind :
              /\ DOMAIN stack' = 1 .. n + 1 /\ Below(n, u)
              /\ stack'[n + 1] = NewFrame(g, kind, currentPackage)
  BY WalkStack DEF ShapedInv
<1>2. ASSUME k \in 1 .. n
      PROVE  (k \in DOMAIN stack /\ stack'[k] = stack[k]) \/ stack'[k] = u
  <2>1. stack'[k] = IF k = n THEN u ELSE stack[k]
    BY <1>1, <1>2 DEF Below
  <2> QED
    BY <1>1, <1>2, <2>1
<1>3. ASSUME NEW g, NEW kind, stack'[n + 1] = NewFrame(g, kind, currentPackage)
      PROVE  IsFresh(stack'[n + 1])
  BY <1>3 DEF IsFresh, NewFrame
<1>4. k \in 1 .. n \/ (k = n + 1 /\ \E g \in Fn, kind \in FrameKind :
                          stack'[n + 1] = NewFrame(g, kind, currentPackage))
  <2> HIDE DEF n
  <2> QED
    BY <1>1
<1> HIDE DEF n
<1> QED
  BY <1>2, <1>3, <1>4

LEMMA KnowsDownKept ==
  ASSUME CaptureContext, [Next]_vars, ~crashed', ErrorsClean, StartedBelow,
         \A k \in DOMAIN stack : KnowsDown(stack[k]), NEW k \in DOMAIN stack'
  PROVE  KnowsDown(stack'[k])
<1>0. /\ ShapedInv /\ IInv /\ TypeOK /\ Rooted /\ app' = app
      /\ \A m \in DOMAIN stack' : stack'[m] \in Frame /\ stack'[m].fn \in Fn
      /\ stack # << >> => KnowsDown(Top)
  <2>1. ShapedInv' /\ ShapedInv /\ IInv /\ TypeOK /\ Rooted /\ app' = app
    BY CaptureContextHas, ShapedInductive, WaitingShrinks
  <2>2. \A m \in DOMAIN stack' : stack'[m] \in Frame
    BY <2>1 DEF ShapedInv, IInv, TypeOK, ControlTypeOK
  <2>3. \A m \in DOMAIN stack' : stack'[m].fn \in Fn
    BY <2>2 DEF Frame
  <2> QED
    BY <2>1, <2>2, <2>3, TopKnown
<1>1. ASSUME stack'[k].call = 1 PROVE KnowsDown(stack'[k])
  BY <1>0, <1>1, AtStartKnows
<1>2. CASE UNCHANGED vars \/ \E p \in Pkg : StartPackage(p)
  BY <1>2 DEF StartPackage, vars
<1>3. CASE VisitMain \/ VisitDecl
  <2>1. \E f, kind : stack' = <<NewFrame(f, kind, currentPackage)>>
    BY <1>3 DEF VisitMain, VisitDecl
  <2>2. PICK f, kind : stack' = <<NewFrame(f, kind, currentPackage)>>
    BY <2>1
  <2> DEFINE v == NewFrame(f, kind, currentPackage)
  <2>3. v.call = 1
    BY DEF NewFrame
  <2>4. stack' = <<v>>
    BY <2>2
  <2> HIDE DEF v
  <2>5. stack'[k] = v
    BY <2>4
  <2> QED
    BY <1>1, <2>3, <2>5
<1>4. CASE BeginFunction
  <2>1. stack # << >> /\ Top.pc = 0
    BY <1>4 DEF BeginFunction, Running
  <2>2. PICK u \in Frame : stack' = SetTop(u) /\ u.call = Top.call
    BY <1>0, <1>4, BeginFunctionMoves
  <2>3. u.call = 1
    BY <1>0, <2>1, <2>2, TopKnown DEF RootedFrames
  <2>4. /\ DOMAIN stack' = DOMAIN stack
        /\ \A m \in DOMAIN stack : stack'[m] = IF m = Len(stack) THEN u ELSE stack[m]
    BY <1>0, <2>1, <2>2, TopReplaced
  <2> QED
    BY <1>1, <2>3, <2>4
<1>5. ASSUME NEW u, DownStep(u) PROVE KnowsDown(stack'[k])
  BY <1>0, <1>1, <1>5, WalkMoves DEF DownStep, IsFresh
<1>6. CASE EndFunction
  <2>1. stack # << >> /\ stack' = SubSeq(stack, 1, Len(stack) - 1)
    BY <1>6 DEF EndFunction, Running
  <2> QED
    BY <1>0, <2>1, TopPopped
<1> QED
  BY <1>0, <1>2, <1>3, <1>4, <1>5, <1>6, DownCases

(* What is covered from now on is covered already, or starts in this step. *)
LEMMA CoveredComes ==
  ASSUME CaptureContext, [Next]_vars, NEW g \in Covered', g \notin RootsOf(app)
  PROVE  g \in Covered \/ \E k \in DOMAIN stack' : BegunAt(k) /\ stack'[k].fn = g
<1>0. ShapedInv /\ IInv /\ Rooted /\ app' = app /\ RootsOf(app)' = RootsOf(app)
  BY CaptureContextHas, TracedGrows
<1>1. CASE g \in OnStack'
  <2>1. PICK k \in DOMAIN stack' : stack'[k].fn = g
    BY <1>1 DEF OnStack
  <2>2. CASE StaysAt(k)
    BY <2>1, <2>2 DEF StaysAt, OnStack, Covered
  <2>3. CASE RootAt(k)
    BY <1>0, <2>1, <2>3, RootIsTraceRoot
  <2> QED
    BY <1>0, <2>1, <2>2, <2>3, FramesCome
<1>2. CASE g \in Fn /\ segments'[g] > 0
  <2>1. CASE UNCHANGED segments
    BY <1>2, <2>1 DEF Covered, Traced
  <2>2. CASE BeginFunction
    <3>1. CASE g = Top.fn
      <4>1. stack # << >>
        BY <2>2 DEF BeginFunction, Running
      <4> QED
        BY <1>0, <3>1, <4>1, TopKnown DEF Covered
    <3>2. CASE g # Top.fn
      BY <1>0, <1>2, <2>2, <3>2, BeginText DEF Covered, Traced
    <3> QED
      BY <3>1, <3>2
  <2> QED
    BY <1>0, <2>1, <2>2, DeclTextStep
<1> QED
  BY <1>0, <1>1, <1>2 DEF Covered, Traced

(* A function that is called where its error originates starts there or    *)
(* further down.                                                           *)
LEMMA StartedBelowKept ==
  ASSUME CaptureContext, [Next]_vars, ~crashed', StartedBelow
  PROVE  StartedBelow'
<1>0. /\ ShapedInv /\ IInv /\ TablesNamed /\ NamesUnique(app) /\ OnceInv /\ Acyclic(app)
      /\ app \in Apps /\ app' = app
  BY CaptureContextHas, WaitingShrinks
<1>1. ASSUME NEW f \in Fn, NEW i \in Nodes(f), NEW j \in DOMAIN app.body[f][i].calls,
             Blames(f, i, j), Callee(f, i, j) \in Covered'
      PROVE  \E l \in DOMAIN app.body[f][i].calls :
               Callee(f, i, l) = Callee(f, i, j) /\ PassedCall(f, i, l)'
  <2> DEFINE g == Callee(f, i, j)
  <2>1. /\ g \notin RootsOf(app) /\ g \notin app.lits /\ i \in Nat \ {0}
        /\ \A h \in Fn : \A k \in Nodes(h) : \A l \in DOMAIN app.body[h][k].calls :
             Callee(h, k, l) = g => h = f /\ k >= i
    BY <1>1, BlamedIs
  <2>2. CASE g \in Covered
    <3>1. PICK l \in DOMAIN app.body[f][i].calls :
            Callee(f, i, l) = g /\ PassedCall(f, i, l)
      BY <1>1, <2>2 DEF StartedBelow
    <3>2. PassedCall(f, i, l)'
      BY <1>0, <3>1, PassedCallKept
    <3> QED
      BY <3>1, <3>2
  <2>3. ASSUME NEW k \in DOMAIN stack', BegunAt(k), stack'[k].fn = g
        PROVE  \E l \in DOMAIN app.body[f][i].calls :
                 Callee(f, i, l) = g /\ PassedCall(f, i, l)'
    <3>1. PICK u : WalkStep(u) /\ Begins(u, g, stack'[k].kind)
      BY <2>3 DEF BegunAt
    <3>2. Walking /\ u.fn = Top.fn
      BY <3>1 DEF WalkStep, Continues, Same
    <3>3. /\ Top.fn \in Fn /\ Top.pc \in Nodes(Top.fn) /\ Top.pc \in Nat \ {0}
          /\ TopNode = app.body[Top.fn][Top.pc] /\ TopNode \in Node
          /\ Top.call \in Nat \ {0}
      BY <3>2, WalkingHas
    <3>4. /\ AtNextCall(u) /\ ShouldInstrument(TopCall) /\ g = InvDecl(TopCall)
          /\ Top.call \in DOMAIN TopNode.calls
      <4>1. \/ HoldsLiteral(TopNode) /\ g = TopNode.lit
            \/ AtNextCall(u) /\ ShouldInstrument(TopCall) /\ g = InvDecl(TopCall)
        BY <3>1 DEF Begins
      <4>2. ~(HoldsLiteral(TopNode) /\ g = TopNode.lit)
        BY <1>0, <2>1, <3>3, AppTyped DEF WellFormed, Nodes
      <4> QED
        BY <4>1, <4>2 DEF AtNextCall
    <3>5. TopCall \in Site
      BY <3>3, <3>4, CallTyped DEF TopCall
    <3>6. app.to[TopCall] = g
      BY <1>0, <3>4, <3>5, ResolvesTo DEF ShouldInstrument
    <3>7. Callee(Top.fn, Top.pc, Top.call) = g
      BY <3>3, <3>6 DEF Callee, TopCall
    <3>8. f = Top.fn /\ Top.pc >= i
      BY <2>1, <3>3, <3>4, <3>7
    <3>9. u.pc = Top.pc /\ u.call = Top.call + 1
      BY <3>4 DEF AtNextCall
    <3>10. CASE i = Top.pc
      <4>1. PICK l \in DOMAIN app.body[f][i].calls : l = Top.call
        BY <3>3, <3>4, <3>8, <3>10
      <4>2. Top.call < u.call
        BY <3>3, <3>9
      <4>3. PastCall(u, i, l)
        BY <3>2, <3>3, <3>4, <3>9, <3>10, <4>1, <4>2 DEF PastCall
      <4>4. PassedCall(f, i, l)'
        BY <1>0, <3>1, <3>8, <4>3, PassedNow
      <4> QED
        BY <3>7, <3>8, <3>10, <4>1, <4>4
    <3>11. CASE i # Top.pc
      <4>1. i < u.pc
        BY <2>1, <3>3, <3>8, <3>9, <3>11
      <4>2. PastCall(u, i, j)
        BY <4>1 DEF PastCall
      <4>3. PassedCall(f, i, j)'
        BY <1>0, <3>1, <3>8, <4>2, PassedNow
      <4> QED
        BY <1>1, <4>3
    <3> QED
      BY <3>10, <3>11
  <2> QED
    BY <1>1, <2>1, <2>2, <2>3, CoveredComes
<1>2. \A f, i, j : /\ Blames(f, i, j)' <=> Blames(f, i, j)
                   /\ Callee(f, i, j)' = Callee(f, i, j)
  BY <1>0, CaptureSteady
<1>3. \A f : Nodes(f)' = Nodes(f)
  BY <1>0, PlacesSteady
<1> QED
  BY <1>0, <1>1, <1>2, <1>3 DEF StartedBelow

LEMMA CaptureInvKept ==
  ASSUME CaptureContext, CaptureInv, [Next]_vars
  PROVE  CaptureInv'
<1>0. ShapedInv /\ IInv /\ Rooted /\ app' = app /\ ErrorsClean
  BY CaptureContextHas, WaitingShrinks DEF CaptureInv
<1>1. CASE crashed
  <2>1. UNCHANGED vars
    BY <1>0, <1>1, CrashStays
  <2>2. crashed' /\ UNCHANGED errs
    BY <1>1, <2>1 DEF vars, control
  <2> QED
    BY <1>0, <2>2, ErrorsStay DEF CaptureInv
<1>2. CASE ~crashed
  <2>1. StartedBelow /\ \A k \in DOMAIN stack : KnowsDown(stack[k])
    BY <1>2 DEF CaptureInv
  <2>2. stack # << >> => KnowsDown(Top)
    BY <1>0, <2>1, TopKnown
  <2>3. ErrorsClean'
    <3>1. \A p \in Pkg : StartPackage(p) => UNCHANGED errs
      BY DEF StartPackage
    <3>2. VisitMain \/ VisitDecl \/ BeginFunction \/ UNCHANGED vars => UNCHANGED errs
      BY DEF VisitMain, VisitDecl, BeginFunction, vars
    <3>3. CASE EndFunction
      <4>1. errorCache' = NoErr
        BY <1>0, <3>3, ErrorsEnd
      <4>2. noticed' = noticed
        BY <3>3 DEF EndFunction, SetErrors, ReportedError, ErrNow
      <4> QED
        BY <1>0, <4>1, <4>2, CaptureSteady DEF ErrorsClean
    <3>4. \A u : DownStep(u) => ErrorsClean'
      BY DEF DownStep
    <3> QED
      BY <1>0, <2>1, <2>2, <3>1, <3>2, <3>3, <3>4, DownCases, ErrorsStay
  <2>4. ASSUME ~crashed'
        PROVE  StartedBelow' /\ \A k \in DOMAIN stack' : KnowsDown(stack[k])'
    <3>1. \A k \in DOMAIN stack' : KnowsDown(stack'[k])
      BY <1>0, <2>1, <2>4, KnowsDownKept
    <3>2. \A t : KnowsDown(t)' <=> KnowsDown(t)
      BY <1>0, CaptureSteady
    <3>3. ASSUME NEW k \in DOMAIN stack' PROVE KnowsDown(stack[k])'
      <4>1. PICK t : t = stack'[k]
        OBVIOUS
      <4>2. KnowsDown(t)'
        BY <3>1, <3>2, <4>1
      <4> QED
        BY <4>1, <4>2
    <3> QED
      BY <2>1, <2>4, <3>3, StartedBelowKept
  <2> QED
    BY <2>3, <2>4 DEF CaptureInv
<1> QED
  BY <1>1, <1>2

LEMMA CaptureInvInitially ==
  ASSUME Init
  PROVE  CaptureInv
<1>1. /\ stack = << >> /\ errorCache = NoErr /\ noticed = {} /\ app \in Apps
      /\ \A f \in Fn : segments[f] = 0
  BY DEF Init
<1>2. ErrorsClean
  BY <1>1 DEF ErrorsClean
<1>3. Covered \subseteq RootsOf(app)
  BY <1>1 DEF Covered, Traced, OnStack
<1>4. \A f, i, j : Blames(f, i, j) => Callee(f, i, j) \notin RootsOf(app)
  BY DEF Blames, Instrumented
<1>5. StartedBelow
  BY <1>3, <1>4 DEF StartedBelow
<1> QED
  BY <1>1, <1>2, <1>5 DEF CaptureInv

(* The inductive invariant: when a walk finishes a statement an error can  *)
(* come from it knows whether a callee has captured it, because no such    *)
(* callee is traced anywhere before; so no error held or captured is one   *)
(* that a traced callee has captured itself.                               *)
THEOREM CaptureHolds ==
  Spec => [](NoRecursion(app) /\ Traceable(app) /\ ErrorsOfFirstCalls(app) => CaptureInv)
<1> DEFINE J == NoRecursion(app) /\ Traceable(app) /\ ErrorsOfFirstCalls(app) => CaptureInv
           T == Traceable(app) => TraceInv
           O == NoRecursion(app) => OnceInv
<1>1. Init => J
  BY CaptureInvInitially
<1>2. ShapedInv /\ AgentInv /\ T /\ O /\ J /\ [Next]_vars => J'
  <2> SUFFICES ASSUME ShapedInv, AgentInv, T, O, J, [Next]_vars,
                      NoRecursion(app)', Traceable(app)', ErrorsOfFirstCalls(app)'
               PROVE  CaptureInv'
    OBVIOUS
  <2>1. app' = app
    BY WaitingShrinks DEF ShapedInv
  <2>2. NoRecursion(app) /\ Traceable(app) /\ ErrorsOfFirstCalls(app)
    BY <2>1
  <2>3. CaptureContext /\ CaptureInv
    BY <2>2 DEF CaptureContext, NoRecursion
  <2> QED
    BY <2>3, CaptureInvKept
<1> QED
  BY <1>1, <1>2, Shaped, Agents, Tracing, Once, PTL DEF Spec

(* An error that a traced function returns is captured inside it and not   *)
(* again by its callers, in an application in which the statement that     *)
(* takes the error over is the first to call the function: whoever calls   *)
(* it later finds it traced already and captures its error once more.      *)
THEOREM CapturedAtRootHolds ==
  Spec => [](NoRecursion(app) /\ Traceable(app) /\ ErrorsOfFirstCalls(app) => CapturedAtRoot)
<1>1. ASSUME ShapedInv, TracesReachable, CaptureInv
      PROVE  CapturedAtRoot
  <2> SUFFICES ASSUME Finished, NEW n \in noticed,
                      NEW j \in DOMAIN app.body[n.err.fn][n.err.node].calls
               PROVE  segments[Callee(n.err.fn, n.err.node, j)] = 0
    BY DEF CapturedAtRoot, Callee
  <2> DEFINE f == n.err.fn
             i == n.err.node
             g == Callee(f, i, j)
  <2>1. f \in Fn /\ i \in Nodes(f) /\ g \notin Instrumented /\ app \in Apps
    BY <1>1 DEF CaptureInv, ErrorsClean, Clean, ShapedInv, IInv
  <2>2. g \in Fn
    <3>1. app.body[f][i] \in Node
      BY <2>1, NodeTyped DEF Nodes
    <3>2. app.body[f][i].calls[j] \in Site
      BY <3>1, CallTyped
    <3> QED
      BY <2>1, <3>2, AppTyped DEF AppType, Callee
  <2>3. ~(segments[g] > 0)
    BY <1>1, <2>1, <2>2 DEF TracesReachable, Instrumented
  <2>4. segments[g] \in Nat
    BY <1>1, <2>2, TextTyped
  <2> HIDE DEF g
  <2>5. segments[g] = 0
    BY <2>3, <2>4
  <2> QED
    BY <2>5 DEF g
<1> DEFINE P == NoRecursion(app) /\ Traceable(app) /\ ErrorsOfFirstCalls(app)
<1>2. /\ ShapedInv /\ (Traceable(app) => TracesReachable) /\ (P => CaptureInv)
      => (P => CapturedAtRoot)
  BY <1>1
<1> QED
  BY <1>2, Shaped, TracesReachableHolds, CaptureHolds, PTL

=============================================================================
