----------------------- MODULE TracesReachable_proofs -----------------------
(***************************************************************************)
(* Proofs about TraceFunction: which main gets the agent, that the         *)
(* function that sets it up is left alone, that the pass traces what can   *)
(* be reached from the roots, no less and no more, and that the            *)
(* transaction it mentions is in scope.                                    *)
(***************************************************************************)
EXTENDS TracedOnce_proofs

-----------------------------------------------------------------------------
(* The declarations of a package are visited in file order.                *)

RootsAreLast ==
  roots # << >> =>
    \E p \in Pkg, d \in Nat :
      /\ Len(app.decls[p]) = d + Len(roots)
      /\ \A k \in DOMAIN roots : roots[k] = app.decls[p][d + k]
      /\ p \notin pending

AgentInv ==
  /\ RootsAreLast
  /\ setupFunc \in app.creates \cup {NoFn}
  /\ \A f \in app.creates : IsDeclared(f) /\ f \notin Waiting => setupFunc # NoFn
  /\ agentInits # {} /\ AgentSeen(app) => app.creates = {}
  /\ app.creates = {} => \A m \in app.mains : m \in Waiting \/ m \in agentInits

LEMMA RootsAreLastKept ==
  ASSUME IInv, RootsAreLast, [Next]_vars
  PROVE  RootsAreLast'
<1>0. app' = app
  BY WaitingShrinks
<1>1. ASSUME NEW p \in Pkg, StartPackage(p)
      PROVE  RootsAreLast'
  <2>1. /\ roots' = app.decls[p] /\ p \notin pending'
    BY <1>1 DEF StartPackage
  <2>2. app.decls[p] \in Seq(Fn)
    BY DeclTyped DEF IInv
  <2>3. Len(app.decls[p]) = 0 + Len(roots')
    BY <2>1, <2>2
  <2>4. \A k \in DOMAIN roots' : roots'[k] = app.decls[p][0 + k]
    BY <2>1, <2>2
  <2>5. 0 \in Nat
    OBVIOUS
  <2> QED
    BY <1>0, <2>1, <2>3, <2>4, <2>5 DEF RootsAreLast
<1>2. ASSUME roots # << >>, roots' = Tail(roots), pending' = pending
      PROVE  RootsAreLast'
  <2>1. PICK p \in Pkg, d \in Nat :
          /\ Len(app.decls[p]) = d + Len(roots)
          /\ \A k \in DOMAIN roots : roots[k] = app.decls[p][d + k]
          /\ p \notin pending
    BY <1>2 DEF RootsAreLast
  <2>2. roots \in Seq(Fn)
    BY DEF IInv, TypeOK, ControlTypeOK
  <2>3. /\ Len(roots') = Len(roots) - 1 /\ Len(roots) \in Nat
        /\ \A k \in DOMAIN roots' :
             k \in Nat /\ k + 1 \in DOMAIN roots /\ roots'[k] = roots[k + 1]
    BY <1>2, <2>2
  <2>4. d + 1 \in Nat /\ Len(app.decls[p]) = (d + 1) + Len(roots')
    BY <2>1, <2>3
  <2>5. ASSUME NEW k \in DOMAIN roots'
        PROVE  roots'[k] = app.decls[p][(d + 1) + k]
    <3>1. roots'[k] = app.decls[p][d + (k + 1)]
      BY <2>1, <2>3
    <3>2. d + (k + 1) = (d + 1) + k
      BY <2>3
    <3> QED
      BY <3>1, <3>2
  <2> QED
    BY <1>0, <1>2, <2>1, <2>4, <2>5 DEF RootsAreLast
<1>3. ASSUME UNCHANGED <<roots, pending>>
      PROVE  RootsAreLast'
  BY <1>0, <1>3 DEF RootsAreLast
<1>4. VisitMain \/ VisitDecl => roots # << >> /\ roots' = Tail(roots) /\ pending' = pending
  BY DEF VisitMain, VisitDecl
<1>5. BeginFunction \/ EndFunction \/ UNCHANGED vars => UNCHANGED <<roots, pending>>
  BY DEF BeginFunction, EndFunction, vars, control
<1>6. \A u : WalkStep(u) => UNCHANGED <<roots, pending>>
  BY DEF WalkStep
<1> QED
  BY <1>1, <1>2, <1>3, <1>4, <1>5, <1>6, StepCases

(* When a declaration is visited, those above it in its package have been. *)
LEMMA VisitedInOrder ==
  ASSUME ShapedInv, RootsAreLast, roots # << >>,
         NEW q \in Pkg, NEW i \in DOMAIN app.decls[q], NEW j \in DOMAIN app.decls[q],
         i < j, app.decls[q][j] = Head(roots)
  PROVE  app.decls[q][i] \notin Waiting
<1>0. IInv /\ RootsDistinct /\ roots \in Seq(Fn) /\ app \in Apps
  BY DEF ShapedInv, ShapeInv, IInv, TypeOK, ControlTypeOK
<1>1. PICK p \in Pkg, d \in Nat :
        /\ Len(app.decls[p]) = d + Len(roots)
        /\ \A k \in DOMAIN roots : roots[k] = app.decls[p][d + k]
        /\ p \notin pending
  BY DEF RootsAreLast
<1>2. /\ 1 \in DOMAIN roots /\ Head(roots) = roots[1] /\ DOMAIN roots = 1 .. Len(roots)
      /\ Len(roots) \in Nat \ {0}
  BY <1>0
<1>3. app.decls[p] \in Seq(Fn) /\ app.decls[q] \in Seq(Fn)
  BY <1>0, DeclTyped
<1>4. d + 1 \in DOMAIN app.decls[p] /\ app.decls[p][d + 1] = Head(roots)
  BY <1>1, <1>2, <1>3
<1>5. p = q
  BY <1>0, <1>4, ListedIsDeclared
<1>6. j = d + 1 /\ i \in Nat /\ i <= d
  <2>1. j = d + 1
    BY <1>0, <1>4, <1>5, AppTyped DEF WellFormed
  <2> QED
    BY <1>3, <2>1
<1>7. ASSUME app.decls[q][i] \in Visiting PROVE FALSE
  <2>1. PICK k \in DOMAIN roots : roots[k] = app.decls[q][i]
    BY <1>7 DEF Visiting
  <2>2. k \in Nat /\ k >= 1 /\ k <= Len(roots)
    BY <1>2
  <2>3. app.decls[p][d + k] = app.decls[p][i] /\ d + k \in DOMAIN app.decls[p]
    BY <1>1, <1>3, <1>5, <2>1, <2>2
  <2>4. d + k = i
    BY <1>0, <1>5, <2>3, AppTyped DEF WellFormed
  <2> QED
    BY <1>6, <2>2, <2>4
<1>8. app.pkg[app.decls[q][i]] = q
  BY <1>0, ListedIsDeclared
<1> QED
  BY <1>1, <1>5, <1>7, <1>8 DEF Waiting

(* Only a visit ends the waiting of a declaration.                         *)
LEMMA WaitingEnds ==
  ASSUME ShapedInv, [Next]_vars
  PROVE  \/ Waiting \subseteq Waiting'
         \/ (VisitMain \/ VisitDecl) /\ Waiting \subseteq Waiting' \cup {Head(roots)}
<1>0. IInv /\ app' = app
  BY WaitingShrinks DEF ShapedInv
<1>1. ASSUME NEW p \in Pkg, StartPackage(p)
      PROVE  Waiting \subseteq Waiting'
  <2>1. roots = << >> /\ roots' = app.decls[p] /\ pending' = pending \ {p}
    BY <1>1 DEF StartPackage
  <2>2. ASSUME NEW f \in Waiting PROVE f \in Waiting'
    <3>1. f \in Fn /\ IsDeclared(f) /\ app.pkg[f] \in pending
      BY <2>1 DEF Waiting, Visiting
    <3>2. CASE app.pkg[f] = p
      <4>1. PICK i \in DOMAIN app.decls[p] : app.decls[p][i] = f
        BY <3>1, <3>2 DEF IsDeclared
      <4>2. i \in DOMAIN roots' /\ roots'[i] = f
        BY <2>1, <4>1
      <4> QED
        BY <3>1, <4>2 DEF Waiting, Visiting
    <3>3. CASE app.pkg[f] # p
      BY <1>0, <2>1, <3>1, <3>3 DEF Waiting, IsDeclared
    <3> QED
      BY <3>2, <3>3
  <2> QED
    BY <2>2
<1>2. ASSUME VisitMain \/ VisitDecl
      PROVE  Waiting \subseteq Waiting' \cup {Head(roots)}
  <2>1. /\ roots # << >> /\ roots' = Tail(roots) /\ pending' = pending
        /\ roots \in Seq(Fn)
    BY <1>0, <1>2 DEF VisitMain, VisitDecl, IInv, TypeOK, ControlTypeOK
  <2>2. ASSUME NEW k \in DOMAIN roots, roots[k] # Head(roots)
        PROVE  roots[k] \in Visiting'
    <3>1. k # 1 /\ k \in Nat
      BY <2>1, <2>2
    <3>2. k - 1 \in DOMAIN roots' /\ roots'[k - 1] = roots[k]
      BY <2>1, <3>1
    <3> QED
      BY <3>2 DEF Visiting
  <2> QED
    BY <1>0, <2>1, <2>2 DEF Waiting, Visiting, IsDeclared
<1>3. UNCHANGED <<roots, pending>> => Waiting \subseteq Waiting'
  BY <1>0 DEF Waiting, Visiting, IsDeclared
<1>4. BeginFunction \/ EndFunction \/ UNCHANGED vars => UNCHANGED <<roots, pending>>
  BY DEF BeginFunction, EndFunction, vars, control
<1>5. \A u : WalkStep(u) => UNCHANGED <<roots, pending>>
  BY DEF WalkStep
<1> QED
  BY <1>0, <1>1, <1>2, <1>3, <1>4, <1>5, StepCases

LEMMA AgentStep ==
  ASSUME IInv, [Next]_vars
  PROVE  VisitMain \/ VisitDecl \/ UNCHANGED <<setupFunc, agentInits>>
<1>1. \A p \in Pkg : StartPackage(p) => UNCHANGED <<setupFunc, agentInits>>
  BY DEF StartPackage
<1>2. \A u : WalkStep(u) => UNCHANGED <<setupFunc, agentInits>>
  BY DEF WalkStep
<1>3. BeginFunction \/ EndFunction \/ UNCHANGED vars => UNCHANGED <<setupFunc, agentInits>>
  BY DEF BeginFunction, EndFunction, vars, control
<1> QED
  BY <1>1, <1>2, <1>3, StepCases

LEMMA AgentInvKept ==
  ASSUME ShapedInv, AgentInv, [Next]_vars
  PROVE  AgentInv'
<1>0. /\ IInv /\ ShapeInv /\ app' = app /\ Waiting' \subseteq Waiting
      /\ app \in AppType /\ WellFormed(app)
  BY WaitingShrinks, AppTyped DEF ShapedInv, IInv
<1>1. RootsAreLast'
  BY <1>0, RootsAreLastKept DEF AgentInv
<1>2. CASE UNCHANGED <<setupFunc, agentInits>> /\ Waiting \subseteq Waiting'
  BY <1>0, <1>1, <1>2 DEF AgentInv, IsDeclared
<1>3. CASE VisitMain \/ VisitDecl
  <2> DEFINE f == Head(roots)
             s == NotedSetup(f)
  <2>1. /\ f \in Fn /\ IsDeclared(f) /\ f \in Waiting /\ f \notin Waiting'
        /\ Waiting \subseteq Waiting' \cup {f} /\ roots # << >>
    BY <1>0, <1>3, RootTaken, WaitingEnds DEF VisitMain, VisitDecl
  <2>2. /\ setupFunc' = s
        /\ agentInits' = IF f \in app.mains /\ s = NoFn THEN agentInits \cup {f}
                                                       ELSE agentInits
    BY <1>3 DEF VisitMain, VisitDecl
  <2>3. setupFunc \in app.creates \cup {NoFn}
    BY DEF AgentInv
  <2>4. /\ s \in app.creates \cup {NoFn}
        /\ setupFunc # NoFn => s # NoFn
        /\ f \in app.creates => s # NoFn
        /\ app.creates = {} => s = NoFn
    <3>1. app.creates \subseteq Fn /\ NoFn \notin Fn
      BY <1>0, SentinelAssumption DEF AppType
    <3> QED
      BY <2>1, <2>3, <3>1 DEF NotedSetup
  <2> HIDE DEF f, s
  <2>5. ASSUME NEW g \in app.creates, IsDeclared(g), g \notin Waiting'
        PROVE  s # NoFn
    <3>1. CASE g \in Waiting
      BY <2>1, <2>4, <2>5, <3>1
    <3>2. CASE g \notin Waiting
      BY <2>4, <2>5, <3>2 DEF AgentInv
    <3> QED
      BY <3>1, <3>2
  <2>6. ASSUME AgentSeen(app), f \in app.mains, s = NoFn
        PROVE  app.creates = {}
    <3>1. SUFFICES ASSUME app.creates # {} PROVE FALSE
      OBVIOUS
    <3> DEFINE q == app.pkg[f]
               d == app.decls[q]
    <3>2. PICK i \in DOMAIN d, j \in DOMAIN d :
            i <= j /\ d[i] \in app.creates /\ d[j] = f
      BY <2>6, <3>1 DEF AgentSeen
    <3>3. d[i] # f
      BY <2>4, <2>6, <3>2
    <3>4. d \in Seq(Fn) /\ q \in Pkg
      BY <1>0, <2>1, DeclTyped DEF AppType, IInv
    <3>5. i < j
      <4>1. i \in Nat /\ j \in Nat /\ i # j
        BY <3>2, <3>3, <3>4
      <4> QED
        BY <3>2, <4>1
    <3>6. d[i] \notin Waiting
      BY <2>1, <3>2, <3>4, <3>5, VisitedInOrder DEF AgentInv, f
    <3>7. IsDeclared(d[i])
      BY <1>0, <3>2, <3>4, ListedIsDeclared DEF IInv
    <3> QED
      BY <2>4, <2>6, <3>2, <3>6, <3>7 DEF AgentInv
  <2>7. agentInits' # {} /\ AgentSeen(app) => app.creates = {}
    BY <2>2, <2>6 DEF AgentInv
  <2>8. app.creates = {} => \A m \in app.mains : m \in Waiting' \/ m \in agentInits'
    BY <2>1, <2>2, <2>4 DEF AgentInv
  <2>9. \A g \in app.creates : IsDeclared(g) /\ g \notin Waiting' => setupFunc' # NoFn
    BY <2>2, <2>5
  <2>10. setupFunc' \in app.creates \cup {NoFn}
    BY <2>2, <2>4
  <2> QED
    BY <1>0, <1>1, <2>7, <2>8, <2>9, <2>10 DEF AgentInv, IsDeclared
<1> QED
  BY <1>0, <1>2, <1>3, AgentStep, WaitingEnds

(* The inductive invariant of the visits to main: the roots still to visit *)
(* are the end of a package, a set-up that has been visited is noted, and  *)
(* a main has got the agent if it was visited and there is no set-up.      *)
THEOREM Agents == Spec => []AgentInv
<1>1. Init => AgentInv
  <2> SUFFICES ASSUME Init PROVE AgentInv
    OBVIOUS
  <2>1. /\ roots = << >> /\ setupFunc = NoFn /\ agentInits = {} /\ pending = Pkg
        /\ app \in Apps
    BY DEF Init
  <2>2. app \in AppType /\ WellFormed(app)
    BY <2>1, AppTyped
  <2>3. \A f \in Fn : IsDeclared(f) => f \in Waiting
    BY <2>1, <2>2 DEF Waiting, AppType
  <2>4. app.creates \subseteq Fn /\ app.mains \subseteq Fn
    BY <2>2 DEF AppType
  <2>5. \A m \in app.mains : IsDeclared(m)
    BY <2>2 DEF WellFormed, IsDeclared
  <2> QED
    BY <2>1, <2>3, <2>4, <2>5 DEF AgentInv, RootsAreLast
<1>2. ShapedInv /\ AgentInv /\ [Next]_vars => AgentInv'
  BY AgentInvKept
<1> QED
  BY <1>1, <1>2, Shaped, PTL DEF Spec

(* A main gets the agent exactly when nothing in the application sets one  *)
(* up, provided what sets it up is seen before main is: in its own package *)
(* and above it, for the packages come in any order.                       *)
THEOREM OneAgentHolds == Spec => [](AgentSeen(app) => OneAgent)
<1>1. ShapedInv /\ AgentInv => (AgentSeen(app) => OneAgent)
  <2> SUFFICES ASSUME ShapedInv, AgentInv, AgentSeen(app), Finished,
                      NEW m \in app.mains
               PROVE  m \in agentInits <=> app.creates = {}
    BY DEF OneAgent
  <2>1. m \notin Waiting
    BY DEF Finished, Waiting, Visiting
  <2> QED
    BY <2>1 DEF AgentInv
<1> QED
  BY <1>1, Shaped, Agents, PTL

-----------------------------------------------------------------------------
(* The setup function.                                                     *)

(* c is left alone so far, and is known wherever a walk may come to it.    *)
SetupSafe(c, R) ==
  /\ segments[c] = 0 /\ txnParams[c] = 0
  /\ \A k \in DOMAIN stack : stack[k].fn = c => ~Handed(stack[k])
  /\ setupFunc = c \/ \A k \in DOMAIN stack : stack[k].fn \in R

SetupInv ==
  SetupFirst(app) =>
    \A c \in app.creates : \A R \in SUBSET Fn : Separates(app, c, R) => SetupSafe(c, R)

(* A root outside of R is visited when c is known.                         *)
LEMMA SetupKnown ==
  ASSUME ShapedInv, AgentInv, VisitMain \/ VisitDecl,
         NEW c \in app.creates, NEW R \in SUBSET Fn, Separates(app, c, R),
         Head(roots) \in RootsOf(app) \ R
  PROVE  setupFunc' = c
<1> DEFINE f == Head(roots)
           d == app.decls[app.pkg[f]]
<1>0. IInv /\ ShapeInv /\ [Next]_vars /\ roots # << >>
  BY DEF ShapedInv, Next, VisitMain, VisitDecl
<1>1. /\ f \in Fn /\ IsDeclared(f) /\ f \notin Waiting' /\ app' = app
      /\ Waiting' \subseteq Waiting
  BY <1>0, RootTaken, WaitingShrinks
<1>2. AgentInv'
  BY <1>0, AgentInvKept
<1>3. app.creates = {c} /\ \E i, j \in DOMAIN d : i <= j /\ d[i] = c /\ d[j] = f
  BY DEF Separates
<1>4. PICK i \in DOMAIN d, j \in DOMAIN d : i <= j /\ d[i] = c /\ d[j] = f
  BY <1>3
<1>5. app.pkg[f] \in Pkg /\ d \in Seq(Fn)
  BY <1>0, <1>1, EntryTyped, DeclTyped DEF IInv
<1>6. c \notin Waiting'
  <2>1. CASE c = f
    BY <1>1, <2>1
  <2>2. CASE c # f
    <3>1. i < j
      <4>1. i \in Nat /\ j \in Nat /\ i # j
        BY <1>4, <1>5, <2>2
      <4> QED
        BY <1>4, <4>1
    <3>2. c \notin Waiting
      BY <1>0, <1>4, <1>5, <3>1, VisitedInOrder DEF AgentInv
    <3> QED
      BY <1>1, <3>2
  <2> QED
    BY <2>1, <2>2
<1>7. IsDeclared(c)
  BY <1>0, <1>4, <1>5, ListedIsDeclared DEF IInv
<1>8. setupFunc' # NoFn /\ setupFunc' \in {c, NoFn}
  BY <1>1, <1>2, <1>3, <1>6, <1>7 DEF AgentInv, IsDeclared
<1> QED
  BY <1>8

(* What is started is not c.                                               *)
LEMMA SetupNotBegun ==
  ASSUME ShapedInv, SetupFirst(app),
         NEW c \in app.creates, NEW R \in SUBSET Fn, Separates(app, c, R),
         SetupSafe(c, R), NEW u, WalkStep(u), NEW g \in Fn, NEW k, Begins(u, g, k)
  PROVE  g # c /\ (setupFunc = c \/ g \in R)
<1>0. IInv /\ ShapeInv /\ TablesNamed /\ Walking /\ app \in Apps
  BY DEF ShapedInv, ShapeInv, WalkStep, IInv
<1>1. /\ g \in Starts(app, Top.fn)
      /\ k = "lit" <=> g \in app.lits
      /\ g \notin app.lits => IsDeclared(g)
  BY <1>0, BegunKnown
<1>2. Len(stack) \in DOMAIN stack /\ Top = stack[Len(stack)]
  <2>1. stack \in Seq(Frame) /\ stack # << >>
    BY <1>0 DEF IInv, TypeOK, ControlTypeOK, Walking, Running
  <2> QED
    BY <2>1 DEF Top
<1>3. CASE setupFunc # c
  <2>1. Top.fn \in R
    BY <1>2, <1>3 DEF SetupSafe
  <2> QED
    BY <1>1, <2>1 DEF Separates
<1>4. CASE setupFunc = c
  <2> SUFFICES ASSUME g = c PROVE FALSE
    BY <1>4
  <2>1. c \notin app.lits /\ c \in Fn
    BY <1>0, AppTyped DEF WellFormed
  <2>2. /\ g = InvDecl(TopCall) /\ ShouldInstrument(TopCall)
        /\ Top.call \in DOMAIN TopNode.calls
        /\ ~Excluded(TopCall) \/ TopNode.kind = "go"
    BY <1>1, <2>1 DEF Begins, AtNextCall
  <2>3. TopNode.kind = "go"
    BY <1>4, <2>2 DEF Excluded
  <2> DEFINE h == app.to[TopCall]
  <2>4. /\ Top.fn \in Fn /\ Top.pc \in DOMAIN app.body[Top.fn]
        /\ TopNode = app.body[Top.fn][Top.pc] /\ TopCall \in Site
    BY <1>0, <2>2, TopNodeTyped DEF Walking, TopNode
  <2>5. ~LooksUp(app, TopNode, Top.call, c)
    BY <2>2, <2>3, <2>4 DEF SetupFirst
  <2>6. h \in Fn
    BY <1>0, <2>4, AppTyped DEF AppType
  <2>7. /\ c # NoFn /\ h \notin app.lits /\ c = Entry(h).body
    BY <2>2 DEF ShouldInstrument, InvDecl
  <2>8. app.pkg[h] \in Pkg /\ app.name[h] \in Name
    BY <1>0, <2>6, EntryTyped
  <2>9. app.pkg[c] = app.pkg[h] /\ app.name[c] = app.name[h]
    BY <1>0, <2>7, <2>8 DEF IInv, DeclarationsAtHome, TablesNamed, Entry
  <2> QED
    BY <2>5, <2>7, <2>9 DEF LooksUp, TopCall
<1> QED
  BY <1>3, <1>4

LEMMA SetupSafeKept ==
  ASSUME ShapedInv, AgentInv, SetupFirst(app), [Next]_vars,
         NEW c \in app.creates, NEW R \in SUBSET Fn, Separates(app, c, R),
         SetupSafe(c, R)
  PROVE  SetupSafe(c, R)'
<1>0. IInv /\ ShapeInv /\ app \in Apps
  BY DEF ShapedInv, IInv
<1>1. c \in Fn
  BY <1>0, AppTyped DEF AppType
<1>2. segments'[c] = 0 /\ txnParams'[c] = 0
  <2>1. CASE BeginFunction
    <3>1. CASE Top.fn = c
      <4>1. Len(stack) \in DOMAIN stack
        <5>1. stack \in Seq(Frame) /\ stack # << >>
          BY <1>0, <2>1 DEF IInv, TypeOK, ControlTypeOK, BeginFunction, Running
        <5> QED
          BY <5>1
      <4>2. ~Handed(Top)
        BY <3>1, <4>1 DEF SetupSafe, Top
      <4> QED
        BY <1>0, <2>1, <3>1, <4>2, BeginText DEF SetupSafe
    <3>2. CASE Top.fn # c
      BY <1>0, <1>1, <2>1, <3>2, BeginText DEF SetupSafe
    <3> QED
      BY <3>1, <3>2
  <2>2. CASE UNCHANGED <<txnParams, segments>>
    BY <2>2 DEF SetupSafe
  <2> QED
    BY <1>0, <2>1, <2>2, DeclTextStep
<1>3. \A k \in DOMAIN stack' : BegunAt(k) =>
        stack'[k].fn # c /\ (setupFunc = c \/ stack'[k].fn \in R)
  BY SetupNotBegun DEF BegunAt
<1>4. ASSUME NEW k \in DOMAIN stack', stack'[k].fn = c
      PROVE  ~Handed(stack'[k])
  <2>1. CASE StaysAt(k)
    BY <1>4, <2>1 DEF StaysAt, SetupSafe, Handed
  <2>2. CASE RootAt(k)
    BY <2>2 DEF RootAt, Handed
  <2> QED
    BY <1>3, <1>4, <2>1, <2>2, FramesCome
<1>5. ASSUME setupFunc' # c, NEW k \in DOMAIN stack'
      PROVE  stack'[k].fn \in R
  <2>1. CASE VisitMain \/ VisitDecl
    <3> DEFINE f == Head(roots)
    <3>1. RootAt(k)
      <4>1. ~StaysAt(k)
        BY <2>1 DEF StaysAt, VisitMain, VisitDecl, Idle
      <4>2. ~BegunAt(k)
        <5>1. stack = << >>
          BY <2>1 DEF VisitMain, VisitDecl, Idle
        <5> QED
          BY <5>1 DEF BegunAt, WalkStep, Walking, Running
      <4> QED
        BY <4>1, <4>2, FramesCome
    <3>2. f \in Fn /\ IsDeclared(f)
      BY <1>0, <2>1, RootTaken
    <3>3. f \in RootsOf(app)
      BY <3>1, <3>2 DEF RootAt, RootsOf, IsDeclared, IsHandler
    <3>4. f \in R
      BY <1>5, <2>1, <3>3, SetupKnown
    <3> QED
      BY <3>1, <3>4 DEF RootAt
  <2>2. CASE ~(VisitMain \/ VisitDecl)
    <3>1. setupFunc # c
      BY <1>0, <1>5, <2>2, AgentStep
    <3>2. ~RootAt(k)
      BY <2>2 DEF RootAt
    <3>3. StaysAt(k) => stack'[k].fn \in R
      BY <3>1 DEF StaysAt, SetupSafe
    <3> QED
      BY <1>3, <3>1, <3>2, <3>3, FramesCome
  <2> QED
    BY <2>1, <2>2
<1> QED
  BY <1>2, <1>4, <1>5 DEF SetupSafe

(* The inductive invariant of the set-up: a function that sets the agent   *)
(* up is unmarked and unedited, and is on no stack.                        *)
THEOREM Setup == Spec => []SetupInv
<1>1. Init => SetupInv
  <2> SUFFICES ASSUME Init, NEW c \in app.creates, NEW R \in SUBSET Fn
               PROVE  SetupSafe(c, R)
    BY DEF SetupInv
  <2>1. c \in Fn
    BY AppTyped DEF Init, AppType
  <2> QED
    BY <2>1 DEF Init, SetupSafe
<1>2. ShapedInv /\ AgentInv /\ SetupInv /\ [Next]_vars => SetupInv'
  <2> SUFFICES ASSUME ShapedInv, AgentInv, SetupInv, [Next]_vars
               PROVE  SetupInv'
    OBVIOUS
  <2>1. app' = app
    BY WaitingShrinks DEF ShapedInv
  <2>2. ASSUME SetupFirst(app), NEW c \in app.creates, NEW R \in SUBSET Fn,
               Separates(app, c, R)
        PROVE  SetupSafe(c, R)'
    BY <2>2, SetupSafeKept DEF SetupInv
  <2> QED
    BY <2>1, <2>2 DEF SetupInv
<1> QED
  BY <1>1, <1>2, Shaped, Agents, PTL DEF Spec

(* The function that sets the agent up is not traced, provided no walk can *)
(* come to it before its declaration has been visited, and no goroutine    *)
(* calls it: the one test for it is made for statements, against the       *)
(* pointer noted last.                                                     *)
THEOREM SetupUntouchedHolds == Spec => [](SetupFirst(app) => SetupUntouched)
<1>1. SetupInv => (SetupFirst(app) => SetupUntouched)
  BY DEF SetupInv, SetupFirst, SetupSafe, SetupUntouched
<1> QED
  BY <1>1, Setup, PTL

-----------------------------------------------------------------------------
(* What can be reached, and what a name stands for.                        *)

LEMMA DeclaredKnown ==
  ASSUME app \in Apps
  PROVE  \A f : f \in Declared(app) <=> f \in Fn /\ IsDeclared(f)
<1>1. ASSUME NEW f, f \in Declared(app)
      PROVE  f \in Fn /\ IsDeclared(f)
  <2>1. PICK p \in Pkg : f \in {app.decls[p][i] : i \in DOMAIN app.decls[p]}
    BY <1>1 DEF Declared
  <2> QED
    BY <2>1, ListedIsDeclared
<1>2. ASSUME NEW f \in Fn, IsDeclared(f)
      PROVE  f \in Declared(app)
  <2>1. app.pkg[f] \in Pkg
    BY AppTyped DEF AppType
  <2> QED
    BY <1>2, <2>1 DEF Declared, IsDeclared
<1> QED
  BY <1>1, <1>2

LEMMA CalleesKnown ==
  ASSUME app \in Apps, NEW f
  PROVE  Callees(app, f) \subseteq Fn
BY DeclaredKnown, AppTyped DEF Callees, AppType

LEMMA ReachableClosed ==
  ASSUME app \in Apps
  PROVE  /\ RootsOf(app) \subseteq Reachable(app) /\ Reachable(app) \subseteq Fn
         /\ \A f \in Reachable(app) : Callees(app, f) \subseteq Reachable(app)
         /\ \A R \in SUBSET Fn :
              RootsOf(app) \subseteq R /\ (\A g \in R : Callees(app, g) \subseteq R)
                => Reachable(app) \subseteq R
<1>1. RootsOf(app) \subseteq Fn
  BY DeclaredKnown DEF RootsOf
<1>2. ASSUME NEW f \in Reachable(app), NEW g \in Callees(app, f)
      PROVE  g \in Reachable(app)
  <2>1. g \in Fn /\ f \in Fn
    BY <1>2, CalleesKnown DEF Reachable
  <2>2. ASSUME NEW R \in SUBSET (Fn \ {g}), RootsOf(app) \subseteq R,
               \A h \in R : Callees(app, h) \subseteq R
        PROVE  FALSE
    <3>1. f \notin R
      BY <1>2, <2>2
    <3>2. R \in SUBSET (Fn \ {f})
      BY <3>1
    <3> QED
      BY <1>2, <2>2, <3>2, Zenon DEF Reachable
  <2> QED
    BY <2>1, <2>2, Zenon DEF Reachable
<1>3. ASSUME NEW f \in RootsOf(app)
      PROVE  f \in Reachable(app)
  BY <1>1, <1>3 DEF Reachable
<1>4. ASSUME NEW R \in SUBSET Fn, RootsOf(app) \subseteq R,
             \A g \in R : Callees(app, g) \subseteq R,
             NEW f \in Reachable(app)
      PROVE  f \in R
  <2> SUFFICES ASSUME f \notin R PROVE FALSE
    OBVIOUS
  <2>1. R \in SUBSET (Fn \ {f})
    OBVIOUS
  <2> QED
    BY <1>4, <2>1, Zenon DEF Reachable
<1>5. Reachable(app) \subseteq Fn
  BY DEF Reachable
<1> QED
  BY <1>2, <1>3, <1>4, <1>5

-----------------------------------------------------------------------------
(* The functions traced so far, and those whose walk has begun.            *)

Traced == {f \in Fn : segments[f] > 0} \cup RootsOf(app)
Covered == Traced \cup OnStack

RootsClean == \A f \in RootsOf(app) : segments[f] = 0 /\ txnParams[f] = 0

MarksOK ==
  \A f \in Fn : IsDeclared(f) =>
    /\ f \in app.hasTxn => Entry(f).traced
    /\ Entry(f).traced => f \in app.hasTxn \cup Traced

RootedFrames ==
  {t \in Frame : /\ Handed(t) <=> t.fn \notin RootsOf(app)
                 /\ t.kind = "main" <=> t.fn \in app.mains
                 /\ t.pc = 0 => t.call = 1}

Rooted == \A k \in DOMAIN stack : stack[k] \in RootedFrames

(* Nothing is traced that cannot be reached.                               *)
Sound == OnStack \subseteq Reachable(app) /\ \A f \in Fn : segments[f] > 0 => f \in Reachable(app)

(* The callees of a function that its walk t has come to.                  *)
CameTo(t, i, g) ==
  LET n == app.body[t.fn][i]
  IN  \/ i < t.pc /\ g \in Carried(app, t.fn, n)
      \/ /\ i = t.pc /\ g \notin app.lits
         /\ \E j \in DOMAIN n.calls : j < t.call /\ g = app.to[n.calls[j]]

Gone(t) == {g \in Callees(app, t.fn) : \E i \in DOMAIN app.body[t.fn] : CameTo(t, i, g)}

(* What a walk has come to is covered; what is walked has been left with   *)
(* all it can reach.                                                       *)
Complete ==
  /\ \A k \in DOMAIN stack : Gone(stack[k]) \subseteq Covered
  /\ \A f \in Traced \ OnStack :
       (f \in RootsOf(app) /\ f \in Waiting) \/ Callees(app, f) \subseteq Covered

TraceInv == RootsClean /\ MarksOK /\ Rooted /\ Sound /\ Complete

(* Only what can be reached and is no root starts on a walk.               *)
LEMMA BegunReachable ==
  ASSUME ShapedInv, AgentInv, SetupInv, Traceable(app), Rooted, MarksOK,
         NEW u, WalkStep(u), NEW g \in Fn, NEW k, Begins(u, g, k)
  PROVE  g \in Callees(app, Top.fn) /\ g \notin RootsOf(app)
<1>0. /\ IInv /\ ShapeInv /\ TablesNamed /\ Walking /\ app \in Apps
      /\ SetupFirst(app) /\ NamesUnique(app) /\ RootsNotCalled(app)
      /\ PlainStatements(app)
  BY DEF ShapedInv, ShapeInv, WalkStep, IInv, Traceable
<1>1. /\ g \in Starts(app, Top.fn)
      /\ k = "lit" <=> g \in app.lits
      /\ g \notin app.lits => IsDeclared(g) /\ ~Entry(g).traced
  BY <1>0, BegunKnown
<1>2. /\ Top.fn \in Fn /\ Top.pc \in DOMAIN app.body[Top.fn]
      /\ TopNode = app.body[Top.fn][Top.pc]
      /\ Top.call \in DOMAIN TopNode.calls => TopCall \in Site
  BY <1>0, TopNodeTyped DEF Walking, TopNode
<1>3. g \notin RootsOf(app)
  BY <1>0, <1>1, <1>2, DeclaredKnown DEF RootsNotCalled
<1>4. g \notin app.creates
  <2>1. \A c \in app.creates : \E R \in SUBSET Fn : Separates(app, c, R) /\ SetupSafe(c, R)
    BY <1>0 DEF SetupFirst, SetupInv
  <2> QED
    BY <1>0, <2>1, SetupNotBegun
<1>5. g \in app.lits \cup Declared(app) /\ g \notin app.hasTxn
  <2>1. CASE g \in app.lits
    BY <1>0, <2>1, AppTyped DEF WellFormed
  <2>2. CASE g \notin app.lits
    BY <1>0, <1>1, <2>2, DeclaredKnown DEF MarksOK
  <2> QED
    BY <2>1, <2>2
<1>6. Top.kind = "main" <=> Top.fn \in app.mains
  <2>1. Len(stack) \in DOMAIN stack
    <3>1. stack \in Seq(Frame) /\ stack # << >>
      BY <1>0 DEF IInv, TypeOK, ControlTypeOK, Walking, Running
    <3> QED
      BY <3>1
  <2> QED
    BY <2>1 DEF Rooted, RootedFrames, Top
<1>7. g \in Carried(app, Top.fn, TopNode) /\ app.name[g] \notin app.inTxn
  <2>1. CASE k = "lit"
    <3>1. HoldsLiteral(TopNode) /\ g = TopNode.lit /\ ~LeftAlone
      BY <2>1 DEF Begins
    <3>2. app.name[g] \notin app.inTxn
      BY <1>0, <1>1, <2>1 DEF PlainStatements
    <3> QED
      BY <1>6, <3>1, <3>2 DEF Carried, LeftAlone, HoldsLiteral
  <2>2. CASE k # "lit"
    <3>1. /\ AtNextCall(u) /\ ShouldInstrument(TopCall) /\ g = InvDecl(TopCall)
          /\ \/ k = "call" /\ IsStmt /\ ~Excluded(TopCall)
             \/ k = "go" /\ TopNode.kind = "go" /\ Top.kind # "main"
      BY <2>2 DEF Begins
    <3>2. /\ g = app.to[TopCall] /\ g \notin app.lits
          /\ Top.call \in DOMAIN TopNode.calls
      BY <1>0, <1>2, <3>1, ResolvesTo DEF ShouldInstrument, AtNextCall
    <3>3. app.name[g] \notin app.inTxn
      <4>1. CASE IsStmt /\ ~Excluded(TopCall)
        BY <3>2, <4>1 DEF Excluded
      <4>2. CASE TopNode.kind = "go"
        BY <1>0, <1>2, <3>2, <4>2 DEF PlainStatements, TopCall
      <4> QED
        BY <3>1, <4>1, <4>2
    <3>4. ~(Top.fn \in app.mains /\ TopNode.kind \in {"go", "golit"})
      BY <1>6, <3>1 DEF IsStmt
    <3>5. g \in {app.to[TopNode.calls[j]] : j \in DOMAIN TopNode.calls} \ app.lits
      BY <3>2 DEF TopCall
    <3> QED
      BY <3>3, <3>4, <3>5, Zenon DEF Carried
  <2> QED
    BY <2>1, <2>2
<1>8. g \in UNION {Carried(app, Top.fn, app.body[Top.fn][i]) : i \in DOMAIN app.body[Top.fn]}
  BY <1>2, <1>7
<1> QED
  BY <1>3, <1>4, <1>5, <1>7, <1>8, Zenon DEF Callees

(* The application does not change, nor what is said of it alone.          *)
LEMMA AppSteady ==
  ASSUME app' = app
  PROVE  /\ Declared(app)' = Declared(app) /\ RootsOf(app)' = RootsOf(app)
         /\ \A f : IsDeclared(f)' <=> IsDeclared(f)
         /\ \A f, n : Carried(app, f, n)' = Carried(app, f, n)
         /\ \A f : Callees(app, f)' = Callees(app, f)
         /\ Reachable(app)' = Reachable(app)
<1>1. Declared(app)' = Declared(app)
  BY DEF Declared
<1>2. RootsOf(app)' = RootsOf(app)
  BY <1>1 DEF RootsOf
<1>3. \A f : IsDeclared(f)' <=> IsDeclared(f)
  BY DEF IsDeclared
<1>4. ASSUME NEW f, NEW n PROVE Carried(app, f, n)' = Carried(app, f, n)
  BY DEF Carried
<1>5. ASSUME NEW f PROVE Callees(app, f)' = Callees(app, f)
  BY <1>1, <1>4 DEF Callees
<1>6. Reachable(app)' = Reachable(app)
  BY <1>2, <1>5 DEF Reachable
<1> QED
  BY <1>1, <1>2, <1>3, <1>4, <1>5, <1>6

LEMMA TopKnown ==
  ASSUME ShapedInv, Rooted, stack # << >>
  PROVE  /\ Len(stack) \in DOMAIN stack /\ Top = stack[Len(stack)]
         /\ Top \in RootedFrames /\ Top \in Frame /\ Top.fn \in Fn /\ Top.fn \in OnStack
<1>1. stack \in Seq(Frame)
  BY DEF ShapedInv, IInv, TypeOK, ControlTypeOK
<1>2. Len(stack) \in DOMAIN stack /\ Top = stack[Len(stack)]
  BY <1>1 DEF Top
<1> QED
  BY <1>2 DEF Rooted, RootedFrames, Frame, OnStack

LEMMA TracedGrows ==
  ASSUME ShapedInv, [Next]_vars
  PROVE  Traced \subseteq Traced' /\ app' = app /\ RootsOf(app)' = RootsOf(app)
<1>1. IInv /\ app' = app
  BY WaitingShrinks DEF ShapedInv
<1>2. RootsOf(app)' = RootsOf(app)
  BY <1>1, AppSteady
<1> QED
  BY <1>1, <1>2, TextGrows DEF Traced

(* At the end of a walk the function has a segment, or it is a root.       *)
LEMMA EndTraced ==
  ASSUME ShapedInv, Rooted, EndFunction
  PROVE  Top.fn \in Traced /\ Top.pc = Len(app.body[Top.fn]) + 1 /\ Top.fn \in Fn
<1>1. stack # << >> /\ Top.pc = Len(app.body[Top.fn]) + 1
  BY DEF EndFunction, Running
<1>2. Top \in RootedFrames /\ Top.fn \in Fn
  BY <1>1, TopKnown
<1>3. FrameOK(Top)
  BY <1>1, TopOK DEF ShapedInv
<1>4. Top.pc > 0
  <2>1. app.body[Top.fn] \in Seq(Node)
    BY <1>2, AppTyped DEF AppType, ShapedInv, IInv
  <2> QED
    BY <1>1, <2>1
<1> QED
  BY <1>1, <1>2, <1>3, <1>4 DEF RootedFrames, FrameOK, Traced

LEMMA CoveredGrows ==
  ASSUME ShapedInv, Rooted, [Next]_vars
  PROVE  Covered \subseteq Covered'
<1>1. Traced \subseteq Traced'
  BY TracedGrows
<1>2. ASSUME NEW k \in DOMAIN stack PROVE stack[k].fn \in Covered'
  <2>1. CASE k \in DOMAIN stack' /\ StaysAt(k)
    BY <2>1 DEF Covered, OnStack, StaysAt
  <2>2. CASE EndFunction /\ stack[k] = Top
    BY <1>1, <2>2, EndTraced DEF Covered
  <2> QED
    BY <2>1, <2>2, FramesCome
<1> QED
  BY <1>1, <1>2 DEF Covered, OnStack

LEMMA RootsCleanKept ==
  ASSUME ShapedInv, Rooted, RootsClean, [Next]_vars
  PROVE  RootsClean'
<1>0. IInv /\ RootsOf(app)' = RootsOf(app) /\ RootsOf(app) \subseteq Fn
  BY TracedGrows, ReachableClosed DEF ShapedInv, IInv
<1>1. CASE UNCHANGED <<txnParams, segments>>
  BY <1>0, <1>1 DEF RootsClean
<1>2. CASE BeginFunction
  <2>1. Top \in RootedFrames
    BY <1>2, TopKnown DEF BeginFunction, Running
  <2>2. ASSUME NEW f \in RootsOf(app)
        PROVE  segments'[f] = 0 /\ txnParams'[f] = 0
    <3>1. CASE f = Top.fn
      <4>1. ~Handed(Top)
        BY <2>1, <3>1 DEF RootedFrames
      <4> QED
        BY <1>0, <1>2, <3>1, <4>1, BeginText DEF RootsClean
    <3>2. CASE f # Top.fn
      BY <1>0, <1>2, <3>2, BeginText DEF RootsClean
    <3> QED
      BY <3>1, <3>2
  <2> QED
    BY <1>0, <2>2 DEF RootsClean
<1> QED
  BY <1>0, <1>1, <1>2, DeclTextStep

LEMMA MarksKept ==
  ASSUME ShapedInv, Rooted, MarksOK, NamesUnique(app), [Next]_vars
  PROVE  MarksOK'
<1>0. /\ IInv /\ TablesNamed /\ ShapeInv /\ app' = app /\ Traced \subseteq Traced'
      /\ app \in Apps
  BY TracedGrows DEF ShapedInv, ShapeInv, IInv
<1>1. ASSUME NEW f \in Fn, IsDeclared(f)
      PROVE  LET E == tracedFuncs'[app.pkg[f]][app.name[f]]
             IN  /\ f \in app.hasTxn => E.traced
                 /\ E.traced => f \in app.hasTxn \cup Traced'
  <2> DEFINE E == tracedFuncs'[app.pkg[f]][app.name[f]]
  <2>1. CASE E = Entry(f)
    BY <1>0, <1>1, <2>1 DEF MarksOK
  <2>2. CASE EndFunction /\ E # Entry(f)
    <3>1. FrameOK(Top)
      BY <1>0, <2>2, TopOK DEF EndFunction, Running
    <3>2. app.pkg[f] \in Pkg /\ app.name[f] \in Name
      BY <1>0, EntryTyped
    <3> DEFINE m == [body |-> Top.fn, traced |-> TRUE]
    <3>3. /\ Top.fn \in Fn
          /\ E = m /\ IsDeclared(Top.fn)
          /\ app.pkg[f] = app.pkg[Top.fn] /\ app.name[f] = app.name[Top.fn]
      BY <1>0, <2>2, <3>1, <3>2, EndMarks DEF Entry
    <3>4. f = Top.fn
      BY <1>0, <1>1, <3>3, NamedOnce
    <3>5. f \in Traced'
      BY <1>0, <2>2, <3>4, EndTraced
    <3>6. m.traced
      OBVIOUS
    <3> QED
      BY <3>3, <3>5, <3>6
  <2> QED
    BY <1>0, <2>1, <2>2, TablesStep DEF Entry
<1> QED
  BY <1>0, <1>1, AppSteady DEF MarksOK, Entry

LEMMA RootIsTraceRoot ==
  ASSUME ShapedInv, NEW k, RootAt(k)
  PROVE  stack'[k].fn \in RootsOf(app) /\ stack'[k].fn \in Fn
<1>1. Head(roots) \in Fn /\ IsDeclared(Head(roots))
  BY RootTaken DEF RootAt, ShapedInv
<1> QED
  BY <1>1 DEF RootAt, RootsOf, IsDeclared, IsHandler

LEMMA BegunAtReachable ==
  ASSUME ShapedInv, AgentInv, SetupInv, Traceable(app), Rooted, MarksOK,
         NEW k, BegunAt(k)
  PROVE  /\ stack'[k].fn \in Callees(app, Top.fn) /\ stack'[k].fn \notin RootsOf(app)
         /\ stack'[k].kind \in {"call", "go", "lit"}
         /\ stack # << >>
<1>1. PICK u : WalkStep(u) /\ Begins(u, stack'[k].fn, stack'[k].kind)
  BY DEF BegunAt
<1>2. stack'[k].fn \in Fn
  BY DEF BegunAt
<1>3. stack'[k].kind \in {"call", "go", "lit"}
  BY <1>1 DEF Begins
<1> QED
  BY <1>1, <1>2, <1>3, BegunReachable DEF WalkStep, Walking, Running

LEMMA PcTyped ==
  ASSUME app \in Apps, NEW f \in Fn, NEW i \in DOMAIN app.body[f]
  PROVE  i \in Nat \ {0} /\ i <= Len(app.body[f]) /\ DOMAIN app.body[f] \subseteq Nat \ {0}
<1>1. app.body[f] \in Seq(Node)
  BY AppTyped DEF AppType
<1> QED
  BY <1>1

LEMMA RootedKept ==
  ASSUME ShapedInv, AgentInv, SetupInv, Traceable(app), Rooted, MarksOK, [Next]_vars
  PROVE  Rooted'
<1>0. /\ app' = app /\ RootsOf(app)' = RootsOf(app) /\ app \in Apps
      /\ TypeOK' /\ TypeOK
  BY TracedGrows, ShapedInductive DEF ShapedInv, IInv
<1>1. app.mains \subseteq RootsOf(app)
  <2>1. \A f \in app.mains : f \in Fn /\ IsDeclared(f)
    BY <1>0, AppTyped DEF AppType, WellFormed, IsDeclared
  <2> QED
    BY <2>1 DEF RootsOf, IsDeclared
<1> SUFFICES ASSUME NEW k \in DOMAIN stack'
             PROVE  stack'[k] \in RootedFrames'
  BY DEF Rooted
<1> DEFINE v == stack'[k]
<1>2. v \in Frame
  BY <1>0 DEF TypeOK, ControlTypeOK
<1> SUFFICES /\ Handed(v) <=> v.fn \notin RootsOf(app)
             /\ v.kind = "main" <=> v.fn \in app.mains
             /\ v.pc = 0 => v.call = 1
  BY <1>0, <1>2 DEF RootedFrames, Handed
<1>3. CASE StaysAt(k)
  <2>1. stack[k] \in RootedFrames /\ v.fn = stack[k].fn /\ v.kind = stack[k].kind
    BY <1>3 DEF StaysAt, Rooted
  <2>2. ASSUME v.pc = 0 PROVE v.call = 1
    <3>1. CASE v = stack[k]
      BY <2>1, <2>2, <3>1 DEF RootedFrames
    <3>2. CASE BeginFunction /\ v.pc = 1
      BY <2>2, <3>2
    <3>3. ASSUME NEW u, WalkStep(u), v = u, stack[k] = Top PROVE FALSE
      <4>1. Top.fn \in Fn /\ Top.pc \in DOMAIN app.body[Top.fn] /\ u.pc \in {Top.pc, Top.pc + 1}
        BY <3>3, TopKnown DEF WalkStep, Walking, Running, Continues
      <4>2. Top.pc \in Nat \ {0}
        BY <1>0, <4>1, PcTyped
      <4> QED
        BY <2>2, <3>3, <4>1, <4>2
    <3> QED
      BY <1>3, <3>1, <3>2, <3>3 DEF StaysAt, MovesAt
  <2> HIDE DEF v
  <2> QED
    BY <2>1, <2>2 DEF RootedFrames, Handed
<1>4. CASE RootAt(k)
  <2>1. v.fn \in RootsOf(app) /\ v.fn = Head(roots) /\ IsFresh(v)
    BY <1>4, RootIsTraceRoot DEF RootAt
  <2>2. \/ Head(roots) \in app.mains /\ v.kind = "main"
        \/ Head(roots) \notin app.mains /\ v.kind = "handler"
    BY <1>4 DEF RootAt
  <2> HIDE DEF v
  <2> QED
    BY <2>1, <2>2 DEF IsFresh, Handed
<1>5. CASE BegunAt(k)
  <2>1. v.fn \notin RootsOf(app) /\ v.kind \in {"call", "go", "lit"} /\ IsFresh(v)
    BY <1>5, BegunAtReachable DEF BegunAt
  <2> HIDE DEF v
  <2> QED
    BY <1>1, <2>1 DEF IsFresh, Handed
<1> QED
  BY <1>3, <1>4, <1>5, FramesCome

LEMMA SoundKept ==
  ASSUME ShapedInv, AgentInv, SetupInv, Traceable(app), Rooted, MarksOK, Sound,
         [Next]_vars
  PROVE  Sound'
<1>0. IInv /\ app \in Apps /\ Reachable(app)' = Reachable(app)
  BY TracedGrows, AppSteady DEF ShapedInv, IInv
<1>1. ASSUME NEW k \in DOMAIN stack'
      PROVE  stack'[k].fn \in Reachable(app)
  <2>1. CASE StaysAt(k)
    BY <2>1 DEF StaysAt, Sound, OnStack
  <2>2. CASE RootAt(k)
    BY <1>0, <2>2, RootIsTraceRoot, ReachableClosed
  <2>3. CASE BegunAt(k)
    <3>1. stack # << >> /\ stack'[k].fn \in Callees(app, Top.fn)
      BY <2>3, BegunAtReachable
    <3>2. Top.fn \in Reachable(app)
      BY <3>1, TopKnown DEF Sound
    <3> QED
      BY <1>0, <3>1, <3>2, ReachableClosed
  <2> QED
    BY <2>1, <2>2, <2>3, FramesCome
<1>2. ASSUME NEW f \in Fn, segments'[f] > 0
      PROVE  f \in Reachable(app)
  <2>1. CASE segments'[f] = segments[f]
    BY <1>2, <2>1 DEF Sound
  <2>2. CASE BeginFunction /\ f = Top.fn
    BY <2>2, TopKnown DEF Sound, BeginFunction, Running
  <2>3. CASE BeginFunction /\ f # Top.fn
    BY <1>0, <2>1, <2>3, BeginText
  <2> QED
    BY <1>0, <2>1, <2>2, <2>3, DeclTextStep
<1> QED
  BY <1>0, <1>1, <1>2 DEF Sound, OnStack

-----------------------------------------------------------------------------
(* What a walk has come to.                                                *)

LEMMA GoneSteady ==
  ASSUME app' = app
  PROVE  \A t : Gone(t)' = Gone(t)
<1> SUFFICES ASSUME NEW t PROVE Gone(t)' = Gone(t)
  OBVIOUS
<1>1. Callees(app, t.fn)' = Callees(app, t.fn)
  BY AppSteady
<1>2. \A i, g : CameTo(t, i, g)' <=> CameTo(t, i, g)
  BY AppSteady DEF CameTo
<1> QED
  BY <1>1, <1>2 DEF Gone

LEMMA FreshGone ==
  ASSUME app \in Apps, NEW t, t.fn \in Fn, t.call = 1, t.pc \in {0, 1}
  PROVE  Gone(t) = {}
<1> SUFFICES ASSUME NEW i \in DOMAIN app.body[t.fn], NEW g, CameTo(t, i, g)
             PROVE  FALSE
  BY DEF Gone
<1>1. i \in Nat \ {0}
  BY PcTyped
<1>2. ~(i < t.pc)
  BY <1>1
<1>3. PICK j \in DOMAIN app.body[t.fn][i].calls : j < 1
  BY <1>2 DEF CameTo
<1>4. j \in Nat \ {0}
  <2>1. app.body[t.fn][i].calls \in Seq(Site)
    BY NodeTyped DEF Node
  <2> QED
    BY <2>1
<1> QED
  BY <1>3, <1>4

LEMMA EndGone ==
  ASSUME ShapedInv, Rooted, EndFunction
  PROVE  Callees(app, Top.fn) \subseteq Gone(Top)
<1>1. Top.pc = Len(app.body[Top.fn]) + 1 /\ Top.fn \in Fn /\ app \in Apps
  BY EndTraced DEF ShapedInv, IInv
<1>2. ASSUME NEW g \in Callees(app, Top.fn) PROVE g \in Gone(Top)
  <2>1. PICK i \in DOMAIN app.body[Top.fn] : g \in Carried(app, Top.fn, app.body[Top.fn][i])
    BY <1>2 DEF Callees
  <2>2. i < Top.pc
    <3>1. app.body[Top.fn] \in Seq(Node)
      BY <1>1, AppTyped DEF AppType
    <3> QED
      BY <1>1, <3>1
  <2>3. CameTo(Top, i, g)
    BY <2>1, <2>2 DEF CameTo
  <2> QED
    BY <1>2, <2>1, <2>3 DEF Gone
<1> QED
  BY <1>2

LEMMA GoneAtNext ==
  ASSUME ShapedInv, Rooted, NEW u, WalkStep(u), AtNext(u), NEW g \in Gone(u)
  PROVE  g \in Gone(Top) \/ g \in Carried(app, Top.fn, TopNode)
<1>1. /\ Top \in Frame /\ Top.fn \in Fn /\ app \in Apps
      /\ Top.pc \in DOMAIN app.body[Top.fn] /\ u.fn = Top.fn
      /\ TopNode = app.body[Top.fn][Top.pc]
  BY TopKnown
     DEF WalkStep, Walking, Running, Continues, Same, TopNode, ShapedInv, IInv
<1>2. PICK i \in DOMAIN app.body[Top.fn] : CameTo(u, i, g)
  BY <1>1 DEF Gone
<1>3. i \in Nat \ {0} /\ Top.pc \in Nat \ {0}
  BY <1>1, PcTyped
<1>4. g \in Callees(app, Top.fn)
  BY <1>1 DEF Gone
<1>5. i # u.pc
  <2> SUFFICES ASSUME i = u.pc PROVE FALSE
    OBVIOUS
  <2>1. PICK j \in DOMAIN app.body[Top.fn][i].calls : j < 1
    <3>1. ~(i < u.pc)
      BY <1>3
    <3> QED
      BY <1>1, <1>2, <3>1 DEF CameTo, AtNext
  <2>2. app.body[Top.fn][i].calls \in Seq(Site)
    BY <1>1, NodeTyped DEF Node
  <2> QED
    BY <2>1, <2>2
<1>6. i < u.pc /\ g \in Carried(app, Top.fn, app.body[Top.fn][i])
  BY <1>1, <1>2, <1>5 DEF CameTo
<1>7. i < Top.pc \/ i = Top.pc
  BY <1>3, <1>6 DEF AtNext
<1>8. CASE i < Top.pc
  <2>1. CameTo(Top, i, g)
    BY <1>6, <1>8 DEF CameTo
  <2> QED
    BY <1>4, <2>1 DEF Gone
<1> QED
  BY <1>1, <1>6, <1>7, <1>8

LEMMA GoneAtNextCall ==
  ASSUME ShapedInv, Rooted, NEW u, WalkStep(u), AtNextCall(u), NEW g \in Gone(u)
  PROVE  g \in Gone(Top) \/ (g = app.to[TopCall] /\ g \notin app.lits)
<1>1. /\ Top \in Frame /\ Top.fn \in Fn /\ app \in Apps
      /\ Top.pc \in DOMAIN app.body[Top.fn] /\ u.fn = Top.fn
      /\ TopNode = app.body[Top.fn][Top.pc]
  BY TopKnown
     DEF WalkStep, Walking, Running, Continues, Same, TopNode, ShapedInv, IInv
<1>2. PICK i \in DOMAIN app.body[Top.fn] : CameTo(u, i, g)
  BY <1>1 DEF Gone
<1>3. g \in Callees(app, Top.fn) /\ u.pc = Top.pc /\ u.call = Top.call + 1
  BY <1>1 DEF Gone, AtNextCall
<1>4. CASE i < u.pc /\ g \in Carried(app, u.fn, app.body[u.fn][i])
  <2>1. CameTo(Top, i, g)
    BY <1>1, <1>3, <1>4 DEF CameTo
  <2> QED
    BY <1>3, <2>1 DEF Gone
<1>5. ASSUME i = u.pc, NEW j \in DOMAIN TopNode.calls,
             j < u.call, g = app.to[TopNode.calls[j]], g \notin app.lits
      PROVE  g \in Gone(Top) \/ g = app.to[TopCall]
  <2>1. j \in Nat /\ Top.call \in Nat
    <3>1. TopNode.calls \in Seq(Site)
      BY <1>1, NodeTyped DEF Node
    <3> QED
      BY <1>1, <3>1 DEF Frame
  <2>2. CASE j = Top.call
    BY <1>5, <2>2 DEF TopCall
  <2>3. CASE j < Top.call
    <3>1. CameTo(Top, i, g)
      BY <1>1, <1>3, <1>5, <2>3 DEF CameTo
    <3> QED
      BY <1>3, <3>1 DEF Gone
  <2> QED
    BY <1>3, <1>5, <2>1, <2>2, <2>3
<1>6. CASE ~(i < u.pc /\ g \in Carried(app, u.fn, app.body[u.fn][i]))
  <2>1. /\ i = u.pc /\ g \notin app.lits
        /\ \E j \in DOMAIN TopNode.calls : j < u.call /\ g = app.to[TopNode.calls[j]]
    BY <1>1, <1>2, <1>3, <1>6 DEF CameTo
  <2> QED
    BY <1>5, <2>1
<1> QED
  BY <1>4, <1>6

(* A call that is passed over needs no walk.                               *)
LEMMA PassedIsTraced ==
  ASSUME ShapedInv, AgentInv, Traceable(app), MarksOK, Walking, NEW u, PassesCall(u),
         app.to[TopCall] \in Callees(app, Top.fn), app.to[TopCall] \notin app.lits
  PROVE  app.to[TopCall] \in Traced
<1> DEFINE h == app.to[TopCall]
<1>0. IInv /\ TablesNamed /\ app \in Apps /\ NamesUnique(app)
  BY DEF ShapedInv, ShapeInv, IInv, Traceable
<1>1. /\ h \in Fn /\ IsDeclared(h) /\ h \notin app.creates /\ h \notin app.hasTxn
      /\ app.name[h] \notin app.inTxn
  BY <1>0, DeclaredKnown DEF Callees
<1>2. TopCall \in Site
  BY <1>0, TopNodeTyped DEF PassesCall, AtNextCall, Walking
<1>3. Entry(h).body # NoFn /\ InvDecl(TopCall) = Entry(h).body
  BY <1>0, <1>1 DEF TablesNamed, InvDecl
<1>4. InvDecl(TopCall) = h
  BY <1>0, <1>2, <1>3, ResolvesTo
<1>5. ~Excluded(TopCall)
  <2>1. setupFunc # h
    <3>1. h # NoFn
      BY <1>1, SentinelAssumption
    <3> QED
      BY <1>1, <3>1 DEF AgentInv
  <2> QED
    BY <1>1, <1>4, <2>1 DEF Excluded
<1>6. Entry(h).traced
  BY <1>3, <1>5 DEF PassesCall, ShouldInstrument
<1> QED
  BY <1>1, <1>6 DEF MarksOK

LEMMA GoneMoves ==
  ASSUME ShapedInv, AgentInv, Traceable(app), Rooted, MarksOK,
         Gone(Top) \subseteq Covered, NEW u, WalkStep(u), stack' # stack
  PROVE  Gone(u) \subseteq Covered \cup OnStack'
<1>0. /\ IInv /\ PlainStatements(app) /\ Walking /\ app \in Apps
      /\ Top.fn \in Fn /\ Top \in RootedFrames /\ Top \in Frame
  BY TopKnown DEF ShapedInv, IInv, Traceable, WalkStep, Walking, Running
<1>1. /\ Top.pc \in DOMAIN app.body[Top.fn] /\ TopNode = app.body[Top.fn][Top.pc]
      /\ TopNode \in Node
  BY <1>0, NodeTyped DEF Walking, TopNode
<1>2. HoldsLiteral(TopNode) => TopNode.calls = << >>
  BY <1>0, <1>1 DEF PlainStatements
<1>3. ASSUME PassesNode(u), NEW g \in Gone(u)
      PROVE  g \in Covered
  <2> SUFFICES ASSUME g \in Carried(app, Top.fn, TopNode)
               PROVE  g \in Gone(Top)
    BY <1>3, GoneAtNext DEF PassesNode
  <2>1. ~LeftAlone
    BY <1>0 DEF Carried, LeftAlone, RootedFrames
  <2>2. ~HoldsLiteral(TopNode) /\ Top.call \notin DOMAIN TopNode.calls
    BY <1>3, <2>1 DEF PassesNode
  <2>3. PICK j \in DOMAIN TopNode.calls : g = app.to[TopNode.calls[j]] /\ g \notin app.lits
    BY <2>2 DEF Carried, HoldsLiteral
  <2>4. j < Top.call
    <3>1. TopNode.calls \in Seq(Site) /\ Top.call \in Nat \ {0}
      BY <1>0, <1>1 DEF Node, Frame
    <3> QED
      BY <2>2, <2>3, <3>1
  <2>5. CameTo(Top, Top.pc, g)
    BY <1>1, <2>3, <2>4 DEF CameTo
  <2>6. g \in Callees(app, Top.fn)
    <3>1. u.fn = Top.fn
      BY DEF WalkStep, Continues, Same
    <3> QED
      BY <1>3, <3>1 DEF Gone
  <2> QED
    BY <1>1, <2>5, <2>6 DEF Gone
<1>4. ASSUME PassesCall(u), NEW g \in Gone(u)
      PROVE  g \in Covered
  <2>1. g \in Gone(Top) \/ (g = app.to[TopCall] /\ g \notin app.lits)
    BY <1>4, GoneAtNextCall DEF PassesCall
  <2>2. CASE g = app.to[TopCall] /\ g \notin app.lits
    <3>1. g \in Callees(app, Top.fn)
      <4>1. u.fn = Top.fn
        BY DEF WalkStep, Continues, Same
      <4> QED
        BY <4>1 DEF Gone
    <3> QED
      BY <1>0, <1>4, <2>2, <3>1, PassedIsTraced DEF Covered
  <2> QED
    BY <2>1, <2>2
<1>5. ASSUME NEW h \in Fn, NEW k, Begins(u, h, k), NEW g \in Gone(u)
      PROVE  g \in Covered \/ g = h
  <2>1. CASE k = "lit"
    <3>1. AtNext(u) /\ HoldsLiteral(TopNode) /\ h = TopNode.lit
      BY <1>5, <2>1 DEF Begins
    <3>2. DOMAIN TopNode.calls = {}
      BY <1>2, <3>1
    <3>3. g \in Carried(app, Top.fn, TopNode) => g = h
      BY <3>1, <3>2 DEF Carried
    <3> QED
      BY <1>5, <3>1, <3>3, GoneAtNext
  <2>2. CASE k # "lit"
    <3>1. AtNextCall(u) /\ ShouldInstrument(TopCall) /\ h = InvDecl(TopCall)
      BY <1>5, <2>2 DEF Begins
    <3>2. TopCall \in Site
      BY <1>0, <3>1, TopNodeTyped DEF AtNextCall, Walking
    <3>3. h = app.to[TopCall]
      BY <1>0, <3>1, <3>2, ResolvesTo
         DEF ShouldInstrument, ShapedInv, ShapeInv, Traceable
    <3> QED
      BY <1>5, <3>1, <3>3, GoneAtNextCall
  <2> QED
    BY <2>1, <2>2
<1>6. \/ PassesNode(u) \/ PassesCall(u)
      \/ \E h \in Fn, k \in FrameKind : Begins(u, h, k) /\ h \in OnStack'
  <2>1. ASSUME NEW h \in Fn, NEW k \in FrameKind, Begins(u, h, k),
               DOMAIN stack' = 1 .. Len(stack) + 1,
               stack'[Len(stack) + 1] = NewFrame(h, k, currentPackage)
        PROVE  h \in OnStack'
    <3>1. stack'[Len(stack) + 1].fn = h
      BY <2>1 DEF NewFrame
    <3>2. Len(stack) + 1 \in DOMAIN stack'
      <4>1. Len(stack) \in Nat
        BY <1>0, WalkStack
      <4> QED
        BY <2>1, <4>1
    <3> QED
      BY <3>1, <3>2 DEF OnStack
  <2> QED
    BY <1>0, <2>1, WalkStack
<1> QED
  BY <1>3, <1>4, <1>5, <1>6

LEMMA CompleteKept ==
  ASSUME ShapedInv, AgentInv, SetupInv, Traceable(app), TraceInv, [Next]_vars
  PROVE  Complete'
<1>0. /\ IInv /\ app \in Apps /\ app' = app /\ RootsOf(app)' = RootsOf(app)
      /\ Rooted /\ MarksOK /\ Complete /\ Sound /\ RootsClean
      /\ Traced \subseteq Traced' /\ Covered \subseteq Covered'
  BY TracedGrows, CoveredGrows DEF ShapedInv, IInv, TraceInv
<1>1. ASSUME NEW k \in DOMAIN stack'
      PROVE  Gone(stack'[k]) \subseteq Covered'
  <2> DEFINE v == stack'[k]
  <2>1. CASE RootAt(k) \/ BegunAt(k)
    <3>1. v.fn \in Fn /\ v.pc = 0 /\ v.call = 1
      BY <2>1, RootIsTraceRoot DEF RootAt, BegunAt, IsFresh
    <3>2. Gone(v) = {}
      <4> HIDE DEF v
      <4> QED
        BY <1>0, <3>1, FreshGone
    <3> QED
      BY <3>2
  <2>2. CASE StaysAt(k)
    <3>1. k \in DOMAIN stack /\ v.fn = stack[k].fn /\ Gone(stack[k]) \subseteq Covered
      BY <1>0, <2>2 DEF StaysAt, Complete
    <3>2. CASE v = stack[k]
      BY <1>0, <3>1, <3>2
    <3>3. CASE stack[k] = Top /\ BeginFunction /\ v.pc = 1 /\ v.call = Top.call
      <4>1. Top \in RootedFrames /\ Top.fn \in Fn /\ Top.pc = 0
        BY <1>0, <3>3, TopKnown DEF BeginFunction, Running
      <4>2. v.fn \in Fn /\ v.call = 1
        BY <3>1, <3>3, <4>1 DEF RootedFrames
      <4>3. v.pc = 1
        BY <3>3
      <4>4. Gone(v) = {}
        <5> HIDE DEF v
        <5> QED
          BY <1>0, <4>2, <4>3, FreshGone
      <4> QED
        BY <4>4
    <3>4. ASSUME NEW u, WalkStep(u), v = u, stack' # stack, stack[k] = Top
          PROVE  Gone(v) \subseteq Covered'
      <4>1. Gone(u) \subseteq Covered \cup OnStack'
        BY <1>0, <3>1, <3>4, GoneMoves
      <4> QED
        BY <1>0, <3>4, <4>1 DEF Covered
    <3> QED
      BY <2>2, <3>2, <3>3, <3>4 DEF StaysAt, MovesAt
  <2> QED
    BY <2>1, <2>2, FramesCome
<1>2. ASSUME NEW f \in Traced', f \notin OnStack'
      PROVE  (f \in RootsOf(app) /\ f \in Waiting') \/ Callees(app, f) \subseteq Covered'
  <2>1. f \in Traced
    <3> SUFFICES ASSUME f \notin Traced PROVE FALSE
      OBVIOUS
    <3>1. f \in Fn /\ segments'[f] > 0 /\ ~(segments[f] > 0)
      BY <1>0, <1>2 DEF Traced
    <3>2. BeginFunction
      BY <1>0, <3>1, DeclTextStep
    <3>3. f = Top.fn
      BY <1>0, <3>1, <3>2, BeginText
    <3>4. stack # << >> /\ Top.pc = 0
      BY <3>2 DEF BeginFunction, Running
    <3>5. ~EndFunction
      <4>1. app.body[Top.fn] \in Seq(Node)
        BY <1>0, <3>1, <3>3, AppTyped DEF AppType
      <4> QED
        BY <3>4, <4>1 DEF EndFunction
    <3>6. Len(stack) \in DOMAIN stack' /\ StaysAt(Len(stack))
      BY <1>0, <3>4, <3>5, TopKnown, FramesCome
    <3>7. stack'[Len(stack)].fn = f
      BY <3>3, <3>6 DEF StaysAt, Top
    <3> QED
      BY <1>2, <3>6, <3>7 DEF OnStack
  <2>2. CASE f \in OnStack
    <3>1. PICK k \in DOMAIN stack : stack[k].fn = f
      BY <2>2 DEF OnStack
    <3>2. ~(k \in DOMAIN stack' /\ StaysAt(k))
      BY <1>2, <3>1 DEF StaysAt, OnStack
    <3>3. EndFunction /\ stack[k] = Top
      BY <3>2, FramesCome
    <3>4. Callees(app, f) \subseteq Gone(Top)
      BY <1>0, <3>1, <3>3, EndGone
    <3>5. Gone(Top) \subseteq Covered
      BY <1>0, <3>3 DEF Complete
    <3> QED
      BY <1>0, <3>4, <3>5
  <2>3. CASE f \notin OnStack /\ f \in RootsOf(app) /\ f \in Waiting
    <3> SUFFICES ASSUME f \notin Waiting' PROVE FALSE
      BY <2>3
    <3>1. (VisitMain \/ VisitDecl) /\ f = Head(roots)
      BY <2>3, WaitingEnds
    <3>2. f \notin app.mains => IsHandler(f)
      BY <1>0, <2>3 DEF RootsOf, IsHandler, RootsClean
    <3>3. ASSUME NEW kind, stack' = <<NewFrame(f, kind, currentPackage)>>
          PROVE  FALSE
      <4> DEFINE w == NewFrame(f, kind, currentPackage)
      <4>1. w.fn = f /\ stack' = <<w>>
        BY <3>3 DEF NewFrame
      <4> HIDE DEF w
      <4>2. 1 \in DOMAIN stack' /\ stack'[1] = w
        BY <4>1
      <4> QED
        BY <1>2, <4>1, <4>2 DEF OnStack
    <3>4. VisitMain => stack' = <<NewFrame(f, "main", currentPackage)>>
      BY <3>1 DEF VisitMain
    <3>5. VisitDecl => stack' = <<NewFrame(f, "handler", currentPackage)>>
      BY <3>1, <3>2 DEF VisitDecl
    <3> QED
      BY <3>1, <3>3, <3>4, <3>5
  <2> QED
    BY <1>0, <2>1, <2>2, <2>3 DEF Complete
<1>3. \A t : Gone(t)' = Gone(t)
  BY <1>0, GoneSteady
<1>4. \A f : Callees(app, f)' = Callees(app, f)
  BY <1>0, AppSteady
<1>5. \A k \in DOMAIN stack' : Gone(stack[k])' \subseteq Covered'
  BY <1>1, <1>3
<1> QED
  BY <1>0, <1>2, <1>4, <1>5 DEF Complete

LEMMA TraceInvKept ==
  ASSUME ShapedInv, AgentInv, SetupInv, Traceable(app), TraceInv, [Next]_vars
  PROVE  TraceInv'
BY RootsCleanKept, MarksKept, RootedKept, SoundKept, CompleteKept
   DEF TraceInv, Traceable

LEMMA TraceInvInitially ==
  ASSUME Init, Traceable(app)
  PROVE  TraceInv
<1>0. /\ app \in Apps /\ stack = << >> /\ IInv /\ TablesNamed /\ NamesUnique(app)
      /\ pending = Pkg
  BY ShapedInitially DEF Init, ShapedInv, IInv, ShapeInv, Traceable
<1>1. /\ \A f \in Fn : segments[f] = 0 /\ txnParams[f] = 0
      /\ \A p \in Pkg, n \in Name : tracedFuncs[p][n] = StoredDecl(app, p, n)
  BY DEF Init
<1>2. RootsOf(app) \subseteq Fn /\ \A f \in RootsOf(app) : IsDeclared(f)
  BY DEF RootsOf, IsDeclared
<1>3. RootsOf(app) \subseteq Waiting
  <2>1. \A f \in Fn : app.pkg[f] \in Pkg
    BY <1>0, AppTyped DEF AppType
  <2> QED
    BY <1>0, <1>2, <2>1 DEF Waiting
<1>4. OnStack = {}
  BY <1>0 DEF OnStack
<1>5. ASSUME NEW f \in Fn, IsDeclared(f)
      PROVE  Entry(f).traced <=> f \in app.hasTxn
  <2> DEFINE p == app.pkg[f]
             n == app.name[f]
             I == {i \in DOMAIN app.decls[p] : app.name[app.decls[p][i]] = n}
             T == {i \in I : app.decls[p][i] \in app.hasTxn}
  <2>1. p \in Pkg /\ n \in Name /\ Entry(f) = StoredDecl(app, p, n)
    BY <1>0, <1>1, AppTyped DEF AppType, Entry
  <2>2. PICK i \in DOMAIN app.decls[p] : app.decls[p][i] = f
    BY <1>5 DEF IsDeclared
  <2>3. \A j \in I : app.decls[p][j] = f
    BY <1>0, <1>5, <2>1, ListedIsDeclared, NamedOnce
  <2>4. i \in I
    BY <2>2
  <2>5. T # {} <=> f \in app.hasTxn
    BY <2>2, <2>3, <2>4
  <2>6. StoredDecl(app, p, n).traced <=> T # {}
    <3>1. CASE T # {}
      BY <2>4, <3>1 DEF StoredDecl
    <3>2. CASE T = {}
      BY <2>4, <3>2 DEF StoredDecl
    <3> QED
      BY <3>1, <3>2
  <2> QED
    BY <2>1, <2>5, <2>6
<1>6. \A f \in Fn : ~(segments[f] > 0)
  BY <1>1
<1>7. RootsClean /\ Sound
  BY <1>1, <1>2, <1>4, <1>6 DEF RootsClean, Sound
<1>8. MarksOK
  BY <1>5 DEF MarksOK
<1>9. Rooted
  BY <1>0 DEF Rooted
<1>10. Complete
  BY <1>0, <1>3, <1>6 DEF Complete, Traced
<1> QED
  BY <1>7, <1>8, <1>9, <1>10 DEF TraceInv

(* The inductive invariant: what is on the stack or has a segment can be   *)
(* reached, and what a walk has come to has begun or been done before.     *)
THEOREM Tracing == Spec => [](Traceable(app) => TraceInv)
<1> DEFINE J == Traceable(app) => TraceInv
<1>1. Init => J
  BY TraceInvInitially
<1>2. ShapedInv /\ AgentInv /\ SetupInv /\ J /\ [Next]_vars => J'
  <2> SUFFICES ASSUME ShapedInv, AgentInv, SetupInv, J, [Next]_vars, Traceable(app)'
               PROVE  TraceInv'
    OBVIOUS
  <2>1. app' = app
    BY WaitingShrinks DEF ShapedInv
  <2>2. Traceable(app)
    BY <2>1
  <2> QED
    BY <2>2, TraceInvKept
<1> QED
  BY <1>1, <1>2, Shaped, Agents, Setup, PTL DEF Spec

(* When the pass is over, the functions with a segment are exactly those a *)
(* transaction can be carried to from main or a handler, roots left out,   *)
(* recursive ones included: no callee is forgotten because of the package, *)
(* the declaration order or the root the walk came from, and none is       *)
(* traced that should be left alone.                                       *)
THEOREM TracesReachableHolds == Spec => [](Traceable(app) => TracesReachable)
<1>1. ShapedInv /\ TraceInv => TracesReachable
  <2> SUFFICES ASSUME ShapedInv, TraceInv, Finished
               PROVE  {f \in Fn : segments[f] > 0} = Reachable(app) \ RootsOf(app)
    BY DEF TracesReachable
  <2>1. /\ app \in Apps /\ RootsClean /\ Sound /\ Complete
    BY DEF ShapedInv, IInv, TraceInv
  <2>2. OnStack = {} /\ Waiting = {}
    BY DEF Finished, OnStack, Waiting, Visiting
  <2>3. Covered = Traced /\ \A f \in Traced : Callees(app, f) \subseteq Traced
    BY <2>1, <2>2 DEF Covered, Complete
  <2>4. Traced \in SUBSET Fn /\ RootsOf(app) \subseteq Traced
    BY <2>1, ReachableClosed DEF Traced
  <2>5. Reachable(app) \subseteq Traced
    BY <2>1, <2>3, <2>4, ReachableClosed
  <2>6. \A f \in RootsOf(app) : ~(segments[f] > 0)
    BY <2>1 DEF RootsClean
  <2> QED
    BY <2>1, <2>5, <2>6, ReachableClosed DEF Sound, Traced
<1> QED
  BY <1>1, Shaped, Tracing, PTL

-----------------------------------------------------------------------------
(* The transaction is in scope.                                            *)

(* The calls of statements that the activation t has passed, and the calls *)
(* that are handed a transaction wherever they stand in a statement.       *)
Past(t) ==
  {s \in Site : \E i \in DOMAIN app.body[t.fn] :
     LET n == app.body[t.fn][i]
     IN  /\ n.kind \in {"assign", "if", "return", "other"}
         /\ \E j \in DOMAIN n.calls :
              s = n.calls[j] /\ (i < t.pc \/ (i = t.pc /\ j < t.call))}

ToHand == {s \in Site : /\ app.to[s] \notin app.lits /\ IsDeclared(app.to[s])
                        /\ app.to[s] # setupFunc
                        /\ app.name[app.to[s]] \notin app.inTxn}

HandsNothing == {t \in Frame : ~t.started /\ Past(t) \cap ToHand = {}}

ScopeFrames == {t \in Frame :
  /\ t.kind = "main" => t.definedTxn \/ t \in HandsNothing
  /\ t.definedTxn => txnDefs[t.fn] > 0
  /\ Handed(t) /\ t.pc > 0 => app.param[t.fn] # "ctx" \/ DefinesTxn(t)
  /\ t.pc = 0 => t.call = 1 /\ ~DefinesTxn(t)}

Bound  == {f \in Fn : txnParams[f] > 0 \/ txnDefs[f] > 0}
ToBind == {f \in Fn : \E k \in DOMAIN stack : stack[k].fn = f /\ DefinesTxn(stack[k])}

ScopeInv == \/ crashed
            \/ /\ txnUses \subseteq Bound \cup ToBind
               /\ \A k \in DOMAIN stack : stack[k] \in ScopeFrames

(* What a step of a walk does with the transaction.                        *)
TxnStep(u) ==
  /\ txnUses' \subseteq txnUses \cup {Top.fn}
  /\ Top.fn \in txnUses' =>
       \/ Top.fn \in txnUses
       \/ /\ Top.kind = "main" => u.definedTxn
          /\ Top.kind = "handler" => u.changed
  /\ Top.kind = "main" => u.definedTxn \/ u \in HandsNothing

LEMMA HandedWhere ==
  ASSUME IInv, TablesNamed, NamesUnique(app), NEW s \in Site,
         app.to[s] \notin app.lits, NEW t
  PROVE  s \in ToHand <=> IsInvocation(t, s) /\ ~Excluded(s)
<1> DEFINE h == app.to[s]
<1>1. h \in Fn
  BY AppTyped DEF IInv, AppType
<1>2. InvDecl(s) # NoFn => InvDecl(s) = h /\ IsDeclared(h)
  BY ResolvesTo
<1>3. IsDeclared(h) => InvDecl(s) # NoFn
  BY <1>1 DEF TablesNamed, InvDecl
<1>4. IsInvocation(t, s) <=> InvDecl(s) # NoFn
  BY DEF IsInvocation
<1> QED
  BY <1>2, <1>3, <1>4 DEF ToHand, Excluded

LEMMA PastAtNext ==
  ASSUME IInv, Walking, NEW u, u.fn = Top.fn, AtNext(u),
         ~IsStmt \/ Top.call \notin DOMAIN TopNode.calls
  PROVE  Past(u) \subseteq Past(Top)
<1>1. /\ Top.fn \in Fn /\ Top.pc \in DOMAIN app.body[Top.fn]
      /\ TopNode = app.body[Top.fn][Top.pc] /\ Top \in Frame
  BY TopNodeTyped DEF Walking, TopNode
<1>2. Top.pc \in Nat /\ Top.call \in Nat \ {0}
  BY <1>1 DEF Frame
<1> SUFFICES ASSUME NEW s \in Past(u)
             PROVE  s \in Past(Top)
  OBVIOUS
<1>3. s \in Site
  BY DEF Past
<1> DEFINE B == app.body[Top.fn]
<1>11. PICK i \in DOMAIN B :
         /\ B[i].kind \in {"assign", "if", "return", "other"}
         /\ \E j \in DOMAIN B[i].calls :
              s = B[i].calls[j] /\ (i < u.pc \/ (i = u.pc /\ j < u.call))
  BY DEF Past
<1>4. PICK j \in DOMAIN B[i].calls :
        /\ B[i].kind \in {"assign", "if", "return", "other"}
        /\ s = B[i].calls[j] /\ (i < u.pc \/ (i = u.pc /\ j < u.call))
  BY <1>11
<1>5. i \in Nat \ {0} /\ B[i] \in Node
  BY <1>1, <1>4, PcTyped, NodeTyped DEF IInv
<1>6. B[i].calls \in Seq(Site)
  BY <1>5 DEF Node
<1>7. DOMAIN B[i].calls = 1 .. Len(B[i].calls) /\ Len(B[i].calls) \in Nat /\ j \in Nat \ {0}
  BY <1>4, <1>6
<1>8. i < Top.pc \/ i = Top.pc
  BY <1>2, <1>4, <1>5, <1>7 DEF AtNext
<1>9. CASE i = Top.pc
  <2>1. Top.call \notin DOMAIN B[i].calls
    BY <1>1, <1>4, <1>9 DEF IsStmt
  <2>2. j < Top.call
    <3> DEFINE l == Len(B[i].calls)
    <3>1. l \in Nat /\ j \in 1 .. l /\ Top.call \notin 1 .. l
      BY <1>4, <1>7, <2>1
    <3> HIDE DEF l
    <3> QED
      BY <1>2, <3>1
  <2> QED
    BY <1>3, <1>4, <1>9, <2>2 DEF Past
<1>10. CASE i < Top.pc
  BY <1>3, <1>4, <1>10 DEF Past
<1> QED
  BY <1>8, <1>9, <1>10

LEMMA PastAtNextCall ==
  ASSUME IInv, Walking, NEW u, u.fn = Top.fn, AtNextCall(u)
  PROVE  Past(u) \subseteq Past(Top) \cup {TopCall}
<1>1. /\ Top.fn \in Fn /\ Top.pc \in DOMAIN app.body[Top.fn]
      /\ TopNode = app.body[Top.fn][Top.pc] /\ Top \in Frame
  BY TopNodeTyped DEF Walking, TopNode
<1>2. Top.pc \in Nat /\ Top.call \in Nat \ {0}
  BY <1>1 DEF Frame
<1> SUFFICES ASSUME NEW s \in Past(u)
             PROVE  s \in Past(Top) \/ s = TopCall
  OBVIOUS
<1>3. s \in Site
  BY DEF Past
<1> DEFINE B == app.body[Top.fn]
<1>11. PICK i \in DOMAIN B :
         /\ B[i].kind \in {"assign", "if", "return", "other"}
         /\ \E j \in DOMAIN B[i].calls :
              s = B[i].calls[j] /\ (i < u.pc \/ (i = u.pc /\ j < u.call))
  BY DEF Past
<1>4. PICK j \in DOMAIN B[i].calls :
        /\ B[i].kind \in {"assign", "if", "return", "other"}
        /\ s = B[i].calls[j] /\ (i < u.pc \/ (i = u.pc /\ j < u.call))
  BY <1>11
<1>5. i \in Nat \ {0} /\ B[i] \in Node
  BY <1>1, <1>4, PcTyped, NodeTyped DEF IInv
<1>6. B[i].calls \in Seq(Site)
  BY <1>5 DEF Node
<1>7. j \in Nat
  BY <1>4, <1>6
<1>8. i < Top.pc \/ (i = Top.pc /\ (j < Top.call \/ j = Top.call))
  BY <1>2, <1>4, <1>5, <1>7 DEF AtNextCall
<1>9. CASE i = Top.pc /\ j = Top.call
  BY <1>1, <1>4, <1>9 DEF TopCall
<1>10. CASE i < Top.pc \/ (i = Top.pc /\ j < Top.call)
  BY <1>3, <1>4, <1>10 DEF Past
<1> QED
  BY <1>8, <1>9, <1>10

(* The next node, where nothing is handed a transaction in the last one.   *)
LEMMA HandsNothingNext ==
  ASSUME IInv, Walking, NEW u \in Frame, u.fn = Top.fn, AtNext(u), u.started = FALSE,
         ~IsStmt \/ Top.call \notin DOMAIN TopNode.calls, Top \in HandsNothing
  PROVE  u \in HandsNothing
BY PastAtNext DEF HandsNothing

LEMMA StartedFacts ==
  ASSUME NEW t \in Frame
  PROVE  NextNode(t).started = FALSE /\ NextCall(t).started = t.started
BY DEF NextNode, NextCall, Frame

LEMMA TxnSkips ==
  ASSUME ShapedInv, NamesUnique(app), Top \in ScopeFrames,
         SkipGoInMain \/ FinishGo \/ SkipCall
  PROVE  \E u : WalkStep(u) /\ TxnStep(u)
<1>0. /\ IInv /\ TablesNamed /\ Walking /\ Top \in Frame
      /\ txnUses' = txnUses
  BY TopNodeTyped DEF ShapedInv, ShapeInv, SkipGoInMain, FinishGo, SkipCall, Skipped, HasCall
<1>1. ASSUME NEW u, WalkStep(u), u.definedTxn = Top.definedTxn,
             Top.kind = "main" /\ Top \in HandsNothing => u \in HandsNothing
      PROVE  TxnStep(u)
  BY <1>0, <1>1, Zenon DEF TxnStep, ScopeFrames
<1>2. CASE SkipGoInMain \/ FinishGo
  <2> DEFINE u == NextNode(Top)
  <2>1. WalkStep(u)
    BY <1>0, <1>2, SkipGoInMainWalks, FinishGoWalks
  <2>2. /\ u \in Frame /\ u.fn = Top.fn /\ AtNext(u)
    BY <1>0, NextNodeContinues DEF Continues, Same, AtNext
  <2>3. u.definedTxn = Top.definedTxn /\ u.started = FALSE
    BY <1>0, NextNodeContinues, StartedFacts, Zenon
  <2>4. ~IsStmt
    BY <1>2 DEF SkipGoInMain, FinishGo, IsStmt
  <2> HIDE DEF u
  <2>5. Top \in HandsNothing => u \in HandsNothing
    BY <1>0, <2>2, <2>3, <2>4, HandsNothingNext
  <2> QED
    BY <1>1, <2>1, <2>3, <2>5
<1>3. CASE SkipCall
  <2> DEFINE u == NextCall(Top)
  <2>1. WalkStep(u)
    BY <1>0, <1>3, SkipCallWalks
  <2>2. Top.call \in DOMAIN TopNode.calls /\ TopCall \in Site
    BY <1>0, <1>3, TopNodeTyped DEF SkipCall, Skipped, HasCall
  <2>3. u \in Frame /\ u.fn = Top.fn /\ AtNextCall(u)
    BY <1>0, <2>2, NextCallContinues DEF Continues, Same, AtNextCall
  <2>4. u.definedTxn = Top.definedTxn /\ u.started = Top.started
    BY <1>0, NextCallContinues, StartedFacts, Zenon
  <2>5. ASSUME Top.kind = "main" PROVE TopCall \notin ToHand
    <3>1. IsInvocation(Top, TopCall) => Excluded(TopCall)
      BY <1>3, <2>5 DEF SkipCall, Skipped
    <3>2. CASE app.to[TopCall] \in app.lits
      BY <3>2 DEF ToHand
    <3>3. CASE app.to[TopCall] \notin app.lits
      BY <1>0, <2>2, <3>1, <3>3, HandedWhere
    <3> QED
      BY <3>2, <3>3
  <2> HIDE DEF u
  <2>6. Top.kind = "main" /\ Top \in HandsNothing => u \in HandsNothing
    BY <1>0, <2>3, <2>4, <2>5, PastAtNextCall DEF HandsNothing
  <2> QED
    BY <1>1, <2>1, <2>4, <2>6
<1> QED
  BY <1>2, <1>3

LEMMA TxnLiterals ==
  ASSUME ShapedInv, Top \in ScopeFrames, TraceGoLiteral \/ TraceLiteralAssignment
  PROVE  \E u : WalkStep(u) /\ TxnStep(u)
<1>0. IInv /\ Walking /\ Top \in Frame
  BY TopNodeTyped DEF ShapedInv, TraceGoLiteral, TraceLiteralAssignment
<1>1. CASE TraceGoLiteral
  <2> DEFINE t == AfterCall(Top, TopNode.outer, TRUE)
             u == NextNode(t)
  <2>1. WalkStep(u) /\ Top.kind # "main"
    BY <1>0, <1>1, TraceGoLiteralWalks DEF TraceGoLiteral
  <2>2. t \in Frame /\ t.changed
    BY <1>0, AfterCallContinues DEF Continues
  <2>3. txnUses' \subseteq txnUses \cup {Top.fn}
    BY <1>1 DEF TraceGoLiteral, AddToCall
  <2> HIDE DEF t
  <2>4. u.changed
    BY <2>2, NextNodeContinues DEF Continues
  <2> QED
    BY <2>1, <2>3, <2>4 DEF TxnStep
<1>2. CASE TraceLiteralAssignment
  <2> DEFINE t == [Top EXCEPT !.litVars = @ \cup {TopNode.lit}]
             u == NextNode(t)
  <2>1. WalkStep(u) /\ txnUses' = txnUses
    BY <1>0, <1>2, TraceLiteralAssignmentWalks DEF TraceLiteralAssignment
  <2>2. TopNode.lit \in Fn /\ ~IsStmt
    BY <1>0, <1>2, TopNodeTyped DEF TraceLiteralAssignment, IsStmt
  <2>3. /\ t \in Frame /\ t.fn = Top.fn /\ t.pc = Top.pc
        /\ t.definedTxn = Top.definedTxn
    BY <1>0, <2>2 DEF Frame
  <2> HIDE DEF t
  <2>4. u \in Frame /\ u.fn = Top.fn /\ AtNext(u)
    BY <2>3, NextNodeContinues DEF Continues, Same, AtNext
  <2>5. u.definedTxn = Top.definedTxn /\ u.started = FALSE
    BY <2>3, NextNodeContinues, StartedFacts, Zenon
  <2> HIDE DEF u
  <2>6. Top \in HandsNothing => u \in HandsNothing
    BY <1>0, <2>2, <2>4, <2>5, HandsNothingNext
  <2>7. TxnStep(u)
    BY <2>1, <2>5, <2>6, Zenon DEF TxnStep, ScopeFrames
  <2> QED
    BY <2>1, <2>7
<1> QED
  BY <1>1, <1>2

LEMMA TxnCalls ==
  ASSUME ShapedInv, TransactionAtHand(app), Top \in ScopeFrames,
         TraceGoCall \/ TraceCall
  PROVE  \E u : WalkStep(u) /\ TxnStep(u)
<1>0. /\ IInv /\ TablesNamed /\ Walking /\ Top \in Frame
      /\ Top.call \in DOMAIN TopNode.calls /\ TopCall \in Site
  BY TopNodeTyped DEF ShapedInv, ShapeInv, TraceGoCall, TraceCall, HasCall
<1>1. CASE TraceGoCall
  <2> DEFINE t == AfterCall(Top, TopNode.outer, TRUE)
             u == NextCall(t)
  <2>1. WalkStep(u) /\ Top.kind # "main"
    BY <1>0, <1>1, TraceGoCallWalks DEF TraceGoCall
  <2>2. t \in Frame /\ t.changed
    BY <1>0, AfterCallContinues DEF Continues
  <2>3. txnUses' \subseteq txnUses \cup {Top.fn}
    BY <1>1 DEF TraceGoCall, AddToCall
  <2> HIDE DEF t
  <2>4. u.changed
    BY <2>2, NextCallContinues DEF Continues
  <2> QED
    BY <2>1, <2>3, <2>4 DEF TxnStep
<1>2. CASE TraceCall
  <2> DEFINE u == CallerFrame
  <2>1. WalkStep(u) /\ u.changed
    BY <1>0, <1>2, TraceCallWalks, CallFrameContinues
  <2>2. u.definedTxn = (Top.definedTxn \/ Wraps(Top))
    BY <1>0, CallFrameContinues, Zenon
  <2>3. txnUses' \subseteq txnUses \cup {Top.fn}
    BY <1>2 DEF TraceCall, AddToCall
  <2>4. ASSUME Top.kind = "main", Top.definedTxn # TRUE PROVE Wraps(Top)
    <3>1. Top.definedTxn = FALSE
      BY <1>0, <2>4 DEF Frame
    <3>2. ~Top.started /\ Past(Top) \cap ToHand = {}
      BY <2>4, <3>1 DEF ScopeFrames, HandsNothing
    <3>3. ASSUME ~TopNode.listed PROVE FALSE
      <4> DEFINE f == Top.fn
                 i == Top.pc
                 B == app.body[f]
      <4>1. /\ f \in Fn /\ i \in DOMAIN B /\ TopNode = B[i]
            /\ f \in app.mains
        BY <1>0, <2>4, TopNodeTyped, TopOK
           DEF Walking, Running, TopNode, FrameOK, ShapedInv
      <4>2. /\ app.to[TopCall] \notin app.lits
            /\ \E h \in 1 .. i - 1 :
                 /\ B[h].kind \in {"assign", "if", "return", "other"}
                 /\ \E k \in DOMAIN B[h].calls : B[h].calls[k] = TopCall
        <5>1. \A j \in DOMAIN B[i].calls :
                /\ app.to[B[i].calls[j]] \notin app.lits
                /\ \E h \in 1 .. i - 1 :
                     /\ B[h].kind \in {"assign", "if", "return", "other"}
                     /\ \E k \in DOMAIN B[h].calls : B[h].calls[k] = B[i].calls[j]
          <6>1. ~B[i].listed
            BY <3>3, <4>1
          <6> QED
            BY <4>1, <6>1 DEF TransactionAtHand
        <5>2. TopCall = B[i].calls[Top.call] /\ Top.call \in DOMAIN B[i].calls
          BY <1>0, <4>1 DEF TopCall
        <5> DEFINE s == TopCall
                   c == Top.call
        <5>3. s = B[i].calls[c] /\ c \in DOMAIN B[i].calls
          BY <5>2
        <5> HIDE DEF s, c, B, i
        <5> SUFFICES /\ app.to[s] \notin app.lits
                     /\ \E h \in 1 .. i - 1 :
                          /\ B[h].kind \in {"assign", "if", "return", "other"}
                          /\ \E k \in DOMAIN B[h].calls : B[h].calls[k] = s
          BY DEF s
        <5> QED
          BY <5>1, <5>3
      <4>3. TopCall \in ToHand
        BY <1>0, <1>2, <4>2, HandedWhere DEF TransactionAtHand, TraceCall
      <4>4. PICK h \in 1 .. i - 1 :
              /\ B[h].kind \in {"assign", "if", "return", "other"}
              /\ \E k \in DOMAIN B[h].calls : B[h].calls[k] = TopCall
        BY <4>2
      <4>5. h < Top.pc /\ h \in DOMAIN B
        <5>1. B \in Seq(Node)
          BY <1>0, <4>1, AppTyped DEF IInv, AppType
        <5>2. i \in 1 .. Len(B) /\ DOMAIN B = 1 .. Len(B) /\ Len(B) \in Nat
          BY <4>1, <5>1
        <5>3. h \in 1 .. i - 1
          OBVIOUS
        <5> DEFINE l == Len(B)
        <5> HIDE DEF B, l
        <5>4. l \in Nat /\ i \in 1 .. l /\ DOMAIN B = 1 .. l
          BY <5>2 DEF l
        <5>5. h < i /\ h \in 1 .. l
          BY <5>3, <5>4
        <5> QED
          BY <5>4, <5>5
      <4>6. TopCall \in Past(Top)
        BY <1>0, <4>4, <4>5 DEF Past
      <4> QED
        BY <3>2, <4>3, <4>6
    <3> QED
      BY <2>4, <3>2, <3>3 DEF Wraps
  <2> HIDE DEF u
  <2>5. Top.kind = "main" => u.definedTxn
    <3>1. CASE Top.definedTxn = TRUE
      BY <2>2, <3>1, Zenon
    <3>2. CASE Top.definedTxn # TRUE
      BY <2>2, <2>4, <3>2, Zenon
    <3> QED
      BY <3>1, <3>2
  <2> QED
    BY <2>1, <2>3, <2>5 DEF TxnStep
<1> QED
  BY <1>1, <1>2

LEMMA TxnStatement ==
  ASSUME ShapedInv, TransactionAtHand(app), Top \in ScopeFrames, FinishStatement
  PROVE  \E u : WalkStep(u) /\ TxnStep(u)
<1> DEFINE u == StatementFrame
           e == NoticeError(Top, TopNode)
           http == TopNode.http /\ TopNode.listed
<1>0. /\ IInv /\ Walking /\ Top \in Frame /\ stack # << >>
      /\ Top.fn \in Fn /\ Top.pc \in DOMAIN app.body[Top.fn]
      /\ TopNode = app.body[Top.fn][Top.pc]
  BY TopNodeTyped DEF ShapedInv, FinishStatement, Walking, Running, TopNode
<1>1. FrameOK(Top)
  BY <1>0, TopOK DEF ShapedInv
<1>2. WalkStep(u)
  BY <1>0, FinishStatementWalks
<1>3. /\ u \in Frame /\ u.fn = Top.fn /\ AtNext(u)
      /\ http \/ SaysChanged(TopNode, e) => u.changed
  BY <1>0, StatementFrameContinues DEF Continues, Same, AtNext
<1>4. u.definedTxn = Top.definedTxn
  BY <1>0, StatementFrameContinues, Zenon
<1>5. txnUses' = IF http \/ e.hit THEN txnUses \cup {Top.fn} ELSE txnUses
  BY DEF FinishStatement
<1>6. u.started = FALSE
  <2> DEFINE t == [Top EXCEPT !.txnUsed = @ \/ http \/ e.hit,
                              !.changed = @ \/ http \/ SaysChanged(TopNode, e)]
  <2>1. u = NextNode(t)
    BY DEF StatementFrame
  <2>2. NextNode(t).started = FALSE
    <3>1. t \in Frame
      <4> DEFINE a == Top.txnUsed \/ http \/ e.hit
                 b == Top.changed \/ http \/ SaysChanged(TopNode, e)
      <4>1. a \in BOOLEAN /\ b \in BOOLEAN
        BY Zenon
      <4>2. t = [Top EXCEPT !.txnUsed = a, !.changed = b]
        BY <1>0 DEF Frame
      <4> HIDE DEF a, b, t
      <4> QED
        BY <1>0, <4>1, <4>2 DEF Frame
    <3> HIDE DEF t
    <3> QED
      BY <3>1, StartedFacts
  <2> QED
    BY <2>1, <2>2
<1>7. Top \in HandsNothing => u \in HandsNothing
  <2>1. Top.call \notin DOMAIN TopNode.calls
    BY DEF FinishStatement
  <2> HIDE DEF u
  <2> QED
    BY <1>0, <1>3, <1>6, <2>1, HandsNothingNext
<1>8. CASE Top.kind = "main"
  <2>1. ~http
    BY <1>0, <1>1, <1>8 DEF FrameOK, TransactionAtHand
  <2>2. ~e.hit
    BY <1>8 DEF NoticeError, ErrNow
  <2>3. txnUses' = txnUses
    BY <1>5, <2>1, <2>2
  <2> HIDE DEF u
  <2>4. TxnStep(u)
    BY <1>4, <1>7, <2>3, Zenon DEF TxnStep, ScopeFrames
  <2> QED
    BY <1>2, <2>4
<1>9. CASE Top.kind # "main"
  <2>1. Top.kind = "handler" => ~(TopNode.kind = "return" /\ TopNode.checks)
    BY <1>0, <1>1 DEF FrameOK, TransactionAtHand
  <2>2. Top.kind = "handler" /\ e.hit => SaysChanged(TopNode, e)
    <3> HIDE DEF e
    <3> QED
      BY <2>1 DEF SaysChanged
  <2> HIDE DEF u, e, http
  <2>3. TxnStep(u)
    BY <1>3, <1>5, <1>9, <2>2 DEF TxnStep
  <2> QED
    BY <1>2, <2>3
<1> QED
  BY <1>8, <1>9

(* Every step of a pass, with what it does with the transaction.           *)
LEMMA TxnCases ==
  ASSUME ShapedInv, TransactionAtHand(app), stack # << >> => Top \in ScopeFrames,
         [Next]_vars
  PROVE  \/ \E p \in Pkg : StartPackage(p)
         \/ VisitMain \/ VisitDecl
         \/ BeginFunction
         \/ \E u : WalkStep(u) /\ TxnStep(u)
         \/ EndFunction
         \/ UNCHANGED vars
<1> DEFINE Goal == \E u : WalkStep(u) /\ TxnStep(u)
<1>1. ASSUME SkipGoInMain \/ FinishGo \/ SkipCall \/ TraceGoLiteral
             \/ TraceLiteralAssignment \/ TraceGoCall \/ TraceCall \/ FinishStatement
      PROVE  Goal
  <2>1. Walking
    BY <1>1 DEF SkipGoInMain, FinishGo, SkipCall, Skipped, HasCall, TraceGoLiteral,
                TraceLiteralAssignment, TraceGoCall, TraceCall, FinishStatement
  <2>2. Top \in ScopeFrames /\ NamesUnique(app)
    BY <2>1 DEF Walking, Running, TransactionAtHand
  <2> QED
    BY <1>1, <2>2, TxnSkips, TxnLiterals, TxnCalls, TxnStatement
<1> HIDE DEF Goal
<1>2. Next => \/ \E p \in Pkg : StartPackage(p)
              \/ VisitMain \/ VisitDecl
              \/ BeginFunction
              \/ Goal
              \/ EndFunction
              \/ UNCHANGED vars
  BY <1>1 DEF Next, Walk, Halt
<1> QED
  BY <1>2 DEF Goal

LEMMA DefsGrow ==
  ASSUME ShapedInv, [Next]_vars
  PROVE  /\ \A f \in Fn : txnDefs[f] > 0 => txnDefs'[f] > 0
         /\ Bound \subseteq Bound'
<1>0. IInv
  BY DEF ShapedInv
<1>1. txnDefs \in [Fn -> Nat]
  BY <1>0 DEF IInv, TypeOK, TextTypeOK, EditCounts
<1>2. \/ txnDefs' = txnDefs
      \/ txnDefs' = [txnDefs EXCEPT ![Top.fn] = @ + 1]
  <2>1. \A p \in Pkg : StartPackage(p) => txnDefs' = txnDefs
    BY DEF StartPackage
  <2>2. VisitMain \/ VisitDecl \/ BeginFunction \/ UNCHANGED vars => txnDefs' = txnDefs
    BY DEF VisitMain, VisitDecl, BeginFunction, vars
  <2>3. \A u : WalkStep(u) => \/ txnDefs' = txnDefs
                              \/ txnDefs' = [txnDefs EXCEPT ![Top.fn] = @ + 1]
    BY DEF WalkStep, DefsStep
  <2>4. EndFunction => \/ txnDefs' = txnDefs
                       \/ txnDefs' = [txnDefs EXCEPT ![Top.fn] = @ + 1]
    BY DEF EndFunction
  <2> QED
    BY <1>0, <2>1, <2>2, <2>3, <2>4, StepCases
<1>3. \A f \in Fn : txnDefs[f] > 0 => txnDefs'[f] > 0
  BY <1>1, <1>2
<1> QED
  BY <1>0, <1>3, TextGrows DEF Bound

LEMMA ScopeFrameStays ==
  ASSUME ShapedInv, [Next]_vars, setupFunc' = setupFunc, NEW t \in ScopeFrames
  PROVE  t \in ScopeFrames'
<1>1. app' = app
  BY WaitingShrinks DEF ShapedInv
<1>2. HandsNothing' = HandsNothing
  <2>1. ToHand' = ToHand
    BY <1>1 DEF ToHand, IsDeclared
  <2>2. \A s : Past(s)' = Past(s)
    BY <1>1 DEF Past
  <2> QED
    BY <2>1, <2>2 DEF HandsNothing
<1>3. t \in Frame /\ t.fn \in Fn
  BY DEF ScopeFrames, Frame
<1> QED
  BY <1>1, <1>2, <1>3, DefsGrow DEF ScopeFrames, DefinesTxn

(* A new activation has not passed a call.                                 *)
LEMMA FreshInScope ==
  ASSUME app \in Apps, app' = app, NEW f, NEW k, NEW p, NewFrame(f, k, p) \in Frame
  PROVE  NewFrame(f, k, p) \in ScopeFrames'
<1> DEFINE v == NewFrame(f, k, p)
<1>1. /\ v \in Frame /\ v.pc = 0 /\ v.call = 1 /\ v.started = FALSE
      /\ v.definedTxn = FALSE /\ v.txnUsed = FALSE /\ v.changed = FALSE
  BY DEF NewFrame
<1> HIDE DEF v
<1>2. v.fn \in Fn
  BY <1>1 DEF Frame
<1>3. Past(v)' = {}
  <2> SUFFICES ASSUME NEW i \in DOMAIN app.body[v.fn]
               PROVE  ~(i < v.pc) /\ i # v.pc
    BY <1>2 DEF Past
  <2>1. i \in Nat \ {0}
    BY <1>2, PcTyped
  <2> QED
    BY <1>1, <2>1
<1>4. v \in HandsNothing'
  BY <1>1, <1>3 DEF HandsNothing
<1>5. ~DefinesTxn(v)
  BY <1>1 DEF DefinesTxn
<1> QED
  BY <1>1, <1>4, <1>5 DEF ScopeFrames, DefinesTxn, v

(* What the text mentions is bound, or will be by an open activation.      *)
LEMMA ScopeKeptAtRoot ==
  ASSUME ShapedInv, ScopeInv, ~crashed, [Next]_vars, VisitMain \/ VisitDecl
  PROVE  ScopeInv'
<1>1. /\ stack = << >> /\ UNCHANGED <<txnUses, txnParams, txnDefs, app>>
  BY DEF VisitMain, VisitDecl, Idle, declText
<1>2. txnUses' \subseteq Bound'
  BY <1>1 DEF ScopeInv, Bound, ToBind
<1>3. ASSUME NEW k \in DOMAIN stack' PROVE stack'[k] \in ScopeFrames'
  <2>1. \E f, kind : stack' = <<NewFrame(f, kind, currentPackage)>>
    BY <1>3 DEF VisitMain, VisitDecl
  <2>2. PICK f, kind : stack' = <<NewFrame(f, kind, currentPackage)>>
    BY <2>1
  <2>3. stack'[k] \in Frame /\ app \in Apps
    BY ShapedInductive DEF ShapedInv, IInv, TypeOK, ControlTypeOK
  <2> DEFINE v == NewFrame(f, kind, currentPackage)
  <2>4. stack'[k] = v
    <3>1. stack' = <<v>>
      BY <2>2
    <3> HIDE DEF v
    <3> QED
      BY <3>1
  <2> QED
    BY <1>1, <2>3, <2>4, FreshInScope
<1> QED
  BY <1>2, <1>3 DEF ScopeInv

LEMMA ScopeKeptBegin ==
  ASSUME ShapedInv, ScopeInv, ~crashed, [Next]_vars, BeginFunction
  PROVE  ScopeInv'
<1>0. /\ IInv /\ TypeOK /\ stack # << >> /\ Top.pc = 0 /\ app' = app
      /\ setupFunc' = setupFunc
  BY WaitingShrinks DEF ShapedInv, IInv, BeginFunction, Running, control
<1>1. PICK u \in Frame :
        /\ stack' = SetTop(u) /\ Same(u, Top) /\ u.fn = Top.fn /\ u.pc = 1
        /\ u.definedTxn = Top.definedTxn /\ u.litVars = Top.litVars
        /\ u.call = Top.call /\ u.started = Top.started
        /\ u.obj = IF Handed(Top) /\ app.param[Top.fn] = "ctx" THEN "ctx" ELSE "txn"
        /\ u.txnUsed = Handed(Top) /\ u.changed = Handed(Top)
  BY <1>0, BeginFunctionMoves
<1> DEFINE n == Len(stack)
<1>2. /\ DOMAIN stack' = DOMAIN stack /\ n \in DOMAIN stack /\ Top = stack[n]
      /\ \A k \in DOMAIN stack : stack'[k] = IF k = n THEN u ELSE stack[k]
  BY <1>0, <1>1, TopReplaced DEF Top
<1> HIDE DEF n
<1>3. Top \in ScopeFrames /\ txnUses \subseteq Bound \cup ToBind
  BY <1>2 DEF ScopeInv
<1>4. /\ Top \in Frame /\ Top.call = 1 /\ ~DefinesTxn(Top) /\ Top.fn \in Fn
  BY <1>0, <1>3 DEF ScopeFrames, Frame
<1>5. txnUses' = IF Handed(u) THEN txnUses \cup {Top.fn} ELSE txnUses
  BY <1>1 DEF BeginFunction, Handed, Same
<1>6. Handed(u) => app.param[u.fn] # "ctx" \/ DefinesTxn(u)
  BY <1>1 DEF Same, Handed, DefinesTxn
<1>7. Handed(u) => Top.fn \in Bound' \cup ToBind'
  <2>1. CASE Handed(u) /\ app.param[Top.fn] # "ctx"
    <3>1. txnParams'[Top.fn] = txnParams[Top.fn] + 1 /\ txnParams[Top.fn] \in Nat
      BY <1>0, <1>1, <2>1, BeginText DEF Handed, Same
    <3> QED
      BY <1>4, <3>1 DEF Bound
  <2>2. CASE DefinesTxn(u)
    BY <1>1, <1>2, <1>4, <2>2 DEF ToBind, DefinesTxn
  <2> QED
    BY <1>1, <1>6, <2>1, <2>2
<1>8. ToBind \subseteq ToBind'
  BY <1>2, <1>4 DEF ToBind, DefinesTxn
<1>9. u \in ScopeFrames'
  <2>2. Past(u)' = {}
    <3> SUFFICES ASSUME NEW i \in DOMAIN app.body[Top.fn],
                        NEW j \in DOMAIN app.body[Top.fn][i].calls
                 PROVE  ~(i < 1) /\ ~(j < 1)
      BY <1>0, <1>1, <1>4 DEF Past
    <3>1. i \in Nat \ {0} /\ app.body[Top.fn][i] \in Node
      BY <1>0, <1>4, PcTyped, NodeTyped DEF IInv
    <3>2. app.body[Top.fn][i].calls \in Seq(Site)
      BY <3>1 DEF Node
    <3>3. j \in Nat \ {0}
      BY <3>2
    <3> QED
      BY <3>1, <3>3
  <2>3. Top \in HandsNothing => u \in HandsNothing'
    BY <1>1, <2>2 DEF HandsNothing
  <2>4. u.definedTxn => txnDefs'[u.fn] > 0
    BY <1>1, <1>3, <1>4, DefsGrow DEF ScopeFrames
  <2>5. u.kind = "main" => u.definedTxn \/ u \in HandsNothing'
    <3>1. u.kind = Top.kind
      BY <1>1 DEF Same
    <3> QED
      BY <1>1, <1>3, <2>3, <3>1, Zenon DEF ScopeFrames
  <2>6. (u.pc = 0) = FALSE
    BY <1>1
  <2> QED
    BY <1>0, <1>1, <1>6, <2>4, <2>5, <2>6 DEF ScopeFrames, DefinesTxn
<1>10. \A k \in DOMAIN stack' : stack'[k] \in ScopeFrames'
  BY <1>0, <1>2, <1>9, ScopeFrameStays DEF ScopeInv
<1> QED
  BY <1>3, <1>5, <1>7, <1>8, <1>10, DefsGrow DEF ScopeInv

LEMMA ScopeKeptEnd ==
  ASSUME ShapedInv, ScopeInv, ~crashed, [Next]_vars, EndFunction
  PROVE  ScopeInv'
<1>0. /\ IInv /\ TypeOK /\ stack # << >> /\ setupFunc' = setupFunc
      /\ stack' = SubSeq(stack, 1, Len(stack) - 1)
  BY DEF ShapedInv, IInv, EndFunction, Running
<1> DEFINE n == Len(stack)
<1>1. /\ DOMAIN stack = 1 .. n /\ n \in Nat \ {0} /\ DOMAIN stack' = 1 .. n - 1
      /\ \A k \in DOMAIN stack' : k \in DOMAIN stack /\ stack'[k] = stack[k]
      /\ Top = stack[n] /\ Top \in Frame
  BY <1>0, TopPopped, TopTyped DEF Top, TypeOK, ControlTypeOK
<1> HIDE DEF n
<1>2. Top.fn \in Fn
  BY <1>1 DEF Frame
<1>3. txnUses \subseteq Bound \cup ToBind
  BY DEF ScopeInv
<1>4. DefinesTxn(Top) => Top.fn \in Bound'
  <2>1. txnDefs \in [Fn -> Nat]
    BY <1>0 DEF TypeOK, TextTypeOK, EditCounts
  <2>2. DefinesTxn(Top) => txnDefs' = [txnDefs EXCEPT ![Top.fn] = @ + 1]
    BY DEF EndFunction
  <2>3. DefinesTxn(Top) => txnDefs'[Top.fn] > 0
    BY <1>2, <2>1, <2>2
  <2> QED
    BY <1>2, <2>3 DEF Bound
<1>5. txnUses' = IF DefinesTxn(Top) THEN txnUses \cup {Top.fn} ELSE txnUses
  BY DEF EndFunction
<1>6. ToBind \subseteq ToBind' \cup Bound'
  <2> SUFFICES ASSUME NEW f \in Fn, NEW k \in DOMAIN stack,
                      stack[k].fn = f, DefinesTxn(stack[k])
               PROVE  f \in ToBind' \cup Bound'
    BY DEF ToBind
  <2>1. CASE k = n
    BY <1>1, <1>4, <2>1
  <2>2. CASE k # n
    <3>1. k \in DOMAIN stack'
      BY <1>1, <2>2
    <3> QED
      BY <1>1, <3>1 DEF ToBind, DefinesTxn
  <2> QED
    BY <2>1, <2>2
<1>7. \A k \in DOMAIN stack' : stack'[k] \in ScopeFrames'
  BY <1>0, <1>1, ScopeFrameStays DEF ScopeInv
<1> QED
  BY <1>3, <1>4, <1>5, <1>6, <1>7, DefsGrow DEF ScopeInv

LEMMA ScopeKeptOnWalk ==
  ASSUME ShapedInv, ScopeInv, ~crashed, [Next]_vars, ~crashed',
         NEW u, WalkStep(u), TxnStep(u)
  PROVE  ScopeInv'
<1>0. /\ IInv /\ TypeOK /\ stack # << >> /\ setupFunc' = setupFunc /\ app' = app
      /\ UNCHANGED txnParams /\ ShapeInv
  BY DEF ShapedInv, IInv, WalkStep, Walking, Running, declText
<1> DEFINE n == Len(stack)
<1>1. /\ n \in Nat \ {0} /\ DOMAIN stack = 1 .. n /\ n \in 1 .. n
      /\ Top = stack[n] /\ Top \in Frame /\ u \in Frame
      /\ u.fn = Top.fn /\ u.kind = Top.kind
      /\ \/ DOMAIN stack' = 1 .. n /\ Below(n, u)
         \/ \E g \in Fn, k \in FrameKind :
              /\ DOMAIN stack' = 1 .. n + 1 /\ Below(n, u)
              /\ stack'[n + 1] = NewFrame(g, k, currentPackage)
  BY <1>0, WalkStack
<1> HIDE DEF n
<1>2. /\ \A k \in 1 .. n : k \in DOMAIN stack' /\ stack'[k] = IF k = n THEN u ELSE stack[k]
      /\ \A k \in DOMAIN stack' :
           \/ k \in 1 .. n
           \/ \E g, kind : stack'[k] = NewFrame(g, kind, currentPackage)
  BY <1>1 DEF Below
<1>3. Top \in ScopeFrames /\ txnUses \subseteq Bound \cup ToBind
  BY <1>1 DEF ScopeInv
<1>4. /\ Top.fn \in Fn /\ Top.pc \in Nat \ {0} /\ FrameOK(Top)
      /\ u.pc \in {Top.pc, Top.pc + 1} /\ u.obj = Top.obj
      /\ Top.txnUsed => u.txnUsed
      /\ Top.changed => u.changed
  BY <1>0, TopNodeTyped, TopOK, PcTyped DEF WalkStep, Walking, IInv, Continues
<1>5. DefinesTxn(Top) => DefinesTxn(u)
  BY <1>1, <1>4 DEF DefinesTxn
<1>6. DefinesTxn(u) => Top.fn \in ToBind'
  BY <1>1, <1>2, <1>4 DEF ToBind, DefinesTxn
<1>7. ToBind \subseteq ToBind'
  BY <1>1, <1>2, <1>5 DEF ToBind, DefinesTxn
<1>8. u.definedTxn => txnDefs'[Top.fn] > 0
  <2>1. CASE txnDefs' = txnDefs /\ u.definedTxn = Top.definedTxn
    BY <1>3, <2>1 DEF ScopeFrames
  <2>2. CASE txnDefs' = [txnDefs EXCEPT ![Top.fn] = @ + 1]
    <3>1. txnDefs \in [Fn -> Nat]
      BY <1>0 DEF TypeOK, TextTypeOK, EditCounts
    <3> QED
      BY <1>4, <2>2, <3>1
  <2> QED
    BY <2>1, <2>2 DEF WalkStep, DefsStep
<1>9. ASSUME Top.fn \in txnUses' PROVE Top.fn \in Bound' \cup ToBind'
  <2>1. CASE Top.fn \in txnUses
    BY <1>3, <1>7, <2>1, DefsGrow
  <2>2. CASE Top.kind = "main" /\ u.definedTxn
    BY <1>4, <1>8, <2>2 DEF Bound
  <2>3. CASE Top.kind = "handler" /\ u.changed
    BY <1>1, <1>6, <2>3 DEF DefinesTxn
  <2>4. CASE Handed(Top)
    <3>1. CASE app.param[Top.fn] # "ctx"
      BY <1>0, <1>4, <2>4, <3>1 DEF FrameOK, Bound
    <3>2. CASE app.param[Top.fn] = "ctx"
      <4>1. DefinesTxn(Top)
        BY <1>3, <1>4, <2>4, <3>2 DEF ScopeFrames
      <4> QED
        BY <1>5, <1>6, <4>1
    <3> QED
      BY <3>1, <3>2
  <2>5. Top.kind \in {"main", "handler"} \/ Handed(Top)
    BY <1>1 DEF Frame, FrameKind, Handed
  <2> QED
    BY <1>9, <2>1, <2>2, <2>3, <2>4, <2>5 DEF TxnStep
<1>10. u \in ScopeFrames'
  <2>1. HandsNothing' = HandsNothing
    <3>1. ToHand' = ToHand
      BY <1>0 DEF ToHand, IsDeclared
    <3>2. \A s : Past(s)' = Past(s)
      BY <1>0 DEF Past
    <3> QED
      BY <3>1, <3>2 DEF HandsNothing
  <2>2. u.kind = "main" => u.definedTxn \/ u \in HandsNothing'
    BY <1>1, <2>1 DEF TxnStep
  <2>3. Handed(u) => app'.param[u.fn] # "ctx" \/ DefinesTxn(u)
    <3>1. Handed(u) <=> Handed(Top)
      BY <1>1 DEF Handed
    <3> QED
      BY <1>0, <1>1, <1>3, <1>4, <1>5, <3>1 DEF ScopeFrames
  <2>4. u.definedTxn => txnDefs'[u.fn] > 0
    BY <1>1, <1>8
  <2>5. u.pc # 0
    BY <1>4
  <2> QED
    BY <1>1, <2>2, <2>3, <2>4, <2>5 DEF ScopeFrames, DefinesTxn
<1>11. ASSUME NEW k \in DOMAIN stack' PROVE stack'[k] \in ScopeFrames'
  <2>1. CASE k \in 1 .. n
    <3>1. stack'[k] = IF k = n THEN u ELSE stack[k]
      BY <1>2, <2>1
    <3>2. stack[k] \in ScopeFrames
      BY <1>1, <2>1 DEF ScopeInv
    <3> QED
      BY <1>0, <1>10, <3>1, <3>2, ScopeFrameStays
  <2>2. CASE \E g, kind : stack'[k] = NewFrame(g, kind, currentPackage)
    <3>1. stack'[k] \in Frame
      BY ShapedInductive DEF ShapedInv, IInv, TypeOK, ControlTypeOK
    <3> QED
      BY <1>0, <2>2, <3>1, FreshInScope DEF IInv
  <2> QED
    BY <1>2, <2>1, <2>2
<1> QED
  BY <1>3, <1>7, <1>9, <1>11, DefsGrow DEF ScopeInv, TxnStep

LEMMA ScopeInvKept ==
  ASSUME ShapedInv, TransactionAtHand(app), ScopeInv, [Next]_vars
  PROVE  ScopeInv'
<1>1. CASE crashed
  BY <1>1, CrashStays DEF ScopeInv
<1>2. CASE crashed'
  BY <1>2 DEF ScopeInv
<1>3. CASE ~crashed /\ ~crashed'
  <2>1. stack # << >> => Top \in ScopeFrames
    <3>1. stack \in Seq(Frame)
      BY DEF ShapedInv, IInv, TypeOK, ControlTypeOK
    <3>2. stack # << >> => Len(stack) \in DOMAIN stack
      BY <3>1
    <3> QED
      BY <1>3, <3>2 DEF ScopeInv, Top
  <2>2. ASSUME UNCHANGED vars \/ \E p \in Pkg : StartPackage(p) PROVE ScopeInv'
    <3>1. UNCHANGED <<app, setupFunc, stack, txnUses, txnParams, txnDefs, crashed>>
      BY <2>2 DEF StartPackage, vars, control, declText
    <3>2. \A k \in DOMAIN stack' : stack'[k] \in ScopeFrames'
      BY <1>3, <3>1, ScopeFrameStays DEF ScopeInv
    <3>3. txnUses' \subseteq Bound' \cup ToBind'
      BY <1>3, <3>1 DEF ScopeInv, Bound, ToBind, DefinesTxn
    <3> QED
      BY <3>2, <3>3 DEF ScopeInv
  <2> QED
    BY <1>3, <2>1, <2>2, TxnCases, ScopeKeptAtRoot, ScopeKeptBegin, ScopeKeptOnWalk,
       ScopeKeptEnd
<1> QED
  BY <1>1, <1>2, <1>3

(* The inductive invariant: who mentions the transaction is bound already, *)
(* or is an open activation that will define it when it ends; and main has *)
(* handed out nothing as long as it has not defined it.                    *)
THEOREM Scope == Spec => [](TransactionAtHand(app) => ScopeInv)
<1> DEFINE J == TransactionAtHand(app) => ScopeInv
<1>1. Init => J
  BY DEF Init, ScopeInv
<1>2. ShapedInv /\ J /\ [Next]_vars => J'
  <2> SUFFICES ASSUME ShapedInv, J, [Next]_vars, TransactionAtHand(app)'
               PROVE  ScopeInv'
    OBVIOUS
  <2>1. app' = app
    BY WaitingShrinks DEF ShapedInv
  <2>2. TransactionAtHand(app)
    BY <2>1
  <2> QED
    BY <2>2, ScopeInvKept
<1> QED
  BY <1>1, <1>2, Shaped, PTL DEF Spec

(* When the pass is over every function whose text mentions nrTxn binds    *)
(* it, in an application whose main has its calls where a transaction can  *)
(* be wrapped around them; the run ClientInMain shows a main that has not. *)
THEOREM TxnInScopeHolds == Spec => [](TransactionAtHand(app) => TxnInScope)
<1>1. ShapedInv /\ ScopeInv => TxnInScope
  <2> SUFFICES ASSUME ShapedInv, ScopeInv, Finished, NEW f \in txnUses
               PROVE  txnParams[f] + txnDefs[f] > 0
    BY DEF TxnInScope
  <2>1. f \in Bound
    BY DEF ScopeInv, Finished, ToBind
  <2>2. txnParams[f] \in Nat /\ txnDefs[f] \in Nat
    BY <2>1, TextTyped DEF Bound
  <2> QED
    BY <2>1, <2>2 DEF Bound
<1> QED
  BY <1>1, Shaped, Scope, PTL

=============================================================================
