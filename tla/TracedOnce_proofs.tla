-------------------------- MODULE TracedOnce_proofs --------------------------
(***************************************************************************)
(* Proofs about TraceFunction: in an application without recursion every   *)
(* function is walked once, and what follows from that for the edits of    *)
(* its text and for its errors.                                            *)
(***************************************************************************)
EXTENDS TraceFunction_proofs

-----------------------------------------------------------------------------
(* Nothing is re-entered: a cycle on the stack would be a cycle of calls.  *)

LEMMA StartsNoneBelow ==
  ASSUME TypeOK, Linked, Acyclic(app),
         NEW i \in DOMAIN stack, NEW j \in DOMAIN stack, i <= j
  PROVE  stack[i].fn \notin Starts(app, stack[j].fn)
<1> SUFFICES ASSUME stack[i].fn \in Starts(app, stack[j].fn)
             PROVE  FALSE
  OBVIOUS
<1> DEFINE n == Len(stack)
           R == {stack[k].fn : k \in i .. j}
<1>1. stack \in Seq(Frame) /\ n \in Nat /\ DOMAIN stack = 1 .. n
  BY DEF TypeOK, ControlTypeOK
<1>2. \A k \in 1 .. n : stack[k].fn \in Fn
  <2>1. \A k \in 1 .. n : stack[k] \in Frame
    BY <1>1
  <2> HIDE DEF n
  <2> QED
    BY <2>1 DEF Frame
<1>3. i .. j \subseteq 1 .. n /\ i \in i .. j
  BY <1>1
<1>4. stack[i].fn \in R /\ R \subseteq Fn
  BY <1>2, <1>3
<1>5. PICK f \in R : Starts(app, f) \cap R = {}
  BY <1>4 DEF Acyclic
<1>6. PICK k \in i .. j : f = stack[k].fn
  BY <1>5
<1>7. CASE k = j
  BY <1>4, <1>5, <1>6, <1>7
<1>8. CASE k # j
  <2>1. k \in 1 .. n /\ k + 1 \in 1 .. n /\ k + 1 \in i .. j
    BY <1>1, <1>6, <1>8
  <2>2. stack[k + 1].fn \in Starts(app, f)
    BY <1>1, <1>6, <2>1 DEF Linked
  <2>3. stack[k + 1].fn \in R
    BY <2>1
  <2> QED
    BY <1>5, <2>2, <2>3
<1> QED
  BY <1>7, <1>8

LEMMA NoCycle ==
  ASSUME TypeOK, Linked, Acyclic(app)
  PROVE  NoReentry
<1> DEFINE n == Len(stack)
<1>1. n \in Nat /\ DOMAIN stack = 1 .. n
  BY DEF TypeOK, ControlTypeOK
<1>2. ASSUME NEW i \in 1 .. n, NEW j \in 1 .. n, i < j, stack[i].fn = stack[j].fn
      PROVE  FALSE
  <2> DEFINE k == j - 1
  <2>1. k \in 1 .. n /\ k + 1 = j /\ i <= k
    BY <1>1, <1>2
  <2>2. stack[j].fn \in Starts(app, stack[k].fn)
    BY <1>1, <1>2, <2>1 DEF Linked
  <2> HIDE DEF k, n
  <2> QED
    BY <1>1, <1>2, <2>1, <2>2, StartsNoneBelow
<1>3. ASSUME NEW i \in 1 .. n, NEW j \in 1 .. n, i # j
      PROVE  i < j \/ j < i
  BY <1>1, <1>3
<1> HIDE DEF n
<1> QED
  BY <1>1, <1>2, <1>3 DEF NoReentry

ShapedInv == IInv /\ ShapeInv

LEMMA ShapedInductive == ShapedInv /\ [Next]_vars => ShapedInv'
BY Inductive, ShapeKept DEF ShapedInv

LEMMA ShapedInitially == Init => ShapedInv
BY Initially, ShapeInitially DEF ShapedInv

(* The inductive invariant of the walk, for every application: each        *)
(* activation on the stack was started by the one below it, is of the kind *)
(* of its function, and has given it the parameter and the segment as soon *)
(* as it is under way; a bare name of the tables stands for declarations   *)
(* of that name.                                                           *)
THEOREM Shaped == Spec => []ShapedInv
BY ShapedInitially, ShapedInductive, PTL DEF Spec

(* In an application in which no function calls itself, in however many    *)
(* calls, no function is traced while an activation of it is open.  The    *)
(* mark set at the end of TraceFunction is no protection before the end;   *)
(* only the calls themselves are.                                          *)
THEOREM NoReentryHolds == Spec => [](Acyclic(app) => NoReentry)
<1>1. ShapedInv => (Acyclic(app) => NoReentry)
  BY NoCycle DEF ShapedInv, IInv, ShapeInv
<1> QED
  BY <1>1, Shaped, PTL

-----------------------------------------------------------------------------
(* Where an activation comes from: it was there, it is a root, or it was   *)
(* started by the one that was on top.                                     *)

MovesAt(k) ==
  \/ stack'[k] = stack[k]
  \/ /\ stack[k] = Top
     /\ \/ BeginFunction /\ stack'[k].pc = 1 /\ stack'[k].call = Top.call
        \/ \E u : WalkStep(u) /\ stack'[k] = u /\ stack' # stack

StaysAt(k) == /\ k \in DOMAIN stack /\ MovesAt(k)
              /\ stack'[k].fn = stack[k].fn /\ stack'[k].kind = stack[k].kind

IsFresh(t) == t.pc = 0 /\ t.call = 1

RootAt(k) ==
  /\ VisitMain \/ VisitDecl
  /\ stack'[k].fn = Head(roots) /\ IsFresh(stack'[k])
  /\ \/ Head(roots) \in app.mains /\ stack'[k].kind = "main"
     \/ /\ Head(roots) \notin app.mains /\ IsHandler(Head(roots))
        /\ stack'[k].kind = "handler"

BegunAt(k) ==
  /\ stack'[k].fn \in Fn /\ IsFresh(stack'[k])
  /\ \E u : WalkStep(u) /\ Begins(u, stack'[k].fn, stack'[k].kind)

LEMMA FramesCome ==
  ASSUME ShapedInv, [Next]_vars
  PROVE  /\ \A k \in DOMAIN stack' : StaysAt(k) \/ RootAt(k) \/ BegunAt(k)
         /\ \A k \in DOMAIN stack :
              \/ k \in DOMAIN stack' /\ StaysAt(k)
              \/ EndFunction /\ stack[k] = Top
<1>0. IInv /\ ShapeInv /\ TypeOK
  BY DEF ShapedInv, IInv
<1>1. CASE stack' = stack
  BY <1>1 DEF StaysAt, MovesAt
<1>2. CASE VisitMain \/ VisitDecl
  <2> DEFINE f == Head(roots)
  <2>1. ASSUME NEW kind, stack' = <<NewFrame(f, kind, currentPackage)>>,
               \/ f \in app.mains /\ kind = "main"
               \/ f \notin app.mains /\ IsHandler(f) /\ kind = "handler"
        PROVE  \A k \in DOMAIN stack' : RootAt(k)
    <3> DEFINE v == NewFrame(f, kind, currentPackage)
    <3>1. v.fn = f /\ v.kind = kind /\ IsFresh(v)
      BY DEF NewFrame, IsFresh
    <3>2. stack' = <<v>>
      BY <2>1
    <3> HIDE DEF v
    <3>3. \A k \in DOMAIN stack' : stack'[k] = v
      BY <3>2
    <3> QED
      BY <1>2, <2>1, <3>1, <3>3 DEF RootAt
  <2>2. stack' = << >> => \A k \in DOMAIN stack' : RootAt(k)
    OBVIOUS
  <2>3. stack = << >>
    BY <1>2 DEF VisitMain, VisitDecl, Idle
  <2> QED
    BY <1>0, <1>2, <2>1, <2>2, <2>3, RootTaken
<1>3. CASE BeginFunction
  <2>1. PICK u \in Frame : /\ stack' = SetTop(u) /\ Same(u, Top)
                           /\ u.pc = 1 /\ u.call = Top.call
    BY <1>0, <1>3, BeginFunctionMoves
  <2>2. stack # << >>
    BY <1>3 DEF BeginFunction, Running
  <2>3. /\ DOMAIN stack' = DOMAIN stack
        /\ \A k \in DOMAIN stack :
             stack'[k] = IF k = Len(stack) THEN u ELSE stack[k]
    BY <1>0, <2>1, <2>2, TopReplaced
  <2> QED
    BY <1>3, <2>1, <2>3 DEF StaysAt, MovesAt, Same, Top
<1>4. ASSUME NEW u, WalkStep(u), stack' # stack
      PROVE  /\ \A k \in DOMAIN stack' : StaysAt(k) \/ BegunAt(k)
             /\ \A k \in DOMAIN stack : k \in DOMAIN stack' /\ StaysAt(k)
  <2> DEFINE n == Len(stack)
  <2>1. /\ n \in Nat \ {0} /\ DOMAIN stack = 1 .. n /\ n \in 1 .. n
        /\ Top = stack[n] /\ u.fn = Top.fn /\ u.kind = Top.kind
    BY <1>0, <1>4, WalkStack
  <2>2. Below(n, u) => \A k \in 1 .. n : StaysAt(k)
    <3>1. stack' # stack /\ WalkStep(u)
      BY <1>4
    <3> HIDE DEF n
    <3> QED
      BY <2>1, <3>1 DEF Below, StaysAt, MovesAt
  <2>3. ASSUME NEW g \in Fn, NEW kind \in FrameKind, Begins(u, g, kind),
               DOMAIN stack' = 1 .. n + 1, Below(n, u),
               stack'[n + 1] = NewFrame(g, kind, currentPackage)
        PROVE  /\ \A k \in DOMAIN stack' : StaysAt(k) \/ BegunAt(k)
               /\ \A k \in DOMAIN stack : k \in DOMAIN stack' /\ StaysAt(k)
    <3>1. /\ stack'[n + 1].fn = g /\ stack'[n + 1].kind = kind
          /\ IsFresh(stack'[n + 1])
      BY <2>3 DEF NewFrame, IsFresh
    <3>2. BegunAt(n + 1)
      <4>1. WalkStep(u) /\ Begins(u, stack'[n + 1].fn, stack'[n + 1].kind)
        BY <1>4, <2>3, <3>1
      <4> HIDE DEF n
      <4> QED
        BY <3>1, <4>1 DEF BegunAt
    <3>3. \A k \in 1 .. n + 1 : k \in 1 .. n \/ k = n + 1
      <4>1. n \in Nat
        BY <2>1
      <4> HIDE DEF n
      <4> QED
        BY <4>1
    <3>4. 1 .. n \subseteq 1 .. n + 1
      BY <2>1
    <3> QED
      BY <2>1, <2>2, <2>3, <3>2, <3>3, <3>4
  <2> QED
    BY <1>0, <1>4, <2>1, <2>2, <2>3, WalkStack
<1>5. CASE EndFunction
  <2>1. stack' = SubSeq(stack, 1, Len(stack) - 1) /\ stack # << >>
    BY <1>5 DEF EndFunction, Running
  <2> DEFINE n == Len(stack)
  <2>2. /\ \A k \in DOMAIN stack' : k \in DOMAIN stack /\ stack'[k] = stack[k]
        /\ DOMAIN stack = 1 .. n /\ n \in Nat /\ DOMAIN stack' = 1 .. n - 1
    BY <1>0, <2>1, TopPopped
  <2>3. \A k \in DOMAIN stack : k \in DOMAIN stack' \/ k = n
    <3> HIDE DEF n
    <3> QED
      BY <2>2
  <2> QED
    BY <1>5, <2>2, <2>3 DEF StaysAt, MovesAt, Top
<1>6. ASSUME NEW p \in Pkg, StartPackage(p) PROVE stack' = stack
  BY <1>6 DEF StartPackage
<1>7. UNCHANGED vars => stack' = stack
  BY DEF vars
<1> QED
  BY <1>0, <1>1, <1>2, <1>3, <1>4, <1>5, <1>6, <1>7, StepCases

-----------------------------------------------------------------------------
(* Where bare names are unique, a call is looked up as what it calls.      *)
LEMMA ResolvesTo ==
  ASSUME IInv, TablesNamed, NamesUnique(app), NEW s \in Site, InvDecl(s) # NoFn
  PROVE  InvDecl(s) = app.to[s] /\ IsDeclared(app.to[s]) /\ app.to[s] \notin app.lits
<1> DEFINE h == app.to[s]
           g == InvDecl(s)
<1>1. h \in Fn /\ h \notin app.lits /\ g = Entry(h).body
  BY AppTyped DEF IInv, AppType, InvDecl
<1>2. app.pkg[h] \in Pkg /\ app.name[h] \in Name
  BY <1>1, EntryTyped
<1>3. app.pkg[g] = app.pkg[h] /\ app.name[g] = app.name[h] /\ IsDeclared(g)
  <2>1. g # NoFn /\ g = tracedFuncs[app.pkg[h]][app.name[h]].body
    BY <1>1 DEF Entry
  <2>2. app.pkg[g] = app.pkg[h]
    BY <1>2, <2>1 DEF IInv, DeclarationsAtHome
  <2>3. app.name[g] = app.name[h] /\ IsDeclared(g)
    BY <1>2, <2>1 DEF TablesNamed
  <2> QED
    BY <2>2, <2>3
<1>4. PICK i \in DOMAIN app.decls[app.pkg[h]] : app.decls[app.pkg[h]][i] = g
  BY <1>3 DEF IsDeclared
<1>5. h = g
  BY <1>1, <1>2, <1>3, <1>4 DEF NamesUnique
<1> QED
  BY <1>1, <1>3, <1>5

LEMMA NamedOnce ==
  ASSUME app \in Apps, NamesUnique(app), NEW f \in Fn, NEW g \in Fn,
         IsDeclared(f), IsDeclared(g),
         app.pkg[f] = app.pkg[g], app.name[f] = app.name[g]
  PROVE  f = g
<1>1. app.pkg[f] \in Pkg /\ g \notin app.lits
  BY AppTyped, DeclaredIsNoLiteral DEF AppType
<1>2. PICK i \in DOMAIN app.decls[app.pkg[f]] : app.decls[app.pkg[f]][i] = f
  BY DEF IsDeclared
<1> QED
  BY <1>1, <1>2 DEF NamesUnique

-----------------------------------------------------------------------------
(* A function is walked once.  A function on the stack has started; one    *)
(* that is walked will not start again: a declaration because it is marked *)
(* and no root any more, a literal because the place where it is written   *)
(* has been passed.                                                        *)

OnStack == {stack[k].fn : k \in DOMAIN stack}

(* The roots instrumentPackages will still start at.                       *)
ToStart == {f \in Waiting : f \in app.mains \/ IsHandler(f)}

Walked == {f \in Fn : IF f \in app.lits THEN segments[f] > 0
                      ELSE Entry(f).traced /\ f \notin ToStart}

Started == OnStack \cup Walked

Untouched == {f \in Fn : txnParams[f] = 0 /\ segments[f] = 0 /\ txnDefs[f] = 0}

(* The nodes that no walk will come to again.                              *)
Passed == {x \in Fn \X Nat :
             /\ x[1] \in Started
             /\ \A k \in DOMAIN stack : stack[k].fn = x[1] => stack[k].pc > x[2]}

LiteralsInOrder ==
  \A f \in Fn : \A i \in DOMAIN app.body[f] :
    /\ HoldsLiteral(app.body[f][i])
    /\ app.body[f][i].lit \in OnStack \/ segments[app.body[f][i].lit] > 0
    => <<f, i>> \in Passed

OnceFrames == {t \in Frame : /\ t.kind = "main" <=> t.fn \in app.mains
                             /\ t.pc = 0 => t.fn \in Untouched
                             /\ ~t.definedTxn => crashed \/ txnDefs[t.fn] = 0}

OnceInv == /\ TracedOnce /\ LiteralsInOrder
           /\ \A f \in Fn : f \notin Started => f \in Untouched
           /\ \A k \in DOMAIN stack : stack[k] \in OnceFrames

LEMMA WalkedGrows ==
  ASSUME ShapedInv, [Next]_vars
  PROVE  Walked \subseteq Walked' /\ ToStart' \subseteq ToStart
<1>0. IInv /\ ShapeInv
  BY DEF ShapedInv
<1>1. app' = app /\ Waiting' \subseteq Waiting /\ Waiting \subseteq Fn
  BY <1>0, WaitingShrinks DEF Waiting
<1>2. \A f \in Fn : /\ segments[f] > 0 => segments'[f] > 0
                    /\ txnParams[f] > 0 => txnParams'[f] > 0
  BY <1>0, TextGrows
<1>3. ASSUME NEW f \in Fn, txnParams'[f] = 0 PROVE txnParams[f] = 0
  <2>1. txnParams \in [Fn -> Nat]
    BY <1>0 DEF IInv, TypeOK, TextTypeOK, EditCounts
  <2> QED
    BY <1>2, <1>3, <2>1
<1>4. ToStart' \subseteq ToStart
  BY <1>1, <1>3 DEF ToStart, IsHandler
<1>5. ASSUME NEW f \in Fn, Entry(f).traced
      PROVE  tracedFuncs'[app.pkg[f]][app.name[f]].traced
  <2>1. app.pkg[f] \in Pkg /\ app.name[f] \in Name
    BY <1>0, EntryTyped
  <2>2. CASE tracedFuncs' = tracedFuncs
    BY <1>5, <2>2 DEF Entry
  <2>3. CASE EndFunction
    <3>1. FrameOK(Top) /\ TablesNamed
      BY <1>0, <2>3, TopOK DEF EndFunction, Running, ShapeInv
    <3> DEFINE m == [body |-> Top.fn, traced |-> TRUE]
    <3>2. \/ tracedFuncs'[app.pkg[f]][app.name[f]] = tracedFuncs[app.pkg[f]][app.name[f]]
          \/ tracedFuncs'[app.pkg[f]][app.name[f]] = m
      BY <1>0, <2>1, <2>3, <3>1, EndMarks
    <3>3. m.traced = TRUE
      OBVIOUS
    <3> QED
      BY <1>5, <3>2, <3>3 DEF Entry
  <2> QED
    BY <1>0, <2>2, <2>3, TablesStep
<1>6. \A f \in Fn : Entry(f)' = tracedFuncs'[app.pkg[f]][app.name[f]]
  BY <1>1 DEF Entry
<1>7. ASSUME NEW f \in Walked PROVE f \in Walked'
  <2>1. CASE f \in app.lits
    BY <1>1, <1>2, <1>7, <2>1 DEF Walked
  <2>2. CASE f \notin app.lits
    <3>1. f \in Fn /\ Entry(f).traced /\ f \notin ToStart'
      BY <1>4, <1>7, <2>2 DEF Walked
    <3>2. tracedFuncs'[app'.pkg[f]][app'.name[f]].traced
      BY <1>1, <1>5, <3>1
    <3> QED
      BY <1>1, <2>2, <3>1, <3>2 DEF Walked, Entry
  <2> QED
    BY <2>1, <2>2
<1> QED
  BY <1>4, <1>7

(* The end of a walk.                                                      *)
LEMMA EndWalked ==
  ASSUME ShapedInv, OnceInv, EndFunction
  PROVE  Top.fn \in Walked'
<1>0. IInv /\ ShapeInv /\ [Next]_vars /\ stack # << >>
  BY DEF ShapedInv, Next, Walk, EndFunction, Running
<1> DEFINE f == Top.fn
<1>1. /\ app' = app /\ FrameOK(Top) /\ Top \in Frame /\ f \in Fn
      /\ segments' = segments /\ txnParams' = txnParams
  BY <1>0, TopOK, WaitingShrinks DEF EndFunction, declText, Frame
<1>2. Top.pc > 0
  <2>1. app.body[f] \in Seq(Node)
    BY <1>0, <1>1, AppTyped DEF AppType, IInv
  <2>2. Top.pc = Len(app.body[f]) + 1
    BY DEF EndFunction
  <2> QED
    BY <2>1, <2>2
<1>3. CASE f \in app.lits
  <2>1. segments[f] > 0
    BY <1>1, <1>2, <1>3 DEF FrameOK, Handed
  <2> QED
    BY <1>1, <1>3, <2>1 DEF Walked
<1>4. CASE f \notin app.lits
  <2>1. TablesNamed
    BY <1>0 DEF ShapeInv
  <2> DEFINE m == [body |-> f, traced |-> TRUE]
  <2>2. tracedFuncs'[app.pkg[f]][app.name[f]] = m
    BY <1>0, <1>1, <1>4, <2>1, EndMarks
  <2>3. m.traced
    OBVIOUS
  <2>4. tracedFuncs'[app'.pkg[f]][app'.name[f]].traced
    BY <1>1, <2>2, <2>3
  <2>5. f \notin ToStart
    <3>1. CASE ~Handed(Top)
      BY <1>1, <3>1 DEF FrameOK, ToStart
    <3>2. CASE Handed(Top)
      <4>1. f \notin app.mains
        <5>1. Top \in OnceFrames
          <6>1. Len(stack) \in DOMAIN stack
            BY <1>0, TopTyped DEF IInv, TypeOK, ControlTypeOK
          <6> QED
            BY <6>1 DEF OnceInv, Top
        <5> QED
          BY <3>2, <5>1 DEF OnceFrames, Handed
      <4>2. app.param[f] = "handler" => txnParams[f] > 0
        BY <1>1, <1>2, <3>2 DEF FrameOK
      <4> QED
        BY <4>1, <4>2 DEF ToStart, IsHandler
    <3> QED
      BY <3>1, <3>2
  <2>6. f \notin ToStart'
    BY <1>0, <2>5, WalkedGrows DEF ShapedInv
  <2> QED
    BY <1>1, <1>4, <2>4, <2>6 DEF Walked, Entry
<1> QED
  BY <1>3, <1>4

(* What starts has not started before.                                     *)
LEMMA RootNotStarted ==
  ASSUME ShapedInv, VisitMain \/ VisitDecl, stack' # << >>
  PROVE  Head(roots) \notin Started
<1>1. IInv /\ ShapeInv /\ stack = << >>
  BY DEF ShapedInv, VisitMain, VisitDecl, Idle
<1>2. /\ Head(roots) \in Waiting /\ Head(roots) \notin app.lits
      /\ Head(roots) \in app.mains \/ IsHandler(Head(roots))
  BY <1>1, RootTaken
<1>3. Head(roots) \in ToStart
  BY <1>2 DEF ToStart
<1> QED
  BY <1>1, <1>2, <1>3 DEF Started, OnStack, Walked

LEMMA BegunNotStarted ==
  ASSUME ShapedInv, OnceInv, Acyclic(app),
         NEW u, WalkStep(u), NEW g \in Fn, NEW kind, Begins(u, g, kind)
  PROVE  g \notin Started
<1> DEFINE n == Len(stack)
<1>0. IInv /\ ShapeInv /\ TablesNamed /\ Walking
  BY DEF ShapedInv, ShapeInv, WalkStep
<1>1. /\ n \in Nat \ {0} /\ DOMAIN stack = 1 .. n /\ Top = stack[n]
      /\ u.fn = Top.fn /\ n \in 1 .. n
  BY <1>0, WalkStack
<1>2. g \notin OnStack
  <2>1. g \in Starts(app, stack[n].fn)
    BY <1>0, <1>1, BegunKnown
  <2>2. \A i \in 1 .. n : i <= n
    BY <1>1
  <2>3. TypeOK /\ Linked
    BY <1>0 DEF IInv, ShapeInv
  <2> HIDE DEF n
  <2> QED
    BY <1>1, <2>1, <2>2, <2>3, StartsNoneBelow DEF OnStack
<1>3. CASE g \notin app.lits
  <2>1. ~Entry(g).traced
    BY <1>0, <1>3, BegunKnown
  <2> QED
    BY <1>2, <1>3, <2>1 DEF Started, Walked
<1>4. CASE g \in app.lits
  <2>1. kind = "lit"
    BY <1>0, <1>4, BegunKnown
  <2>2. HoldsLiteral(TopNode) /\ g = TopNode.lit
    BY <2>1 DEF Begins
  <2>3. Top.fn \in Fn /\ Top.pc \in DOMAIN app.body[Top.fn]
    BY <1>0, TopNodeTyped DEF Walking
  <2>4. segments[g] > 0 => <<Top.fn, Top.pc>> \in Passed
    BY <2>2, <2>3 DEF OnceInv, LiteralsInOrder, TopNode
  <2>5. <<Top.fn, Top.pc>> \notin Passed
    <3>1. Top.pc \in Nat
      BY <1>0, WalkStack DEF Frame
    <3>2. ~(Top.pc > Top.pc)
      BY <3>1
    <3> QED
      BY <1>1, <3>2 DEF Passed
  <2> QED
    BY <1>2, <1>4, <2>4, <2>5 DEF Started, Walked
<1> QED
  BY <1>3, <1>4

(* An activation goes on, or it is new and its function has not started.   *)
Goes(k) ==
  /\ k \in DOMAIN stack
  /\ stack'[k].fn = stack[k].fn /\ stack'[k].kind = stack[k].kind
  /\ stack'[k].pc >= stack[k].pc

IsNew(k) == stack'[k].fn \notin Started /\ stack'[k].pc = 0

LEMMA FramesMove ==
  ASSUME ShapedInv, OnceInv, Acyclic(app), [Next]_vars
  PROVE  /\ \A k \in DOMAIN stack' : Goes(k) \/ IsNew(k)
         /\ \A k \in DOMAIN stack :
              \/ k \in DOMAIN stack' /\ Goes(k)
              \/ EndFunction /\ stack[k] = Top
<1>0. IInv /\ ShapeInv /\ TypeOK
  BY DEF ShapedInv, IInv
<1>1. \A k \in DOMAIN stack : stack[k] \in Frame /\ stack[k].pc \in Nat
  <2>1. \A k \in DOMAIN stack : stack[k] \in Frame
    BY <1>0 DEF TypeOK, ControlTypeOK
  <2> QED
    BY <2>1 DEF Frame
<1>2. CASE stack' = stack
  <2>1. \A k \in DOMAIN stack : Goes(k)
    BY <1>1, <1>2 DEF Goes
  <2> QED
    BY <1>2, <2>1
<1>3. CASE VisitMain \/ VisitDecl
  <2>1. stack = << >>
    BY <1>3 DEF VisitMain, VisitDecl, Idle
  <2>2. \A k \in DOMAIN stack' : IsNew(k)
    <3>1. CASE stack' = << >>
      BY <3>1
    <3>2. ASSUME NEW kind, stack' = <<NewFrame(Head(roots), kind, currentPackage)>>
          PROVE  \A k \in DOMAIN stack' : IsNew(k)
      <4> DEFINE v == NewFrame(Head(roots), kind, currentPackage)
      <4>1. v.fn = Head(roots) /\ v.pc = 0
        BY DEF NewFrame
      <4>2. stack' = <<v>>
        BY <3>2
      <4> HIDE DEF v
      <4>3. stack' # << >> /\ \A k \in DOMAIN stack' : stack'[k] = v
        BY <4>2
      <4>4. Head(roots) \notin Started
        BY <1>3, <4>3, RootNotStarted
      <4> QED
        BY <4>1, <4>3, <4>4 DEF IsNew
    <3> QED
      BY <1>0, <1>3, <3>1, <3>2, RootTaken
  <2> QED
    BY <2>1, <2>2
<1>4. CASE BeginFunction
  <2>1. PICK u \in Frame : /\ stack' = SetTop(u) /\ Same(u, Top) /\ u.pc = 1
    BY <1>0, <1>4, BeginFunctionMoves
  <2>2. stack # << >> /\ Top.pc = 0
    BY <1>4 DEF BeginFunction, Running
  <2>3. /\ DOMAIN stack' = DOMAIN stack
        /\ \A k \in DOMAIN stack :
             stack'[k] = IF k = Len(stack) THEN u ELSE stack[k]
    BY <1>0, <2>1, <2>2, TopReplaced
  <2>4. \A k \in DOMAIN stack : Goes(k)
    BY <1>1, <2>1, <2>2, <2>3 DEF Goes, Same, Top
  <2> QED
    BY <2>3, <2>4
<1>5. ASSUME NEW u, WalkStep(u), stack' # stack
      PROVE  /\ \A k \in DOMAIN stack' : Goes(k) \/ IsNew(k)
             /\ \A k \in DOMAIN stack : k \in DOMAIN stack' /\ Goes(k)
  <2> DEFINE n == Len(stack)
  <2>1. /\ n \in Nat \ {0} /\ DOMAIN stack = 1 .. n /\ Top = stack[n]
        /\ u.fn = Top.fn /\ u.kind = Top.kind /\ n \in 1 .. n
    BY <1>0, <1>5, WalkStack
  <2>2. u.pc >= Top.pc
    <3>1. u.pc \in {Top.pc, Top.pc + 1}
      BY <1>5 DEF WalkStep, Continues
    <3>2. Top.pc \in Nat
      BY <1>1, <2>1
    <3> QED
      BY <3>1, <3>2
  <2>3. ASSUME Below(n, u), NEW m, DOMAIN stack' = 1 .. m, m \in {n, n + 1}
        PROVE  \A k \in DOMAIN stack : k \in DOMAIN stack' /\ Goes(k)
    <3>1. \A k \in 1 .. n : Goes(k)
      <4>1. ASSUME NEW k \in 1 .. n, k # n PROVE Goes(k)
        <5>1. stack'[k] = stack[k] /\ k \in DOMAIN stack
          BY <2>1, <2>3, <4>1 DEF Below
        <5>2. stack[k].pc \in Nat
          BY <1>1, <5>1
        <5> QED
          BY <5>1, <5>2 DEF Goes
      <4>2. Goes(n)
        <5>1. stack'[n] = u /\ stack[n] = Top /\ n \in DOMAIN stack
          BY <2>1, <2>3 DEF Below
        <5> HIDE DEF n
        <5> QED
          BY <2>1, <2>2, <5>1 DEF Goes
      <4> QED
        BY <4>1, <4>2
    <3>2. 1 .. n \subseteq 1 .. m
      BY <2>1, <2>3
    <3> QED
      BY <2>1, <2>3, <3>1, <3>2
  <2>4. CASE DOMAIN stack' = 1 .. n /\ Below(n, u)
    BY <2>1, <2>3, <2>4
  <2>5. ASSUME NEW g \in Fn, NEW k \in FrameKind, Begins(u, g, k),
               DOMAIN stack' = 1 .. n + 1, Below(n, u),
               stack'[n + 1] = NewFrame(g, k, currentPackage)
        PROVE  /\ \A j \in DOMAIN stack' : Goes(j) \/ IsNew(j)
               /\ \A j \in DOMAIN stack : j \in DOMAIN stack' /\ Goes(j)
    <3>1. \A j \in DOMAIN stack : j \in DOMAIN stack' /\ Goes(j)
      BY <2>3, <2>5
    <3>2. g \notin Started
      BY <1>5, <2>5, BegunNotStarted
    <3>3. IsNew(n + 1)
      BY <2>5, <3>2 DEF IsNew, NewFrame
    <3>4. \A j \in 1 .. n + 1 : j \in 1 .. n \/ j = n + 1
      <4>1. n \in Nat
        BY <2>1
      <4> HIDE DEF n
      <4> QED
        BY <4>1
    <3> QED
      BY <2>1, <2>5, <3>1, <3>3, <3>4
  <2> QED
    BY <1>0, <1>5, <2>4, <2>5, WalkStack
<1>6. CASE EndFunction
  <2>1. stack' = SubSeq(stack, 1, Len(stack) - 1) /\ stack # << >>
    BY <1>6 DEF EndFunction, Running
  <2>2. /\ DOMAIN stack = 1 .. Len(stack) /\ Len(stack) \in Nat \ {0}
        /\ DOMAIN stack' = 1 .. Len(stack) - 1
        /\ \A k \in DOMAIN stack' : k \in DOMAIN stack /\ stack'[k] = stack[k]
    BY <1>0, <2>1, TopPopped
  <2>3. \A k \in DOMAIN stack' : Goes(k)
    BY <1>1, <2>2 DEF Goes
  <2>4. \A k \in DOMAIN stack : k \in DOMAIN stack' \/ k = Len(stack)
    <3> DEFINE n == Len(stack)
    <3>1. DOMAIN stack = 1 .. n /\ n \in Nat /\ DOMAIN stack' = 1 .. n - 1
      BY <2>2
    <3> HIDE DEF n
    <3>2. \A k \in DOMAIN stack : k \in DOMAIN stack' \/ k = n
      BY <3>1
    <3> QED
      BY <3>2 DEF n
  <2> QED
    BY <1>6, <2>3, <2>4 DEF Top
<1>7. ASSUME NEW p \in Pkg, StartPackage(p) PROVE stack' = stack
  BY <1>7 DEF StartPackage
<1>8. UNCHANGED vars => stack' = stack
  BY DEF vars
<1> QED
  BY <1>0, <1>2, <1>3, <1>4, <1>5, <1>6, <1>7, <1>8, StepCases

LEMMA StartedGrows ==
  ASSUME ShapedInv, OnceInv, Acyclic(app), [Next]_vars
  PROVE  /\ Started \subseteq Started'
         /\ OnStack \subseteq Fn
         /\ \A f \in Fn : f \notin Started' => f \notin OnStack
<1>1. Walked \subseteq Walked'
  BY WalkedGrows
<1>2. ASSUME NEW k \in DOMAIN stack PROVE stack[k].fn \in Started'
  <2>1. CASE k \in DOMAIN stack' /\ Goes(k)
    BY <2>1 DEF Started, OnStack, Goes
  <2>2. CASE EndFunction /\ stack[k] = Top
    BY <2>2, EndWalked DEF Started
  <2> QED
    BY <2>1, <2>2, FramesMove
<1>3. \A k \in DOMAIN stack : stack[k].fn \in Fn
  <2>1. \A k \in DOMAIN stack : stack[k] \in Frame
    BY DEF ShapedInv, IInv, TypeOK, ControlTypeOK
  <2> QED
    BY <2>1 DEF Frame
<1> QED
  BY <1>1, <1>2, <1>3 DEF Started, OnStack

LEMMA PassedKept ==
  ASSUME ShapedInv, OnceInv, Acyclic(app), [Next]_vars
  PROVE  Passed \subseteq Passed'
<1> SUFFICES ASSUME NEW x \in Passed
             PROVE  x \in Passed'
  OBVIOUS
<1>1. x \in Fn \X Nat /\ x[1] \in Started /\ x[2] \in Nat
  BY DEF Passed
<1>2. x[1] \in Started'
  BY <1>1, StartedGrows
<1>3. ASSUME NEW k \in DOMAIN stack', stack'[k].fn = x[1]
      PROVE  stack'[k].pc > x[2]
  <2>1. Goes(k)
    BY <1>1, <1>3, FramesMove DEF IsNew
  <2>2. /\ k \in DOMAIN stack /\ stack[k].fn = x[1]
        /\ stack'[k].pc >= stack[k].pc
    BY <1>3, <2>1 DEF Goes
  <2>3. stack[k].pc > x[2]
    BY <2>2 DEF Passed
  <2>4. stack[k].pc \in Nat /\ stack'[k].pc \in Nat
    <3>1. stack \in Seq(Frame) /\ stack' \in Seq(Frame)
      BY ShapedInductive DEF ShapedInv, IInv, TypeOK, ControlTypeOK
    <3>2. stack[k] \in Frame /\ stack'[k] \in Frame
      BY <1>3, <2>2, <3>1
    <3> QED
      BY <3>2 DEF Frame
  <2> QED
    BY <1>1, <2>2, <2>3, <2>4
<1> QED
  BY <1>1, <1>2, <1>3 DEF Passed

(* The text of a function.                                                 *)
SameText(f) == /\ txnParams'[f] = txnParams[f] /\ segments'[f] = segments[f]
               /\ txnDefs'[f] = txnDefs[f]

LEMMA TextTyped ==
  ASSUME ShapedInv
  PROVE  \A f \in Fn : txnParams[f] \in Nat /\ segments[f] \in Nat /\ txnDefs[f] \in Nat
BY DEF ShapedInv, IInv, TypeOK, TextTypeOK, EditCounts

LEMMA TextStays ==
  ASSUME NEW f \in Fn, SameText(f)
  PROVE  f \in Untouched => f \in Untouched'
BY DEF SameText, Untouched

LEMMA OnceFrameStays ==
  ASSUME app' = app, crashed => crashed', NEW t \in OnceFrames, SameText(t.fn)
  PROVE  t \in OnceFrames'
<1>1. t \in Frame /\ t.fn \in Fn
  BY DEF OnceFrames, Frame
<1>2. t.fn \in Untouched => t.fn \in Untouched'
  BY <1>1, TextStays
<1>3. txnDefs[t.fn] = 0 => txnDefs'[t.fn] = 0
  BY DEF SameText
<1> QED
  BY <1>1, <1>2, <1>3 DEF OnceFrames

(* Only the text of the function walked is edited.                         *)
LEMMA TextStep ==
  ASSUME ShapedInv, [Next]_vars
  PROVE  \A f \in Fn : stack = << >> \/ f # Top.fn => SameText(f)
<1>0. IInv
  BY DEF ShapedInv
<1>1. txnDefs \in [Fn -> Nat]
  BY <1>0 DEF IInv, TypeOK, TextTypeOK, EditCounts
<1>2. \A p \in Pkg : StartPackage(p) => \A f \in Fn : SameText(f)
  BY DEF StartPackage, declText, SameText
<1>3. VisitMain \/ VisitDecl \/ UNCHANGED vars => \A f \in Fn : SameText(f)
  BY DEF VisitMain, VisitDecl, vars, declText, SameText
<1>4. CASE BeginFunction
  <2>1. stack # << >>
    BY <1>4 DEF BeginFunction, Running
  <2> QED
    BY <1>0, <1>4, <2>1, BeginText DEF SameText
<1>5. ASSUME NEW u, WalkStep(u)
      PROVE  \A f \in Fn : f # Top.fn => SameText(f)
  <2>1. txnParams' = txnParams /\ segments' = segments
    BY <1>5 DEF WalkStep, declText
  <2>2. txnDefs' = txnDefs \/ txnDefs' = [txnDefs EXCEPT ![Top.fn] = @ + 1]
    BY <1>5 DEF WalkStep, DefsStep
  <2> QED
    BY <1>1, <2>1, <2>2 DEF SameText
<1>6. ASSUME NEW u, WalkStep(u) PROVE stack # << >>
  BY <1>6 DEF WalkStep, Walking, Running
<1>7. CASE EndFunction
  <2>1. txnParams' = txnParams /\ segments' = segments /\ stack # << >>
    BY <1>7 DEF EndFunction, declText, Running
  <2>2. txnDefs' = txnDefs \/ txnDefs' = [txnDefs EXCEPT ![Top.fn] = @ + 1]
    BY <1>7 DEF EndFunction
  <2> QED
    BY <1>1, <2>1, <2>2 DEF SameText
<1> QED
  BY <1>0, <1>2, <1>3, <1>4, <1>5, <1>6, <1>7, StepCases

LEMMA CrashStays ==
  ASSUME ShapedInv, [Next]_vars
  PROVE  (crashed => crashed') /\ (crashed => UNCHANGED vars)
<1>1. \A p \in Pkg : StartPackage(p) => ~crashed
  BY DEF StartPackage, Idle
<1>2. \A u : WalkStep(u) => ~crashed
  BY DEF WalkStep, Walking, Running
<1>3. VisitMain \/ VisitDecl \/ BeginFunction \/ EndFunction => ~crashed
  BY DEF VisitMain, VisitDecl, BeginFunction, EndFunction, Idle, Running
<1>4. crashed => UNCHANGED vars
  BY <1>1, <1>2, <1>3, StepCases DEF ShapedInv
<1> QED
  BY <1>4 DEF vars, control

LEMMA UnstartedKept ==
  ASSUME ShapedInv, OnceInv, Acyclic(app), [Next]_vars
  PROVE  \A f \in Fn : f \notin Started' => f \in Untouched'
<1> SUFFICES ASSUME NEW f \in Fn, f \notin Started'
             PROVE  f \in Untouched'
  OBVIOUS
<1>1. f \notin Started /\ f \notin OnStack
  BY StartedGrows
<1>2. stack = << >> \/ f # Top.fn
  <2>1. stack # << >> => Len(stack) \in DOMAIN stack
    BY TopTyped DEF ShapedInv, IInv, TypeOK, ControlTypeOK
  <2> QED
    BY <1>1, <2>1 DEF OnStack, Top
<1> QED
  BY <1>1, <1>2, TextStep, TextStays DEF OnceInv

LEMMA LiteralsInOrderKept ==
  ASSUME ShapedInv, OnceInv, Acyclic(app), [Next]_vars
  PROVE  LiteralsInOrder'
<1>0. IInv /\ ShapeInv /\ app' = app /\ TypeOK
  BY WaitingShrinks DEF ShapedInv, IInv
<1> SUFFICES ASSUME NEW f \in Fn, NEW i \in DOMAIN app.body[f],
                    HoldsLiteral(app.body[f][i]),
                    \/ app.body[f][i].lit \in OnStack'
                    \/ segments'[app.body[f][i].lit] > 0
             PROVE  <<f, i>> \in Passed'
  BY <1>0 DEF LiteralsInOrder, HoldsLiteral
<1> DEFINE l == app.body[f][i].lit
<1>1. l \in Fn /\ l \in app.lits
  BY <1>0, AppTyped, LiteralTyped DEF IInv, WellFormed, HoldsLiteral
<1>2. CASE l \in OnStack \/ segments[l] > 0
  BY <1>0, <1>2, PassedKept DEF OnceInv, LiteralsInOrder
<1>3. CASE l \notin OnStack /\ ~(segments[l] > 0)
  <2>1. segments'[l] = segments[l]
    <3>1. stack # << >> => Len(stack) \in DOMAIN stack
      BY <1>0, TopTyped DEF TypeOK, ControlTypeOK
    <3>2. stack = << >> \/ l # Top.fn
      BY <1>3, <3>1 DEF OnStack, Top
    <3> QED
      BY <1>1, <3>2, TextStep DEF SameText
  <2>2. PICK m \in DOMAIN stack' : stack'[m].fn = l
    BY <1>3, <2>1 DEF OnStack
  <2>3. ~Goes(m)
    BY <1>3, <2>2 DEF OnStack, Goes
  <2>4. PICK u : WalkStep(u) /\ stack' # stack
    <3>1. ~(VisitMain \/ VisitDecl)
      <4>1. SUFFICES ASSUME VisitMain \/ VisitDecl PROVE FALSE
        OBVIOUS
      <4>2. Head(roots) \notin app.lits
        BY <1>0, <4>1, RootTaken
      <4>3. \/ stack' = << >>
            \/ \E kind : stack' = <<NewFrame(Head(roots), kind, currentPackage)>>
        BY <4>1 DEF VisitMain, VisitDecl
      <4>4. PICK kind : stack' = <<NewFrame(Head(roots), kind, currentPackage)>>
        BY <2>2, <4>3
      <4> DEFINE v == NewFrame(Head(roots), kind, currentPackage)
      <4>5. v.fn = Head(roots)
        BY DEF NewFrame
      <4>6. stack' = <<v>>
        BY <4>4
      <4> HIDE DEF v
      <4>7. stack'[m] = v
        BY <2>2, <4>6
      <4> QED
        BY <1>1, <2>2, <4>2, <4>5, <4>7
    <3>2. stack' # stack
      <4>1. \A k \in DOMAIN stack : stack[k].fn # l
        BY <1>3 DEF OnStack
      <4> QED
        BY <2>2, <4>1
    <3>3. ~BeginFunction
      <4>1. SUFFICES ASSUME BeginFunction PROVE FALSE
        OBVIOUS
      <4>2. PICK u \in Frame : stack' = SetTop(u) /\ u.fn = Top.fn
        BY <1>0, <4>1, BeginFunctionMoves
      <4>3. stack # << >>
        BY <4>1 DEF BeginFunction, Running
      <4>4. m \in DOMAIN stack /\ stack'[m].fn = stack[m].fn
        BY <1>0, <2>2, <4>2, <4>3, TopReplaced DEF Top
      <4> QED
        BY <1>3, <2>2, <4>4 DEF OnStack
    <3>4. ~EndFunction
      <4>1. SUFFICES ASSUME EndFunction PROVE FALSE
        OBVIOUS
      <4>2. stack' = SubSeq(stack, 1, Len(stack) - 1) /\ stack # << >>
        BY <4>1 DEF EndFunction, Running
      <4>3. m \in DOMAIN stack /\ stack'[m] = stack[m]
        BY <1>0, <2>2, <4>2, TopPopped
      <4> QED
        BY <1>3, <2>2, <4>3 DEF OnStack
    <3>5. \A p \in Pkg : StartPackage(p) => stack' = stack
      BY DEF StartPackage
    <3>6. UNCHANGED vars => stack' = stack
      BY DEF vars
    <3> QED
      BY <1>0, <3>1, <3>2, <3>3, <3>4, <3>5, <3>6, StepCases
  <2> DEFINE n == Len(stack)
  <2>5. /\ n \in Nat \ {0} /\ DOMAIN stack = 1 .. n /\ Top = stack[n]
        /\ u.fn = Top.fn /\ n \in 1 .. n
    BY <1>0, <2>4, WalkStack
  <2>6. PICK g \in Fn, k \in FrameKind :
          /\ Begins(u, g, k) /\ DOMAIN stack' = 1 .. n + 1 /\ Below(n, u)
          /\ stack'[n + 1] = NewFrame(g, k, currentPackage)
    <3>1. ~(DOMAIN stack' = 1 .. n /\ Below(n, u))
      <4>1. SUFFICES ASSUME DOMAIN stack' = 1 .. n, Below(n, u) PROVE FALSE
        OBVIOUS
      <4>2. m \in 1 .. n
        BY <2>2, <4>1
      <4>3. stack'[m].fn = stack[m].fn
        BY <2>5, <4>1, <4>2 DEF Below
      <4> QED
        BY <1>3, <2>2, <2>5, <4>2, <4>3 DEF OnStack
    <3> QED
      BY <1>0, <2>4, <3>1, WalkStack
  <2>7. \A j \in 1 .. n : stack'[j].fn = stack[j].fn
    BY <2>5, <2>6 DEF Below
  <2>8. m = n + 1 /\ g = l
    <3>1. m \notin 1 .. n
      BY <1>3, <2>2, <2>5, <2>7 DEF OnStack
    <3>2. m = n + 1
      <4>1. n \in Nat /\ m \in 1 .. n + 1
        BY <2>2, <2>5, <2>6
      <4> HIDE DEF n
      <4> QED
        BY <3>1, <4>1
    <3>3. stack'[n + 1].fn = g
      BY <2>6 DEF NewFrame
    <3> QED
      BY <2>2, <3>2, <3>3
  <2>9. Top.fn \in Fn /\ Top.pc \in DOMAIN app.body[Top.fn] /\ Top.pc \in Nat
    BY <1>0, <2>4, TopNodeTyped, WalkStack DEF WalkStep, Walking, Frame
  <2>10. /\ HoldsLiteral(TopNode) /\ l = TopNode.lit /\ u.pc = Top.pc + 1
    <3>1. k = "lit"
      BY <1>0, <1>1, <2>4, <2>6, <2>8, BegunKnown DEF ShapeInv, WalkStep
    <3> QED
      BY <2>6, <2>8, <3>1 DEF Begins, AtNext
  <2>11. f = Top.fn /\ i = Top.pc
    <3>1. WellFormed(app)
      BY <1>0, AppTyped DEF IInv
    <3>2. HoldsLiteral(app.body[f][i])
      OBVIOUS
    <3>3. \A g2 \in Fn : \A j \in DOMAIN app.body[g2] :
            HoldsLiteral(app.body[g2][j]) /\ app.body[g2][j].lit = app.body[f][i].lit
              => g2 = f /\ j = i
      BY <3>1, <3>2 DEF WellFormed
    <3>4. TopNode = app.body[Top.fn][Top.pc]
      BY DEF TopNode
    <3> QED
      BY <2>9, <2>10, <3>3, <3>4
  <2>12. f \in Started'
    <3>1. f \in OnStack
      BY <2>5, <2>11 DEF OnStack
    <3> QED
      BY <3>1, StartedGrows DEF Started
  <2>13. ASSUME NEW j \in DOMAIN stack', stack'[j].fn = f
         PROVE  stack'[j].pc > i
    <3>1. j # n + 1
      <4>1. g \notin OnStack
        BY <1>3, <2>8
      <4>2. f \in OnStack
        BY <2>5, <2>11 DEF OnStack
      <4> QED
        BY <2>2, <2>8, <2>13, <4>1, <4>2
    <3>2. j \in 1 .. n
      <4>1. n \in Nat /\ j \in 1 .. n + 1
        BY <2>5, <2>6, <2>13
      <4> HIDE DEF n
      <4> QED
        BY <3>1, <4>1
    <3>3. j = n
      <4>1. NoReentry
        BY <1>0, NoCycle DEF ShapeInv
      <4>2. stack[j].fn = stack[n].fn
        BY <2>5, <2>7, <2>11, <2>13, <3>2
      <4> QED
        BY <2>5, <3>2, <4>1, <4>2 DEF NoReentry
    <3>4. stack'[j] = u
      BY <2>5, <2>6, <3>3 DEF Below
    <3> QED
      BY <2>9, <2>10, <2>11, <3>4
  <2> QED
    BY <2>9, <2>11, <2>12, <2>13 DEF Passed
<1> QED
  BY <1>2, <1>3

(* The edits of the function walked: its parameter and its segment before  *)
(* the walk, its transaction in main, its transaction after the walk.      *)
LEMMA TopEdited ==
  ASSUME ShapedInv, OnceInv, [Next]_vars, stack # << >>
  PROVE  LET f == Top.fn
         IN  /\ Top \in OnceFrames /\ f \in Fn
             /\ \/ SameText(f)
                \/ /\ BeginFunction /\ f \in Untouched /\ txnDefs'[f] = 0
                   /\ txnParams'[f] <= 1 /\ segments'[f] <= 1
                \/ /\ ~Top.definedTxn /\ txnDefs[f] = 0 /\ txnDefs'[f] = 1
                   /\ txnParams'[f] = txnParams[f] /\ segments'[f] = segments[f]
<1>0. IInv /\ ShapeInv /\ TypeOK
  BY DEF ShapedInv, IInv
<1> DEFINE f == Top.fn
<1>1. Top \in Frame /\ f \in Fn /\ Top \in OnceFrames
  <2>1. Len(stack) \in DOMAIN stack
    BY <1>0, TopTyped DEF TypeOK, ControlTypeOK
  <2>2. Top \in OnceFrames
    BY <2>1 DEF OnceInv, Top
  <2> QED
    BY <2>2 DEF OnceFrames, Frame
<1>2. txnDefs \in [Fn -> Nat]
  BY <1>0 DEF TypeOK, TextTypeOK, EditCounts
<1>3. ~Top.definedTxn /\ ~crashed => txnDefs[f] = 0
  BY <1>1 DEF OnceFrames
<1>4. ASSUME NEW p \in Pkg, StartPackage(p) PROVE SameText(f)
  BY <1>4 DEF StartPackage, declText, SameText
<1>5. VisitMain \/ VisitDecl \/ UNCHANGED vars => SameText(f)
  BY DEF VisitMain, VisitDecl, vars, declText, SameText
<1>6. CASE BeginFunction
  <2>1. f \in Untouched
    BY <1>1, <1>6 DEF OnceFrames, BeginFunction
  <2>2. txnParams[f] = 0 /\ segments[f] = 0 /\ txnDefs[f] = 0
    BY <2>1 DEF Untouched
  <2>3. txnParams'[f] <= 1 /\ segments'[f] <= 1 /\ txnDefs'[f] = 0
    BY <1>0, <1>6, <2>2, BeginText
  <2> QED
    BY <1>1, <1>6, <2>1, <2>3
<1>7. ASSUME NEW u, WalkStep(u)
      PROVE  \/ SameText(f)
             \/ /\ ~Top.definedTxn /\ txnDefs'[f] = txnDefs[f] + 1 /\ ~crashed
                /\ txnParams'[f] = txnParams[f] /\ segments'[f] = segments[f]
  <2>0. ~crashed
    BY <1>7 DEF WalkStep, Walking, Running
  <2>1. txnParams' = txnParams /\ segments' = segments
    BY <1>7 DEF WalkStep, declText
  <2>2. \/ txnDefs' = txnDefs
        \/ ~Top.definedTxn /\ txnDefs' = [txnDefs EXCEPT ![Top.fn] = @ + 1]
    BY <1>7 DEF WalkStep, DefsStep
  <2> QED
    BY <1>1, <1>2, <2>0, <2>1, <2>2 DEF SameText
<1>8. CASE EndFunction
  <2>1. txnParams' = txnParams /\ segments' = segments
    BY <1>8 DEF EndFunction, declText
  <2>2. CASE ~DefinesTxn(Top)
    <3>1. txnDefs' = txnDefs
      BY <1>8, <2>2 DEF EndFunction
    <3> QED
      BY <1>1, <2>1, <3>1 DEF SameText
  <2>3. CASE DefinesTxn(Top)
    <3>1. txnDefs' = [txnDefs EXCEPT ![Top.fn] = @ + 1]
      BY <1>8, <2>3 DEF EndFunction
    <3>2. Top.kind # "main"
      <4>1. FrameOK(Top)
        BY <1>0, TopOK
      <4> QED
        BY <2>3, <4>1 DEF DefinesTxn, FrameOK, Handed
    <3>3. ~Top.definedTxn
      BY <1>0, <3>2, TopOK DEF FrameOK
    <3>4. txnDefs'[f] = txnDefs[f] + 1
      BY <1>1, <1>2, <3>1
    <3>5. txnDefs[f] = 0
      BY <1>3, <1>8, <3>3 DEF EndFunction, Running
    <3> QED
      BY <1>1, <2>1, <3>3, <3>4, <3>5
  <2> QED
    BY <2>2, <2>3
<1> QED
  BY <1>0, <1>1, <1>3, <1>4, <1>5, <1>6, <1>7, <1>8, StepCases

LEMMA TracedOnceKept ==
  ASSUME ShapedInv, OnceInv, [Next]_vars
  PROVE  TracedOnce'
<1> SUFFICES ASSUME NEW f \in Fn
             PROVE  txnParams'[f] <= 1 /\ segments'[f] <= 1 /\ txnDefs'[f] <= 1
  BY DEF TracedOnce
<1>1. txnParams[f] <= 1 /\ segments[f] <= 1 /\ txnDefs[f] <= 1
  BY DEF OnceInv, TracedOnce
<1>2. CASE SameText(f)
  BY <1>1, <1>2 DEF SameText
<1>3. CASE ~SameText(f)
  <2>1. stack # << >> /\ f = Top.fn
    BY <1>3, TextStep
  <2> QED
    BY <1>1, <1>3, <2>1, TopEdited
<1> QED
  BY <1>2, <1>3

LEMMA OnceFramesKept ==
  ASSUME ShapedInv, OnceInv, NoRecursion(app), [Next]_vars
  PROVE  \A k \in DOMAIN stack' : stack'[k] \in OnceFrames'
<1>0. /\ IInv /\ ShapeInv /\ app' = app /\ TypeOK /\ Acyclic(app) /\ Linked
      /\ MainsNotCalled(app) /\ (crashed => crashed')
  BY WaitingShrinks, CrashStays DEF ShapedInv, IInv, NoRecursion, ShapeInv
<1>1. stack \in Seq(Frame) /\ stack' \in Seq(Frame)
  BY ShapedInductive DEF ShapedInv, IInv, TypeOK, ControlTypeOK
<1>2. \A k \in DOMAIN stack : stack[k] \in OnceFrames
  BY DEF OnceInv
<1>3. NoReentry
  BY <1>0, NoCycle
(* A frame that is not the top's.                                          *)
<1>4. ASSUME NEW k \in DOMAIN stack, stack = << >> \/ k # Len(stack)
      PROVE  stack[k] \in OnceFrames'
  <2>1. stack[k] \in OnceFrames /\ stack[k].fn \in Fn
    BY <1>2 DEF OnceFrames, Frame
  <2>2. stack # << >> => Len(stack) \in DOMAIN stack
    BY <1>0, <1>1, TopTyped
  <2>3. stack = << >> \/ stack[k].fn # Top.fn
    BY <1>3, <1>4, <2>2 DEF NoReentry, Top
  <2>4. SameText(stack[k].fn)
    BY <2>1, <2>3, TextStep
  <2> QED
    BY <1>0, <2>1, <2>4, OnceFrameStays
(* A frame that is new.                                                    *)
<1>5. ASSUME NEW f \in Fn, NEW kind \in FrameKind, f \notin Started,
             NEW v \in Frame, v.fn = f, v.kind = kind, v.pc = 0, ~v.definedTxn,
             kind = "main" <=> f \in app.mains
      PROVE  v \in OnceFrames'
  <2>1. f \in Untouched /\ f \notin OnStack
    BY <1>5 DEF OnceInv, Started
  <2>2. stack # << >> => f # Top.fn
    <3>1. stack # << >> => Len(stack) \in DOMAIN stack
      BY <1>0, <1>1, TopTyped
    <3> QED
      BY <2>1, <3>1 DEF OnStack, Top
  <2>3. f \in Untouched'
    BY <2>1, <2>2, TextStep, TextStays
  <2>4. txnDefs'[f] = 0
    BY <2>3 DEF Untouched
  <2> QED
    BY <1>0, <1>5, <2>3, <2>4 DEF OnceFrames
<1>6. CASE VisitMain \/ VisitDecl
  <2> DEFINE f == Head(roots)
  <2>1. CASE stack' = << >>
    BY <2>1
  <2>2. ASSUME NEW kind \in {"main", "handler"}, kind = "main" <=> f \in app.mains,
               stack' = <<NewFrame(f, kind, currentPackage)>>
        PROVE  \A k \in DOMAIN stack' : stack'[k] \in OnceFrames'
    <3> DEFINE v == NewFrame(f, kind, currentPackage)
    <3>1. v.fn = f /\ v.kind = kind /\ v.pc = 0 /\ v.definedTxn = FALSE
      BY DEF NewFrame
    <3>2. stack' = <<v>>
      BY <2>2
    <3> HIDE DEF v
    <3>3. stack' # << >> /\ \A k \in DOMAIN stack' : stack'[k] = v
      BY <3>2
    <3>4. f \notin Started
      BY <1>6, <3>3, RootNotStarted
    <3>5. v \in Frame
      BY <1>1, <3>2, <3>3
    <3>6. f \in Fn /\ kind \in FrameKind
      BY <1>0, <1>6, RootTaken DEF FrameKind
    <3> HIDE DEF f
    <3>7. v \in OnceFrames'
      BY <1>5, <2>2, <3>1, <3>4, <3>5, <3>6
    <3> QED
      BY <3>3, <3>7
  <2> QED
    BY <1>0, <1>6, <2>1, <2>2, RootTaken
<1>7. CASE BeginFunction
  <2>1. PICK u \in Frame :
          /\ stack' = SetTop(u) /\ Same(u, Top) /\ u.pc = 1
          /\ u.definedTxn = Top.definedTxn
    BY <1>0, <1>7, BeginFunctionMoves
  <2>2. stack # << >> /\ Top.pc = 0
    BY <1>7 DEF BeginFunction, Running
  <2>3. Top \in OnceFrames
    BY <2>2, TopEdited
  <2>4. txnDefs'[Top.fn] = 0
    <3>1. Top.fn \in Untouched /\ Top.fn \in Fn
      BY <2>2, <2>3, TopEdited DEF OnceFrames
    <3> QED
      <4>1. txnDefs[Top.fn] = 0
        BY <3>1 DEF Untouched
      <4>2. txnDefs' = txnDefs
        BY <1>7 DEF BeginFunction
      <4> QED
        BY <4>1, <4>2
  <2>5. u \in OnceFrames'
    <3> DEFINE t == Top
    <3>1. t.kind = "main" <=> t.fn \in app.mains
      BY <2>3 DEF OnceFrames
    <3>2. u.fn = t.fn /\ u.kind = t.kind /\ txnDefs'[t.fn] = 0 /\ u.pc # 0
      BY <2>1, <2>4 DEF Same
    <3> HIDE DEF t
    <3> QED
      BY <1>0, <2>1, <3>1, <3>2 DEF OnceFrames
  <2>6. \A k \in DOMAIN stack' :
          k \in DOMAIN stack /\ stack'[k] = IF k = Len(stack) THEN u ELSE stack[k]
    BY <1>0, <2>1, <2>2, TopReplaced
  <2> QED
    BY <1>4, <2>5, <2>6
<1>8. ASSUME NEW u, WalkStep(u)
      PROVE  \A k \in DOMAIN stack' : stack'[k] \in OnceFrames'
  <2> DEFINE n == Len(stack)
  <2>1. /\ n \in Nat \ {0} /\ DOMAIN stack = 1 .. n /\ Top = stack[n]
        /\ u.fn = Top.fn /\ u.kind = Top.kind /\ u \in Frame /\ Top \in Frame
        /\ n \in 1 .. n /\ stack # << >>
    BY <1>0, <1>8, WalkStack DEF WalkStep, Walking, Running
  <2>2. Top \in OnceFrames /\ Top.fn \in Fn
    BY <2>1, TopEdited
  <2>3. u.pc # 0
    <3>1. Top.pc \in DOMAIN app.body[Top.fn]
      BY <1>8 DEF WalkStep, Walking
    <3>2. app.body[Top.fn] \in Seq(Node)
      BY <1>0, <2>2, AppTyped DEF AppType, IInv
    <3>3. u.pc \in {Top.pc, Top.pc + 1}
      BY <1>8 DEF WalkStep, Continues
    <3> QED
      BY <3>1, <3>2, <3>3
  <2>4. ~u.definedTxn => txnDefs'[Top.fn] = 0
    <3>1. CASE txnDefs' = txnDefs /\ u.definedTxn = Top.definedTxn
      <4>1. ~crashed
        BY <1>8 DEF WalkStep, Walking, Running
      <4>2. ~Top.definedTxn => txnDefs[Top.fn] = 0
        BY <2>2, <4>1 DEF OnceFrames
      <4> QED
        BY <3>1, <4>2
    <3>2. CASE u.definedTxn
      BY <3>2
    <3> QED
      BY <1>8, <3>1, <3>2 DEF WalkStep, DefsStep
  <2>5. u \in OnceFrames'
    <3> DEFINE t == Top
    <3>1. t.kind = "main" <=> t.fn \in app.mains
      BY <2>2 DEF OnceFrames
    <3>2. u.fn = t.fn /\ u.kind = t.kind /\ ~u.definedTxn => txnDefs'[u.fn] = 0
      BY <2>1, <2>4
    <3>3. u.fn = t.fn /\ u.kind = t.kind
      BY <2>1
    <3> HIDE DEF t
    <3> QED
      BY <1>0, <2>1, <2>3, <3>1, <3>2, <3>3 DEF OnceFrames
  <2>6. ASSUME Below(n, u) PROVE \A k \in 1 .. n : stack'[k] \in OnceFrames'
    <3>1. ASSUME NEW k \in 1 .. n, k # n PROVE stack'[k] \in OnceFrames'
      <4>1. stack'[k] = stack[k]
        BY <2>1, <2>6, <3>1 DEF Below
      <4>2. stack[k] \in OnceFrames'
        BY <1>4, <2>1, <3>1
      <4> QED
        BY <4>1, <4>2
    <3>2. stack'[n] = u
      BY <2>1, <2>6 DEF Below
    <3> QED
      BY <2>5, <3>1, <3>2
  <2>7. CASE DOMAIN stack' = 1 .. n /\ Below(n, u)
    BY <2>6, <2>7
  <2>8. ASSUME NEW g \in Fn, NEW k \in FrameKind, Begins(u, g, k),
               DOMAIN stack' = 1 .. n + 1, Below(n, u),
               stack'[n + 1] = NewFrame(g, k, currentPackage)
        PROVE  \A j \in DOMAIN stack' : stack'[j] \in OnceFrames'
    <3> DEFINE v == NewFrame(g, k, currentPackage)
    <3>1. v.fn = g /\ v.kind = k /\ v.pc = 0 /\ v.definedTxn = FALSE
      BY DEF NewFrame
    <3>2. stack'[n + 1] = v /\ v \in Frame
      <4>1. v \in Frame
        BY <1>0, NewFrameTyped DEF TypeOK, ControlTypeOK
      <4> QED
        BY <2>8, <4>1
    <3>3. g \notin Started
      BY <1>0, <1>8, <2>8, BegunNotStarted
    <3>4. k # "main" /\ g \notin app.mains
      <4>1. g \in Starts(app, Top.fn) /\ k \in {"call", "go", "lit"}
        BY <1>0, <1>8, <2>8, BegunKnown DEF ShapeInv, WalkStep
      <4> QED
        BY <1>0, <2>2, <4>1 DEF MainsNotCalled
    <3> HIDE DEF v
    <3>5. v \in OnceFrames'
      BY <1>5, <3>1, <3>2, <3>3, <3>4
    <3>6. \A j \in 1 .. n + 1 : j \in 1 .. n \/ j = n + 1
      <4>1. n \in Nat
        BY <2>1
      <4> HIDE DEF n
      <4> QED
        BY <4>1
    <3> QED
      BY <2>6, <2>8, <3>2, <3>5, <3>6
  <2>9. CASE stack' = stack /\ crashed'
    <3>1. Top \in OnceFrames'
      <4> DEFINE t == Top
      <4>1. /\ t \in Frame
            /\ t.kind = "main" <=> t.fn \in app.mains
            /\ t.pc # 0
        <5>1. Top.pc # 0
          <6>1. Top.pc \in DOMAIN app.body[Top.fn]
            BY <1>8 DEF WalkStep, Walking
          <6>2. app.body[Top.fn] \in Seq(Node)
            BY <1>0, <2>2, AppTyped DEF AppType, IInv
          <6> QED
            BY <6>1, <6>2
        <5> QED
          BY <2>2, <5>1 DEF OnceFrames
      <4> HIDE DEF t
      <4>2. t \in OnceFrames'
        BY <1>0, <2>9, <4>1 DEF OnceFrames
      <4> QED
        BY <4>2 DEF t
    <3>2. \A k \in 1 .. n : k # n => stack[k] \in OnceFrames'
      BY <1>4, <2>1
    <3> QED
      BY <2>1, <2>9, <3>1, <3>2
  <2> QED
    BY <1>0, <1>8, <2>7, <2>8, <2>9, WalkStack
<1>9. CASE EndFunction
  <2>1. stack' = SubSeq(stack, 1, Len(stack) - 1) /\ stack # << >>
    BY <1>9 DEF EndFunction, Running
  <2>2. /\ Len(stack) \in Nat \ {0} /\ DOMAIN stack' = 1 .. Len(stack) - 1
        /\ \A k \in DOMAIN stack' : k \in DOMAIN stack /\ stack'[k] = stack[k]
    BY <1>0, <2>1, TopPopped
  <2>3. \A k \in DOMAIN stack' : k # Len(stack)
    BY <2>2
  <2> QED
    BY <1>4, <2>2, <2>3
<1>10. ASSUME stack' = stack, \A f \in Fn : SameText(f)
       PROVE  \A k \in DOMAIN stack' : stack'[k] \in OnceFrames'
  <2>1. \A k \in DOMAIN stack : stack[k].fn \in Fn
    BY <1>2 DEF OnceFrames, Frame
  <2> QED
    BY <1>0, <1>2, <1>10, <2>1, OnceFrameStays
<1>11. ASSUME NEW p \in Pkg, StartPackage(p)
       PROVE  stack' = stack /\ \A f \in Fn : SameText(f)
  BY <1>11 DEF StartPackage, declText, SameText
<1>12. UNCHANGED vars => stack' = stack /\ \A f \in Fn : SameText(f)
  BY DEF vars, declText, SameText
<1> QED
  BY <1>0, <1>6, <1>7, <1>8, <1>9, <1>10, <1>11, <1>12, StepCases

LEMMA OnceKept ==
  ASSUME ShapedInv, OnceInv, NoRecursion(app), [Next]_vars
  PROVE  OnceInv'
<1>1. TracedOnce'
  BY TracedOnceKept
<1>2. LiteralsInOrder' /\ \A f \in Fn : f \notin Started' => f \in Untouched'
  BY LiteralsInOrderKept, UnstartedKept DEF NoRecursion
<1>3. \A k \in DOMAIN stack' : stack'[k] \in OnceFrames'
  BY OnceFramesKept
<1> QED
  BY <1>1, <1>2, <1>3 DEF OnceInv

LEMMA OnceInitially ==
  ASSUME Init
  PROVE  OnceInv
<1>1. /\ stack = << >> /\ \A f \in Fn : segments[f] = 0 /\ txnParams[f] = 0
      /\ \A f \in Fn : txnDefs[f] = 0
      /\ app \in Apps
  BY DEF Init
<1>2. TracedOnce /\ \A f \in Fn : f \in Untouched
  BY <1>1 DEF TracedOnce, Untouched
<1>3. LiteralsInOrder
  BY <1>1, LiteralTyped DEF LiteralsInOrder, OnStack, HoldsLiteral
<1> QED
  BY <1>1, <1>2, <1>3 DEF OnceInv

LEMMA AppChosen ==
  ASSUME ShapedInv, [Next]_vars
  PROVE  NoRecursion(app)' => NoRecursion(app)
<1>1. app' = app
  BY WaitingShrinks DEF ShapedInv
<1> QED
  BY <1>1

(* The inductive invariant without recursion: a function that has been     *)
(* edited carries the mark or is on the stack, and is there once.          *)
THEOREM Once == Spec => [](NoRecursion(app) => OnceInv)
<1>1. Init => (NoRecursion(app) => OnceInv)
  BY OnceInitially
<1>2. ShapedInv /\ (NoRecursion(app) => OnceInv) /\ [Next]_vars
        => (NoRecursion(app) => OnceInv)'
  BY OnceKept, AppChosen
<1> QED
  BY <1>1, <1>2, Shaped, PTL DEF Spec

(* In an application without recursion a function is edited once,          *)
(* whichever callers and roots reach it, in whatever order the packages    *)
(* come: at most one parameter, one segment, one transaction.  A cycle of  *)
(* calls breaks this in the code: the run Recursion shows it.              *)
THEOREM TracedOnceHolds == Spec => [](NoRecursion(app) => TracedOnce)
<1>1. (NoRecursion(app) => OnceInv) => (NoRecursion(app) => TracedOnce)
  BY DEF OnceInv
<1> QED
  BY <1>1, Once, PTL

-----------------------------------------------------------------------------
(* No error is handled twice, as no assignment is walked twice.            *)

Apart(z) == LET held == {z.cache} \ {NoErr}
            IN  /\ held \cap Captured(z) = {} /\ held \cap z.unchecked = {}
                /\ Captured(z) \cap z.unchecked = {}

LEMMA NoticeKeepsApart ==
  ASSUME NEW t, NEW x, NEW y, NoticeSteps(t, x, y), Apart(x),
         \A e \in x.loaded : e.var \in ErrVar,
         x.loaded = ({x.cache} \ {NoErr}) \cup Captured(x) \cup x.unchecked,
         \A e \in x.loaded : ~(e.fn = t.fn /\ e.node = t.pc)
  PROVE  /\ Apart(y)
         /\ \A e \in y.loaded : e \in x.loaded \/ (e.fn = t.fn /\ e.node = t.pc)
<1>1. CASE Keeps(x, y)
  BY <1>1 DEF Keeps, Apart
<1>2. ASSUME NEW v, NEW w, Captures(v, w), Apart(v),
             \A e \in v.loaded : e.var \in ErrVar,
             v.cache # NoErr => v.cache \in v.loaded
      PROVE  Apart(w) /\ w.loaded = v.loaded
  <2>1. v.cache # NoErr /\ v.cache.var # ReturnVal
    BY <1>2, SentinelAssumption DEF Captures
  <2>2. /\ w.cache = NoErr /\ w.loaded = v.loaded /\ w.unchecked = v.unchecked
        /\ Captured(w) = Captured(v) \cup {v.cache}
    BY <1>2, <2>1 DEF Captures
  <2> QED
    BY <1>2, <2>1, <2>2 DEF Apart
<1>3. ASSUME NEW z, NEW new, Loadable(t, new), Loads(x, z, new)
      PROVE  /\ Apart(z) /\ z.cache = new /\ z.loaded = x.loaded \cup {new}
             /\ new.fn = t.fn /\ new.node = t.pc /\ new.var \in ErrVar
  <2>1. /\ z.cache = new /\ z.loaded = x.loaded \cup {new}
        /\ z.unchecked = x.unchecked \cup ({x.cache} \ {NoErr})
        /\ Captured(z) = Captured(x)
        /\ new.fn = t.fn /\ new.node = t.pc /\ new.var \in ErrVar
    BY <1>3 DEF Loads, Loadable
  <2>2. new \notin x.loaded
    BY <2>1
  <2>3. /\ {new} \cap Captured(z) = {} /\ {new} \cap z.unchecked = {}
    BY <2>1, <2>2
  <2>4. Captured(z) \cap z.unchecked = {}
    BY <2>1 DEF Apart
  <2> QED
    BY <2>1, <2>3, <2>4 DEF Apart
<1>4. CASE Captures(x, y)
  BY <1>2, <1>4
<1>5. ASSUME NEW new, Loadable(t, new), Loads(x, y, new)
      PROVE  /\ Apart(y)
             /\ \A e \in y.loaded : e \in x.loaded \/ (e.fn = t.fn /\ e.node = t.pc)
  BY <1>3, <1>5
<1>6. ASSUME NEW new, NEW z, Loadable(t, new), Loads(x, z, new), Captures(z, y)
      PROVE  /\ Apart(y)
             /\ \A e \in y.loaded : e \in x.loaded \/ (e.fn = t.fn /\ e.node = t.pc)
  <2>1. /\ Apart(z) /\ z.cache = new /\ z.loaded = x.loaded \cup {new}
        /\ new.fn = t.fn /\ new.node = t.pc /\ new.var \in ErrVar
    BY <1>3, <1>6
  <2>2. /\ z.cache \in z.loaded /\ \A e \in z.loaded : e.var \in ErrVar
    BY <2>1
  <2>3. Apart(y) /\ y.loaded = z.loaded
    BY <1>2, <1>6, <2>1, <2>2
  <2> QED
    BY <2>1, <2>3
<1> QED
  BY <1>1, <1>4, <1>5, <1>6 DEF NoticeSteps

ErrorsOnce ==
  /\ \A e \in loaded : <<e.fn, e.node>> \in Passed
  /\ Held \cap CapturedErrors = {} /\ Held \cap unchecked = {}
  /\ CapturedErrors \cap unchecked = {}

LEMMA ErrorsOnceKept ==
  ASSUME ShapedInv, OnceInv, NoRecursion(app), ErrorInv, ErrorsOnce, [Next]_vars
  PROVE  ErrorsOnce'
<1>0. IInv /\ ShapeInv /\ Passed \subseteq Passed'
  BY PassedKept DEF ShapedInv, NoRecursion
<1>1. CASE UNCHANGED errs
  BY <1>0, <1>1 DEF errs, ErrorsOnce, Held, CapturedErrors
<1>2. ASSUME NEW u, WalkStep(u), stack' = SetTop(u), u.pc = Top.pc + 1,
             NoticeSteps(Top, ErrNow, ErrNow')
      PROVE  ErrorsOnce'
  <2> DEFINE x == ErrNow
             y == ErrNow'
             t == Top
  <2>1. /\ x.cache = errorCache /\ x.loaded = loaded /\ x.unchecked = unchecked
        /\ y.cache = errorCache' /\ y.loaded = loaded' /\ y.unchecked = unchecked'
    BY DEF ErrNow
  <2>2. /\ Captured(x) = CapturedErrors /\ Captured(y) = CapturedErrors'
    BY CapturedNow
  <2>3. /\ \A e \in loaded : e.var \in ErrVar
        /\ loaded = ({errorCache} \ {NoErr}) \cup CapturedErrors \cup unchecked
    BY DEF ErrorInv, ErrorsKept, Held
  <2>4. /\ Len(stack) \in DOMAIN stack /\ Top = stack[Len(stack)]
        /\ Top \in Frame /\ stack # << >> /\ TypeOK /\ u \in Frame /\ u.fn = Top.fn
    BY <1>0, <1>2, WalkStack DEF WalkStep, Walking, Running, IInv
  <2>5. Top.fn \in Fn /\ Top.pc \in Nat
    BY <2>4 DEF Frame
  <2>6. <<Top.fn, Top.pc>> \notin Passed
    <3>1. ~(Top.pc > Top.pc)
      BY <2>5
    <3> QED
      BY <2>4, <3>1 DEF Passed
  <2>7. \A e \in loaded : ~(e.fn = t.fn /\ e.node = t.pc)
    BY <2>6 DEF ErrorsOnce
  <2>8. Apart(x)
    BY <2>1, <2>2 DEF Apart, ErrorsOnce, Held
  <2>9. NoticeSteps(t, x, y)
    BY <1>2
  <2> HIDE DEF x, y, t
  <2>10. /\ Apart(y)
         /\ \A e \in y.loaded : e \in x.loaded \/ (e.fn = t.fn /\ e.node = t.pc)
    BY <2>1, <2>2, <2>3, <2>7, <2>8, <2>9, NoticeKeepsApart
  <2>11. <<Top.fn, Top.pc>> \in Passed'
    <3>1. /\ DOMAIN stack' = DOMAIN stack
          /\ \A k \in DOMAIN stack :
               stack'[k] = IF k = Len(stack) THEN u ELSE stack[k]
      BY <1>2, <2>4, TopReplaced
    <3>2. Top.fn \in Started'
      BY <2>4, <3>1 DEF Started, OnStack
    <3>3. ASSUME NEW k \in DOMAIN stack', stack'[k].fn = Top.fn
          PROVE  stack'[k].pc > Top.pc
      <4>1. k = Len(stack)
        <5>1. NoReentry
          BY <1>0, NoCycle DEF ShapeInv, NoRecursion, IInv
        <5>2. k \in DOMAIN stack /\ stack[k].fn = Top.fn
          BY <2>4, <3>1, <3>3
        <5> QED
          BY <2>4, <5>1, <5>2 DEF NoReentry
      <4>2. stack'[k] = u
        BY <2>4, <3>1, <4>1
      <4> QED
        BY <1>2, <2>5, <4>2
    <3> QED
      BY <2>5, <3>2, <3>3 DEF Passed
  <2>12. \A e \in loaded' : <<e.fn, e.node>> \in Passed'
    <3>1. \A e \in loaded' : e \in loaded \/ (e.fn = Top.fn /\ e.node = Top.pc)
      BY <2>1, <2>10 DEF t
    <3> QED
      BY <1>0, <2>11, <3>1 DEF ErrorsOnce
  <2> QED
    BY <2>1, <2>2, <2>10, <2>12 DEF ErrorsOnce, Held, Apart
<1>3. ASSUME NEW u, WalkStep(u), Keeps(ErrNow, ErrNow')
      PROVE  ErrorsOnce'
  <2>1. /\ errorCache' = errorCache /\ loaded' = loaded /\ unchecked' = unchecked
        /\ CapturedErrors' = CapturedErrors
    BY <1>3, CapturedNow DEF Keeps, ErrNow
  <2> QED
    BY <1>0, <2>1 DEF ErrorsOnce, Held
<1>4. CASE EndFunction
  <2>1. /\ errorCache' = NoErr /\ loaded' = loaded
        /\ CapturedErrors' = CapturedErrors
        /\ unchecked' = unchecked \cup ({errorCache} \ {NoErr})
    BY <1>0, <1>4, ErrorsEnd
  <2> QED
    BY <1>0, <2>1 DEF ErrorsOnce, Held
<1> QED
  BY <1>0, <1>1, <1>2, <1>3, <1>4, ErrorsApart, ErrorsStep

(* In an application without recursion every error is accounted for, once: *)
(* it is held, or captured by NoticeError, or reported as unchecked, and   *)
(* only one of these.                                                      *)
THEOREM ErrorsAccountedHolds == Spec => [](NoRecursion(app) => ErrorsAccounted)
<1> DEFINE I == /\ ErrorInv
                /\ NoRecursion(app) => ErrorsOnce
<1>1. Init => I
  BY DEF Init, ErrorInv, ErrorsKept, ErrorOwnerActive, ErrorsOnce, Held,
         CapturedErrors
<1>2. ShapedInv /\ (NoRecursion(app) => OnceInv) /\ I /\ [Next]_vars => I'
  <2>1. ShapedInv /\ I /\ [Next]_vars => ErrorInv'
    BY ErrorInvKept DEF ShapedInv
  <2>2. ShapedInv /\ (NoRecursion(app) => OnceInv) /\ I /\ [Next]_vars
          => (NoRecursion(app) => ErrorsOnce)'
    BY ErrorsOnceKept, AppChosen
  <2> QED
    BY <2>1, <2>2
<1>3. I => (NoRecursion(app) => ErrorsAccounted)
  BY DEF ErrorInv, ErrorsKept, ErrorsOnce, ErrorsAccounted, Held
<1> HIDE DEF I
<1> QED
  BY <1>1, <1>2, <1>3, Shaped, Once, PTL DEF Spec

=============================================================================
