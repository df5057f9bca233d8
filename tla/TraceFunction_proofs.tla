------------------------ MODULE TraceFunction_proofs ------------------------
(***************************************************************************)
(* Proofs about TraceFunction, for every application, every number of      *)
(* packages and every depth of recursion: types, packages and imports;     *)
(* what the steps of a walk have in common; the one error slot; and the    *)
(* shape of the stack of activations.                                      *)
(***************************************************************************)
EXTENDS TraceFunction, SequenceTheorems, WellFoundedInduction, TLAPS

-----------------------------------------------------------------------------
(* Numbers: what StoredDecl chooses exists.                                *)

LEMMA HasLeast ==
  ASSUME NEW I, I \subseteq Nat, I # {}
  PROVE  \E i \in I : \A j \in I : i <= j
<1>1. PICK i \in I : \A j \in I : ~ (<<j, i>> \in OpToRel(<, Nat))
  BY WFMin, NatLessThanWellFounded
<1>2. \A j \in I : i <= j
  <2> SUFFICES ASSUME NEW j \in I PROVE i <= j
    OBVIOUS
  <2>1. j < i => <<j, i>> \in OpToRel(<, Nat)
    BY DEF OpToRel
  <2>2. ~ (j < i)
    BY <1>1, <2>1, Zenon
  <2>3. i \in Nat /\ j \in Nat
    OBVIOUS
  <2> QED
    BY <2>2, <2>3
<1> QED
  BY <1>2

LEMMA HasGreatest ==
  ASSUME NEW n \in Nat, NEW I, I \subseteq 1 .. n, I # {}
  PROVE  \E i \in I : \A j \in I : j <= i
<1> DEFINE J == {n - i : i \in I}
<1>1. PICK k \in J : \A m \in J : k <= m
  <2>1. J \subseteq Nat
    OBVIOUS
  <2>2. J # {}
    BY Zenon
  <2> QED
    BY <2>1, <2>2, HasLeast
<1>2. PICK i \in I : k = n - i
  OBVIOUS
<1>3. \A j \in I : n - i <= n - j
  BY <1>1, <1>2
<1> QED
  BY <1>2, <1>3

-----------------------------------------------------------------------------
(* Applications.                                                           *)

LEMMA AppTyped ==
  ASSUME app \in Apps
  PROVE  app \in AppType /\ WellFormed(app)
BY AppsAssumption

LEMMA NodeTyped ==
  ASSUME app \in Apps, NEW f \in Fn, NEW i \in DOMAIN app.body[f]
  PROVE  app.body[f][i] \in Node
<1>1. app.body[f] \in Seq(Node)
  BY AppTyped DEF AppType
<1> QED
  BY <1>1

LEMMA CallTyped ==
  ASSUME NEW n \in Node, NEW j \in DOMAIN n.calls
  PROVE  n.calls[j] \in Site
<1>1. n.calls \in Seq(Site)
  BY DEF Node
<1> QED
  BY <1>1

LEMMA LiteralTyped ==
  ASSUME app \in Apps, NEW f \in Fn, NEW i \in DOMAIN app.body[f],
         app.body[f][i].kind \in {"golit", "litassign"}
  PROVE  /\ app.body[f][i].lit \in Fn
         /\ app.pkg[app.body[f][i].lit] = app.pkg[f]
BY AppTyped DEF AppType, WellFormed, HoldsLiteral

LEMMA DeclTyped ==
  ASSUME app \in Apps, NEW p \in Pkg
  PROVE  /\ app.decls[p] \in Seq(Fn)
         /\ \A i \in DOMAIN app.decls[p] : /\ app.decls[p][i] \in Fn
                                          /\ app.pkg[app.decls[p][i]] = p
<1>1. app.decls[p] \in Seq(Fn)
  BY AppTyped DEF AppType
<1> QED
  BY <1>1, AppTyped DEF WellFormed

(* The declarations the lookup starts with are where they are looked up.   *)
LEMMA StoredDeclHome ==
  ASSUME app \in Apps, NEW p \in Pkg, NEW n \in Name
  PROVE  /\ StoredDecl(app, p, n) \in [body : Fn \cup {NoFn}, traced : BOOLEAN]
         /\ StoredDecl(app, p, n).body # NoFn =>
              app.pkg[StoredDecl(app, p, n).body] = p
<1> DEFINE I == {i \in DOMAIN app.decls[p] : app.name[app.decls[p][i]] = n}
           T == {i \in I : app.decls[p][i] \in app.hasTxn}
           D == StoredDecl(app, p, n)
<1>1. app.decls[p] \in Seq(Fn) /\ DOMAIN app.decls[p] = 1 .. Len(app.decls[p])
  BY DeclTyped
<1>2. D = CASE I = {} -> [body |-> NoFn, traced |-> FALSE]
            [] T # {} -> [body |-> app.decls[p][CHOOSE i \in T : \A j \in T : j <= i],
                          traced |-> TRUE]
            [] OTHER  -> [body |-> app.decls[p][CHOOSE i \in I : \A j \in I : i <= j],
                          traced |-> FALSE]
  BY DEF StoredDecl
<1>3. CASE I = {}
  <2>1. D = [body |-> NoFn, traced |-> FALSE]
    BY <1>3 DEF StoredDecl
  <2>2. D \in [body : Fn \cup {NoFn}, traced : BOOLEAN] /\ D.body = NoFn
    BY <2>1
  <2> QED
    BY <2>2
<1>4. CASE I # {} /\ T # {}
  <2>1. \E i \in T : \A j \in T : j <= i
    <3>1. T \subseteq 1 .. Len(app.decls[p]) /\ Len(app.decls[p]) \in Nat
      BY <1>1
    <3> HIDE DEF I, T
    <3> QED
      BY <3>1, <1>4, HasGreatest
  <2>2. PICK i \in T : i = CHOOSE k \in T : \A j \in T : j <= k
    BY <2>1
  <2>3. D = [body |-> app.decls[p][i], traced |-> TRUE]
    BY <1>2, <1>4, <2>2
  <2> QED
    BY <2>3, DeclTyped
<1>5. CASE I # {} /\ T = {}
  <2>1. \E i \in I : \A j \in I : i <= j
    <3>1. I \subseteq Nat
      BY <1>1
    <3> HIDE DEF I, T
    <3> QED
      BY <3>1, <1>5, HasLeast
  <2>2. PICK i \in I : i = CHOOSE k \in I : \A j \in I : k <= j
    BY <2>1
  <2>3. D = [body |-> app.decls[p][i], traced |-> FALSE]
    BY <1>2, <1>5, <2>2
  <2> QED
    BY <2>3, DeclTyped
<1> QED
  BY <1>3, <1>4, <1>5

-----------------------------------------------------------------------------
(* The inductive invariant.  ActivePackage alone is not inductive: what    *)
(* EndFunction restores was saved when the activation started, so every    *)
(* activation on the stack must remember the package of the one below it,  *)
(* the first one the package of the declarations still to visit, and every *)
(* declaration must be stored under its own package.                       *)

RootPackage(t) == IF t.kind \in {"call", "go"} THEN t.root ELSE app.pkg[t.fn]

DeclarationsAtHome ==
  \A p \in Pkg, n \in Name :
    tracedFuncs[p][n].body # NoFn => app.pkg[tracedFuncs[p][n].body] = p

StackLinked ==
  \A i \in 1 .. Len(stack) - 1 : RootPackage(stack[i + 1]) = app.pkg[stack[i].fn]

RootsAtHome ==
  \A k \in DOMAIN roots :
    app.pkg[roots[k]] = IF stack = << >> THEN currentPackage
                                       ELSE RootPackage(stack[1])

PackagesLinked == StackLinked /\ RootsAtHome /\ ActivePackage

IInv == app \in Apps /\ TypeOK /\ DeclarationsAtHome /\ PackagesLinked

-----------------------------------------------------------------------------
(* Activations.                                                            *)

LEMMA TopTyped ==
  ASSUME TypeOK, stack # << >>
  PROVE  /\ Len(stack) \in Nat \ {0}
         /\ Top \in Frame
         /\ \A i \in 1 .. Len(stack) : stack[i] \in Frame
BY DEF TypeOK, ControlTypeOK, Top

LEMMA NewFrameTyped ==
  ASSUME NEW f \in Fn, NEW k \in FrameKind, NEW p \in Pkg
  PROVE  /\ NewFrame(f, k, p) \in Frame
         /\ NewFrame(f, k, p).fn = f
         /\ NewFrame(f, k, p).kind = k
         /\ NewFrame(f, k, p).root = p
BY DEF NewFrame, Frame

(* A frame that stands for the same activation as another.                 *)
Same(t, u) == t.fn = u.fn /\ t.kind = u.kind /\ t.root = u.root

LEMMA NextNodeTyped ==
  ASSUME NEW t \in Frame
  PROVE  NextNode(t) \in Frame /\ Same(NextNode(t), t)
<1> DEFINE pc == t.pc + 1
           u  == [t EXCEPT !.pc = pc]
           v  == [u EXCEPT !.call = 1]
<1>1. NextNode(t) = [v EXCEPT !.down = FALSE, !.started = FALSE]
  BY DEF NextNode, Frame
<1>2. pc \in Nat
  BY DEF Frame
<1> HIDE DEF pc
<1>3. u \in Frame /\ Same(u, t)
  BY <1>2 DEF Frame, Same
<1> HIDE DEF u
<1>4. v \in Frame /\ Same(v, u)
  BY <1>3 DEF Frame, Same
<1> HIDE DEF v
<1> QED
  BY <1>1, <1>3, <1>4 DEF Frame, Same

LEMMA NextCallTyped ==
  ASSUME NEW t \in Frame
  PROVE  NextCall(t) \in Frame /\ Same(NextCall(t), t)
BY DEF NextCall, Frame, Same

LEMMA AfterCallTyped ==
  ASSUME NEW t \in Frame, NEW s, NEW async
  PROVE  AfterCall(t, s, async) \in Frame /\ Same(AfterCall(t, s, async), t)
BY DEF AfterCall, Frame, Same

(* The top activation moves on.                                            *)
LEMMA TopMoves ==
  ASSUME TypeOK, PackagesLinked, stack # << >>,
         NEW t \in Frame, Same(t, Top),
         stack' = SetTop(t), UNCHANGED <<app, control>>
  PROVE  stack' \in Seq(Frame) /\ PackagesLinked'
<1>1. /\ stack' \in Seq(Frame) /\ Len(stack') = Len(stack)
      /\ \A i \in 1 .. Len(stack) :
           stack'[i] = IF i = Len(stack) THEN t ELSE stack[i]
  BY TopTyped DEF TypeOK, ControlTypeOK, SetTop
<1>2. \A i \in 1 .. Len(stack) : Same(stack'[i], stack[i])
  BY <1>1, TopTyped DEF Same, Top
<1>3. Len(stack) \in Nat \ {0} /\ stack' # << >> /\ Top' = t
  BY <1>1, TopTyped DEF Top
<1>4. StackLinked'
  BY <1>1, <1>2, <1>3 DEF StackLinked, PackagesLinked, RootPackage, Same
<1>5. RootsAtHome'
  BY <1>1, <1>2, <1>3 DEF RootsAtHome, PackagesLinked, RootPackage, Same, control
<1>6. ActivePackage'
  BY <1>3 DEF ActivePackage, PackagesLinked, Same, control
<1> QED
  BY <1>1, <1>4, <1>5, <1>6 DEF PackagesLinked

(* A new activation starts, or the goroutine stack is exhausted.           *)
LEMMA ActivationStarts ==
  ASSUME TypeOK, PackagesLinked, stack # << >>,
         NEW t \in Frame, Same(t, Top),
         NEW f \in Fn, NEW k \in FrameKind, NEW p \in Pkg,
         app.pkg[f] = p,
         k \in {"call", "go"} \/ p = currentPackage,
         Enter(t, f, k, p), app' = app
  PROVE  /\ stack' \in Seq(Frame) /\ PackagesLinked'
         /\ UNCHANGED <<pending, roots, setupFunc>>
         /\ currentPackage' \in Pkg /\ crashed' \in BOOLEAN
<1> DEFINE u == NewFrame(f, k, currentPackage)
<1>1. CASE Len(stack) < MaxDepth
  <2>0. u \in Frame /\ u.fn = f /\ u.kind = k /\ u.root = currentPackage
    BY NewFrameTyped DEF TypeOK, ControlTypeOK
  <2>1. /\ stack' = Append(SetTop(t), u) /\ currentPackage' = p
        /\ UNCHANGED <<pending, roots, setupFunc, crashed>>
    BY <1>1 DEF Enter
  <2> HIDE DEF u
  <2>2. /\ SetTop(t) \in Seq(Frame) /\ Len(SetTop(t)) = Len(stack)
        /\ \A i \in 1 .. Len(stack) :
             SetTop(t)[i] = IF i = Len(stack) THEN t ELSE stack[i]
    BY TopTyped DEF TypeOK, ControlTypeOK, SetTop
  <2>3. /\ stack' \in Seq(Frame) /\ Len(stack') = Len(stack) + 1
        /\ stack'[Len(stack) + 1] = u
        /\ \A i \in 1 .. Len(stack) : stack'[i] = SetTop(t)[i]
    BY <2>0, <2>1, <2>2
  <2>4. \A i \in 1 .. Len(stack) : Same(stack'[i], stack[i])
    BY <2>2, <2>3, TopTyped DEF Same, Top
  <2>5. Len(stack) \in Nat \ {0} /\ stack' # << >> /\ Top' = u
    BY <2>3, TopTyped DEF Top
  <2>6. StackLinked'
    <3> SUFFICES ASSUME NEW i \in 1 .. Len(stack)
                 PROVE  RootPackage(stack[i + 1])' = app.pkg[stack'[i].fn]
      BY <2>3 DEF StackLinked
    <3>1. CASE i < Len(stack)
      <4>1. i \in 1 .. Len(stack) - 1 /\ i + 1 \in 1 .. Len(stack)
        BY <3>1, <2>5
      <4>2. RootPackage(stack[i + 1]) = app.pkg[stack[i].fn]
        BY <4>1 DEF StackLinked, PackagesLinked
      <4> QED
        BY <4>1, <4>2, <2>4 DEF RootPackage, Same
    <3>2. CASE i = Len(stack)
      <4>1. app.pkg[stack'[i].fn] = currentPackage
        BY <3>2, <2>4, <2>5 DEF ActivePackage, PackagesLinked, Same, Top
      <4>2. stack'[i + 1] = u
        BY <3>2, <2>3
      <4>3. RootPackage(stack[i + 1])' = currentPackage
        BY <2>0, <4>2 DEF RootPackage
      <4> QED
        BY <4>1, <4>3
    <3> QED
      BY <3>1, <3>2, <2>5
  <2>7. RootsAtHome'
    BY <2>1, <2>4, <2>5 DEF RootsAtHome, PackagesLinked, RootPackage, Same
  <2>8. ActivePackage'
    BY <2>0, <2>1, <2>5 DEF ActivePackage
  <2> QED
    BY <2>1, <2>3, <2>6, <2>7, <2>8 DEF PackagesLinked, TypeOK, ControlTypeOK
<1>2. CASE ~(Len(stack) < MaxDepth)
  <2>1. crashed' = TRUE /\ UNCHANGED <<stack, pending, roots, currentPackage, setupFunc>>
    BY <1>2 DEF Enter
  <2> QED
    BY <2>1 DEF TypeOK, ControlTypeOK, PackagesLinked, StackLinked, RootsAtHome, ActivePackage,
                RootPackage, Top
<1> QED
  BY <1>1, <1>2

-----------------------------------------------------------------------------
(* The edits of a call, and the errors.                                    *)

LEMMA CallEdited ==
  ASSUME TypeOK, NEW t \in Frame, NEW s \in Site, NEW async,
         AddToCall(t, s, async)
  PROVE  /\ txnArgs' \in [Site -> Nat]
         /\ plainArg' \subseteq Site /\ ctxWrapped' \subseteq Site
         /\ txnUses' \subseteq Fn
         /\ importsAdded' \subseteq Pkg /\ importsAdded \subseteq importsAdded'
<1> DEFINE how == HandOver(t.obj, s, async)
<1>1. /\ ctxWrapped' = IF how = "wrap" THEN ctxWrapped \cup {s} ELSE ctxWrapped
      /\ txnArgs' = IF how = "append" THEN [txnArgs EXCEPT ![s] = @ + 1]
                                      ELSE txnArgs
      /\ plainArg' = IF how = "append" /\ ~async THEN plainArg \cup {s}
                                                 ELSE plainArg
      /\ txnUses' = IF how = "pass" THEN txnUses ELSE txnUses \cup {t.fn}
      /\ importsAdded' \in {importsAdded, importsAdded \cup {currentPackage}}
  BY DEF AddToCall, AddImport
<1> HIDE DEF how
<1>2. t.fn \in Fn
  BY DEF Frame
<1>3. txnArgs' \in [Site -> Nat]
  BY <1>1 DEF TypeOK, TextTypeOK
<1>4. importsAdded' \subseteq Pkg /\ importsAdded \subseteq importsAdded'
  BY <1>1 DEF TypeOK, TextTypeOK, ControlTypeOK
<1> QED
  BY <1>1, <1>2, <1>3, <1>4 DEF TypeOK, TextTypeOK

(* What NoticeError works on.                                              *)
ErrState == [cache : CachedError \cup {NoErr}, loaded : SUBSET CachedError,
             noticed : SUBSET [in : Fn, err : CachedError],
             unchecked : SUBSET CachedError, hit : BOOLEAN]

LEMMA ErrNowTyped ==
  ASSUME TypeOK
  PROVE  ErrNow \in ErrState
BY DEF TypeOK, ErrorTypeOK, ErrNow, ErrState

LEMMA NoticeAssignTyped ==
  ASSUME NEW t \in Frame, NEW node \in Node, NEW e \in ErrState
  PROVE  NoticeAssign(t, node, e) \in ErrState
<1> DEFINE new == [fn |-> t.fn, node |-> t.pc, var |-> node.err]
<1>1. CASE ~node.listed \/ t.down \/ node.err = NoErr
  BY <1>1 DEF NoticeAssign
<1>2. CASE ~(~node.listed \/ t.down \/ node.err = NoErr)
  <2>1. new \in CachedError
    BY <1>2 DEF Frame, Node, CachedError
  <2>2. NoticeAssign(t, node, e) =
          [e EXCEPT !.cache = new, !.loaded = @ \cup {new},
                    !.unchecked = @ \cup ({e.cache} \ {NoErr})]
    BY <1>2 DEF NoticeAssign
  <2> DEFINE l == e.loaded \cup {new}
             u == e.unchecked \cup ({e.cache} \ {NoErr})
  <2>3. l \subseteq CachedError /\ u \subseteq CachedError
    BY <2>1 DEF ErrState
  <2>4. NoticeAssign(t, node, e) =
          [e EXCEPT !.cache = new, !.loaded = l, !.unchecked = u]
    BY <2>2 DEF ErrState
  <2> HIDE DEF new, l, u
  <2> QED
    BY <2>1, <2>3, <2>4 DEF ErrState
<1> QED
  BY <1>1, <1>2

LEMMA NoticeCachedTyped ==
  ASSUME NEW t \in Frame, NEW e \in ErrState, e.cache # NoErr
  PROVE  NoticeCached(t, e) \in ErrState
<1> DEFINE n == [in |-> t.fn, err |-> e.cache]
<1>1. n \in [in : Fn, err : CachedError]
  BY DEF Frame, ErrState
<1>2. NoticeCached(t, e) = [e EXCEPT !.cache = NoErr, !.hit = TRUE,
                                     !.noticed = @ \cup {n}]
  BY DEF NoticeCached
<1> HIDE DEF n
<1> QED
  BY <1>1, <1>2, ZenonT(60) DEF ErrState

LEMMA NoticeReturnTyped ==
  ASSUME NEW t \in Frame, NEW node \in Node, NEW e \in ErrState
  PROVE  NoticeReturn(t, node, e) \in ErrState
<1> DEFINE new == [fn |-> t.fn, node |-> t.pc, var |-> ReturnVal]
           n   == [in |-> t.fn, err |-> new]
<1>0. node.listed \in BOOLEAN /\ node.checks \in BOOLEAN /\ t.down \in BOOLEAN
  BY DEF Node, Frame
<1>1. CASE ~node.listed \/ t.down
  BY <1>0, <1>1 DEF NoticeReturn
<1>2. CASE node.listed /\ ~t.down /\ node.checks
  <2>1. n \in [in : Fn, err : CachedError]
    BY DEF Frame, CachedError
  <2>2. NoticeReturn(t, node, e) = [e EXCEPT !.hit = TRUE, !.noticed = @ \cup {n}]
    BY <1>0, <1>2 DEF NoticeReturn
  <2> HIDE DEF n
  <2> QED
    BY <2>1, <2>2 DEF ErrState
<1>3. CASE node.listed /\ ~t.down /\ ~node.checks
  <2>1. NoticeReturn(t, node, e) = IF e.cache # NoErr /\ node.err = e.cache.var
                                   THEN NoticeCached(t, e) ELSE e
    BY <1>0, <1>3 DEF NoticeReturn
  <2> QED
    BY <2>1, NoticeCachedTyped
<1> QED
  BY <1>0, <1>1, <1>2, <1>3

LEMMA NoticeErrorTyped ==
  ASSUME TypeOK, NEW t \in Frame, NEW node \in Node
  PROVE  NoticeError(t, node) \in ErrState
<1>1. NoticeAssign(t, node, ErrNow) \in ErrState
  BY ErrNowTyped, NoticeAssignTyped
<1>2. NoticeIf(t, node, ErrNow) \in ErrState
  BY <1>1, NoticeCachedTyped DEF NoticeIf
<1>3. NoticeReturn(t, node, ErrNow) \in ErrState
  BY ErrNowTyped, NoticeReturnTyped
<1> QED
  BY <1>1, <1>2, <1>3, ErrNowTyped DEF NoticeError

LEMMA ErrorsSet ==
  ASSUME NEW e \in ErrState, SetErrors(e)
  PROVE  ErrorTypeOK'
BY DEF SetErrors, ErrState, ErrorTypeOK

-----------------------------------------------------------------------------
(* The steps, one lemma per action.                                        *)

(* Every function a transaction is handed to is where it is looked up.     *)
LEMMA ResolvedHome ==
  ASSUME IInv, NEW s \in Site, ShouldInstrument(s)
  PROVE  InvDecl(s) \in Fn /\ app.pkg[app.to[s]] \in Pkg
         /\ app.pkg[InvDecl(s)] = app.pkg[app.to[s]]
<1> DEFINE g == app.to[s]
<1>1. g \in Fn /\ app.pkg[g] \in Pkg /\ app.name[g] \in Name
  BY AppTyped DEF IInv, AppType
<1>2. InvDecl(s) = tracedFuncs[app.pkg[g]][app.name[g]].body /\ InvDecl(s) # NoFn
  BY DEF ShouldInstrument, InvDecl, Entry
<1>3. tracedFuncs[app.pkg[g]][app.name[g]] \in
        [body : Fn \cup {NoFn}, traced : BOOLEAN]
  BY <1>1 DEF IInv, TypeOK, ControlTypeOK
<1> QED
  BY <1>1, <1>2, <1>3 DEF IInv, DeclarationsAtHome

LEMMA TopNodeTyped ==
  ASSUME IInv, Walking
  PROVE  /\ stack # << >> /\ Top \in Frame /\ Top.fn \in Fn
         /\ TopNode \in Node
         /\ TopNode.outer \in Site
         /\ Top.call \in DOMAIN TopNode.calls => TopCall \in Site
         /\ TopNode.kind \in {"golit", "litassign"} =>
              TopNode.lit \in Fn /\ app.pkg[TopNode.lit] = currentPackage
<1>1. stack # << >> /\ Top \in Frame
  BY TopTyped DEF IInv, Walking, Running
<1>2. Top.fn \in Fn /\ Top.pc \in DOMAIN app.body[Top.fn]
  BY <1>1 DEF Walking, Frame
<1>3. TopNode \in Node
  BY <1>2, NodeTyped DEF IInv, TopNode
<1>4. TopNode.outer \in Site
  BY <1>3 DEF Node
<1>5. Top.call \in DOMAIN TopNode.calls => TopCall \in Site
  BY <1>3, CallTyped DEF TopCall
<1>6. TopNode.kind \in {"golit", "litassign"} =>
        TopNode.lit \in Fn /\ app.pkg[TopNode.lit] = currentPackage
  BY <1>1, <1>2, LiteralTyped DEF IInv, TopNode, PackagesLinked, ActivePackage
<1> QED
  BY <1>1, <1>2, <1>3, <1>4, <1>5, <1>6

LEMMA StartPackageStep ==
  ASSUME IInv, NEW p \in Pkg, StartPackage(p)
  PROVE  IInv'
<1>1. /\ stack = << >> /\ stack' = << >> /\ app' = app /\ tracedFuncs' = tracedFuncs
      /\ currentPackage' = p /\ roots' = app.decls[p]
  BY DEF StartPackage, Idle
<1>2. /\ roots' \in Seq(Fn)
      /\ \A i \in DOMAIN roots' : app.pkg[roots'[i]] = p
  BY <1>1, DeclTyped DEF IInv
<1>3. TypeOK'
  BY <1>1, <1>2 DEF IInv, TypeOK, ControlTypeOK, TextTypeOK, ErrorTypeOK,
                    StartPackage, callText, declText, errs
<1>4. DeclarationsAtHome'
  BY <1>1 DEF IInv, DeclarationsAtHome
<1>5. PackagesLinked'
  BY <1>1, <1>2 DEF PackagesLinked, StackLinked, RootsAtHome, ActivePackage
<1> QED
  BY <1>1, <1>3, <1>4, <1>5 DEF IInv

(* The next declaration is taken; a root activation may start for it.      *)
LEMMA RootVisited ==
  ASSUME IInv, stack = << >>, roots # << >>, roots' = Tail(roots),
         NEW k \in {"main", "handler"},
         stack' \in {<< >>, <<NewFrame(Head(roots), k, currentPackage)>>},
         UNCHANGED <<app, currentPackage>>
  PROVE  roots' \in Seq(Fn) /\ stack' \in Seq(Frame) /\ PackagesLinked'
<1> DEFINE u == NewFrame(Head(roots), k, currentPackage)
<1>1. /\ Head(roots) \in Fn /\ roots' \in Seq(Fn)
      /\ app.pkg[Head(roots)] = currentPackage
      /\ \A i \in DOMAIN roots' : app.pkg[roots'[i]] = currentPackage
  <2>1. roots \in Seq(Fn) /\ Len(roots) \in Nat \ {0} /\ DOMAIN roots = 1 .. Len(roots)
    BY DEF IInv, TypeOK, ControlTypeOK
  <2>2. \A i \in DOMAIN roots : app.pkg[roots[i]] = currentPackage
    BY DEF IInv, PackagesLinked, RootsAtHome
  <2>3. /\ roots' \in Seq(Fn) /\ Len(roots') = Len(roots) - 1
        /\ \A i \in 1 .. Len(roots') : roots'[i] = roots[i + 1]
    BY <2>1
  <2>4. Head(roots) = roots[1] /\ 1 \in DOMAIN roots /\ roots[1] \in Fn
    BY <2>1
  <2>5. \A i \in DOMAIN roots' : i \in 1 .. Len(roots') /\ i + 1 \in DOMAIN roots
    BY <2>1, <2>3
  <2> QED
    BY <2>2, <2>3, <2>4, <2>5
<1>2. u \in Frame /\ u.fn = Head(roots) /\ u.kind = k /\ k \notin {"call", "go"}
  BY <1>1, NewFrameTyped DEF IInv, TypeOK, ControlTypeOK, FrameKind
<1>3. CASE stack' = << >>
  BY <1>1, <1>3 DEF PackagesLinked, StackLinked, RootsAtHome, ActivePackage
<1>4. CASE stack' = <<u>>
  <2> HIDE DEF u
  <2>1. /\ stack' \in Seq(Frame) /\ stack' # << >> /\ Len(stack') = 1
        /\ stack'[1] = u /\ Top' = u
    BY <1>2, <1>4 DEF Top
  <2>2. StackLinked'
    BY <2>1 DEF StackLinked
  <2>3. RootsAtHome'
    BY <1>1, <1>2, <2>1 DEF RootsAtHome, RootPackage
  <2>4. ActivePackage'
    BY <1>1, <1>2, <2>1 DEF ActivePackage
  <2> QED
    BY <1>1, <2>1, <2>2, <2>3, <2>4 DEF PackagesLinked
<1> QED
  BY <1>3, <1>4

LEMMA VisitMainStep ==
  ASSUME IInv, VisitMain
  PROVE  IInv'
<1>1. /\ stack = << >> /\ roots # << >> /\ roots' = Tail(roots)
      /\ stack' = <<NewFrame(Head(roots), "main", currentPackage)>>
      /\ UNCHANGED <<app, currentPackage, pending, crashed, tracedFuncs,
                     callText, declText, txnDefs, txnUses, errs>>
      /\ setupFunc' = NotedSetup(Head(roots))
      /\ agentInits' \in {agentInits, agentInits \cup {Head(roots)}}
      /\ importsAdded' \in {importsAdded, importsAdded \cup {currentPackage}}
  BY DEF VisitMain, Idle, AddImport
<1>2. roots' \in Seq(Fn) /\ stack' \in Seq(Frame) /\ PackagesLinked'
  BY <1>1, RootVisited
<1>3. Head(roots) \in Fn
  BY <1>1 DEF IInv, TypeOK, ControlTypeOK
<1>4. ControlTypeOK'
  BY <1>1, <1>2, <1>3 DEF IInv, TypeOK, ControlTypeOK, NotedSetup
<1>5. TextTypeOK' /\ ErrorTypeOK'
  BY <1>1, <1>3 DEF IInv, TypeOK, ControlTypeOK, TextTypeOK, ErrorTypeOK,
                    callText, declText, errs
<1>6. DeclarationsAtHome'
  BY <1>1 DEF IInv, DeclarationsAtHome
<1> QED
  BY <1>1, <1>2, <1>4, <1>5, <1>6 DEF IInv, TypeOK

LEMMA VisitDeclStep ==
  ASSUME IInv, VisitDecl
  PROVE  IInv'
<1>1. /\ stack = << >> /\ roots # << >> /\ roots' = Tail(roots)
      /\ stack' \in {<< >>, <<NewFrame(Head(roots), "handler", currentPackage)>>}
      /\ UNCHANGED <<app, currentPackage, pending, crashed, tracedFuncs, callText,
                     declText, txnDefs, txnUses, agentInits, importsAdded, errs>>
      /\ setupFunc' = NotedSetup(Head(roots))
  BY DEF VisitDecl, Idle
<1>2. roots' \in Seq(Fn) /\ stack' \in Seq(Frame) /\ PackagesLinked'
  BY <1>1, RootVisited
<1>3. Head(roots) \in Fn
  BY <1>1 DEF IInv, TypeOK, ControlTypeOK
<1>4. ControlTypeOK'
  BY <1>1, <1>2, <1>3 DEF IInv, TypeOK, ControlTypeOK, NotedSetup
<1>5. TextTypeOK' /\ ErrorTypeOK'
  BY <1>1 DEF IInv, TypeOK, TextTypeOK, ErrorTypeOK, callText, declText, errs
<1>6. DeclarationsAtHome'
  BY <1>1 DEF IInv, DeclarationsAtHome
<1> QED
  BY <1>1, <1>2, <1>4, <1>5, <1>6 DEF IInv, TypeOK

(* A step of the walk keeps the lookup tables, the roots and the packages  *)
(* still to do.                                                            *)
LEMMA WalkKeeps ==
  ASSUME IInv, UNCHANGED <<app, tracedFuncs, pending, roots, setupFunc>>,
         stack' \in Seq(Frame), currentPackage' \in Pkg, crashed' \in BOOLEAN,
         PackagesLinked', TextTypeOK', ErrorTypeOK'
  PROVE  IInv'
<1>1. ControlTypeOK'
  BY DEF IInv, TypeOK, ControlTypeOK
<1>2. DeclarationsAtHome'
  BY DEF IInv, DeclarationsAtHome
<1> QED
  BY <1>1, <1>2 DEF IInv, TypeOK

(* The top activation moves on, and nothing else of the control state.     *)
LEMMA TopMovesStep ==
  ASSUME IInv, stack # << >>, NEW t \in Frame, Same(t, Top),
         stack' = SetTop(t), UNCHANGED <<app, control, tracedFuncs>>,
         TextTypeOK', ErrorTypeOK'
  PROVE  IInv'
<1>1. stack' \in Seq(Frame) /\ PackagesLinked'
  BY TopMoves DEF IInv
<1> QED
  BY <1>1, WalkKeeps DEF IInv, TypeOK, ControlTypeOK, control

LEMMA BeginFunctionStep ==
  ASSUME IInv, BeginFunction
  PROVE  IInv'
<1> DEFINE param == Top.kind \in {"call", "go", "lit"}
           ctx   == app.param[Top.fn] = "ctx"
           obj   == IF param /\ ctx THEN "ctx" ELSE "txn"
           u     == [Top EXCEPT !.pc = 1, !.obj = obj]
           t     == [u EXCEPT !.txnUsed = param, !.changed = param]
<1>1. stack # << >> /\ Top \in Frame /\ Top.fn \in Fn /\ param \in BOOLEAN
      /\ obj \in {"ctx", "txn"}
  BY TopTyped DEF IInv, BeginFunction, Running, Frame
<1>2. /\ txnParams' \in {txnParams, [txnParams EXCEPT ![Top.fn] = @ + 1]}
      /\ segments' \in {segments, [segments EXCEPT ![Top.fn] = @ + 1]}
      /\ txnUses' \in {txnUses, txnUses \cup {Top.fn}}
      /\ importsAdded' \in {importsAdded, importsAdded \cup {currentPackage}}
      /\ UNCHANGED <<app, control, tracedFuncs, callText, txnDefs, agentInits, errs>>
  BY DEF BeginFunction, AddImport
<1>3. stack' = SetTop(t)
  BY <1>1 DEF BeginFunction, Frame
<1> HIDE DEF param, obj
<1>4. u \in Frame /\ Same(u, Top)
  BY <1>1 DEF Frame, Same
<1> HIDE DEF u
<1>5. t \in Frame /\ Same(t, Top)
  BY <1>1, <1>4 DEF Frame, Same
<1> HIDE DEF t
<1>6. TextTypeOK'
  <2>1. /\ txnParams \in [Fn -> Nat] /\ segments \in [Fn -> Nat]
        /\ TextTypeOK /\ currentPackage \in Pkg
    BY DEF IInv, TypeOK, TextTypeOK, ControlTypeOK, EditCounts
  <2>2. txnParams' \in [Fn -> Nat]
    BY <1>1, <1>2, <2>1
  <2>3. segments' \in [Fn -> Nat]
    BY <1>1, <1>2, <2>1
  <2> QED
    BY <1>1, <1>2, <2>1, <2>2, <2>3 DEF TextTypeOK, callText, EditCounts
<1>7. ErrorTypeOK'
  BY <1>2 DEF IInv, TypeOK, ErrorTypeOK, errs
<1> QED
  BY <1>1, <1>2, <1>3, <1>5, <1>6, <1>7, TopMovesStep

LEMMA SkipGoInMainStep ==
  ASSUME IInv, SkipGoInMain
  PROVE  IInv'
<1>1. stack # << >> /\ Top \in Frame
  BY TopNodeTyped DEF SkipGoInMain
<1>2. NextNode(Top) \in Frame /\ Same(NextNode(Top), Top)
  BY <1>1, NextNodeTyped
<1>3. TextTypeOK' /\ ErrorTypeOK'
  BY DEF SkipGoInMain, IInv, TypeOK, TextTypeOK, ErrorTypeOK, callText, declText, errs
<1> QED
  BY <1>1, <1>2, <1>3, TopMovesStep DEF SkipGoInMain

LEMMA FinishGoStep ==
  ASSUME IInv, FinishGo
  PROVE  IInv'
<1>1. stack # << >> /\ Top \in Frame
  BY TopNodeTyped DEF FinishGo
<1>2. NextNode(Top) \in Frame /\ Same(NextNode(Top), Top)
  BY <1>1, NextNodeTyped
<1>3. TextTypeOK' /\ ErrorTypeOK'
  BY DEF FinishGo, IInv, TypeOK, TextTypeOK, ErrorTypeOK, callText, declText, errs
<1> QED
  BY <1>1, <1>2, <1>3, TopMovesStep DEF FinishGo

LEMMA SkipCallStep ==
  ASSUME IInv, SkipCall
  PROVE  IInv'
<1>1. stack # << >> /\ Top \in Frame
  BY TopNodeTyped DEF SkipCall, Skipped, HasCall
<1>2. NextCall(Top) \in Frame /\ Same(NextCall(Top), Top)
  BY <1>1, NextCallTyped
<1>3. TextTypeOK' /\ ErrorTypeOK'
  BY DEF SkipCall, IInv, TypeOK, TextTypeOK, ErrorTypeOK, callText, declText, errs
<1> QED
  BY <1>1, <1>2, <1>3, TopMovesStep DEF SkipCall

LEMMA TraceGoLiteralStep ==
  ASSUME IInv, TraceGoLiteral
  PROVE  IInv'
<1> DEFINE s == TopNode.outer
           g == TopNode.lit
           u == AfterCall(Top, s, TRUE)
           t == NextNode(u)
<1>1. /\ stack # << >> /\ Top \in Frame /\ s \in Site
      /\ g \in Fn /\ app.pkg[g] = currentPackage
  BY TopNodeTyped DEF TraceGoLiteral
<1>2. t \in Frame /\ Same(t, Top)
  <2>1. u \in Frame /\ Same(u, Top)
    BY <1>1, AfterCallTyped
  <2> HIDE DEF u
  <2> QED
    BY <2>1, NextNodeTyped DEF Same
<1>3. /\ AddToCall(Top, s, TRUE)
      /\ Enter(t, g, "lit", currentPackage)
      /\ UNCHANGED <<app, tracedFuncs, declText, txnDefs, agentInits, errs>>
  BY DEF TraceGoLiteral
<1> HIDE DEF s, t, g
<1>4. /\ stack' \in Seq(Frame) /\ PackagesLinked'
      /\ UNCHANGED <<pending, roots, setupFunc>>
      /\ currentPackage' \in Pkg /\ crashed' \in BOOLEAN
  <2>1. currentPackage \in Pkg /\ "lit" \in FrameKind
    BY DEF IInv, TypeOK, ControlTypeOK, FrameKind
  <2> QED
    BY <1>1, <1>2, <1>3, <2>1, ActivationStarts DEF IInv
<1>5. TextTypeOK' /\ ErrorTypeOK'
  BY <1>1, <1>3, CallEdited
     DEF IInv, TypeOK, TextTypeOK, ErrorTypeOK, declText, errs
<1> QED
  BY <1>3, <1>4, <1>5, WalkKeeps

LEMMA TraceLiteralAssignmentStep ==
  ASSUME IInv, TraceLiteralAssignment
  PROVE  IInv'
<1> DEFINE g == TopNode.lit
           u == [Top EXCEPT !.litVars = @ \cup {g}]
           t == NextNode(u)
<1>1. /\ stack # << >> /\ Top \in Frame
      /\ g \in Fn /\ app.pkg[g] = currentPackage
  BY TopNodeTyped DEF TraceLiteralAssignment
<1>2. t \in Frame /\ Same(t, Top)
  <2>1. u \in Frame /\ Same(u, Top)
    <3> HIDE DEF g
    <3> QED
      BY <1>1 DEF Frame, Same
  <2> HIDE DEF u
  <2> QED
    BY <2>1, NextNodeTyped DEF Same
<1>3. /\ Enter(t, g, "lit", currentPackage)
      /\ UNCHANGED <<app, tracedFuncs, callText, declText, txnDefs, txnUses,
                     agentInits, importsAdded, errs>>
  BY DEF TraceLiteralAssignment
<1> HIDE DEF t, g
<1>4. /\ stack' \in Seq(Frame) /\ PackagesLinked'
      /\ UNCHANGED <<pending, roots, setupFunc>>
      /\ currentPackage' \in Pkg /\ crashed' \in BOOLEAN
  <2>1. currentPackage \in Pkg /\ "lit" \in FrameKind
    BY DEF IInv, TypeOK, ControlTypeOK, FrameKind
  <2> QED
    BY <1>1, <1>2, <1>3, <2>1, ActivationStarts DEF IInv
<1>5. TextTypeOK' /\ ErrorTypeOK'
  BY <1>3 DEF IInv, TypeOK, TextTypeOK, ErrorTypeOK, callText, declText, errs
<1> QED
  BY <1>3, <1>4, <1>5, WalkKeeps

LEMMA TraceGoCallStep ==
  ASSUME IInv, TraceGoCall
  PROVE  IInv'
<1> DEFINE u == AfterCall(Top, TopNode.outer, TRUE)
           t == NextCall(u)
           s == TopCall
<1>1. stack # << >> /\ Top \in Frame /\ TopNode.outer \in Site /\ s \in Site
  BY TopNodeTyped DEF TraceGoCall, HasCall
<1>2. t \in Frame /\ Same(t, Top)
  <2>1. u \in Frame /\ Same(u, Top)
    BY <1>1, AfterCallTyped
  <2> HIDE DEF u
  <2> QED
    BY <2>1, NextCallTyped DEF Same
<1>3. /\ AddToCall(Top, TopNode.outer, TRUE)
      /\ IF ShouldInstrument(s)
         THEN Enter(t, InvDecl(s), "go", app.pkg[app.to[s]])
         ELSE stack' = SetTop(t) /\ UNCHANGED control
      /\ UNCHANGED <<app, tracedFuncs, declText, txnDefs, agentInits, errs>>
  BY DEF TraceGoCall
<1> HIDE DEF t, s
<1>4. TextTypeOK' /\ ErrorTypeOK'
  BY <1>1, <1>3, CallEdited
     DEF IInv, TypeOK, TextTypeOK, ErrorTypeOK, declText, errs
<1>5. CASE ShouldInstrument(s)
  <2>1. /\ InvDecl(s) \in Fn /\ app.pkg[app.to[s]] \in Pkg
        /\ app.pkg[InvDecl(s)] = app.pkg[app.to[s]]
    BY <1>1, <1>5, ResolvedHome
  <2>2. /\ stack' \in Seq(Frame) /\ PackagesLinked'
        /\ UNCHANGED <<pending, roots, setupFunc>>
        /\ currentPackage' \in Pkg /\ crashed' \in BOOLEAN
    <3>1. "go" \in FrameKind
      BY DEF FrameKind
    <3>2. Enter(t, InvDecl(s), "go", app.pkg[app.to[s]])
      BY <1>3, <1>5
    <3> QED
      BY <1>1, <1>2, <1>3, <2>1, <3>1, <3>2, ActivationStarts DEF IInv
  <2> QED
    BY <1>3, <1>4, <2>2, WalkKeeps
<1>6. CASE ~ShouldInstrument(s)
  BY <1>1, <1>2, <1>3, <1>4, <1>6, TopMovesStep
<1> QED
  BY <1>5, <1>6

LEMMA TraceCallStep ==
  ASSUME IInv, TraceCall
  PROVE  IInv'
<1> DEFINE u == AfterCall(Top, TopCall, FALSE)
           v == NextCall(u)
           w == v.definedTxn \/ Wraps(Top)
           t == [v EXCEPT !.started = TRUE, !.definedTxn = w]
           d == [t EXCEPT !.down = TRUE]
           s == TopCall
<1>1. stack # << >> /\ Top \in Frame /\ Top.fn \in Fn /\ s \in Site
  BY TopNodeTyped DEF TraceCall, HasCall
<1>2. t \in Frame /\ Same(t, Top) /\ d \in Frame /\ Same(d, Top)
  <2>1. u \in Frame /\ Same(u, Top)
    BY <1>1, AfterCallTyped
  <2> HIDE DEF u
  <2>2. v \in Frame /\ Same(v, Top)
    BY <2>1, NextCallTyped DEF Same
  <2> HIDE DEF v
  <2>3. w \in BOOLEAN
    OBVIOUS
  <2> HIDE DEF w
  <2>4. t \in Frame /\ Same(t, Top)
    BY <2>2, <2>3 DEF Frame, Same
  <2> HIDE DEF t
  <2> QED
    BY <2>4 DEF Frame, Same
<1>3. /\ AddToCall(Top, s, FALSE)
      /\ txnDefs' \in {txnDefs, [txnDefs EXCEPT ![Top.fn] = @ + 1]}
      /\ UNCHANGED <<app, tracedFuncs, declText, agentInits, errs>>
  BY DEF TraceCall
<1>4. IF ShouldInstrument(s)
      THEN Enter(d, InvDecl(s), "call", app.pkg[app.to[s]])
      ELSE stack' = SetTop(t) /\ UNCHANGED control
  <2>1. v \in Frame
    BY <1>1, AfterCallTyped, NextCallTyped
  <2>2. t = [v EXCEPT !.started = TRUE, !.definedTxn = @ \/ Wraps(Top)]
    <3> HIDE DEF v
    <3> QED
      BY <2>1 DEF Frame
  <2> QED
    BY <2>2 DEF TraceCall
<1> HIDE DEF t, s, d
<1>5. TextTypeOK' /\ ErrorTypeOK'
  <2>1. txnDefs \in [Fn -> Nat]
    BY DEF IInv, TypeOK, TextTypeOK, EditCounts
  <2>2. txnDefs' \in [Fn -> Nat]
    BY <1>1, <1>3, <2>1
  <2> QED
    BY <1>1, <1>3, <2>2, CallEdited
       DEF IInv, TypeOK, TextTypeOK, ErrorTypeOK, EditCounts, declText, errs
<1>6. CASE ShouldInstrument(s)
  <2>1. /\ InvDecl(s) \in Fn /\ app.pkg[app.to[s]] \in Pkg
        /\ app.pkg[InvDecl(s)] = app.pkg[app.to[s]]
    BY <1>1, <1>6, ResolvedHome
  <2>2. /\ stack' \in Seq(Frame) /\ PackagesLinked'
        /\ UNCHANGED <<pending, roots, setupFunc>>
        /\ currentPackage' \in Pkg /\ crashed' \in BOOLEAN
    <3>1. "call" \in FrameKind
      BY DEF FrameKind
    <3>2. Enter(d, InvDecl(s), "call", app.pkg[app.to[s]])
      BY <1>4, <1>6
    <3> QED
      BY <1>1, <1>2, <1>3, <2>1, <3>1, <3>2, ActivationStarts DEF IInv
  <2> QED
    BY <1>3, <1>5, <2>2, WalkKeeps
<1>7. CASE ~ShouldInstrument(s)
  BY <1>1, <1>2, <1>3, <1>4, <1>5, <1>7, TopMovesStep
<1> QED
  BY <1>6, <1>7

LEMMA FinishStatementStep ==
  ASSUME IInv, FinishStatement
  PROVE  IInv'
<1> DEFINE e    == NoticeError(Top, TopNode)
           http == TopNode.http /\ TopNode.listed
           used == Top.txnUsed \/ http \/ e.hit
           chgd == Top.changed \/ http \/ SaysChanged(TopNode, e)
           u    == [Top EXCEPT !.txnUsed = used, !.changed = chgd]
           t    == NextNode(u)
<1>1. /\ stack # << >> /\ Top \in Frame /\ Top.fn \in Fn /\ TopNode \in Node
  BY TopNodeTyped DEF FinishStatement
<1>2. u \in Frame /\ Same(u, Top)
  <2>1. used \in BOOLEAN /\ chgd \in BOOLEAN
    OBVIOUS
  <2> HIDE DEF used, chgd
  <2> QED
    BY <1>1, <2>1 DEF Frame, Same
<1>3. t \in Frame /\ Same(t, Top)
  <2> HIDE DEF u
  <2> QED
    BY <1>2, NextNodeTyped DEF Same
<1>4. stack' = SetTop(t)
  <2>1. u = [Top EXCEPT !.txnUsed = @ \/ http \/ e.hit,
                        !.changed = @ \/ http \/ SaysChanged(TopNode, e)]
    <3> HIDE DEF e, http
    <3> QED
      BY <1>1 DEF Frame
  <2> QED
    BY <2>1 DEF FinishStatement
<1>5. /\ SetErrors(e)
      /\ txnUses' \in {txnUses, txnUses \cup {Top.fn}}
      /\ importsAdded' \in {importsAdded, importsAdded \cup {currentPackage}}
      /\ UNCHANGED <<app, control, tracedFuncs, callText, declText, txnDefs,
                     agentInits>>
  BY DEF FinishStatement, AddImport
<1>6. ErrorTypeOK'
  BY <1>1, <1>5, NoticeErrorTyped, ErrorsSet DEF IInv
<1>7. TextTypeOK'
  BY <1>1, <1>5 DEF IInv, TypeOK, TextTypeOK, ControlTypeOK, callText, declText
<1> QED
  BY <1>1, <1>3, <1>4, <1>5, <1>6, <1>7, TopMovesStep

(* The mark goes to the package of the function that was walked.           *)
LEMMA DeclarationMarked ==
  ASSUME IInv, NEW f \in Fn, currentPackage = app.pkg[f], app' = app,
         tracedFuncs' \in {tracedFuncs, UpdateFunctionDeclaration(f)}
  PROVE  /\ tracedFuncs' \in
              [Pkg -> [Name -> [body : Fn \cup {NoFn}, traced : BOOLEAN]]]
         /\ DeclarationsAtHome'
<1> DEFINE Entries == [body : Fn \cup {NoFn}, traced : BOOLEAN]
           m == [body |-> f, traced |-> TRUE]
           q == currentPackage
           b == app.name[f]
<1>1. tracedFuncs \in [Pkg -> [Name -> Entries]] /\ m \in Entries
  BY DEF IInv, TypeOK, ControlTypeOK
<1>2. q \in Pkg /\ b \in Name /\ app.pkg[f] = q
  BY AppTyped DEF IInv, AppType, TypeOK, ControlTypeOK
<1>3. m.body = f
  OBVIOUS
<1>4. tracedFuncs' \in {tracedFuncs, [tracedFuncs EXCEPT ![q][b] = m]}
  BY DEF UpdateFunctionDeclaration
<1> HIDE DEF Entries, m, q, b
<1>5. tracedFuncs' \in [Pkg -> [Name -> Entries]]
  BY <1>1, <1>2, <1>4
<1>6. \A p \in Pkg, n \in Name :
        tracedFuncs'[p][n] \in {tracedFuncs[p][n], IF p = q THEN m ELSE tracedFuncs[p][n]}
  BY <1>1, <1>2, <1>4
<1>7. DeclarationsAtHome'
  <2> SUFFICES ASSUME NEW p \in Pkg, NEW n \in Name
               PROVE  tracedFuncs'[p][n].body # NoFn =>
                        app.pkg[tracedFuncs'[p][n].body] = p
    BY DEF DeclarationsAtHome
  <2>1. CASE tracedFuncs'[p][n] = tracedFuncs[p][n]
    BY <2>1 DEF IInv, DeclarationsAtHome
  <2>2. CASE p = q /\ tracedFuncs'[p][n] = m
    BY <2>2, <1>2, <1>3
  <2> QED
    BY <2>1, <2>2, <1>6
<1> QED
  BY <1>5, <1>7 DEF Entries

(* What is below the top activation becomes the stack.                     *)
LEMMA TopEnds ==
  ASSUME IInv, stack # << >>,
         stack' = SubSeq(stack, 1, Len(stack) - 1),
         currentPackage' = RestoredPackage(Top),
         UNCHANGED <<app, roots>>
  PROVE  stack' \in Seq(Frame) /\ currentPackage' \in Pkg /\ PackagesLinked'
<1> DEFINE n == Len(stack) - 1
<1>1. /\ Len(stack) = n + 1 /\ n \in Nat
      /\ Top = stack[n + 1] /\ Top \in Frame
      /\ stack \in Seq(Frame) /\ StackLinked /\ RootsAtHome
      /\ currentPackage \in Pkg /\ currentPackage = app.pkg[Top.fn]
  BY TopTyped DEF IInv, Top, TypeOK, ControlTypeOK, PackagesLinked, ActivePackage
<1>2. currentPackage' = RootPackage(Top) /\ currentPackage' \in Pkg
  BY <1>1 DEF RestoredPackage, RootPackage, Frame
<1> HIDE DEF n
<1>3. /\ stack' \in Seq(Frame) /\ Len(stack') = n
      /\ \A i \in 1 .. n : stack'[i] = stack[i]
  BY <1>1
<1>4. StackLinked'
  <2> SUFFICES ASSUME NEW i \in 1 .. n - 1
               PROVE  RootPackage(stack[i + 1])' = app.pkg[stack'[i].fn]
    BY <1>3 DEF StackLinked
  <2>1. i \in 1 .. Len(stack) - 1 /\ i \in 1 .. n /\ i + 1 \in 1 .. n
    BY <1>1
  <2>2. RootPackage(stack[i + 1]) = app.pkg[stack[i].fn]
    BY <1>1, <2>1 DEF StackLinked
  <2> QED
    BY <1>3, <2>1, <2>2 DEF RootPackage
<1>5. CASE n = 0
  <2>1. stack' = << >> /\ Top = stack[1]
    BY <1>1, <1>3, <1>5
  <2>2. RootsAtHome'
    BY <1>1, <1>2, <2>1 DEF RootsAtHome
  <2> QED
    BY <1>2, <1>3, <1>4, <2>1, <2>2 DEF PackagesLinked, ActivePackage
<1>6. CASE n # 0
  <2>1. /\ n \in 1 .. n /\ 1 \in 1 .. n /\ n \in 1 .. Len(stack) - 1
        /\ stack' # << >> /\ Top' = stack[n] /\ stack'[1] = stack[1]
    BY <1>1, <1>3, <1>6 DEF Top
  <2>2. RootsAtHome'
    BY <1>1, <2>1 DEF RootsAtHome, RootPackage
  <2>3. RootPackage(stack[n + 1]) = app.pkg[stack[n].fn]
    BY <1>1, <2>1 DEF StackLinked
  <2>4. ActivePackage'
    BY <1>1, <1>2, <2>1, <2>3 DEF ActivePackage
  <2> QED
    BY <1>2, <1>3, <1>4, <2>2, <2>4 DEF PackagesLinked
<1> QED
  BY <1>5, <1>6

LEMMA EndFunctionStep ==
  ASSUME IInv, EndFunction
  PROVE  IInv'
<1>1. /\ stack # << >> /\ Top \in Frame /\ Top.fn \in Fn
      /\ currentPackage = app.pkg[Top.fn]
  BY TopTyped DEF EndFunction, Running, IInv, PackagesLinked, ActivePackage, Frame
<1>2. /\ txnDefs' \in {txnDefs, [txnDefs EXCEPT ![Top.fn] = @ + 1]}
      /\ tracedFuncs' \in {tracedFuncs, UpdateFunctionDeclaration(Top.fn)}
      /\ txnUses' \in {txnUses, txnUses \cup {Top.fn}}
      /\ currentPackage' = RestoredPackage(Top)
      /\ stack' = SubSeq(stack, 1, Len(stack) - 1)
      /\ SetErrors(ReportedError)
      /\ UNCHANGED <<app, pending, roots, setupFunc, crashed, callText, declText,
                     agentInits, importsAdded>>
  BY DEF EndFunction
<1>3. /\ stack' \in Seq(Frame) /\ currentPackage' \in Pkg /\ PackagesLinked'
  BY <1>1, <1>2, TopEnds
<1>4. /\ tracedFuncs' \in
           [Pkg -> [Name -> [body : Fn \cup {NoFn}, traced : BOOLEAN]]]
      /\ DeclarationsAtHome'
  BY <1>1, <1>2, DeclarationMarked
<1>5. ControlTypeOK'
  BY <1>2, <1>3, <1>4 DEF IInv, TypeOK, ControlTypeOK
<1>6. TextTypeOK'
  <2>1. txnDefs \in [Fn -> Nat]
    BY DEF IInv, TypeOK, TextTypeOK, EditCounts
  <2>2. txnDefs' \in [Fn -> Nat]
    BY <1>1, <1>2, <2>1
  <2> QED
    BY <1>1, <1>2, <2>2
       DEF IInv, TypeOK, TextTypeOK, EditCounts, callText, declText
<1>7. ErrorTypeOK'
  <2>1. ErrNow.unchecked = unchecked /\ ErrNow \in ErrState
    BY ErrNowTyped DEF IInv, ErrNow
  <2> DEFINE u == unchecked \cup ({errorCache} \ {NoErr})
  <2>2. u \subseteq CachedError
    BY DEF IInv, TypeOK, ErrorTypeOK
  <2>3. ReportedError = [ErrNow EXCEPT !.cache = NoErr, !.unchecked = u]
    BY <2>1 DEF ReportedError, ErrState
  <2> HIDE DEF u
  <2>4. ReportedError \in ErrState
    BY <2>1, <2>2, <2>3 DEF ErrState
  <2> QED
    BY <1>2, <2>4, ErrorsSet
<1> QED
  BY <1>2, <1>3, <1>4, <1>5, <1>6, <1>7 DEF IInv, TypeOK

LEMMA StutterStep ==
  ASSUME IInv, UNCHANGED vars
  PROVE  IInv'
<1>1. TypeOK'
  BY DEF IInv, vars, control, callText, declText, errs, TypeOK, ControlTypeOK,
         TextTypeOK, ErrorTypeOK
<1>2. DeclarationsAtHome' /\ PackagesLinked'
  BY DEF IInv, vars, control, DeclarationsAtHome, PackagesLinked, StackLinked,
         RootsAtHome, ActivePackage, RootPackage, Top
<1> QED
  BY <1>1, <1>2 DEF IInv, vars

LEMMA Initially ==
  ASSUME Init
  PROVE  IInv
<1>1. app \in Apps /\ stack = << >> /\ roots = << >>
  BY DEF Init
<1>2. tracedFuncs = [p \in Pkg |-> [n \in Name |-> StoredDecl(app, p, n)]]
  BY DEF Init
<1>3. tracedFuncs \in [Pkg -> [Name -> [body : Fn \cup {NoFn}, traced : BOOLEAN]]]
  BY <1>1, <1>2, StoredDeclHome
<1>4. DeclarationsAtHome
  BY <1>1, <1>2, StoredDeclHome DEF DeclarationsAtHome
<1>5. PackagesLinked
  BY <1>1 DEF PackagesLinked, StackLinked, RootsAtHome, ActivePackage
<1>6. ControlTypeOK
  <2>1. /\ pending = Pkg /\ currentPackage \in Pkg /\ setupFunc = NoFn
        /\ crashed = FALSE
    BY DEF Init
  <2>2. stack \in Seq(Frame) /\ roots \in Seq(Fn)
    BY <1>1
  <2> QED
    BY <1>3, <2>1, <2>2 DEF ControlTypeOK
<1>7. TextTypeOK
  BY DEF Init, TextTypeOK, EditCounts
<1>8. ErrorTypeOK
  BY DEF Init, ErrorTypeOK
<1> QED
  BY <1>1, <1>4, <1>5, <1>6, <1>7, <1>8 DEF IInv, TypeOK

LEMMA Inductive == IInv /\ [Next]_vars => IInv'
<1> SUFFICES ASSUME IInv, [Next]_vars PROVE IInv'
  OBVIOUS
<1>1. ASSUME NEW p \in Pkg, StartPackage(p) PROVE IInv'
  BY <1>1, StartPackageStep
<1>2. CASE VisitMain
  BY <1>2, VisitMainStep
<1>3. CASE VisitDecl
  BY <1>3, VisitDeclStep
<1>4. CASE Walk
  BY <1>4, BeginFunctionStep, SkipGoInMainStep, TraceGoLiteralStep,
     TraceLiteralAssignmentStep, TraceGoCallStep, SkipCallStep, TraceCallStep,
     FinishStatementStep, FinishGoStep, EndFunctionStep DEF Walk
<1>5. CASE Halt \/ UNCHANGED vars
  BY <1>5, StutterStep DEF Halt
<1> QED
  BY <1>1, <1>2, <1>3, <1>4, <1>5 DEF Next

-----------------------------------------------------------------------------
(* The theorems.                                                           *)

(* The inductive invariant holds in every state of every pass.             *)
THEOREM Invariant == Spec => []IInv
<1>1. Init => IInv
  BY Initially
<1>2. IInv /\ [Next]_vars => IInv'
  BY Inductive
<1> QED
  BY <1>1, <1>2, PTL DEF Spec

(* Every variable keeps to what the code can store in it: for every        *)
(* application, TraceFunction is never started for a nil declaration and   *)
(* no lookup leaves the tables.                                            *)
THEOREM TypeCorrect == Spec => []TypeOK
<1>1. IInv => TypeOK
  BY DEF IInv
<1> QED
  BY <1>1, Invariant, PTL

(* manager.currentPackage is the package of the function being walked, for *)
(* every application and every depth of recursion: setPackage before the   *)
(* call and setPackage(rootPkg) after it are enough.                       *)
THEOREM ActivePackageHolds == Spec => []ActivePackage
<1>1. IInv => ActivePackage
  BY DEF IInv, PackagesLinked
<1> QED
  BY <1>1, Invariant, PTL

(* The agent's import is recorded for the package of every function that   *)
(* got a parameter or a segment: the edits are made in the current         *)
(* package, which is the function's own, and no entry is ever dropped.     *)
LEMMA ImportsKept ==
  ASSUME IInv, ImportsRecorded, [Next]_vars
  PROVE  ImportsRecorded'
<1>1. CASE BeginFunction
  <2>1. /\ Top.fn \in Fn /\ app' = app /\ currentPackage = app.pkg[Top.fn]
    BY <1>1, TopTyped
       DEF BeginFunction, Running, IInv, PackagesLinked, ActivePackage, Frame
  <2>2. CASE Top.kind \in {"call", "go", "lit"}
    <3>1. /\ importsAdded' = importsAdded \cup {app.pkg[Top.fn]}
          /\ \A f \in Fn \ {Top.fn} : /\ txnParams'[f] = txnParams[f]
                                       /\ segments'[f] = segments[f]
      BY <1>1, <2>1, <2>2
         DEF BeginFunction, AddImport, IInv, TypeOK, TextTypeOK, EditCounts
    <3> QED
      BY <2>1, <3>1 DEF ImportsRecorded
  <2>3. CASE Top.kind \notin {"call", "go", "lit"}
    BY <1>1, <2>1, <2>3 DEF BeginFunction, ImportsRecorded
  <2> QED
    BY <2>2, <2>3
<1>2. CASE UNCHANGED vars
  BY <1>2 DEF vars, declText, ImportsRecorded
<1>3. CASE [Next]_vars /\ ~BeginFunction /\ ~UNCHANGED vars
  <2>1. UNCHANGED <<app, declText>> /\ importsAdded \subseteq importsAdded'
    <3>1. ASSUME NEW p \in Pkg, StartPackage(p)
          PROVE  UNCHANGED <<app, declText>> /\ importsAdded \subseteq importsAdded'
      BY <3>1 DEF StartPackage
    <3>2. CASE VisitMain
      BY <3>2 DEF VisitMain, AddImport
    <3>3. CASE VisitDecl
      BY <3>3 DEF VisitDecl
    <3>4. CASE SkipGoInMain \/ TraceLiteralAssignment \/ SkipCall \/ FinishGo \/ EndFunction
      BY <3>4 DEF SkipGoInMain, TraceLiteralAssignment, SkipCall, FinishGo, EndFunction
    <3>5. CASE TraceGoLiteral
      BY <3>5 DEF TraceGoLiteral, AddToCall, AddImport
    <3>6. CASE TraceGoCall
      BY <3>6 DEF TraceGoCall, AddToCall, AddImport
    <3>7. CASE TraceCall
      BY <3>7 DEF TraceCall, AddToCall, AddImport
    <3>8. CASE FinishStatement
      BY <3>8 DEF FinishStatement, AddImport
    <3> QED
      BY <1>3, <3>1, <3>2, <3>3, <3>4, <3>5, <3>6, <3>7, <3>8 DEF Next, Walk, Halt
  <2> QED
    BY <2>1 DEF declText, ImportsRecorded
<1> QED
  BY <1>1, <1>2, <1>3

(* A package whose functions got a parameter or a segment has the agent in *)
(* importsAdded when the instrumented files are written (AddImport), for   *)
(* every application: currentPackage is right wherever an edit is made.    *)
THEOREM ImportsRecordedHolds == Spec => []ImportsRecorded
<1>1. Init => ImportsRecorded
  BY DEF Init, ImportsRecorded
<1>2. IInv /\ ImportsRecorded /\ [Next]_vars => ImportsRecorded'
  BY ImportsKept
<1> QED
  BY <1>1, <1>2, Invariant, PTL DEF Spec

-----------------------------------------------------------------------------
(* The stack.                                                              *)

LEMMA TopReplaced ==
  ASSUME TypeOK, stack # << >>, NEW u \in Frame, stack' = SetTop(u)
  PROVE  /\ DOMAIN stack = 1 .. Len(stack) /\ Len(stack) \in Nat \ {0}
         /\ Len(stack') = Len(stack) /\ DOMAIN stack' = DOMAIN stack
         /\ Len(stack) \in DOMAIN stack
         /\ stack' # << >> /\ Top' = u
         /\ \A k \in DOMAIN stack :
              stack'[k] = IF k = Len(stack) THEN u ELSE stack[k]
<1>1. stack \in Seq(Frame) /\ Len(stack) \in Nat \ {0}
  BY TopTyped DEF TypeOK, ControlTypeOK
<1>2. DOMAIN stack = 1 .. Len(stack)
  BY <1>1
<1>3. /\ Len(stack') = Len(stack) /\ DOMAIN stack' = DOMAIN stack
      /\ \A k \in DOMAIN stack :
           stack'[k] = IF k = Len(stack) THEN u ELSE stack[k]
  BY <1>1, <1>2 DEF SetTop
<1>4. Len(stack) \in DOMAIN stack /\ stack' # << >>
  BY <1>1, <1>2, <1>3
<1> QED
  BY <1>1, <1>2, <1>3, <1>4 DEF Top

LEMMA TopPushed ==
  ASSUME TypeOK, stack # << >>, NEW u \in Frame, NEW v \in Frame,
         stack' = Append(SetTop(u), v)
  PROVE  /\ DOMAIN stack = 1 .. Len(stack) /\ Len(stack) \in Nat \ {0}
         /\ Len(stack') = Len(stack) + 1
         /\ DOMAIN stack' = 1 .. Len(stack) + 1
         /\ stack' # << >> /\ Top' = v
         /\ stack'[Len(stack) + 1] = v
         /\ \A k \in DOMAIN stack :
              stack'[k] = IF k = Len(stack) THEN u ELSE stack[k]
<1>1. stack \in Seq(Frame) /\ Len(stack) \in Nat \ {0}
  BY TopTyped DEF TypeOK, ControlTypeOK
<1>2. DOMAIN stack = 1 .. Len(stack)
  BY <1>1
<1> DEFINE s == SetTop(u)
<1>3. /\ s \in Seq(Frame) /\ Len(s) = Len(stack)
      /\ \A k \in DOMAIN stack :
           s[k] = IF k = Len(stack) THEN u ELSE stack[k]
  BY <1>1, <1>2 DEF SetTop
<1> HIDE DEF s
<1>4. /\ Len(stack') = Len(stack) + 1 /\ DOMAIN stack' = 1 .. Len(stack) + 1
      /\ stack'[Len(stack) + 1] = v
      /\ \A k \in 1 .. Len(stack) : stack'[k] = s[k]
      /\ stack' # << >>
  BY <1>1, <1>3 DEF s
<1> QED
  BY <1>1, <1>2, <1>3, <1>4 DEF Top

LEMMA TopPopped ==
  ASSUME TypeOK, stack # << >>, stack' = SubSeq(stack, 1, Len(stack) - 1)
  PROVE  /\ DOMAIN stack = 1 .. Len(stack) /\ Len(stack) \in Nat \ {0}
         /\ Len(stack') = Len(stack) - 1
         /\ DOMAIN stack' = 1 .. Len(stack) - 1
         /\ Len(stack) \in DOMAIN stack
         /\ \A k \in DOMAIN stack' : k \in DOMAIN stack /\ stack'[k] = stack[k]
<1>1. stack \in Seq(Frame) /\ Len(stack) \in Nat \ {0}
  BY TopTyped DEF TypeOK, ControlTypeOK
<1>2. DOMAIN stack = 1 .. Len(stack)
  BY <1>1
<1> DEFINE n == Len(stack) - 1
<1>3. n \in Nat /\ Len(stack) = n + 1
  BY <1>1
<1> HIDE DEF n
<1>4. stack' = SubSeq(stack, 1, n)
  BY DEF n
<1>5. /\ Len(stack') = n /\ DOMAIN stack' = 1 .. n
      /\ \A k \in 1 .. n : stack'[k] = stack[k]
  BY <1>1, <1>3, <1>4
<1> QED
  BY <1>1, <1>2, <1>3, <1>5

-----------------------------------------------------------------------------
(* The steps of a walk, in what they have in common.                       *)

(* u is the activation t, further on.                                      *)
Continues(u, t) ==
  /\ u \in Frame /\ Same(u, t) /\ u.obj = t.obj
  /\ u.pc \in {t.pc, t.pc + 1}
  /\ t.txnUsed => u.txnUsed
  /\ t.changed => u.changed

LEMMA ContinuesOn ==
  ASSUME NEW t \in Frame, NEW u, NEW v, Continues(u, t), Continues(v, u),
         u.pc = t.pc
  PROVE  Continues(v, t)
BY DEF Continues, Same

LEMMA NextNodeContinues ==
  ASSUME NEW t \in Frame
  PROVE  /\ Continues(NextNode(t), t) /\ NextNode(t).pc = t.pc + 1
         /\ NextNode(t).definedTxn = t.definedTxn
         /\ NextNode(t).litVars = t.litVars /\ NextNode(t).call = 1
<1>1. NextNode(t) \in Frame /\ Same(NextNode(t), t)
  BY NextNodeTyped
<1>2. /\ NextNode(t).pc = t.pc + 1 /\ NextNode(t).obj = t.obj
      /\ NextNode(t).txnUsed = t.txnUsed /\ NextNode(t).changed = t.changed
      /\ NextNode(t).definedTxn = t.definedTxn
      /\ NextNode(t).litVars = t.litVars /\ NextNode(t).call = 1
  BY DEF NextNode, Frame
<1> QED
  BY <1>1, <1>2 DEF Continues

LEMMA NextCallContinues ==
  ASSUME NEW t \in Frame
  PROVE  /\ Continues(NextCall(t), t) /\ NextCall(t).pc = t.pc
         /\ NextCall(t).definedTxn = t.definedTxn
         /\ NextCall(t).litVars = t.litVars /\ NextCall(t).call = t.call + 1
<1>1. NextCall(t) \in Frame /\ Same(NextCall(t), t)
  BY NextCallTyped
<1>2. /\ NextCall(t).pc = t.pc /\ NextCall(t).obj = t.obj
      /\ NextCall(t).txnUsed = t.txnUsed /\ NextCall(t).changed = t.changed
      /\ NextCall(t).definedTxn = t.definedTxn
      /\ NextCall(t).litVars = t.litVars /\ NextCall(t).call = t.call + 1
  BY DEF NextCall, Frame
<1> QED
  BY <1>1, <1>2 DEF Continues

LEMMA AfterCallContinues ==
  ASSUME NEW t \in Frame, NEW s, NEW async
  PROVE  /\ Continues(AfterCall(t, s, async), t) /\ AfterCall(t, s, async).pc = t.pc
         /\ AfterCall(t, s, async).definedTxn = t.definedTxn
         /\ AfterCall(t, s, async).litVars = t.litVars
         /\ AfterCall(t, s, async).changed
         /\ HandOver(t.obj, s, async) # "pass" => AfterCall(t, s, async).txnUsed
<1> DEFINE u == AfterCall(t, s, async)
<1>1. u \in Frame /\ Same(u, t)
  BY AfterCallTyped
<1>2. /\ u.pc = t.pc /\ u.obj = t.obj
      /\ u.txnUsed = (t.txnUsed \/ HandOver(t.obj, s, async) # "pass")
      /\ u.changed = TRUE /\ u.definedTxn = t.definedTxn
      /\ u.litVars = t.litVars
  BY DEF AfterCall, Frame
<1> QED
  BY <1>1, <1>2, Zenon DEF Continues

LEMMA AfterCallStays ==
  ASSUME NEW t \in Frame, NEW s, NEW async
  PROVE  AfterCall(t, s, async).call = t.call
BY DEF AfterCall, Frame

(* The top activation is done with its node, or with one call of it.       *)
LeftAlone == Top.kind = "main" /\ TopNode.kind \in {"go", "golit"}
AtNext(u) == u.pc = Top.pc + 1 /\ u.call = 1
AtNextCall(u) == /\ Top.call \in DOMAIN TopNode.calls
                 /\ u.pc = Top.pc /\ u.call = Top.call + 1

PassesNode(u) ==
  /\ AtNext(u)
  /\ LeftAlone \/ (~HoldsLiteral(TopNode) /\ Top.call \notin DOMAIN TopNode.calls)

PassesCall(u) ==
  /\ AtNextCall(u) /\ ~HoldsLiteral(TopNode)
  /\ ~ShouldInstrument(TopCall) \/ (IsStmt /\ Excluded(TopCall))

(* g starts at a node of the top activation, which is left as u.           *)
Begins(u, g, k) ==
  \/ /\ k = "lit" /\ HoldsLiteral(TopNode) /\ g = TopNode.lit
     /\ AtNext(u) /\ ~LeftAlone
  \/ /\ AtNextCall(u) /\ ShouldInstrument(TopCall) /\ g = InvDecl(TopCall)
     /\ \/ k = "call" /\ IsStmt /\ ~Excluded(TopCall)
        \/ k = "go" /\ TopNode.kind = "go" /\ Top.kind # "main"

StackStep(u) ==
  \/ stack' = SetTop(u) /\ (PassesNode(u) \/ PassesCall(u))
  \/ stack' = stack /\ crashed'
  \/ \E g \in Fn, k \in FrameKind :
       Begins(u, g, k) /\ stack' = Append(SetTop(u), NewFrame(g, k, currentPackage))

DefsStep(u) ==
  \/ txnDefs' = txnDefs /\ u.definedTxn = Top.definedTxn
  \/ /\ Top.kind = "main" /\ ~Top.definedTxn /\ u.definedTxn
     /\ txnDefs' = [txnDefs EXCEPT ![Top.fn] = @ + 1]

ErrorStep(u) ==
  \/ UNCHANGED errs /\ (u.pc = Top.pc \/ ~IsStmt)
  \/ /\ stack' = SetTop(u) /\ u.pc = Top.pc + 1
     /\ SetErrors(NoticeError(Top, TopNode))

WalkStep(u) ==
  /\ Walking
  /\ Continues(u, Top)
  /\ UNCHANGED <<app, tracedFuncs, pending, roots, setupFunc, declText, agentInits>>
  /\ StackStep(u) /\ DefsStep(u) /\ ErrorStep(u)

LEMMA SkipGoInMainWalks ==
  ASSUME IInv, SkipGoInMain
  PROVE  WalkStep(NextNode(Top))
<1>1. Walking /\ Top \in Frame
  BY TopNodeTyped DEF SkipGoInMain
<1>2. PassesNode(NextNode(Top))
  BY <1>1, NextNodeContinues DEF SkipGoInMain, PassesNode, AtNext, LeftAlone
<1> QED
  BY <1>1, <1>2, NextNodeContinues
     DEF SkipGoInMain, WalkStep, StackStep, DefsStep, ErrorStep, control, IsStmt

LEMMA FinishGoWalks ==
  ASSUME IInv, FinishGo
  PROVE  WalkStep(NextNode(Top))
<1>1. Walking /\ Top \in Frame
  BY TopNodeTyped DEF FinishGo
<1>2. PassesNode(NextNode(Top))
  BY <1>1, NextNodeContinues DEF FinishGo, PassesNode, AtNext, HoldsLiteral
<1> QED
  BY <1>1, <1>2, NextNodeContinues
     DEF FinishGo, WalkStep, StackStep, DefsStep, ErrorStep, control, IsStmt

LEMMA SkipCallWalks ==
  ASSUME IInv, SkipCall
  PROVE  WalkStep(NextCall(Top))
<1>1. Walking /\ Top \in Frame
  BY TopNodeTyped DEF SkipCall, Skipped, HasCall
<1>2. ~IsInvocation(Top, TopCall) => ~ShouldInstrument(TopCall)
  BY DEF IsInvocation, ShouldInstrument, InvDecl
<1>3. PassesCall(NextCall(Top))
  BY <1>1, <1>2, NextCallContinues
     DEF SkipCall, Skipped, HasCall, PassesCall, AtNextCall, IsStmt, HoldsLiteral
<1> QED
  BY <1>1, <1>3, NextCallContinues
     DEF SkipCall, WalkStep, StackStep, DefsStep, ErrorStep, control

LEMMA Entered ==
  ASSUME NEW u, NEW g \in Fn, NEW k \in FrameKind, NEW p,
         Enter(u, g, k, p), Begins(u, g, k)
  PROVE  StackStep(u) /\ UNCHANGED <<pending, roots, setupFunc>>
BY DEF Enter, StackStep

LEMMA TraceGoLiteralWalks ==
  ASSUME IInv, TraceGoLiteral
  PROVE  WalkStep(NextNode(AfterCall(Top, TopNode.outer, TRUE)))
<1> DEFINE s == TopNode.outer
           u == AfterCall(Top, s, TRUE)
           t == NextNode(u)
<1>1. Walking /\ Top \in Frame /\ TopNode.kind = "golit" /\ TopNode.lit \in Fn
  BY TopNodeTyped DEF TraceGoLiteral
<1>10. Top.kind # "main"
  BY DEF TraceGoLiteral
<1>2. /\ Continues(u, Top) /\ u.pc = Top.pc /\ u.definedTxn = Top.definedTxn
      /\ u \in Frame
  <2>1. u.definedTxn = Top.definedTxn
    BY <1>1, AfterCallContinues, ZenonT(60)
  <2>2. Continues(u, Top) /\ u.pc = Top.pc
    BY <1>1, AfterCallContinues, ZenonT(60)
  <2> QED
    BY <2>1, <2>2, Zenon DEF Continues
<1>3. Enter(t, TopNode.lit, "lit", currentPackage)
  BY DEF TraceGoLiteral
<1>4. UNCHANGED <<app, tracedFuncs, declText, txnDefs, agentInits, errs>>
  BY DEF TraceGoLiteral
<1> HIDE DEF s, u
<1>5. /\ Continues(t, Top) /\ t.pc = Top.pc + 1 /\ t.call = 1
      /\ t.definedTxn = Top.definedTxn
  BY <1>1, <1>2, NextNodeContinues, ContinuesOn
<1> HIDE DEF t
<1>6. Begins(t, TopNode.lit, "lit")
  BY <1>1, <1>5, <1>10 DEF Begins, HoldsLiteral, AtNext, LeftAlone
<1>7. StackStep(t) /\ UNCHANGED <<pending, roots, setupFunc>>
  BY <1>1, <1>3, <1>6, Entered DEF FrameKind
<1>8. WalkStep(t)
  BY <1>1, <1>4, <1>5, <1>7 DEF WalkStep, DefsStep, ErrorStep, IsStmt
<1> QED
  BY <1>8 DEF s, t, u

LEMMA TraceLiteralAssignmentWalks ==
  ASSUME IInv, TraceLiteralAssignment
  PROVE  WalkStep(NextNode([Top EXCEPT !.litVars = @ \cup {TopNode.lit}]))
<1> DEFINE u == [Top EXCEPT !.litVars = @ \cup {TopNode.lit}]
           t == NextNode(u)
<1>1. Walking /\ Top \in Frame /\ TopNode.kind = "litassign" /\ TopNode.lit \in Fn
  BY TopNodeTyped DEF TraceLiteralAssignment
<1>2. /\ Continues(u, Top) /\ u.pc = Top.pc /\ u.definedTxn = Top.definedTxn
      /\ u \in Frame
  BY <1>1 DEF Continues, Frame, Same
<1>3. Enter(t, TopNode.lit, "lit", currentPackage)
  BY DEF TraceLiteralAssignment
<1>4. UNCHANGED <<app, tracedFuncs, declText, txnDefs, agentInits, errs>>
  BY DEF TraceLiteralAssignment
<1> HIDE DEF u
<1>5. /\ Continues(t, Top) /\ t.pc = Top.pc + 1 /\ t.call = 1
      /\ t.definedTxn = Top.definedTxn
  BY <1>1, <1>2, NextNodeContinues, ContinuesOn
<1> HIDE DEF t
<1>6. Begins(t, TopNode.lit, "lit")
  BY <1>1, <1>5 DEF Begins, HoldsLiteral, AtNext, LeftAlone
<1>7. StackStep(t) /\ UNCHANGED <<pending, roots, setupFunc>>
  BY <1>1, <1>3, <1>6, Entered DEF FrameKind
<1>8. WalkStep(t)
  BY <1>1, <1>4, <1>5, <1>7 DEF WalkStep, DefsStep, ErrorStep, IsStmt
<1> QED
  BY <1>8 DEF t, u

LEMMA TraceGoCallWalks ==
  ASSUME IInv, TraceGoCall
  PROVE  WalkStep(NextCall(AfterCall(Top, TopNode.outer, TRUE)))
<1> DEFINE s == TopNode.outer
           u == AfterCall(Top, s, TRUE)
           t == NextCall(u)
<1>1. /\ Walking /\ Top \in Frame /\ Top.call \in DOMAIN TopNode.calls
      /\ TopCall \in Site
  BY TopNodeTyped DEF TraceGoCall, HasCall
<1>8. TopNode.kind = "go" /\ Top.kind # "main"
  BY DEF TraceGoCall
<1>2. /\ Continues(u, Top) /\ u.pc = Top.pc /\ u.definedTxn = Top.definedTxn
      /\ u \in Frame /\ u.call = Top.call
  <2>1. u.definedTxn = Top.definedTxn
    BY <1>1, AfterCallContinues, ZenonT(60)
  <2>2. Continues(u, Top) /\ u.pc = Top.pc
    BY <1>1, AfterCallContinues, ZenonT(60)
  <2>3. u.call = Top.call
    BY <1>1, AfterCallStays
  <2> QED
    BY <2>1, <2>2, <2>3, Zenon DEF Continues
<1>3. IF ShouldInstrument(TopCall)
      THEN Enter(t, InvDecl(TopCall), "go", app.pkg[app.to[TopCall]])
      ELSE stack' = SetTop(t) /\ UNCHANGED control
  BY DEF TraceGoCall
<1>4. UNCHANGED <<app, tracedFuncs, declText, txnDefs, agentInits, errs>>
  BY DEF TraceGoCall
<1> HIDE DEF s, u
<1>5. /\ Continues(t, Top) /\ t.definedTxn = Top.definedTxn
      /\ t.pc = Top.pc /\ t.call = Top.call + 1
  BY <1>1, <1>2, NextCallContinues, ContinuesOn
<1> HIDE DEF t
<1>6. StackStep(t) /\ UNCHANGED <<pending, roots, setupFunc>>
  <2>1. CASE ShouldInstrument(TopCall)
    <3>1. InvDecl(TopCall) \in Fn
      BY <1>1, <2>1, ResolvedHome
    <3>2. Begins(t, InvDecl(TopCall), "go")
      BY <1>1, <1>5, <1>8, <2>1 DEF Begins, AtNextCall
    <3> QED
      BY <1>3, <2>1, <3>1, <3>2, Entered DEF FrameKind
  <2>2. CASE ~ShouldInstrument(TopCall)
    BY <1>1, <1>3, <1>5, <1>8, <2>2
       DEF StackStep, control, PassesCall, AtNextCall, HoldsLiteral
  <2> QED
    BY <2>1, <2>2
<1>7. WalkStep(t)
  BY <1>1, <1>4, <1>5, <1>6 DEF WalkStep, DefsStep, ErrorStep
<1> QED
  BY <1>7 DEF s, t, u

(* The activation a call of a statement leaves behind.                     *)
CallFrame ==
  [NextCall(AfterCall(Top, TopCall, FALSE)) EXCEPT
     !.started = TRUE, !.definedTxn = @ \/ Wraps(Top)]
CallerFrame ==
  IF ShouldInstrument(TopCall) THEN [CallFrame EXCEPT !.down = TRUE] ELSE CallFrame

LEMMA CallFrameContinues ==
  ASSUME Top \in Frame
  PROVE  /\ Continues(CallerFrame, Top) /\ CallerFrame.pc = Top.pc
         /\ CallerFrame.definedTxn = (Top.definedTxn \/ Wraps(Top))
         /\ CallerFrame.litVars = Top.litVars /\ CallerFrame.call = Top.call + 1
         /\ CallerFrame.changed /\ CallerFrame.started
         /\ HandOver(Top.obj, TopCall, FALSE) # "pass" => CallerFrame.txnUsed
<1> DEFINE u == AfterCall(Top, TopCall, FALSE)
           v == NextCall(u)
           w == v.definedTxn \/ Wraps(Top)
           t == [v EXCEPT !.started = TRUE, !.definedTxn = w]
           d == [t EXCEPT !.down = TRUE]
<1>1. /\ Continues(u, Top) /\ u.pc = Top.pc /\ u.definedTxn = Top.definedTxn
      /\ u.litVars = Top.litVars /\ u.changed /\ u \in Frame
      /\ HandOver(Top.obj, TopCall, FALSE) # "pass" => u.txnUsed
  BY AfterCallContinues, ZenonT(60) DEF Continues
<1>16. u.call = Top.call
  BY AfterCallStays
<1> HIDE DEF u
<1>2. Continues(v, u) /\ v.pc = u.pc /\ v.litVars = u.litVars
      /\ v.call = u.call + 1
  BY <1>1, NextCallContinues
<1>3. v.definedTxn = u.definedTxn
  BY <1>1, NextCallContinues, Zenon
<1>4. Continues(v, Top)
  BY <1>1, <1>2, ContinuesOn
<1>5. v \in Frame /\ v.changed /\ (u.txnUsed => v.txnUsed)
  BY <1>1, <1>2, Zenon DEF Continues
<1>6. CallFrame = [v EXCEPT !.started = TRUE, !.definedTxn = w]
  <2> HIDE DEF v
  <2> QED
    BY <1>5 DEF CallFrame, v, u, Frame
<1> HIDE DEF v
<1>7. w = (Top.definedTxn \/ Wraps(Top))
  BY <1>1, <1>3, Zenon
<1>8. w \in BOOLEAN
  BY Zenon
<1> HIDE DEF w
<1>9. /\ t \in Frame /\ Same(t, v) /\ t.obj = v.obj /\ t.pc = v.pc
      /\ t.litVars = v.litVars /\ t.txnUsed = v.txnUsed /\ t.changed = v.changed
      /\ t.started = TRUE /\ t.definedTxn = w /\ t.call = v.call
  BY <1>5, <1>8 DEF Frame, Same
<1>10. t = CallFrame
  BY <1>6
<1> HIDE DEF t
<1>11. /\ d \in Frame /\ Same(d, t) /\ d.obj = t.obj /\ d.pc = t.pc
       /\ d.litVars = t.litVars /\ d.txnUsed = t.txnUsed /\ d.changed = t.changed
       /\ d.started = t.started /\ d.definedTxn = t.definedTxn
       /\ d.call = t.call
  BY <1>9 DEF Frame, Same
<1>12. CallerFrame \in {t, d}
  BY <1>10 DEF CallerFrame
<1> HIDE DEF d
<1> DEFINE c == CallerFrame
<1>13. /\ c \in Frame /\ Same(c, v) /\ c.obj = v.obj /\ c.pc = v.pc
       /\ c.litVars = v.litVars /\ c.txnUsed = v.txnUsed /\ c.changed = v.changed
       /\ c.started = TRUE /\ c.definedTxn = w /\ c.call = v.call
  BY <1>9, <1>11, <1>12, Zenon DEF Same
<1> HIDE DEF c
<1>14. Continues(c, v)
  BY <1>13, Zenon DEF Continues
<1>15. Continues(c, Top)
  BY <1>1, <1>2, <1>4, <1>14, ContinuesOn
<1> QED
  BY <1>1, <1>2, <1>5, <1>7, <1>13, <1>15, <1>16, Zenon DEF c

LEMMA TraceCallWalks ==
  ASSUME IInv, TraceCall
  PROVE  WalkStep(CallerFrame)
<1> DEFINE t == CallFrame
           d == CallerFrame
<1>1. /\ Walking /\ Top \in Frame /\ Top.call \in DOMAIN TopNode.calls
      /\ TopCall \in Site /\ IsStmt /\ ~Excluded(TopCall)
  BY TopNodeTyped DEF TraceCall, HasCall
<1>2. Continues(d, Top) /\ d.pc = Top.pc /\ d.call = Top.call + 1
  BY <1>1, CallFrameContinues
<1>3. d.definedTxn = (Top.definedTxn \/ Wraps(Top))
  BY <1>1, CallFrameContinues, Zenon
<1>4. IF ShouldInstrument(TopCall)
      THEN Enter([t EXCEPT !.down = TRUE], InvDecl(TopCall), "call",
                 app.pkg[app.to[TopCall]])
      ELSE stack' = SetTop(t) /\ UNCHANGED control
  BY DEF TraceCall, CallFrame
<1>5. UNCHANGED <<app, tracedFuncs, declText, agentInits, errs>>
  BY DEF TraceCall
<1>6. DefsStep(d)
  <2>1. txnDefs' = IF Wraps(Top) /\ ~Top.definedTxn
                   THEN [txnDefs EXCEPT ![Top.fn] = @ + 1] ELSE txnDefs
    BY DEF TraceCall
  <2>2. Wraps(Top) => Top.kind = "main"
    BY DEF Wraps
  <2> HIDE DEF d
  <2>3. CASE Wraps(Top) /\ ~Top.definedTxn
    <3>1. (Top.definedTxn \/ Wraps(Top)) = TRUE
      BY <2>3
    <3>2. d.definedTxn
      BY <1>3, <3>1
    <3>3. txnDefs' = [txnDefs EXCEPT ![Top.fn] = @ + 1]
      BY <2>1, <2>3
    <3> QED
      BY <2>2, <2>3, <3>2, <3>3, Zenon DEF DefsStep
  <2>4. CASE ~(Wraps(Top) /\ ~Top.definedTxn)
    <3>1. txnDefs' = txnDefs
      BY <2>1, <2>4, Zenon
    <3>2. Top.definedTxn \in BOOLEAN
      BY <1>1 DEF Frame
    <3>3. (Top.definedTxn \/ Wraps(Top)) = Top.definedTxn
      <4>1. CASE Top.definedTxn = TRUE
        BY <4>1
      <4>2. CASE Top.definedTxn = FALSE
        <5>1. Wraps(Top) \in BOOLEAN
          BY DEF Wraps
        <5> QED
          BY <2>4, <4>2, <5>1
      <4> QED
        BY <3>2, <4>1, <4>2
    <3> QED
      BY <1>3, <3>1, <3>3, Zenon DEF DefsStep
  <2> QED
    BY <2>3, <2>4
<1>7. StackStep(d) /\ UNCHANGED <<pending, roots, setupFunc>>
  <2>1. CASE ShouldInstrument(TopCall)
    <3>1. InvDecl(TopCall) \in Fn
      BY <1>1, <2>1, ResolvedHome
    <3>2. Begins(d, InvDecl(TopCall), "call")
      BY <1>1, <1>2, <2>1 DEF Begins, AtNextCall
    <3>3. Enter(d, InvDecl(TopCall), "call", app.pkg[app.to[TopCall]])
      BY <1>4, <2>1 DEF CallerFrame
    <3> QED
      BY <2>1, <3>1, <3>2, <3>3, Entered DEF FrameKind
  <2>2. CASE ~ShouldInstrument(TopCall)
    <3>1. PassesCall(d)
      BY <1>1, <1>2, <2>2 DEF PassesCall, AtNextCall, IsStmt, HoldsLiteral
    <3> QED
      BY <1>4, <2>2, <3>1 DEF StackStep, control, CallerFrame
  <2> QED
    BY <2>1, <2>2
<1> QED
  BY <1>1, <1>2, <1>5, <1>6, <1>7 DEF WalkStep, ErrorStep

(* The activation FinishStatement leaves behind.                           *)
StatementFrame ==
  LET e    == NoticeError(Top, TopNode)
      http == TopNode.http /\ TopNode.listed
  IN  NextNode([Top EXCEPT !.txnUsed = @ \/ http \/ e.hit,
                           !.changed = @ \/ http \/ SaysChanged(TopNode, e)])

LEMMA StatementFrameContinues ==
  ASSUME Top \in Frame
  PROVE  LET e == NoticeError(Top, TopNode)
         IN  /\ Continues(StatementFrame, Top) /\ StatementFrame.pc = Top.pc + 1
             /\ StatementFrame.definedTxn = Top.definedTxn
             /\ StatementFrame.litVars = Top.litVars /\ StatementFrame.call = 1
             /\ (TopNode.http /\ TopNode.listed) \/ e.hit => StatementFrame.txnUsed
             /\ (TopNode.http /\ TopNode.listed) \/ SaysChanged(TopNode, e)
                  => StatementFrame.changed
<1> DEFINE e    == NoticeError(Top, TopNode)
           http == TopNode.http /\ TopNode.listed
           used == Top.txnUsed \/ http \/ e.hit
           chgd == Top.changed \/ http \/ SaysChanged(TopNode, e)
           u    == [Top EXCEPT !.txnUsed = used, !.changed = chgd]
<1>1. StatementFrame = NextNode(u)
  <2>1. u = [Top EXCEPT !.txnUsed = @ \/ http \/ e.hit,
                        !.changed = @ \/ http \/ SaysChanged(TopNode, e)]
    <3> HIDE DEF e, http
    <3> QED
      BY DEF Frame
  <2> QED
    BY <2>1 DEF StatementFrame
<1>2. used \in BOOLEAN /\ chgd \in BOOLEAN
  BY Zenon
<1>3. /\ Top.txnUsed \/ http \/ e.hit => used
      /\ Top.changed \/ http \/ SaysChanged(TopNode, e) => chgd
  BY Zenon
<1> HIDE DEF e, used, chgd
<1>4. /\ u \in Frame /\ Same(u, Top) /\ u.obj = Top.obj /\ u.pc = Top.pc
      /\ u.definedTxn = Top.definedTxn /\ u.litVars = Top.litVars
      /\ u.txnUsed = used /\ u.changed = chgd
  BY <1>2 DEF Frame, Same
<1> HIDE DEF u
<1>5. u.pc \in {Top.pc, Top.pc + 1}
  BY <1>4
<1>6. Continues(u, Top)
  BY <1>3, <1>4, <1>5, Zenon DEF Continues
<1>7. /\ Continues(NextNode(u), u) /\ NextNode(u).pc = Top.pc + 1
      /\ NextNode(u).litVars = u.litVars /\ NextNode(u).call = 1
  BY <1>4, NextNodeContinues
<1>8. NextNode(u).definedTxn = u.definedTxn
  BY <1>4, NextNodeContinues, Zenon
<1>9. Continues(NextNode(u), Top)
  BY <1>4, <1>6, <1>7, ContinuesOn
<1>10. (used => NextNode(u).txnUsed) /\ (chgd => NextNode(u).changed)
  BY <1>4, <1>7, Zenon DEF Continues
<1> QED
  BY <1>1, <1>3, <1>4, <1>7, <1>8, <1>9, <1>10, Zenon DEF e

LEMMA FinishStatementWalks ==
  ASSUME IInv, FinishStatement
  PROVE  WalkStep(StatementFrame)
<1>1. Walking /\ Top \in Frame
  BY TopNodeTyped DEF FinishStatement
<1>2. /\ Continues(StatementFrame, Top) /\ StatementFrame.pc = Top.pc + 1
      /\ StatementFrame.call = 1
  BY <1>1, StatementFrameContinues
<1>3. StatementFrame.definedTxn = Top.definedTxn
  BY <1>1, StatementFrameContinues, Zenon
<1>4. /\ stack' = SetTop(StatementFrame)
      /\ SetErrors(NoticeError(Top, TopNode))
      /\ UNCHANGED <<app, control, tracedFuncs, callText, declText, txnDefs,
                     agentInits>>
  BY DEF FinishStatement, StatementFrame
<1>5. PassesNode(StatementFrame)
  BY <1>2 DEF FinishStatement, PassesNode, AtNext, IsStmt, HoldsLiteral
<1> QED
  BY <1>1, <1>2, <1>3, <1>4, <1>5, Zenon
     DEF WalkStep, StackStep, DefsStep, ErrorStep, control

(* Before the walk.                                                        *)
Handed(t) == t.kind \in {"call", "go", "lit"}

LEMMA BeginFunctionMoves ==
  ASSUME IInv, BeginFunction
  PROVE  \E u \in Frame :
           /\ stack' = SetTop(u) /\ Same(u, Top) /\ u.fn = Top.fn /\ u.pc = 1
           /\ u.definedTxn = Top.definedTxn /\ u.litVars = Top.litVars
           /\ u.call = Top.call /\ u.started = Top.started
           /\ u.obj = IF Handed(Top) /\ app.param[Top.fn] = "ctx" THEN "ctx" ELSE "txn"
           /\ u.txnUsed = Handed(Top) /\ u.changed = Handed(Top)
<1> DEFINE param == Handed(Top)
           ctx   == app.param[Top.fn] = "ctx"
           obj   == IF param /\ ctx THEN "ctx" ELSE "txn"
           v     == [Top EXCEPT !.pc = 1, !.obj = obj]
           u     == [v EXCEPT !.txnUsed = param, !.changed = param]
<1>1. Top \in Frame /\ param \in BOOLEAN /\ obj \in {"ctx", "txn"}
  BY TopTyped DEF IInv, BeginFunction, Running, Handed
<1>2. stack' = SetTop(u)
  BY <1>1 DEF BeginFunction, Frame, Handed
<1>3. obj = IF Handed(Top) /\ app.param[Top.fn] = "ctx" THEN "ctx" ELSE "txn"
  OBVIOUS
<1>4. param = Handed(Top)
  OBVIOUS
<1> HIDE DEF param, obj
<1>5. /\ v \in Frame /\ Same(v, Top) /\ v.pc = 1 /\ v.obj = obj
      /\ v.definedTxn = Top.definedTxn /\ v.litVars = Top.litVars
      /\ v.call = Top.call /\ v.started = Top.started
  BY <1>1 DEF Frame, Same
<1> HIDE DEF v
<1>6. /\ u \in Frame /\ Same(u, v) /\ u.pc = v.pc /\ u.obj = v.obj
      /\ u.definedTxn = v.definedTxn /\ u.litVars = v.litVars
      /\ u.call = v.call /\ u.started = v.started
      /\ u.txnUsed = param /\ u.changed = param
  BY <1>1, <1>5 DEF Frame, Same
<1> HIDE DEF u
<1> QED
  BY <1>2, <1>3, <1>4, <1>5, <1>6, Zenon DEF Same

(* Every step of a pass.                                                   *)
LEMMA StepCases ==
  ASSUME IInv, [Next]_vars
  PROVE  \/ \E p \in Pkg : StartPackage(p)
         \/ VisitMain \/ VisitDecl
         \/ BeginFunction
         \/ \E u : WalkStep(u)
         \/ EndFunction
         \/ UNCHANGED vars
BY SkipGoInMainWalks, FinishGoWalks, SkipCallWalks, TraceGoLiteralWalks,
   TraceLiteralAssignmentWalks, TraceGoCallWalks, TraceCallWalks,
   FinishStatementWalks DEF Next, Walk, Halt

(* The stack after a step of a walk.                                       *)
Below(n, u) == \A k \in 1 .. n : stack'[k] = IF k = n THEN u ELSE stack[k]

LEMMA WalkStack ==
  ASSUME IInv, NEW u, WalkStep(u)
  PROVE  LET n == Len(stack)
         IN  /\ n \in Nat \ {0} /\ DOMAIN stack = 1 .. n /\ n \in 1 .. n
             /\ Top = stack[n] /\ Top \in Frame /\ u \in Frame
             /\ u.fn = Top.fn /\ u.kind = Top.kind
             /\ \/ stack' = stack /\ crashed'
                \/ /\ DOMAIN stack' = 1 .. n /\ Below(n, u) /\ stack' = SetTop(u)
                   /\ PassesNode(u) \/ PassesCall(u)
                \/ \E g \in Fn, k \in FrameKind :
                     /\ Begins(u, g, k)
                     /\ DOMAIN stack' = 1 .. n + 1 /\ Below(n, u)
                     /\ stack'[n + 1] = NewFrame(g, k, currentPackage)
<1> DEFINE n == Len(stack)
<1>1. TypeOK /\ stack # << >> /\ u \in Frame /\ Same(u, Top)
  BY DEF IInv, WalkStep, Walking, Running, Continues
<1>2. n \in Nat \ {0} /\ DOMAIN stack = 1 .. n /\ Top = stack[n] /\ Top \in Frame
  BY <1>1, TopTyped DEF Top, TypeOK, ControlTypeOK
<1>3. CASE stack' = SetTop(u) /\ (PassesNode(u) \/ PassesCall(u))
  <2>1. DOMAIN stack' = 1 .. n /\ Below(n, u)
    BY <1>1, <1>3, TopReplaced DEF Below
  <2>2. n \in 1 .. n /\ u.fn = Top.fn /\ u.kind = Top.kind
    BY <1>1, <1>2 DEF Same
  <2> HIDE DEF n
  <2> QED
    BY <1>1, <1>2, <1>3, <2>1, <2>2, Zenon DEF n
<1>4. ASSUME NEW g \in Fn, NEW k \in FrameKind, Begins(u, g, k),
             stack' = Append(SetTop(u), NewFrame(g, k, currentPackage))
      PROVE  /\ DOMAIN stack' = 1 .. n + 1 /\ Below(n, u)
             /\ stack'[n + 1] = NewFrame(g, k, currentPackage)
  <2> DEFINE v == NewFrame(g, k, currentPackage)
  <2>1. v \in Frame
    BY <1>1, NewFrameTyped DEF TypeOK, ControlTypeOK
  <2>2. stack' = Append(SetTop(u), v)
    BY <1>4
  <2> HIDE DEF v
  <2>3. /\ DOMAIN stack' = 1 .. n + 1 /\ Below(n, u) /\ stack'[n + 1] = v
    BY <1>1, <2>1, <2>2, TopPushed DEF Below
  <2> QED
    BY <2>3 DEF v
<1>5. StackStep(u)
  BY DEF WalkStep
<1>6. n \in 1 .. n
  BY <1>2
<1> QED
  BY <1>1, <1>2, <1>3, <1>4, <1>5, <1>6 DEF Same, StackStep

-----------------------------------------------------------------------------
(* What NoticeError does to the errors.                                    *)

Captured(x) == {n.err : n \in {m \in x.noticed : m.err.var # ReturnVal}}

Keeps(x, y) == /\ y.cache = x.cache /\ y.loaded = x.loaded
               /\ Captured(y) = Captured(x) /\ y.unchecked = x.unchecked

Loads(x, y, new) == /\ y.cache = new /\ y.loaded = x.loaded \cup {new}
                    /\ Captured(y) = Captured(x)
                    /\ y.unchecked = x.unchecked \cup ({x.cache} \ {NoErr})

Captures(x, y) ==
  /\ x.cache # NoErr /\ y.cache = NoErr
  /\ y.loaded = x.loaded /\ y.unchecked = x.unchecked
  /\ x.cache.var # ReturnVal => Captured(y) = Captured(x) \cup {x.cache}

Loadable(t, new) ==
  /\ new \in CachedError /\ new.fn = t.fn /\ new.node = t.pc
  /\ new.var \in ErrVar

NoticeSteps(t, x, y) ==
  \/ Keeps(x, y)
  \/ Captures(x, y)
  \/ \E new : Loadable(t, new) /\ Loads(x, y, new)
  \/ \E new, z : Loadable(t, new) /\ Loads(x, z, new) /\ Captures(z, y)

LEMMA NoticeAssignSteps ==
  ASSUME NEW t \in Frame, NEW node \in Node, NEW x \in ErrState
  PROVE  LET y == NoticeAssign(t, node, x)
         IN  Keeps(x, y) \/ \E new : Loadable(t, new) /\ Loads(x, y, new)
<1> DEFINE new == [fn |-> t.fn, node |-> t.pc, var |-> node.err]
           y   == NoticeAssign(t, node, x)
<1>1. CASE ~node.listed \/ t.down \/ node.err = NoErr
  <2>1. y = x
    BY <1>1 DEF NoticeAssign
  <2> QED
    BY <2>1 DEF Keeps
<1>2. CASE ~(~node.listed \/ t.down \/ node.err = NoErr)
  <2>1. Loadable(t, new)
    BY <1>2 DEF Loadable, CachedError, Frame, Node
  <2> DEFINE u == x.unchecked \cup ({x.cache} \ {NoErr})
             l == x.loaded \cup {new}
  <2>2. y = [x EXCEPT !.cache = new, !.loaded = l, !.unchecked = u]
    BY <1>2 DEF NoticeAssign, ErrState
  <2> HIDE DEF new, u, l, y
  <2>3. y.cache = new /\ y.loaded = l /\ y.unchecked = u /\ y.noticed = x.noticed
    BY <2>2 DEF ErrState
  <2>4. Loads(x, y, new)
    BY <2>3 DEF Loads, Captured, u, l
  <2> QED
    BY <2>1, <2>4 DEF y
<1> QED
  BY <1>1, <1>2

LEMMA NoticeCachedSteps ==
  ASSUME NEW t \in Frame, NEW x \in ErrState, x.cache # NoErr
  PROVE  Captures(x, NoticeCached(t, x))
<1> DEFINE n == [in |-> t.fn, err |-> x.cache]
           y == NoticeCached(t, x)
           m == x.noticed \cup {n}
<1>1. y = [x EXCEPT !.cache = NoErr, !.hit = TRUE, !.noticed = m]
  BY DEF NoticeCached, ErrState
<1>2. n.err = x.cache
  OBVIOUS
<1> HIDE DEF n, y, m
<1>3. y.cache = NoErr /\ y.loaded = x.loaded /\ y.unchecked = x.unchecked /\ y.noticed = m
  BY <1>1 DEF ErrState
<1>4. x.cache.var # ReturnVal => Captured(y) = Captured(x) \cup {x.cache}
  BY <1>2, <1>3 DEF Captured, m
<1> QED
  BY <1>3, <1>4 DEF Captures, y

LEMMA NoticeErrorSteps ==
  ASSUME TypeOK, NEW t \in Frame, NEW node \in Node
  PROVE  NoticeSteps(t, ErrNow, NoticeError(t, node))
<1> DEFINE x == ErrNow
           y == NoticeAssign(t, node, x)
<1>1. x \in ErrState /\ y \in ErrState
  BY ErrNowTyped, NoticeAssignTyped
<1>2. Keeps(x, x)
  BY DEF Keeps
<1>3. Keeps(x, y) \/ \E new : Loadable(t, new) /\ Loads(x, y, new)
  BY <1>1, NoticeAssignSteps
<1> HIDE DEF x, y
<1>4. NoticeSteps(t, x, NoticeIf(t, node, x))
  <2>1. NoticeIf(t, node, x) =
          IF node.checks /\ y.cache # NoErr THEN NoticeCached(t, y) ELSE y
    BY DEF NoticeIf, y
  <2>2. CASE node.checks /\ y.cache # NoErr
    <3>1. Captures(y, NoticeIf(t, node, x))
      BY <1>1, <2>1, <2>2, NoticeCachedSteps
    <3>2. Keeps(x, y) => Captures(x, NoticeIf(t, node, x))
      BY <3>1 DEF Keeps, Captures
    <3> QED
      BY <1>3, <3>1, <3>2 DEF NoticeSteps
  <2>3. CASE ~(node.checks /\ y.cache # NoErr)
    BY <1>3, <2>1, <2>3 DEF NoticeSteps
  <2> QED
    BY <2>2, <2>3
<1>5. NoticeSteps(t, x, NoticeReturn(t, node, x))
  <2>0. node.listed \in BOOLEAN /\ node.checks \in BOOLEAN /\ t.down \in BOOLEAN
    BY DEF Node, Frame
  <2>1. CASE ~node.listed \/ t.down
    <3>1. NoticeReturn(t, node, x) = x
      BY <2>0, <2>1 DEF NoticeReturn
    <3> QED
      BY <1>2, <3>1 DEF NoticeSteps
  <2>2. CASE node.listed /\ ~t.down /\ node.checks
    <3> DEFINE n == [in |-> t.fn,
                     err |-> [fn |-> t.fn, node |-> t.pc, var |-> ReturnVal]]
               z == NoticeReturn(t, node, x)
    <3>1. z = [x EXCEPT !.hit = TRUE, !.noticed = @ \cup {n}]
      BY <2>0, <2>2 DEF NoticeReturn
    <3>2. n.err.var = ReturnVal
      OBVIOUS
    <3> HIDE DEF n, z
    <3>3. /\ z.cache = x.cache /\ z.loaded = x.loaded /\ z.unchecked = x.unchecked
          /\ z.noticed = x.noticed \cup {n}
      BY <1>1, <3>1 DEF ErrState
    <3>4. Captured(z) = Captured(x)
      BY <3>2, <3>3 DEF Captured
    <3>5. Keeps(x, z)
      BY <3>3, <3>4 DEF Keeps
    <3> QED
      BY <3>5 DEF NoticeSteps, z
  <2>3. CASE node.listed /\ ~t.down /\ ~node.checks
    <3>1. NoticeReturn(t, node, x) = IF x.cache # NoErr /\ node.err = x.cache.var
                                     THEN NoticeCached(t, x) ELSE x
      BY <2>0, <2>3 DEF NoticeReturn
    <3> QED
      BY <1>1, <1>2, <3>1, NoticeCachedSteps DEF NoticeSteps
  <2> QED
    BY <2>0, <2>1, <2>2, <2>3
<1>6. NoticeSteps(t, x, y) /\ NoticeSteps(t, x, x)
  BY <1>2, <1>3 DEF NoticeSteps
<1>7. NoticeError(t, node) \in {x, y, NoticeIf(t, node, x), NoticeReturn(t, node, x)}
  BY DEF NoticeError, x, y
<1> QED
  BY <1>4, <1>5, <1>6, <1>7 DEF x

-----------------------------------------------------------------------------
(* The errors, in every application.                                       *)

LEMMA ErrorsStep ==
  ASSUME IInv, NEW u, WalkStep(u)
  PROVE  \/ Keeps(ErrNow, ErrNow')
         \/ /\ stack' = SetTop(u) /\ u.pc = Top.pc + 1
            /\ NoticeSteps(Top, ErrNow, ErrNow')
<1>1. CASE UNCHANGED errs
  BY <1>1 DEF errs, ErrNow, Keeps, Captured
<1>2. CASE ~UNCHANGED errs
  <2>1. /\ stack' = SetTop(u) /\ u.pc = Top.pc + 1
        /\ SetErrors(NoticeError(Top, TopNode))
    BY <1>2 DEF WalkStep, ErrorStep
  <2> DEFINE y == NoticeError(Top, TopNode)
  <2>2. NoticeSteps(Top, ErrNow, y)
    BY TopNodeTyped, NoticeErrorSteps DEF IInv, WalkStep
  <2>3. /\ ErrNow'.cache = y.cache /\ ErrNow'.loaded = y.loaded
        /\ ErrNow'.noticed = y.noticed /\ ErrNow'.unchecked = y.unchecked
    BY <2>1 DEF SetErrors, ErrNow
  <2> HIDE DEF y
  <2>4. Captured(ErrNow') = Captured(y)
    BY <2>3 DEF Captured
  <2> DEFINE z == ErrNow'
  <2>5. NoticeSteps(Top, ErrNow, z)
    <3>1. /\ z.cache = y.cache /\ z.loaded = y.loaded
          /\ Captured(z) = Captured(y) /\ z.unchecked = y.unchecked
      BY <2>3, <2>4
    <3> HIDE DEF z
    <3>2. \A x : /\ Keeps(x, y) => Keeps(x, z)
                 /\ Captures(x, y) => Captures(x, z)
                 /\ \A new : Loads(x, y, new) => Loads(x, z, new)
      BY <3>1 DEF Keeps, Captures, Loads
    <3> QED
      BY <2>2, <3>2 DEF NoticeSteps
  <2> QED
    BY <2>1, <2>5
<1> QED
  BY <1>1, <1>2

LEMMA ErrorsEnd ==
  ASSUME IInv, EndFunction
  PROVE  /\ errorCache' = NoErr /\ loaded' = loaded
         /\ CapturedErrors' = CapturedErrors
         /\ unchecked' = unchecked \cup ({errorCache} \ {NoErr})
<1> DEFINE u == unchecked \cup ({errorCache} \ {NoErr})
<1>1. ReportedError = [ErrNow EXCEPT !.cache = NoErr, !.unchecked = u]
  BY DEF ReportedError, ErrNow
<1> HIDE DEF u
<1>2. /\ ReportedError.cache = NoErr /\ ReportedError.unchecked = u
      /\ ReportedError.loaded = loaded /\ ReportedError.noticed = noticed
  BY <1>1 DEF ErrNow
<1> QED
  BY <1>2 DEF EndFunction, SetErrors, CapturedErrors, u

(* What is loaded is the error of a variable of the program, and every     *)
(* error loaded is held, captured or reported.                             *)
Held == {errorCache} \ {NoErr}
ErrorsKept ==
  /\ \A e \in loaded : e.var \in ErrVar
  /\ loaded = Held \cup CapturedErrors \cup unchecked

LEMMA CapturedNow ==
  CapturedErrors = Captured(ErrNow) /\ CapturedErrors' = Captured(ErrNow')
BY DEF CapturedErrors, Captured, ErrNow

(* A step of the errors keeps count of them.                               *)
LEMMA NoticeKeepsCount ==
  ASSUME NEW t, NEW x, NEW y, NoticeSteps(t, x, y),
         \A e \in x.loaded : e.var \in ErrVar,
         x.loaded = ({x.cache} \ {NoErr}) \cup Captured(x) \cup x.unchecked
  PROVE  /\ \A e \in y.loaded : e.var \in ErrVar
         /\ y.loaded = ({y.cache} \ {NoErr}) \cup Captured(y) \cup y.unchecked
<1> DEFINE Counts(z) ==
             /\ \A e \in z.loaded : e.var \in ErrVar
             /\ z.loaded = ({z.cache} \ {NoErr}) \cup Captured(z) \cup z.unchecked
<1>1. CASE Keeps(x, y)
  BY <1>1 DEF Keeps
<1>2. ASSUME NEW v, NEW w, Captures(v, w), Counts(v)
      PROVE  Counts(w)
  <2>1. v.cache \in v.loaded /\ v.cache.var # ReturnVal
    BY <1>2, SentinelAssumption DEF Captures
  <2>2. /\ w.cache = NoErr /\ w.loaded = v.loaded /\ w.unchecked = v.unchecked
        /\ Captured(w) = Captured(v) \cup {v.cache} /\ v.cache # NoErr
    BY <1>2, <2>1 DEF Captures
  <2> QED
    BY <1>2, <2>2
<1>3. ASSUME NEW v, NEW w, NEW new, Loadable(t, new), Loads(v, w, new), Counts(v)
      PROVE  Counts(w)
  <2>1. /\ w.cache = new /\ w.loaded = v.loaded \cup {new}
        /\ w.unchecked = v.unchecked \cup ({v.cache} \ {NoErr})
        /\ Captured(w) = Captured(v) /\ new.var \in ErrVar
    BY <1>3 DEF Loads, Loadable
  <2>2. CASE new # NoErr
    BY <1>3, <2>1, <2>2
  <2>3. CASE new = NoErr
    BY <1>3, <2>3, CacheAssumption DEF Loadable
  <2> QED
    BY <2>2, <2>3
<1>4. Counts(x)
  OBVIOUS
<1> QED
  BY <1>1, <1>2, <1>3, <1>4 DEF NoticeSteps

LEMMA NoticeOwner ==
  ASSUME NEW t, NEW x, NEW y, NoticeSteps(t, x, y)
  PROVE  y.cache \in {x.cache, NoErr} \/ y.cache.fn = t.fn
BY DEF NoticeSteps, Keeps, Captures, Loads, Loadable

(* The steps that leave the errors alone.                                  *)
LEMMA ErrorsApart ==
  ASSUME IInv, [Next]_vars
  PROVE  \/ UNCHANGED errs /\ (stack = << >> \/ stack' = stack)
         \/ UNCHANGED errs /\ BeginFunction
         \/ \E u : WalkStep(u)
         \/ EndFunction
<1>1. ASSUME NEW p \in Pkg, StartPackage(p)
      PROVE  UNCHANGED errs /\ stack' = stack
  BY <1>1 DEF StartPackage
<1>2. CASE VisitMain \/ VisitDecl
  BY <1>2 DEF VisitMain, VisitDecl, Idle
<1>3. CASE BeginFunction
  BY <1>3 DEF BeginFunction
<1>4. CASE UNCHANGED vars
  BY <1>4 DEF vars
<1> QED
  BY <1>1, <1>2, <1>3, <1>4, StepCases

ErrorInv == ErrorsKept /\ ErrorOwnerActive

LEMMA ErrorInvKept ==
  ASSUME IInv, ErrorInv, [Next]_vars
  PROVE  ErrorInv'
<1>1. ASSUME UNCHANGED errs
      PROVE  ErrorsKept'
  BY <1>1 DEF errs, ErrorInv, ErrorsKept, Held, CapturedErrors
<1>2. CASE UNCHANGED errs /\ stack' = stack
  BY <1>1, <1>2 DEF ErrorInv, ErrorOwnerActive, errs
<1>3. CASE UNCHANGED errs /\ stack = << >>
  <2>1. errorCache = NoErr
    BY <1>3 DEF ErrorInv, ErrorOwnerActive
  <2> QED
    BY <1>1, <1>3, <2>1 DEF ErrorInv, ErrorOwnerActive, errs
<1>4. CASE UNCHANGED errs /\ BeginFunction
  <2>1. PICK u \in Frame : stack' = SetTop(u) /\ u.fn = Top.fn
    BY <1>4, BeginFunctionMoves
  <2>2. stack # << >>
    BY <1>4 DEF BeginFunction, Running
  <2>3. \A k \in DOMAIN stack : k \in DOMAIN stack' /\ stack'[k].fn = stack[k].fn
    BY <2>1, <2>2, TopReplaced DEF IInv, Top
  <2> QED
    BY <1>1, <1>4, <2>3 DEF ErrorInv, ErrorOwnerActive, errs
<1>5. ASSUME NEW u, WalkStep(u) PROVE ErrorInv'
  <2>1. \/ Keeps(ErrNow, ErrNow')
        \/ NoticeSteps(Top, ErrNow, ErrNow')
    BY <1>5, ErrorsStep
  <2>2. NoticeSteps(Top, ErrNow, ErrNow')
    BY <2>1 DEF NoticeSteps
  <2>3. /\ ErrNow.cache = errorCache /\ ErrNow.loaded = loaded
        /\ ErrNow.unchecked = unchecked
        /\ ErrNow'.cache = errorCache' /\ ErrNow'.loaded = loaded'
        /\ ErrNow'.unchecked = unchecked'
    BY DEF ErrNow
  <2> DEFINE x == ErrNow
             y == ErrNow'
             t == Top
  <2>4. ErrorsKept'
    <3>1. /\ \A e \in x.loaded : e.var \in ErrVar
          /\ x.loaded = ({x.cache} \ {NoErr}) \cup Captured(x) \cup x.unchecked
      BY <2>3, CapturedNow DEF ErrorInv, ErrorsKept, Held
    <3>2. NoticeSteps(t, x, y)
      BY <2>2
    <3> HIDE DEF x, y, t
    <3>3. /\ \A e \in y.loaded : e.var \in ErrVar
          /\ y.loaded = ({y.cache} \ {NoErr}) \cup Captured(y) \cup y.unchecked
      BY <3>1, <3>2, NoticeKeepsCount
    <3> QED
      BY <2>3, <3>3, CapturedNow DEF y, ErrorsKept, Held
  <2>5. ErrorOwnerActive'
    <3>1. errorCache' \in {errorCache, NoErr} \/ errorCache'.fn = Top.fn
      BY <2>2, <2>3, NoticeOwner
    <3> DEFINE n == Len(stack)
    <3>2. /\ n \in DOMAIN stack' /\ stack'[n].fn = Top.fn
          /\ \A k \in DOMAIN stack : k \in DOMAIN stack' /\ stack'[k].fn = stack[k].fn
      BY <1>5, WalkStack DEF Below
    <3> QED
      BY <3>1, <3>2 DEF ErrorInv, ErrorOwnerActive
  <2> QED
    BY <2>4, <2>5 DEF ErrorInv
<1>6. CASE EndFunction
  <2>1. /\ errorCache' = NoErr /\ loaded' = loaded
        /\ CapturedErrors' = CapturedErrors
        /\ unchecked' = unchecked \cup ({errorCache} \ {NoErr})
    BY <1>6, ErrorsEnd
  <2> QED
    BY <2>1 DEF ErrorInv, ErrorsKept, ErrorOwnerActive, Held
<1> QED
  BY <1>2, <1>3, <1>4, <1>5, <1>6, ErrorsApart

(* An error waits in the cache only while its function is being walked,    *)
(* for every application, recursive ones included: EndFunction empties the *)
(* cache before it gives control back, so what is walked after a function  *)
(* ended cannot capture its error.  A callee walked before its end can.    *)
THEOREM ErrorOwnerActiveHolds == Spec => []ErrorOwnerActive
<1>1. Init => ErrorInv
  BY DEF Init, ErrorInv, ErrorsKept, ErrorOwnerActive, Held, CapturedErrors
<1>2. IInv /\ ErrorInv /\ [Next]_vars => ErrorInv'
  BY ErrorInvKept
<1>3. ErrorInv => ErrorOwnerActive
  BY DEF ErrorInv
<1> QED
  BY <1>1, <1>2, <1>3, Invariant, PTL DEF Spec

(* No error is lost, for every application: what was ever loaded is still  *)
(* held, or captured by NoticeError, or reported as unchecked.             *)
THEOREM NoErrorLost ==
  Spec => [](loaded = Held \cup CapturedErrors \cup unchecked)
<1>1. Init => ErrorInv
  BY DEF Init, ErrorInv, ErrorsKept, ErrorOwnerActive, Held, CapturedErrors
<1>2. IInv /\ ErrorInv /\ [Next]_vars => ErrorInv'
  BY ErrorInvKept
<1>3. ErrorInv => loaded = Held \cup CapturedErrors \cup unchecked
  BY DEF ErrorInv, ErrorsKept
<1> QED
  BY <1>1, <1>2, <1>3, Invariant, PTL DEF Spec

(* An error waits where its own function can still check it, or that       *)
(* function is at a call: what else there is on the stack does not matter. *)
OwnerAt(e, t) == /\ t.fn = e.fn /\ t.kind # "main" /\ e.node < t.pc
                 /\ \A j \in e.node .. t.pc - 1 : ~ChecksError(app.body[e.fn][j])
WaitsWell ==
  errorCache # NoErr => \/ HandsOn(app, errorCache)
                        \/ stack # << >> /\ OwnerAt(errorCache, Top)

PendingInv == WaitsWell /\ CapturedPending

(* The error that NoticeError leaves in the cache is an old one, unless    *)
(* the node checks it, or one of the node; what it captures it captures in *)
(* t, from t or from the cache.                                            *)
Waits(t, node, x, y) ==
  \/ y.cache = NoErr
  \/ y.cache = x.cache /\ (t.kind # "main" => ~ChecksError(node))
  \/ /\ y.cache.fn = t.fn /\ y.cache.node = t.pc
     /\ t.kind # "main" /\ ~ChecksError(node)
CapturesIn(t, x, y) ==
  \A n \in y.noticed \ x.noticed :
    n.in = t.fn /\ (n.err.fn = t.fn \/ (n.err = x.cache /\ x.cache # NoErr))

LEMMA NoticeAssignPending ==
  ASSUME NEW t \in Frame, NEW node \in Node, NEW x \in ErrState
  PROVE  LET y == NoticeAssign(t, node, x)
         IN  /\ y.noticed = x.noticed
             /\ y.cache = x.cache \/ (y.cache.fn = t.fn /\ y.cache.node = t.pc)
<1> DEFINE new == [fn |-> t.fn, node |-> t.pc, var |-> node.err]
           y   == NoticeAssign(t, node, x)
<1>1. CASE ~node.listed \/ t.down \/ node.err = NoErr
  BY <1>1 DEF NoticeAssign
<1>2. CASE ~(~node.listed \/ t.down \/ node.err = NoErr)
  <2> DEFINE u == x.unchecked \cup ({x.cache} \ {NoErr})
             l == x.loaded \cup {new}
  <2>1. y = [x EXCEPT !.cache = new, !.loaded = l, !.unchecked = u]
    BY <1>2 DEF NoticeAssign, ErrState
  <2>2. new.fn = t.fn /\ new.node = t.pc
    OBVIOUS
  <2> HIDE DEF new, u, l, y
  <2>3. y.cache = new /\ y.noticed = x.noticed
    BY <2>1 DEF ErrState
  <2> QED
    BY <2>2, <2>3 DEF y
<1> QED
  BY <1>1, <1>2

LEMMA NoticeCachedPending ==
  ASSUME NEW t \in Frame, NEW x \in ErrState
  PROVE  LET y == NoticeCached(t, x)
         IN  /\ y.cache = NoErr
             /\ y.noticed = x.noticed \cup {[in |-> t.fn, err |-> x.cache]}
<1> DEFINE m == x.noticed \cup {[in |-> t.fn, err |-> x.cache]}
           y == NoticeCached(t, x)
<1>1. y = [x EXCEPT !.cache = NoErr, !.hit = TRUE, !.noticed = m]
  BY DEF NoticeCached, ErrState
<1> HIDE DEF m, y
<1>2. y.cache = NoErr /\ y.noticed = m
  BY <1>1 DEF ErrState
<1> QED
  BY <1>2 DEF m, y

LEMMA NoticeErrorPending ==
  ASSUME TypeOK, NEW t \in Frame, NEW node \in Node
  PROVE  LET y == NoticeError(t, node)
         IN  Waits(t, node, ErrNow, y) /\ CapturesIn(t, ErrNow, y)
<1> DEFINE x == ErrNow
           z == NoticeAssign(t, node, x)
           y == NoticeError(t, node)
<1> SUFFICES Waits(t, node, x, y) /\ CapturesIn(t, x, y)
  OBVIOUS
<1>1. x \in ErrState /\ z \in ErrState
  BY ErrNowTyped, NoticeAssignTyped
<1>2. /\ z.noticed = x.noticed
      /\ z.cache = x.cache \/ (z.cache.fn = t.fn /\ z.cache.node = t.pc)
  BY <1>1, NoticeAssignPending
<1>3. node.listed \in BOOLEAN /\ node.checks \in BOOLEAN /\ t.down \in BOOLEAN
  BY DEF Node, Frame
<1> HIDE DEF x, z, y
<1>4. CASE y = x /\ (t.kind = "main" \/ node.kind # "if")
  BY <1>4 DEF Waits, CapturesIn, ChecksError
<1>5. CASE t.kind # "main" /\ node.kind = "assign"
  <2>1. y = z
    BY <1>5 DEF NoticeError, y, z, x
  <2> QED
    BY <1>2, <1>5, <2>1 DEF Waits, CapturesIn, ChecksError
<1>6. CASE t.kind # "main" /\ node.kind = "if"
  <2>1. y = IF node.checks /\ z.cache # NoErr THEN NoticeCached(t, z) ELSE z
    BY <1>6 DEF NoticeError, NoticeIf, y, z, x
  <2>2. CASE node.checks /\ z.cache # NoErr
    <3>1. /\ y.cache = NoErr
          /\ y.noticed = x.noticed \cup {[in |-> t.fn, err |-> z.cache]}
      BY <1>1, <1>2, <2>1, <2>2, NoticeCachedPending
    <3> QED
      BY <1>2, <2>2, <3>1 DEF Waits, CapturesIn
  <2>3. CASE ~(node.checks /\ z.cache # NoErr)
    BY <1>2, <1>6, <2>1, <2>3 DEF Waits, CapturesIn, ChecksError
  <2> QED
    BY <2>2, <2>3
<1>7. CASE t.kind # "main" /\ node.kind = "return"
  <2>1. y = NoticeReturn(t, node, x)
    BY <1>7 DEF NoticeError, y, x
  <2>2. CASE ~node.listed \/ t.down
    BY <1>3, <1>4, <1>7, <2>1, <2>2 DEF NoticeReturn
  <2>3. CASE node.listed /\ ~t.down /\ node.checks
    <3> DEFINE n == [in |-> t.fn,
                     err |-> [fn |-> t.fn, node |-> t.pc, var |-> ReturnVal]]
    <3>1. y = [x EXCEPT !.hit = TRUE, !.noticed = @ \cup {n}]
      BY <1>3, <2>1, <2>3 DEF NoticeReturn
    <3>2. n.in = t.fn /\ n.err.fn = t.fn
      OBVIOUS
    <3> HIDE DEF n
    <3>3. y.cache = x.cache /\ y.noticed = x.noticed \cup {n}
      BY <1>1, <3>1 DEF ErrState
    <3> QED
      BY <1>7, <3>2, <3>3 DEF Waits, CapturesIn, ChecksError
  <2>4. CASE node.listed /\ ~t.down /\ ~node.checks
    <3>1. y = IF x.cache # NoErr /\ node.err = x.cache.var
              THEN NoticeCached(t, x) ELSE x
      BY <1>3, <2>1, <2>4 DEF NoticeReturn
    <3>2. CASE x.cache # NoErr /\ node.err = x.cache.var
      <4>1. /\ y.cache = NoErr
            /\ y.noticed = x.noticed \cup {[in |-> t.fn, err |-> x.cache]}
        BY <1>1, <3>1, <3>2, NoticeCachedPending
      <4> QED
        BY <3>2, <4>1 DEF Waits, CapturesIn
    <3> QED
      BY <1>4, <1>7, <3>1, <3>2
  <2> QED
    BY <1>3, <2>2, <2>3, <2>4
<1>8. \/ y = x /\ (t.kind = "main" \/ node.kind # "if")
      \/ t.kind # "main" /\ node.kind \in {"assign", "if", "return"}
  BY DEF NoticeError, y, x
<1> QED
  BY <1>4, <1>5, <1>6, <1>7, <1>8

(* A step of the walk keeps the errors where they are, or is over with the *)
(* node of the top activation.                                             *)
LEMMA PendingWalk ==
  ASSUME IInv, PendingInv, NEW u, WalkStep(u)
  PROVE  PendingInv'
<1> DEFINE n == Len(stack)
           node == TopNode
<1>1. /\ Top \in Frame /\ node \in Node /\ node = app.body[Top.fn][Top.pc]
      /\ Top.pc \in 1 .. Len(app.body[Top.fn]) /\ app' = app /\ TypeOK
      /\ stack # << >>
  <2>1. app.body[Top.fn] \in Seq(Node)
    BY AppTyped, TopNodeTyped DEF IInv, WalkStep, AppType, Frame
  <2> QED
    BY <2>1, TopNodeTyped DEF IInv, WalkStep, Walking, Running, TopNode
<1>2. u.fn = Top.fn /\ u.kind = Top.kind /\ u.pc \in {Top.pc, Top.pc + 1} /\ u \in Frame
  BY DEF WalkStep, Continues, Same
<1>3. errorCache # NoErr => errorCache.node \in Nat
  BY <1>1 DEF TypeOK, ErrorTypeOK, CachedError
<1>4. CASE stack' = SetTop(u) /\ u.pc = Top.pc + 1 /\ SetErrors(NoticeError(Top, TopNode))
  <2> DEFINE y == NoticeError(Top, node)
  <2>1. Waits(Top, node, ErrNow, y) /\ CapturesIn(Top, ErrNow, y)
    BY <1>1, NoticeErrorPending
  <2>2. /\ errorCache' = y.cache /\ noticed' = y.noticed
        /\ ErrNow.cache = errorCache /\ ErrNow.noticed = noticed
    BY <1>4 DEF SetErrors, ErrNow
  <2>3. stack' # << >> /\ Top' = u
    BY <1>1, <1>2, <1>4, TopReplaced
  <2> HIDE DEF y, node
  <2>4. ASSUME errorCache # NoErr, OwnerAt(errorCache, Top), ~ChecksError(node)
        PROVE  OwnerAt(errorCache, u)
    <3>1. \A j \in errorCache.node .. Top.pc :
            ~ChecksError(app.body[errorCache.fn][j])
      BY <1>1, <1>3, <2>4 DEF OwnerAt
    <3> QED
      BY <1>1, <1>2, <1>3, <1>4, <2>4, <3>1 DEF OwnerAt
  <2>5. ASSUME errorCache'.fn = Top.fn, errorCache'.node = Top.pc,
               Top.kind # "main", ~ChecksError(node)
        PROVE  OwnerAt(errorCache', u)
    BY <1>1, <1>2, <1>4, <2>5 DEF OwnerAt
  <2>6. WaitsWell'
    <3> SUFFICES ASSUME errorCache' # NoErr
                 PROVE  HandsOn(app, errorCache') \/ OwnerAt(errorCache', u)
      BY <1>1, <2>3 DEF WaitsWell, OwnerAt
    <3>1. CASE errorCache' = errorCache /\ (Top.kind # "main" => ~ChecksError(node))
      BY <2>4, <3>1 DEF PendingInv, WaitsWell, OwnerAt
    <3> QED
      BY <2>1, <2>2, <2>5, <3>1 DEF Waits
  <2>7. CapturedPending'
    <3> SUFFICES ASSUME NEW c \in noticed', c.in # c.err.fn
                 PROVE  HandsOn(app, c.err)
      BY <1>1 DEF CapturedPending
    <3>1. CASE c \in noticed
      BY <3>1 DEF PendingInv, CapturedPending
    <3>2. CASE c \notin noticed
      <4>1. c.in = Top.fn /\ c.err = errorCache /\ errorCache # NoErr
        BY <2>1, <2>2, <3>2 DEF CapturesIn
      <4> QED
        BY <4>1 DEF PendingInv, WaitsWell, OwnerAt
    <3> QED
      BY <3>1, <3>2
  <2> QED
    BY <2>6, <2>7 DEF PendingInv
<1>5. CASE UNCHANGED errs /\ (u.pc = Top.pc \/ ~IsStmt)
  <2>1. CapturedPending' /\ errorCache' = errorCache
    BY <1>1, <1>5 DEF errs, PendingInv, CapturedPending
  <2>2. ASSUME errorCache # NoErr, OwnerAt(errorCache, Top) PROVE OwnerAt(errorCache, u)
    <3>1. CASE u.pc = Top.pc
      BY <1>2, <2>2, <3>1 DEF OwnerAt
    <3>2. CASE u.pc = Top.pc + 1 /\ ~IsStmt
      <4>1. ~ChecksError(node)
        BY <3>2 DEF IsStmt, ChecksError
      <4> HIDE DEF node
      <4>2. \A j \in errorCache.node .. Top.pc :
              ~ChecksError(app.body[errorCache.fn][j])
        BY <1>1, <1>3, <2>2, <4>1 DEF OwnerAt
      <4> QED
        BY <1>1, <1>2, <1>3, <2>2, <3>2, <4>2 DEF OwnerAt
    <3> QED
      BY <1>2, <1>5, <3>1, <3>2
  <2>3. CASE stack' = stack
    BY <1>1, <2>1, <2>3 DEF PendingInv, WaitsWell, OwnerAt, Top
  <2>4. CASE stack' = SetTop(u)
    <3>1. stack' # << >> /\ Top' = u
      BY <1>1, <1>2, <2>4, TopReplaced
    <3> QED
      BY <1>1, <2>1, <2>2, <3>1 DEF PendingInv, WaitsWell, OwnerAt
  <2>5. ASSUME NEW g, NEW k, Begins(u, g, k) PROVE WaitsWell'
    <3>1. \/ HoldsLiteral(node)
          \/ \E j \in DOMAIN node.calls : app.to[node.calls[j]] \notin app.lits
      <4>1. CASE Begins(u, g, k) /\ HoldsLiteral(TopNode)
        BY <4>1
      <4>2. CASE AtNextCall(u) /\ ShouldInstrument(TopCall)
        BY <4>2 DEF AtNextCall, ShouldInstrument, InvDecl, TopCall
      <4> QED
        BY <2>5, <4>1, <4>2 DEF Begins
    <3> HIDE DEF node
    <3>2. ASSUME errorCache # NoErr, OwnerAt(errorCache, Top)
          PROVE  HandsOn(app, errorCache)
      <4>1. /\ Top.pc \in errorCache.node + 1 .. Len(app.body[errorCache.fn])
            /\ app.body[errorCache.fn][Top.pc] = node
        BY <1>1, <1>3, <3>2 DEF OwnerAt
      <4> QED
        BY <3>1, <3>2, <4>1 DEF HandsOn, OwnerAt
    <3> QED
      BY <1>1, <2>1, <3>2 DEF PendingInv, WaitsWell
  <2>6. StackStep(u)
    BY DEF WalkStep
  <2> QED
    BY <2>1, <2>3, <2>4, <2>5, <2>6 DEF StackStep, PendingInv, WaitsWell
<1>6. ErrorStep(u)
  BY DEF WalkStep
<1> QED
  BY <1>4, <1>5, <1>6 DEF ErrorStep

LEMMA PendingInvKept ==
  ASSUME IInv, PendingInv, [Next]_vars
  PROVE  PendingInv'
<1>1. app' = app
  BY StepCases DEF StartPackage, VisitMain, VisitDecl, BeginFunction, WalkStep,
                   EndFunction, vars
<1>2. ASSUME UNCHANGED errs
      PROVE  CapturedPending' /\ errorCache' = errorCache
  BY <1>1, <1>2 DEF errs, PendingInv, CapturedPending
<1>3. CASE UNCHANGED errs /\ stack' = stack
  BY <1>1, <1>2, <1>3 DEF PendingInv, WaitsWell, OwnerAt, Top
<1>4. CASE UNCHANGED errs /\ stack = << >>
  BY <1>1, <1>2, <1>4 DEF PendingInv, WaitsWell
<1>5. CASE UNCHANGED errs /\ BeginFunction
  <2>1. errorCache # NoErr => ~OwnerAt(errorCache, Top)
    BY <1>5 DEF BeginFunction, OwnerAt, IInv, TypeOK, ErrorTypeOK, CachedError
  <2> QED
    BY <1>1, <1>2, <1>5, <2>1 DEF PendingInv, WaitsWell
<1>6. CASE EndFunction
  <2>1. errorCache' = NoErr
    BY <1>6, ErrorsEnd
  <2>2. noticed' = noticed
    BY <1>6 DEF EndFunction, SetErrors, ReportedError, ErrNow
  <2> QED
    BY <1>1, <2>1, <2>2 DEF PendingInv, WaitsWell, CapturedPending
<1> QED
  BY <1>3, <1>4, <1>5, <1>6, ErrorsApart, PendingWalk

(* An error is captured in another function only when that was walked from *)
(* a later call of its own, with no check before it, for every application *)
(* and every depth: the one slot of the manager confuses no two errors but *)
(* those of an unchecked statement and of what its function calls next.    *)
THEOREM CapturedPendingHolds == Spec => []CapturedPending
<1>1. Init => PendingInv
  BY DEF Init, PendingInv, WaitsWell, CapturedPending
<1>2. IInv /\ PendingInv /\ [Next]_vars => PendingInv'
  BY PendingInvKept
<1>3. PendingInv => CapturedPending
  BY DEF PendingInv
<1> QED
  BY <1>1, <1>2, <1>3, Invariant, PTL DEF Spec

-----------------------------------------------------------------------------
(* The shape of the stack, in every application: what is looked up is a    *)
(* declaration of that name, a root is taken once, an activation is        *)
(* started from a place in the function below it.                          *)

IsDeclared(f) ==
  \E i \in DOMAIN app.decls[app.pkg[f]] : app.decls[app.pkg[f]][i] = f

TablesNamed ==
  /\ \A p \in Pkg, n \in Name :
       tracedFuncs[p][n].body # NoFn =>
         IsDeclared(tracedFuncs[p][n].body) /\ app.name[tracedFuncs[p][n].body] = n
  /\ \A f \in Fn : IsDeclared(f) => Entry(f).body # NoFn

(* The declarations instrumentPackages has still to visit.                 *)
Visiting == {roots[k] : k \in DOMAIN roots}
Waiting == {f \in Fn : f \in Visiting \/ (IsDeclared(f) /\ app.pkg[f] \in pending)}

RootsDistinct ==
  \A k \in DOMAIN roots :
    /\ IsDeclared(roots[k]) /\ app.pkg[roots[k]] \notin pending
    /\ \A j \in DOMAIN roots : roots[j] = roots[k] => j = k

Linked ==
  \A i \in DOMAIN stack :
    i + 1 \in DOMAIN stack => stack[i + 1].fn \in Starts(app, stack[i].fn)

FrameOK(t) ==
  /\ t.kind = "lit" <=> t.fn \in app.lits
  /\ t.fn \notin app.lits => IsDeclared(t.fn)
  /\ t.kind = "main" => t.fn \in app.mains
  /\ t.kind = "handler" => app.param[t.fn] = "handler"
  /\ ~Handed(t) => t.fn \notin Waiting
  /\ t.obj = "ctx" => app.param[t.fn] = "ctx" /\ Handed(t)
  /\ t.definedTxn => t.kind = "main"
  /\ t.pc > 0 /\ Handed(t) =>
       segments[t.fn] > 0 /\ (app.param[t.fn] # "ctx" => txnParams[t.fn] > 0)

FramesOK   == {t \in Frame : FrameOK(t)}
AllFramesOK == \A k \in DOMAIN stack : stack[k] \in FramesOK

ShapeInv == TablesNamed /\ RootsDistinct /\ Linked /\ AllFramesOK

LEMMA TopOK ==
  ASSUME IInv, ShapeInv, stack # << >>
  PROVE  FrameOK(Top) /\ Top \in Frame /\ Top \in FramesOK
<1>1. Top \in Frame /\ Len(stack) \in DOMAIN stack
  BY TopTyped DEF IInv, TypeOK, ControlTypeOK
<1> QED
  BY <1>1 DEF ShapeInv, AllFramesOK, FramesOK, Top

LEMMA DeclaredIsNoLiteral ==
  ASSUME app \in Apps, NEW f \in Fn, IsDeclared(f)
  PROVE  f \notin app.lits
<1>1. app.pkg[f] \in Pkg
  BY AppTyped DEF AppType
<1> QED
  BY <1>1, AppTyped DEF WellFormed, IsDeclared

LEMMA ListedIsDeclared ==
  ASSUME app \in Apps, NEW p \in Pkg, NEW i \in DOMAIN app.decls[p]
  PROVE  /\ app.decls[p][i] \in Fn /\ IsDeclared(app.decls[p][i])
         /\ app.pkg[app.decls[p][i]] = p
BY DeclTyped DEF IsDeclared

(* What the lookup starts with.                                            *)
LEMMA StoredDeclNamed ==
  ASSUME app \in Apps, NEW p \in Pkg, NEW n \in Name
  PROVE  LET D == StoredDecl(app, p, n)
         IN  /\ D.body # NoFn => IsDeclared(D.body) /\ app.name[D.body] = n
             /\ (\E i \in DOMAIN app.decls[p] : app.name[app.decls[p][i]] = n)
                  => D.body # NoFn
<1> DEFINE I == {i \in DOMAIN app.decls[p] : app.name[app.decls[p][i]] = n}
           T == {i \in I : app.decls[p][i] \in app.hasTxn}
           D == StoredDecl(app, p, n)
<1>1. app.decls[p] \in Seq(Fn) /\ DOMAIN app.decls[p] = 1 .. Len(app.decls[p])
  BY DeclTyped
<1>2. D = CASE I = {} -> [body |-> NoFn, traced |-> FALSE]
            [] T # {} -> [body |-> app.decls[p][CHOOSE i \in T : \A j \in T : j <= i],
                          traced |-> TRUE]
            [] OTHER  -> [body |-> app.decls[p][CHOOSE i \in I : \A j \in I : i <= j],
                          traced |-> FALSE]
  BY DEF StoredDecl
<1>3. CASE I = {}
  <2>1. D.body = NoFn
    BY <1>3 DEF StoredDecl
  <2> QED
    BY <1>3, <2>1
<1>4. CASE I # {}
  <2>1. \E i \in I : D.body = app.decls[p][i]
    <3>1. CASE T # {}
      <4>1. \E i \in T : \A j \in T : j <= i
        <5>1. T \subseteq 1 .. Len(app.decls[p]) /\ Len(app.decls[p]) \in Nat
          BY <1>1
        <5> HIDE DEF I, T
        <5> QED
          BY <5>1, <3>1, HasGreatest
      <4>2. PICK i \in T : i = CHOOSE k \in T : \A j \in T : j <= k
        BY <4>1
      <4>3. D = [body |-> app.decls[p][i], traced |-> TRUE]
        BY <1>2, <1>4, <3>1, <4>2
      <4> QED
        BY <4>3
    <3>2. CASE T = {}
      <4>1. \E i \in I : \A j \in I : i <= j
        <5>1. I \subseteq Nat
          BY <1>1
        <5> HIDE DEF I, T
        <5> QED
          BY <5>1, <1>4, HasLeast
      <4>2. PICK i \in I : i = CHOOSE k \in I : \A j \in I : k <= j
        BY <4>1
      <4>3. D = [body |-> app.decls[p][i], traced |-> FALSE]
        BY <1>2, <1>4, <3>2, <4>2
      <4> QED
        BY <4>3
    <3> QED
      BY <3>1, <3>2
  <2>2. PICK i \in I : D.body = app.decls[p][i]
    BY <2>1
  <2>3. /\ D.body \in Fn /\ IsDeclared(D.body) /\ app.name[D.body] = n
    BY <2>2, ListedIsDeclared
  <2> QED
    BY <2>3, SentinelAssumption
<1> QED
  BY <1>3, <1>4

LEMMA EntryTyped ==
  ASSUME IInv, NEW f \in Fn
  PROVE  /\ app.pkg[f] \in Pkg /\ app.name[f] \in Name
         /\ Entry(f) \in [body : Fn \cup {NoFn}, traced : BOOLEAN]
<1>1. app.pkg[f] \in Pkg /\ app.name[f] \in Name
  BY AppTyped DEF IInv, AppType
<1> QED
  BY <1>1 DEF IInv, TypeOK, ControlTypeOK, Entry

(* What starts is a function the top activation's may start.               *)
LEMMA BegunKnown ==
  ASSUME IInv, TablesNamed, Walking, NEW u, NEW g \in Fn, NEW k, Begins(u, g, k)
  PROVE  /\ g \in Starts(app, Top.fn)
         /\ k \in {"call", "go", "lit"}
         /\ k = "lit" <=> g \in app.lits
         /\ g \notin app.lits => IsDeclared(g) /\ ~Entry(g).traced
<1>1. /\ Top.fn \in Fn /\ Top.pc \in DOMAIN app.body[Top.fn]
      /\ TopNode = app.body[Top.fn][Top.pc]
      /\ Top.call \in DOMAIN TopNode.calls => TopCall \in Site
  BY TopNodeTyped DEF Walking, TopNode
<1>2. CASE k = "lit" /\ HoldsLiteral(TopNode) /\ g = TopNode.lit
  <2>1. g \in app.lits
    BY <1>1, <1>2, AppTyped DEF IInv, WellFormed
  <2> QED
    BY <1>1, <1>2, <2>1 DEF Starts
<1>3. CASE /\ k \in {"call", "go"} /\ Top.call \in DOMAIN TopNode.calls
           /\ ShouldInstrument(TopCall) /\ g = InvDecl(TopCall)
  <2> DEFINE h == app.to[TopCall]
  <2>1. h \in Fn
    BY <1>1, <1>3, AppTyped DEF IInv, AppType
  <2>2. /\ g # NoFn /\ h \notin app.lits /\ g = Entry(h).body /\ ~Entry(h).traced
    BY <1>3 DEF ShouldInstrument, InvDecl
  <2>3. app.pkg[h] \in Pkg /\ app.name[h] \in Name
    BY <2>1, EntryTyped
  <2>4. app.pkg[g] = app.pkg[h]
    BY <2>2, <2>3 DEF IInv, DeclarationsAtHome, Entry
  <2>5. IsDeclared(g) /\ app.name[g] = app.name[h]
    BY <2>2, <2>3 DEF TablesNamed, Entry
  <2>6. g \notin app.lits
    BY <2>5, DeclaredIsNoLiteral DEF IInv
  <2>7. Entry(g) = Entry(h)
    BY <2>4, <2>5 DEF Entry
  <2>8. h = app.to[app.body[Top.fn][Top.pc].calls[Top.call]]
    BY <1>1 DEF TopCall
  <2>9. g \in Starts(app, Top.fn)
    BY <1>1, <1>3, <2>2, <2>4, <2>5, <2>6, <2>8 DEF Starts
  <2> QED
    BY <1>3, <2>2, <2>5, <2>6, <2>7, <2>9
<1> QED
  BY <1>2, <1>3 DEF Begins, AtNextCall

(* What only grows, and what only shrinks.                                 *)
LEMMA WaitingShrinks ==
  ASSUME IInv, [Next]_vars
  PROVE  app' = app /\ Waiting' \subseteq Waiting
<1>1. ASSUME NEW p \in Pkg, StartPackage(p)
      PROVE  app' = app /\ Waiting' \subseteq Waiting
  <2>1. /\ app' = app /\ pending' = pending \ {p} /\ p \in pending
        /\ roots' = app.decls[p]
    BY <1>1 DEF StartPackage
  <2>2. \A i \in DOMAIN app.decls[p] :
          IsDeclared(app.decls[p][i]) /\ app.pkg[app.decls[p][i]] = p
    BY ListedIsDeclared DEF IInv
  <2>3. ASSUME NEW f \in Fn, NEW i \in DOMAIN app.decls[p], app.decls[p][i] = f
        PROVE  f \in Waiting
    BY <2>1, <2>2, <2>3 DEF Waiting, Visiting, IsDeclared
  <2>4. ASSUME NEW f \in Fn, IsDeclared(f), app.pkg[f] \in pending
        PROVE  f \in Waiting
    BY <2>4 DEF Waiting, Visiting, IsDeclared
  <2>5. \A f \in Fn : IsDeclared(f)' <=> IsDeclared(f)
    BY <2>1 DEF IsDeclared
  <2> QED
    BY <2>1, <2>3, <2>4, <2>5 DEF Waiting, Visiting
<1>2. ASSUME roots # << >>, roots' = Tail(roots), UNCHANGED <<app, pending>>
      PROVE  app' = app /\ Waiting' \subseteq Waiting
  <2>1. roots \in Seq(Fn)
    BY DEF IInv, TypeOK, ControlTypeOK
  <2>2. \A k \in DOMAIN roots' : k + 1 \in DOMAIN roots /\ roots'[k] = roots[k + 1]
    BY <1>2, <2>1
  <2> QED
    BY <1>2, <2>2 DEF Waiting, Visiting, IsDeclared
<1>3. CASE VisitMain \/ VisitDecl
  BY <1>2, <1>3 DEF VisitMain, VisitDecl
<1>4. ASSUME UNCHANGED <<app, pending, roots>>
      PROVE  app' = app /\ Waiting' \subseteq Waiting
  BY <1>4 DEF Waiting, Visiting, IsDeclared
<1>5. CASE BeginFunction \/ EndFunction \/ UNCHANGED vars
  BY <1>4, <1>5 DEF BeginFunction, EndFunction, vars, control
<1>6. ASSUME NEW u, WalkStep(u) PROVE UNCHANGED <<app, pending, roots>>
  BY <1>6 DEF WalkStep
<1> QED
  BY <1>1, <1>3, <1>4, <1>5, <1>6, StepCases

LEMMA DeclTextStep ==
  ASSUME IInv, [Next]_vars
  PROVE  \/ UNCHANGED <<txnParams, segments>>
         \/ BeginFunction
<1>1. \A p \in Pkg : StartPackage(p) => UNCHANGED <<txnParams, segments>>
  BY DEF StartPackage, declText
<1>2. \A u : WalkStep(u) => UNCHANGED <<txnParams, segments>>
  BY DEF WalkStep, declText
<1> QED
  BY <1>1, <1>2, StepCases DEF VisitMain, VisitDecl, EndFunction, vars, declText

LEMMA BeginText ==
  ASSUME IInv, BeginFunction
  PROVE  LET f == Top.fn
         IN  /\ \A g \in Fn \ {f} : /\ txnParams'[g] = txnParams[g]
                                    /\ segments'[g] = segments[g]
             /\ txnParams'[f] = IF Handed(Top) /\ app.param[f] # "ctx"
                                THEN txnParams[f] + 1 ELSE txnParams[f]
             /\ segments'[f] = IF Handed(Top) THEN segments[f] + 1 ELSE segments[f]
             /\ txnDefs' = txnDefs
             /\ f \in Fn /\ txnParams[f] \in Nat /\ segments[f] \in Nat
<1>1. Top.fn \in Fn
  BY TopTyped DEF IInv, BeginFunction, Running, Frame
<1>2. txnParams \in [Fn -> Nat] /\ segments \in [Fn -> Nat]
  BY DEF IInv, TypeOK, TextTypeOK, EditCounts
<1>3. /\ txnParams' = IF Handed(Top) /\ ~(app.param[Top.fn] = "ctx")
                      THEN [txnParams EXCEPT ![Top.fn] = @ + 1] ELSE txnParams
      /\ segments' = IF Handed(Top) THEN [segments EXCEPT ![Top.fn] = @ + 1]
                                    ELSE segments
      /\ txnDefs' = txnDefs
  BY DEF BeginFunction, Handed
<1> QED
  BY <1>1, <1>2, <1>3

LEMMA TextGrows ==
  ASSUME IInv, [Next]_vars
  PROVE  \A f \in Fn : /\ segments[f] > 0 => segments'[f] > 0
                       /\ txnParams[f] > 0 => txnParams'[f] > 0
<1>1. CASE BeginFunction
  <2> TAKE f \in Fn
  <2>1. CASE f = Top.fn
    BY <1>1, <2>1, BeginText
  <2>2. CASE f # Top.fn
    BY <1>1, <2>2, BeginText
  <2> QED
    BY <2>1, <2>2
<1>2. CASE UNCHANGED <<txnParams, segments>>
  BY <1>2
<1> QED
  BY <1>1, <1>2, DeclTextStep

LEMMA TablesStep ==
  ASSUME IInv, [Next]_vars
  PROVE  tracedFuncs' = tracedFuncs \/ EndFunction
<1>1. \A p \in Pkg : StartPackage(p) => tracedFuncs' = tracedFuncs
  BY DEF StartPackage
<1>2. \A u : WalkStep(u) => tracedFuncs' = tracedFuncs
  BY DEF WalkStep
<1> QED
  BY <1>1, <1>2, StepCases DEF VisitMain, VisitDecl, BeginFunction, vars

LEMMA EndMarks ==
  ASSUME IInv, TablesNamed, EndFunction, FrameOK(Top)
  PROVE  LET f == Top.fn
             m == [body |-> f, traced |-> TRUE]
         IN  /\ f \in Fn /\ app' = app
             /\ \A p \in Pkg, n \in Name :
                  \/ tracedFuncs'[p][n] = tracedFuncs[p][n]
                  \/ /\ tracedFuncs'[p][n] = m
                     /\ IsDeclared(f) /\ p = app.pkg[f] /\ n = app.name[f]
             /\ f \notin app.lits => tracedFuncs'[app.pkg[f]][app.name[f]] = m
<1> DEFINE f == Top.fn
           m == [body |-> f, traced |-> TRUE]
<1>1. f \in Fn /\ stack # << >> /\ Top \in Frame
  BY TopTyped DEF IInv, EndFunction, Running, Frame
<1>2. currentPackage = app.pkg[f] /\ app.pkg[f] \in Pkg /\ app.name[f] \in Name
  BY <1>1, EntryTyped DEF IInv, PackagesLinked, ActivePackage
<1>3. CASE Top.kind = "lit"
  <2>1. tracedFuncs' = tracedFuncs /\ f \in app.lits /\ app' = app
    BY <1>3 DEF EndFunction, FrameOK
  <2> QED
    BY <1>1, <2>1
<1>4. CASE Top.kind # "lit"
  <2>1. IsDeclared(f)
    BY <1>4 DEF FrameOK
  <2>2. tracedFuncs[app.pkg[f]][app.name[f]].body # NoFn
    BY <1>1, <2>1 DEF TablesNamed, Entry
  <2>3. tracedFuncs' = [tracedFuncs EXCEPT ![app.pkg[f]][app.name[f]] = m]
    BY <1>2, <1>4, <2>2 DEF EndFunction, UpdateFunctionDeclaration
  <2>4. tracedFuncs \in [Pkg -> [Name -> [body : Fn \cup {NoFn}, traced : BOOLEAN]]]
    BY DEF IInv, TypeOK, ControlTypeOK
  <2>5. app' = app
    BY DEF EndFunction
  <2> HIDE DEF m
  <2> QED
    BY <1>1, <1>2, <2>1, <2>3, <2>4, <2>5 DEF m
<1> QED
  BY <1>3, <1>4

LEMMA TablesNamedKept ==
  ASSUME IInv, ShapeInv, [Next]_vars
  PROVE  TablesNamed'
<1>1. app' = app
  BY WaitingShrinks
<1>2. CASE tracedFuncs' = tracedFuncs
  BY <1>1, <1>2 DEF ShapeInv, TablesNamed, IsDeclared, Entry
<1>3. CASE EndFunction
  <2>1. FrameOK(Top)
    BY <1>3, TopOK DEF EndFunction, Running
  <2>2. TablesNamed
    BY DEF ShapeInv
  <2> DEFINE f == Top.fn
             m == [body |-> f, traced |-> TRUE]
  <2>3. /\ f \in Fn
        /\ \A p \in Pkg, n \in Name :
             \/ tracedFuncs'[p][n] = tracedFuncs[p][n]
             \/ /\ tracedFuncs'[p][n] = m
                /\ IsDeclared(f) /\ p = app.pkg[f] /\ n = app.name[f]
    BY <1>3, <2>1, <2>2, EndMarks
  <2>4. m.body = f /\ f # NoFn
    BY <2>3, SentinelAssumption
  <2> HIDE DEF f, m
  <2>5. ASSUME NEW p \in Pkg, NEW n \in Name, tracedFuncs'[p][n].body # NoFn
        PROVE  /\ IsDeclared(tracedFuncs'[p][n].body)
               /\ app.name[tracedFuncs'[p][n].body] = n
    BY <2>2, <2>3, <2>4, <2>5 DEF TablesNamed
  <2>6. ASSUME NEW g \in Fn, IsDeclared(g)
        PROVE  tracedFuncs'[app.pkg[g]][app.name[g]].body # NoFn
    <3>1. app.pkg[g] \in Pkg /\ app.name[g] \in Name
      BY EntryTyped
    <3> QED
      BY <2>2, <2>3, <2>4, <2>6, <3>1 DEF TablesNamed, Entry
  <2> QED
    BY <1>1, <2>5, <2>6 DEF TablesNamed, IsDeclared, Entry
<1> QED
  BY <1>2, <1>3, TablesStep

LEMMA RootsDistinctKept ==
  ASSUME IInv, ShapeInv, [Next]_vars
  PROVE  RootsDistinct'
<1>1. ASSUME NEW p \in Pkg, StartPackage(p)
      PROVE  RootsDistinct'
  <2>1. app' = app /\ pending' = pending \ {p} /\ roots' = app.decls[p]
    BY <1>1 DEF StartPackage
  <2>2. \A i \in DOMAIN app.decls[p] :
          IsDeclared(app.decls[p][i]) /\ app.pkg[app.decls[p][i]] = p
    BY ListedIsDeclared DEF IInv
  <2>3. \A i, j \in DOMAIN app.decls[p] :
          app.decls[p][j] = app.decls[p][i] => j = i
    BY AppTyped DEF IInv, WellFormed
  <2> QED
    BY <2>1, <2>2, <2>3 DEF RootsDistinct, IsDeclared
<1>2. ASSUME roots # << >>, roots' = Tail(roots), UNCHANGED <<app, pending>>
      PROVE  RootsDistinct'
  <2>1. roots \in Seq(Fn)
    BY DEF IInv, TypeOK, ControlTypeOK
  <2>2. \A k \in DOMAIN roots' :
          k \in Nat /\ k + 1 \in DOMAIN roots /\ roots'[k] = roots[k + 1]
    BY <1>2, <2>1
  <2>3. RootsDistinct
    BY DEF ShapeInv
  <2>4. ASSUME NEW k \in DOMAIN roots'
        PROVE  IsDeclared(roots'[k]) /\ app.pkg[roots'[k]] \notin pending
    BY <2>2, <2>3, <2>4 DEF RootsDistinct
  <2>5. ASSUME NEW k \in DOMAIN roots', NEW j \in DOMAIN roots', roots'[j] = roots'[k]
        PROVE  j = k
    <3>1. j + 1 = k + 1
      BY <2>2, <2>3, <2>5 DEF RootsDistinct
    <3> QED
      BY <2>2, <3>1
  <2> QED
    BY <1>2, <2>4, <2>5 DEF RootsDistinct, IsDeclared
<1>3. CASE VisitMain \/ VisitDecl
  BY <1>2, <1>3 DEF VisitMain, VisitDecl
<1>4. ASSUME UNCHANGED <<app, pending, roots>>
      PROVE  RootsDistinct'
  BY <1>4 DEF ShapeInv, RootsDistinct, IsDeclared
<1>5. CASE BeginFunction \/ EndFunction \/ UNCHANGED vars
  BY <1>4, <1>5 DEF BeginFunction, EndFunction, vars, control
<1>6. ASSUME NEW u, WalkStep(u) PROVE UNCHANGED <<app, pending, roots>>
  BY <1>6 DEF WalkStep
<1> QED
  BY <1>1, <1>3, <1>4, <1>5, <1>6, StepCases

LEMMA LinkedKept ==
  ASSUME IInv, ShapeInv, [Next]_vars
  PROVE  Linked'
<1>0. app' = app /\ Linked
  BY WaitingShrinks DEF ShapeInv
<1>1. CASE stack' = stack
  BY <1>0, <1>1 DEF Linked
<1>2. CASE VisitMain \/ VisitDecl
  <2>1. stack' = << >> \/ \E v : stack' = <<v>>
    BY <1>2 DEF VisitMain, VisitDecl
  <2>2. CASE stack' = << >>
    BY <2>2 DEF Linked
  <2>3. ASSUME NEW v, stack' = <<v>> PROVE Linked'
    <3>1. DOMAIN stack' = {1}
      BY <2>3
    <3> QED
      BY <3>1 DEF Linked
  <2> QED
    BY <2>1, <2>2, <2>3
<1>3. CASE BeginFunction
  <2>1. PICK u \in Frame : stack' = SetTop(u) /\ u.fn = Top.fn
    BY <1>3, BeginFunctionMoves
  <2>2. stack # << >> /\ TypeOK
    BY <1>3 DEF BeginFunction, Running, IInv
  <2>3. /\ DOMAIN stack' = DOMAIN stack
        /\ \A k \in DOMAIN stack : stack'[k].fn = stack[k].fn
    BY <2>1, <2>2, TopReplaced DEF Top
  <2> QED
    BY <1>0, <2>3 DEF Linked
<1>4. ASSUME NEW u, WalkStep(u), stack' # stack PROVE Linked'
  <2> DEFINE n == Len(stack)
  <2>1. /\ n \in Nat \ {0} /\ DOMAIN stack = 1 .. n /\ Top = stack[n]
        /\ u.fn = Top.fn
    BY <1>4, WalkStack
  <2>2. CASE DOMAIN stack' = 1 .. n /\ Below(n, u)
    <3>1. \A k \in 1 .. n : stack'[k].fn = stack[k].fn
      BY <2>1, <2>2 DEF Below
    <3> QED
      BY <1>0, <2>1, <2>2, <3>1 DEF Linked
  <2>3. ASSUME NEW g \in Fn, NEW k \in FrameKind, Begins(u, g, k),
               DOMAIN stack' = 1 .. n + 1, Below(n, u),
               stack'[n + 1] = NewFrame(g, k, currentPackage)
        PROVE  Linked'
    <3>1. \A i \in 1 .. n : stack'[i].fn = stack[i].fn
      BY <2>1, <2>3 DEF Below
    <3>2. stack'[n + 1].fn = g
      BY <2>3 DEF NewFrame
    <3>3. g \in Starts(app, stack[n].fn)
      BY <1>4, <2>1, <2>3, BegunKnown DEF WalkStep, ShapeInv
    <3>4. ASSUME NEW i \in 1 .. n + 1, i + 1 \in 1 .. n + 1
          PROVE  stack'[i + 1].fn \in Starts(app, stack'[i].fn)
      <4>1. CASE i = n
        BY <3>1, <3>2, <3>3, <4>1, <2>1
      <4>2. CASE i # n
        <5>1. i \in 1 .. n /\ i + 1 \in 1 .. n
          <6>1. n \in Nat
            BY <2>1
          <6> HIDE DEF n
          <6> QED
            BY <3>4, <4>2, <6>1
        <5> QED
          BY <1>0, <2>1, <3>1, <5>1 DEF Linked
      <4> QED
        BY <4>1, <4>2
    <3> QED
      BY <1>0, <2>3, <3>4 DEF Linked
  <2> QED
    BY <1>4, <2>2, <2>3, WalkStack
<1>5. CASE EndFunction
  <2>1. stack' = SubSeq(stack, 1, Len(stack) - 1) /\ stack # << >> /\ TypeOK
    BY <1>5 DEF EndFunction, Running, IInv
  <2>2. \A k \in DOMAIN stack' : k \in DOMAIN stack /\ stack'[k] = stack[k]
    BY <2>1, TopPopped
  <2> QED
    BY <1>0, <2>2 DEF Linked
<1>6. ASSUME NEW p \in Pkg, StartPackage(p) PROVE stack' = stack
  BY <1>6 DEF StartPackage
<1>7. CASE UNCHANGED vars
  BY <1>1, <1>7 DEF vars
<1> QED
  BY <1>1, <1>2, <1>3, <1>4, <1>5, <1>6, <1>7, StepCases

(* What is good about a frame stays good while the frame does not change.  *)
LEMMA FramesOKStay ==
  ASSUME IInv, [Next]_vars
  PROVE  FramesOK \subseteq FramesOK'
<1> SUFFICES ASSUME NEW t \in Frame, FrameOK(t)
             PROVE  t \in FramesOK'
  BY DEF FramesOK
<1>1. app' = app /\ Waiting' \subseteq Waiting /\ t.fn \in Fn
  BY WaitingShrinks DEF Frame
<1>2. /\ segments[t.fn] > 0 => segments'[t.fn] > 0
      /\ txnParams[t.fn] > 0 => txnParams'[t.fn] > 0
  BY <1>1, TextGrows
<1> QED
  BY <1>1, <1>2 DEF FramesOK, FrameOK, IsDeclared

(* A root that is taken.                                                   *)
LEMMA RootTaken ==
  ASSUME IInv, ShapeInv, VisitMain \/ VisitDecl
  PROVE  LET f == Head(roots)
         IN  /\ f \in Fn /\ IsDeclared(f) /\ f \notin app.lits
             /\ f \in Waiting /\ f \notin Waiting' /\ app' = app
             /\ \/ stack' = << >>
                \/ /\ f \in app.mains
                   /\ stack' = <<NewFrame(f, "main", currentPackage)>>
                \/ /\ f \notin app.mains /\ IsHandler(f)
                   /\ stack' = <<NewFrame(f, "handler", currentPackage)>>
<1> DEFINE f == Head(roots)
<1>1. /\ roots # << >> /\ roots' = Tail(roots) /\ app' = app /\ pending' = pending
      /\ roots \in Seq(Fn)
  BY DEF VisitMain, VisitDecl, IInv, TypeOK, ControlTypeOK
<1>2. /\ f = roots[1] /\ 1 \in DOMAIN roots /\ f \in Fn
      /\ \A k \in DOMAIN roots' :
           k \in Nat \ {0} /\ k + 1 \in DOMAIN roots /\ roots'[k] = roots[k + 1]
  BY <1>1
<1>3. RootsDistinct
  BY DEF ShapeInv
<1>4. IsDeclared(f) /\ app.pkg[f] \notin pending
  BY <1>2, <1>3 DEF RootsDistinct
<1>5. f \notin app.lits
  BY <1>2, <1>4, DeclaredIsNoLiteral DEF IInv
<1>6. f \in Waiting
  BY <1>2 DEF Waiting, Visiting
<1>7. ASSUME NEW k \in DOMAIN roots', roots'[k] = f PROVE FALSE
  <2>1. k \in Nat \ {0} /\ k + 1 \in DOMAIN roots /\ roots[k + 1] = roots[1]
    BY <1>2, <1>7
  <2>2. k + 1 = 1
    BY <1>2, <1>3, <2>1 DEF RootsDistinct
  <2> QED
    BY <2>1, <2>2
<1>8. f \notin Waiting'
  BY <1>1, <1>4, <1>7 DEF Waiting, Visiting
<1>9. \/ stack' = << >>
      \/ f \in app.mains /\ stack' = <<NewFrame(f, "main", currentPackage)>>
      \/ /\ f \notin app.mains /\ IsHandler(f)
         /\ stack' = <<NewFrame(f, "handler", currentPackage)>>
  BY DEF VisitMain, VisitDecl
<1> QED
  BY <1>1, <1>2, <1>4, <1>5, <1>6, <1>8, <1>9

LEMMA AllFramesOKKept ==
  ASSUME IInv, ShapeInv, [Next]_vars
  PROVE  AllFramesOK'
<1>0. FramesOK \subseteq FramesOK' /\ AllFramesOK
  BY FramesOKStay DEF ShapeInv
<1>1. CASE stack' = stack
  BY <1>0, <1>1 DEF AllFramesOK
<1>2. CASE VisitMain \/ VisitDecl
  <2> DEFINE f == Head(roots)
  <2>1. ASSUME NEW k \in {"main", "handler"},
               k = "main" => f \in app.mains, k = "handler" => IsHandler(f),
               stack' = <<NewFrame(f, k, currentPackage)>>
        PROVE  AllFramesOK'
    <3> DEFINE v == NewFrame(f, k, currentPackage)
    <3>1. v \in Frame
      BY <1>2, RootTaken, NewFrameTyped DEF FrameKind, IInv, TypeOK, ControlTypeOK
    <3>2. /\ f \in Fn /\ IsDeclared(f) /\ f \notin app.lits
          /\ f \notin Waiting' /\ app' = app
      BY <1>2, RootTaken
    <3>3. /\ v.fn = f /\ v.kind = k /\ v.obj = "txn" /\ v.pc = 0
          /\ v.definedTxn = FALSE
      BY DEF NewFrame
    <3>4. stack' = <<v>>
      BY <2>1
    <3>5. k = "handler" => app.param[f] = "handler"
      BY <2>1 DEF IsHandler
    <3> HIDE DEF v, f
    <3>6. v \in FramesOK'
      BY <2>1, <3>1, <3>2, <3>3, <3>5 DEF FramesOK, FrameOK, Handed, IsDeclared
    <3>7. \A k2 \in DOMAIN stack' : stack'[k2] = v
      BY <3>4
    <3> QED
      BY <3>6, <3>7 DEF AllFramesOK
  <2>2. CASE stack' = << >>
    BY <2>2 DEF AllFramesOK
  <2> QED
    BY <1>2, <2>1, <2>2, RootTaken
<1>3. CASE BeginFunction
  <2>1. PICK u \in Frame :
          /\ stack' = SetTop(u) /\ Same(u, Top) /\ u.fn = Top.fn /\ u.pc = 1
          /\ u.definedTxn = Top.definedTxn
          /\ u.obj = IF Handed(Top) /\ app.param[Top.fn] = "ctx" THEN "ctx" ELSE "txn"
    BY <1>3, BeginFunctionMoves
  <2>2. stack # << >> /\ TypeOK
    BY <1>3 DEF BeginFunction, Running, IInv
  <2>3. Top \in FramesOK'
    BY <1>0, <2>2, TopOK
  <2>4. app' = app /\ Top.fn \in Fn
    BY <2>2, WaitingShrinks, TopOK DEF Frame
  <2>5. /\ Handed(Top) => segments'[Top.fn] > 0
        /\ Handed(Top) /\ app.param[Top.fn] # "ctx" => txnParams'[Top.fn] > 0
    BY <1>3, BeginText
  <2> DEFINE t == Top
  <2>6. /\ u.fn = t.fn /\ u.kind = t.kind /\ u.obj \in {"ctx", "txn"}
        /\ u.obj = "ctx" => Handed(t) /\ app.param[t.fn] = "ctx"
    BY <2>1 DEF Same
  <2>7. u.definedTxn = t.definedTxn
    BY <2>1
  <2>8. t \in FramesOK' /\ Handed(t) => segments'[t.fn] > 0
    BY <2>3, <2>5
  <2>9. u \in FramesOK'
    <3>1. t \in FramesOK' /\ (Handed(t) => segments'[t.fn] > 0)
          /\ (Handed(t) /\ app.param[t.fn] # "ctx" => txnParams'[t.fn] > 0)
      BY <2>3, <2>5
    <3> HIDE DEF t
    <3> QED
      BY <2>1, <2>4, <2>6, <2>7, <3>1 DEF FramesOK, FrameOK, Handed, IsDeclared
  <2>10. \A k \in DOMAIN stack' :
           k \in DOMAIN stack /\ stack'[k] = IF k = Len(stack) THEN u ELSE stack[k]
    BY <2>1, <2>2, TopReplaced
  <2> QED
    BY <1>0, <2>9, <2>10 DEF AllFramesOK
<1>4. ASSUME NEW u, WalkStep(u), stack' # stack PROVE AllFramesOK'
  <2> DEFINE n == Len(stack)
  <2>1. /\ n \in Nat \ {0} /\ DOMAIN stack = 1 .. n /\ Top = stack[n]
        /\ u.fn = Top.fn /\ u.kind = Top.kind /\ u \in Frame /\ Top \in Frame
        /\ stack # << >>
    BY <1>4, WalkStack DEF WalkStep, Walking, Running
  <2>2. /\ app' = app /\ segments' = segments /\ txnParams' = txnParams
        /\ u.obj = Top.obj /\ Top.pc > 0
    <3>1. Top.pc \in DOMAIN app.body[Top.fn] /\ Top.fn \in Fn
      BY <1>4, <2>1 DEF WalkStep, Walking, Frame
    <3>2. app.body[Top.fn] \in Seq(Node)
      BY <3>1, AppTyped DEF AppType, IInv
    <3> QED
      BY <1>4, <3>1, <3>2 DEF WalkStep, declText, Continues
  <2>3. u.definedTxn = Top.definedTxn \/ Top.kind = "main"
    BY <1>4 DEF WalkStep, DefsStep
  <2>4. Top \in FramesOK'
    BY <1>0, <2>1, TopOK
  <2>5. u \in FramesOK'
    <3> DEFINE t == Top
    <3>1. /\ t \in FramesOK' /\ t.pc > 0 /\ u.fn = t.fn /\ u.kind = t.kind
          /\ u.obj = t.obj /\ (u.definedTxn = t.definedTxn \/ t.kind = "main")
      BY <2>1, <2>2, <2>3, <2>4
    <3> HIDE DEF t
    <3> QED
      BY <2>1, <3>1 DEF FramesOK, FrameOK, Handed, IsDeclared
  <2>6. CASE DOMAIN stack' = 1 .. n /\ Below(n, u)
    BY <1>0, <2>1, <2>5, <2>6 DEF AllFramesOK, Below
  <2>7. ASSUME NEW g \in Fn, NEW k \in FrameKind, Begins(u, g, k),
               DOMAIN stack' = 1 .. n + 1, Below(n, u),
               stack'[n + 1] = NewFrame(g, k, currentPackage)
        PROVE  AllFramesOK'
    <3> DEFINE v == NewFrame(g, k, currentPackage)
    <3>1. v \in Frame
      BY NewFrameTyped DEF IInv, TypeOK, ControlTypeOK
    <3>2. /\ v.fn = g /\ v.kind = k /\ v.obj = "txn" /\ v.pc = 0
          /\ v.definedTxn = FALSE
      BY DEF NewFrame
    <3>3. /\ k \in {"call", "go", "lit"}
          /\ k = "lit" <=> g \in app.lits
          /\ g \notin app.lits => IsDeclared(g)
      BY <1>4, <2>7, BegunKnown DEF WalkStep, ShapeInv
    <3>4. stack'[n + 1] = v
      BY <2>7
    <3> HIDE DEF v
    <3>5. v \in FramesOK'
      <4>1. app' = app /\ ~v.definedTxn /\ ~(v.pc > 0) /\ v.kind # "main"
        BY <2>2, <3>2, <3>3
      <4>2. v.kind # "handler" /\ v.obj # "ctx" /\ Handed(v)
        BY <3>2, <3>3 DEF Handed
      <4>3. /\ v.kind = "lit" <=> v.fn \in app.lits
            /\ v.fn \notin app.lits => IsDeclared(v.fn)
        BY <3>2, <3>3
      <4> QED
        BY <3>1, <4>1, <4>2, <4>3 DEF FramesOK, FrameOK, Handed, IsDeclared
    <3>6. \A i \in 1 .. n : stack'[i] \in FramesOK'
      BY <1>0, <2>1, <2>5, <2>7 DEF AllFramesOK, Below
    <3>7. \A i \in 1 .. n + 1 : i \in 1 .. n \/ i = n + 1
      <4>1. n \in Nat
        BY <2>1
      <4> HIDE DEF n
      <4> QED
        BY <4>1
    <3> QED
      BY <2>7, <3>4, <3>5, <3>6, <3>7 DEF AllFramesOK
  <2> QED
    BY <1>4, <2>6, <2>7, WalkStack
<1>5. CASE EndFunction
  <2>1. stack' = SubSeq(stack, 1, Len(stack) - 1) /\ stack # << >> /\ TypeOK
    BY <1>5 DEF EndFunction, Running, IInv
  <2>2. \A k \in DOMAIN stack' : k \in DOMAIN stack /\ stack'[k] = stack[k]
    BY <2>1, TopPopped
  <2> QED
    BY <1>0, <2>2 DEF AllFramesOK
<1>6. ASSUME NEW p \in Pkg, StartPackage(p) PROVE stack' = stack
  BY <1>6 DEF StartPackage
<1>7. CASE UNCHANGED vars
  BY <1>1, <1>7 DEF vars
<1> QED
  BY <1>1, <1>2, <1>3, <1>4, <1>5, <1>6, <1>7, StepCases

LEMMA ShapeKept == IInv /\ ShapeInv /\ [Next]_vars => ShapeInv'
BY TablesNamedKept, RootsDistinctKept, LinkedKept, AllFramesOKKept DEF ShapeInv

LEMMA ShapeInitially ==
  ASSUME Init
  PROVE  ShapeInv
<1>1. app \in Apps /\ roots = << >> /\ stack = << >>
  BY DEF Init
<1>2. \A p \in Pkg, n \in Name : tracedFuncs[p][n] = StoredDecl(app, p, n)
  BY DEF Init
<1>3. \A p \in Pkg, n \in Name :
        tracedFuncs[p][n].body # NoFn =>
          IsDeclared(tracedFuncs[p][n].body) /\ app.name[tracedFuncs[p][n].body] = n
  BY <1>1, <1>2, StoredDeclNamed
<1>4. ASSUME NEW f \in Fn, IsDeclared(f)
      PROVE  Entry(f).body # NoFn
  <2>1. app.pkg[f] \in Pkg /\ app.name[f] \in Name
    BY <1>1, AppTyped DEF AppType
  <2>2. \E i \in DOMAIN app.decls[app.pkg[f]] :
          app.name[app.decls[app.pkg[f]][i]] = app.name[f]
    BY <1>4 DEF IsDeclared
  <2> QED
    BY <1>1, <1>2, <2>1, <2>2, StoredDeclNamed DEF Entry
<1> QED
  BY <1>1, <1>3, <1>4 DEF ShapeInv, TablesNamed, RootsDistinct, Linked, AllFramesOK

=============================================================================
