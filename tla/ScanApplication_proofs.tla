----------------------- MODULE ScanApplication_proofs -----------------------
(***************************************************************************)
(* Theorems about the scanning passes: types, that no call is taken for    *)
(* one of a transaction it cannot run in, that every name is left with one *)
(* declaration, that the first pass ends as its facts say, and that what   *)
(* is recorded of a transaction is all there is up to its End, in whatever *)
(* order the packages are visited.                                         *)
(***************************************************************************)
EXTENDS ScanApplication, SequenceTheorems, FiniteSetTheorems, TLAPS

-----------------------------------------------------------------------------
(* The inductive invariant.                                                *)

(* A frame's transaction: of its own function, not after another was       *)
(* started there; or one that reaches the function.                        *)
Linked(a, t) ==
  /\ t.key = NoKey => t.role = "detect"
  /\ t.key # NoKey =>
       /\ t.key.at \in DOMAIN a.body[t.key.fn]
       /\ t.key.at # 0
       /\ t.role = "detect" =>
            /\ t.key.fn = t.fn
            /\ t.key.at < t.pc
            /\ \A j \in t.key.at + 1 .. t.pc - 1 : ~Takes(a.body[t.fn][j])
       /\ t.role = "track" => t.fn \in Reached(a, t.key)

FramesLinked == \A i \in 1 .. Len(stack) : Linked(app, stack[i])

(* What is found under a name is a declaration of that name.               *)
NamesFound ==
  \A n \in Name : functions[n] # NoFn =>
    functions[n] \in Declared(app) /\ app.name[functions[n]] = n

RestDeclared == \A i \in 1 .. Len(rest) : rest[i] \in Declared(app)

(* The detectors are on the first declaration of those left.               *)
Visiting == stack # << >> => rest # << >> /\ phase # "declare"

(* A wrapped handler has the statements of its body, always the same.      *)
Statements(a, f) == {<<f, i>> : i \in {j \in DOMAIN a.body[f] :
                                         a.body[f][j].stmt = "top"}}
HandlersWhole ==
  \A k \in DOMAIN transactions :
    k.at = 0 => transactions[k].exprs = Statements(app, k.fn)

IInv == /\ app \in Apps
        /\ TypeOK /\ FramesLinked /\ NamesFound /\ RestDeclared
        /\ Visiting /\ HandlersWhole /\ ScopeReached

-----------------------------------------------------------------------------
(* Applications.                                                           *)

LEMMA AppTyped ==
  ASSUME app \in Apps
  PROVE  app \in AppType /\ WellFormed(app)
BY AppsAssumption

LEMMA CallTyped ==
  ASSUME app \in Apps, NEW f \in Fn, NEW i \in DOMAIN app.body[f]
  PROVE  /\ app.body[f][i] \in Call
         /\ app.body[f] \in Seq(Call)
         /\ i \in Nat \ {0} /\ i <= Len(app.body[f])
<1>1. app.body[f] \in Seq(Call)
  BY AppTyped DEF AppType
<1> QED
  BY <1>1

LEMMA DeclaredFn ==
  ASSUME app \in Apps
  PROVE  Declared(app) \subseteq Fn
<1>1. \A p \in Pkg : app.decls[p] \in Seq(Fn)
  BY AppTyped DEF AppType
<1> QED
  BY <1>1 DEF Declared

(* Reached contains what is handed the transaction and is closed under     *)
(* calls.                                                                  *)
LEMMA HandedReached ==
  ASSUME NEW k, NEW g \in Handed(app, k)
  PROVE  g \in Reached(app, k)
BY DEF Reached, Handed

LEMMA FollowsReached ==
  ASSUME NEW k, NEW h \in Reached(app, k), NEW g \in Follows(app, h)
  PROVE  g \in Reached(app, k)
<1> DEFINE F == [f \in Declared(app) |-> Follows(app, f)]
           C == {S \in SUBSET Declared(app) : \A f \in S : F[f] \subseteq S}
<1>1. Reached(app, k) = {f \in Declared(app) : \A S \in C : Handed(app, k) \subseteq S => f \in S}
  BY DEF Reached
<1>2. h \in Declared(app) /\ F[h] = Follows(app, h)
  BY <1>1
<1>3. g \in Declared(app)
  BY DEF Follows
<1>4. ASSUME NEW S \in C, Handed(app, k) \subseteq S
      PROVE  g \in S
  <2>1. h \in S
    BY <1>1, <1>4
  <2> QED
    BY <1>2, <2>1
<1> QED
  BY <1>1, <1>3, <1>4

-----------------------------------------------------------------------------
(* The stack.                                                              *)

StackOK == stack \in Seq(Frame) /\ FramesLinked

LEMMA TopTyped ==
  ASSUME StackOK, stack # << >>
  PROVE  Top \in Frame /\ Linked(app, Top) /\ Len(stack) \in Nat \ {0}
BY DEF StackOK, Top, FramesLinked

LEMMA Replaced ==
  ASSUME StackOK, stack # << >>, NEW t \in Frame, Linked(app, t),
         NEW s, s = [stack EXCEPT ![Len(stack)] = t]
  PROVE  s \in Seq(Frame) /\ \A i \in 1 .. Len(s) : Linked(app, s[i])
<1>1. /\ s \in Seq(Frame) /\ Len(s) = Len(stack)
      /\ \A i \in 1 .. Len(stack) : s[i] = IF i = Len(stack) THEN t ELSE stack[i]
  BY DEF StackOK
<1> QED
  BY <1>1 DEF StackOK, FramesLinked

LEMMA TopReplaced ==
  ASSUME StackOK, stack # << >>, app' = app, NEW t \in Frame, Linked(app, t),
         stack' = [stack EXCEPT ![Len(stack)] = t]
  PROVE  StackOK'
<1>1. stack' \in Seq(Frame) /\ \A i \in 1 .. Len(stack') : Linked(app, stack'[i])
  BY Replaced
<1> QED
  BY <1>1 DEF StackOK, FramesLinked

LEMMA FramePushed ==
  ASSUME NEW s \in Seq(Frame), \A i \in 1 .. Len(s) : Linked(app, s[i]),
         NEW u \in Frame, Linked(app, u), stack' = Append(s, u), app' = app
  PROVE  StackOK'
<1>1. /\ stack' \in Seq(Frame) /\ Len(stack') = Len(s) + 1
      /\ stack'[Len(s) + 1] = u
      /\ \A i \in 1 .. Len(s) : stack'[i] = s[i]
  OBVIOUS
<1>2. \A i \in 1 .. Len(stack') : Linked(app, stack'[i])
  BY <1>1
<1> QED
  BY <1>1, <1>2 DEF StackOK, FramesLinked

LEMMA FramePopped ==
  ASSUME StackOK, stack # << >>, app' = app,
         stack' = SubSeq(stack, 1, Len(stack) - 1)
  PROVE  StackOK'
<1> DEFINE n == Len(stack) - 1
<1>0. n \in Nat /\ n < Len(stack) /\ stack' = SubSeq(stack, 1, n)
  BY DEF StackOK
<1> HIDE DEF n
<1>1. /\ stack' \in Seq(Frame) /\ Len(stack') = n
      /\ \A i \in 1 .. Len(stack') : stack'[i] = stack[i]
  BY <1>0, SubSeqProperties DEF StackOK
<1>2. \A i \in 1 .. Len(stack') : Linked(app, stack'[i])
  BY <1>0, <1>1 DEF StackOK, FramesLinked
<1> QED
  BY <1>1, <1>2 DEF StackOK, FramesLinked

-----------------------------------------------------------------------------
(* What the steps do to the stack.                                         *)

LEMMA CallerLinked ==
  ASSUME IInv, Walking, ~(Top.role = "detect" /\ Takes(TopCall)),
         NEW t, t = [Top EXCEPT !.pc = @ + 1]
  PROVE  t \in Frame /\ Linked(app, t) /\ t.role = Top.role /\ t.key = Top.key
<1>1. Top \in Frame /\ Linked(app, Top) /\ Top.fn \in Fn
  BY TopTyped DEF IInv, TypeOK, ControlTypeOK, StackOK, Walking, Frame
<1>2. /\ t \in Frame /\ t.pc = Top.pc + 1
      /\ t.fn = Top.fn /\ t.role = Top.role /\ t.key = Top.key
  BY <1>1 DEF Frame
<1>3. ASSUME Top.role = "detect", Top.key # NoKey
      PROVE  \A j \in Top.key.at + 1 .. Top.pc : ~Takes(app.body[Top.fn][j])
  BY <1>1, <1>3 DEF Linked, TopCall, Frame, Key
<1>4. Top.pc \in Nat /\ (Top.key # NoKey => Top.key.at \in Nat)
  BY <1>1 DEF Frame, Key
<1> QED
  BY <1>1, <1>2, <1>3, <1>4 DEF Linked

LEMMA CallerMoves ==
  ASSUME IInv, Walking, ~(Top.role = "detect" /\ Takes(TopCall)),
         stack' = Caller, app' = app
  PROVE  StackOK'
<1> DEFINE t == [Top EXCEPT !.pc = @ + 1]
<1>1. t \in Frame /\ Linked(app, t)
  BY CallerLinked
<1>2. StackOK /\ stack # << >>
  BY DEF IInv, TypeOK, ControlTypeOK, StackOK, Walking
<1>3. stack' = [stack EXCEPT ![Len(stack)] = t]
  BY <1>2, TopTyped DEF Caller, Top, StackOK
<1> HIDE DEF t
<1> QED
  BY <1>1, <1>2, <1>3, TopReplaced

(* trackFunctionCalls starts on a function the transaction reaches.        *)
LEMMA TrackStarts ==
  ASSUME IInv, Walking, ~(Top.role = "detect" /\ Takes(TopCall)),
         NEW n \in Name, Top.key # NoKey, functions[n] # NoFn,
         functions[n] \in Reached(app, Top.key),
         TrackFunctionCalls(n, Top.key), app' = app, phase = "detect"
  PROVE  StackOK' /\ phase' \in Phase \ {"declare"}
<1> DEFINE t == [Top EXCEPT !.pc = @ + 1]
           u == [fn |-> functions[n], pc |-> 1, role |-> "track",
                 key |-> Top.key, has |-> FALSE]
<1>1. t \in Frame /\ Linked(app, t)
  BY CallerLinked
<1>2. StackOK /\ stack # << >>
  BY DEF IInv, TypeOK, ControlTypeOK, StackOK, Walking
<1>3. Top \in Frame /\ Linked(app, Top)
  BY <1>2, TopTyped
<1>4. u \in Frame
  <2>1. functions[n] \in Fn
    BY DEF IInv, TypeOK, CacheTypeOK
  <2> QED
    BY <1>3, <2>1 DEF Frame
<1>5. Linked(app, u)
  BY <1>3 DEF Linked
<1>6. CASE Len(stack) < MaxDepth
  <2>1. stack' = Append(Caller, u) /\ phase' = phase
    BY <1>6 DEF TrackFunctionCalls
  <2>2. Caller = [stack EXCEPT ![Len(stack)] = t]
    BY <1>2, TopTyped DEF Caller, Top, StackOK
  <2> HIDE DEF t, u
  <2>3. Caller \in Seq(Frame) /\ \A i \in 1 .. Len(Caller) : Linked(app, Caller[i])
    BY <1>1, <1>2, <2>2, Replaced
  <2>4. StackOK'
    BY <1>4, <1>5, <2>1, <2>3, FramePushed
  <2> QED
    BY <2>1, <2>4 DEF Phase
<1>7. CASE ~(Len(stack) < MaxDepth)
  BY <1>2, <1>7 DEF TrackFunctionCalls, StackOK, FramesLinked, Phase
<1> QED
  BY <1>6, <1>7

-----------------------------------------------------------------------------
(* The transaction cache, entry by entry.                                  *)

Good(a, k, d) ==
  /\ k \in Key /\ k.at \in {0} \cup DOMAIN a.body[k.fn]
  /\ d \in Data(a)
  /\ k.at # 0 => \A x \in d.exprs :
                   x \in {k.fn} \X Own(a, k) \/ x[1] \in Reached(a, k)
  /\ k.at = 0 => d.exprs = Statements(a, k.fn)

CacheGood == \A k \in DOMAIN transactions : Good(app, k, transactions[k])

LEMMA CacheGoodMeans ==
  CacheGood <=> /\ DOMAIN transactions \subseteq
                     {k \in Key : k.at \in {0} \cup DOMAIN app.body[k.fn]}
                /\ \A k \in DOMAIN transactions : transactions[k] \in Data(app)
                /\ ScopeReached /\ HandlersWhole
<1>1. ScopeReached <=>
        \A k \in DOMAIN transactions : k.at # 0 =>
          \A x \in transactions[k].exprs :
            x \in {k.fn} \X Own(app, k) \/ x[1] \in Reached(app, k)
  BY DEF ScopeReached
<1> QED
  BY <1>1 DEF CacheGood, Good, HandlersWhole

LEMMA IInvGood ==
  ASSUME IInv
  PROVE  CacheGood /\ StackOK
BY CacheGoodMeans DEF IInv, TypeOK, CacheTypeOK, ControlTypeOK, StackOK

LEMMA CurrentCall ==
  ASSUME IInv, Walking
  PROVE  /\ Top \in Frame /\ Linked(app, Top) /\ Top.fn \in Fn
         /\ Top.pc \in DOMAIN app.body[Top.fn] /\ Top.pc \in Nat \ {0}
         /\ TopCall \in Call /\ <<Top.fn, Top.pc>> \in Calls(app)
         /\ phase = "detect" /\ stack # << >>
<1>1. Top \in Frame /\ Linked(app, Top) /\ Top.fn \in Fn
  BY IInvGood, TopTyped DEF Walking, Frame
<1>2. Top.pc \in DOMAIN app.body[Top.fn]
  BY DEF Walking
<1> QED
  BY <1>1, <1>2, CallTyped DEF IInv, Calls, TopCall, Walking

(* The call is one of the transaction it is added to.                      *)
LEMMA CallAdded ==
  ASSUME IInv, Walking, Top.key # NoKey, app' = app,
         ~(Top.role = "detect" /\ Takes(TopCall)),
         AddCall(Top.key, <<Top.fn, Top.pc>>)
  PROVE  CacheGood'
<1> DEFINE k == Top.key
           x == <<Top.fn, Top.pc>>
           d == [exprs  |-> DataOf(k).exprs \cup {x},
                 closed |-> IsTxnEnd(k, app.body[x[1]][x[2]])]
<1>1. /\ k \in Key /\ k.at # 0 /\ k.at \in DOMAIN app.body[k.fn]
      /\ x \in Calls(app)
  BY CurrentCall DEF Linked, Frame
<1>2. x \in {k.fn} \X Own(app, k) \/ x[1] \in Reached(app, k)
  <2>1. CASE Top.role = "track"
    BY <2>1, CurrentCall DEF Linked
  <2>2. CASE Top.role = "detect"
    <3>1. /\ k.fn = Top.fn /\ k.at < Top.pc /\ k.at \in Nat
          /\ \A j \in k.at + 1 .. Top.pc - 1 : ~Takes(app.body[Top.fn][j])
      BY <1>1, <2>2, CurrentCall DEF Linked, Key
    <3>2. ~Takes(app.body[Top.fn][Top.pc])
      BY <2>2 DEF TopCall
    <3>3. \A j \in k.at + 1 .. Top.pc : ~Takes(app.body[Top.fn][j])
      BY <3>1, <3>2, CurrentCall
    <3>4. Top.pc \in Own(app, k)
      BY <3>1, <3>3, CurrentCall DEF Own
    <3> QED
      BY <3>1, <3>4
  <2> QED
    BY <2>1, <2>2, CurrentCall DEF Frame
<1>3. /\ DataOf(k).exprs \subseteq Calls(app)
      /\ \A y \in DataOf(k).exprs :
           y \in {k.fn} \X Own(app, k) \/ y[1] \in Reached(app, k)
  BY <1>1, IInvGood DEF DataOf, NoData, CacheGood, Good, Data
<1>4. Good(app, k, d)
  <2>1. d \in Data(app)
    BY <1>1, <1>3 DEF Data, IsTxnEnd
  <2> QED
    BY <1>1, <1>2, <1>3, <2>1 DEF Good
<1>5. CASE CanAdd(k)
  <2>1. transactions' = [j \in DOMAIN transactions \cup {k} |->
                           IF j = k THEN d ELSE transactions[j]]
    BY <1>5 DEF AddCall, AddTxnToCache
  <2> HIDE DEF d
  <2> QED
    BY <1>4, <2>1, IInvGood DEF CacheGood
<1>6. CASE ~CanAdd(k)
  BY <1>6, IInvGood DEF AddCall, CacheGood
<1> QED
  BY <1>5, <1>6

(* The Web detectors and the wrapped routes.                               *)
LEMMA WebGood ==
  ASSUME IInv, NEW f \in Fn, NEW k \in DOMAIN WithWeb(transactions, f)
  PROVE  Good(app, k, WithWeb(transactions, f)[k])
<1> DEFINE W == {[fn |-> f, at |-> i] : i \in WebTransactions(f)}
           t == WithWeb(transactions, f)
<1>1. /\ DOMAIN t = DOMAIN transactions \cup W
      /\ t[k] = IF k \in W THEN NoData ELSE transactions[k]
  BY DEF WithWeb
<1>2. CASE k \in W
  <2>1. PICK i \in WebTransactions(f) : k = [fn |-> f, at |-> i]
    BY <1>2
  <2>2. i \in DOMAIN app.body[f] /\ i \in Nat \ {0}
    BY CallTyped DEF WebTransactions, IInv
  <2>3. NoData \in Data(app) /\ NoData.exprs = {}
    BY DEF NoData, Data
  <2> QED
    BY <1>1, <1>2, <2>1, <2>2, <2>3 DEF Good, Key
<1>3. CASE k \notin W
  BY <1>1, <1>3, IInvGood DEF CacheGood
<1> QED
  BY <1>2, <1>3

LEMMA RoutesGood ==
  ASSUME IInv, NEW f \in Fn, NEW t,
         \A k \in DOMAIN t : Good(app, k, t[k]),
         NEW k \in DOMAIN WithRoutes(t, f)
  PROVE  Good(app, k, WithRoutes(t, f)[k])
<1> DEFINE R == {[fn |-> h, at |-> 0] : h \in WrappedHandlers(f)}
<1>1. /\ DOMAIN WithRoutes(t, f) = DOMAIN t \cup R
      /\ WithRoutes(t, f)[k] = IF k \in R THEN AddFuncDecl(t, k.fn)[k] ELSE t[k]
  BY DEF WithRoutes
<1>2. CASE k \in R
  <2>1. PICK h \in WrappedHandlers(f) : k = [fn |-> h, at |-> 0]
    BY <1>2
  <2>2. h \in Fn
    <3>1. PICK i \in DOMAIN app.body[f] : h = functions[app.body[f][i].wraps]
                                          /\ app.body[f][i].wraps # NoName /\ h # NoFn
      BY <2>1 DEF WrappedHandlers
    <3>2. app.body[f][i].wraps \in Name
      BY <3>1, CallTyped DEF IInv, Call
    <3> QED
      BY <3>1, <3>2 DEF IInv, TypeOK, CacheTypeOK
  <2> DEFINE d == [exprs  |-> {<<h, i>> : i \in {j \in DOMAIN app.body[h] :
                                                   app.body[h][j].stmt = "top"}},
                   closed |-> TRUE]
  <2>3. AddFuncDecl(t, k.fn)[k] = d
    BY <2>1 DEF AddFuncDecl, AddTxnToCache
  <2>4. d \in Data(app)
    BY <2>2 DEF Data, Calls
  <2>5. k \in Key /\ k.at = 0 /\ k.fn = h
    BY <2>1, <2>2 DEF Key
  <2>6. d.exprs = Statements(app, h)
    BY DEF Statements
  <2> HIDE DEF d
  <2> QED
    BY <1>1, <1>2, <2>3, <2>4, <2>5, <2>6 DEF Good
<1>3. CASE k \notin R
  BY <1>1, <1>3
<1> QED
  BY <1>2, <1>3

-----------------------------------------------------------------------------
(* The steps.                                                              *)

(* The invariant, from what the actions are shown to keep.                 *)
LEMMA Assembled ==
  ASSUME IInv, app' = app, phase' \in Phase, todo' \subseteq Pkg,
         rest' \in Seq(Fn), RestDeclared', currentPackage' \in Pkg \cup {NoPkg},
         StackOK', TablesTypeOK', functions' \in [Name -> Fn \cup {NoFn}],
         NamesFound', CacheGood', existingErrors' \subseteq ErrVar, Visiting'
  PROVE  IInv'
<1>1. ScopeReached'
  <2> SUFFICES ASSUME NEW k \in DOMAIN transactions', k.at # 0,
                      NEW x \in transactions'[k].exprs \ ({k.fn} \X Own(app', k))
               PROVE  x[1] \in Reached(app', k)
    BY DEF ScopeReached
  <2> QED
    BY DEF CacheGood, Good
<1>2. CacheTypeOK' /\ HandlersWhole'
  BY DEF CacheTypeOK, HandlersWhole, CacheGood, Good
<1>3. ControlTypeOK'
  <2>1. \A i \in 1 .. Len(stack') : stack'[i].role = "track" => stack'[i].key # NoKey
    BY DEF StackOK, FramesLinked, Linked
  <2> QED
    BY <2>1 DEF ControlTypeOK, StackOK
<1> QED
  BY <1>1, <1>2, <1>3 DEF IInv, TypeOK, StackOK

(* What an action leaves alone stays as it is.                             *)
LEMMA ControlParts ==
  ASSUME IInv
  PROVE  /\ phase \in Phase /\ todo \subseteq Pkg /\ rest \in Seq(Fn)
         /\ RestDeclared /\ currentPackage \in Pkg \cup {NoPkg}
         /\ TablesTypeOK /\ functions \in [Name -> Fn \cup {NoFn}]
         /\ NamesFound /\ existingErrors \subseteq ErrVar /\ Visiting
BY DEF IInv, TypeOK, ControlTypeOK, CacheTypeOK

LEMMA StackStays ==
  ASSUME IInv, UNCHANGED <<app, stack>>
  PROVE  StackOK'
BY IInvGood DEF StackOK, FramesLinked

LEMMA CacheStays ==
  ASSUME IInv, UNCHANGED <<app, transactions>>
  PROVE  CacheGood'
BY IInvGood DEF CacheGood

LEMMA TablesStay ==
  ASSUME IInv, UNCHANGED tables
  PROVE  TablesTypeOK'
BY ControlParts DEF tables, TablesTypeOK

LEMMA NamesStay ==
  ASSUME IInv, UNCHANGED <<app, functions>>
  PROVE  functions' \in [Name -> Fn \cup {NoFn}] /\ NamesFound'
BY ControlParts DEF NamesFound

LEMMA RestStays ==
  ASSUME IInv, UNCHANGED <<app, rest>>
  PROVE  rest' \in Seq(Fn) /\ RestDeclared'
BY ControlParts DEF RestDeclared

(* Only the stack and the phase change.                                    *)
LEMMA StackStep ==
  ASSUME IInv, StackOK', phase = "detect", phase' \in Phase \ {"declare"},
         stack # << >>,
         UNCHANGED <<app, todo, rest, currentPackage, tables, cache>>
  PROVE  IInv'
<1>1. /\ app' = app /\ todo' = todo /\ rest' = rest /\ UNCHANGED tables
      /\ currentPackage' = currentPackage /\ functions' = functions
      /\ transactions' = transactions /\ existingErrors' = existingErrors
  BY DEF cache
<1>2. Visiting'
  BY <1>1, ControlParts DEF Visiting
<1> QED
  BY <1>1, <1>2, ControlParts, CacheStays, TablesStay, NamesStay, RestStays,
     Assembled

LEMMA StartPackageStep ==
  ASSUME IInv, NEW p \in Pkg, StartPackage(p)
  PROVE  IInv'
<1>1. /\ UNCHANGED <<app, phase, stack>> /\ UNCHANGED tables /\ UNCHANGED cache
      /\ todo' = todo \ {p} /\ rest' = app.decls[p] /\ currentPackage' = p
  BY DEF StartPackage
<1>2. app.decls[p] \in Seq(Fn)
  BY AppTyped DEF IInv, AppType
<1>3. rest' \in Seq(Fn) /\ RestDeclared'
  BY <1>1, <1>2 DEF RestDeclared, Declared
<1>4. UNCHANGED functions /\ UNCHANGED transactions /\ UNCHANGED existingErrors
  BY <1>1 DEF cache
<1>5. Visiting'
  BY DEF StartPackage, Visiting
<1> QED
  BY <1>1, <1>3, <1>4, <1>5, ControlParts, StackStays, CacheStays, TablesStay,
     NamesStay, Assembled

LEMMA RestShrinks ==
  ASSUME IInv, rest # << >>, rest' = Tail(rest), app' = app
  PROVE  /\ rest' \in Seq(Fn) /\ RestDeclared'
         /\ Head(rest) \in Fn /\ Head(rest) \in Declared(app)
<1>1. /\ rest \in Seq(Fn) /\ Head(rest) = rest[1] /\ Len(rest) \in Nat \ {0}
      /\ \A i \in 1 .. Len(rest) : rest[i] \in Declared(app)
  BY ControlParts DEF RestDeclared
<1>2. /\ rest' \in Seq(Fn) /\ Len(rest') = Len(rest) - 1
      /\ \A i \in 1 .. Len(rest') : rest'[i] = rest[i + 1]
  BY <1>1
<1> QED
  BY <1>1, <1>2 DEF RestDeclared

Tables == [Pkg -> [Name -> [body : Fn \cup {NoFn}, traced : BOOLEAN]]]

LEMMA TableTyped ==
  ASSUME NEW t \in Tables, NEW f \in Fn
  PROVE  /\ CreateFunctionDeclaration(t, f) \in Tables
         /\ UpdateFunctionDeclaration(t, f) \in Tables
BY DEF Tables, CreateFunctionDeclaration, UpdateFunctionDeclaration

LEMMA DeclareFunctionStep ==
  ASSUME IInv, DeclareFunction
  PROVE  IInv'
<1> DEFINE f == Head(rest)
<1>1. /\ UNCHANGED <<app, phase, todo, currentPackage, stack>> /\ UNCHANGED cache
      /\ rest # << >> /\ rest' = Tail(rest)
  BY DEF DeclareFunction
<1>2. rest' \in Seq(Fn) /\ RestDeclared' /\ f \in Fn
  BY <1>1, RestShrinks
<1>3. TablesTypeOK'
  <2>1. CASE f \in app.generated
    BY <2>1, TablesStay DEF DeclareFunction
  <2>2. CASE f \notin app.generated
    <3>1. /\ tracedFuncs' = CreateFunctionDeclaration(tracedFuncs, f)
          /\ hasMain' = (hasMain \/ app.name[f] = Main)
          /\ facts' = facts \cup ServedTypes(f)
          /\ errReturn' = (errReturn \/ DuplicateFact(f))
      BY <2>2 DEF DeclareFunction
    <3>2. ServedTypes(f) \subseteq Type
      BY <1>2, CallTyped DEF IInv, ServedTypes, Served, Call
    <3>3. tracedFuncs' \in Tables
      BY <1>2, <3>1, ControlParts, TableTyped DEF TablesTypeOK, Tables
    <3>4. DuplicateFact(f) \in BOOLEAN
      BY DEF DuplicateFact
    <3> QED
      BY <3>1, <3>2, <3>3, <3>4, ControlParts DEF TablesTypeOK, Tables
  <2> QED
    BY <2>1, <2>2
<1>4. UNCHANGED functions /\ UNCHANGED transactions /\ UNCHANGED existingErrors
  BY <1>1 DEF cache
<1>5. Visiting'
  BY ControlParts DEF DeclareFunction, Visiting
<1> QED
  BY <1>1, <1>2, <1>3, <1>4, <1>5, ControlParts, StackStays, CacheStays,
     NamesStay, Assembled

LEMMA PhaseStep ==
  ASSUME IInv, phase' \in Phase, todo' \subseteq Pkg, Visiting',
         UNCHANGED <<app, rest, currentPackage, tables, cache, stack>>
  PROVE  IInv'
<1>1. /\ app' = app /\ rest' = rest /\ stack' = stack /\ UNCHANGED tables
      /\ currentPackage' = currentPackage /\ functions' = functions
      /\ transactions' = transactions /\ existingErrors' = existingErrors
  BY DEF cache
<1> QED
  BY <1>1, ControlParts, StackStays, CacheStays, TablesStay, NamesStay,
     RestStays, Assembled

LEMMA EndPassStep ==
  ASSUME IInv, EndDeclare \/ EndScan
  PROVE  IInv'
<1>1. phase' \in Phase /\ todo' \subseteq Pkg /\ Visiting'
  BY ControlParts DEF EndDeclare, EndScan, Phase, Visiting
<1> QED
  BY <1>1, PhaseStep DEF EndDeclare, EndScan

-----------------------------------------------------------------------------
(* The steps of the detectors.                                             *)

LEMMA ErrorsTyped ==
  ASSUME IInv, NEW visits, DetectErrors(transactions, visits)
  PROVE  existingErrors' \subseteq ErrVar
<1>1. ASSUME NEW K \in SUBSET DOMAIN transactions
      PROVE  Noticed(transactions, K) \subseteq ErrVar
  <2> SUFFICES ASSUME NEW e \in Noticed(transactions, K)
               PROVE  e \in ErrVar
    OBVIOUS
  <2>1. PICK k \in K : \E x \in transactions[k].exprs :
               e = app.body[x[1]][x[2]].notes /\ e # NoErr
    BY DEF Noticed, LookedAt
  <2>2. PICK x \in transactions[k].exprs : e = app.body[x[1]][x[2]].notes /\ e # NoErr
    BY <2>1
  <2>3. x \in Calls(app)
    BY <2>1, IInvGood DEF CacheGood, Good, Data
  <2>4. x[1] \in Fn /\ x[2] \in DOMAIN app.body[x[1]]
    BY <2>3 DEF Calls
  <2> QED
    BY <2>2, <2>4, CallTyped DEF IInv, Call
<1>2. PICK K \in SUBSET DOMAIN transactions :
           existingErrors' = existingErrors \cup Noticed(transactions, K)
  BY DEF DetectErrors
<1> QED
  BY <1>1, <1>2, ControlParts

LEMMA BeginDeclarationStep ==
  ASSUME IInv, BeginDeclaration
  PROVE  IInv'
<1> DEFINE f == Head(rest)
           u == [fn |-> f, pc |-> 1, role |-> "detect", key |-> NoKey, has |-> FALSE]
<1>1. /\ UNCHANGED <<app, phase, todo, rest, currentPackage, transactions>>
      /\ UNCHANGED tables
      /\ rest # << >> /\ stack' = <<u>>
      /\ functions' = [functions EXCEPT ![app.name[f]] = f]
      /\ existingErrors' \subseteq ErrVar
  BY ErrorsTyped DEF BeginDeclaration
<1>2. f \in Fn /\ f \in Declared(app)
  <2>1. rest \in Seq(Fn) /\ Head(rest) = rest[1] /\ Len(rest) \in Nat \ {0}
    BY <1>1, ControlParts
  <2> QED
    BY <2>1, ControlParts DEF RestDeclared
<1>3. u \in Frame /\ Linked(app, u)
  BY <1>2 DEF Frame, Linked
<1>4. StackOK'
  <2> HIDE DEF u
  <2>1. stack' \in Seq(Frame) /\ Len(stack') = 1 /\ stack'[1] = u
    BY <1>1, <1>3
  <2> QED
    BY <1>1, <1>3, <2>1 DEF StackOK, FramesLinked
<1>5. functions' \in [Name -> Fn \cup {NoFn}] /\ NamesFound'
  BY <1>1, <1>2, ControlParts DEF NamesFound
<1>6. Visiting'
  BY DEF BeginDeclaration, Visiting
<1> QED
  BY <1>1, <1>4, <1>5, <1>6, ControlParts, CacheStays, TablesStay, RestStays, Assembled

LEMMA TakeTransactionStep ==
  ASSUME IInv, TakeTransaction
  PROVE  IInv'
<1> DEFINE k == [fn |-> Top.fn, at |-> Top.pc]
           t == [fn |-> Top.fn, pc |-> Top.pc + 1, role |-> "detect", key |-> k,
                 has |-> TRUE]
<1>1. /\ Walking /\ Top.role = "detect" /\ app' = app
      /\ stack' = [stack EXCEPT ![Len(stack)] = t]
      /\ UNCHANGED <<app, phase, todo, rest, currentPackage, tables, cache>>
  BY DEF TakeTransaction
<1>2. /\ Top \in Frame /\ Top.fn \in Fn /\ Top.pc \in Nat \ {0}
      /\ Top.pc \in DOMAIN app.body[Top.fn] /\ phase = "detect" /\ stack # << >>
  BY <1>1, CurrentCall
<1>3. /\ k \in Key /\ t \in Frame /\ t.key = k /\ t.pc = Top.pc + 1
      /\ t.fn = Top.fn /\ t.role = "detect" /\ k # NoKey
  BY <1>1, <1>2, KeyAssumption DEF Frame, Key
<1>4. Linked(app, t)
  BY <1>2, <1>3 DEF Linked
<1> HIDE DEF t
<1>5. StackOK'
  BY <1>1, <1>2, <1>3, <1>4, IInvGood, TopReplaced
<1> QED
  BY <1>1, <1>2, <1>5, StackStep DEF Phase

LEMMA MoveOnStep ==
  ASSUME IInv, PassStatement \/ SkipReceive
  PROVE  IInv'
<1>1. /\ Walking /\ stack' = Caller /\ app' = app
      /\ ~(Top.role = "detect" /\ Takes(TopCall))
      /\ UNCHANGED <<app, phase, todo, rest, currentPackage, tables, cache>>
  BY DEF PassStatement, SkipReceive, Takes
<1> QED
  BY <1>1, CallerMoves, StackStep DEF Walking, Phase

LEMMA EndTrackStep ==
  ASSUME IInv, EndTrack
  PROVE  IInv'
BY FramePopped, IInvGood, StackStep DEF EndTrack, AtEnd, Phase

(* A statement of a transaction, handing it over perhaps.                  *)
LEMMA HandedOver ==
  ASSUME IInv, Walking, Top.role = "detect", Top.key # NoKey, ~Takes(TopCall),
         PassesTxn(TopCall, Top.key)
  PROVE  /\ TopCall.name \in Name /\ functions[TopCall.name] # NoFn
         /\ functions[TopCall.name] \in Reached(app, Top.key)
<1> DEFINE k == Top.key
           g == functions[TopCall.name]
<1>1. TopCall.name \in Name /\ g # NoFn /\ TopCall.form = "ident"
  BY CurrentCall DEF PassesTxn, Known, Call
<1>2. g \in Declared(app) /\ app.name[g] = TopCall.name
  BY <1>1, ControlParts DEF NamesFound
<1>3. /\ k.at \in DOMAIN app.body[k.fn] /\ k.at # 0 /\ k.at \in Nat
      /\ k.fn = Top.fn /\ k.at < Top.pc
      /\ \A j \in k.at + 1 .. Top.pc - 1 : ~Takes(app.body[Top.fn][j])
  BY CurrentCall DEF Linked, Frame, Key
<1>4. \A j \in k.at + 1 .. Top.pc : ~Takes(app.body[Top.fn][j])
  BY <1>3, CurrentCall DEF TopCall
<1>5. Top.pc \in Own(app, k)
  BY <1>3, <1>4, CurrentCall DEF Own
<1>6. app.body[k.fn][k.at].binds \in TopCall.passes
  BY <1>3 DEF PassesTxn, TxnName
<1>7. g \in Handed(app, k)
  BY <1>1, <1>2, <1>3, <1>5, <1>6 DEF Handed, CallsTo, TopCall
<1> QED
  BY <1>1, <1>7, HandedReached

LEMMA RecordStatementStep ==
  ASSUME IInv, RecordStatement
  PROVE  IInv'
<1>1. /\ Walking /\ Top.role = "detect" /\ Recordable /\ app' = app
      /\ AddCall(Top.key, <<Top.fn, Top.pc>>)
      /\ UNCHANGED <<todo, rest, currentPackage, functions, existingErrors>>
      /\ UNCHANGED tables
  BY DEF RecordStatement
<1>2. Top.key # NoKey /\ ~Takes(TopCall)
  <2>1. TopCall.origin = "none"
    BY <1>1, CurrentCall, AppTyped DEF Recordable, WellFormed, TopCall, IInv
  <2> QED
    BY <1>1, <2>1 DEF Recordable, Takes
<1>3. CacheGood'
  BY <1>1, <1>2, CallAdded
<1>4. StackOK' /\ phase' \in Phase \ {"declare"}
  <2>1. CASE phase' = "panicked" /\ stack' = stack
    BY <1>1, <2>1, StackStays DEF Phase
  <2>2. CASE PassesTxn(TopCall, Top.key) /\ TrackFunctionCalls(TopCall.name, Top.key)
    BY <1>1, <1>2, <2>2, HandedOver, TrackStarts, CurrentCall
  <2>3. CASE stack' = Caller /\ phase' = phase
    BY <1>1, <1>2, <2>3, CallerMoves, CurrentCall DEF Phase
  <2> QED
    BY <2>1, <2>2, <2>3 DEF RecordStatement
<1>5. Visiting'
  BY <1>1, <1>4, ControlParts DEF Visiting, Walking
<1> QED
  BY <1>1, <1>3, <1>4, <1>5, ControlParts, TablesStay, NamesStay, RestStays,
     Assembled

LEMMA RecordCallStep ==
  ASSUME IInv, RecordCall
  PROVE  IInv'
<1>1. /\ Walking /\ Top.role = "track" /\ app' = app
      /\ AddCall(Top.key, <<Top.fn, Top.pc>>)
      /\ UNCHANGED <<todo, rest, currentPackage, functions, existingErrors>>
      /\ UNCHANGED tables
  BY DEF RecordCall
<1>2. Top.key # NoKey /\ Top.fn \in Reached(app, Top.key)
  BY <1>1, CurrentCall DEF Linked
<1>3. CacheGood'
  BY <1>1, <1>2, CallAdded
<1>4. StackOK' /\ phase' \in Phase \ {"declare"}
  <2>1. CASE stack' = Caller /\ phase' = phase
    BY <1>1, <2>1, CallerMoves, CurrentCall DEF Phase
  <2>2. CASE /\ TopCall.form = "ident" /\ Known(TopCall.name)
             /\ TrackFunctionCalls(TopCall.name, Top.key)
    <3> DEFINE g == functions[TopCall.name]
    <3>1. TopCall.name \in Name /\ g # NoFn
      BY <1>1, <2>2, CurrentCall DEF Known, Call
    <3>2. g \in Declared(app) /\ app.name[g] = TopCall.name
      BY <3>1, ControlParts DEF NamesFound
    <3>3. g \in Follows(app, Top.fn)
      BY <1>1, <2>2, <3>2, CurrentCall DEF Follows, CallsTo, TopCall
    <3>4. g \in Reached(app, Top.key)
      BY <1>2, <3>3, FollowsReached
    <3> QED
      BY <1>1, <1>2, <2>2, <3>1, <3>4, TrackStarts, CurrentCall
  <2> QED
    BY <2>1, <2>2 DEF RecordCall
<1>5. Visiting'
  BY <1>1, <1>4, ControlParts DEF Visiting, Walking
<1> QED
  BY <1>1, <1>3, <1>4, <1>5, ControlParts, TablesStay, NamesStay, RestStays,
     Assembled

LEMMA EndDeclarationStep ==
  ASSUME IInv, EndDeclaration
  PROVE  IInv'
<1> DEFINE f == Top.fn
           t == WithWeb(transactions, f)
<1>1. /\ UNCHANGED <<app, phase, todo, currentPackage, facts, hasMain, errReturn,
                     functions>>
      /\ stack # << >> /\ stack' = << >> /\ rest' = Tail(rest)
      /\ transactions' = WithRoutes(t, f)
      /\ existingErrors' \subseteq ErrVar
  BY ErrorsTyped DEF EndDeclaration, AtEnd
<1>2. f \in Fn
  BY <1>1, IInvGood, TopTyped DEF Frame
<1>3. CacheGood'
  BY <1>1, <1>2, WebGood, RoutesGood DEF CacheGood
<1>4. TablesTypeOK'
  <2>1. tracedFuncs \in Tables
    BY ControlParts DEF TablesTypeOK, Tables
  <2>2. tracedFuncs' \in Tables
    BY <1>2, <2>1, TableTyped DEF EndDeclaration
  <2> QED
    BY <1>1, <2>2, ControlParts DEF TablesTypeOK, Tables
<1>5. StackOK' /\ Visiting'
  BY <1>1 DEF StackOK, FramesLinked, Visiting
<1>6. rest # << >>
  BY <1>1, ControlParts DEF Visiting
<1> HIDE DEF f, t
<1> QED
  BY <1>1, <1>3, <1>4, <1>5, <1>6, ControlParts, NamesStay, RestShrinks, Assembled

-----------------------------------------------------------------------------
(* Theorems.                                                               *)

LEMMA Initially ==
  ASSUME Init
  PROVE  IInv
<1>1. /\ app \in Apps /\ stack = << >> /\ rest = << >> /\ phase = "declare"
      /\ todo = Pkg /\ currentPackage = NoPkg
  BY DEF Init
<1>2. DOMAIN transactions = {} /\ existingErrors = {}
  BY DEF Init
<1>3. TablesTypeOK
  BY DEF Init, TablesTypeOK
<1>4. functions \in [Name -> Fn \cup {NoFn}] /\ NamesFound
  BY DEF Init, NamesFound
<1>5. CacheTypeOK /\ ScopeReached /\ HandlersWhole
  BY <1>2, <1>4 DEF CacheTypeOK, ScopeReached, HandlersWhole
<1>6. ControlTypeOK
  BY <1>1 DEF ControlTypeOK, Phase
<1> QED
  BY <1>1, <1>3, <1>4, <1>5, <1>6
     DEF IInv, TypeOK, FramesLinked, RestDeclared, Visiting

LEMMA Stuttering ==
  ASSUME IInv, UNCHANGED vars
  PROVE  IInv'
<1>1. /\ UNCHANGED <<app, phase, todo, rest, currentPackage, stack>>
      /\ UNCHANGED tables /\ UNCHANGED cache
  BY DEF vars
<1>2. Visiting'
  BY <1>1, ControlParts DEF Visiting
<1> QED
  BY <1>1, <1>2, ControlParts, PhaseStep

LEMMA Inductive ==
  ASSUME IInv, [Next]_vars
  PROVE  IInv'
<1>1. ASSUME NEW p \in Pkg, StartPackage(p)  PROVE IInv'
  BY <1>1, StartPackageStep
<1>2. CASE DeclareFunction
  BY <1>2, DeclareFunctionStep
<1>3. CASE EndDeclare \/ EndScan
  BY <1>3, EndPassStep
<1>4. CASE BeginDeclaration
  BY <1>4, BeginDeclarationStep
<1>5. CASE TakeTransaction
  BY <1>5, TakeTransactionStep
<1>6. CASE PassStatement \/ SkipReceive
  BY <1>6, MoveOnStep
<1>7. CASE RecordStatement
  BY <1>7, RecordStatementStep
<1>8. CASE RecordCall
  BY <1>8, RecordCallStep
<1>9. CASE EndTrack
  BY <1>9, EndTrackStep
<1>10. CASE EndDeclaration
  BY <1>10, EndDeclarationStep
<1>11. CASE Halt \/ UNCHANGED vars
  BY <1>11, Stuttering DEF Halt
<1> QED
  BY <1>1, <1>2, <1>3, <1>4, <1>5, <1>6, <1>7, <1>8, <1>9, <1>10, <1>11
     DEF Next

(* Every reachable state of the two passes keeps the invariant, for every  *)
(* family of applications, recursive ones included.                        *)
THEOREM ScanInvariant == Spec => []IInv
<1>1. Init => IInv
  BY Initially
<1>2. IInv /\ [Next]_vars => IInv'
  BY Inductive
<1> QED
  BY <1>1, <1>2, PTL DEF Spec

(* Every variable keeps to what the code can store: trackFunctionCalls is  *)
(* never started for a nil declaration or a nil transaction, and the cache *)
(* only holds identifiers and calls of the program.                        *)
THEOREM ScanTypeCorrect == Spec => []TypeOK
<1>1. IInv => TypeOK
  BY DEF IInv
<1> QED
  BY <1>1, ScanInvariant, PTL

(* AddCall is only ever given calls that can run in the transaction:       *)
(* statements after its start in its own function, or calls of functions   *)
(* reached by way of one that is handed it, whatever the order in which    *)
(* declarations replaced one another under a name.                         *)
THEOREM ScopeReachedHolds == Spec => []ScopeReached
<1>1. IInv => ScopeReached
  BY DEF IInv
<1> QED
  BY <1>1, ScanInvariant, PTL

-----------------------------------------------------------------------------
(* Ended transactions.                                                     *)

Closed == \A k \in DOMAIN transactions : transactions[k].closed =>
            /\ k \in DOMAIN transactions'
            /\ transactions'[k].exprs \subseteq transactions[k].exprs

LEMMA ClosedUnchanged ==
  ASSUME UNCHANGED transactions
  PROVE  Closed
BY DEF Closed

LEMMA ClosedAdd ==
  ASSUME NEW k, NEW x, AddCall(k, x)
  PROVE  Closed
<1>1. CASE CanAdd(k)
  <2> DEFINE d == [exprs  |-> DataOf(k).exprs \cup {x},
                   closed |-> IsTxnEnd(k, app.body[x[1]][x[2]])]
  <2>1. transactions' = [j \in DOMAIN transactions \cup {k} |->
                           IF j = k THEN d ELSE transactions[j]]
    BY <1>1 DEF AddCall, AddTxnToCache
  <2>2. k \in DOMAIN transactions => ~transactions[k].closed
    BY <1>1 DEF CanAdd, DataOf
  <2> HIDE DEF d
  <2> QED
    BY <2>1, <2>2 DEF Closed
<1>2. CASE ~CanAdd(k)
  BY <1>2, ClosedUnchanged DEF AddCall
<1> QED
  BY <1>1, <1>2

(* The detectors after DetectTransactions empty entries or write a wrapped *)
(* handler's again.                                                        *)
LEMMA ClosedEndDeclaration ==
  ASSUME IInv, EndDeclaration
  PROVE  Closed
<1> DEFINE f == Top.fn
           t == WithWeb(transactions, f)
           W == {[fn |-> f, at |-> i] : i \in WebTransactions(f)}
           R == {[fn |-> h, at |-> 0] : h \in WrappedHandlers(f)}
<1>1. transactions' = WithRoutes(t, f)
  BY DEF EndDeclaration
<1> SUFFICES ASSUME NEW k \in DOMAIN transactions
             PROVE  /\ k \in DOMAIN transactions'
                    /\ transactions'[k].exprs \subseteq transactions[k].exprs
  BY DEF Closed
<1>2. /\ k \in DOMAIN t
      /\ t[k] = IF k \in W THEN NoData ELSE transactions[k]
  BY DEF WithWeb
<1>3. /\ k \in DOMAIN transactions'
      /\ transactions'[k] = IF k \in R THEN AddFuncDecl(t, k.fn)[k] ELSE t[k]
  BY <1>1, <1>2 DEF WithRoutes
<1>4. t[k].exprs \subseteq transactions[k].exprs
  BY <1>2 DEF NoData
<1>5. CASE k \in R
  <2>1. PICK h \in WrappedHandlers(f) : k = [fn |-> h, at |-> 0]
    BY <1>5
  <2>2. k.at = 0 /\ k.fn = h
    BY <2>1
  <2>3. AddFuncDecl(t, h)[k].exprs = Statements(app, h)
    BY <2>1 DEF AddFuncDecl, AddTxnToCache, Statements
  <2>4. transactions[k].exprs = Statements(app, h)
    BY <2>2 DEF IInv, HandlersWhole
  <2> QED
    BY <1>3, <1>5, <2>2, <2>3, <2>4
<1>6. CASE k \notin R
  BY <1>3, <1>4, <1>6
<1> QED
  BY <1>5, <1>6

LEMMA ClosedStep ==
  ASSUME IInv, [Next]_vars
  PROVE  Closed
<1>1. ASSUME NEW p \in Pkg, StartPackage(p)  PROVE Closed
  BY <1>1, ClosedUnchanged DEF StartPackage, cache
<1>2. CASE DeclareFunction \/ EndDeclare \/ EndScan
  BY <1>2, ClosedUnchanged DEF DeclareFunction, EndDeclare, EndScan, cache
<1>3. CASE BeginDeclaration
  BY <1>3, ClosedUnchanged DEF BeginDeclaration
<1>4. CASE TakeTransaction \/ PassStatement \/ SkipReceive \/ EndTrack
  BY <1>4, ClosedUnchanged
     DEF TakeTransaction, PassStatement, SkipReceive, EndTrack, cache
<1>5. CASE RecordStatement
  BY <1>5, ClosedAdd DEF RecordStatement
<1>6. CASE RecordCall
  BY <1>6, ClosedAdd DEF RecordCall
<1>7. CASE EndDeclaration
  BY <1>7, ClosedEndDeclaration
<1>8. CASE Halt \/ UNCHANGED vars
  BY <1>8, ClosedUnchanged DEF Halt, vars, cache
<1> QED
  BY <1>1, <1>2, <1>3, <1>4, <1>5, <1>6, <1>7, <1>8 DEF Next

(* Once a transaction is marked as ended no step adds a call to it: not in *)
(* a callee, not in the callers the walk returns to, and not by a detector *)
(* that comes later.                                                       *)
THEOREM ClosedForGoodHolds == Spec => ClosedForGood
<1>1. IInv /\ [Next]_vars =>
        [\A k \in DOMAIN transactions : transactions[k].closed =>
           /\ k \in DOMAIN transactions'
           /\ transactions'[k].exprs \subseteq transactions[k].exprs]_vars
  BY ClosedStep DEF Closed
<1> QED
  BY <1>1, ScanInvariant, PTL DEF Spec, ClosedForGood

-----------------------------------------------------------------------------
(* The order of a pass.                                                    *)

(* How many declarations of each package the pass has visited.             *)
Behind ==
  [p \in Pkg |-> IF p \in todo THEN 0
                 ELSE IF p = currentPackage THEN Len(app.decls[p]) - Len(rest)
                 ELSE Len(app.decls[p])]

(* What is left of the current package is the end of its declarations.     *)
PassOK ==
  rest # << >> =>
    /\ currentPackage \in Pkg \ todo
    /\ Len(rest) <= Len(app.decls[currentPackage])
    /\ \A i \in 1 .. Len(rest) :
         rest[i] = app.decls[currentPackage]
                     [Len(app.decls[currentPackage]) - Len(rest) + i]

(* The first frame is that of the detector; it has a transaction when a    *)
(* statement behind it starts one.                                         *)
FirstOK(a, t) ==
  /\ t.role = "detect"
  /\ t.has <=> t.key # NoKey
  /\ t.key # NoKey <=> \E i \in DOMAIN a.body[t.fn] :
                         i < t.pc /\ Takes(a.body[t.fn][i])
  /\ t.key # NoKey => Takes(a.body[t.key.fn][t.key.at])

Led(a, s) == /\ FirstOK(a, s[1])
             /\ \A k \in 2 .. Len(s) : s[k].role = "track" /\ s[k].key = s[1].key

WalkOK == stack # << >> => Led(app, stack) /\ stack[1].fn = Head(rest)

LEMMA DeclsTyped ==
  ASSUME app \in Apps, NEW p \in Pkg
  PROVE  /\ app.decls[p] \in Seq(Fn) /\ Len(app.decls[p]) \in Nat
         /\ DOMAIN app.decls[p] = 1 .. Len(app.decls[p])
         /\ \A i \in DOMAIN app.decls[p] :
              /\ app.decls[p][i] \in Fn
              /\ app.pkg[app.decls[p][i]] = p
              /\ \A j \in DOMAIN app.decls[p] :
                   app.decls[p][j] = app.decls[p][i] => j = i
<1>1. app.decls[p] \in Seq(Fn)
  BY AppTyped DEF AppType
<1> QED
  BY <1>1, AppTyped DEF WellFormed

(* One declaration is visited.                                             *)
LEMMA VisitMoves ==
  ASSUME IInv, PassOK, rest # << >>, rest' = Tail(rest),
         UNCHANGED <<app, todo, currentPackage>>
  PROVE  /\ PassOK' /\ currentPackage \in Pkg
         /\ Behind[currentPackage] \in Nat
         /\ Behind[currentPackage] + 1 \in DOMAIN app.decls[currentPackage]
         /\ app.decls[currentPackage][Behind[currentPackage] + 1] = Head(rest)
         /\ Behind' = [Behind EXCEPT ![currentPackage] = Behind[currentPackage] + 1]
<1> DEFINE p == currentPackage
           d == app.decls[p]
           b == Len(d) - Len(rest)
<1>1. /\ p \in Pkg /\ p \notin todo /\ Len(rest) <= Len(d)
      /\ \A i \in 1 .. Len(rest) : rest[i] = d[b + i]
  BY DEF PassOK
<1>2. d \in Seq(Fn) /\ Len(d) \in Nat /\ DOMAIN d = 1 .. Len(d)
  BY <1>1, DeclsTyped DEF IInv
<1>3. /\ rest \in Seq(Fn) /\ Len(rest) \in Nat \ {0} /\ Head(rest) = rest[1]
      /\ Len(rest') = Len(rest) - 1
      /\ \A i \in 1 .. Len(rest') : rest'[i] = rest[i + 1]
  BY ControlParts
<1>4. b \in Nat /\ b + 1 \in DOMAIN d /\ d[b + 1] = Head(rest)
  BY <1>1, <1>2, <1>3
<1>5. Behind[p] = b
  BY <1>1 DEF Behind
<1>6. Len(d) - Len(rest') = b + 1
  BY <1>2, <1>3
<1>7. \A i \in 1 .. Len(rest') : rest'[i] = d[Len(d) - Len(rest') + i]
  <2> TAKE i \in 1 .. Len(rest')
  <2>1. i + 1 \in 1 .. Len(rest) /\ b + (i + 1) = (b + 1) + i
    <3>1. b \in Nat /\ i \in Nat /\ i <= Len(rest) - 1 /\ Len(rest) \in Nat
      BY <1>3, <1>4
    <3> HIDE DEF b
    <3> QED
      BY <3>1
  <2> QED
    BY <1>1, <1>3, <1>6, <2>1
<1>8. PassOK'
  BY <1>1, <1>2, <1>3, <1>7 DEF PassOK
<1>9. Behind' = [Behind EXCEPT ![p] = b + 1]
  BY <1>1, <1>6 DEF Behind
<1> QED
  BY <1>1, <1>4, <1>5, <1>8, <1>9

LEMMA PackageMoves ==
  ASSUME IInv, PassOK, NEW p \in Pkg, StartPackage(p)
  PROVE  PassOK' /\ Behind' = Behind
<1>1. /\ rest = << >> /\ p \in todo /\ todo' = todo \ {p} /\ rest' = app.decls[p]
      /\ currentPackage' = p /\ app' = app
  BY DEF StartPackage
<1>2. app.decls[p] \in Seq(Fn) /\ Len(app.decls[p]) \in Nat
  BY DeclsTyped DEF IInv
<1>3. PassOK'
  BY <1>1, <1>2 DEF PassOK
<1>4. ASSUME NEW q \in Pkg PROVE Behind'[q] = Behind[q]
  <2>1. Len(app.decls[q]) \in Nat /\ Len(rest) = 0
    BY <1>1, DeclsTyped DEF IInv
  <2>2. Len(app.decls[q]) - Len(rest) = Len(app.decls[q])
    BY <2>1
  <2>3. q # p => Behind'[q] = Behind[q]
    BY <1>1, <2>2 DEF Behind
  <2>4. Behind[p] = 0
    BY <1>1 DEF Behind
  <2>5. Behind'[p] = Len(app.decls[p]) - Len(app.decls[p])
    BY <1>1 DEF Behind
  <2> QED
    BY <1>2, <2>3, <2>4, <2>5
<1> QED
  BY <1>3, <1>4 DEF Behind

LEMMA PassEnds ==
  ASSUME IInv, todo = {}, rest = << >>
  PROVE  Behind = [p \in Pkg |-> Len(app.decls[p])]
BY DeclsTyped DEF Behind, IInv

LEMMA PassStarts ==
  ASSUME EndDeclare
  PROVE  PassOK' /\ Behind' = [p \in Pkg |-> 0]
BY DEF EndDeclare, PassOK, Behind

(* All other steps leave the passes and the tables alone.                  *)
Aside ==
  /\ UNCHANGED <<app, todo, rest, currentPackage>> /\ UNCHANGED tables
  /\ \/ phase' = phase
     \/ phase = "detect" /\ phase' \in {"done", "panicked", "overflow"}

LEMMA StepsOfThePass ==
  ASSUME [Next]_vars
  PROVE  \/ \E p \in Pkg : StartPackage(p)
         \/ DeclareFunction \/ EndDeclare \/ EndDeclaration \/ Aside
<1>1. BeginDeclaration => Aside
  BY DEF BeginDeclaration, Aside, tables
<1>2. TakeTransaction \/ PassStatement \/ SkipReceive \/ EndTrack => Aside
  BY DEF TakeTransaction, PassStatement, SkipReceive, EndTrack, Aside, tables
<1>3. RecordStatement => Aside
  BY DEF RecordStatement, TrackFunctionCalls, Walking, Aside, tables
<1>4. RecordCall => Aside
  BY DEF RecordCall, TrackFunctionCalls, Walking, Aside, tables
<1>5. EndScan => Aside
  BY DEF EndScan, Aside, tables
<1>6. Halt \/ UNCHANGED vars => Aside
  BY DEF Halt, vars, Aside, tables
<1> QED
  BY <1>1, <1>2, <1>3, <1>4, <1>5, <1>6 DEF Next

LEMMA AsideStays ==
  ASSUME Aside, PassOK
  PROVE  PassOK' /\ Behind' = Behind
BY DEF Aside, PassOK, Behind

LEMMA PassKept ==
  ASSUME IInv, PassOK, [Next]_vars
  PROVE  PassOK'
<1>1. DeclareFunction \/ EndDeclaration => PassOK'
  <2> SUFFICES ASSUME DeclareFunction \/ EndDeclaration PROVE PassOK'
    OBVIOUS
  <2>1. rest # << >> /\ rest' = Tail(rest) /\ UNCHANGED <<app, todo, currentPackage>>
    BY ControlParts DEF DeclareFunction, EndDeclaration, AtEnd, Visiting
  <2> QED
    BY <2>1, VisitMoves
<1> QED
  BY <1>1, StepsOfThePass, PackageMoves, PassStarts, AsideStays

-----------------------------------------------------------------------------
(* The frame of the detector and those above it.                           *)

LEMMA OneOrMore ==
  ASSUME NEW n \in Nat \ {0}, n # 1
  PROVE  n > 1 /\ n \in 2 .. n /\ n - 1 \in Nat \ {0} /\ n - 1 < n /\ 1 \in 1 .. n - 1
OBVIOUS

LEMMA LedTop ==
  ASSUME IInv, WalkOK, stack # << >>
  PROVE  /\ Led(app, stack) /\ Len(stack) \in Nat \ {0} /\ stack \in Seq(Frame)
         /\ Top \in Frame /\ Top.key = stack[1].key
         /\ Top.role = "detect" <=> Len(stack) = 1
         /\ Top.role = "track" <=> Len(stack) # 1
<1>1. stack \in Seq(Frame) /\ Len(stack) \in Nat \ {0} /\ Top \in Frame
  BY IInvGood, TopTyped DEF StackOK
<1>2. Led(app, stack)
  BY DEF WalkOK
<1>3. CASE Len(stack) = 1
  BY <1>1, <1>2, <1>3 DEF Led, FirstOK, Top
<1>4. CASE Len(stack) # 1
  <2>1. Len(stack) \in 2 .. Len(stack)
    BY <1>1, <1>4, OneOrMore
  <2> QED
    BY <1>1, <1>2, <1>4, <2>1 DEF Led, Top
<1> QED
  BY <1>3, <1>4

(* The top frame is replaced by one that fits.                             *)
LEMMA LedReplaced ==
  ASSUME IInv, WalkOK, stack # << >>, NEW t, t.fn = Top.fn,
         Len(stack) = 1 => FirstOK(app, t),
         Len(stack) # 1 => t.role = "track" /\ t.key = Top.key,
         NEW s, s = [stack EXCEPT ![Len(stack)] = t]
  PROVE  Led(app, s) /\ s # << >> /\ s[1].fn = stack[1].fn
<1> DEFINE n == Len(stack)
<1>1. /\ n \in Nat \ {0} /\ stack \in Seq(Frame) /\ Len(s) = n
      /\ FirstOK(app, stack[1]) /\ Top = stack[n] /\ Top.key = stack[1].key
      /\ \A k \in 2 .. n : stack[k].role = "track" /\ stack[k].key = stack[1].key
  BY LedTop DEF Led, Top
<1>2. /\ s[n] = t /\ s # << >>
      /\ \A k \in 1 .. n : k # n => s[k] = stack[k]
  <2>1. DOMAIN stack = 1 .. n /\ n \in 1 .. n
    BY <1>1
  <2>2. s # << >>
    BY <1>1
  <2> QED
    BY <2>1, <2>2
<1>3. /\ n = 1 => FirstOK(app, t)
      /\ n # 1 => t.role = "track" /\ t.key = Top.key
  OBVIOUS
<1> HIDE DEF n
<1>4. CASE n = 1
  <2>1. s[1] = t /\ \A k \in 2 .. n : FALSE
    BY <1>2, <1>4
  <2> QED
    BY <1>1, <1>2, <1>3, <1>4, <2>1 DEF Led
<1>5. CASE n # 1
  <2>1. n > 1 /\ 1 \in 1 .. n
    BY <1>1, <1>5
  <2>2. s[1] = stack[1]
    BY <1>2, <1>5, <2>1
  <2>3. ASSUME NEW k \in 2 .. n PROVE s[k].role = "track" /\ s[k].key = stack[1].key
    <3>1. CASE k = n
      BY <1>1, <1>2, <1>3, <1>5, <3>1
    <3>2. CASE k # n
      <4>1. k \in 1 .. n
        BY <1>1
      <4> QED
        BY <1>1, <1>2, <3>2, <4>1
    <3> QED
      BY <3>1, <3>2
  <2> QED
    BY <1>1, <1>2, <2>2, <2>3 DEF Led
<1> QED
  BY <1>4, <1>5

LEMMA LedAppended ==
  ASSUME NEW s \in Seq(Frame), s # << >>, Led(app, s),
         NEW u \in Frame, u.role = "track", u.key = s[1].key
  PROVE  /\ Led(app, Append(s, u)) /\ Append(s, u) # << >>
         /\ Append(s, u)[1].fn = s[1].fn
<1>1. /\ Len(Append(s, u)) = Len(s) + 1 /\ Append(s, u)[Len(s) + 1] = u
      /\ \A k \in 1 .. Len(s) : Append(s, u)[k] = s[k]
      /\ Len(s) \in Nat \ {0} /\ 1 \in 1 .. Len(s)
  OBVIOUS
<1> DEFINE v == Append(s, u)
<1> HIDE DEF v
<1>2. \A k \in 2 .. Len(v) : v[k].role = "track" /\ v[k].key = v[1].key
  <2> TAKE k \in 2 .. Len(v)
  <2>1. CASE k = Len(s) + 1
    BY <1>1, <2>1 DEF v
  <2>2. CASE k # Len(s) + 1
    <3>1. k \in 2 .. Len(s) /\ k \in 1 .. Len(s)
      BY <1>1, <2>2 DEF v
    <3> QED
      BY <1>1, <3>1 DEF Led, v
  <2> QED
    BY <2>1, <2>2
<1>3. v[1] = s[1] /\ FirstOK(app, s[1])
  BY <1>1 DEF v, Led
<1>4. v # << >>
  BY <1>1 DEF v
<1>5. Led(app, v)
  BY <1>2, <1>3 DEF Led
<1> QED
  BY <1>3, <1>4, <1>5 DEF v

LEMMA LedPopped ==
  ASSUME IInv, WalkOK, stack # << >>, Top.role = "track",
         NEW s, s = SubSeq(stack, 1, Len(stack) - 1)
  PROVE  Led(app, s) /\ s # << >> /\ s[1].fn = stack[1].fn
<1> DEFINE n == Len(stack) - 1
<1>1. /\ Led(app, stack) /\ stack \in Seq(Frame) /\ n \in Nat \ {0} /\ n < Len(stack)
      /\ s = SubSeq(stack, 1, n)
  BY LedTop
<1> HIDE DEF n
<1>2. /\ s \in Seq(Frame) /\ Len(s) = n /\ \A k \in 1 .. n : s[k] = stack[k]
  BY <1>1, SubSeqProperties
<1>3. \A k \in 2 .. n : s[k].role = "track" /\ s[k].key = s[1].key
  BY <1>1, <1>2 DEF Led
<1>4. s[1] = stack[1] /\ s # << >>
  <2>1. 1 \in 1 .. n /\ n # 0
    BY <1>1
  <2>2. s # << >>
    BY <1>2, <2>1
  <2> QED
    BY <1>2, <2>1, <2>2
<1> QED
  BY <1>1, <1>2, <1>3, <1>4 DEF Led

(* The walk moves to the next node of the same function.                   *)
LEMMA LedCaller ==
  ASSUME IInv, WalkOK, Walking, ~(Top.role = "detect" /\ Takes(TopCall))
  PROVE  /\ Led(app, Caller) /\ Caller # << >> /\ Caller \in Seq(Frame)
         /\ Caller[1].fn = stack[1].fn /\ Caller[1].key = stack[1].key
<1> DEFINE t == [Top EXCEPT !.pc = @ + 1]
<1>1. /\ stack # << >> /\ Top \in Frame /\ Top.key = stack[1].key
      /\ Top.role = "detect" <=> Len(stack) = 1
      /\ Top.role = "track" <=> Len(stack) # 1
      /\ stack \in Seq(Frame)
      /\ Led(app, stack) /\ Len(stack) \in Nat \ {0}
  BY LedTop DEF Walking
<1>2. /\ t \in Frame /\ t.fn = Top.fn /\ t.role = Top.role /\ t.key = Top.key
      /\ t.pc = Top.pc + 1 /\ t.has = Top.has
  BY <1>1, SMTT(30) DEF Frame
<1>3. Caller = [stack EXCEPT ![Len(stack)] = t]
  BY <1>1 DEF Caller, Top
<1>4. ASSUME Len(stack) = 1 PROVE FirstOK(app, t)
  <2>1. Top = stack[1] /\ FirstOK(app, Top) /\ Top.role = "detect"
    BY <1>1, <1>4 DEF Top, Led
  <2>2. ~Takes(app.body[Top.fn][Top.pc]) /\ Top.pc \in Nat
    BY <1>1, <2>1, CurrentCall DEF TopCall
  <2>3. DOMAIN app.body[Top.fn] \subseteq Nat
    BY CurrentCall, CallTyped DEF IInv
  <2>4. \A i \in DOMAIN app.body[Top.fn] :
          i < Top.pc + 1 /\ Takes(app.body[Top.fn][i]) <=>
          i < Top.pc /\ Takes(app.body[Top.fn][i])
    BY <2>2, <2>3
  <2> HIDE DEF t
  <2>5. t.has <=> t.key # NoKey
    BY <1>2, <2>1 DEF FirstOK
  <2>6. t.key # NoKey <=> \E i \in DOMAIN app.body[t.fn] :
                            i < t.pc /\ Takes(app.body[t.fn][i])
    BY <1>2, <2>1, <2>4 DEF FirstOK
  <2>7. t.role = "detect" /\ (t.key # NoKey => Takes(app.body[t.key.fn][t.key.at]))
    BY <1>2, <2>1 DEF FirstOK
  <2> QED
    BY <2>5, <2>6, <2>7 DEF FirstOK
<1> HIDE DEF t
<1>5. Len(stack) # 1 => t.role = "track" /\ t.key = Top.key
  BY <1>1, <1>2
<1>6. Led(app, Caller) /\ Caller # << >> /\ Caller[1].fn = stack[1].fn
  BY <1>1, <1>2, <1>3, <1>4, <1>5, LedReplaced
<1>7. Caller \in Seq(Frame)
  BY <1>1, <1>2, <1>3
<1>8. Caller[1].key = stack[1].key
  <2>1. CASE Len(stack) = 1
    BY <1>1, <1>2, <1>3, <2>1
  <2>2. CASE Len(stack) # 1
    <3>1. 1 \in 1 .. Len(stack)
      BY <1>1
    <3> QED
      BY <1>1, <1>3, <2>2, <3>1
  <2> QED
    BY <1>1, <2>1, <2>2
<1> QED
  BY <1>6, <1>7, <1>8

LEMMA TrackLed ==
  ASSUME IInv, WalkOK, Walking, ~(Top.role = "detect" /\ Takes(TopCall)),
         NEW n \in Name, functions[n] # NoFn, Top.key # NoKey,
         TrackFunctionCalls(n, Top.key)
  PROVE  stack' # << >> /\ Led(app, stack') /\ stack'[1].fn = stack[1].fn
<1> DEFINE u == [fn |-> functions[n], pc |-> 1, role |-> "track",
                 key |-> Top.key, has |-> FALSE]
<1>1. /\ Led(app, Caller) /\ Caller # << >> /\ Caller \in Seq(Frame)
      /\ Caller[1].fn = stack[1].fn /\ Caller[1].key = stack[1].key
  BY LedCaller
<1>2. Top \in Frame /\ Top.key = stack[1].key /\ stack # << >> /\ Led(app, stack)
  BY LedTop DEF Walking
<1>3. u \in Frame
  <2>1. functions[n] \in Fn
    BY DEF IInv, TypeOK, CacheTypeOK
  <2> QED
    BY <1>2, <2>1 DEF Frame
<1>4. u.role = "track" /\ u.key = Caller[1].key
  BY <1>1, <1>2
<1>5. stack' = Append(Caller, u) \/ stack' = stack
  BY DEF TrackFunctionCalls
<1> HIDE DEF u
<1> QED
  BY <1>1, <1>2, <1>3, <1>4, <1>5, LedAppended

LEMMA WalkKept ==
  ASSUME IInv, WalkOK, [Next]_vars
  PROVE  WalkOK'
<1>0. app' = app
  BY DEF Next, StartPackage, DeclareFunction, EndDeclare, BeginDeclaration,
         TakeTransaction, PassStatement, RecordStatement, RecordCall,
         SkipReceive, EndTrack, EndDeclaration, EndScan, Halt, vars
<1>1. ASSUME UNCHANGED <<stack, rest>> PROVE WalkOK'
  BY <1>0, <1>1 DEF WalkOK
<1>2. ASSUME stack = << >>, stack' = stack PROVE WalkOK'
  BY <1>2 DEF WalkOK
<1>3. ASSUME NEW p \in Pkg, StartPackage(p) PROVE WalkOK'
  BY <1>2, <1>3 DEF StartPackage
<1>4. CASE DeclareFunction
  BY <1>2, <1>4, ControlParts DEF DeclareFunction, Visiting
<1>5. CASE EndDeclare \/ EndScan \/ Halt \/ UNCHANGED vars
  BY <1>1, <1>5 DEF EndDeclare, EndScan, Halt, vars
<1>6. CASE BeginDeclaration
  <2> DEFINE u == [fn |-> Head(rest), pc |-> 1, role |-> "detect", key |-> NoKey,
                   has |-> FALSE]
  <2>1. stack' = <<u>> /\ rest' = rest /\ rest # << >>
    BY <1>6 DEF BeginDeclaration
  <2>2. Head(rest) \in Fn
    <3>1. rest \in Seq(Fn)
      BY ControlParts
    <3> QED
      BY <2>1, <3>1
  <2>3. \A i \in DOMAIN app.body[Head(rest)] : ~(i < 1)
    BY <2>2, CallTyped DEF IInv
  <2>4. /\ u.fn = Head(rest) /\ u.pc = 1 /\ u.role = "detect" /\ u.key = NoKey
        /\ ~u.has
    OBVIOUS
  <2> HIDE DEF u
  <2>5. FirstOK(app, u)
    BY <2>3, <2>4 DEF FirstOK
  <2>6. Len(stack') = 1 /\ stack'[1] = u
    BY <2>1
  <2> QED
    BY <1>0, <2>1, <2>4, <2>5, <2>6 DEF WalkOK, Led
<1>7. CASE TakeTransaction
  <2> DEFINE k == [fn |-> Top.fn, at |-> Top.pc]
             t == [fn |-> Top.fn, pc |-> Top.pc + 1, role |-> "detect", key |-> k,
                   has |-> TRUE]
  <2>1. /\ Walking /\ Top.role = "detect" /\ stack # << >>
        /\ stack' = [stack EXCEPT ![Len(stack)] = t] /\ rest' = rest
    BY <1>7 DEF TakeTransaction, Walking
  <2>2. Takes(app.body[Top.fn][Top.pc])
    BY <1>7 DEF TakeTransaction, Takes, TopCall
  <2>3. /\ k \in Key /\ k # NoKey /\ Top.pc \in DOMAIN app.body[Top.fn]
        /\ Top.pc \in Nat \ {0}
    BY <2>1, CurrentCall, KeyAssumption DEF Key
  <2>4. /\ t.fn = Top.fn /\ t.pc = Top.pc + 1 /\ t.role = "detect" /\ t.key = k
        /\ t.has /\ k.fn = Top.fn /\ k.at = Top.pc
    OBVIOUS
  <2>5. Len(stack) = 1
    BY <2>1, LedTop
  <2> HIDE DEF t, k
  <2>6. FirstOK(app, t)
    BY <2>2, <2>3, <2>4 DEF FirstOK
  <2>7. Led(app, stack') /\ stack' # << >> /\ stack'[1].fn = stack[1].fn
    BY <2>1, <2>4, <2>5, <2>6, LedReplaced
  <2> QED
    BY <1>0, <2>1, <2>7 DEF WalkOK
<1>8. ASSUME Walking, ~(Top.role = "detect" /\ Takes(TopCall)),
             stack' = Caller, rest' = rest
      PROVE  WalkOK'
  BY <1>0, <1>8, LedCaller DEF WalkOK, Walking
<1>9. CASE PassStatement \/ SkipReceive
  BY <1>8, <1>9 DEF PassStatement, SkipReceive, Takes
<1>10. CASE RecordStatement
  <2>1. Walking /\ rest' = rest /\ Top.key # NoKey /\ TopCall.stmt # "none"
    BY <1>10 DEF RecordStatement, Recordable
  <2>2. ~Takes(TopCall)
    BY <2>1, CurrentCall, AppTyped DEF WellFormed, TopCall, IInv, Takes
  <2>3. CASE PassesTxn(TopCall, Top.key) /\ TrackFunctionCalls(TopCall.name, Top.key)
    <3>1. TopCall.name \in Name /\ functions[TopCall.name] # NoFn
      BY <2>1, <2>3, CurrentCall DEF PassesTxn, Known, Call
    <3> QED
      BY <1>0, <2>1, <2>2, <2>3, <3>1, TrackLed DEF WalkOK, Walking
  <2>4. \/ PassesTxn(TopCall, Top.key) /\ TrackFunctionCalls(TopCall.name, Top.key)
        \/ stack' = stack \/ stack' = Caller
    BY <1>10 DEF RecordStatement
  <2> QED
    BY <1>1, <1>8, <2>1, <2>2, <2>3, <2>4
<1>11. CASE RecordCall
  <2>1. Walking /\ rest' = rest /\ Top.role = "track" /\ Top.key # NoKey
    BY <1>11, CurrentCall DEF RecordCall, Linked
  <2>2. CASE Known(TopCall.name) /\ TrackFunctionCalls(TopCall.name, Top.key)
    <3>1. TopCall.name \in Name /\ functions[TopCall.name] # NoFn
      BY <2>1, <2>2, CurrentCall DEF Known, Call
    <3> QED
      BY <1>0, <2>1, <2>2, <3>1, TrackLed DEF WalkOK, Walking
  <2>3. \/ Known(TopCall.name) /\ TrackFunctionCalls(TopCall.name, Top.key)
        \/ stack' = Caller
    BY <1>11 DEF RecordCall
  <2> QED
    BY <1>8, <2>1, <2>2, <2>3
<1>12. CASE EndTrack
  <2>1. /\ stack # << >> /\ Top.role = "track" /\ rest' = rest
        /\ stack' = SubSeq(stack, 1, Len(stack) - 1)
    BY <1>12 DEF EndTrack, AtEnd
  <2>2. Led(app, stack') /\ stack' # << >> /\ stack'[1].fn = stack[1].fn
    BY <2>1, LedPopped
  <2> QED
    BY <1>0, <2>1, <2>2 DEF WalkOK
<1>13. CASE EndDeclaration
  BY <1>13 DEF EndDeclaration, WalkOK
<1> QED
  BY <1>3, <1>4, <1>5, <1>6, <1>7, <1>9, <1>10, <1>11, <1>12, <1>13 DEF Next

-----------------------------------------------------------------------------
(* The table.                                                              *)

Instruments(a, f) == \E i \in DOMAIN a.body[f] :
                       a.body[f][i].origin # "none" \/ a.body[f][i].uses

Entries == [body : Fn \cup {NoFn}, traced : BOOLEAN]

(* The declarations of a name among the first w outside generated files,   *)
(* and among the first t with instrumentation.                             *)
Stored(a, p, n, w) ==
  {i \in DOMAIN a.decls[p] : /\ i <= w /\ a.name[a.decls[p][i]] = n
                             /\ a.decls[p][i] \notin a.generated}
Found(a, p, n, t) ==
  {i \in DOMAIN a.decls[p] : /\ i <= t /\ a.name[a.decls[p][i]] = n
                             /\ Instruments(a, a.decls[p][i])}

(* The entry of a name when w declarations of its package have been stored *)
(* and the detectors have been on t.                                       *)
Fitting(a, p, n, w, t) ==
  LET W == Stored(a, p, n, w)
      T == Found(a, p, n, t)
      d == a.decls[p]
  IN  {e \in Entries :
         /\ e.traced <=> T # {}
         /\ e.body = NoFn <=> T \cup W = {}
         /\ \A i \in T : (\A j \in T : j <= i) => e.body = d[i]
         /\ T = {} => \A i \in W : (\A j \in W : i <= j) => e.body = d[i]}

StoredTo == [p \in Pkg |-> IF phase = "declare" THEN Behind[p] ELSE Len(app.decls[p])]
FoundTo  == [p \in Pkg |-> IF phase = "declare" THEN 0 ELSE Behind[p]]

TableInv == \A p \in Pkg, n \in Name :
              tracedFuncs[p][n] \in Fitting(app, p, n, StoredTo[p], FoundTo[p])

(* createFunctionDeclaration on the next declaration.                      *)
LEMMA StoreFits ==
  ASSUME NEW a, NEW p, NEW n, NEW w \in Nat, a.decls[p] \in Seq(Fn),
         w + 1 \in DOMAIN a.decls[p],
         NEW e \in Fitting(a, p, n, w, 0), NEW e2,
         NEW f, f = a.decls[p][w + 1],
         e2 = IF a.name[f] = n /\ f \notin a.generated /\ e.body = NoFn
              THEN [body |-> f, traced |-> FALSE] ELSE e
  PROVE  e2 \in Fitting(a, p, n, w + 1, 0)
<1> DEFINE d == a.decls[p]
           W == Stored(a, p, n, w)
           V == Stored(a, p, n, w + 1)
           T == Found(a, p, n, 0)
<1>1. T = {} /\ DOMAIN d = 1 .. Len(d) /\ f \in Fn
  BY DEF Found
<1>2. \A i \in W : i \in Nat /\ i <= w
  BY <1>1 DEF Stored
<1>3. V = IF a.name[f] = n /\ f \notin a.generated THEN W \cup {w + 1} ELSE W
  <2>1. \A i \in DOMAIN d : i <= w + 1 <=> i <= w \/ i = w + 1
    BY <1>1
  <2> QED
    BY <1>1, <2>1 DEF Stored
<1>4. /\ e \in Entries /\ ~e.traced /\ (e.body = NoFn <=> W = {})
      /\ \A i \in W : (\A j \in W : i <= j) => e.body = d[i]
  BY <1>1 DEF Fitting
<1>5. e2 \in Entries /\ ~e2.traced
  BY <1>1, <1>4 DEF Entries
<1>6. e2.body = NoFn <=> V = {}
  BY <1>1, <1>3, <1>4, SentinelAssumption
<1>7. \A i \in V : (\A j \in V : i <= j) => e2.body = d[i]
  <2>1. CASE V = W
    BY <1>3, <1>4, <2>1, <1>2
  <2>2. CASE V # W
    <3>1. V = W \cup {w + 1} /\ a.name[f] = n /\ f \notin a.generated
      BY <1>3, <2>2
    <3>2. CASE W = {}
      BY <1>4, <3>1, <3>2
    <3>3. CASE W # {}
      <4>1. e2 = e
        BY <1>4, <3>3
      <4>2. PICK k \in W : TRUE
        BY <3>3
      <4>3. ASSUME NEW i \in V, \A j \in V : i <= j PROVE i \in W /\ \A j \in W : i <= j
        BY <1>2, <3>1, <4>2, <4>3
      <4> QED
        BY <1>4, <4>1, <4>3
    <3> QED
      BY <3>2, <3>3
  <2> QED
    BY <2>1, <2>2
<1> QED
  BY <1>1, <1>5, <1>6, <1>7 DEF Fitting

(* The end of the detectors on the next declaration.                       *)
LEMMA FindFits ==
  ASSUME NEW a, NEW p, NEW n, NEW w, NEW t \in Nat, a.decls[p] \in Seq(Fn),
         t + 1 \in DOMAIN a.decls[p],
         NEW e \in Fitting(a, p, n, w, t), NEW e2,
         NEW f, f = a.decls[p][t + 1],
         e2 = IF a.name[f] = n /\ Instruments(a, f)
              THEN [body |-> f, traced |-> TRUE] ELSE e
  PROVE  e2 \in Fitting(a, p, n, w, t + 1)
<1> DEFINE d == a.decls[p]
           W == Stored(a, p, n, w)
           T == Found(a, p, n, t)
           U == Found(a, p, n, t + 1)
<1>1. DOMAIN d = 1 .. Len(d) /\ f \in Fn
  OBVIOUS
<1>2. \A i \in T : i \in Nat /\ i <= t
  BY <1>1 DEF Found
<1>3. U = IF a.name[f] = n /\ Instruments(a, f) THEN T \cup {t + 1} ELSE T
  <2>1. \A i \in DOMAIN d : i <= t + 1 <=> i <= t \/ i = t + 1
    BY <1>1
  <2> QED
    BY <1>1, <2>1 DEF Found
<1>4. CASE a.name[f] = n /\ Instruments(a, f)
  <2>1. U = T \cup {t + 1} /\ e2 = [body |-> f, traced |-> TRUE]
    BY <1>3, <1>4
  <2>2. e2 \in Entries /\ e2.traced /\ e2.body = f
    <3>1. e2.body = f /\ e2.traced
      BY <2>1
    <3>2. [body |-> f, traced |-> TRUE] \in Entries
      BY <1>1 DEF Entries
    <3> QED
      BY <2>1, <3>1, <3>2
  <2>3. \A i \in U : (\A j \in U : j <= i) => i = t + 1
    BY <1>2, <2>1
  <2>4. e2.body # NoFn
    BY <1>1, <2>2, SentinelAssumption
  <2> HIDE DEF U
  <2> QED
    BY <2>1, <2>2, <2>3, <2>4 DEF Fitting, U
<1>5. CASE ~(a.name[f] = n /\ Instruments(a, f))
  BY <1>3, <1>5 DEF Fitting
<1> QED
  BY <1>4, <1>5

(* What the detectors have found by the end of a declaration.              *)
LEMMA DetectorsFind ==
  ASSUME IInv, WalkOK, AtEnd, Top.role = "detect"
  PROVE  /\ HasInstrumentation(Top.fn) <=> Instruments(app, Top.fn)
         /\ Top.fn = Head(rest) /\ Top.fn \in Fn /\ rest # << >>
<1>1. /\ stack # << >> /\ Top = stack[1] /\ FirstOK(app, Top) /\ Top \in Frame
      /\ Len(stack) = 1
  BY LedTop DEF AtEnd, Led, Top
<1>2. Top.fn \in Fn /\ Top.pc \in Nat /\ Top.pc > Len(app.body[Top.fn])
  BY <1>1 DEF AtEnd, Frame
<1>3. \A i \in DOMAIN app.body[Top.fn] :
        /\ app.body[Top.fn][i] \in Call /\ i < Top.pc
  BY <1>2, CallTyped DEF IInv
<1>4. Top.has <=> \E i \in DOMAIN app.body[Top.fn] : Takes(app.body[Top.fn][i])
  BY <1>1, <1>3 DEF FirstOK
<1>5. \A i \in DOMAIN app.body[Top.fn] :
        app.body[Top.fn][i].origin # "none" <=>
          \/ Takes(app.body[Top.fn][i])
          \/ app.body[Top.fn][i].origin \in {"gin", "echo"}
  BY <1>3 DEF Takes, Call
<1>6. HasInstrumentation(Top.fn) <=> Instruments(app, Top.fn)
  BY <1>4, <1>5 DEF HasInstrumentation, Instruments, WebTransactions
<1>7. Top.fn = Head(rest) /\ rest # << >>
  BY <1>1, ControlParts DEF WalkOK, Visiting
<1> QED
  BY <1>2, <1>6, <1>7

LEMMA EntryTyped ==
  ASSUME IInv, NEW p \in Pkg, NEW n \in Name
  PROVE  /\ tracedFuncs[p][n] \in Entries
         /\ DOMAIN tracedFuncs = Pkg /\ DOMAIN tracedFuncs[p] = Name
BY ControlParts DEF TablesTypeOK, Entries

LEMMA TableKept ==
  ASSUME IInv, PassOK, WalkOK, TableInv, [Next]_vars
  PROVE  TableInv'
<1>1. CASE DeclareFunction
  <2> DEFINE f == Head(rest)
             q == currentPackage
             b == Behind[q]
  <2>1. /\ rest # << >> /\ rest' = Tail(rest) /\ phase = "declare"
        /\ UNCHANGED <<app, todo, currentPackage, phase>>
    BY <1>1 DEF DeclareFunction
  <2>2. /\ q \in Pkg /\ b \in Nat /\ b + 1 \in DOMAIN app.decls[q]
        /\ app.decls[q][b + 1] = f
        /\ Behind' = [Behind EXCEPT ![q] = b + 1]
    BY <2>1, VisitMoves
  <2>3. app.name[f] \in Name /\ f \in Fn
    BY <2>1, RestShrinks, AppTyped DEF AppType, IInv
  <2>4. ASSUME NEW p \in Pkg, NEW n \in Name
        PROVE  tracedFuncs'[p][n] =
                 IF p = q /\ app.name[f] = n /\ f \notin app.generated
                      /\ tracedFuncs[p][n].body = NoFn
                 THEN [body |-> f, traced |-> FALSE] ELSE tracedFuncs[p][n]
    <3>1. CASE f \in app.generated
      BY <1>1, <3>1 DEF DeclareFunction, tables
    <3>2. CASE f \notin app.generated
      <4>1. tracedFuncs' = CreateFunctionDeclaration(tracedFuncs, f)
        BY <1>1, <3>2 DEF DeclareFunction
      <4> QED
        BY <2>2, <2>3, <3>2, <4>1, EntryTyped DEF CreateFunctionDeclaration
    <3> QED
      BY <3>1, <3>2
  <2> HIDE DEF b, q, f
  <2>5. ASSUME NEW p \in Pkg, NEW n \in Name
        PROVE  tracedFuncs'[p][n] \in Fitting(app, p, n, Behind'[p], 0)
    <3>1. tracedFuncs[p][n] \in Fitting(app, p, n, Behind[p], 0)
      BY <2>1 DEF TableInv, StoredTo, FoundTo
    <3>2. CASE p = q
      <4>1. Behind[p] = b /\ Behind'[p] = b + 1
        BY <2>2, <3>2 DEF Behind, b
      <4>2. app.decls[p] \in Seq(Fn)
        BY DeclsTyped DEF IInv
      <4>3. tracedFuncs'[p][n] =
              IF app.name[f] = n /\ f \notin app.generated
                   /\ tracedFuncs[p][n].body = NoFn
              THEN [body |-> f, traced |-> FALSE] ELSE tracedFuncs[p][n]
        BY <2>4, <3>2
      <4> QED
        BY <2>2, <3>1, <3>2, <4>1, <4>2, <4>3, StoreFits
    <3>3. CASE p # q
      <4>1. Behind'[p] = Behind[p]
        BY <2>2, <3>3 DEF Behind
      <4> QED
        BY <2>4, <3>1, <3>3, <4>1
    <3> QED
      BY <3>2, <3>3
  <2> QED
    BY <2>1, <2>5 DEF TableInv, StoredTo, FoundTo
<1>2. CASE EndDeclaration
  <2> DEFINE f == Top.fn
             q == currentPackage
             b == Behind[q]
  <2>1. /\ rest # << >> /\ rest' = Tail(rest) /\ phase = "detect" /\ f = Head(rest)
        /\ UNCHANGED <<app, todo, currentPackage, phase>>
        /\ HasInstrumentation(f) <=> Instruments(app, f)
    BY <1>2, DetectorsFind DEF EndDeclaration, AtEnd
  <2>2. /\ q \in Pkg /\ b \in Nat /\ b + 1 \in DOMAIN app.decls[q]
        /\ app.decls[q][b + 1] = f
        /\ Behind' = [Behind EXCEPT ![q] = b + 1]
    BY <2>1, VisitMoves
  <2>3. app.name[f] \in Name /\ f \in Fn
    BY <2>1, RestShrinks, AppTyped DEF AppType, IInv
  <2>4. ASSUME NEW p \in Pkg, NEW n \in Name
        PROVE  tracedFuncs'[p][n] =
                 IF p = q /\ app.name[f] = n /\ Instruments(app, f)
                 THEN [body |-> f, traced |-> TRUE] ELSE tracedFuncs[p][n]
    <3>1. CASE ~Instruments(app, f)
      BY <1>2, <2>1, <3>1 DEF EndDeclaration
    <3>2. CASE Instruments(app, f)
      <4> DEFINE t == CreateFunctionDeclaration(tracedFuncs, f)
      <4>1. tracedFuncs' = UpdateFunctionDeclaration(t, f)
        BY <1>2, <2>1, <3>2 DEF EndDeclaration
      <4>2. /\ t[q][app.name[f]].body # NoFn
            /\ DOMAIN t = Pkg /\ DOMAIN t[q] = Name
            /\ p # q \/ n # app.name[f] => t[p][n] = tracedFuncs[p][n]
        BY <2>2, <2>3, EntryTyped, SentinelAssumption DEF CreateFunctionDeclaration
      <4> HIDE DEF t
      <4> QED
        BY <2>2, <2>3, <3>2, <4>1, <4>2 DEF UpdateFunctionDeclaration
    <3> QED
      BY <3>1, <3>2
  <2> HIDE DEF b, q, f
  <2>5. ASSUME NEW p \in Pkg, NEW n \in Name
        PROVE  tracedFuncs'[p][n] \in
                 Fitting(app, p, n, Len(app.decls[p]), Behind'[p])
    <3>1. tracedFuncs[p][n] \in Fitting(app, p, n, Len(app.decls[p]), Behind[p])
      BY <2>1 DEF TableInv, StoredTo, FoundTo
    <3>2. CASE p = q
      <4>1. Behind[p] = b /\ Behind'[p] = b + 1
        BY <2>2, <3>2 DEF Behind, b
      <4>2. app.decls[p] \in Seq(Fn)
        BY DeclsTyped DEF IInv
      <4>3. tracedFuncs'[p][n] =
              IF app.name[f] = n /\ Instruments(app, f)
              THEN [body |-> f, traced |-> TRUE] ELSE tracedFuncs[p][n]
        BY <2>4, <3>2
      <4> DEFINE w == Len(app.decls[p])
      <4>4. /\ tracedFuncs[p][n] \in Fitting(app, p, n, w, b)
            /\ b \in Nat /\ b + 1 \in DOMAIN app.decls[p]
            /\ f = app.decls[p][b + 1]
        BY <2>2, <3>1, <3>2, <4>1
      <4> HIDE DEF w
      <4>5. tracedFuncs'[p][n] \in Fitting(app, p, n, w, b + 1)
        BY <4>2, <4>3, <4>4, FindFits, ZenonT(60)
      <4> QED
        BY <4>1, <4>5 DEF w
    <3>3. CASE p # q
      <4>1. Behind'[p] = Behind[p]
        BY <2>2, <3>3 DEF Behind
      <4> QED
        BY <2>4, <3>1, <3>3, <4>1
    <3> QED
      BY <3>2, <3>3
  <2> QED
    BY <2>1, <2>5 DEF TableInv, StoredTo, FoundTo
<1>3. CASE EndDeclare
  <2>1. /\ phase = "declare" /\ todo = {} /\ rest = << >> /\ app' = app
        /\ phase' # "declare" /\ tracedFuncs' = tracedFuncs
    BY <1>3 DEF EndDeclare, tables
  <2>2. Behind' = [p \in Pkg |-> 0] /\ Behind = [p \in Pkg |-> Len(app.decls[p])]
    BY <1>3, <2>1, PassStarts, PassEnds
  <2> QED
    BY <2>1, <2>2 DEF TableInv, StoredTo, FoundTo
<1>4. ASSUME Behind' = Behind, app' = app, UNCHANGED tables,
             phase' = "declare" <=> phase = "declare"
      PROVE  TableInv'
  BY <1>4 DEF TableInv, StoredTo, FoundTo, tables
<1>5. ASSUME NEW p \in Pkg, StartPackage(p) PROVE TableInv'
  <2>1. app' = app /\ UNCHANGED tables /\ phase' = phase
    BY <1>5 DEF StartPackage
  <2> QED
    BY <1>4, <1>5, <2>1, PackageMoves
<1>6. CASE Aside
  <2>1. app' = app /\ UNCHANGED tables /\ (phase' = "declare" <=> phase = "declare")
    BY <1>6 DEF Aside
  <2> QED
    BY <1>4, <1>6, <2>1, AsideStays
<1> QED
  BY <1>1, <1>2, <1>3, <1>5, <1>6, StepsOfThePass

DoneOK == phase = "done" => todo = {} /\ rest = << >>

LEMMA DoneKept ==
  ASSUME DoneOK, [Next]_vars
  PROVE  DoneOK'
<1>1. CASE UNCHANGED <<phase, todo, rest>>
  BY <1>1 DEF DoneOK
<1>2. CASE phase' # "done"
  BY <1>2 DEF DoneOK
<1>3. RecordStatement \/ RecordCall => phase' # "done"
  BY DEF RecordStatement, RecordCall, TrackFunctionCalls, Walking
<1> QED
  BY <1>1, <1>2, <1>3
     DEF Next, StartPackage, DeclareFunction, EndDeclare, BeginDeclaration,
         TakeTransaction, PassStatement, SkipReceive, EndTrack, EndDeclaration,
         EndScan, Halt, vars, DoneOK, Walking, AtEnd

OrderInv == IInv /\ PassOK /\ WalkOK /\ TableInv /\ DoneOK

LEMMA OrderInitially == Init => OrderInv
<1> SUFFICES ASSUME Init PROVE OrderInv
  OBVIOUS
<1>1. IInv
  BY Initially
<1>2. PassOK /\ WalkOK
  BY DEF Init, PassOK, WalkOK
<1>3. /\ todo = Pkg /\ phase = "declare"
      /\ \A p \in Pkg, n \in Name : tracedFuncs[p][n] = [body |-> NoFn, traced |-> FALSE]
  BY DEF Init
<1>4. ASSUME NEW p \in Pkg, NEW n \in Name
      PROVE  tracedFuncs[p][n] \in Fitting(app, p, n, StoredTo[p], FoundTo[p])
  <2>1. StoredTo[p] = 0 /\ FoundTo[p] = 0
    BY <1>3 DEF StoredTo, FoundTo, Behind
  <2>2. Stored(app, p, n, 0) = {} /\ Found(app, p, n, 0) = {}
    BY <1>1, DeclsTyped DEF Stored, Found, IInv
  <2>3. tracedFuncs[p][n] \in Entries
    BY <1>1, EntryTyped
  <2> QED
    BY <1>3, <2>1, <2>2, <2>3 DEF Fitting
<1> QED
  BY <1>1, <1>2, <1>3, <1>4 DEF OrderInv, TableInv, DoneOK

LEMMA OrderKept == OrderInv /\ [Next]_vars => OrderInv'
BY Inductive, PassKept, WalkKept, TableKept, DoneKept DEF OrderInv

(* The inductive invariant of the passes: what is left of a package is the *)
(* end of it, a walk is on the declaration that comes next, and an entry   *)
(* of the table is that of the declarations behind.                        *)
THEOREM Order == Spec => []OrderInv
BY OrderInitially, OrderKept, PTL DEF Spec

(* What TraceFunction finds under a name is, for every application, the    *)
(* first declaration outside generated files or the last one with          *)
(* instrumentation, and it is marked exactly if there is one: the order    *)
(* of the packages, which differs between the two passes, does not show.   *)
THEOREM TableLeftHolds == Spec => []TableLeft
<1>1. ASSUME OrderInv PROVE TableLeft
  <2> SUFFICES ASSUME phase = "done", NEW p \in Pkg, NEW n \in Name
               PROVE  LET I == {i \in DOMAIN app.decls[p] : app.name[app.decls[p][i]] = n}
                          T == {i \in I : Instrumented(app.decls[p][i])}
                          W == {i \in I : app.decls[p][i] \notin app.generated}
                          e == tracedFuncs[p][n]
                      IN  /\ e.traced <=> T # {}
                          /\ e.body = NoFn <=> T \cup W = {}
                          /\ \A i \in T : (\A j \in T : j <= i) => e.body = app.decls[p][i]
                          /\ T = {} => \A i \in W : (\A j \in W : i <= j) =>
                                                      e.body = app.decls[p][i]
    BY DEF TableLeft
  <2> DEFINE w == Len(app.decls[p])
  <2>1. tracedFuncs[p][n] \in Fitting(app, p, n, w, w)
    BY <1>1, PassEnds DEF OrderInv, TableInv, StoredTo, FoundTo, DoneOK
  <2>2. DOMAIN app.decls[p] = 1 .. w /\ w \in Nat
    BY <1>1, DeclsTyped DEF OrderInv, IInv
  <2> HIDE DEF w
  <2>3. Stored(app, p, n, w) =
          {i \in {j \in DOMAIN app.decls[p] : app.name[app.decls[p][j]] = n} :
             app.decls[p][i] \notin app.generated}
    BY <2>2 DEF Stored
  <2>4. Found(app, p, n, w) =
          {i \in {j \in DOMAIN app.decls[p] : app.name[app.decls[p][j]] = n} :
             Instrumented(app.decls[p][i])}
    BY <2>2, SMTT(30) DEF Found, Instruments, Instrumented
  <2> QED
    BY <2>1, <2>3, <2>4 DEF Fitting
<1> QED
  BY <1>1, Order, PTL

-----------------------------------------------------------------------------
(* How the first pass ends.                                                *)

LEMMA ServedTwice ==
  ASSUME app \in Apps, NEW f \in Fn
  PROVE  Cardinality(ServedTypes(f)) < Cardinality(Served(f)) <=>
           \E i, j \in Served(f) :
             i # j /\ app.body[f][i].serves = app.body[f][j].serves
<1> DEFINE S == Served(f)
           T == ServedTypes(f)
           g == [i \in S |-> app.body[f][i].serves]
           n == Len(app.body[f])
<1>1. app.body[f] \in Seq(Call) /\ n \in Nat /\ DOMAIN app.body[f] = 1 .. n
  <2>1. app.body[f] \in Seq(Call)
    BY AppTyped DEF AppType
  <2> QED
    BY <2>1
<1>2. IsFiniteSet(S)
  <2>1. IsFiniteSet(1 .. n)
    BY <1>1, FS_Interval
  <2>2. S \in SUBSET (1 .. n)
    BY <1>1 DEF Served
  <2> QED
    BY <2>1, <2>2, FS_Subset
<1>3. g \in Surjection(S, T)
  BY DEF Surjection, ServedTypes
<1>4. /\ IsFiniteSet(T) /\ Cardinality(T) <= Cardinality(S)
      /\ Cardinality(T) = Cardinality(S) <=> g \in Injection(S, T)
  BY <1>2, <1>3, FS_Surjection
<1>5. Cardinality(T) \in Nat /\ Cardinality(S) \in Nat
  BY <1>2, <1>4, FS_CardinalityType
<1>6. g \in Injection(S, T) <=> \A i, j \in S : g[i] = g[j] => i = j
  <2>1. g \in [S -> T]
    BY <1>3 DEF Surjection
  <2> HIDE DEF g, S, T
  <2> QED
    BY <2>1 DEF Injection, IsInjective
<1>7. \A i \in S : g[i] = app.body[f][i].serves
  OBVIOUS
<1> HIDE DEF g, S, T
<1>8. Cardinality(T) < Cardinality(S) <=> Cardinality(T) # Cardinality(S)
  BY <1>4, <1>5
<1>9. Cardinality(T) < Cardinality(S) <=>
        \E i, j \in S : i # j /\ app.body[f][i].serves = app.body[f][j].serves
  BY <1>4, <1>6, <1>7, <1>8
<1> QED
  BY <1>9 DEF S, T

(* The declarations the pass has been on, the first b of each package, and *)
(* those of them that have been stored.                                    *)
Scouted(a, b) ==
  {f \in Fn : \E p \in Pkg : \E j \in DOMAIN a.decls[p] :
                j <= b[p] /\ f = a.decls[p][j]}
Visited(a, b) == Scouted(a, b) \ a.generated

\* The pass goes on in package q, from its k-th declaration to f, the next one.
Advances(b, c, q, k, f) ==
  /\ q \in Pkg /\ k \in Nat /\ b[q] = k /\ k + 1 \in DOMAIN app.decls[q]
  /\ f = app.decls[q][k + 1]
  /\ c[q] = k + 1 /\ \A p \in Pkg : p # q => c[p] = b[p]

Clash(S) == \E f, g \in S : \E i \in Served(f), j \in Served(g) :
              /\ app.body[f][i].serves = app.body[g][j].serves
              /\ f # g \/ i # j

(* What the pass knows of them.                                            *)
Learnt(S) ==
  /\ hasMain <=> \E f \in S : app.name[f] = Main
  /\ facts = UNION {ServedTypes(f) : f \in S}
  /\ errReturn <=> Clash(S)

OutcomeInv == /\ phase = "declare" => Learnt(Visited(app, Behind))
              /\ OutcomeAgrees

LEMMA ScoutedNext ==
  ASSUME app \in Apps, NEW b, NEW c, NEW q, NEW k, NEW f, Advances(b, c, q, k, f)
  PROVE  /\ Scouted(app, c) = Scouted(app, b) \cup {f}
         /\ f \notin Scouted(app, b) /\ f \in Fn
<1> DEFINE d == app.decls[q]
           B == Scouted(app, b)
<1>0. /\ q \in Pkg /\ k \in Nat /\ b[q] = k /\ k + 1 \in DOMAIN d
      /\ f = d[k + 1] /\ c[q] = k + 1 /\ \A p \in Pkg : p # q => c[p] = b[p]
  BY DEF Advances
<1>1. /\ d \in Seq(Fn) /\ DOMAIN d = 1 .. Len(d) /\ Len(d) \in Nat /\ f \in Fn
      /\ app.pkg[f] = q
      /\ \A i \in DOMAIN d : \A j \in DOMAIN d : d[j] = d[i] => j = i
  BY <1>0, DeclsTyped
<1>2. f \notin B
  <2>1. ASSUME NEW p \in Pkg, NEW j \in DOMAIN app.decls[p], j <= b[p],
               f = app.decls[p][j]
        PROVE  FALSE
    <3>1. p = q
      BY <1>0, <1>1, <2>1, DeclsTyped
    <3>2. j = k + 1
      BY <1>0, <1>1, <2>1, <3>1
    <3> QED
      BY <1>0, <2>1, <3>1, <3>2
  <2> QED
    BY <2>1 DEF Scouted
<1>3. ASSUME NEW p \in Pkg, NEW j \in DOMAIN app.decls[p]
      PROVE  j <= c[p] <=> j <= b[p] \/ (p = q /\ j = k + 1)
  <2>1. j \in Nat
    BY DeclsTyped
  <2>2. CASE p = q
    BY <1>0, <2>1, <2>2
  <2>3. CASE p # q
    BY <1>0, <2>3
  <2> QED
    BY <2>2, <2>3
<1>4. ASSUME NEW g \in Fn
      PROVE  g \in Scouted(app, c) <=> g \in B \/ g = f
  BY <1>0, <1>1, <1>3 DEF Scouted
<1> QED
  BY <1>1, <1>2, <1>4 DEF Scouted

LEMMA VisitedNext ==
  ASSUME app \in Apps, NEW b, NEW c, NEW q, NEW k, NEW f, Advances(b, c, q, k, f)
  PROVE  /\ Visited(app, c) = IF f \in app.generated THEN Visited(app, b)
                              ELSE Visited(app, b) \cup {f}
         /\ f \notin Visited(app, b) /\ Visited(app, b) \subseteq Fn /\ f \in Fn
<1>1. /\ Scouted(app, c) = Scouted(app, b) \cup {f}
      /\ f \notin Scouted(app, b) /\ f \in Fn
  BY ScoutedNext
<1>2. Scouted(app, b) \subseteq Fn
  BY DEF Scouted
<1> QED
  BY <1>1, <1>2 DEF Visited

LEMMA ClashNext ==
  ASSUME app \in Apps, NEW S \in SUBSET Fn, NEW f \in Fn \ S,
         facts = UNION {ServedTypes(g) : g \in S}
  PROVE  Clash(S \cup {f}) <=> Clash(S) \/ DuplicateFact(f)
<1>1. ServedTypes(f) \cap facts # {} <=>
        \E g \in S : \E i \in Served(f), j \in Served(g) :
          app.body[f][i].serves = app.body[g][j].serves
  <2>1. \A e : e \in facts <=> \E g \in S : e \in ServedTypes(g)
    OBVIOUS
  <2>2. \A g, e : e \in ServedTypes(g) <=> \E j \in Served(g) : e = app.body[g][j].serves
    BY DEF ServedTypes
  <2>3. \A e : e \in ServedTypes(f) \cap facts <=>
               /\ \E i \in Served(f) : e = app.body[f][i].serves
               /\ \E g \in S : \E j \in Served(g) : e = app.body[g][j].serves
    BY <2>1, <2>2
  <2> QED
    BY <2>3
<1>2. Cardinality(ServedTypes(f)) < Cardinality(Served(f)) <=>
        \E i, j \in Served(f) :
          i # j /\ app.body[f][i].serves = app.body[f][j].serves
  BY ServedTwice
<1> QED
  BY <1>1, <1>2 DEF Clash, DuplicateFact

LEMMA VisitedAll ==
  ASSUME app \in Apps
  PROVE  Visited(app, [p \in Pkg |-> Len(app.decls[p])]) = Scanned
<1>1. \A p \in Pkg : \A j \in DOMAIN app.decls[p] :
        j <= Len(app.decls[p]) /\ app.decls[p][j] \in Fn
  BY DeclsTyped
<1>2. \A f : f \in Declared(app) <=>
               \E p \in Pkg : \E j \in DOMAIN app.decls[p] : f = app.decls[p][j]
  BY DEF Declared
<1> QED
  BY <1>1, <1>2 DEF Visited, Scouted, Scanned

LEMMA OutcomeMeans ==
  ASSUME app \in Apps
  PROVE  Proceeds <=> (\E f \in Scanned : app.name[f] = Main) /\ ~Clash(Scanned)
<1>1. (\A r, s \in Registrations :
          app.body[r[1]][r[2]].serves = app.body[s[1]][s[2]].serves => r = s)
        <=> ~Clash(Scanned)
  <2>1. \A r : r \in Registrations <=>
               \E f \in Scanned : \E i \in Served(f) : r = <<f, i>>
    BY DEF Registrations
  <2>2. ASSUME Clash(Scanned),
               \A r, s \in Registrations :
                 app.body[r[1]][r[2]].serves = app.body[s[1]][s[2]].serves => r = s
        PROVE  FALSE
    <3>1. PICK f \in Scanned, g \in Scanned :
                 \E i \in Served(f), j \in Served(g) :
                   /\ app.body[f][i].serves = app.body[g][j].serves
                   /\ f # g \/ i # j
      BY <2>2 DEF Clash
    <3>2. PICK i \in Served(f), j \in Served(g) :
                 /\ app.body[f][i].serves = app.body[g][j].serves
                 /\ f # g \/ i # j
      BY <3>1
    <3> DEFINE r == <<f, i>>
               s == <<g, j>>
    <3>3. r \in Registrations /\ s \in Registrations
      BY <2>1
    <3>4. r[1] = f /\ r[2] = i /\ s[1] = g /\ s[2] = j /\ r # s
      BY <3>2
    <3> HIDE DEF r, s
    <3> QED
      BY <2>2, <3>2, <3>3, <3>4
  <2>3. ASSUME ~Clash(Scanned), NEW r \in Registrations, NEW s \in Registrations,
               app.body[r[1]][r[2]].serves = app.body[s[1]][s[2]].serves
        PROVE  r = s
    <3>1. PICK f \in Scanned : \E i \in Served(f) : r = <<f, i>>
      BY <2>1
    <3>2. PICK i \in Served(f) : r = <<f, i>>
      BY <3>1
    <3>3. PICK g \in Scanned : \E j \in Served(g) : s = <<g, j>>
      BY <2>1
    <3>4. PICK j \in Served(g) : s = <<g, j>>
      BY <3>3
    <3>5. app.body[f][i].serves = app.body[g][j].serves
      BY <2>3, <3>2, <3>4
    <3>6. f = g /\ i = j
      BY <2>3, <3>5 DEF Clash
    <3> QED
      BY <3>2, <3>4, <3>6
  <2> QED
    BY <2>2, <2>3
<1> QED
  BY <1>1 DEF Proceeds

LEMMA OutcomeStays ==
  ASSUME app' = app, UNCHANGED <<facts, hasMain, errReturn>>
  PROVE  /\ Proceeds' <=> Proceeds
         /\ \A S : Learnt(S)' <=> Learnt(S)
         /\ UNION {ServedTypes(f) : f \in Scanned}' = UNION {ServedTypes(f) : f \in Scanned}
<1>1. Scanned' = Scanned
  BY DEF Scanned, Declared
<1>2. \A f : Served(f)' = Served(f)
  BY DEF Served
<1>3. \A f : ServedTypes(f)' = ServedTypes(f)
  BY <1>2 DEF ServedTypes
<1>4. Proceeds' <=> Proceeds
  BY <1>1, <1>2 DEF Proceeds, Registrations
<1>5. ASSUME NEW S PROVE Learnt(S)' <=> Learnt(S)
  BY <1>2, <1>3 DEF Learnt, Clash
<1>6. UNION {ServedTypes(f) : f \in Scanned}' = UNION {ServedTypes(f) : f \in Scanned}
  BY <1>1, <1>3
<1> QED
  BY <1>4, <1>5, <1>6

LEMMA OutcomeKept ==
  ASSUME IInv, PassOK, OutcomeInv, [Next]_vars
  PROVE  OutcomeInv'
<1>0. app \in Apps
  BY DEF IInv
<1>1. CASE DeclareFunction
  <2>0. PICK f, S, b, c, q, k : /\ f = Head(rest) /\ S = Visited(app, Behind)
                                /\ b = Behind /\ c = Behind'
                                /\ q = currentPackage /\ k = Behind[q]
    OBVIOUS
  <2>1. /\ rest # << >> /\ rest' = Tail(rest) /\ phase = "declare"
        /\ UNCHANGED <<app, todo, currentPackage, phase>>
    BY <1>1 DEF DeclareFunction
  <2>2. /\ q \in Pkg /\ k \in Nat /\ b[q] = k /\ k + 1 \in DOMAIN app.decls[q]
        /\ f = app.decls[q][k + 1] /\ c = [b EXCEPT ![q] = k + 1]
    BY <2>0, <2>1, VisitMoves
  <2>3. /\ Visited(app, Behind') = IF f \in app.generated THEN S ELSE S \cup {f}
        /\ f \notin S /\ S \subseteq Fn /\ f \in Fn
    <3>1. DOMAIN b = Pkg /\ S = Visited(app, b)
      BY <2>0 DEF Behind
    <3>2. Advances(b, c, q, k, f)
      BY <2>2, <3>1 DEF Advances
    <3>3. /\ Visited(app, c) = IF f \in app.generated THEN Visited(app, b)
                              ELSE Visited(app, b) \cup {f}
          /\ f \notin Visited(app, b) /\ Visited(app, b) \subseteq Fn /\ f \in Fn
      BY <1>0, <3>2, VisitedNext
    <3> QED
      BY <2>0, <3>1, <3>3
  <2>4. Learnt(S)
    BY <2>0, <2>1 DEF OutcomeInv
  <2>5. CASE f \in app.generated
    <3>1. UNCHANGED <<facts, hasMain, errReturn>>
      BY <1>1, <2>0, <2>5 DEF DeclareFunction, tables
    <3>2. Learnt(S)'
      BY <2>1, <2>4, <3>1, OutcomeStays
    <3> QED
      BY <2>1, <2>3, <2>5, <3>2 DEF OutcomeInv, OutcomeAgrees
  <2>6. CASE f \notin app.generated
    <3>1. /\ hasMain' = (hasMain \/ app.name[f] = Main)
          /\ facts' = facts \cup ServedTypes(f)
          /\ errReturn' = (errReturn \/ DuplicateFact(f))
      BY <1>1, <2>0, <2>6 DEF DeclareFunction
    <3>0. PICK U : U = S \cup {f}
      OBVIOUS
    <3>2. Clash(U) <=> Clash(S) \/ DuplicateFact(f)
      BY <1>0, <2>3, <2>4, <3>0, ClashNext DEF Learnt
    <3>3. facts' = UNION {ServedTypes(g) : g \in U}
      BY <2>4, <3>0, <3>1 DEF Learnt
    <3>4. hasMain' <=> \E g \in U : app.name[g] = Main
      BY <2>4, <3>0, <3>1 DEF Learnt
    <3>5. errReturn' <=> Clash(U)
      BY <2>4, <3>1, <3>2 DEF Learnt
    <3>6. \A g : Served(g)' = Served(g) /\ ServedTypes(g)' = ServedTypes(g)
      BY <2>1 DEF Served, ServedTypes
    <3>7. Clash(U)' <=> Clash(U)
      BY <2>1, <3>6 DEF Clash
    <3>8. Learnt(U)'
      BY <2>1, <3>3, <3>4, <3>5, <3>6, <3>7 DEF Learnt
    <3> QED
      BY <2>1, <2>3, <2>6, <3>0, <3>8 DEF OutcomeInv, OutcomeAgrees
  <2> QED
    BY <2>5, <2>6
<1>2. CASE EndDeclare
  <2>1. /\ phase = "declare" /\ todo = {} /\ rest = << >> /\ app' = app
        /\ UNCHANGED <<facts, hasMain, errReturn>>
        /\ phase' = IF hasMain /\ ~errReturn THEN "detect" ELSE "failed"
    BY <1>2 DEF EndDeclare, tables
  <2>2. Learnt(Scanned)
    BY <1>0, <2>1, PassEnds, VisitedAll DEF OutcomeInv
  <2>3. Proceeds <=> hasMain /\ ~errReturn
    BY <1>0, <2>2, OutcomeMeans DEF Learnt
  <2>4. facts = UNION {ServedTypes(f) : f \in Scanned}
    BY <2>2 DEF Learnt
  <2> QED
    BY <2>1, <2>3, <2>4, OutcomeStays DEF OutcomeInv, OutcomeAgrees
<1>3. ASSUME Behind' = Behind, app' = app, UNCHANGED <<facts, hasMain, errReturn>>,
             \/ phase' = phase
             \/ phase = "detect" /\ phase' \in {"done", "panicked", "overflow"}
      PROVE  OutcomeInv'
  <2>1. /\ Proceeds' <=> Proceeds
        /\ \A S : Learnt(S)' <=> Learnt(S)
        /\ UNION {ServedTypes(f) : f \in Scanned}' = UNION {ServedTypes(f) : f \in Scanned}
    BY <1>3, OutcomeStays
  <2>2. Learnt(Visited(app, Behind)) => Learnt(Visited(app, Behind))'
    <3> DEFINE S == Visited(app, Behind)
    <3>1. Visited(app', Behind') = S
      BY <1>3
    <3> QED
      BY <1>3, <2>1, <3>1
  <2> QED
    BY <1>3, <2>1, <2>2 DEF OutcomeInv, OutcomeAgrees
<1>4. ASSUME NEW p \in Pkg, StartPackage(p) PROVE OutcomeInv'
  <2>1. app' = app /\ UNCHANGED <<facts, hasMain, errReturn>> /\ phase' = phase
    BY <1>4 DEF StartPackage, tables
  <2> QED
    BY <1>3, <1>4, <2>1, PackageMoves
<1>5. CASE EndDeclaration
  <2>1. phase = "detect" /\ phase' = phase /\ app' = app
        /\ UNCHANGED <<facts, hasMain, errReturn>>
    BY <1>5 DEF EndDeclaration, AtEnd
  <2> QED
    BY <2>1, OutcomeStays DEF OutcomeInv, OutcomeAgrees
<1>6. CASE Aside
  <2>1. /\ app' = app /\ UNCHANGED <<facts, hasMain, errReturn>>
        /\ \/ phase' = phase
           \/ phase = "detect" /\ phase' \in {"done", "panicked", "overflow"}
    BY <1>6 DEF Aside, tables
  <2> QED
    BY <1>3, <1>6, <2>1, AsideStays
<1> QED
  BY <1>1, <1>2, <1>4, <1>5, <1>6, StepsOfThePass

(* The command goes on exactly if there is a main outside generated files  *)
(* and no type of gRPC server is registered twice, in any two functions of *)
(* any packages, for every application and every order; then the facts are *)
(* all the types.                                                          *)
THEOREM OutcomeAgreesHolds == Spec => []OutcomeAgrees
<1>1. Init => OutcomeInv
  <2> SUFFICES ASSUME Init PROVE OutcomeInv
    OBVIOUS
  <2>1. /\ app \in Apps /\ phase = "declare" /\ todo = Pkg
        /\ facts = {} /\ ~hasMain /\ ~errReturn
    BY DEF Init
  <2>2. Visited(app, Behind) = {}
    <3>1. \A p \in Pkg : Behind[p] = 0
      BY <2>1 DEF Behind
    <3>2. \A p \in Pkg : \A j \in DOMAIN app.decls[p] : ~(j <= 0)
      BY <2>1, DeclsTyped
    <3> QED
      BY <3>1, <3>2 DEF Visited, Scouted
  <2>3. Learnt({})
    BY <2>1 DEF Learnt, Clash
  <2> QED
    BY <2>1, <2>2, <2>3 DEF OutcomeInv, OutcomeAgrees
<1>2. OrderInv /\ OutcomeInv /\ [Next]_vars => OutcomeInv'
  BY OutcomeKept DEF OrderInv
<1>3. OutcomeInv => OutcomeAgrees
  BY DEF OutcomeInv
<1> QED
  BY <1>1, <1>2, <1>3, Order, PTL DEF Spec

-----------------------------------------------------------------------------
(* What the detector has passed.                                           *)

(* The declaration the detectors are on, if any.                           *)
Current == IF stack = << >> THEN {} ELSE {Head(rest)}

(* Recorded, or left out because the transaction had ended.                *)
Kept(k, x) == x \in DataOf(k).exprs \/ DataOf(k).closed

(* The calls of a function before the n-th; the statements among them.     *)
Calling(a, g, n) ==
  {<<g, j>> : j \in {i \in DOMAIN a.body[g] : i < n /\ a.body[g][i].form # "recv"}}
Written(a, f, i) == a.body[f][i].stmt # "none" /\ a.body[f][i].form # "recv"

Started == {k \in Key : k.at # 0}

(* Entries are of declarations met so far, and their names are known.      *)
KeysMet ==
  /\ phase = "declare" => DOMAIN transactions = {}
  /\ phase \in {"detect", "done"} =>
       /\ \A k \in DOMAIN transactions :
            IF k.at = 0 THEN k.fn \in Declared(app)
            ELSE k.fn \in Scouted(app, Behind) \cup Current
       /\ \A f \in Scouted(app, Behind) \cup Current : functions[app.name[f]] # NoFn

(* A transaction is closed by an End of its own.                           *)
EndsClose ==
  \A k \in Started :
    DataOf(k).closed <=> \E x \in DataOf(k).exprs : IsEnd(k, x)

(* Of the function the detector is on, what is recorded is behind it.      *)
PastOnly ==
  phase = "detect" /\ stack # << >> =>
    \A k \in Started : k.fn = stack[1].fn =>
      \A y \in DataOf(k).exprs :
        y[1] = k.fn => y[2] < stack[1].pc \/ k.fn \in Reached(app, k)

(* A callee is recorded from its first call on.                            *)
CalleesBehind ==
  phase = "detect" =>
    \A m \in 2 .. Len(stack) :
      \A x \in Calling(app, stack[m].fn, stack[m].pc) : Kept(stack[1].key, x)

CalleesWhole ==
  \A k \in Started : \A y \in DataOf(k).exprs : y[1] # k.fn =>
    Calling(app, y[1], y[2]) \subseteq DataOf(k).exprs

-----------------------------------------------------------------------------
(* What the steps do to the entry of a transaction.                        *)

LEMMA EntryIs ==
  ASSUME IInv, NEW k \in Key
  PROVE  /\ DataOf(k) \in Data(app)
         /\ k.at # 0 => \A x \in DataOf(k).exprs :
                          x \in {k.fn} \X Own(app, k) \/ x[1] \in Reached(app, k)
         /\ k \notin DOMAIN transactions => DataOf(k) = NoData
<1>1. NoData \in Data(app) /\ NoData.exprs = {}
  BY DEF NoData, Data
<1> QED
  BY <1>1, IInvGood DEF DataOf, CacheGood, Good

LEMMA EntryStays ==
  ASSUME UNCHANGED transactions
  PROVE  \A k : DataOf(k)' = DataOf(k)
BY DEF DataOf

LEMMA EntryAdded ==
  ASSUME NEW k \in Started, NEW x, AddCall(k, x)
  PROVE  /\ \A j : j # k => DataOf(j)' = DataOf(j)
         /\ DOMAIN transactions' \subseteq DOMAIN transactions \cup {k}
         /\ DataOf(k).closed => DataOf(k)' = DataOf(k)
         /\ ~DataOf(k).closed =>
              /\ DataOf(k)'.exprs = DataOf(k).exprs \cup {x}
              /\ DataOf(k)'.closed <=> IsEnd(k, x)
<1>1. IsEnd(k, x) <=> IsTxnEnd(k, app.body[x[1]][x[2]])
  BY DEF IsEnd, IsTxnEnd, TxnName, Started
<1>2. CASE CanAdd(k)
  <2> DEFINE d == [exprs  |-> DataOf(k).exprs \cup {x},
                   closed |-> IsTxnEnd(k, app.body[x[1]][x[2]])]
  <2>1. transactions' = [j \in DOMAIN transactions \cup {k} |->
                           IF j = k THEN d ELSE transactions[j]]
    BY <1>2 DEF AddCall, AddTxnToCache
  <2>2. /\ d.exprs = DataOf(k).exprs \cup {x}
        /\ d.closed <=> IsEnd(k, x)
    BY <1>1
  <2> HIDE DEF d
  <2>3. DataOf(k)' = d /\ \A j : j # k => DataOf(j)' = DataOf(j)
    BY <2>1 DEF DataOf
  <2> QED
    BY <1>2, <2>1, <2>2, <2>3 DEF CanAdd
<1>3. CASE ~CanAdd(k)
  BY <1>3, EntryStays DEF AddCall, CanAdd
<1> QED
  BY <1>2, <1>3

(* The detectors after DetectTransactions can only empty an entry, one of  *)
(* the declaration, and not one DetectTransactions alone knows.            *)
LEMMA EntryEmptied ==
  ASSUME IInv, EndDeclaration, NEW k \in Started
  PROVE  \/ DataOf(k)' = DataOf(k)
         \/ /\ DataOf(k)' = NoData
            /\ k.fn = Top.fn /\ app.body[k.fn][k.at].origin # "agent"
<1> DEFINE f == Top.fn
           t == WithWeb(transactions, f)
           W == {[fn |-> f, at |-> i] : i \in WebTransactions(f)}
           R == {[fn |-> h, at |-> 0] : h \in WrappedHandlers(f)}
<1>1. transactions' = WithRoutes(t, f)
  BY DEF EndDeclaration
<1>2. /\ DOMAIN t = DOMAIN transactions \cup W
      /\ \A j \in DOMAIN t : t[j] = IF j \in W THEN NoData ELSE transactions[j]
  BY DEF WithWeb
<1>3. k \notin R
  BY DEF Started
<1>4. /\ k \in DOMAIN transactions' <=> k \in DOMAIN t
      /\ k \in DOMAIN t => transactions'[k] = t[k]
  BY <1>1, <1>3 DEF WithRoutes
<1>5. CASE k \in W
  <2>1. PICK i \in WebTransactions(f) : k = [fn |-> f, at |-> i]
    BY <1>5
  <2>2. k.fn = f /\ app.body[k.fn][k.at].origin # "agent"
    BY <2>1 DEF WebTransactions
  <2>3. DataOf(k)' = NoData
    BY <1>2, <1>4, <1>5 DEF DataOf
  <2> QED
    BY <2>2, <2>3
<1>6. CASE k \notin W
  <2> HIDE DEF t, W
  <2>1. DataOf(k)' = DataOf(k)
    BY <1>2, <1>4, <1>6 DEF DataOf
  <2> QED
    BY <2>1
<1> QED
  BY <1>5, <1>6

-----------------------------------------------------------------------------
(* What they do to the stack.                                              *)

(* The walk is one call further, in the same functions.                    *)
Along(s) ==
  /\ Len(s) >= Len(stack)
  /\ \A m \in 1 .. Len(stack) :
       /\ s[m].fn = stack[m].fn /\ s[m].key = stack[m].key
       /\ s[m].pc = IF m = Len(stack) THEN Top.pc + 1 ELSE stack[m].pc

LEMMA CallerAlong ==
  ASSUME IInv, Walking
  PROVE  /\ Along(Caller) /\ Len(Caller) = Len(stack) /\ Caller \in Seq(Frame)
         /\ Len(stack) \in Nat \ {0}
<1> DEFINE t == [Top EXCEPT !.pc = @ + 1]
<1>1. stack \in Seq(Frame) /\ Len(stack) \in Nat \ {0} /\ Top \in Frame
  BY IInvGood, TopTyped DEF StackOK, Walking
<1>2. /\ t \in Frame /\ t.fn = Top.fn /\ t.key = Top.key /\ t.pc = Top.pc + 1
  BY <1>1, SMTT(30) DEF Frame
<1>3. Caller = [stack EXCEPT ![Len(stack)] = t]
  BY <1>1 DEF Caller, Top
<1> HIDE DEF t
<1>4. /\ Caller \in Seq(Frame) /\ Len(Caller) = Len(stack)
      /\ \A m \in 1 .. Len(stack) : Caller[m] = IF m = Len(stack) THEN t ELSE stack[m]
  BY <1>1, <1>2, <1>3
<1> QED
  BY <1>1, <1>2, <1>4 DEF Along, Top

(* trackFunctionCalls starts.                                              *)
Enters(s) ==
  /\ Len(s) = Len(stack) + 1
  /\ s[Len(s)].pc = 1 /\ s[Len(s)].fn = functions[TopCall.name]

LEMMA TrackAlong ==
  ASSUME IInv, Walking, TrackFunctionCalls(TopCall.name, Top.key), phase' = "detect"
  PROVE  Along(stack') /\ Enters(stack')
<1> DEFINE u == [fn |-> functions[TopCall.name], pc |-> 1, role |-> "track",
                 key |-> Top.key, has |-> FALSE]
<1>1. /\ Along(Caller) /\ Len(Caller) = Len(stack) /\ Caller \in Seq(Frame)
      /\ Len(stack) \in Nat \ {0}
  BY CallerAlong
<1>2. stack' = Append(Caller, u)
  BY DEF TrackFunctionCalls
<1>3. u.pc = 1 /\ u.fn = functions[TopCall.name]
  OBVIOUS
<1> HIDE DEF u
<1>4. /\ Len(stack') = Len(stack) + 1 /\ stack'[Len(stack) + 1] = u
      /\ \A m \in 1 .. Len(stack) : stack'[m] = Caller[m]
  BY <1>1, <1>2
<1> QED
  BY <1>1, <1>3, <1>4 DEF Along, Enters

-----------------------------------------------------------------------------
(* Where the walk is.                                                      *)

LEMMA TheWalk ==
  ASSUME IInv, WalkOK, stack # << >>
  PROVE  /\ Current = {stack[1].fn} /\ stack[1].fn \in Declared(app)
         /\ stack[1].fn \in Fn /\ stack[1] \in Frame /\ stack[1].fn = Head(rest)
         /\ stack[1].pc \in Nat \ {0}
         /\ Top.key = stack[1].key
         /\ stack[1].key # NoKey =>
              LET k == stack[1].key
              IN  /\ k \in Started /\ k.fn = stack[1].fn /\ k.at \in Nat
                  /\ k.at < stack[1].pc /\ k.at \in DOMAIN app.body[k.fn]
                  /\ Takes(app.body[k.fn][k.at])
                  /\ \A j \in k.at + 1 .. stack[1].pc - 1 : ~Takes(app.body[k.fn][j])
<1> DEFINE t == stack[1]
<1>1. /\ FirstOK(app, t) /\ stack \in Seq(Frame) /\ Top.key = t.key
      /\ Len(stack) \in Nat \ {0}
  BY LedTop DEF Led
<1>2. 1 \in 1 .. Len(stack)
  BY <1>1
<1>3. t \in Frame /\ Linked(app, t)
  BY <1>1, <1>2, IInvGood DEF StackOK, FramesLinked
<1>4. rest # << >> /\ rest \in Seq(Fn) /\ RestDeclared /\ t.fn = Head(rest)
  BY ControlParts DEF Visiting, WalkOK
<1>5. Head(rest) \in Declared(app)
  <2>1. Head(rest) = rest[1] /\ 1 \in 1 .. Len(rest)
    BY <1>4
  <2> QED
    BY <1>4, <2>1 DEF RestDeclared
<1>6. ASSUME t.key # NoKey
      PROVE  /\ t.key \in Started /\ t.key.fn = t.fn /\ t.key.at \in Nat
             /\ t.key.at < t.pc /\ t.key.at \in DOMAIN app.body[t.fn]
             /\ Takes(app.body[t.fn][t.key.at])
             /\ \A j \in t.key.at + 1 .. t.pc - 1 : ~Takes(app.body[t.fn][j])
  BY <1>1, <1>3, <1>6 DEF Linked, FirstOK, Frame, Key, Started
<1>7. t.fn \in Fn /\ t.pc \in Nat \ {0}
  BY <1>3 DEF Frame
<1> HIDE DEF t
<1>8. t.key # NoKey => t.key.fn = t.fn
  BY <1>6
<1> QED
  BY <1>1, <1>3, <1>4, <1>5, <1>6, <1>7, <1>8 DEF Current, t

LEMMA ScopeSteps ==
  ASSUME IInv, [Next]_vars
  PROVE  /\ app' = app
         /\ \/ UNCHANGED <<transactions, functions, stack, existingErrors>>
            \/ BeginDeclaration \/ EndDeclaration \/ EndTrack \/ TakeTransaction
            \/ PassStatement \/ SkipReceive \/ RecordStatement \/ RecordCall
BY DEF Next, StartPackage, DeclareFunction, EndDeclare, BeginDeclaration,
       TakeTransaction, PassStatement, RecordStatement, RecordCall,
       SkipReceive, EndTrack, EndDeclaration, EndScan, Halt, vars, cache

(* The declaration that comes next.                                        *)
LEMMA HeadComes ==
  ASSUME IInv, PassOK, rest # << >>
  PROVE  LET p == currentPackage
         IN  /\ p \in Pkg /\ Behind[p] \in Nat
             /\ Behind[p] + 1 \in DOMAIN app.decls[p]
             /\ app.decls[p][Behind[p] + 1] = Head(rest)
<1> DEFINE p == currentPackage
           d == app.decls[p]
           b == Len(d) - Len(rest)
<1>1. /\ p \in Pkg /\ p \notin todo /\ Len(rest) <= Len(d)
      /\ \A i \in 1 .. Len(rest) : rest[i] = d[b + i]
  BY DEF PassOK
<1>2. d \in Seq(Fn) /\ Len(d) \in Nat /\ DOMAIN d = 1 .. Len(d)
  BY <1>1, DeclsTyped DEF IInv
<1>3. rest \in Seq(Fn) /\ Len(rest) \in Nat \ {0} /\ Head(rest) = rest[1]
  BY ControlParts
<1>4. b \in Nat /\ b + 1 \in DOMAIN d /\ d[b + 1] = Head(rest)
  BY <1>1, <1>2, <1>3
<1>5. Behind[p] = b
  BY <1>1 DEF Behind
<1> QED
  BY <1>1, <1>4, <1>5

LEMMA HeadNew ==
  ASSUME IInv, PassOK, rest # << >>
  PROVE  Head(rest) \notin Scouted(app, Behind)
<1> DEFINE q == currentPackage
           n == Behind[q] + 1
           f == Head(rest)
<1>1. q \in Pkg /\ Behind[q] \in Nat /\ n \in DOMAIN app.decls[q] /\ app.decls[q][n] = f
  BY HeadComes
<1>2. SUFFICES ASSUME NEW p \in Pkg, NEW j \in DOMAIN app.decls[p], j <= Behind[p],
                      f = app.decls[p][j]
               PROVE  FALSE
  BY DEF Scouted
<1>3. p = q
  <2>1. app.pkg[f] = p
    BY <1>2, DeclsTyped DEF IInv
  <2>2. app.pkg[f] = q
    BY <1>1, DeclsTyped DEF IInv
  <2> QED
    BY <2>1, <2>2
<1>4. j = n
  BY <1>1, <1>2, <1>3, DeclsTyped DEF IInv
<1> QED
  BY <1>1, <1>2, <1>3, <1>4

LEMMA ScoutedGrows ==
  ASSUME IInv, PassOK, EndDeclaration
  PROVE  Scouted(app, Behind)' = Scouted(app, Behind) \cup {Head(rest)}
<1> DEFINE q == currentPackage
           n == Behind[q]
<1>1. rest # << >> /\ rest' = Tail(rest) /\ UNCHANGED <<app, todo, currentPackage>>
  BY ControlParts DEF EndDeclaration, AtEnd, Visiting
<1>2. /\ q \in Pkg /\ n \in Nat /\ n + 1 \in DOMAIN app.decls[q]
      /\ app.decls[q][n + 1] = Head(rest)
      /\ Behind' = [Behind EXCEPT ![q] = n + 1]
  BY <1>1, VisitMoves
<1>3. Behind'[q] = n + 1 /\ \A p \in Pkg : p # q => Behind'[p] = Behind[p]
  BY <1>2 DEF Behind
<1> HIDE DEF n
<1>4. PICK b : b = Behind
  OBVIOUS
<1>5. PICK c : c = Behind'
  OBVIOUS
<1>6. b[q] = n
  BY <1>4 DEF n
<1>7. Advances(b, c, q, n, Head(rest))
  BY <1>2, <1>3, <1>4, <1>5, <1>6 DEF Advances
<1>8. Scouted(app, c) = Scouted(app, b) \cup {Head(rest)}
  BY <1>7, ScoutedNext DEF IInv
<1> QED
  BY <1>1, <1>4, <1>5, <1>8

(* A function of the same package that comes before has been scouted.      *)
LEMMA BeforeScouted ==
  ASSUME IInv, PassOK, rest # << >>, NEW g \in Declared(app), Before(g, Head(rest))
  PROVE  g \in Scouted(app, Behind)
<1> DEFINE q == currentPackage
           n == Behind[q] + 1
           f == Head(rest)
<1>1. q \in Pkg /\ Behind[q] \in Nat /\ n \in DOMAIN app.decls[q] /\ app.decls[q][n] = f
  BY HeadComes
<1>2. app.pkg[f] = q
  BY <1>1, DeclsTyped DEF IInv
<1>3. PICK i, j \in DOMAIN app.decls[q] :
        i < j /\ app.decls[q][i] = g /\ app.decls[q][j] = f
  BY <1>2 DEF Before
<1>4. j = n
  BY <1>1, <1>3, DeclsTyped DEF IInv
<1>5. i <= Behind[q]
  <2>1. i \in Nat
    BY <1>1, <1>3, DeclsTyped DEF IInv
  <2> QED
    BY <1>1, <1>3, <1>4, <2>1
<1>6. g \in Fn
  BY DeclaredFn DEF IInv
<1> QED
  BY <1>1, <1>3, <1>5, <1>6 DEF Scouted

-----------------------------------------------------------------------------
(* The entries are of declarations the detectors have met.                 *)

LEMMA ScoutedStays ==
  ASSUME IInv, PassOK, Aside \/ \E p \in Pkg : StartPackage(p)
  PROVE  Scouted(app, Behind)' = Scouted(app, Behind)
BY AsideStays, PackageMoves DEF Aside, StartPackage

LEMMA RecordedKey ==
  ASSUME IInv, WalkOK, RecordStatement \/ RecordCall
  PROVE  /\ Walking /\ Top.key \in Started /\ Top.key = stack[1].key
         /\ Top.key.fn = stack[1].fn /\ AddCall(Top.key, <<Top.fn, Top.pc>>)
         /\ <<Top.fn, Top.pc>> \in Calls(app) /\ Top.fn \in Fn
         /\ Top.pc \in DOMAIN app.body[Top.fn] /\ Top.pc \in Nat \ {0}
         /\ app' = app /\ functions' = functions /\ existingErrors' = existingErrors
<1>1. /\ Walking /\ AddCall(Top.key, <<Top.fn, Top.pc>>) /\ Top.key # NoKey
      /\ app' = app /\ functions' = functions /\ existingErrors' = existingErrors
  <2>1. CASE RecordStatement
    BY <2>1 DEF RecordStatement, Recordable
  <2>2. CASE RecordCall
    <3>1. Walking /\ Top.role = "track"
      BY <2>2 DEF RecordCall
    <3>2. Top.key # NoKey
      BY <3>1, CurrentCall DEF Linked
    <3> QED
      BY <2>2, <3>1, <3>2 DEF RecordCall
  <2> QED
    BY <2>1, <2>2
<1>2. stack # << >>
  BY <1>1 DEF Walking
<1>3. stack[1].key = Top.key
  BY <1>2, TheWalk
<1>4. Top.key \in Started /\ Top.key.fn = stack[1].fn
  BY <1>1, <1>2, <1>3, TheWalk
<1> QED
  BY <1>1, <1>3, <1>4, CurrentCall

(* Who is met while the stack changes but not the list.                    *)
LEMMA CurrentStays ==
  ASSUME stack # << >>, stack' # << >>, rest' = rest
  PROVE  Current' = Current
BY DEF Current

LEMMA WalkGoesOn ==
  ASSUME IInv, WalkOK,
         \/ EndTrack \/ TakeTransaction \/ PassStatement \/ SkipReceive
         \/ RecordStatement \/ RecordCall
  PROVE  /\ stack # << >> /\ stack' # << >> /\ rest' = rest
         /\ app' = app /\ functions' = functions /\ Aside
<1>1. rest' = rest /\ stack # << >> /\ app' = app /\ functions' = functions /\ Aside
  BY DEF EndTrack, TakeTransaction, PassStatement, SkipReceive, RecordStatement,
         RecordCall, TrackFunctionCalls, Walking, AtEnd, cache, tables, Aside
<1>2. Caller # << >> /\ stack \in Seq(Frame) /\ Len(stack) \in Nat \ {0}
  <2>1. stack \in Seq(Frame) /\ Len(stack) \in Nat \ {0}
    BY <1>1, LedTop
  <2> QED
    BY <2>1 DEF Caller
<1>3. CASE EndTrack
  BY <1>1, <1>3, LedPopped DEF EndTrack
<1>4. CASE TakeTransaction
  <2>1. PICK t : stack' = [stack EXCEPT ![Len(stack)] = t]
    BY <1>4 DEF TakeTransaction
  <2> QED
    BY <1>1, <1>2, <2>1
<1>5. CASE PassStatement \/ SkipReceive
  <2>1. stack' = Caller
    BY <1>5 DEF PassStatement, SkipReceive
  <2> QED
    BY <1>1, <1>2, <2>1
<1>6. ASSUME NEW n, NEW k, TrackFunctionCalls(n, k) PROVE stack' # << >>
  <2>1. PICK u : stack' = Append(Caller, u) \/ stack' = stack
    BY <1>6 DEF TrackFunctionCalls
  <2>2. Len(Caller) \in Nat
    BY <1>2 DEF Caller
  <2> QED
    BY <1>1, <2>1, <2>2
<1>7. CASE RecordStatement \/ RecordCall
  BY <1>1, <1>2, <1>6, <1>7 DEF RecordStatement, RecordCall
<1> QED
  BY <1>1, <1>3, <1>4, <1>5, <1>7

LEMMA KeysKept ==
  ASSUME IInv, PassOK, WalkOK, KeysMet, [Next]_vars
  PROVE  KeysMet'
<1>0. app' = app
  BY ScopeSteps
<1> DEFINE Met == Scouted(app, Behind) \cup Current
<1>1. ASSUME Met' = Met, UNCHANGED <<transactions, functions>>,
             phase' = phase \/ (phase = "detect" /\ phase' \in {"done", "panicked", "overflow"})
      PROVE  KeysMet'
  BY <1>0, <1>1 DEF KeysMet
<1>2. ASSUME NEW p \in Pkg, StartPackage(p) PROVE KeysMet'
  <2>1. Scouted(app, Behind)' = Scouted(app, Behind)
    BY <1>2, ScoutedStays
  <2>2. Current' = Current
    BY <1>2 DEF StartPackage, Current
  <2> QED
    BY <1>1, <1>2, <2>1, <2>2 DEF StartPackage, cache
<1>3. CASE DeclareFunction
  <2>1. phase' = "declare" /\ phase = "declare" /\ transactions' = transactions
    BY <1>3 DEF DeclareFunction, cache
  <2> QED
    BY <2>1 DEF KeysMet
<1>4. CASE EndDeclare
  <2>1. /\ phase = "declare" /\ phase' # "declare" /\ transactions' = transactions
        /\ stack' = stack
    BY <1>4 DEF EndDeclare, cache
  <2>2. DOMAIN transactions' = {} /\ Current' = {}
    BY <2>1, ControlParts DEF KeysMet, Visiting, Current
  <2>3. Scouted(app, Behind)' = {}
    <3>1. Behind' = [p \in Pkg |-> 0]
      BY <1>4, PassStarts
    <3>2. \A p \in Pkg : \A j \in DOMAIN app.decls[p] : ~(j <= 0)
      BY DeclsTyped DEF IInv
    <3> QED
      BY <1>0, <3>1, <3>2 DEF Scouted
  <2> QED
    BY <2>1, <2>2, <2>3 DEF KeysMet
<1>5. CASE EndScan \/ Halt \/ UNCHANGED vars
  <2>1. Aside /\ UNCHANGED <<transactions, functions, stack>>
    BY <1>5 DEF EndScan, Halt, vars, Aside, tables, cache
  <2>2. Met' = Met
    BY <2>1, ScoutedStays DEF Current, Aside
  <2> QED
    BY <1>1, <2>1, <2>2 DEF Aside
<1>6. CASE BeginDeclaration
  <2> DEFINE f == Head(rest)
  <2>1. /\ stack = << >> /\ stack' # << >> /\ rest' = rest /\ rest # << >>
        /\ functions' = [functions EXCEPT ![app.name[f]] = f]
        /\ phase' = phase /\ phase = "detect" /\ transactions' = transactions
        /\ Aside
    BY <1>6 DEF BeginDeclaration, Aside, tables
  <2>2. Met' = Scouted(app, Behind) \cup {f} /\ Met = Scouted(app, Behind)
    BY <2>1, ScoutedStays DEF Current
  <2>3. f \in Fn
    <3>1. rest \in Seq(Fn)
      BY ControlParts
    <3> QED
      BY <2>1, <3>1
  <2>4. Scouted(app, Behind) \subseteq Fn
    BY DEF Scouted
  <2>5. /\ functions \in [Name -> Fn \cup {NoFn}]
        /\ \A g \in Fn : app.name[g] \in Name
    BY ControlParts, AppTyped DEF IInv, AppType
  <2>6. ASSUME NEW g \in Met' PROVE functions'[app.name[g]] # NoFn
    <3>1. g \in Fn
      BY <2>2, <2>3, <2>4
    <3>2. CASE app.name[g] = app.name[f]
      BY <2>1, <2>3, <2>5, <3>2, SentinelAssumption
    <3>3. CASE app.name[g] # app.name[f]
      BY <2>1, <2>2, <2>5, <3>1, <3>3 DEF KeysMet
    <3> QED
      BY <3>2, <3>3
  <2>7. \A k \in DOMAIN transactions :
          IF k.at = 0 THEN k.fn \in Declared(app) ELSE k.fn \in Met
    BY <2>1 DEF KeysMet
  <2> QED
    BY <1>0, <2>1, <2>2, <2>6, <2>7 DEF KeysMet
<1>7. CASE EndTrack \/ TakeTransaction \/ PassStatement \/ SkipReceive
  <2>1. Aside /\ transactions' = transactions /\ functions' = functions /\ Current' = Current
    BY <1>7, WalkGoesOn, CurrentStays
       DEF EndTrack, TakeTransaction, PassStatement, SkipReceive, cache
  <2> QED
    BY <1>1, <2>1, ScoutedStays DEF Aside
<1>8. CASE RecordStatement \/ RecordCall
  <2>1. Aside /\ functions' = functions /\ Current' = Current /\ stack # << >>
    BY <1>8, WalkGoesOn, CurrentStays
  <2>2. Met' = Met
    BY <2>1, ScoutedStays
  <2>3. Top.key \in Started /\ Top.key.fn = stack[1].fn
    BY <1>8, RecordedKey
  <2>4. DOMAIN transactions' \subseteq DOMAIN transactions \cup {Top.key}
    BY <1>8, <2>3, RecordedKey, EntryAdded
  <2>5. Top.key.at # 0 /\ Top.key.fn \in Current
    BY <2>1, <2>3, TheWalk DEF Started
  <2>6. phase = "detect"
    BY <1>8 DEF RecordStatement, RecordCall, Walking
  <2> HIDE DEF Met
  <2>7. ASSUME NEW k \in DOMAIN transactions'
        PROVE  IF k.at = 0 THEN k.fn \in Declared(app) ELSE k.fn \in Met
    BY <2>4, <2>5, <2>6 DEF KeysMet, Met
  <2>8. \A f \in Met : functions[app.name[f]] # NoFn
    BY <2>6 DEF KeysMet, Met
  <2> QED
    BY <1>0, <2>1, <2>2, <2>6, <2>7, <2>8 DEF KeysMet, Met, Aside
<1>9. CASE EndDeclaration
  <2> DEFINE f == Top.fn
             t == WithWeb(transactions, f)
             W == {[fn |-> f, at |-> i] : i \in WebTransactions(f)}
             R == {[fn |-> h, at |-> 0] : h \in WrappedHandlers(f)}
  <2>1. /\ stack # << >> /\ stack' = << >> /\ phase = "detect" /\ phase' = phase
        /\ functions' = functions /\ transactions' = WithRoutes(t, f)
        /\ Top.role = "detect"
    BY <1>9 DEF EndDeclaration, AtEnd
  <2>2. f = stack[1].fn /\ f = Head(rest) /\ f \in Fn
    <3>1. Len(stack) = 1
      BY <2>1, LedTop
    <3> QED
      BY <2>1, <3>1, TheWalk DEF Top
  <2>3. Met' = Met
    BY <1>9, <2>1, <2>2, ScoutedGrows DEF Current
  <2>4. DOMAIN transactions' = (DOMAIN transactions \cup W) \cup R
    BY <2>1 DEF WithRoutes, WithWeb
  <2>5. \A k \in W : k.fn \in Met /\ k.at # 0
    <3>1. \A i \in WebTransactions(f) : i # 0
      BY <2>2, CallTyped DEF WebTransactions, IInv
    <3> QED
      BY <2>1, <2>2, <3>1 DEF Current
  <2>6. \A k \in R : k.fn \in Declared(app) /\ k.at = 0
    <3>1. ASSUME NEW h \in WrappedHandlers(f) PROVE h \in Declared(app)
      <4>1. PICK i \in DOMAIN app.body[f] : h = functions[app.body[f][i].wraps]
                                            /\ app.body[f][i].wraps # NoName /\ h # NoFn
        BY <3>1 DEF WrappedHandlers
      <4>2. app.body[f][i].wraps \in Name
        BY <2>2, <4>1, CallTyped DEF IInv, Call
      <4> QED
        BY <4>1, <4>2, ControlParts DEF NamesFound
    <3> QED
      BY <3>1
  <2> HIDE DEF Met, t, W, R
  <2>7. ASSUME NEW k \in DOMAIN transactions'
        PROVE  IF k.at = 0 THEN k.fn \in Declared(app) ELSE k.fn \in Met
    <3>1. CASE k \in DOMAIN transactions
      BY <2>1, <3>1 DEF KeysMet, Met
    <3>2. CASE k \in W
      BY <2>5, <3>2
    <3>3. CASE k \in R
      BY <2>6, <3>3
    <3> QED
      BY <2>4, <3>1, <3>2, <3>3
  <2>8. \A g \in Met : functions[app.name[g]] # NoFn
    BY <2>1 DEF KeysMet, Met
  <2> QED
    BY <1>0, <2>1, <2>3, <2>7, <2>8 DEF KeysMet, Met
<1> HIDE DEF Met
<1> QED
  BY <1>2, <1>3, <1>4, <1>5, <1>6, <1>7, <1>8, <1>9 DEF Next

-----------------------------------------------------------------------------
(* How the walk goes on.                                                   *)

LEMMA DataSteps ==
  ASSUME [Next]_vars
  PROVE  \/ UNCHANGED transactions
         \/ RecordStatement \/ RecordCall \/ EndDeclaration
BY DEF Next, StartPackage, DeclareFunction, EndDeclare, BeginDeclaration,
       TakeTransaction, PassStatement, SkipReceive, EndTrack, EndScan, Halt,
       vars, cache

(* Returning from a call, starting a transaction, one call further.        *)
Returns == /\ Len(stack') = Len(stack) - 1 /\ Len(stack') \in Nat \ {0}
           /\ \A m \in 1 .. Len(stack') : stack'[m] = stack[m]
Begins  == /\ Len(stack) = 1 /\ Len(stack') = 1
           /\ stack'[1].fn = Top.fn /\ stack'[1].pc = Top.pc + 1
           /\ stack'[1].key = [fn |-> Top.fn, at |-> Top.pc]
Further == Along(stack') /\ (Len(stack') = Len(stack) \/ Enters(stack'))

LEMMA RecordsFurther ==
  ASSUME IInv, RecordStatement \/ RecordCall, phase' = "detect"
  PROVE  Further
<1>1. /\ Walking
      /\ stack' = Caller \/ TrackFunctionCalls(TopCall.name, Top.key)
  BY DEF RecordStatement, RecordCall
<1> QED
  BY <1>1, CallerAlong, TrackAlong DEF Further

LEMMA WalkShape ==
  ASSUME IInv, WalkOK, [Next]_vars, phase' = "detect", stack # << >>, stack' # << >>
  PROVE  /\ phase = "detect" /\ app' = app /\ rest' = rest
         /\ \/ UNCHANGED <<stack, transactions>>
            \/ EndTrack /\ Returns
            \/ TakeTransaction /\ Begins
            \/ /\ PassStatement \/ SkipReceive \/ RecordStatement \/ RecordCall
               /\ Further
<1>1. phase # "declare" /\ stack \in Seq(Frame) /\ Len(stack) \in Nat \ {0}
  BY ControlParts, LedTop DEF Visiting
<1>2. CASE EndTrack
  <2> DEFINE n == Len(stack) - 1
  <2>1. Top.role = "track" /\ stack' = SubSeq(stack, 1, n) /\ phase = "detect"
    BY <1>2 DEF EndTrack, AtEnd
  <2>2. n \in Nat \ {0} /\ n < Len(stack)
    BY <1>1, <2>1, LedTop
  <2> HIDE DEF n
  <2>3. Len(stack') = n /\ \A m \in 1 .. n : stack'[m] = stack[m]
    BY <1>1, <2>1, <2>2, SubSeqProperties
  <2>4. Returns
    BY <2>2, <2>3 DEF Returns, n
  <2> QED
    BY <1>2, <2>1, <2>4, WalkGoesOn
<1>3. CASE TakeTransaction
  <2> DEFINE t == [fn |-> Top.fn, pc |-> Top.pc + 1, role |-> "detect",
                   key |-> [fn |-> Top.fn, at |-> Top.pc], has |-> TRUE]
  <2>1. Top.role = "detect" /\ stack' = [stack EXCEPT ![Len(stack)] = t] /\ phase = "detect"
    BY <1>3 DEF TakeTransaction, Walking
  <2>2. Len(stack) = 1
    BY <2>1, LedTop
  <2>3. /\ t.fn = Top.fn /\ t.pc = Top.pc + 1
        /\ t.key = [fn |-> Top.fn, at |-> Top.pc]
    OBVIOUS
  <2> HIDE DEF t
  <2>4. Len(stack') = 1 /\ stack'[1] = t
    BY <1>1, <2>1, <2>2
  <2>5. Begins
    BY <2>2, <2>3, <2>4 DEF Begins
  <2> QED
    BY <1>3, <2>1, <2>5, WalkGoesOn
<1>4. ASSUME Walking, stack' = Caller PROVE Further
  BY <1>4, CallerAlong DEF Further
<1>5. CASE PassStatement \/ SkipReceive
  <2>1. Walking /\ stack' = Caller
    BY <1>5 DEF PassStatement, SkipReceive
  <2> QED
    BY <1>4, <1>5, <2>1, WalkGoesOn DEF Walking
<1>6. CASE RecordStatement \/ RecordCall
  <2>1. phase = "detect"
    BY <1>6 DEF RecordStatement, RecordCall, Walking
  <2> QED
    BY <1>6, <2>1, RecordsFurther, WalkGoesOn
<1>7. CASE EndScan \/ Halt \/ UNCHANGED vars
  <2>1. UNCHANGED <<app, rest, stack, transactions>> /\ phase' = phase
    BY <1>7 DEF EndScan, Halt, vars, cache
  <2> QED
    BY <2>1
<1>8. ~DeclareFunction /\ ~EndDeclare /\ ~BeginDeclaration /\ ~EndDeclaration
  BY <1>1 DEF DeclareFunction, EndDeclare, BeginDeclaration, EndDeclaration
<1>9. \A p \in Pkg : ~StartPackage(p)
  BY DEF StartPackage
<1> QED
  BY <1>2, <1>3, <1>5, <1>6, <1>7, <1>8, <1>9 DEF Next

(* The detector's own frame.                                               *)
LEMMA FirstMoves ==
  ASSUME IInv, WalkOK, [Next]_vars, phase' = "detect", stack # << >>, stack' # << >>
  PROVE  /\ stack'[1].fn = stack[1].fn
         /\ stack'[1].pc \in Nat /\ stack'[1].pc >= stack[1].pc
         /\ Len(stack) > 1 =>
              stack'[1].pc = stack[1].pc /\ stack'[1].key = stack[1].key
         /\ Further => stack'[1].key = stack[1].key
         /\ Further /\ Len(stack) = 1 =>
              Top = stack[1] /\ stack'[1].pc = stack[1].pc + 1
<1>1. Len(stack) \in Nat \ {0} /\ stack[1].pc \in Nat
  BY LedTop, TheWalk
<1>2. 1 \in 1 .. Len(stack)
  BY <1>1
<1>3. Len(stack) = 1 => Top = stack[1]
  BY DEF Top
<1>4. ASSUME Further
      PROVE  /\ stack'[1].fn = stack[1].fn /\ stack'[1].key = stack[1].key
             /\ stack'[1].pc = IF 1 = Len(stack) THEN Top.pc + 1 ELSE stack[1].pc
  BY <1>2, <1>4 DEF Further, Along
<1>5. CASE stack' = stack
  BY <1>1, <1>3, <1>4, <1>5
<1>6. CASE Returns
  <2>1. 1 \in 1 .. Len(stack') /\ Len(stack) # 1
    BY <1>1, <1>6 DEF Returns
  <2> QED
    BY <1>1, <1>4, <1>6, <2>1 DEF Returns
<1>7. CASE Begins
  BY <1>1, <1>3, <1>4, <1>7 DEF Begins
<1>8. CASE Further
  <2>1. CASE Len(stack) = 1
    <3>1. stack'[1].pc = stack[1].pc + 1
      BY <1>3, <1>4, <1>8, <2>1
    <3> QED
      BY <1>1, <1>3, <1>4, <1>8, <2>1, <3>1
  <2>2. CASE Len(stack) # 1
    <3>1. stack'[1].pc = stack[1].pc
      BY <1>4, <1>8, <2>2
    <3> QED
      BY <1>1, <1>4, <1>8, <2>2, <3>1
  <2> QED
    BY <2>1, <2>2
<1> QED
  BY <1>5, <1>6, <1>7, <1>8, WalkShape

-----------------------------------------------------------------------------
(* A transaction is closed by its End.                                     *)

LEMMA EndsCloseKept ==
  ASSUME IInv, WalkOK, EndsClose, [Next]_vars
  PROVE  EndsClose'
<1> SUFFICES ASSUME NEW k \in Started
             PROVE  DataOf(k)'.closed <=> \E x \in DataOf(k)'.exprs : IsEnd(k, x)'
  BY DEF EndsClose, Started
<1>1. \A x : IsEnd(k, x)' <=> IsEnd(k, x)
  BY ScopeSteps DEF IsEnd
<1>2. DataOf(k).closed <=> \E x \in DataOf(k).exprs : IsEnd(k, x)
  BY DEF EndsClose
<1>3. CASE DataOf(k)' = DataOf(k)
  BY <1>1, <1>2, <1>3
<1>4. CASE DataOf(k)' = NoData
  BY <1>4 DEF NoData
<1>5. CASE RecordStatement \/ RecordCall
  <2> DEFINE x == <<Top.fn, Top.pc>>
  <2>1. Top.key \in Started /\ AddCall(Top.key, x)
    BY <1>5, RecordedKey
  <2> HIDE DEF x
  <2>2. CASE k = Top.key /\ ~DataOf(k).closed
    <3>1. /\ DataOf(k)'.exprs = DataOf(k).exprs \cup {x}
          /\ DataOf(k)'.closed <=> IsEnd(k, x)
      BY <2>1, <2>2, EntryAdded
    <3> QED
      BY <1>1, <1>2, <2>2, <3>1
  <2>3. CASE ~(k = Top.key /\ ~DataOf(k).closed)
    BY <1>3, <2>1, <2>3, EntryAdded
  <2> QED
    BY <2>2, <2>3
<1> QED
  BY <1>3, <1>4, <1>5, DataSteps, EntryStays, EntryEmptied

LEMMA PastOnlyKept ==
  ASSUME IInv, PassOK, WalkOK, KeysMet, PastOnly, [Next]_vars
  PROVE  PastOnly'
<1> SUFFICES ASSUME phase' = "detect", stack' # << >>,
                    NEW k \in Started, k.fn = stack'[1].fn,
                    NEW y \in DataOf(k)'.exprs, y[1] = k.fn
             PROVE  y[2] < stack'[1].pc \/ k.fn \in Reached(app, k)
  BY ScopeSteps DEF PastOnly, Started
<1>1. CASE stack = << >>
  <2>1. BeginDeclaration \/ UNCHANGED stack
    BY <1>1, ScopeSteps DEF EndDeclaration, EndTrack, TakeTransaction, PassStatement,
         SkipReceive, RecordStatement, RecordCall, AtEnd, Walking
  <2>2. /\ phase = "detect" /\ rest # << >> /\ transactions' = transactions
        /\ stack'[1].fn = Head(rest)
    BY <1>1, <2>1 DEF BeginDeclaration
  <2>3. y \in DataOf(k).exprs
    BY <2>2, EntryStays
  <2>4. k \in DOMAIN transactions /\ k.at # 0
    BY <2>3 DEF DataOf, NoData, Started
  <2>5. k.fn \in Scouted(app, Behind)
    BY <1>1, <2>2, <2>4 DEF KeysMet, Current
  <2> QED
    BY <2>2, <2>5, HeadNew
<1>2. CASE stack # << >>
  <2>1. /\ stack'[1].fn = stack[1].fn /\ stack'[1].pc \in Nat
        /\ stack'[1].pc >= stack[1].pc /\ stack[1].pc \in Nat
    BY <1>2, FirstMoves, TheWalk
  <2>2. ASSUME y \in DataOf(k).exprs
        PROVE  y[2] < stack'[1].pc \/ k.fn \in Reached(app, k)
    <3>1. y[2] < stack[1].pc \/ k.fn \in Reached(app, k)
      BY <1>2, <2>1, <2>2, WalkShape DEF PastOnly
    <3>2. y[2] \in Nat
      <4>1. y \in Calls(app)
        BY <2>2, EntryIs DEF Data, Started
      <4> QED
        BY <4>1, CallTyped DEF Calls, IInv
    <3> QED
      BY <2>1, <3>1, <3>2
  <2>3. CASE UNCHANGED transactions
    BY <2>2, <2>3, EntryStays
  <2>4. CASE RecordStatement \/ RecordCall
    <3> DEFINE x == <<Top.fn, Top.pc>>
    <3>1. Top.key \in Started /\ AddCall(Top.key, x) /\ Walking /\ Top.pc \in Nat
      BY <2>4, RecordedKey
    <3>2. CASE y \in DataOf(k).exprs
      BY <2>2, <3>2
    <3>3. CASE y \notin DataOf(k).exprs
      <4>1. k = Top.key /\ y = x
        BY <3>1, <3>3, EntryAdded
      <4>2. CASE Len(stack) = 1
        <5>1. Further
          BY <2>4, RecordsFurther
        <5> QED
          BY <1>2, <3>1, <4>1, <4>2, <5>1, FirstMoves
      <4>3. CASE Len(stack) # 1
        <5>1. Top.role = "track"
          BY <1>2, <4>3, LedTop
        <5>2. Top.fn \in Reached(app, k)
          BY <3>1, <4>1, <5>1, CurrentCall DEF Linked, Started
        <5> QED
          BY <4>1, <5>2
      <4> QED
        BY <4>2, <4>3
    <3> QED
      BY <3>2, <3>3
  <2>5. ~EndDeclaration
    BY DEF EndDeclaration
  <2> QED
    BY <2>3, <2>4, <2>5, DataSteps
<1> QED
  BY <1>1, <1>2

-----------------------------------------------------------------------------
(* What is recorded of the functions a transaction reaches.                *)

LEMMA EntryGrows ==
  ASSUME IInv, WalkOK, [Next]_vars, ~EndDeclaration, NEW k \in Started
  PROVE  /\ DataOf(k).exprs \subseteq DataOf(k)'.exprs
         /\ DataOf(k).closed => DataOf(k)' = DataOf(k)
<1>1. CASE RecordStatement \/ RecordCall
  <2>1. Top.key \in Started /\ AddCall(Top.key, <<Top.fn, Top.pc>>)
    BY <1>1, RecordedKey
  <2> QED
    BY <2>1, EntryAdded
<1>2. CASE UNCHANGED transactions
  BY <1>2, EntryStays
<1> QED
  BY <1>1, <1>2, DataSteps

(* A new call of an entry is the one the walk is on.                       *)
LEMMA NewCall ==
  ASSUME IInv, WalkOK, [Next]_vars, NEW k \in Started,
         NEW y \in DataOf(k)'.exprs, y \notin DataOf(k).exprs
  PROVE  /\ RecordStatement \/ RecordCall
         /\ k = Top.key /\ k = stack[1].key /\ y = <<Top.fn, Top.pc>>
         /\ ~DataOf(k).closed /\ stack # << >> /\ phase = "detect"
<1>1. ~UNCHANGED transactions
  BY EntryStays
<1>2. ~EndDeclaration
  BY EntryEmptied DEF NoData
<1>3. RecordStatement \/ RecordCall
  BY <1>1, <1>2, DataSteps
<1>4. /\ Top.key \in Started /\ AddCall(Top.key, <<Top.fn, Top.pc>>)
      /\ Top.key = stack[1].key /\ Walking
  BY <1>3, RecordedKey
<1> QED
  BY <1>3, <1>4, EntryAdded DEF Walking

LEMMA CalleesBehindKept ==
  ASSUME IInv, WalkOK, CalleesBehind, [Next]_vars
  PROVE  CalleesBehind'
<1>0. PICK k : k = stack'[1].key
  OBVIOUS
<1> SUFFICES ASSUME phase' = "detect", NEW m \in 2 .. Len(stack'),
                    NEW x \in Calling(app, stack'[m].fn, stack'[m].pc)
             PROVE  x \in DataOf(k)'.exprs \/ DataOf(k)'.closed
  <2>1. app' = app
    BY ScopeSteps
  <2> QED
    BY <1>0, <2>1 DEF CalleesBehind, Kept, DataOf
<1>1. stack' # << >> /\ stack # << >>
  <2>1. stack' # << >>
    OBVIOUS
  <2>2. ASSUME stack = << >> PROVE FALSE
    <3>1. BeginDeclaration \/ UNCHANGED stack
      BY <2>2, ScopeSteps DEF EndDeclaration, EndTrack, TakeTransaction,
           PassStatement, SkipReceive, RecordStatement, RecordCall, AtEnd, Walking
    <3>2. BeginDeclaration
      BY <2>1, <2>2, <3>1
    <3>3. PICK u : stack' = <<u>>
      BY <3>2 DEF BeginDeclaration
    <3> QED
      BY <3>3
  <2> QED
    BY <2>1, <2>2
<1>2. phase = "detect" /\ app' = app
  BY <1>1, WalkShape
<1>3. /\ Len(stack) \in Nat \ {0} /\ stack \in Seq(Frame)
      /\ \A i \in 2 .. Len(stack) : stack[i].role = "track" /\ stack[i].key = stack[1].key
  BY <1>1, LedTop DEF Led
<1>4. ASSUME m \in 2 .. Len(stack)
      PROVE  k = stack[1].key /\ k \in Started
  <2>1. Len(stack) > 1
    BY <1>3, <1>4
  <2>2. k = stack[1].key
    BY <1>0, <1>1, <2>1, FirstMoves
  <2>3. m \in 1 .. Len(stack)
    BY <1>3, <1>4
  <2>4. stack[m].key # NoKey
    BY <1>3, <1>4, <2>3 DEF IInv, TypeOK, ControlTypeOK
  <2> QED
    BY <1>1, <1>3, <1>4, <2>2, <2>4, TheWalk
<1>5. ASSUME m \in 2 .. Len(stack), x \in Calling(app, stack[m].fn, stack[m].pc)
      PROVE  x \in DataOf(k)'.exprs \/ DataOf(k)'.closed
  <2>1. x \in DataOf(k).exprs \/ DataOf(k).closed
    BY <1>2, <1>4, <1>5 DEF CalleesBehind, Kept
  <2>2. ~EndDeclaration
    BY <1>1 DEF EndDeclaration
  <2> QED
    BY <1>4, <1>5, <2>1, <2>2, EntryGrows
<1>6. CASE stack' = stack
  BY <1>5, <1>6
<1>7. CASE Returns
  <2>1. m \in 1 .. Len(stack') /\ m \in 2 .. Len(stack)
    BY <1>3, <1>7 DEF Returns
  <2> QED
    BY <1>5, <1>7, <2>1 DEF Returns
<1>8. CASE Begins
  BY <1>8 DEF Begins
<1>9. CASE Further /\ (PassStatement \/ SkipReceive \/ RecordStatement \/ RecordCall)
  <2>1. CASE m \in 2 .. Len(stack) /\ m # Len(stack)
    <3>1. stack'[m].fn = stack[m].fn /\ stack'[m].pc = stack[m].pc
      BY <1>9, <2>1 DEF Further, Along
    <3> QED
      BY <1>5, <2>1, <3>1
  <2>2. CASE m \in 2 .. Len(stack) /\ m = Len(stack)
    <3>1. stack'[m].fn = Top.fn /\ stack'[m].pc = Top.pc + 1
      BY <1>9, <2>2 DEF Further, Along, Top
    <3>2. Top.role = "track" /\ Top = stack[m] /\ Top.key = k /\ Top.pc \in Nat
      <4>1. Top.role = "track" /\ Top = stack[m]
        BY <1>3, <2>2 DEF Top
      <4>2. Top.key = k
        BY <1>3, <1>4, <2>2, <4>1
      <4> QED
        BY <1>1, <4>1, <4>2, LedTop DEF Frame
    <3>3. PICK j \in DOMAIN app.body[Top.fn] :
            x = <<Top.fn, j>> /\ j < Top.pc + 1 /\ app.body[Top.fn][j].form # "recv"
      BY <3>1 DEF Calling
    <3>4. CASE j < Top.pc
      <4>1. x \in Calling(app, stack[m].fn, stack[m].pc)
        BY <3>2, <3>3, <3>4 DEF Calling
      <4> QED
        BY <1>5, <2>2, <4>1
    <3>5. CASE ~(j < Top.pc)
      <4>1. j \in Nat
        <5>1. Top.fn \in Fn
          BY <3>2, <1>1, LedTop DEF Frame
        <5> QED
          BY <5>1, CallTyped DEF IInv
      <4>2. j = Top.pc
        BY <3>2, <3>3, <3>5, <4>1
      <4>3. RecordCall
        BY <1>9, <3>2, <3>3, <4>2
           DEF PassStatement, SkipReceive, RecordStatement, TopCall
      <4>4. AddCall(k, x)
        BY <3>2, <3>3, <4>2, <4>3 DEF RecordCall
      <4> QED
        BY <1>4, <2>2, <4>4, EntryAdded
    <3> QED
      BY <3>4, <3>5
  <2>3. CASE m \notin 2 .. Len(stack)
    <3>1. Enters(stack') /\ Len(stack') = Len(stack) + 1
      BY <1>3, <1>9, <2>3 DEF Further, Enters
    <3>2. m = Len(stack')
      BY <1>3, <2>3, <3>1
    <3>3. PICK j \in DOMAIN app.body[stack'[m].fn] : j < 1
      BY <3>1, <3>2 DEF Calling, Enters
    <3>4. stack'[m].fn \in Fn
      <4>1. stack' \in Seq(Frame) /\ m \in 1 .. Len(stack')
        BY Inductive DEF IInv, TypeOK, ControlTypeOK
      <4>2. stack'[m] \in Frame
        BY <4>1
      <4> QED
        BY <4>2 DEF Frame
    <3> QED
      BY <3>3, <3>4, CallTyped DEF IInv
  <2> QED
    BY <2>1, <2>2, <2>3
<1> QED
  BY <1>1, <1>6, <1>7, <1>8, <1>9, WalkShape

LEMMA CalleesWholeKept ==
  ASSUME IInv, WalkOK, CalleesBehind, CalleesWhole, [Next]_vars
  PROVE  CalleesWhole'
<1> SUFFICES ASSUME NEW k \in Started, NEW y \in DataOf(k)'.exprs, y[1] # k.fn
             PROVE  Calling(app, y[1], y[2]) \subseteq DataOf(k)'.exprs
  BY ScopeSteps DEF CalleesWhole, Started
<1>1. CASE y \in DataOf(k).exprs
  <2>1. Calling(app, y[1], y[2]) \subseteq DataOf(k).exprs
    BY <1>1 DEF CalleesWhole
  <2>2. DataOf(k).exprs \subseteq DataOf(k)'.exprs
    BY EntryGrows, EntryEmptied DEF NoData
  <2> QED
    BY <2>1, <2>2
<1>2. CASE y \notin DataOf(k).exprs
  <2>1. /\ k = Top.key /\ k = stack[1].key /\ y = <<Top.fn, Top.pc>>
        /\ ~DataOf(k).closed /\ stack # << >> /\ phase = "detect"
    BY <1>2, NewCall
  <2>2. Len(stack) \in Nat \ {0} /\ k.fn = stack[1].fn
    BY <1>2, <2>1, LedTop, NewCall, RecordedKey
  <2>3. Len(stack) # 1
    BY <2>1, <2>2 DEF Top
  <2>4. Len(stack) \in 2 .. Len(stack)
    BY <2>2, <2>3, OneOrMore
  <2>5. \A x \in Calling(app, Top.fn, Top.pc) : x \in DataOf(k).exprs
    BY <2>1, <2>4 DEF CalleesBehind, Top, Kept
  <2>6. DataOf(k).exprs \subseteq DataOf(k)'.exprs
    BY EntryGrows, EntryEmptied DEF NoData
  <2> QED
    BY <2>1, <2>5, <2>6
<1> QED
  BY <1>1, <1>2

(* NothingAfterEnd, entry by entry.                                        *)
EndsLast ==
  \A k \in Started : k.fn \notin Reached(app, k) =>
    \A x, y \in DataOf(k).exprs : IsEnd(k, x) /\ y[1] = x[1] => y[2] <= x[2]

LEMMA EndsLastKept ==
  ASSUME IInv, WalkOK, EndsClose, PastOnly, CalleesWhole, EndsLast, [Next]_vars
  PROVE  EndsLast'
<1>0. app' = app
  BY ScopeSteps
<1> SUFFICES ASSUME NEW k \in Started, k.fn \notin Reached(app, k),
                    NEW x \in DataOf(k)'.exprs, NEW y \in DataOf(k)'.exprs,
                    IsEnd(k, x), y[1] = x[1]
             PROVE  y[2] <= x[2]
  <2>1. \A k, x : IsEnd(k, x)' <=> IsEnd(k, x)
    BY <1>0 DEF IsEnd
  <2> QED
    BY <1>0, <2>1 DEF EndsLast, Started
<1>1. CASE x \in DataOf(k).exprs /\ y \in DataOf(k).exprs
  BY <1>1 DEF EndsLast
<1>2. CASE x \in DataOf(k).exprs /\ y \notin DataOf(k).exprs
  BY <1>2, NewCall DEF EndsClose
<1>3. CASE x \notin DataOf(k).exprs
  <2>1. /\ RecordStatement \/ RecordCall
        /\ k = Top.key /\ k = stack[1].key /\ x = <<Top.fn, Top.pc>>
        /\ ~DataOf(k).closed /\ stack # << >> /\ phase = "detect"
    BY <1>3, NewCall
  <2>2. /\ Top.pc \in Nat /\ Walking /\ k.fn = stack[1].fn
        /\ Top.pc \in DOMAIN app.body[Top.fn]
    BY <2>1, RecordedKey
  <2>3. CASE y \notin DataOf(k).exprs
    <3>1. y = x
      BY <2>1, <2>3, NewCall
    <3> QED
      BY <2>1, <2>2, <3>1
  <2>4. CASE y \in DataOf(k).exprs /\ Top.fn = k.fn
    <3>1. Len(stack) = 1
      BY <2>1, <2>2, <2>4, LedTop, CurrentCall DEF Linked, Started
    <3>2. y[2] < stack[1].pc
      BY <2>1, <2>2, <2>4 DEF PastOnly
    <3>3. y[2] \in Nat
      <4>1. y \in Calls(app)
        BY <2>4, EntryIs DEF Data, Started
      <4> QED
        BY <4>1, CallTyped DEF Calls, IInv
    <3> QED
      BY <2>1, <2>2, <3>1, <3>2, <3>3 DEF Top
  <2>5. CASE y \in DataOf(k).exprs /\ Top.fn # k.fn
    <3>1. y[2] \in Nat
      <4>1. y \in Calls(app)
        BY <2>5, EntryIs DEF Data, Started
      <4> QED
        BY <4>1, CallTyped DEF Calls, IInv
    <3>2. ASSUME Top.pc < y[2] PROVE FALSE
      <4>1. Calling(app, Top.fn, y[2]) \subseteq DataOf(k).exprs
        BY <2>1, <2>5 DEF CalleesWhole
      <4>2. app.body[Top.fn][Top.pc].form # "recv"
        BY <2>1 DEF IsEnd
      <4>3. x \in Calling(app, Top.fn, y[2])
        BY <2>1, <2>2, <3>2, <4>2 DEF Calling
      <4> QED
        BY <2>1, <4>1, <4>3 DEF EndsClose
    <3> QED
      BY <2>1, <2>2, <3>1, <3>2
  <2> QED
    BY <2>3, <2>4, <2>5
<1> QED
  BY <1>1, <1>2, <1>3

-----------------------------------------------------------------------------
(* What the detector has passed of a transaction in its own function.      *)

Opened == {k \in Started : k.at \in DOMAIN app.body[k.fn] /\ Takes(app.body[k.fn][k.at])}

(* The functions of the package declared before that are handed it there.  *)
CalleesOf(k, i) ==
  {g \in Declared(app) : /\ Before(g, k.fn) /\ CallsTo(app, app.body[k.fn][i], g)
                         /\ app.body[k.fn][k.at].binds \in app.body[k.fn][i].passes}
Whole(g) == Calling(app, g, Len(app.body[g]) + 1)

(* The walk is in that function because of this call.                      *)
InCall(k, i, g) == /\ k = stack[1].key /\ i + 1 = stack[1].pc
                   /\ Len(stack) > 1 /\ stack[2].fn = g

Passed(k, i) ==
  /\ <<k.fn, i>> \in DataOf(k).exprs \/ EndsBefore(k, i)
  /\ Kept(k, <<k.fn, i>>)
  /\ \A g \in CalleesOf(k, i) : InCall(k, i, g) \/ \A x \in Whole(g) : Kept(k, x)

OwnBehind ==
  phase = "detect" /\ stack # << >> =>
    \A k \in Opened : k.fn = stack[1].fn =>
      \A i \in Own(app, k) :
        i < stack[1].pc /\ Written(app, k.fn, i) => Passed(k, i)

(* A transaction without End does not end before a call that is left out.  *)
LEMMA LeftOut ==
  ASSUME IInv, WalkOK, EndsClose, PastOnly, phase = "detect", stack # << >>,
         NEW k \in Started, k.fn = stack[1].fn, DataOf(k).closed
  PROVE  EndsBefore(k, stack[1].pc)
<1>1. PICK x \in DataOf(k).exprs : IsEnd(k, x)
  BY DEF EndsClose
<1>2. /\ x \in Calls(app)
      /\ x \in {k.fn} \X Own(app, k) \/ x[1] \in Reached(app, k)
  BY <1>1, EntryIs DEF Data, Started
<1>3. x[1] = k.fn => x[2] < stack[1].pc \/ k.fn \in Reached(app, k)
  BY <1>1 DEF PastOnly
<1> QED
  BY <1>1, <1>2, <1>3 DEF EndsBefore

(* The transaction a statement belongs to is the current one.              *)
LEMMA OwnerIs ==
  ASSUME IInv, WalkOK, Walking, Len(stack) = 1, NEW k \in Opened,
         k.fn = Top.fn, Top.pc \in Own(app, k)
  PROVE  k = Top.key
<1> DEFINE n == stack[1].pc
           c == stack[1].key
<1>1. /\ Top = stack[1] /\ stack # << >> /\ n \in Nat \ {0} /\ FirstOK(app, stack[1])
      /\ Top.pc \in DOMAIN app.body[Top.fn]
  BY LedTop, TheWalk DEF Top, Walking, Led
<1>2. /\ k \in Key /\ k.at \in DOMAIN app.body[k.fn] /\ Takes(app.body[k.fn][k.at])
      /\ k.at \in Nat /\ k.at < n /\ n \in Nat
      /\ \A j \in k.at + 1 .. n : ~Takes(app.body[k.fn][j])
  BY <1>1 DEF Opened, Started, Key, Own
<1>3. c # NoKey
  BY <1>1, <1>2 DEF FirstOK
<1>4. /\ c \in Key /\ c.fn = k.fn /\ c.at \in Nat /\ c.at < n
      /\ Takes(app.body[k.fn][c.at])
      /\ \A j \in c.at + 1 .. n - 1 : ~Takes(app.body[k.fn][j])
  <2>1. /\ c \in Started /\ c.fn = stack[1].fn /\ c.at \in Nat /\ c.at < n
        /\ Takes(app.body[c.fn][c.at])
        /\ \A j \in c.at + 1 .. n - 1 : ~Takes(app.body[c.fn][j])
    BY <1>1, <1>3, TheWalk
  <2> HIDE DEF n, c
  <2> QED
    BY <1>1, <2>1 DEF Started
<1> HIDE DEF n, c
<1>5. ~(k.at < c.at)
  <2>1. k.at < c.at => c.at \in k.at + 1 .. n
    BY <1>2, <1>4
  <2> QED
    BY <1>2, <1>4, <2>1
<1>6. ~(c.at < k.at)
  <2>1. c.at < k.at => k.at \in c.at + 1 .. n - 1
    BY <1>2, <1>4
  <2> QED
    BY <1>2, <1>4, <2>1
<1>7. k.at = c.at
  BY <1>2, <1>4, <1>5, <1>6
<1> QED
  BY <1>1, <1>2, <1>4, <1>7 DEF Key, c

(* It is followed into a function that was declared before.                *)
LEMMA CalleeEntered ==
  ASSUME IInv, PassOK, WalkOK, KeysMet, RecordStatement, phase' = "detect",
         NEW i, i = Top.pc, NEW k, k = Top.key, k \in Opened,
         k.fn = Top.fn, Top.fn = Head(rest), NEW g \in CalleesOf(k, i)
  PROVE  Enters(stack') /\ functions[TopCall.name] = g
<1>1. /\ Walking /\ phase = "detect" /\ TopCall = app.body[k.fn][i] /\ stack # << >>
  BY DEF RecordStatement, Walking, TopCall
<1>2. /\ g \in Declared(app) /\ Before(g, Head(rest))
      /\ TopCall.form = "ident" /\ TopCall.name = app.name[g]
      /\ app.body[k.fn][k.at].binds \in TopCall.passes
  BY <1>1 DEF CalleesOf, CallsTo
<1>3. rest # << >>
  BY <1>1, ControlParts DEF Visiting
<1>4. functions[app.name[g]] # NoFn
  BY <1>1, <1>2, <1>3, BeforeScouted DEF KeysMet
<1>5. app.name[g] \in Name
  BY <1>2, DeclaredFn, AppTyped DEF IInv, AppType
<1>6. functions[app.name[g]] = g
  BY <1>2, <1>4, <1>5, ControlParts DEF NamesFound, Before
<1>7. PassesTxn(TopCall, Top.key)
  BY <1>2, <1>4, <1>5, SentinelAssumption
     DEF PassesTxn, Known, TxnName, Opened, Started
<1>8. TrackFunctionCalls(TopCall.name, Top.key)
  BY <1>2, <1>7 DEF RecordStatement
<1> QED
  BY <1>1, <1>2, <1>6, <1>8, TrackAlong

LEMMA AppStays ==
  ASSUME app' = app
  PROVE  /\ \A k, i : EndsBefore(k, i)' <=> EndsBefore(k, i)
         /\ \A k, i : CalleesOf(k, i)' = CalleesOf(k, i)
         /\ \A g : Whole(g)' = Whole(g)
         /\ Opened' = Opened
BY DEF EndsBefore, IsEnd, CalleesOf, Before, Whole, Opened, Started

LEMMA KeptGrows ==
  ASSUME IInv, WalkOK, [Next]_vars, ~EndDeclaration, NEW k \in Started, NEW x
  PROVE  Kept(k, x) => Kept(k, x)'
BY EntryGrows DEF Kept

(* A call passed before.                                                   *)
LEMMA PassedStays ==
  ASSUME IInv, WalkOK, CalleesBehind, [Next]_vars,
         phase' = "detect", stack # << >>, stack' # << >>,
         NEW k \in Started, NEW i, Passed(k, i)
  PROVE  Passed(k, i)'
<1>1. ~EndDeclaration /\ app' = app /\ phase = "detect"
  BY WalkShape DEF EndDeclaration
<1>2. \A x : Kept(k, x) => Kept(k, x)'
  BY <1>1, KeptGrows
<1>3. DataOf(k).exprs \subseteq DataOf(k)'.exprs
  BY <1>1, EntryGrows
<1>4. Len(stack) \in Nat \ {0} /\ Len(stack') \in Nat
  <2>1. stack' \in Seq(Frame)
    BY Inductive DEF IInv, TypeOK, ControlTypeOK
  <2> QED
    BY <2>1, LedTop
<1>5. ASSUME NEW g \in CalleesOf(k, i), InCall(k, i, g)
      PROVE  InCall(k, i, g)' \/ \A x \in Whole(g) : Kept(k, x)'
  <2>1. /\ k = stack[1].key /\ i + 1 = stack[1].pc /\ Len(stack) > 1 /\ stack[2].fn = g
        /\ 2 \in 2 .. Len(stack) /\ 2 \in 1 .. Len(stack)
    BY <1>4, <1>5 DEF InCall
  <2>2. k = stack'[1].key /\ i + 1 = stack'[1].pc
    BY <2>1, FirstMoves
  <2>3. ASSUME Len(stack') > 1, stack'[2].fn = stack[2].fn PROVE InCall(k, i, g)'
    BY <2>1, <2>2, <2>3 DEF InCall
  <2>4. CASE stack' = stack
    BY <2>1, <2>3, <2>4
  <2>5. CASE Further
    <3>1. Len(stack') > 1
      BY <1>4, <2>1, <2>5 DEF Further, Along
    <3> QED
      BY <2>1, <2>3, <2>5, <3>1 DEF Further, Along
  <2>6. CASE Returns /\ Len(stack') > 1
    <3>1. 2 \in 1 .. Len(stack')
      BY <1>4, <2>6
    <3> QED
      BY <2>3, <2>6, <3>1 DEF Returns
  <2>7. CASE Returns /\ EndTrack /\ ~(Len(stack') > 1)
    <3>1. Len(stack) = 2
      BY <1>4, <2>1, <2>7 DEF Returns
    <3>2. Top = stack[2] /\ Top.pc > Len(app.body[g])
      BY <2>1, <2>7, <3>1 DEF EndTrack, AtEnd, Top
    <3>3. Whole(g) \subseteq Calling(app, g, Top.pc)
      <4>1. Top.pc \in Nat /\ Top.fn = g /\ g \in Fn
        BY <2>1, <3>2, LedTop DEF Frame
      <4>2. \A j \in DOMAIN app.body[g] : j \in Nat /\ j <= Len(app.body[g])
        BY <4>1, CallTyped DEF IInv
      <4>3. Len(app.body[g]) \in Nat
        BY <4>1, AppTyped DEF IInv, AppType
      <4>4. \A j \in DOMAIN app.body[g] : j < Top.pc
        BY <3>2, <4>1, <4>2, <4>3
      <4> QED
        BY <4>4 DEF Whole, Calling
    <3>4. \A x \in Calling(app, g, Top.pc) : Kept(k, x)
      BY <1>1, <2>1, <3>2 DEF CalleesBehind
    <3> QED
      BY <1>2, <3>3, <3>4
  <2>8. CASE Begins
    BY <2>1, <2>8 DEF Begins
  <2> QED
    BY <2>4, <2>5, <2>6, <2>7, <2>8, WalkShape
<1>6. ASSUME NEW g \in CalleesOf(k, i)
      PROVE  InCall(k, i, g)' \/ \A x \in Whole(g) : Kept(k, x)'
  <2>1. CASE InCall(k, i, g)
    BY <1>5, <2>1
  <2>2. CASE \A x \in Whole(g) : Kept(k, x)
    BY <1>2, <2>2
  <2> QED
    BY <2>1, <2>2 DEF Passed
<1>7. \A g \in CalleesOf(k, i)' : InCall(k, i, g)' \/ \A x \in Whole(g)' : Kept(k, x)'
  BY <1>1, <1>6, AppStays
<1>8. <<k.fn, i>> \in DataOf(k)'.exprs \/ EndsBefore(k, i)'
  BY <1>1, <1>3, AppStays DEF Passed
<1>9. Kept(k, <<k.fn, i>>)'
  BY <1>2 DEF Passed
<1> QED
  BY <1>7, <1>8, <1>9 DEF Passed

(* The statement that has just been recorded.                              *)
LEMMA PassedNew ==
  ASSUME IInv, PassOK, WalkOK, KeysMet, EndsClose, PastOnly, RecordStatement,
         [Next]_vars, phase' = "detect", NEW k \in Opened, k.fn = Top.fn,
         NEW i, i = Top.pc, i \in Own(app, k)
  PROVE  Passed(k, i)'
<1> DEFINE x == <<Top.fn, Top.pc>>
<1>1. /\ Walking /\ Top.key \in Started /\ AddCall(Top.key, x) /\ app' = app
      /\ stack # << >> /\ phase = "detect" /\ Top.role = "detect"
      /\ Top.key = stack[1].key
  BY RecordedKey DEF RecordStatement, Walking
<1>2. Len(stack) = 1 /\ Top = stack[1] /\ Top.fn = Head(rest)
  BY <1>1, LedTop, TheWalk DEF Top
<1>3. k = Top.key /\ k \in Started
  BY <1>1, <1>2, OwnerIs DEF Opened
<1>4. /\ DataOf(k).closed => DataOf(k)' = DataOf(k)
      /\ ~DataOf(k).closed => x \in DataOf(k)'.exprs
  BY <1>1, <1>3, EntryAdded
<1>5. DataOf(k).closed => EndsBefore(k, i)
  BY <1>1, <1>2, <1>3, LeftOut
<1>6. Further /\ stack' # << >>
  BY <1>1, RecordsFurther, WalkGoesOn
<1>7. ASSUME NEW g \in CalleesOf(k, i) PROVE InCall(k, i, g)'
  <2>1. Enters(stack') /\ functions[TopCall.name] = g
    BY <1>2, <1>3, <1>7, CalleeEntered
  <2>2. Len(stack') = 2 /\ stack'[2].fn = g
    BY <1>2, <2>1 DEF Enters
  <2>3. stack'[1].key = k /\ stack'[1].pc = i + 1
    BY <1>1, <1>2, <1>3, <1>6, FirstMoves
  <2> QED
    BY <2>2, <2>3 DEF InCall
<1>8. PICK y : y = x /\ y = <<k.fn, i>>
  OBVIOUS
<1>9. y \in DataOf(k)'.exprs \/ EndsBefore(k, i)'
  BY <1>1, <1>4, <1>5, <1>8, AppStays
<1>10. Kept(k, y)'
  <2>1. y \in DataOf(k)'.exprs \/ DataOf(k)'.closed
    BY <1>4, <1>8
  <2> QED
    BY <2>1 DEF Kept
<1>11. \A g \in CalleesOf(k, i)' : InCall(k, i, g)' \/ \A z \in Whole(g)' : Kept(k, z)'
  BY <1>1, <1>7, AppStays
<1> HIDE DEF x
<1> QED
  BY <1>8, <1>9, <1>10, <1>11 DEF Passed

LEMMA OwnBehindKept ==
  ASSUME IInv, PassOK, WalkOK, KeysMet, EndsClose, PastOnly, CalleesBehind,
         OwnBehind, [Next]_vars
  PROVE  OwnBehind'
<1> SUFFICES ASSUME phase' = "detect", stack' # << >>,
                    NEW k \in Opened, k.fn = stack'[1].fn,
                    NEW i \in Own(app, k), i < stack'[1].pc, Written(app, k.fn, i)
             PROVE  Passed(k, i)'
  BY ScopeSteps, AppStays DEF OwnBehind
<1>0. k \in Started /\ k.at \in Nat /\ k.fn \in Fn
  BY DEF Opened, Started, Key
<1>1. i \in DOMAIN app.body[k.fn] /\ i \in Nat \ {0}
  BY <1>0, CallTyped DEF Own, IInv
<1>2. CASE stack = << >>
  <2>1. BeginDeclaration
    BY <1>2, ScopeSteps DEF EndDeclaration, EndTrack, TakeTransaction, PassStatement,
         SkipReceive, RecordStatement, RecordCall, AtEnd, Walking
  <2>2. stack'[1].pc = 1
    BY <2>1 DEF BeginDeclaration
  <2> QED
    BY <1>1, <2>2
<1>3. CASE stack # << >>
  <2>1. /\ stack'[1].fn = stack[1].fn /\ phase = "detect" /\ app' = app
        /\ stack[1].pc \in Nat \ {0} /\ Len(stack) \in Nat \ {0}
    BY <1>3, FirstMoves, WalkShape, TheWalk, LedTop
  <2>2. CASE i < stack[1].pc
    <3>1. Passed(k, i)
      BY <1>3, <2>1, <2>2 DEF OwnBehind
    <3> QED
      BY <1>0, <1>3, <3>1, PassedStays
  <2>3. CASE ~(i < stack[1].pc)
    <3>1. Len(stack) = 1
      <4>1. stack'[1].pc # stack[1].pc
        BY <2>3
      <4>2. ~(Len(stack) > 1)
        BY <1>3, <4>1, FirstMoves
      <4>3. Len(stack) \in Nat \ {0}
        BY <1>3, LedTop
      <4>4. \A n \in Nat \ {0} : ~(n > 1) => n = 1
        OBVIOUS
      <4> QED
        BY <4>2, <4>3, <4>4, Zenon
    <3>2. Top = stack[1] /\ Top.role = "detect"
      BY <1>3, <3>1, LedTop DEF Top
    <3>3. stack'[1].pc = stack[1].pc + 1
      <4>1. ~Returns
        BY <3>1 DEF Returns
      <4>2. stack' # stack
        BY <2>3
      <4> QED
        BY <1>3, <3>1, <3>2, <4>1, <4>2, WalkShape, FirstMoves DEF Begins
    <3>4. i = Top.pc /\ k.fn = Top.fn
      BY <1>1, <2>1, <2>3, <3>2, <3>3
    <3>5. ~Takes(app.body[Top.fn][Top.pc])
      <4>1. i \in k.at + 1 .. i
        BY <1>0, <1>1 DEF Own
      <4> QED
        BY <3>4, <4>1 DEF Own
    <3>6. Top.key # NoKey
      <4>1. FirstOK(app, Top)
        BY <1>3, <3>2, LedTop DEF Led
      <4>2. k.at \in DOMAIN app.body[Top.fn] /\ k.at < Top.pc /\ Takes(app.body[Top.fn][k.at])
        BY <3>4 DEF Opened, Own
      <4> QED
        BY <4>1, <4>2 DEF FirstOK
    <3>7. RecordStatement
      <4>1. ~TakeTransaction
        BY <3>5 DEF TakeTransaction, Takes, TopCall
      <4>2. ~PassStatement
        BY <3>4, <3>6 DEF PassStatement, Recordable, Written, TopCall
      <4>3. ~SkipReceive /\ ~RecordCall /\ ~EndTrack
        BY <3>2 DEF SkipReceive, RecordCall, EndTrack
      <4>4. stack' # stack
        BY <2>3
      <4> QED
        BY <1>3, <4>1, <4>2, <4>3, <4>4, WalkShape
    <3> QED
      BY <3>4, <3>7, PassedNew
  <2> QED
    BY <2>2, <2>3
<1> QED
  BY <1>2, <1>3

-----------------------------------------------------------------------------
(* What a declaration leaves behind.                                       *)

NoReceives == \A f \in Declared(app) : \A i \in DOMAIN app.body[f] :
                app.body[f][i].form # "recv"

ErrorLeft(k, i) == \/ app.body[k.fn][i].notes \in existingErrors \cup {NoErr}
                   \/ EndsBefore(k, i)
ScopeLeft(k, i) ==
  /\ Kept(k, <<k.fn, i>>)
  /\ \A g \in CalleesOf(k, i) : \A x \in Whole(g) : Kept(k, x)

OwnScouted ==
  phase \in {"detect", "done"} =>
    \A k \in Opened : k.fn \in Scouted(app, Behind) =>
      \A i \in Own(app, k) : Written(app, k.fn, i) =>
        /\ NoReceives => ErrorLeft(k, i)
        /\ app.body[k.fn][k.at].origin = "agent" => ScopeLeft(k, i)

LEMMA ScoutedDeclared ==
  ASSUME IInv
  PROVE  Scouted(app, Behind) \subseteq Declared(app)
BY DEF Scouted, Declared

(* DetectErrors comes to every entry when nothing makes it give up.        *)
LEMMA NoGivingUp ==
  ASSUME IInv, WalkOK, KeysMet, phase = "detect", NoReceives,
         NEW visits, DetectErrors(transactions, visits)
  PROVE  \A k \in DOMAIN transactions : \A x \in transactions[k].exprs :
           app.body[x[1]][x[2]].notes \in existingErrors' \cup {NoErr}
<1>1. ASSUME NEW k \in DOMAIN transactions, NEW x \in transactions[k].exprs
      PROVE  ~IsReceive(x)
  <2>1. /\ Good(app, k, transactions[k]) /\ x \in Calls(app)
    BY <1>1, IInvGood DEF CacheGood, Good, Data
  <2>2. k.fn \in Declared(app)
    <3>1. Current \subseteq Declared(app)
      BY TheWalk DEF Current
    <3> QED
      BY <1>1, <3>1, ScoutedDeclared DEF KeysMet
  <2>3. Reached(app, k) \subseteq Declared(app)
    BY DEF Reached
  <2>4. x[1] = k.fn \/ x[1] \in Reached(app, k)
    BY <1>1, <2>1 DEF Good, Statements
  <2>5. x[1] \in Declared(app) /\ x[2] \in DOMAIN app.body[x[1]]
    BY <2>1, <2>2, <2>3, <2>4 DEF Calls
  <2> QED
    BY <2>5 DEF IsReceive, NoReceives
<1>2. existingErrors' = existingErrors \cup Noticed(transactions, DOMAIN transactions)
  <2>1. {k \in DOMAIN transactions : \E x \in transactions[k].exprs : IsReceive(x)} = {}
    BY <1>1
  <2> QED
    BY <2>1 DEF DetectErrors
<1>3. \A k \in DOMAIN transactions : LookedAt(transactions[k]) = transactions[k].exprs
  BY <1>1 DEF LookedAt
<1> QED
  BY <1>2, <1>3 DEF Noticed

LEMMA ErrorsGrow ==
  ASSUME IInv, [Next]_vars
  PROVE  existingErrors \subseteq existingErrors'
<1>1. ASSUME NEW visits, DetectErrors(transactions, visits)
      PROVE  existingErrors \subseteq existingErrors'
  BY <1>1 DEF DetectErrors
<1>2. BeginDeclaration \/ EndDeclaration => existingErrors \subseteq existingErrors'
  BY <1>1 DEF BeginDeclaration, EndDeclaration
<1>3. EndTrack \/ TakeTransaction \/ PassStatement \/ SkipReceive
      \/ RecordStatement \/ RecordCall => existingErrors' = existingErrors
  BY DEF EndTrack, TakeTransaction, PassStatement, SkipReceive, RecordStatement,
         RecordCall, cache
<1> QED
  BY <1>2, <1>3, ScopeSteps

LEMMA ScoutedDone ==
  ASSUME IInv, DoneOK, phase = "done"
  PROVE  Scouted(app, Behind) = Declared(app)
<1>1. Behind = [p \in Pkg |-> Len(app.decls[p])]
  BY PassEnds DEF DoneOK
<1>2. \A p \in Pkg : \A j \in DOMAIN app.decls[p] :
        j <= Len(app.decls[p]) /\ app.decls[p][j] \in Fn
  BY DeclsTyped DEF IInv
<1> QED
  BY <1>1, <1>2 DEF Scouted, Declared

LEMMA OwnScoutedKept ==
  ASSUME IInv, PassOK, WalkOK, KeysMet, OwnBehind, OwnScouted, [Next]_vars
  PROVE  OwnScouted'
<1>0. app' = app /\ existingErrors \subseteq existingErrors'
  BY ScopeSteps, ErrorsGrow
<1> DEFINE Left(k) ==
      \A i \in Own(app, k) : Written(app, k.fn, i) =>
        /\ NoReceives => \/ app.body[k.fn][i].notes \in existingErrors' \cup {NoErr}
                         \/ EndsBefore(k, i)
        /\ app.body[k.fn][k.at].origin = "agent" =>
             /\ Kept(k, <<k.fn, i>>)'
             /\ \A g \in CalleesOf(k, i) : \A x \in Whole(g) : Kept(k, x)'
<1>1. ASSUME \A k \in Opened : k.fn \in Scouted(app, Behind)' => Left(k)
      PROVE  OwnScouted'
  <2>1. NoReceives' <=> NoReceives
    BY <1>0 DEF NoReceives
  <2>2. \A k, i : ErrorLeft(k, i)' <=>
          \/ app.body[k.fn][i].notes \in existingErrors' \cup {NoErr}
          \/ EndsBefore(k, i)
    BY <1>0, AppStays DEF ErrorLeft
  <2>3. \A k, i : ScopeLeft(k, i)' <=>
          /\ Kept(k, <<k.fn, i>>)'
          /\ \A g \in CalleesOf(k, i) : \A x \in Whole(g) : Kept(k, x)'
    BY <1>0, AppStays DEF ScopeLeft
  <2>4. Opened' = Opened
    BY <1>0, AppStays
  <2> QED
    BY <1>0, <1>1, <2>1, <2>2, <2>3, <2>4 DEF OwnScouted
(* A declaration of before keeps what it left.                             *)
<1>2. ASSUME phase \in {"detect", "done"}, NEW k \in Opened,
             k.fn \in Scouted(app, Behind)
      PROVE  Left(k)
  <2>1. k \in Started
    BY DEF Opened
  <2>2. app.body[k.fn][k.at].origin = "agent" => \A x : Kept(k, x) => Kept(k, x)'
    BY <2>1, EntryEmptied, KeptGrows DEF Kept
  <2>3. ASSUME NEW i \in Own(app, k), Written(app, k.fn, i)
        PROVE  /\ NoReceives => ErrorLeft(k, i)
               /\ app.body[k.fn][k.at].origin = "agent" => ScopeLeft(k, i)
    BY <1>2, <2>3 DEF OwnScouted
  <2> QED
    BY <1>0, <2>2, <2>3 DEF ErrorLeft, ScopeLeft
<1>3. CASE EndDeclaration
  <2>1. /\ stack # << >> /\ phase = "detect" /\ Top.role = "detect"
        /\ Top.pc > Len(app.body[Top.fn]) /\ DetectErrors(transactions, "one")
    BY <1>3 DEF EndDeclaration, AtEnd
  <2>2. Len(stack) = 1 /\ Top = stack[1] /\ Top.fn = Head(rest) /\ Top.fn \in Fn
        /\ Top.pc \in Nat
    BY <2>1, LedTop, TheWalk DEF Top
  <2>3. Scouted(app, Behind)' = Scouted(app, Behind) \cup {Top.fn}
    BY <1>3, <2>2, ScoutedGrows
  <2>4. ASSUME NEW k \in Opened, k.fn = Top.fn PROVE Left(k)
    <3> SUFFICES ASSUME NEW i \in Own(app, k), Written(app, k.fn, i)
                 PROVE  /\ NoReceives =>
                             \/ app.body[k.fn][i].notes \in existingErrors' \cup {NoErr}
                             \/ EndsBefore(k, i)
                        /\ app.body[k.fn][k.at].origin = "agent" =>
                             /\ Kept(k, <<k.fn, i>>)'
                             /\ \A g \in CalleesOf(k, i) : \A x \in Whole(g) : Kept(k, x)'
      OBVIOUS
    <3>1. k \in Started
      BY DEF Opened
    <3>2. i < stack[1].pc
      <4>1. i \in Nat /\ i <= Len(app.body[Top.fn])
        BY <2>2, <2>4, CallTyped DEF Own, IInv
      <4>2. Len(app.body[Top.fn]) \in Nat
        BY <2>2, AppTyped DEF IInv, AppType
      <4> QED
        BY <2>1, <2>2, <4>1, <4>2
    <3>3. Passed(k, i)
      BY <2>1, <2>2, <2>4, <3>2 DEF OwnBehind
    <3>4. Kept(k, <<k.fn, i>>) /\ \A g \in CalleesOf(k, i) : \A x \in Whole(g) : Kept(k, x)
      BY <2>2, <3>3 DEF Passed, InCall
    <3>5. app.body[k.fn][k.at].origin = "agent" => \A x : Kept(k, x) => Kept(k, x)'
      BY <3>1, <1>3, EntryEmptied DEF Kept
    <3>6. ASSUME NoReceives, <<k.fn, i>> \in DataOf(k).exprs
          PROVE  app.body[k.fn][i].notes \in existingErrors' \cup {NoErr}
      <4>1. PICK x : x = <<k.fn, i>>
        OBVIOUS
      <4>2. k \in DOMAIN transactions /\ x \in transactions[k].exprs
        BY <3>6, <4>1 DEF DataOf, NoData
      <4>3. app.body[x[1]][x[2]].notes \in existingErrors' \cup {NoErr}
        BY <2>1, <3>6, <4>2, NoGivingUp
      <4> QED
        BY <4>1, <4>3
    <3>7. <<k.fn, i>> \in DataOf(k).exprs \/ EndsBefore(k, i)
      BY <3>3 DEF Passed
    <3> QED
      BY <3>4, <3>5, <3>6, <3>7
  <2> HIDE DEF Left
  <2> QED
    BY <1>1, <1>2, <2>1, <2>3, <2>4
<1> HIDE DEF Left
<1>4. ASSUME Scouted(app, Behind)' = Scouted(app, Behind),
             phase' \in {"detect", "done"} => phase \in {"detect", "done"}
      PROVE  OwnScouted'
  BY <1>1, <1>2, <1>4 DEF OwnScouted
<1>5. ASSUME NEW p \in Pkg, StartPackage(p) PROVE OwnScouted'
  BY <1>4, <1>5, ScoutedStays DEF StartPackage
<1>6. CASE DeclareFunction
  BY <1>6 DEF DeclareFunction, OwnScouted
<1>7. CASE EndDeclare
  <2>1. Behind' = [p \in Pkg |-> 0]
    BY <1>7, PassStarts
  <2>2. \A p \in Pkg : \A j \in DOMAIN app.decls[p] : ~(j <= 0)
    BY DeclsTyped DEF IInv
  <2>3. Scouted(app, Behind)' = {}
    BY <1>0, <2>1, <2>2 DEF Scouted
  <2> QED
    BY <1>1, <2>3
<1>8. CASE Aside
  BY <1>4, <1>8, ScoutedStays DEF Aside
<1> QED
  BY <1>3, <1>5, <1>6, <1>7, <1>8, StepsOfThePass

-----------------------------------------------------------------------------
(* Theorems.                                                               *)

ScopeInv == /\ OrderInv /\ KeysMet /\ EndsClose /\ PastOnly /\ CalleesBehind
            /\ CalleesWhole /\ EndsLast /\ OwnBehind /\ OwnScouted

LEMMA ScopeInitially == Init => ScopeInv
<1> SUFFICES ASSUME Init PROVE ScopeInv
  OBVIOUS
<1>1. OrderInv
  BY OrderInitially
<1>2. /\ phase = "declare" /\ transactions = << >> /\ stack = << >>
  BY DEF Init
<1>3. DOMAIN transactions = {}
  BY <1>2
<1>4. \A k : DataOf(k).exprs = {} /\ ~DataOf(k).closed
  BY <1>3 DEF DataOf, NoData
<1>5. KeysMet /\ PastOnly /\ CalleesBehind /\ OwnBehind /\ OwnScouted
  BY <1>2, <1>3 DEF KeysMet, PastOnly, CalleesBehind, OwnBehind, OwnScouted
<1>6. EndsClose /\ CalleesWhole /\ EndsLast
  BY <1>4 DEF EndsClose, CalleesWhole, EndsLast
<1> QED
  BY <1>1, <1>5, <1>6 DEF ScopeInv

LEMMA ScopeKept == ScopeInv /\ [Next]_vars => ScopeInv'
BY OrderKept, KeysKept, EndsCloseKept, PastOnlyKept, CalleesBehindKept,
   CalleesWholeKept, EndsLastKept, OwnBehindKept, OwnScoutedKept
   DEF ScopeInv, OrderInv

(* The inductive invariant of the cache: an entry is of a declaration met  *)
(* so far and is closed by an End of its own; what the walk has passed, in *)
(* the function of the transaction and in those it is in, is recorded or   *)
(* was left out because of that End.                                       *)
THEOREM Scope == Spec => []ScopeInv
BY ScopeInitially, ScopeKept, PTL DEF Spec

(* "Logic after transaction ends should not be captured": for every        *)
(* application, nothing behind a recorded End is recorded of its function, *)
(* called many times or once, unless the transaction reaches the function  *)
(* it was started in.                                                      *)
THEOREM NothingAfterEndHolds == Spec => []NothingAfterEnd
<1>1. ASSUME ScopeInv PROVE NothingAfterEnd
  <2> SUFFICES ASSUME NEW k \in DOMAIN transactions, k.at # 0,
                      k.fn \notin Reached(app, k),
                      NEW x \in transactions[k].exprs, NEW y \in transactions[k].exprs,
                      IsEnd(k, x), y[1] = x[1]
               PROVE  y[2] <= x[2]
    BY DEF NothingAfterEnd
  <2>1. k \in Started
    BY <1>1 DEF ScopeInv, OrderInv, IInv, TypeOK, CacheTypeOK, Started
  <2>2. transactions[k] = DataOf(k)
    BY DEF DataOf
  <2> QED
    BY <1>1, <2>1, <2>2 DEF ScopeInv, EndsLast
<1> QED
  BY <1>1, Scope, PTL

(* The statements a transaction of the agent has in its own function, and  *)
(* all calls of the functions declared before that are handed it, are      *)
(* recorded, or an End of it is: no callee is dropped on the way, however  *)
(* deep the walk goes and whatever the declarations visited between.       *)
THEOREM ScopeCompleteHolds == Spec => []ScopeComplete
<1>1. ASSUME ScopeInv PROVE ScopeComplete
  <2> SUFFICES ASSUME phase = "done", NEW f \in Declared(app),
                      NEW a \in DOMAIN app.body[f], app.body[f][a].origin = "agent",
                      NEW k, k = [fn |-> f, at |-> a],
                      ~\E x \in DataOf(k).exprs : IsEnd(k, x),
                      NEW i \in Own(app, k), Written(app, f, i)
               PROVE  /\ <<f, i>> \in DataOf(k).exprs
                      /\ \A g \in CalleesOf(k, i) : \A j \in DOMAIN app.body[g] :
                           app.body[g][j].form # "recv" => <<g, j>> \in DataOf(k).exprs
    <3>1. \A k, i, g : g \in CalleesOf(k, i) <=>
            /\ g \in Declared(app) /\ Before(g, k.fn)
            /\ CallsTo(app, app.body[k.fn][i], g)
            /\ app.body[k.fn][k.at].binds \in app.body[k.fn][i].passes
      BY DEF CalleesOf
    <3> QED
      BY <3>1 DEF ScopeComplete, Written
  <2>1. IInv /\ DoneOK /\ OwnScouted /\ EndsClose
    BY <1>1 DEF ScopeInv, OrderInv
  <2>2. f \in Fn /\ a \in Nat \ {0}
    BY <2>1, DeclaredFn, CallTyped DEF IInv
  <2>3. k \in Started /\ k \in Opened /\ k.fn = f /\ k.at = a
    BY <2>2 DEF Started, Opened, Key, Takes
  <2>4. f \in Scouted(app, Behind)
    BY <2>1, ScoutedDone
  <2>5. ScopeLeft(k, i)
    BY <2>1, <2>3, <2>4 DEF OwnScouted
  <2>6. ~DataOf(k).closed
    BY <2>1, <2>3 DEF EndsClose
  <2>7. <<f, i>> \in DataOf(k).exprs
    BY <2>3, <2>5, <2>6 DEF ScopeLeft, Kept
  <2>8. ASSUME NEW g \in CalleesOf(k, i), NEW j \in DOMAIN app.body[g],
               app.body[g][j].form # "recv"
        PROVE  <<g, j>> \in DataOf(k).exprs
    <3>1. g \in Fn
      BY <2>1, DeclaredFn DEF CalleesOf, IInv
    <3>2. j \in Nat /\ j <= Len(app.body[g]) /\ Len(app.body[g]) \in Nat
      BY <2>1, <3>1, CallTyped, AppTyped DEF IInv, AppType
    <3>3. j < Len(app.body[g]) + 1
      BY <3>2
    <3>4. <<g, j>> \in Whole(g)
      BY <2>8, <3>3 DEF Whole, Calling
    <3> QED
      BY <2>5, <2>6, <3>4 DEF ScopeLeft, Kept
  <2> QED
    BY <2>7, <2>8
<1> QED
  BY <1>1, Scope, PTL

(* In an application that nowhere waits for a channel in a statement,      *)
(* every error the user reports in a transaction before it ends is known   *)
(* when instrumentation starts, in whatever order the packages come and    *)
(* although the Echo detector empties entries.                             *)
THEOREM ErrorsKnownHolds == Spec => []ErrorsKnown
<1>1. ASSUME ScopeInv PROVE ErrorsKnown
  <2> SUFFICES ASSUME phase = "done", NoReceives, NEW f \in Declared(app),
                      NEW a \in DOMAIN app.body[f], Takes(app.body[f][a]),
                      NEW k, k = [fn |-> f, at |-> a],
                      NEW i \in Own(app, k), app.body[f][i].stmt # "none"
               PROVE  \/ app.body[f][i].notes \in existingErrors \cup {NoErr}
                      \/ EndsBefore(k, i)
    BY DEF ErrorsKnown, NoReceives
  <2>1. IInv /\ DoneOK /\ OwnScouted
    BY <1>1 DEF ScopeInv, OrderInv
  <2>2. f \in Fn /\ a \in Nat \ {0}
    BY <2>1, DeclaredFn, CallTyped DEF IInv
  <2>3. k \in Started /\ k \in Opened /\ k.fn = f /\ k.at = a
    BY <2>2 DEF Started, Opened, Key
  <2>4. f \in Scouted(app, Behind)
    BY <2>1, ScoutedDone
  <2>5. Written(app, f, i)
    BY <2>3 DEF NoReceives, Written, Own
  <2> QED
    BY <2>1, <2>3, <2>4, <2>5 DEF OwnScouted, ErrorLeft
<1> QED
  BY <1>1, Scope, PTL

=============================================================================
