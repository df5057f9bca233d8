----------------------- MODULE InstrumentDeclaration -----------------------
(***************************************************************************)
(* One function declaration under all the integrations: instrumentPackages *)
(* visits its nodes, children first, and runs every stateless function on  *)
(* each; those that start a trace walk the declaration once more, parents  *)
(* first, and run every stateful function on each statement.               *)
(*                                                                         *)
(* Here the text is what matters: which statements are generated, where    *)
(* they are put, and which names they bind and read.  The recursion into   *)
(* callees, and errors, are the subject of TraceFunction; of a call to a   *)
(* function of the application only the edit at the call is kept.          *)
(***************************************************************************)
EXTENDS WebIntegrations, SqlDrivers, Loggers, FiniteSets

CONSTANTS Decl,  \* the block that is the body of the declaration
          Progs  \* the declarations considered

ProgType == [form    : {"main", "func"},
             kinds   : [Block -> BlockKind],
             params  : [Block -> Seq(Param)],
             body    : [Block -> Seq(Statement)],
             calls   : SUBSET STRING,  \* functions the application declares
             served  : BOOLEAN,        \* method of a registered gRPC server
             wrapped : BOOLEAN,        \* handler wrapped by the user
             setup   : STRING,         \* setup function in this file, if any
             agent   : STRING]         \* name of the agent so far

(* What go/parser lets through: an assignment has a target, a call of Do   *)
(* its request.                                                            *)
SoundStatement ==
  {s \in Statement : /\ s.form = "assign" => s.lhs # << >>
                     /\ GetNetHttpMethod(s) = "Do" => s.args # << >>
                     /\ SlogMiddlewareCall(s) => s.lhs[1] \in HandlerName}

(* Statements have positions of their own, and blocks nest.                *)
WellFormed(p) ==
  /\ p.kinds[Decl] = "decl"
  /\ \A b \in Block : \A i \in DOMAIN p.body[b] :
       /\ p.body[b][i] \in SoundStatement /\ p.body[b][i].id # 0
       /\ \A j \in DOMAIN p.body[b] : p.body[b][j].id = p.body[b][i].id => j = i
  /\ \E height \in [Block -> 0 .. Cardinality(Block)] :
       \A b \in Block : \A i \in DOMAIN p.body[b] :
         LET c == p.body[b][i].inner IN c # NoBlock => height[c] < height[b]

ASSUME BlockAssumption ==
  IsFiniteSet(Block) /\ Decl \in Block /\ NoBlock \notin Block
ASSUME ProgsAssumption == \A p \in Progs : p \in ProgType /\ WellFormed(p)

VARIABLES
  prog,           \* the declaration, chosen once
  body,           \* its text
  visit,          \* nodes instrumentPackages has still to visit
  step,           \* the stateless function to run on the first of them
  tracing,        \* who started TraceFunction, if it runs
  walk,           \* statements TraceFunction has still to walk
  hook,           \* the stateful function to run; 0 for calls
  state,          \* the tracestate.State of the walk
  changed,        \* TopLevelFunctionChanged
  agentVariable,  \* manager.agentVariableName
  setup,          \* manager.setupFunc is set
  imports,        \* manager.importsAdded
  crashed         \* a type assertion or an insertion panicked

outer == <<prog, visit, step>>
trace == <<tracing, walk, hook, state, changed>>
manager == <<agentVariable, setup>>
vars == <<outer, body, trace, manager, imports, crashed>>

Stateless == <<"Main", "HandleFunction", "HttpClient", "GrpcDial", "Gin",
               "Echo4", "Echo3", "GrpcServerMethod", "Slog", "Logrus", "PQ",
               "Pgx">>

-----------------------------------------------------------------------------
(* Nodes.                                                                  *)

Node(kind, b, id) == [kind |-> kind, blk |-> b, id |-> id]

(* Children first; a nested block is no node the functions look at.        *)
PostOrder(p) ==
  LET Of[b \in Block] == FlattenSeq([i \in DOMAIN p.body[b] |->
        LET s == p.body[b][i]
        IN  (IF s.inner = NoBlock THEN << >>
             ELSE Of[s.inner] \o (IF p.kinds[s.inner] = "lit"
                                  THEN <<Node("lit", s.inner, 0)>> ELSE << >>))
            \o <<Node("stmt", b, s.id)>>])
  IN  Append(Of[Decl], Node("decl", Decl, 0))

(* Parents first.  Generated statements are walked too, and match nothing. *)
PreOrder(text) ==
  LET Of[b \in Block] == FlattenSeq([i \in DOMAIN text[b] |->
        LET s == text[b][i]
        IN  (IF s.id = 0 THEN << >> ELSE <<Node("stmt", b, s.id)>>)
            \o IF s.inner = NoBlock THEN << >> ELSE Of[s.inner]])
  IN  Of[Decl]

StatementAt(n) == body[n.blk][IndexOfId(body[n.blk], n.id)]
InList(n)      == prog.kinds[n.blk] # "init"      \* c.Index() >= 0

-----------------------------------------------------------------------------
(* tracestate                                                              *)

Idle == [main |-> FALSE, agent |-> None, defined |-> FALSE, used |-> FALSE,
         object |-> "txn", owner |-> None]
Main(agent)          == [Idle EXCEPT !.main = TRUE, !.agent = agent]
FunctionBody(object, owner) == [Idle EXCEPT !.object = object, !.owner = owner]

nrTxn == DefaultTransactionVariable

(* AgentVariable: the agent's name, or nrTxn.Application().                *)
AgentVariable    == IF state.agent # None THEN state.agent ELSE nrTxn
AgentFromTxn(st) == IF st.agent # None THEN st ELSE [st EXCEPT !.used = TRUE]
TxnUsed(st)      == [st EXCEPT !.used = TRUE]

Init ==
  /\ prog \in Progs
  /\ body = prog.body /\ visit = PostOrder(prog) /\ step = 1
  /\ tracing = "none" /\ walk = << >> /\ hook = 0 /\ state = Idle
  /\ changed = FALSE
  /\ agentVariable = prog.agent /\ setup = (prog.setup # None)
  /\ imports = {} /\ crashed = FALSE

-----------------------------------------------------------------------------
(* Stateless functions.                                                    *)

Here == Head(visit)

Running(f) == /\ visit # << >> /\ tracing = "none" /\ ~crashed
              /\ Stateless[step] = f

(* Faulty: goes on behind the last function.                               *)
NextFunctionOnly ==
  /\ step' = step + 1
  /\ visit' = IF step = Len(Stateless) THEN Tail(visit) ELSE visit
  /\ UNCHANGED prog

NextFunction ==
  /\ step' = IF step = Len(Stateless) THEN 1 ELSE step + 1
  /\ visit' = IF step = Len(Stateless) THEN Tail(visit) ELSE visit
  /\ UNCHANGED prog

(* A stateless function that edits the text and starts no trace.           *)
Edit(text, new) ==
  /\ body' = text /\ imports' = imports \cup new
  /\ NextFunction /\ UNCHANGED <<trace, manager, crashed>>

Skip == Edit(body, {})

EditBlock(b, list, new) == Edit([body EXCEPT ![b] = list], new)

(* A stateless function that calls TraceFunction on the declaration.       *)
StartTrace(who, text, st) ==
  /\ body' = text /\ tracing' = who /\ walk' = PreOrder(text) /\ hook' = 0
  /\ state' = st /\ changed' = FALSE
  /\ UNCHANGED <<outer, crashed>>

Panic == /\ crashed' = TRUE
         /\ UNCHANGED <<outer, body, trace, manager, imports>>

IsMainDecl == Here.kind = "decl" /\ prog.form = "main"

(* checkForExistingApplicationInMain: the first assignment of main whose   *)
(* value is a call of the agent's package, whatever it makes.              *)
NewRelicFuns == {"newrelic.NewApplication", "newrelic.FromContext",
                 "newrelic.NewRoundTripper"}
ExistingApplication(list) ==
  FirstIndex(list, {i \in DOMAIN list : AssignsCall(list[i], NewRelicFuns)})

(* handleAssignStmtForAgentVariable, on every declaration: the variable    *)
(* that is assigned the setup function's result, the last one walked.      *)
AgentNoted ==
  LET nodes == PreOrder(body)
      Noted == {i \in DOMAIN nodes :
                  /\ AssignsCall(StatementAt(nodes[i]), {prog.setup} \ {None})
                  /\ ~StatementAt(nodes[i]).field}
  IN  IF Here.kind # "decl" \/ Noted = {} THEN agentVariable
      ELSE StatementAt(nodes[CHOOSE i \in Noted : \A j \in Noted : j <= i]).lhs[1]

InjectAgent(text) ==
  [text EXCEPT ![Decl] = InitializeAgent(agentVariable) \o @
                           \o <<ShutdownAgent(agentVariable)>>]

InstrumentMain ==
  /\ Running("Main")
  /\ LET found == ExistingApplication(body[Decl])
     IN  \/ /\ ~IsMainDecl
            /\ agentVariable' = AgentNoted
            /\ NextFunction /\ UNCHANGED <<body, trace, setup, imports, crashed>>
         \/ /\ IsMainDecl /\ setup
            /\ agentVariable' = AgentNoted
            /\ StartTrace("main", body, Main(agentVariable'))
            /\ UNCHANGED <<setup, imports>>
         \/ /\ IsMainDecl /\ ~setup /\ found # 0
            /\ \/ body[Decl][found].field /\ Panic
               \/ /\ ~body[Decl][found].field
                  /\ setup' = TRUE /\ agentVariable' = body[Decl][found].lhs[1]
                  /\ StartTrace("main", body, Main(agentVariable'))
                  /\ UNCHANGED imports
         \/ /\ IsMainDecl /\ ~setup /\ found = 0
            /\ StartTrace("main", InjectAgent(body), Main(agentVariable))
            /\ imports' = imports \cup {"newrelic"}
            /\ UNCHANGED manager

InstrumentHandleFunction ==
  /\ Running("HandleFunction")
  /\ LET traces == /\ Here.kind = "decl" /\ ~prog.wrapped
                   /\ IsHTTPHandler(prog.params[Decl])
     IN  \/ ~traces /\ Skip
         \/ /\ traces /\ StartTrace("http", body, FunctionBody("txn", None))
            /\ UNCHANGED <<manager, imports>>

InstrumentHttpClient ==
  /\ Running("HttpClient")
  /\ \/ /\ Here.kind = "stmt" /\ InList(Here)
        /\ IsNetHttpClientDefinition(StatementAt(Here))
        /\ EditBlock(Here.blk,
                     InsertAfter(body[Here.blk], Here.id,
                                 RoundTripper(StatementAt(Here).lhs[1])),
                     {"newrelic"})
     \/ /\ Here.kind = "stmt" => ~InList(Here)
             \/ ~IsNetHttpClientDefinition(StatementAt(Here))
        /\ Skip

InstrumentGrpcDial ==
  /\ Running("GrpcDial")
  /\ \/ /\ Here.kind = "stmt" /\ GrpcDialCall(StatementAt(Here))
        /\ EditBlock(Here.blk,
                     ReplaceById(body[Here.blk], Here.id,
                       [StatementAt(Here) EXCEPT
                          !.opts = @ \o <<NrGrpcUnaryClientInterceptor,
                                          NrGrpcStreamClientInterceptor>>]),
                     {"nrgrpc"})
     \/ /\ Here.kind = "stmt" => ~GrpcDialCall(StatementAt(Here))
        /\ Skip

(* A handler literal gets its segment and its transaction in any case; a   *)
(* declared Gin handler is traced, and gets a transaction if that changed  *)
(* it; a declared Echo handler is treated like a literal.                  *)
WithSegment(list) == PrependStatement(list, DeferSegment(nrTxn))

InstrumentGinFunction ==
  /\ Running("Gin")
  /\ LET ctx == IF Here.kind = "stmt" THEN None
                ELSE GetGinContextFromHandler(prog.params[Here.blk])
         skips == Here.kind = "decl" /\ HasExistingGinTransaction(body)
     IN  \/ (ctx = None \/ skips) /\ Skip
         \/ /\ ctx # None /\ ~skips /\ Here.kind = "decl"
            /\ StartTrace("gin", body, FunctionBody("txn", None))
            /\ UNCHANGED <<manager, imports>>
         \/ /\ ctx # None /\ Here.kind = "lit"
            /\ EditBlock(Here.blk,
                 DefineTxnFromGinCtx(WithSegment(body[Here.blk]), ctx), {})

InstrumentEchoFunction(v) ==
  /\ Running(IF v = 4 THEN "Echo4" ELSE "Echo3")
  /\ LET ctx == IF Here.kind = "stmt" THEN None
                ELSE GetEchoContextFromHandler(v, prog.params[Here.blk])
         skips == Here.kind = "decl" /\ HasExistingEchoTransaction(v, body)
     IN  \/ (ctx = None \/ skips) /\ Skip
         \/ /\ ctx # None /\ ~skips
            /\ EditBlock(Here.blk,
                 DefineTxnFromEchoCtx(v, WithSegment(body[Here.blk]), ctx), {})

InstrumentGrpcServerMethod ==
  /\ Running("GrpcServerMethod")
  /\ LET txn == GetTxnFromGrpcServer(prog.params[Decl])
         traces == /\ Here.kind = "decl" /\ IsGrpcServerMethod(prog)
                   /\ txn.object # "none"
     IN  \/ ~traces /\ Skip
         \/ /\ traces
            /\ StartTrace("grpc", body, FunctionBody(txn.object, txn.owner))
            /\ UNCHANGED <<manager, imports>>

InstrumentSlogHandler ==
  /\ Running("Slog")
  /\ LET handlers == {i \in DOMAIN body[Decl] : SlogMiddlewareCall(body[Decl][i])}
     IN  \/ Here.kind # "decl" /\ Skip
         \/ /\ Here.kind = "decl" /\ \E i \in handlers : body[Decl][i].field
            /\ Panic
         \/ /\ Here.kind = "decl" /\ \A i \in handlers : ~body[Decl][i].field
            /\ EditBlock(Decl, SlogEdit(body[Decl]),
                         IF handlers = {} THEN {} ELSE {"nrslog"})

InstrumentLogrusHandler ==
  /\ Running("Logrus")
  /\ \/ Here.kind # "decl" /\ Skip
     \/ /\ Here.kind = "decl"
        /\ EditBlock(Decl, LogrusEdit(body, body[Decl], agentVariable),
                     IF LogrusMutates(body, body[Decl]) THEN {"nrlogrus"} ELSE {})

(* lib/pq is imported blank in the package, as every program does that     *)
(* opens "postgres" through it: the import is swapped with the driver.     *)
InstrumentPQHandler ==
  /\ Running("PQ")
  /\ \/ Here.kind = "stmt" /\ Skip
     \/ /\ Here.kind # "stmt"
        /\ LET list == PQEdit(body, Here.blk, IsMainDecl, agentVariable)
           IN  EditBlock(Here.blk, list,
                  (IF PQSwaps(body[Here.blk]) THEN {"nrpq"} ELSE {})
                  \cup IF Len(list) > Len(body[Here.blk])
                       THEN {"newrelic"} ELSE {})

InstrumentPgxHandler ==
  /\ Running("Pgx")
  /\ \/ Here.kind = "stmt" /\ Skip
     \/ /\ Here.kind # "stmt"
        /\ EditBlock(Here.blk, PgxEdit(body[Here.blk]),
                     IF PgxConnects(body[Here.blk]) = 0 THEN {} ELSE {"nrpgx5"})

-----------------------------------------------------------------------------
(* TraceFunction and the stateful functions.                               *)

Walking(h) == tracing # "none" /\ walk # << >> /\ ~crashed /\ hook = h

Walked   == StatementAt(Head(walk))
WalkedIn == Head(walk).blk
Listed   == InList(Head(walk))

LastHook == 8
NextHook == /\ hook' = IF hook = LastHook THEN 0 ELSE hook + 1
            /\ walk' = IF hook = LastHook THEN Tail(walk) ELSE walk
            /\ UNCHANGED <<outer, manager, tracing>>

(* What a stateful function leaves: the block of the statement, the state. *)
Modify(list, st, ch, new) ==
  /\ body' = [body EXCEPT ![WalkedIn] = list]
  /\ state' = st /\ changed' = (changed \/ ch) /\ imports' = imports \cup new
  /\ NextHook /\ UNCHANGED crashed

Pass == Modify(body[WalkedIn], state, FALSE, {})

(* Calls to functions of the application: in main a transaction is started *)
(* before the statement and ended behind it; "nrTxn =" once one was        *)
(* defined.  The transaction is handed to the call, unless it is there or  *)
(* the context that carries it is.                                         *)
CalledHere == {s \in ToSet(Inspected(body, prog.kinds, Walked)) :
                 s.recv = None /\ s.fun \in prog.calls}

(* Faulty: always defines the variable.                                    *)
WrapAnew(list) ==
  InsertBefore(InsertAfter(list, Walked.id, EndTransaction(nrTxn)), Walked.id,
               StartTransaction(state.agent, nrTxn, FALSE))

WrapWithTransaction(list) ==
  InsertBefore(InsertAfter(list, Walked.id, EndTransaction(nrTxn)), Walked.id,
               StartTransaction(state.agent, nrTxn, state.defined))
Wraps == state.main /\ state.agent # None /\ Listed

HandsOn(s) == state.object = "ctx" /\ state.owner \in ToSet(s.args)
AddToCall(s) ==
  IF nrTxn \in ToSet(s.args) \/ HandsOn(s) THEN s
  ELSE [s EXCEPT !.args = Append(@, nrTxn)]

AddToCalls(text, ids) ==
  [b \in Block |-> [i \in DOMAIN text[b] |->
     IF text[b][i].id \in ids THEN AddToCall(text[b][i]) ELSE text[b][i]]]

TraceCalls ==
  /\ Walking(0)
  /\ \/ CalledHere = {} /\ Pass
     \/ /\ CalledHere # {}
        /\ LET given == AddToCalls(body, {s.id : s \in CalledHere})
           IN  body' = IF Wraps THEN [given EXCEPT ![WalkedIn] =
                                        WrapWithTransaction(@)] ELSE given
        /\ state' = [state EXCEPT !.defined = @ \/ Wraps,
                        !.used = @ \/ \E s \in CalledHere : ~HandsOn(s)]
        /\ changed' = TRUE /\ imports' = imports \cup {"newrelic"}
        /\ NextHook /\ UNCHANGED crashed

ExternalHttpCall ==
  /\ Walking(1)
  /\ LET call == LastHttp(Inspected(body, prog.kinds, Walked), {"Do"})
         id   == Walked.id
         request  == call.args[1]
         response == GetHttpResponseVariable(call)
         segment  == "externalSegment"
         opened == InsertBefore(body[WalkedIn], id,
                     StartExternalSegment(request, nrTxn, segment))
         closed == InsertAfter(opened, id, EndExternalSegment(segment))
     IN  \/ (~Listed \/ call = Blank) /\ Pass
         \/ /\ Listed /\ call # Blank
            /\ GetNetHttpClientVariableName(call) = "DefaultClient"
            /\ Modify(IF response = None THEN closed
                      ELSE InsertAfter(closed, id,
                             CaptureHttpResponse(segment, response)),
                      TxnUsed(state), TRUE, {"newrelic"})
         \/ /\ Listed /\ call # Blank
            /\ GetNetHttpClientVariableName(call) # "DefaultClient"
            /\ Modify(InsertBefore(body[WalkedIn], id,
                                   WrapRequestContext(request, nrTxn)),
                      TxnUsed(state), TRUE, {"newrelic"})

(* Handlers with two arguments only: a wrapped one is found again.         *)
WrapNestedHandleFunction ==
  /\ Walking(2)
  /\ LET method == GetNetHttpMethod(Walked)
         todo == Walked.nested \notin {"newrelic.WrapHandleFunc",
                                       "newrelic.WrapHandle"}
     IN  \/ ~(method \in {"HandleFunc", "Handle"} /\ todo) /\ Pass
         \/ /\ method \in {"HandleFunc", "Handle"} /\ todo
            /\ Modify(ReplaceById(body[WalkedIn], Walked.id,
                        IF method = "HandleFunc"
                        THEN WrapHttpHandleFunc(AgentVariable, Walked)
                        ELSE WrapHttpHandle(AgentVariable, Walked)),
                      AgentFromTxn(state), TRUE, {"newrelic"})

InstrumentGrpcServer ==
  /\ Walking(3)
  /\ \/ ~GrpcNewServerCall(Walked) /\ Pass
     \/ /\ GrpcNewServerCall(Walked)
        /\ Modify(ReplaceById(body[WalkedIn], Walked.id,
                    [Walked EXCEPT !.opts = @ \o
                       <<NrGrpcUnaryServerInterceptor(AgentVariable),
                         NrGrpcStreamServerInterceptor(AgentVariable)>>]),
                  AgentFromTxn(state), TRUE, {"nrgrpc"})

(* The router's middleware goes directly behind its creation.  A target    *)
(* that is no identifier, or a statement that is in no list, panics.       *)
AddMiddleware(isRouter, existing, use, import) ==
  \/ ~isRouter /\ Pass
  \/ /\ isRouter /\ (RouterPanics(Walked) \/ (~existing /\ ~Listed))
     /\ Panic
  \/ isRouter /\ ~RouterPanics(Walked) /\ existing /\ Pass
  \/ /\ isRouter /\ ~RouterPanics(Walked) /\ ~existing /\ Listed
     /\ Modify(InsertAfter(body[WalkedIn], Walked.id, use),
               AgentFromTxn(state), TRUE, {import})

InstrumentGinMiddleware ==
  /\ Walking(4)
  /\ AddMiddleware(GinMiddlewareCall(Walked),
       Listed /\ HasExistingGinMiddleware(body[WalkedIn],
                   IndexOfId(body[WalkedIn], Walked.id)),
       NrGinMiddleware(Walked.lhs[1], AgentVariable), "nrgin")

InstrumentEchoMiddleware(v) ==
  /\ Walking(IF v = 4 THEN 5 ELSE 6)
  /\ AddMiddleware(EchoMiddlewareCall(v, Walked),
       HasExistingEchoMiddleware(v, prog.kinds[WalkedIn], body[WalkedIn],
         IndexOfId(body[WalkedIn], Walked.id)),
       NrEchoMiddleware(v, Walked.lhs[1], AgentVariable),
       IF v = 4 THEN "nrecho4" ELSE "nrecho3")

InstrumentChiMiddleware ==
  /\ Walking(7)
  /\ AddMiddleware(GetChiRouterName(Walked), FALSE,
                   NrChiMiddleware(Walked.lhs[1], AgentVariable), "nrgochi")

InstrumentChiRouterLiteral ==
  /\ Walking(8)
  /\ LET lit == Walked.inner
         request == IF GetChiHTTPMethod(Walked)
                         /\ GetChiHTTPHandlerRouteName(Walked, prog.kinds)
                    THEN GetHTTPRequestArgName(prog.params[lit]) ELSE None
     IN  \/ request = None /\ Pass
         \/ /\ request # None
            /\ body' = [body EXCEPT ![lit] =
                          PrependStatement(WithSegment(@),
                            TxnFromContext(nrTxn, HttpRequestContext(request)))]
            /\ state' = TxnUsed(state) /\ changed' = TRUE
            /\ NextHook /\ UNCHANGED <<imports, crashed>>

(* After the walk: the trace object of a context assigns the transaction   *)
(* if anything used it; then the caller of TraceFunction adds its own.     *)
AssignTransactionVariable(list) ==
  IF state.used /\ state.object = "ctx"
  THEN PrependStatement(list, TxnFromContext(nrTxn, [Blank EXCEPT
                                                       !.recv = state.owner]))
  ELSE list

(* Faulty: leaves a gRPC stream to the trace object.                       *)
TxnAssignmentOfHandlers(list) ==
  CASE ~changed         -> list
    [] tracing = "http" -> DefineTxnFromCtx(list, prog.params[Decl])
    [] tracing = "gin"  -> DefineTxnFromGinCtx(list,
                             GetGinContextFromHandler(prog.params[Decl]))
    [] OTHER            -> list

TxnAssignment(list) ==
  CASE ~changed         -> list
    [] tracing = "http" -> DefineTxnFromCtx(list, prog.params[Decl])
    [] tracing = "gin"  -> DefineTxnFromGinCtx(list,
                             GetGinContextFromHandler(prog.params[Decl]))
    [] tracing = "grpc" /\ state.object = "txn" ->
         PrependStatement(list, TxnFromContext(nrTxn,
           GrpcStreamContext(GetTxnFromGrpcServer(prog.params[Decl]).owner)))
    [] OTHER            -> list

EndTrace ==
  /\ tracing # "none" /\ walk = << >> /\ ~crashed
  /\ body' = [body EXCEPT ![Decl] =
                TxnAssignment(AssignTransactionVariable(@))]
  /\ tracing' = "none" /\ walk' = << >> /\ hook' = 0 /\ state' = Idle
  /\ changed' = FALSE
  /\ NextFunction /\ UNCHANGED <<manager, imports, crashed>>

Finished == visit = << >> \/ crashed
Done == Finished /\ UNCHANGED vars

Next == \/ InstrumentMain \/ InstrumentHandleFunction \/ InstrumentHttpClient
        \/ InstrumentGrpcDial \/ InstrumentGinFunction
        \/ (\E v \in {3, 4} : InstrumentEchoFunction(v))
        \/ InstrumentGrpcServerMethod \/ InstrumentSlogHandler
        \/ InstrumentLogrusHandler \/ InstrumentPQHandler
        \/ InstrumentPgxHandler
        \/ TraceCalls \/ ExternalHttpCall \/ WrapNestedHandleFunction
        \/ InstrumentGrpcServer \/ InstrumentGinMiddleware
        \/ (\E v \in {3, 4} : InstrumentEchoMiddleware(v))
        \/ InstrumentChiMiddleware \/ InstrumentChiRouterLiteral
        \/ EndTrace \/ Done

Spec == Init /\ [][Next]_vars

-----------------------------------------------------------------------------
(* Properties.  Blocks in use, and what encloses them.                     *)

Holders(b) == UNION {{<<c, i>> : i \in {j \in DOMAIN body[c] :
                                          body[c][j].inner = b}} : c \in Block}
InUse      == {b \in Block : b = Decl \/ Holders(b) # {}}
Holder(b)  == CHOOSE h \in Holders(b) : TRUE

ParamNames(b) == {prog.params[b][i].name : i \in DOMAIN prog.params[b]}
VarBinds(s)   == IF s.form = "var" THEN ToSet(s.lhs) ELSE Binds(s)
BoundBefore(b, i) ==
  ParamNames(b) \cup UNION {VarBinds(body[b][j]) : j \in 1 .. i - 1}

(* The names visible at the statement i of the block b.                    *)
InScope(b, i) ==
  LET Around[c \in Block] ==
        IF c = Decl THEN {}
        ELSE BoundBefore(Holder(c)[1], Holder(c)[2]) \cup Around[Holder(c)[1]]
  IN  BoundBefore(b, i) \cup Around[b]

Instrumented == visit = << >> /\ ~crashed

NodeType == [kind : {"stmt", "lit", "decl"}, blk : Block, id : Nat]
StateType == [main : BOOLEAN, agent : STRING, defined : BOOLEAN, used : BOOLEAN,
              object : {"txn", "ctx"}, owner : STRING]

Imported == {"newrelic", "nrgrpc", "nrgin", "nrecho4", "nrecho3", "nrgochi",
             "nrslog", "nrlogrus", "nrpq", "nrpgx5"}

TypeOK ==
  /\ prog \in Progs /\ body \in [Block -> Seq(SoundStatement)]
  /\ visit \in Seq(NodeType) /\ walk \in Seq(NodeType)
  /\ step \in DOMAIN Stateless /\ hook \in 0 .. LastHook
  /\ tracing \in {"none", "main", "http", "gin", "grpc"}
  /\ state \in StateType /\ changed \in BOOLEAN
  /\ agentVariable \in STRING /\ setup \in BOOLEAN /\ crashed \in BOOLEAN
  /\ imports \subseteq Imported

(* Every name a statement reads or assigns is declared where it stands:    *)
(* what one integration reads (nrTxn, the agent, ctx, config, the wrapped  *)
(* handler) another one, or the user, has put in scope before it.          *)
NamesDeclared ==
  Instrumented => \A b \in InUse : \A i \in DOMAIN body[b] :
                    Reads(body[b][i]) \subseteq InScope(b, i)

(* A ":=" declares at least one name that its block has not: no two        *)
(* integrations, and no two visits, define the same variable twice.        *)
DeclaresNew ==
  Instrumented => \A b \in InUse : \A i \in DOMAIN body[b] :
                    body[b][i].tok = "define" =>
                      ~(Binds(body[b][i]) \subseteq BoundBefore(b, i))

(* At no time is a statement of the user lost, duplicated or moved, and it *)
(* binds what it bound, except that the error of a replaced connection is  *)
(* called err: insertions shift the positions others remember.             *)
ConnectsWithConfig(s) == s.fun \in {"pgx.ConnectConfig", "pgxpool.NewWithConfig"}
SameStatement(s, t) ==
  /\ s.id = t.id /\ s.inner = t.inner
  /\ \/ s.lhs = t.lhs
     \/ ConnectsWithConfig(s) /\ s.lhs = <<t.lhs[1], "err">>

Keeps(list, old) ==
  /\ \A j \in DOMAIN list : list[j].id # 0 =>
       \E i \in DOMAIN old : SameStatement(list[j], old[i])
  /\ \A i \in DOMAIN old : \E j \in DOMAIN list : SameStatement(list[j], old[i])
  /\ \A j, k \in DOMAIN list : \A h, i \in DOMAIN old :
       list[j].id = old[h].id /\ list[k].id = old[i].id /\ j < k => h < i

UserCodeKept == \A b \in Block : Keeps(body[b], prog.body[b])

(* In main a transaction is used only between its start and its end, every *)
(* start is ended, and the result of a traced query is not used after the  *)
(* end: WrapWithTransaction, wrapWithTransaction and the segments nest.    *)
Starts(s) == nrTxn \in ToSet(s.lhs)
Ends(s)   == s.recv = nrTxn /\ s.fun = "End"
LiveBefore(b, i) ==
  LET Live[c \in Block, n \in Nat] ==
        LET E == {j \in 1 .. n - 1 : Starts(body[c][j]) \/ Ends(body[c][j])}
        IN  IF E # {}
            THEN Starts(body[c][CHOOSE j \in E : \A k \in E : k <= j])
            ELSE IF c = Decl THEN nrTxn \in ParamNames(c)
            ELSE Live[Holder(c)[1], Holder(c)[2]]
  IN  Live[b, i]

NextEnd(list, i) == FirstIndex(list, {j \in i + 1 .. Len(list) : Ends(list[j])})

UsedAlive(b, i) == nrTxn \in Reads(body[b][i]) /\ ~Starts(body[b][i])
                     => LiveBefore(b, i)
EndsOnce(b, i)  == body[b][i].fun = "StartTransaction" =>
                     LET end == NextEnd(body[b], i)
                     IN  end # 0 /\ \A j \in i + 1 .. end : ~Starts(body[b][j])
ResultUsedLive(b, i) ==
  body[b][i].fun \in {ContextMethodName[m] : m \in DOMAIN ContextMethodName} =>
    \A j \in NextEnd(body[b], i) .. Len(body[b]) :
      body[b][i].lhs[1] \notin MentionedIn(body, body[b][j])

LiveTransaction ==
  Instrumented /\ prog.form = "main" =>
    \A b \in InUse : \A i \in DOMAIN body[b] :
      UsedAlive(b, i) /\ EndsOnce(b, i) /\ ResultUsedLive(b, i)

(* Every router, client and server gets its New Relic part exactly once,   *)
(* and a router before its first route: the middleware of a framework only *)
(* sees the routes registered after it.                                    *)
Middlewares == {"nrgin.Middleware", "nrecho4.Middleware", "nrecho3.Middleware",
                "nrgochi.Middleware"}
IsRouter(s) == \/ GinMiddlewareCall(s) \/ GetChiRouterName(s)
               \/ \E v \in {3, 4} : EchoMiddlewareCall(v, s)
RouterCovered(list, i) ==
  LET On == {j \in i + 1 .. Len(list) : list[j].recv = list[i].lhs[1]}
      M  == {j \in On : list[j].fun = "Use" /\ list[j].nested \in Middlewares}
  IN  Cardinality(M) = 1
        /\ \A j \in On, m \in M : j < m => list[j].fun = "Use"
ClientCovered(list, i) ==
  LET Same == {j \in i + 1 .. Len(list) : list[j].lhs = list[i].lhs}
  IN  Cardinality({j \in Same :
        /\ list[j].fun = "newrelic.NewRoundTripper"
        /\ \A k \in Same : IsNetHttpClientDefinition(list[k]) => k > j}) = 1
HasBoth(s, unary, stream) ==
  [i \in DOMAIN s.opts |-> s.opts[i].fun] = <<unary, stream>>

EndpointsCovered ==
  Instrumented => \A b \in InUse : \A i \in DOMAIN body[b] :
    LET s == body[b][i]
    IN  /\ IsRouter(s) => RouterCovered(body[b], i)
        /\ IsNetHttpClientDefinition(s) => ClientCovered(body[b], i)
        /\ GrpcDialCall(s) => HasBoth(s, "nrgrpc.UnaryClientInterceptor",
                                         "nrgrpc.StreamClientInterceptor")
        /\ GrpcNewServerCall(s) => HasBoth(s, "nrgrpc.UnaryServerInterceptor",
                                              "nrgrpc.StreamServerInterceptor")

(* A log handler that was wrapped is handed to no logger any more, and a   *)
(* logrus entry is written only when the formatter of its logger wraps:    *)
(* the last SetFormatter before it is one of nrlogrus.                     *)
MakesLogger(s) == "slog.New" \in {s.fun, s.nested}
WrittenBy(s) == IF s.fun = "logrus.Info" THEN None ELSE s.recv
IsEntry(list, i) ==
  \/ list[i].fun = "logrus.Info"
  \/ list[i].fun = "Info" /\ list[i].recv \in LoggersBefore(list, i)
FormatterWraps(list, i) ==
  LET F == {j \in 1 .. i - 1 :
              \/ list[j].fun \in {"SetFormatter", "logrus.SetFormatter"}
                   /\ list[j].recv = WrittenBy(list[i])
              \/ LogrusNewVarName(list[j]) # None
                   /\ LogrusNewVarName(list[j]) = WrittenBy(list[i])}
  IN  F # {} /\ list[CHOOSE j \in F : \A k \in F : k <= j].nested
                  = "nrlogrus.NewFormatter"

LogsDecorated ==
  Instrumented => LET list == body[Decl] IN
    \A i \in DOMAIN list :
      /\ MakesLogger(list[i]) =>
           ToSet(list[i].args) \cap HandlersBefore(list, i) = {}
      /\ IsEntry(list, i) => FormatterWraps(list, i)

(* Violated: "InstrumentHttpClient automatically injects a newrelic        *)
(* roundtripper into any newly created http client" (nrnethttp/http.go).   *)
NeverPanics == ~crashed
=============================================================================
