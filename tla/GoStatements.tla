---------------------------- MODULE GoStatements ----------------------------
(***************************************************************************)
(* The statements the integrations read and write, and the constructors of *)
(* internal/codegen and of the codegen.go of each integration.             *)
(*                                                                         *)
(* A statement says what the tool tells apart: the function it calls, the  *)
(* receiver, the names it binds and the names it reads.  Layout, segment   *)
(* names and literals without effect on the edits are left out.  A         *)
(* function of a package is named with the package, a method without.      *)
(***************************************************************************)
EXTENDS Naturals, Sequences, SequencesExt

CONSTANTS Block,   \* blocks of a declaration: its body, literals, nested ones
          NoBlock  \* a statement without a block in it

None == "none"     \* no receiver, no nested call, no literal

(* What generated code spells: functions, methods, variables, literals.    *)
(* They are strings, which the provers have to be told.                    *)
Spelled ==
  {None, "nrTxn", "ctx", "err", "config", "agentInitError", "externalSegment",
   "NewRelicAgent", "End", "Shutdown", "Use", "Context", "StartTransaction",
   "StartSegment", "newrelic.NewApplication", "newrelic.NewContext",
   "newrelic.FromContext", "newrelic.StartExternalSegment",
   "newrelic.RequestWithTransactionContext", "newrelic.NewRoundTripper",
   "newrelic.WrapHandleFunc", "newrelic.WrapHandle", "nrgin.Transaction",
   "nrgin.Middleware", "nrecho4.FromContext", "nrecho4.Middleware",
   "nrecho3.FromContext", "nrecho3.Middleware", "nrgochi.Middleware",
   "nrgrpc.UnaryClientInterceptor", "nrgrpc.StreamClientInterceptor",
   "nrgrpc.UnaryServerInterceptor", "nrgrpc.StreamServerInterceptor",
   "nrpq", "QueryRowContext", "QueryContext", "ExecContext",
   "pgx.ParseConfig", "pgx.ConnectConfig", "pgxpool.ParseConfig",
   "pgxpool.NewWithConfig", "nrpgx5.NewTracer", "nrslog.WrapHandler",
   "nrlogrus.NewFormatter", "logrus.TextFormatter", "SetFormatter",
   "logrus.SetFormatter"}

ASSUME SpelledAssumption == Spelled \subseteq STRING

(* id is the position in the user's source, 0 for a generated statement;   *)
(* nested is the function called in the first argument (or result), whose  *)
(* own arguments are then listed in args; opts are calls appended to the   *)
(* arguments; field marks x.F = ....                                       *)
Statement ==
  [id : Nat, form : {"assign", "var", "expr", "return", "if", "defer", "for"},
   fun : STRING, recv : STRING, lhs : Seq(STRING),
   tok : {"define", "assign", "none"}, field : BOOLEAN,
   lit : STRING, args : Seq(STRING), nested : STRING,
   opts : Seq([fun : STRING, args : Seq(STRING)]),
   inner : Block \cup {NoBlock}]

Blank == [id |-> 0, form |-> "expr", fun |-> None, recv |-> None,
          lhs |-> << >>, tok |-> "none", field |-> FALSE, lit |-> None,
          args |-> << >>, nested |-> None, opts |-> << >>, inner |-> NoBlock]

Call(f, args)      == [Blank EXCEPT !.fun = f, !.args = args]
Method(r, m, args) == [Call(m, args) EXCEPT !.recv = r]
Define(names, s)   == [s EXCEPT !.form = "assign", !.lhs = names,
                                !.tok = "define"]
Assign(names, s)   == [Define(names, s) EXCEPT !.tok = "assign"]
SetField(x, s)     == [Assign(<<x>>, s) EXCEPT !.field = TRUE]

Binds(s) == IF s.tok = "define" THEN ToSet(s.lhs) \ {"_"} ELSE {}
Reads(s) == (ToSet(s.args) \cup {s.recv}
              \cup UNION {ToSet(s.opts[i].args) : i \in DOMAIN s.opts}
              \cup IF s.tok = "assign" THEN ToSet(s.lhs) ELSE {}) \ {None, "_"}
Mentions(s) == Reads(s) \cup ToSet(s.lhs)

-----------------------------------------------------------------------------
(* Statement lists.                                                        *)

IndexOfId(list, id) == CHOOSE i \in DOMAIN list : list[i].id = id

(* PrependStatementToFunctionDecl, PrependStatementToFunctionLit and the   *)
(* loops of the DefineTxnFrom... functions.                                *)
PrependStatement(list, s) == <<s>> \o list

InsertBefore(list, id, s) == InsertAt(list, IndexOfId(list, id), s)
InsertAfter(list, id, s)  == InsertAt(list, IndexOfId(list, id) + 1, s)
ReplaceById(list, id, s)  == ReplaceAt(list, IndexOfId(list, id), s)

-----------------------------------------------------------------------------
(* internal/codegen                                                        *)

DefaultTransactionVariable == "nrTxn"
DefaultContextParameter    == "ctx"

EndTransaction(txn) == Method(txn, "End", << >>)

StartTransaction(agent, txn, overwrite) ==
  LET start == Method(agent, "StartTransaction", << >>)
  IN  IF overwrite THEN Assign(<<txn>>, start) ELSE Define(<<txn>>, start)

TxnFromContext(txn, context) ==
  Define(<<txn>>, [Call("newrelic.FromContext", <<context.recv>>)
                     EXCEPT !.nested = context.fun])
HttpRequestContext(request) == Method(request, "Context", << >>)

DeferSegment(txn) ==
  [Method(txn, "StartSegment", << >>) EXCEPT !.form = "defer"]

StartExternalSegment(request, txn, segment) ==
  Define(<<segment>>, Call("newrelic.StartExternalSegment", <<txn, request>>))
EndExternalSegment(segment) == Method(segment, "End", << >>)
CaptureHttpResponse(segment, response) ==
  SetField(segment, [Blank EXCEPT !.args = <<response>>])

-----------------------------------------------------------------------------
(* nragent                                                                 *)

AgentErrorVariableName == "agentInitError"

PanicOnError(error) == [Blank EXCEPT !.form = "if", !.args = <<error>>]
InitializeAgent(agent) ==
  <<Define(<<agent, AgentErrorVariableName>>,
           Call("newrelic.NewApplication", << >>)),
    PanicOnError(AgentErrorVariableName)>>
ShutdownAgent(agent) == Method(agent, "Shutdown", << >>)

-----------------------------------------------------------------------------
(* Web frameworks, gRPC and net/http.                                      *)

Use(router, middleware, agent) ==
  [Method(router, "Use", <<agent>>) EXCEPT !.nested = middleware]

NrGinMiddleware(router, agent)  == Use(router, "nrgin.Middleware", agent)
NrEchoMiddleware(v, router, agent) ==
  Use(router, IF v = 4 THEN "nrecho4.Middleware" ELSE "nrecho3.Middleware",
      agent)
NrChiMiddleware(router, agent)  == Use(router, "nrgochi.Middleware", agent)

TxnFromGinContext(txn, ctx) ==
  Define(<<txn>>, Call("nrgin.Transaction", <<ctx>>))
TxnFromEchoContext(v, txn, ctx) ==
  Define(<<txn>>, Call(IF v = 4 THEN "nrecho4.FromContext"
                                ELSE "nrecho3.FromContext", <<ctx>>))

(* Options for the call that makes a client or a server; only those of a   *)
(* server read the agent.                                                  *)
NrGrpcUnaryClientInterceptor ==
  [fun |-> "nrgrpc.UnaryClientInterceptor", args |-> << >>]
NrGrpcStreamClientInterceptor ==
  [fun |-> "nrgrpc.StreamClientInterceptor", args |-> << >>]
NrGrpcUnaryServerInterceptor(agent) ==
  [fun |-> "nrgrpc.UnaryServerInterceptor", args |-> <<agent>>]
NrGrpcStreamServerInterceptor(agent) ==
  [fun |-> "nrgrpc.StreamServerInterceptor", args |-> <<agent>>]
GrpcStreamContext(stream) == Method(stream, "Context", << >>)

(* newrelic.WrapHandleFunc(agent, pattern, handler) becomes the only       *)
(* argument, so that a second pass does not find two.                      *)
WrapHttpHandleFunc(agent, call) ==
  [call EXCEPT !.nested = "newrelic.WrapHandleFunc", !.args = <<agent>> \o @]
WrapHttpHandle(agent, call) ==
  [call EXCEPT !.nested = "newrelic.WrapHandle", !.args = <<agent>> \o @]

RoundTripper(client) ==
  SetField(client, Call("newrelic.NewRoundTripper", <<client>>))
WrapRequestContext(request, txn) ==
  Assign(<<request>>, Call("newrelic.RequestWithTransactionContext",
                           <<request, txn>>))

-----------------------------------------------------------------------------
(* Databases and loggers.                                                  *)

CreateContextWithTransaction(txn) ==
  Define(<<DefaultContextParameter>>, Call("newrelic.NewContext", <<txn>>))

ConfigVar == "config"

CreateParseConfig(connStr, pkg) ==
  Define(<<ConfigVar, "err">>,
         Call(IF pkg = "pgx" THEN "pgx.ParseConfig" ELSE "pgxpool.ParseConfig",
              <<connStr>>))
NewTracerCall          == Call("nrpgx5.NewTracer", << >>)
CreateTracerAssignment == SetField(ConfigVar, NewTracerCall)
CreateConnectWithConfig(name, ctx, pkg) ==
  Define(<<name, "err">>,
         Call(IF pkg = "pgx" THEN "pgx.ConnectConfig"
                             ELSE "pgxpool.NewWithConfig", <<ctx, ConfigVar>>))

(* The name of the agent is fixed here, whatever the manager found.        *)
SlogHandlerWrapper(handler, nrHandler) ==
  Define(<<nrHandler>>,
         Call("nrslog.WrapHandler", <<"NewRelicAgent", handler>>))

WrapWithNewFormatter(call, agent) ==
  [call EXCEPT !.nested = "nrlogrus.NewFormatter", !.args = <<agent>> \o @]
DefaultTextFormatter(call) == [call EXCEPT !.lit = "logrus.TextFormatter"]
LoggerSetFormatter(logger) == Method(logger, "SetFormatter", << >>)
PackageSetFormatter        == Call("logrus.SetFormatter", << >>)
DefaultSetFormatterStmt(fun, agent) ==
  WrapWithNewFormatter(DefaultTextFormatter(fun), agent)
=============================================================================
