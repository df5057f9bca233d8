--------------------------- MODULE WebIntegrations ---------------------------
(***************************************************************************)
(* What the web, gRPC and net/http integrations recognise in a program.    *)
(*                                                                         *)
(* A parameter is [type, name], one name per field.  A body maps each      *)
(* block of a declaration to its statements; blocks are the declaration's  *)
(* own ("decl"), a function literal ("lit"), a nested block ("ctl") and    *)
(* the Init of an if ("init"), whose statement is in no list.              *)
(***************************************************************************)
EXTENDS GoStatements

ParamType == {"gin", "echo4", "echo3", "writer", "request", "stream",
              "context", "other"}
Param     == [type : ParamType, name : STRING]
BlockKind == {"decl", "lit", "ctl", "init"}

(* The single right-hand side of an assignment calls one of funs.          *)
AssignsCall(s, funs) == s.form = "assign" /\ s.recv = None /\ s.fun \in funs

(* Name bound to a new router; the code asserts that the target is an      *)
(* identifier and panics when it is a field (RouterPanics).                *)
GinMiddlewareCall(s)  == AssignsCall(s, {"gin.Default", "gin.New"})
EchoMiddlewareCall(v, s) ==
  AssignsCall(s, {IF v = 4 THEN "echo4.New" ELSE "echo3.New"})
GetChiRouterName(s)   == AssignsCall(s, {"chi.NewRouter"})
RouterPanics(s)       == s.field

IsUse(s) == s.form = "expr" /\ s.recv # None /\ s.fun = "Use"

(* Faulty: looks at the statement after the router only.                   *)
NextIsGinMiddleware(list, i) ==
  i < Len(list) /\ IsUse(list[i + 1])
                /\ list[i + 1].nested = "nrgin.Middleware"

(* The receiver is not compared: the middleware of any router counts.      *)
HasExistingGinMiddleware(list, i) ==
  \E j \in i + 1 .. Len(list) :
    IsUse(list[j]) /\ list[j].nested = "nrgin.Middleware"

(* Without type information a selector .Middleware of any package counts.  *)
IsNrechoMiddlewareStmt(v, s) ==
  IsUse(s) /\ s.nested \in {IF v = 4 THEN "nrecho4.Middleware"
                                     ELSE "nrecho3.Middleware",
                            "selector.Middleware"}
HasExistingEchoMiddleware(v, kind, list, i) ==
  kind \in {"decl", "lit", "ctl"}
    /\ \E j \in i + 1 .. Len(list) : IsNrechoMiddlewareStmt(v, list[j])

(* Somewhere in the declaration, its literals included.                    *)
AssignedIn(body, fun) ==
  \E b \in Block : \E i \in DOMAIN body[b] : AssignsCall(body[b][i], {fun})
HasExistingGinTransaction(body)     == AssignedIn(body, "nrgin.Transaction")
HasExistingEchoTransaction(v, body) ==
  AssignedIn(body, IF v = 4 THEN "nrecho4.FromContext"
                            ELSE "nrecho3.FromContext")

(* Name of the context of a handler, None if this is no handler.           *)
OnlyParam(params, type) ==
  IF Len(params) = 1 /\ params[1].type = type THEN params[1].name ELSE None
GetGinContextFromHandler(params)     == OnlyParam(params, "gin")
GetEchoContextFromHandler(v, params) ==
  OnlyParam(params, IF v = 4 THEN "echo4" ELSE "echo3")

DefineTxnFromGinCtx(list, ctx) ==
  PrependStatement(list, TxnFromGinContext(DefaultTransactionVariable, ctx))
DefineTxnFromEchoCtx(v, list, ctx) ==
  PrependStatement(list,
                   TxnFromEchoContext(v, DefaultTransactionVariable, ctx))

-----------------------------------------------------------------------------
(* Chi: routes whose handler is a literal, in either spelling of the verb. *)

ChiMethods == {"Get", "Post", "Put", "Delete", "Head", "Options", "Trace",
               "Connect", "Patch", "GET", "POST", "PUT", "DELETE", "HEAD",
               "OPTIONS", "TRACE", "CONNECT", "PATCH"}

GetChiHTTPMethod(s) == s.form = "expr" /\ s.recv # None /\ s.fun \in ChiMethods
GetChiHTTPHandlerRouteName(s, kinds) ==
  s.lit = "route" /\ s.inner # NoBlock /\ kinds[s.inner] = "lit"

GetHTTPRequestArgName(params) ==
  LET R == {i \in DOMAIN params : params[i].type = "request"}
  IN  IF R = {} THEN None
      ELSE params[CHOOSE i \in R : \A j \in R : i <= j].name

-----------------------------------------------------------------------------
(* gRPC                                                                    *)

CallsGrpc(s, fun) == s.form \in {"assign", "expr"} /\ s.recv = None
                                                   /\ s.fun = fun
GrpcDialCall(s)      == CallsGrpc(s, "grpc.Dial")
GrpcNewServerCall(s) == CallsGrpc(s, "grpc.NewServer")

LastOf(params, type) ==
  LET P == {i \in DOMAIN params : params[i].type = type}
  IN  IF P = {} THEN None
      ELSE params[CHOOSE i \in P : \A j \in P : j <= i].name

(* A stream is preferred to a context: its transaction is assigned by the  *)
(* caller, the one in a context by the trace object.                       *)
GetTxnFromGrpcServer(params) ==
  LET stream  == LastOf(params, "stream")
      context == LastOf(params, "context")
  IN  CASE stream # None  -> [object |-> "txn", owner |-> stream]
        [] context # None -> [object |-> "ctx", owner |-> context]
        [] OTHER          -> [object |-> "none", owner |-> None]

(* FindGrpcServerObject recorded the type of the receiver.                 *)
IsGrpcServerMethod(decl) == decl.served

-----------------------------------------------------------------------------
(* net/http                                                                *)

(* "http.X" is a function of net/http or a method of one of its types.     *)
GetNetHttpMethod(s) ==
  CASE s.fun \in {"http.Client.Do", "http.DefaultClient.Do"}   -> "Do"
    [] s.fun \in {"http.HandleFunc", "http.ServeMux.HandleFunc"} -> "HandleFunc"
    [] s.fun \in {"http.Handle", "http.ServeMux.Handle"}         -> "Handle"
    [] OTHER                                                     -> None
GetNetHttpClientVariableName(s) ==
  IF s.fun = "http.DefaultClient.Do" THEN "DefaultClient" ELSE None

IsHTTPResponseWriter(param) == param.type = "writer"
IsHTTPRequest(param)        == param.type = "request"
IsHTTPHandler(params) ==
  Len(params) = 2 /\ IsHTTPResponseWriter(params[1]) /\ IsHTTPRequest(params[2])

GetHTTPRequestArgNameDecl(params) ==
  IF IsHTTPHandler(params) THEN params[2].name ELSE None

DefineTxnFromCtx(list, params) ==
  LET request == GetHTTPRequestArgNameDecl(params)
  IN  IF request = None THEN list
      ELSE PrependStatement(list,
             TxnFromContext(DefaultTransactionVariable,
                            HttpRequestContext(request)))

IsNetHttpClientDefinition(s) ==
  s.tok = "define" /\ Len(s.lhs) = 1 /\ s.lit = "&http.Client{}"

(* dst.Inspect of a statement stops at blocks: of a nested statement it    *)
(* sees the Init of an if, not its body nor a literal.                     *)
Inspected(body, kinds, s) ==
  IF s.inner # NoBlock /\ kinds[s.inner] = "init"
  THEN <<s>> \o body[s.inner] ELSE <<s>>

(* Inspect goes on behind a call it has found: the last one is kept.       *)
LastHttp(list, methods) ==
  LET M == {i \in DOMAIN list : GetNetHttpMethod(list[i]) \in methods}
  IN  IF M = {} THEN Blank ELSE list[CHOOSE i \in M : \A j \in M : j <= i]

(* The first variable of the call's assignment is the *http.Response.      *)
GetHttpResponseVariable(call) ==
  IF call.form = "assign" THEN call.lhs[1] ELSE None
=============================================================================
