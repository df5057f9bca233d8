----------------------- MODULE MCInstrumentDeclaration -----------------------
(***************************************************************************)
(* Declarations small enough to enumerate: a main or a function with at    *)
(* most a literal, a second literal, a nested block and the Init of an if. *)
(***************************************************************************)
EXTENDS InstrumentDeclaration

MCBlock       == {"body", "lit", "if", "init"}
MCHandlerName == {"h", "g"}
MCNRName      == [h |-> "NRh", g |-> "NRg"]

Base == [body |-> 0, lit |-> 20, if |-> 40, init |-> 60]
Number(b, list) == [i \in DOMAIN list |-> [list[i] EXCEPT !.id = Base[b] + i]]

(* A program from its statements; ids are positions.                       *)
Program(form, params, text) ==
  [form |-> form,
   kinds |-> [body |-> "decl", lit |-> "lit", if |-> "ctl", init |-> "init"],
   params |-> [body |-> params, lit |-> << >>, if |-> << >>, init |-> << >>],
   body |-> [b \in MCBlock |-> IF b \in DOMAIN text THEN Number(b, text[b])
                                                    ELSE << >>],
   calls |-> {"f"}, served |-> FALSE, wrapped |-> FALSE, setup |-> None,
   agent |-> "NewRelicAgent"]

InMain(text)           == Program("main", << >>, text)
InFunc(params, text)   == Program("func", params, text)
Body(list)             == [body |-> list]
LitParams(p, params)   == [p EXCEPT !.params["lit"] = params]

P(type, name) == [type |-> type, name |-> name]
HttpParams    == <<P("writer", "w"), P("request", "r")>>

(* Statements of the user.                                                 *)
F              == Call("f", << >>)
If(b)          == [Blank EXCEPT !.form = "if", !.inner = b]
NewRequest     == Define(<<"req", "err">>, Call("http.NewRequest", << >>))
Do             == Define(<<"resp", "err">>, Call("http.DefaultClient.Do", <<"req">>))
Client         == [Define(<<"client">>, Blank) EXCEPT !.lit = "&http.Client{}"]
ClientDo       == Define(<<"resp", "err">>,
                         Method("client", "http.Client.Do", <<"req">>))
Router(f)      == Define(<<"e">>, Call(f, << >>))
Route(verb)    == [Method("e", verb, << >>) EXCEPT !.lit = "route"]
RouteLit(verb) == [Route(verb) EXCEPT !.inner = "lit"]
OwnUse(mw)     == [Method("e", "Use", <<"app">>) EXCEPT !.nested = mw]
OwnAgent       == Define(<<"app", "err">>, Call("newrelic.NewApplication", << >>))
SetupCall      == Define(<<"app">>, Call("setup", << >>))

(* Who makes the agent: the tool, main itself, a setup function.           *)
WithAgent(p, agent) ==
  CASE agent = "none"  -> p
    [] agent = "own"   -> [p EXCEPT !.body["body"] =
                             <<[OwnAgent EXCEPT !.id = 19]>> \o @]
    [] agent = "setup" -> [p EXCEPT !.body["body"] =
                             <<[SetupCall EXCEPT !.id = 19]>> \o @,
                             !.setup = "setup"]
Agents == {"none", "own", "setup"}

(* Web frameworks.                                                         *)
Frameworks ==
  {[new |-> "gin.Default", mw |-> "nrgin.Middleware", verb |-> "GET",
    params |-> <<P("gin", "c")>>],
   [new |-> "echo4.New", mw |-> "nrecho4.Middleware", verb |-> "GET",
    params |-> <<P("echo4", "c")>>],
   [new |-> "echo3.New", mw |-> "nrecho3.Middleware", verb |-> "GET",
    params |-> <<P("echo3", "c")>>],
   [new |-> "chi.NewRouter", mw |-> None, verb |-> "Get",
    params |-> HttpParams]}

Outbound == {<< >>, <<NewRequest, Do>>, <<NewRequest, Client, ClientDo>>}

WebMains ==
  {WithAgent(LitParams(InMain([body |-> first \o <<Router(w.new)>>
                                   \o <<RouteLit(w.verb), Route(w.verb)>>,
                               lit |-> lit]), w.params), agent) :
     w \in Frameworks, first \in {<< >>, <<F>>}, lit \in Outbound,
     agent \in Agents}
  \cup
  {WithAgent(LitParams(InMain([body |-> <<Router(w.new), OwnUse(w.mw),
                                          Route(w.verb)>>]), w.params), "own") :
     w \in {x \in Frameworks : x.mw # None}}
  \cup
  {WithAgent(LitParams(InMain([body |-> <<Router(w.new), Method("e", "Use", << >>),
                                          OwnUse(w.mw), Route(w.verb)>>]),
                       w.params), "own") :
     w \in {x \in Frameworks : x.mw # None}}

OwnTxn(w) == CASE w.new = "gin.Default" -> "nrgin.Transaction"
               [] w.new = "echo4.New"   -> "nrecho4.FromContext"
               [] w.new = "echo3.New"   -> "nrecho3.FromContext"
               [] OTHER                 -> "newrelic.Now"

HandlerBodies == Outbound \cup {<<F, F>>, <<If("if"), F>>}
Handlers ==
  {[InFunc(w.params, [body |-> list, if |-> <<F>>]) EXCEPT !.wrapped = wrapped] :
     w \in Frameworks, list \in HandlerBodies,
     wrapped \in {FALSE}}
  \cup
  {InFunc(w.params, Body(<<Define(<<"txn">>, Call(OwnTxn(w), <<"c">>)), F>>)) :
     w \in {x \in Frameworks : x.mw # None}}
  \cup {[InFunc(HttpParams, Body(<<Blank>>)) EXCEPT !.wrapped = TRUE]}

(* A literal that is a handler inside of a declared one.                   *)
NestedHandlers ==
  {LitParams(InFunc(<<P("gin", "c")>>,
               [body |-> <<[Define(<<"h">>, Blank) EXCEPT !.inner = "lit"], F>>,
                lit |-> <<NewRequest, Do>>]), <<P("gin", "d")>>)}

(* gRPC.                                                                   *)
GrpcParams == {<<P("context", "ctx"), P("other", "in")>>,
               <<P("other", "in"), P("stream", "s")>>,
               <<P("context", "ctx"), P("stream", "s")>>, <<P("other", "in")>>}
GrpcMethods ==
  {[InFunc(params, Body(list)) EXCEPT !.served = served] :
     params \in GrpcParams, served \in BOOLEAN,
     list \in {<<F>>, << >>, <<NewRequest, Do>>}}
  \cup
  {[InFunc(<<P("context", "ctx")>>, Body(<<Call("f", <<"ctx">>)>> \o more))
      EXCEPT !.served = TRUE] : more \in {<< >>, <<F>>}}
GrpcMains ==
  {WithAgent(InMain(Body(first \o
     <<Define(<<"conn", "err">>, Call("grpc.Dial", << >>)),
       Define(<<"srv">>, Call("grpc.NewServer", << >>)),
       Method("conn", "Close", << >>), Call("pb.Register", <<"srv">>)>>)), agent) :
     first \in {<< >>, <<F>>}, agent \in Agents}

(* net/http in main: routes and clients; a client in a nested block.       *)
HttpMains ==
  {WithAgent(InMain([body |-> list, if |-> <<Client, NewRequest>>]), agent) :
     list \in {<<Call("http.HandleFunc", << >>), F>>,
               <<F, Method("mux", "http.ServeMux.Handle", << >>), F>>,
               <<If("if"), F>>, <<F, If("if")>>},
     agent \in Agents}
  \cup
  {WithAgent(InMain(Body(<<Client, F>>)), agent) : agent \in {"own", "setup"}}
  \cup
  {InMain([body |-> <<F, If("if")>>, if |-> <<F>>]),
   InMain([body |-> <<If("init")>>, init |-> <<Define(<<"x">>, F)>>])}
HttpMainsWithMux ==
  {[p EXCEPT !.body["body"] =
      <<[Define(<<"mux">>, Call("http.NewServeMux", << >>)) EXCEPT !.id = 18]>>
        \o @] : p \in HttpMains}

(* Databases.                                                              *)
Open(driver, db) == [Define(<<db, "err">>, Call("sql.Open", << >>))
                       EXCEPT !.lit = driver]
Query(m, lhs)    == Define(lhs, Method("db", m, << >>))
Scan             == Method("row", "Scan", << >>)
Databases ==
  {Program(form, << >>, [body |-> <<Open(driver, db)>> \o list, if |-> <<Scan>>]) :
     form \in {"main", "func"}, driver \in {"postgres", "nrpq", "mysql"},
     db \in {"db"},
     list \in {<<Query("QueryRow", <<"row">>), Scan, Blank>>,
               <<Blank, Query("Query", <<"row", "err">>), Blank, If("if"), Blank>>,
               <<Query("Exec", <<"_", "qerr">>), Blank>>, <<Blank>>,
               <<Query("QueryRow", <<"row">>), Scan, Query("Exec", <<"res", "err">>)>>}}
  \cup {InMain(Body(<<Open("postgres", "_"), Blank>>))}
Connect(f, x) == Define(<<x, "err">>, Call(f, <<None, None>>))
Pgx(list) == [body |-> list, lit |-> list]
Connections ==
  {Program(form, << >>, [body |-> list]) :
     form \in {"main", "func"},
     list \in {<<Connect(f, "conn"), Method("conn", "Close", << >>)>> :
                 f \in {"pgx.Connect", "pgxpool.New"}}
        \cup {<<Define(<<"config", "err">>, Call("pgx.ParseConfig", << >>)),
                SetField("config", Call("nrpgx5.NewTracer", << >>)),
                Define(<<"conn", "err">>, Call("pgx.ConnectConfig", <<None, "config">>))>>}}
  \cup
  {InFunc(<< >>, [body |-> <<Connect("pgx.Connect", "conn"),
                             [Define(<<"g">>, Blank) EXCEPT !.inner = "lit"]>>,
                  lit |-> <<Connect("pgxpool.New", "pool"),
                            Method("pool", "Close", << >>)>>])}

(* Loggers.                                                                *)
Handler(x)   == Define(<<x>>, Call("slog.NewTextHandler", << >>))
NewLogger(x) == Define(<<"logger">>, Call("slog.New", <<x>>))
SetDefault(x) == [Call("slog.SetDefault", <<x>>) EXCEPT !.nested = "slog.New"]
LogrusNew    == Define(<<"log">>, Call("logrus.New", << >>))
LogrusVar    == [Call("logrus.New", << >>) EXCEPT !.form = "var", !.lhs = <<"log">>]
Formatter    == [Method("log", "SetFormatter", << >>) EXCEPT !.lit = "json"]
PkgFormatter == [Call("logrus.SetFormatter", << >>) EXCEPT !.lit = "json"]
Wrapped(s, agent) == [s EXCEPT !.nested = "nrlogrus.NewFormatter",
                               !.args = <<agent>>]
Info         == Method("log", "Info", << >>)
PkgInfo      == Call("logrus.Info", << >>)
SlogMains ==
  {InMain(Body(list)) :
     list \in {<<Handler("h"), NewLogger("h")>>, <<Handler("h"), SetDefault("h")>>,
               <<Handler("h"), Handler("g"), SetDefault("h"), NewLogger("g")>>,
               <<Handler("h"), Blank, [Call("slog.New", <<"h">>) EXCEPT
                                         !.form = "return"]>>}}
LogrusMains ==
  {WithAgent(InMain(Body(list)), agent) :
     agent \in Agents,
     list \in {<<LogrusNew, Info>>, <<LogrusVar, Info>>,
               <<LogrusNew, Formatter, Info>>, <<LogrusVar, Blank, Formatter, Info>>,
               <<Blank, PkgInfo, PkgInfo>>, <<PkgFormatter, PkgInfo>>,
               <<LogrusNew, PkgFormatter, PkgInfo, Info>>,
               <<LogrusNew, Formatter, Info, Assign(<<"log">>, LogrusNew), Info>>}}
  \cup
  {WithAgent(InMain(Body(list)), "own") :
     list \in {<<LogrusNew, Wrapped(Formatter, "app"), Info>>,
               <<Wrapped(PkgFormatter, "app"), PkgInfo>>}}

SupportedProgs == WebMains \cup Handlers \cup NestedHandlers \cup GrpcMethods
                    \cup GrpcMains \cup HttpMainsWithMux \cup Databases
                    \cup Connections \cup SlogMains \cup LogrusMains

(* Beyond what the tool supports.                                          *)
ClientProgs ==
  {WithAgent(InMain([body |-> list, if |-> <<Client, NewRequest, ClientDo>>]),
             agent) :
     list \in {<<Client, F>>, <<If("if")>>}, agent \in {"none", "own"}}

NestedCallProgs ==
  {InMain([body |-> <<If("if"), F>>, if |-> <<F>>])}
=============================================================================
