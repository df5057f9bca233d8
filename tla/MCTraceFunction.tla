-------------------------- MODULE MCTraceFunction --------------------------
(***************************************************************************)
(* Applications small enough to enumerate: main, a handler h, functions f  *)
(* and g, a function literal l, a setup function, a function user with a   *)
(* transaction of its own, and lib, which the application does not declare. *)
(***************************************************************************)
EXTENDS TraceFunction

MCFn   == {"main", "h", "f", "g", "l", "setup", "user", "lib"}
MCPkg  == {"p1", "p2"}
MCName == MCFn
MCErrVar == {"e1", "e2"}
MCSite == {"main-f", "main-l", "main-setup", "main-user", "f-g", "f-l",
           "f-lib", "f-f", "l-g", "h-f", "h-g", "g-f", "user-g"}

CallTo == [s \in MCSite |->
             CASE s \in {"main-f", "h-f", "f-f", "g-f"}    -> "f"
               [] s \in {"f-g", "l-g", "h-g", "user-g"}   -> "g"
               [] s \in {"main-l", "f-l"}                -> "l"
               [] s = "main-setup"                       -> "setup"
               [] s = "main-user"                        -> "user"
               [] s = "f-lib"                            -> "lib"]

(* Nodes.                                                                  *)
Stmt(kind, calls) ==
  [kind |-> kind, calls |-> calls, outer |-> "main-f", lit |-> NoFn,
   listed |-> TRUE, err |-> NoErr, checks |-> FALSE, http |-> FALSE]
Call(s)         == Stmt("other", <<s>>)
GoCall(s)       == [Stmt("go", <<s>>) EXCEPT !.outer = s]
GoLiteral(s)    == [Stmt("golit", << >>) EXCEPT !.outer = s, !.lit = "l"]
AssignLiteral   == [Stmt("litassign", << >>) EXCEPT !.lit = "l"]
HttpCall        == [Stmt("assign", << >>) EXCEPT !.http = TRUE]
Unlisted(n)     == [n EXCEPT !.listed = FALSE]

Nothing == [f \in MCFn |-> << >>]

App ==
  [lits |-> {"l"}, pkg |-> [f \in MCFn |-> "p1"], name |-> [f \in MCFn |-> f],
   param |-> [f \in MCFn |-> IF f = "h" THEN "handler" ELSE "none"],
   body |-> Nothing,
   decls |-> [p \in MCPkg |-> << >>],
   to |-> CallTo, arg |-> [s \in MCSite |-> "none"],
   mains |-> {"main"}, creates |-> {}, wrapped |-> {}, hasTxn |-> {},
   inTxn |-> {}]

(***************************************************************************)
(* The supported applications: acyclic calls, every caller reachable, the  *)
(* setup function first in its file.                                       *)
(***************************************************************************)
BodiesOfF ==
  {<< >>, <<Call("f-g")>>, <<GoCall("f-lib"), GoCall("f-g")>>,
   <<HttpCall, Call("f-g")>>,
   <<Call("f-g"), Unlisted(Call("f-g"))>>,
   <<GoLiteral("f-l")>>, <<AssignLiteral, Call("f-l")>>}

(* The main: with the agent still to come, with its own, or with a setup   *)
(* function.                                                               *)
Agents == {"none", "main", "setup"}
BodyOfMain(agent) ==
  IF agent = "setup" THEN <<Call("main-setup"), Call("main-f")>>
                     ELSE <<Call("main-f")>>

Layout == [gIn : MCPkg, mainFirst : BOOLEAN]

Declarations(layout) ==
  LET first == IF layout.mainFirst THEN <<"setup", "main", "h", "f">>
                                   ELSE <<"f", "h", "setup", "main">>
  IN  [p \in MCPkg |-> (IF p = "p1" THEN first ELSE << >>) \o
                       (IF p = layout.gIn THEN <<"g">> ELSE << >>)]

Propagation(fBody, lBody, hBody, agent, layout, ctx, given) ==
  [App EXCEPT
     !.body   = [Nothing EXCEPT !["main"] = BodyOfMain(agent), !["f"] = fBody,
                                !["l"] = lBody, !["h"] = hBody],
     !.decls  = Declarations(layout),
     !.pkg    = [f \in MCFn |-> IF f = "g" THEN layout.gIn ELSE "p1"],
     !.param  = [f \in MCFn |-> IF f \in ctx THEN "ctx"
                                ELSE IF f = "h" THEN "handler" ELSE "none"],
     !.arg    = [s \in MCSite |-> IF CallTo[s] \in ctx THEN given ELSE "none"],
     !.creates = {agent} \ {"none"}]

(* A literal called through its variable is supported only where an agent  *)
(* was found before the literal's function is traced.                      *)
SupportedLiteral(a, layout) ==
  (\E i \in DOMAIN a.body["f"] : a.body["f"][i].kind = "litassign")
    => a.creates # {} /\ layout.mainFirst

(* A call that is visited twice is supported when no context is involved.  *)
Revisits(body) == \E i \in DOMAIN body : ~body[i].listed

LiteralBodies(fb) == IF \E i \in DOMAIN fb : fb[i].lit = "l"
                     THEN {<< >>, <<HttpCall, Call("l-g")>>} ELSE {<< >>}

SupportedApps ==
  UNION {{a \in {Propagation(fb, lb, hb, agent, layout, ctx, given) :
                   lb \in LiteralBodies(fb),
                   hb \in {<<Call("h-f")>>, <<GoCall("h-g")>>},
                   agent \in Agents, given \in {"own", "other"},
                   ctx \in SUBSET {"f", "g"}} :
             /\ SupportedLiteral(a, layout)
             /\ Revisits(fb) => {a.param["f"], a.param["g"]} = {"none"}} :
         fb \in BodiesOfF, layout \in Layout}

(* Applications with code the tool must leave alone: a goroutine of main,  *)
(* a handler wrapped by the user, and a function with a transaction in     *)
(* whose scope g is called.                                                *)
UntouchedApps ==
  {[App EXCEPT
      !.body    = [Nothing EXCEPT !["main"] = <<GoLiteral("main-l"),
                                                Call("main-f")>>,
                                  !["f"] = <<Call("f-g"), HttpCall>>,
                                  !["h"] = hBody,
                                  !["user"] = <<Call("user-g")>>],
      !.decls   = [p \in MCPkg |-> IF p = "p1"
                                   THEN <<"main", "f", "g", "h", "user">>
                                   ELSE << >>],
      !.wrapped = w, !.hasTxn = {"user"}, !.inTxn = {"g"}] :
     hBody \in {<<HttpCall>>, <<Call("h-g")>>}, w \in {{}, {"h"}}}

PropagationApps == SupportedApps \cup UntouchedApps

-----------------------------------------------------------------------------
(* Applications with errors.  The handler h calls f, f calls g; the items  *)
(* of a body assign, check and return errors in any order.                 *)
Assign(e)       == [Stmt("assign", << >>) EXCEPT !.err = e]
AssignCall(s, e) == [Stmt("assign", <<s>>) EXCEPT !.err = e]
Check           == [Stmt("if", << >>) EXCEPT !.checks = TRUE]
CheckInit(c, e) == [Stmt("if", c) EXCEPT !.checks = TRUE, !.err = e]
Return(e)       == [Stmt("return", << >>) EXCEPT !.err = e]
ReturnCall(c)   == [Stmt("return", c) EXCEPT !.checks = TRUE]

(* if err := ...; err != nil gives the if statement and its Init.          *)
IfInit(c, e) == <<CheckInit(c, e), Unlisted([Stmt("assign", c) EXCEPT !.err = e])>>

OwnItems  == {<<Assign("e1")>>, <<Assign("e2")>>, <<Check>>,
              IfInit(<< >>, "e2"), <<Return("e1")>>, <<ReturnCall(<< >>)>>}
CallItems == {<<Call("f-g")>>, <<AssignCall("f-g", "e1")>>,
              IfInit(<<"f-g">>, "e2"), <<ReturnCall(<<"f-g">>)>>}
ItemsOfG == {<< >>, <<Assign("e1")>>, <<Check>>, <<ReturnCall(<< >>)>>}

ErrorApp(hBody, fBody, gBody) ==
  [App EXCEPT
     !.body  = [Nothing EXCEPT !["h"] = hBody, !["f"] = fBody, !["g"] = gBody],
     !.decls = [p \in MCPkg |-> IF p = "p1" THEN <<"h", "f">> ELSE <<"g">>],
     !.pkg   = [App.pkg EXCEPT !["g"] = "p2"],
     !.mains = {}]

ErrorApps ==
  {ErrorApp(<<Call("h-f")>>, x \o y \o z, v \o w) :
     x \in OwnItems \cup {<< >>}, y \in CallItems, z \in OwnItems,
     v \in ItemsOfG, w \in {<< >>, <<Check>>, <<Return("e1")>>}}

SupportedAndErrorApps == PropagationApps \cup ErrorApps

(* They are what the theorems are about.                                   *)
ASSUME PremisesMet ==
  \A a \in SupportedAndErrorApps :
    /\ NoRecursion(a) /\ AgentSeen(a) /\ Traceable(a) /\ TransactionAtHand(a)
    /\ PlainCalls(a) /\ ErrorsOfFirstCalls(a)

-----------------------------------------------------------------------------
(* Applications the tool does not handle as its documentation says.        *)

(* f calls itself, or f and g call each other.                             *)
RecursiveApps ==
  {[App EXCEPT
      !.body  = [Nothing EXCEPT !["main"] = <<Call("main-f")>>,
                                !["f"] = b, !["g"] = <<Call("g-f")>>],
      !.decls = [p \in MCPkg |-> IF p = "p1" THEN <<"main", "f", "g">>
                                            ELSE << >>]] :
     b \in {<<Call("f-f")>>, <<Call("f-g")>>}}

(* A literal is called through its variable before an agent is found.      *)
LiteralApps ==
  {Propagation(<<AssignLiteral, Call("f-l")>>, lb, <<Call("h-f")>>, agent,
               layout, {}, "own") :
     lb \in {<< >>, <<Call("l-g")>>}, agent \in Agents, layout \in Layout}

(* The setup function is declared after the functions that call it.        *)
SetupLateApps ==
  {[Propagation(<<Call("f-g")>>, << >>, <<Call("h-f")>>, "setup", layout, {},
                "own") EXCEPT
      !.decls = [p \in MCPkg |-> IF p = "p1" THEN <<"main", "setup", "f", "g">>
                                            ELSE << >>]] :
     layout \in {l \in Layout : l.gIn = "p1"}}

(* f holds an unchecked error while it calls g, which checks one of its    *)
(* own.                                                                    *)
PendingErrorApps ==
  {ErrorApp(<<Call("h-f")>>, <<Assign("e1"), Call("f-g")>>, <<Check>>)}
=============================================================================
