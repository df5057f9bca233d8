------------------------- MODULE MCScanApplication -------------------------
(***************************************************************************)
(* Small applications: main, a handler h, functions f and g, a method m of *)
(* the same name as g.  txn and seg are variables, Sleep is not declared.  *)
(***************************************************************************)
EXTENDS ScanApplication

MCFn   == {"main", "h", "f", "g", "m"}
MCPkg  == {"p1", "p2"}
MCName == {"main", "h", "f", "g", "txn", "t2", "seg", "app", "Sleep"}
MCType == {"*A", "*B"}
MCErrVar == {"err"}

(* Calls.                                                                  *)
Plain(n) ==
  [form |-> "ident", name |-> n, stmt |-> "top", end |-> FALSE, passes |-> {},
   notes |-> NoErr, origin |-> "none", binds |-> NoName, uses |-> FALSE,
   wraps |-> NoName, serves |-> NoType]
With(n, v)    == [Plain(n) EXCEPT !.passes = {v}]
Method(v)     == [Plain(v) EXCEPT !.form = "method"]
End(v)        == [Method(v) EXCEPT !.end = TRUE]
Inside(c)     == [c EXCEPT !.stmt = "none"]
Nested(c)     == [c EXCEPT !.stmt = "nested"]
Start(v)      == [Inside(Method("app")) EXCEPT !.origin = "agent", !.binds = v]
Web(o, v)     == [Inside(Plain(NoName)) EXCEPT !.origin = o, !.binds = v]
Use           == [Method("app") EXCEPT !.uses = TRUE]
NoticeErr(v)  == [Method(v) EXCEPT !.notes = "err"]
SegmentEnd    == [Plain(NoName) EXCEPT !.form = "chain", !.end = TRUE]
Receive       == [Plain(NoName) EXCEPT !.form = "recv"]
Serve(t)      == [Plain(NoName) EXCEPT !.serves = t]
Handle(n)     == [Plain(NoName) EXCEPT !.wraps = n]

Body(main, h, f, g, m) ==
  [x \in MCFn |-> CASE x = "main" -> main [] x = "h" -> h [] x = "f" -> f
                    [] x = "g" -> g [] x = "m" -> m]

NameOf == [x \in MCFn |-> IF x = "m" THEN "g" ELSE x]

(* Where the declarations are.                                             *)
Layouts ==
  {[p \in MCPkg |-> IF p = "p1" THEN a ELSE b] :
     <<a, b>> \in {<<<<"f", "main">>, <<"g", "h">>>>,
                   <<<<"main", "h", "f">>, <<"m", "g">>>>,
                   <<<<"g", "f", "h", "main", "m">>, << >>>>}}

Home(l) == [x \in MCFn |-> IF \E i \in DOMAIN l["p2"] : l["p2"][i] = x
                           THEN "p2" ELSE "p1"]

App(body, layout, generated) ==
  [pkg |-> Home(layout), name |-> NameOf, body |-> body, decls |-> layout,
   generated |-> generated]

(***************************************************************************)
(* Supported applications: a function that is reached while a transaction  *)
(* is open does not reach itself before it ends the transaction.           *)
(***************************************************************************)
Mains ==
  {<< >>,
   <<Start("txn"), With("f", "txn"), End("txn"), Plain("g")>>,
   <<Start("txn"), With("h", "txn"), End("txn")>>,
   <<Start("txn"), Plain("f"), NoticeErr("txn"), End("seg"), With("g", "txn")>>,
   <<Start("txn"), Nested(End("txn")), Start("t2"), With("g", "t2"), End("t2")>>,
   <<Handle("h"), Serve("*A")>>}
Fs ==
  {<< >>, <<Plain("g")>>, <<Inside(Plain("g")), End("txn"), Plain("Sleep")>>,
   <<Inside(End("txn")), Plain("f"), Plain("g")>>}
Gs == {<< >>, <<Plain("Sleep"), SegmentEnd>>, <<Serve("*A"), End("txn")>>}
Hs ==
  {<<Receive, Plain("g"), NoticeErr("txn")>>,
   <<Web("gin", "txn"), Plain("f"), With("g", "txn")>>,
   <<Web("echo", "txn"), NoticeErr("txn"), With("f", "txn"), Use>>}

Serve2 == <<Serve("*A"), Serve("*B")>>

ScanApps ==
  {App(Body(main, h, f, g, <<Use>>), l, {}) :
     main \in Mains \ {<< >>}, h \in Hs, f \in Fs, g \in Gs, l \in Layouts}
  \cup
  {App(Body(main, Serve2, f, g, << >>), l, x) :
     main \in Mains, f \in {<< >>, <<Start("txn")>>}, g \in Gs, l \in Layouts,
     x \in {{}, {"g"}, {"main"}, {"f", "m"}}}

(* A segment ends in the statement that starts it.                         *)
SegmentApps ==
  {App(Body(<<Start("txn"), SegmentEnd, End("txn")>>, << >>, f, << >>, << >>), l, {}) :
     f \in Fs, l \in Layouts}
=============================================================================
