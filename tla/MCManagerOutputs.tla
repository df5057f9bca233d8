-------------------------- MODULE MCManagerOutputs --------------------------
(***************************************************************************)
(* A package p with tests inside and outside of it, and a package q.       *)
(***************************************************************************)
EXTENDS ManagerOutputs, FiniteSets

MCPackage == 1 .. 5
p == 1
pInside  == 2
pBinary  == 3
pOutside == 4
q == 5

MCFile   == {"a.go", "gen.go", "a_test.go", "x_test.go", "main.go", "q.go", "q2.go"}
MCName   == {"main", "f", "g", "TestF", "helper"}
MCDir    == {"start", "p", "q"}
MCModule == {"newrelic", "nrgin"}

C(fun, path, args) == [fun |-> fun, path |-> path, ident |-> TRUE, args |-> args]
Own(fun, args)     == C(fun, NoPackage, args)

Undeclared == [declared |-> FALSE, fields |-> 0, given |-> FALSE, added |-> FALSE]
Declares(fields, how) ==
  [declared |-> TRUE, given |-> how # "none", added |-> how = "added",
   fields |-> fields + (IF how = "none" THEN 0 ELSE 1)]
PassedBy(fields, how) == fields + (IF how = "own" THEN 1 ELSE 0)

(* f and g get a parameter from the engine, have one of their own or none. *)
Hows == {"none", "own", "added"}

Application(fHow, gHow, nested, qTests) ==
  [pkgs      |-> MCPackage,
   forTest   |-> [i \in MCPackage |-> IF i \in {pInside, pOutside} THEN p
                                      ELSE NoPackage],
   testMain  |-> {pBinary},
   dir       |-> [i \in MCPackage |-> IF i = q THEN "q" ELSE "p"],
   syntax    |-> [i \in MCPackage |->
                    CASE i = p        -> <<"a.go", "gen.go">>
                      [] i = pInside  -> <<"a.go", "gen.go", "a_test.go">>
                      [] i = pBinary  -> <<"main.go">>
                      [] i = pOutside -> <<"x_test.go">>
                      [] i = q        -> <<"q.go">>],
   generated |-> {"gen.go", "main.go"},
   names     |-> [i \in MCPackage |-> [n \in MCFile |->
                    CASE n = "a.go"      -> <<"main", "f", "var">>
                      [] n = "gen.go"    -> <<"helper">>
                      [] n = "a_test.go" -> <<"TestF">>
                      [] n = "x_test.go" -> <<"TestF", "helper">>
                      [] n = "main.go"   -> <<"main">>
                      [] n = "q.go"      -> <<"g">>
                      [] n = "q2.go"     -> <<"var">>]],
   (* The copy in the tests still has the calls of the user's source.      *)
   text      |-> [i \in MCPackage |-> [n \in MCFile |->
                    CASE n = "a.go"      ->
                           <<<<Own("f", PassedBy(1, fHow))>>,
                             <<C("g", q, PassedBy(0, gHow))>>, << >>>>
                      [] n = "gen.go"    -> <<<<Own("f", PassedBy(1, fHow))>>>>
                      [] n = "a_test.go" ->
                           <<<<Own("f", PassedBy(1, fHow)), Own("TestF", 0)>>
                              \o nested>>
                      [] n = "x_test.go" ->
                           <<<<C("f", p, PassedBy(1, fHow)), Own("helper", 1)>>,
                             qTests>>
                      [] n = "main.go"   -> <<<<Own("main", 0)>>>>
                      [] OTHER           -> << << >> >>]],
   table     |-> [i \in MCPackage |-> [n \in MCName |->
                    CASE i = p /\ n = "f"    -> Declares(1, fHow)
                      [] i = p /\ n = "main" -> Declares(0, "none")
                      [] i = q /\ n = "g"    -> Declares(0, gHow)
                      [] OTHER               -> Undeclared]],
   edited    |-> (IF fHow = "added" \/ gHow = "added"
                  THEN {<<p, "a.go">>} ELSE {})
                 \cup (IF gHow = "added" THEN {<<q, "q.go">>} ELSE {}),
   imports   |-> [i \in MCPackage |-> CASE i = p -> {"newrelic", "nrgin"}
                                        [] i = q -> {"newrelic"}
                                        [] OTHER -> {}]]

(* One file more than may be open.                                         *)
Larger(a) == [a EXCEPT !.syntax[q] = <<"q.go", "q2.go">>]

MCApps ==
  {Application(fHow, gHow, nested, qTests) :
     fHow \in Hows, gHow \in Hows,
     nested \in {<< >>, <<Own("helper", 2)>>},
     qTests \in {<< >>}}
  \cup
  {Application(fHow, gHow, <<C("g", q, PassedBy(0, gHow))>>,
               <<C("g", q, PassedBy(0, gHow)), C("f", p, PassedBy(1, fHow))>>) :
     fHow \in Hows, gHow \in Hows}
  \cup
  {Larger(Application("added", "added", << >>, << >>))}

ASSUME AppsSupported == \A a \in MCApps : Supported(a)
=============================================================================
