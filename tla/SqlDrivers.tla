----------------------------- MODULE SqlDrivers -----------------------------
(***************************************************************************)
(* The edits of nrpq and nrpgx5 on a statement list.  They look at one     *)
(* list only, except for the last use of a query's result.                 *)
(***************************************************************************)
EXTENDS GoStatements

(* internal/sqlhelpers: db, err := sql.Open(driver, ...); lit is None when *)
(* the driver is no literal.                                               *)
DetectSQLOpen(s) ==
  s.form = "assign" /\ s.fun = "sql.Open" /\ s.lit # None /\ ~s.field

ContextMethodName == [QueryRow |-> "QueryRowContext",
                      Query    |-> "QueryContext",
                      Exec     |-> "ExecContext"]

DetectSQLExecutionCall(s, db) ==
  s.form = "assign" /\ s.recv = db /\ s.fun \in DOMAIN ContextMethodName

ReplaceSQLMethodWithContext(s, ctx) ==
  [s EXCEPT !.fun = ContextMethodName[@], !.args = <<ctx>> \o @]

(* The names in a statement, those in its nested blocks included.          *)
MentionedIn(body, s) ==
  LET In[b \in Block] ==
        UNION {Mentions(body[b][i])
                 \cup (IF body[b][i].inner = NoBlock THEN {}
                       ELSE In[body[b][i].inner]) : i \in DOMAIN body[b]}
  IN  Mentions(s) \cup IF s.inner = NoBlock THEN {} ELSE In[s.inner]

(* Faulty: does not look into nested blocks.                               *)
LastUsageInList(body, list, name, from) ==
  LET U == {i \in from + 1 .. Len(list) : name \in Mentions(list[i])}
  IN  IF name = None \/ U = {} THEN from
      ELSE CHOOSE i \in U : \A j \in U : j <= i

FindLastUsageOfExecutionResult(body, list, name, from) ==
  LET U == {i \in from + 1 .. Len(list) : name \in MentionedIn(body, list[i])}
  IN  IF name = None \/ U = {} THEN from
      ELSE CHOOSE i \in U : \A j \in U : j <= i

-----------------------------------------------------------------------------
(* nrpq                                                                    *)

FirstIndex(list, P) == IF P = {} THEN 0 ELSE CHOOSE i \in P : \A j \in P : i <= j

(* The first open with a driver of interest, 0 if there is none.           *)
ScanForPostgresOpen(list) ==
  FirstIndex(list, {i \in DOMAIN list : DetectSQLOpen(list[i])
                                        /\ list[i].lit \in {"postgres", "nrpq"}})

FindSQLExecutionStatement(list, db, start) ==
  FirstIndex(list, {i \in start .. Len(list) :
                      DetectSQLExecutionCall(list[i], db)})

SqlTransaction(agent) ==
  <<StartTransaction(agent, DefaultTransactionVariable, FALSE),
    CreateContextWithTransaction(DefaultTransactionVariable)>>

(* The end goes behind the last use of the result, then the start and the  *)
(* context before the query.                                               *)
WrapQueryWithTransaction(body, list, open, agent) ==
  LET exec   == FindSQLExecutionStatement(list, list[open].lhs[1], open + 1)
      result == IF list[exec].lhs[1] = "_" THEN None ELSE list[exec].lhs[1]
      last   == FindLastUsageOfExecutionResult(body, list, result, exec)
      traced == ReplaceAt(list, exec, ReplaceSQLMethodWithContext(
                                        list[exec], DefaultContextParameter))
  IN  IF exec = 0 THEN list
      ELSE SubSeq(traced, 1, exec - 1) \o SqlTransaction(agent)
             \o SubSeq(traced, exec, last)
             \o <<EndTransaction(DefaultTransactionVariable)>>
             \o SubSeq(traced, last + 1, Len(list))

(* What becomes of the block b of a function; only main has the agent.     *)
PQEdit(body, b, isMain, agent) ==
  LET list == body[b]
      open == ScanForPostgresOpen(list)
      swap == ReplaceAt(list, open, [list[open] EXCEPT !.lit = "nrpq"])
  IN  IF open = 0 THEN list
      ELSE IF list[open].lit = "nrpq" THEN list
      ELSE IF isMain /\ list[open].lhs[1] # "_"
           THEN WrapQueryWithTransaction(body, swap, open, agent)
           ELSE swap

PQSwaps(list) ==
  ScanForPostgresOpen(list) # 0 /\ list[ScanForPostgresOpen(list)].lit # "nrpq"

-----------------------------------------------------------------------------
(* nrpgx5                                                                  *)

HasExistingPgxTracer(list) ==
  \E i \in DOMAIN list : list[i].form = "assign"
                         /\ list[i].fun = "nrpgx5.NewTracer"

DetectPgxCallPattern(s) ==
  s.form = "assign" /\ s.fun \in {"pgx.Connect", "pgxpool.New"}
    /\ Len(s.args) = 2 /\ ~s.field

(* The last of the three statements takes the place of the user's.         *)
BuildPgxReplacement(s) ==
  LET pkg == IF s.fun = "pgx.Connect" THEN "pgx" ELSE "pgxpool"
  IN  <<CreateParseConfig(s.args[2], pkg), CreateTracerAssignment,
        [CreateConnectWithConfig(s.lhs[1], s.args[1], pkg)
           EXCEPT !.id = s.id, !.inner = s.inner]>>

(* Only the first connection of a list is replaced.                        *)
PgxConnects(list) ==
  IF HasExistingPgxTracer(list) THEN 0
  ELSE FirstIndex(list, {i \in DOMAIN list : DetectPgxCallPattern(list[i])})

(* Faulty: writes over the statement behind the connection.                *)
PgxEditOver(list) ==
  LET i == PgxConnects(list)
  IN  IF i = 0 THEN list
      ELSE SubSeq(list, 1, i - 1) \o BuildPgxReplacement(list[i])
             \o SubSeq(list, i + 2, Len(list))

PgxEdit(list) ==
  LET i == PgxConnects(list)
  IN  IF i = 0 THEN list
      ELSE SubSeq(list, 1, i - 1) \o BuildPgxReplacement(list[i])
             \o SubSeq(list, i + 1, Len(list))
=============================================================================
