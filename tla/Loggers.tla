------------------------------- MODULE Loggers -------------------------------
(***************************************************************************)
(* The edits of nrslog and nrlogrus: both read the statements of one body  *)
(* in order, not those of nested blocks.                                   *)
(***************************************************************************)
EXTENDS GoStatements

CONSTANTS HandlerName,  \* names of slog handlers
          NRName        \* what the wrapped handler is called: NR and the name

ASSUME HandlerAssumption == NRName \in [HandlerName -> STRING]

(* nrslog: the handler's name is taken from an identifier.                 *)
SlogMiddlewareCall(s) ==
  s.form = "assign" /\ s.fun \in {"slog.NewTextHandler", "slog.NewJSONHandler"}

DetectSetDefaultCall(s) == s.form = "expr" /\ s.fun = "slog.SetDefault"

(* Faulty: forgets slog.SetDefault(slog.New(h)).                           *)
RenamesValues(s) == s.form \in {"assign", "return"} /\ s.fun # None

(* Where the arguments of a call are renamed; those of a receiver are not. *)
Renames(s) ==
  \/ s.form = "assign" /\ s.fun # None
  \/ s.form = "return" /\ s.fun # None
  \/ DetectSetDefaultCall(s) /\ s.nested # None

Rename(s, handlers) ==
  [s EXCEPT !.args = [i \in DOMAIN @ |-> IF @[i] \in handlers THEN NRName[@[i]]
                                                             ELSE @[i]]]

HandlersBefore(list, i) ==
  {list[j].lhs[1] : j \in {k \in 1 .. i - 1 : SlogMiddlewareCall(list[k])}}

SlogEdit(list) ==
  FlattenSeq([i \in DOMAIN list |->
    LET s == list[i]
    IN  IF SlogMiddlewareCall(s)
        THEN <<s, SlogHandlerWrapper(s.lhs[1], NRName[s.lhs[1]])>>
        ELSE IF Renames(s) THEN <<Rename(s, HandlersBefore(list, i))>>
        ELSE <<s>>])

-----------------------------------------------------------------------------
(* nrlogrus                                                                *)

NameAndValue(s) == s.form \in {"assign", "var"} /\ Len(s.lhs) = 1 /\ ~s.field

LogrusNewVarName(s) ==
  IF NameAndValue(s) /\ s.fun = "logrus.New" /\ s.lhs[1] # "_"
  THEN s.lhs[1] ELSE None

SetsPackageFormatter(s) == s.form = "expr" /\ s.fun = "logrus.SetFormatter"
SetsLoggerFormatter(s, loggers) ==
  s.form = "expr" /\ s.fun = "SetFormatter" /\ s.recv \in loggers
SetFormatterCall(s, loggers) ==
  SetsPackageFormatter(s) \/ SetsLoggerFormatter(s, loggers)

AlreadyWrapped(s) == s.nested = "nrlogrus.NewFormatter"

LogrusFuns == {"logrus.New", "logrus.SetFormatter", "logrus.Info",
               "logrus.WithField"}
ReferencesLogrus(body, s) ==
  LET In[b \in Block] ==
        \E i \in DOMAIN body[b] :
          \/ body[b][i].fun \in LogrusFuns
          \/ body[b][i].inner # NoBlock /\ In[body[b][i].inner]
  IN  \/ s.fun \in LogrusFuns
      \/ s.lit = "logrus.TextFormatter"
      \/ s.inner # NoBlock /\ In[s.inner]

LoggersBefore(list, i) ==
  {LogrusNewVarName(list[j]) : j \in 1 .. i - 1} \ {None}

WrapsFormatter(list, i) ==
  SetFormatterCall(list[i], LoggersBefore(list, i)) /\ ~AlreadyWrapped(list[i])

(* Loggers whose default is still to be injected: those without a later    *)
(* SetFormatter, and those whose variable is bound again.                  *)
NeedsDefault(list, i) ==
  LET name == LogrusNewVarName(list[i])
      again == {j \in i + 1 .. Len(list) : LogrusNewVarName(list[j]) = name}
      until == IF again = {} THEN Len(list)
               ELSE CHOOSE j \in again : \A k \in again : j <= k
  IN  name # None /\ \A j \in i + 1 .. until : ~SetsLoggerFormatter(list[j], {name})

PackageAnchor(body, list) ==
  LET R == {i \in DOMAIN list : \/ LogrusNewVarName(list[i]) # None
                                \/ SetFormatterCall(list[i], LoggersBefore(list, i))
                                \/ ReferencesLogrus(body, list[i])}
  IN  IF R = {} THEN 0 ELSE CHOOSE i \in R : \A j \in R : i <= j

InjectPackage(body, list) ==
  /\ PackageAnchor(body, list) # 0
  /\ \A i \in DOMAIN list : LogrusNewVarName(list[i]) = None
                            /\ ~SetsPackageFormatter(list[i])

LogrusMutates(body, list) ==
  \/ InjectPackage(body, list)
  \/ \E i \in DOMAIN list : WrapsFormatter(list, i) \/ NeedsDefault(list, i)

(* InstrumentLogrusHandler wraps in place, insertDefaults adds the rest.   *)
LogrusEdit(body, list, agent) ==
  FlattenSeq([i \in DOMAIN list |->
      (IF InjectPackage(body, list) /\ i = PackageAnchor(body, list)
       THEN <<DefaultSetFormatterStmt(PackageSetFormatter, agent)>> ELSE << >>)
    \o <<IF WrapsFormatter(list, i) THEN WrapWithNewFormatter(list[i], agent)
                                    ELSE list[i]>>
    \o (IF NeedsDefault(list, i)
        THEN <<DefaultSetFormatterStmt(
                 LoggerSetFormatter(LogrusNewVarName(list[i])), agent)>>
        ELSE << >>)])
=============================================================================
