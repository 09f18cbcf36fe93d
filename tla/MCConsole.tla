----------------------------- MODULE MCConsole -----------------------------
(***************************************************************************)
(* The parts of the console that share no state, side by side for TLC: in  *)
(* a behaviour one of them moves (focus) and the others rest in an initial *)
(* state, as a step of one can neither enable nor change a step of another. *)
(***************************************************************************)
EXTENDS Progress, GridPage, CascaderLoader, FilterQuery, RowEdits,
        NotificationBell, Cases, DueDates

VARIABLE focus

Parts == {"stream", "grid", "loader", "query", "row", "bell", "case", "due"}
consoleVars == <<focus, vars, gridVars, loaderVars, filterVars, rowVars, bellVars,
                 casesVars, dueVars>>

(* A part that rests has one initial state, so that it is not counted for  *)
(* each of them.                                                           *)
ConsoleInit ==
  /\ focus \in Parts
  /\ Init /\ GridInit /\ LoaderInit /\ FilterInit /\ RowInit /\ BellInit
  /\ CasesInit /\ DueInit
  /\ focus # "grid" => saved = Plain
  /\ focus # "loader" => onScreen = {}
  /\ focus # "row" => stored = CHOOSE v \in Values : TRUE
  /\ focus # "case" => opened = 0

(* The parts that rest while the named one moves.                          *)
RestStream ==
  UNCHANGED <<focus, gridVars, loaderVars, filterVars, rowVars, bellVars, casesVars, dueVars>>
RestGrid ==
  UNCHANGED <<focus, vars, loaderVars, filterVars, rowVars, bellVars, casesVars, dueVars>>
RestLoader ==
  UNCHANGED <<focus, vars, gridVars, filterVars, rowVars, bellVars, casesVars, dueVars>>
RestQuery ==
  UNCHANGED <<focus, vars, gridVars, loaderVars, rowVars, bellVars, casesVars, dueVars>>
RestRow ==
  UNCHANGED <<focus, vars, gridVars, loaderVars, filterVars, bellVars, casesVars, dueVars>>
RestBell ==
  UNCHANGED <<focus, vars, gridVars, loaderVars, filterVars, rowVars, casesVars, dueVars>>
RestCase ==
  UNCHANGED <<focus, vars, gridVars, loaderVars, filterVars, rowVars, bellVars, dueVars>>
RestDue ==
  UNCHANGED <<focus, vars, gridVars, loaderVars, filterVars, rowVars, bellVars, casesVars>>

ConsoleNext ==
  \/ focus = "stream" /\ Next /\ RestStream
  \/ focus = "grid" /\ GridNext /\ RestGrid
  \/ focus = "loader" /\ LoaderNext /\ RestLoader
  \/ focus = "query" /\ FilterNext /\ RestQuery
  \/ focus = "row" /\ RowNext /\ RestRow
  \/ focus = "bell" /\ BellNext /\ RestBell
  \/ focus = "case" /\ CasesNext /\ RestCase
  \/ focus = "due" /\ DueNext /\ RestDue

(* The fairness of the parts that promise something for the future.        *)
ConsoleFairness ==
  /\ WF_vars(focus = "stream" /\ ServerStep)
  /\ \A v \in Viewers : WF_vars(focus = "stream" /\ ViewerStep(v))
  /\ WF_bellVars(focus = "bell" /\ Poll)
  /\ WF_bellVars(focus = "bell" /\ BellAnswers)

ConsoleSpec == ConsoleInit /\ [][ConsoleNext]_consoleVars /\ ConsoleFairness
-----------------------------------------------------------------------------
(* Every variable of the part that moves keeps its type.                   *)
TypeOK ==
  CASE focus = "stream" -> ProgressTypeOK
    [] focus = "grid" -> GridTypeOK
    [] focus = "loader" -> LoaderTypeOK
    [] focus = "query" -> FilterTypeOK
    [] focus = "row" -> RowTypeOK
    [] focus = "bell" -> BellTypeOK
    [] focus = "case" -> CasesTypeOK
    [] focus = "due" -> DueTypeOK
=============================================================================
