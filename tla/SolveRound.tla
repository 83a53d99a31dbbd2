----------------------------- MODULE SolveRound -----------------------------
(***************************************************************************)
(* What happens to a grid on its way to MiniZinc, and to the answer on its  *)
(* way back: toJson, ModelParser and the constraint classes,                *)
(* OutputMsg::toJson, and the page's reading of the answer.  The user goes   *)
(* on drawing meanwhile, and posts again; the solution grid stays.          *)
(*                                                                         *)
(* SolveRelay is about which answers arrive, and that they do in the order   *)
(* of the posts; this module is about what they say, so one grid is on its   *)
(* way at a time.  A MiniZinc model is its domain and the set of its         *)
(* constraints, and an answer is an assignment, or one of the texts that     *)
(* MiniZinc prints instead.  MiniZinc itself is external.                   *)
(*                                                                         *)
(* The field of a cell takes any text, and the backend writes it into the    *)
(* model as it is: "constraint q[1]=" and the text.  What MiniZinc makes of  *)
(* that is a parameter.  Left out are texts that do more than constrain: a   *)
(* comment that swallows what follows, an item that is no constraint.       *)
(***************************************************************************)
EXTENDS Integers, FiniteSets, FiniteSetsExt

CONSTANTS Cells,    \* flat indices
          Grids,    \* the grids that the user may draw first,
          Redrawn,  \* and those that may come after them
          Texts,    \* what else than a number may be typed into a cell
          Readable, \* the texts that MiniZinc can read there, like q[1] or 1+1
          Reading(_, _, _)  \* Reading(c, t, q): values q satisfy the text t in cell c

\* What an input field may hold: a number, nothing, or other text.
Num(n) == [kind |-> "num", n |-> n]
Empty == [kind |-> "empty"]
\* parseInt of what is not a number, and what JSON.stringify makes of that.
NaN == [kind |-> "nan"]
Null == [kind |-> "null"]
\* Any other text, in a cell of the grid or in an answer.
Text(t) == [kind |-> "text", t |-> t]

\* The types of the page, as far as toJson reads them.  The backend reads numbers with
\* getInt and casts to int: larger ones, which it would wrap or reject, are left out.
JavaInt == -2147483647 - 1 .. 2147483647
ParsedInt == [kind : {"num"}, n : JavaInt] \cup {NaN}
SolvingMethods == {"satisfy", "minimize", "maximize"}

ViewSettings ==
    [constraint : {Text("count")}, relation : {Text(r) : r \in {"<", "<=", ">", ">=", "="}},
     amount : ParsedInt, countedValue : ParsedInt]
    \cup [constraint : {Text("alldifferent")}]

ViewMetadata == [settings : ViewSettings, groups : SUBSET SUBSET Cells]
CellContent == [kind : {"num"}, n : JavaInt] \cup {Empty} \cup {Text(t) : t \in Texts}

\* A grid with content in the cells C.
Grid(C) ==
    [minValue : ParsedInt, maxValue : ParsedInt, content : [C -> CellContent],
     constraints : SUBSET SUBSET ViewMetadata, solvingMethod : SolvingMethods]

ASSUME CellsAssumption == IsFiniteSet(Cells) /\ 0 \in Cells
ASSUME GridsAssumption == \A g \in Grids \cup Redrawn : \E C \in SUBSET Cells : g \in Grid(C)
ASSUME TextsAssumption == Readable \subseteq Texts

VARIABLES grid,     \* what the user drew: minValue, maxValue, content, constraints,
                    \* solvingMethod
          at,       \* where the posted grid, or its answer, is; "page" between rounds
          message,  \* what is sent
          board,    \* the solution grid
          posted,   \* history: the grid on its way, as it was when it was posted
          timedOut, \* history: MiniZinc was stopped by its time limit
          answered  \* history: the grid of the last answer that was no failure, and
                    \* whether time had run out

vars == <<grid, at, message, board, posted, timedOut, answered>>

\* The user has drawn, and has not posted yet.
Init ==
    /\ grid \in Grids
    /\ at = "page" /\ message = Null
    /\ board = [c \in Cells |-> Empty]
    /\ posted = {} /\ timedOut = FALSE /\ answered = {}

-----------------------------------------------------------------------------
\* Whatever the menus make of the grid; a round on its way does not stop them.
Draw(g) ==
    /\ grid' = g
    /\ UNCHANGED <<at, message, board, posted, timedOut, answered>>

\* SolutionOptionsComponent.onSelectionChange
OnSelectionChange(value) ==
    /\ grid' = [grid EXCEPT !.solvingMethod = value]
    /\ UNCHANGED <<at, message, board, posted, timedOut, answered>>

\* toJson.  Numbers that are NaN become null; sets become arrays, and the map of
\* contents an object; ids, styles and the way back to the parents are left out.
ToJson(g) ==
    LET Json(x) == IF x = NaN THEN Null ELSE x
        JsonSettings(s) == [p \in DOMAIN s |-> Json(s[p])]
        JsonView(v) == [settings |-> JsonSettings(v.settings), groups |-> v.groups]
    IN [minValue |-> Json(g.minValue), maxValue |-> Json(g.maxValue), content |-> g.content,
        solvingMethod |-> g.solvingMethod,
        constraints |-> {{JsonView(v) : v \in views} : views \in g.constraints}]

PostModel ==
    /\ at = "page"
    /\ message' = ToJson(grid) /\ at' = "backend"
    /\ posted' = {grid}
    /\ UNCHANGED <<grid, board, timedOut, answered>>

\* ValueConstraint skips the cells whose content was cleared.
ValueConstraint(content) ==
    {[kind |-> "value", cell |-> c, value |-> content[c]] :
        c \in {d \in DOMAIN content : content[d] # Empty}}

CountConstraint_swapped(settings, indices) ==
    [kind |-> "count", indices |-> indices, relation |-> settings.relation,
     amount |-> settings.countedValue.n, countedValue |-> settings.amount.n]

CountConstraint(settings, indices) ==
    [kind |-> "count", indices |-> indices, relation |-> settings.relation,
     amount |-> settings.amount.n, countedValue |-> settings.countedValue.n]

AllDifferentConstraint(indices) == [kind |-> "alldifferent", indices |-> indices]

\* ConstraintFactory.create
Create(settings, indices) ==
    IF settings.constraint.t = "count" THEN CountConstraint(settings, indices)
    ELSE AllDifferentConstraint(indices)

\* Unboxing a null throws, and so does the getInt of one.
CreateThrows(settings) ==
    settings.constraint.t = "count" /\ Null \in {settings.amount, settings.countedValue}

ParseThrows(json) ==
    \/ Null \in {json.minValue, json.maxValue}
    \/ \E views \in json.constraints : \E v \in views :
          v.groups # {} /\ CreateThrows(v.settings)

\* ModelParser.parseJsonModel
ParseJsonModel(json) ==
    [domain |-> json.minValue.n .. json.maxValue.n,
     solve |-> json.solvingMethod,      \* of the sum of all cells, unless satisfy
     constraints |->
        ValueConstraint(json.content)
        \cup UNION {{Create(v.settings, indices) : indices \in v.groups} :
                        v \in UNION json.constraints}]

\* A model that does not parse is refused, and the page only loses the response.
HandlePost ==
    /\ at = "backend"
    /\ IF ParseThrows(message) THEN message' = Null /\ at' = "page" /\ posted' = {}
       ELSE message' = ParseJsonModel(message) /\ at' = "solver" /\ UNCHANGED posted
    /\ UNCHANGED <<grid, board, timedOut, answered>>

-----------------------------------------------------------------------------
Compare(a, relation, b) ==
    CASE relation = "<"  -> a < b
      [] relation = "<=" -> a <= b
      [] relation = ">"  -> a > b
      [] relation = ">=" -> a >= b
      [] relation = "="  -> a = b

\* The text of a value constraint follows "q[i]=", where MiniZinc reads all of it.
HoldsValue(cell, value, q) ==
    IF value.kind = "num" THEN q[cell] = value.n ELSE Reading(cell, value.t, q)

Holds(constraint, q) ==
    CASE constraint.kind = "value" -> HoldsValue(constraint.cell, constraint.value, q)
      [] constraint.kind = "count" ->
            Compare(Cardinality({i \in constraint.indices : q[i] = constraint.countedValue}),
                    constraint.relation.t, constraint.amount)
      [] constraint.kind = "alldifferent" ->
            \A i, j \in constraint.indices : i # j => q[i] # q[j]

\* A word that MiniZinc does not know, and the like, is an error of the whole model.
Compiles(model) ==
    \A k \in model.constraints :
        k.kind = "value" => k.value.kind = "num" \/ k.value.t \in Readable

Solutions(model) ==
    {q \in [Cells -> model.domain] : \A k \in model.constraints : Holds(k, q)}

\* The sum of the cells.
Total(q) == MapThenSumSet(LAMBDA c : q[c], Cells)

Best(method, S) ==
    CASE method = "satisfy"  -> S
      [] method = "minimize" -> {q \in S : \A p \in S : Total(q) <= Total(p)}
      [] method = "maximize" -> {q \in S : \A p \in S : Total(q) >= Total(p)}

\* What MiniZinc prints: the word of its status, or the values.  It may fail, with or
\* without a word, whatever the model; a search that its time limit stops has found
\* nothing, or the best so far.
Printed(model, stopped) ==
    IF ~Compiles(model) THEN {Null}
    ELSE LET S == Solutions(model)
             found == IF stopped THEN S ELSE Best(model.solve, S)
         IN {Null, Text("ERROR")} \cup {[kind |-> "array", q |-> q] : q \in found}
            \cup (IF stopped THEN {Text("UNKNOWN")}
                  ELSE IF S = {} THEN {Text("UNSATISFIABLE")} ELSE {})

\* OutputMsg::toJson erases every space, backslash, r and minus from the text; so the
\* line that ends a solution goes, and a minus in the solution.
Abs(n) == IF n < 0 THEN -n ELSE n

OutputToJson(data) ==
    IF data.kind = "array" THEN [data EXCEPT !.q = [c \in Cells |-> Abs(data.q[c])]]
    ELSE IF data = Text("Model error") THEN Text("Modeleo") ELSE data

\* main: no output at all becomes "Model error".
Solve ==
    /\ at = "solver"
    /\ timedOut' \in BOOLEAN
    /\ \E printed \in Printed(message, timedOut') :
          message' = OutputToJson(IF printed = Null THEN Text("Model error") ELSE printed)
    /\ at' = "answer"
    /\ UNCHANGED <<grid, board, posted, answered>>

-----------------------------------------------------------------------------
\* The tests of eventSource.onmessage.  "Modeleo" passes none of them.
Result(data) ==
    CASE data = Text("UNSATISFIABLE") -> "UNSATISFIABLE"
      [] data = Text("ERROR") -> "ERROR"
      [] data = Text("UNKNOWN") -> "UNKNOWN"
      [] OTHER -> "OK"

\* What is between the first and the last character, split at commas.
SolutionData(data) ==
    IF data.kind = "array" THEN [c \in Cells |-> Num(data.q[c])]
    ELSE [c \in {0} |-> Text("odele")]

LoadSolution_unknownStays(solution, result) ==
    board' = CASE result \in {"UNKNOWN", "ERROR"} -> board
               [] result = "UNSATISFIABLE" -> [c \in Cells |-> Text(":(")]
               [] result = "OK" -> [c \in Cells |-> IF c \in DOMAIN solution THEN solution[c]
                                                    ELSE board[c]]

\* ConstraintGridComponent.loadSolution
LoadSolution(solution, result) ==
    board' = CASE result = "UNKNOWN" -> [c \in Cells |-> Text("?")]
               [] result = "UNSATISFIABLE" -> [c \in Cells |-> Text(":(")]
               [] result = "ERROR" -> board
               [] result = "OK" -> [c \in Cells |-> IF c \in DOMAIN solution THEN solution[c]
                                                    ELSE board[c]]

\* The answers that tell nothing of the grid.
Failures == {Text("ERROR"), Text("Modeleo")}

OnMessage ==
    /\ at = "answer"
    /\ LoadSolution(SolutionData(message), Result(message))
    /\ answered' = IF message \in Failures THEN answered
                   ELSE {[grid |-> g, timedOut |-> timedOut] : g \in posted}
    /\ at' = "page" /\ message' = Null /\ posted' = {} /\ timedOut' = FALSE
    /\ UNCHANGED grid

Next ==
    \/ \E g \in Redrawn : Draw(g)
    \/ \E method \in SolvingMethods : OnSelectionChange(method)
    \/ PostModel \/ HandlePost \/ Solve \/ OnMessage

Spec == Init /\ [][Next]_vars

-----------------------------------------------------------------------------
(* Properties *)

\* What a grid g asks for, read from the grid itself: values within the limits, what
\* the contents of the cells say, and in each group of a view the view's condition.
CellMeaning(cell, content, q) ==
    \/ content = Empty
    \/ content = Num(q[cell])
    \/ \E t \in Readable : content = Text(t) /\ Reading(cell, t, q)

GroupMeaning(settings, group, q) ==
    IF settings.constraint.t = "alldifferent"
    THEN Cardinality({q[c] : c \in group}) = Cardinality(group)
    ELSE Compare(Cardinality({c \in group : q[c] = settings.countedValue.n}),
                 settings.relation.t, settings.amount.n)

Meaning(g) ==
    {q \in [Cells -> g.minValue.n .. g.maxValue.n] :
        /\ \A c \in DOMAIN g.content : CellMeaning(c, g.content[c], q)
        /\ \A v \in UNION g.constraints : \A group \in v.groups :
              GroupMeaning(v.settings, group, q)}

\* q is at least as good as p for the method that was chosen with g.
NoWorse(g, q, p) ==
    CASE g.solvingMethod = "satisfy"  -> TRUE
      [] g.solvingMethod = "minimize" -> Total(q) <= Total(p)
      [] g.solvingMethod = "maximize" -> Total(q) >= Total(p)

ShowsNumbers == \A c \in Cells : board[c].kind = "num"

\* At any time, numbers on the solution grid are a solution, up to the signs, which the
\* solver process erases, and the best one unless time ran out, of the grid that was
\* answered last; and a grid that is said to have none has none.  An answer that is a
\* failure does not count: it leaves the numbers of an earlier grid, or mars them.
ShownIsTrue ==
    /\ ShowsNumbers =>
          \E round \in answered : \E q \in Meaning(round.grid) :
             /\ \A c \in Cells : board[c] = Num(Abs(q[c]))
             /\ round.timedOut \/ \A p \in Meaning(round.grid) : NoWorse(round.grid, q, p)
    /\ (\E c \in Cells : board[c] = Text(":(")) =>
          \E round \in answered : Meaning(round.grid) = {}

\* README.md:7: "Solver responds back to the spring app with the result", which
\* the page shows.
ResultIsShown ==
    ShowsNumbers =>
        \E round \in answered : \E q \in Meaning(round.grid) :
            \A c \in Cells : board[c] = Num(q[c])
=============================================================================
