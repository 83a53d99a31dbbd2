---------------------------- MODULE SolveRound_proofs ----------------------------
(***************************************************************************)
(* The way of a grid to MiniZinc and back, for every grid that can be drawn. *)
(***************************************************************************)
EXTENDS SolveRound, FiniteSetTheorems, TLAPS

IsGrid(g) == \E C \in SUBSET Cells : g \in Grid(C)

\* The model that the backend makes of a grid that was posted.
Model(g) == ParseJsonModel(ToJson(g))
Accepted(g) == ~ParseThrows(ToJson(g))

\* The answer that the solver process makes of what MiniZinc printed.
AnswerOf(printed) == OutputToJson(IF printed = Null THEN Text("Model error") ELSE printed)

\* How far the grid g has come.
OnItsWay(g) ==
    /\ IsGrid(g)
    /\ at = "backend" => message = ToJson(g)
    /\ at = "solver" => Accepted(g) /\ message = Model(g)
    /\ at = "answer" => Accepted(g) /\ \E printed \in Printed(Model(g), timedOut) :
                                           message = AnswerOf(printed)

IInv ==
    /\ IsGrid(grid)
    /\ at # "page" => \E g : posted = {g} /\ OnItsWay(g)
    /\ ShownIsTrue

-----------------------------------------------------------------------------
(* The grid and its model *)

LEMMA GridIs ==
  ASSUME NEW g, IsGrid(g)
  PROVE  /\ g.minValue \in ParsedInt /\ g.maxValue \in ParsedInt
         /\ DOMAIN g.content \in SUBSET Cells
         /\ \A c \in DOMAIN g.content : g.content[c] \in CellContent
         /\ g.constraints \subseteq SUBSET ViewMetadata
         /\ g.solvingMethod \in SolvingMethods
         /\ \A method \in SolvingMethods : IsGrid([g EXCEPT !.solvingMethod = method])
<1>1. PICK C \in SUBSET Cells : g \in Grid(C)  BY DEF IsGrid
<1>2. \A method \in SolvingMethods : [g EXCEPT !.solvingMethod = method] \in Grid(C)
  BY <1>1 DEF Grid
<1> QED  BY <1>1, <1>2 DEF Grid, IsGrid

\* What a grid that the backend accepts says is in the JSON.
LEMMA JsonIs ==
  ASSUME NEW g, IsGrid(g), Accepted(g)
  PROVE  LET json == ToJson(g) IN
         /\ g.minValue = Num(g.minValue.n) /\ g.maxValue = Num(g.maxValue.n)
         /\ json.minValue = g.minValue /\ json.maxValue = g.maxValue
         /\ json.content = g.content /\ json.solvingMethod = g.solvingMethod
<1>1. \A x \in ParsedInt : x = NaN \/ (x = Num(x.n) /\ x # NaN)
  BY DEF ParsedInt, NaN, Num
<1>2. ToJson(g).minValue # Null /\ ToJson(g).maxValue # Null  BY DEF Accepted, ParseThrows
<1>3. g.minValue # NaN /\ g.maxValue # NaN  BY <1>2 DEF ToJson
<1> QED  BY <1>1, <1>3, GridIs DEF ToJson

\* A view in the JSON.
JsonOf(v) ==
    [settings |-> [p \in DOMAIN v.settings |->
                      IF v.settings[p] = NaN THEN Null ELSE v.settings[p]],
     groups |-> v.groups]

LEMMA JsonViews ==
  ASSUME NEW g
  PROVE  /\ UNION ToJson(g).constraints = {JsonOf(v) : v \in UNION g.constraints}
         /\ Model(g).constraints =
               ValueConstraint(ToJson(g).content)
               \cup UNION {{Create(JsonOf(v).settings, indices) : indices \in v.groups} :
                              v \in UNION g.constraints}
         /\ Accepted(g) => \A v \in UNION g.constraints :
                               v.groups # {} => ~CreateThrows(JsonOf(v).settings)
<1> DEFINE json == ToJson(g)
<1>1. json.constraints = {{JsonOf(v) : v \in views} : views \in g.constraints}
  BY DEF ToJson, JsonOf
<1>2. Model(g).constraints =
        ValueConstraint(json.content)
        \cup UNION {{Create(w.settings, indices) : indices \in w.groups} :
                       w \in UNION json.constraints}
  BY DEF Model, ParseJsonModel
<1>3. Accepted(g) => \A views \in json.constraints : \A w \in views :
                        w.groups # {} => ~CreateThrows(w.settings)
  BY DEF Accepted, ParseThrows
<1> HIDE DEF json
<1>4. UNION json.constraints = {JsonOf(v) : v \in UNION g.constraints}
  BY <1>1
<1>5. \A v : JsonOf(v).groups = v.groups  BY DEF JsonOf
<1>6. {{Create(w.settings, indices) : indices \in w.groups} : w \in UNION json.constraints}
      = {{Create(JsonOf(v).settings, indices) : indices \in v.groups} :
            v \in UNION g.constraints}
  <2> DEFINE made(w) == {Create(w.settings, indices) : indices \in w.groups}
             madeOf(v) == {Create(JsonOf(v).settings, indices) : indices \in v.groups}
  <2>1. \A v : made(JsonOf(v)) = madeOf(v)  BY <1>5
  <2> HIDE DEF made, madeOf
  <2>2. {made(w) : w \in UNION json.constraints} = {madeOf(v) : v \in UNION g.constraints}
    BY <1>4, <2>1
  <2> QED  BY <2>2 DEF made, madeOf
<1>7. ASSUME Accepted(g), NEW v \in UNION g.constraints, v.groups # {}
      PROVE  ~CreateThrows(JsonOf(v).settings)
  <2>1. PICK views \in json.constraints : JsonOf(v) \in views  BY <1>4
  <2> QED  BY <1>3, <1>5, <1>7, <2>1
<1> QED  BY <1>2, <1>4, <1>6, <1>7 DEF json

\* Distinct values are as many as their cells.
LEMMA AllDifferentIs ==
  ASSUME NEW group \in SUBSET Cells, NEW q
  PROVE  (\A i, j \in group : i # j => q[i] # q[j])
         <=> Cardinality({q[c] : c \in group}) = Cardinality(group)
<1> DEFINE f == [c \in group |-> q[c]]
           T == {q[c] : c \in group}
<1>1. f \in Surjection(group, T)  BY DEF Surjection
<1>2. IsFiniteSet(group)  BY CellsAssumption, FS_Subset
<1>3. Cardinality(T) = Cardinality(group) <=> f \in Injection(group, T)
  BY <1>1, <1>2, FS_Surjection
<1>4. f \in Injection(group, T) <=> \A i, j \in group : i # j => q[i] # q[j]
  BY DEF Injection, IsInjective
<1> QED  BY <1>3, <1>4

\* The constraint made of a group means what its view says.
LEMMA ConstraintIs ==
  ASSUME NEW v \in ViewMetadata, ~CreateThrows(JsonOf(v).settings),
         NEW group \in v.groups, NEW q
  PROVE  LET k == Create(JsonOf(v).settings, group) IN
         /\ k.kind # "value"
         /\ Holds(k, q) <=> GroupMeaning(v.settings, group, q)
<1> DEFINE s == v.settings
           json == JsonOf(v).settings
           k == Create(json, group)
<1>0. group \in SUBSET Cells /\ s \in ViewSettings  BY DEF ViewMetadata
<1>1. json = [p \in DOMAIN s |-> IF s[p] = NaN THEN Null ELSE s[p]]  BY DEF JsonOf
<1> HIDE DEF s, json
<1>2. CASE s \in [constraint : {Text("count")},
                  relation : {Text(r) : r \in {"<", "<=", ">", ">=", "="}},
                  amount : ParsedInt, countedValue : ParsedInt]
  <2>1. /\ s.constraint = Text("count") /\ s.relation.kind = "text"
        /\ s.amount \in ParsedInt /\ s.countedValue \in ParsedInt
        /\ DOMAIN s = {"constraint", "relation", "amount", "countedValue"}
    BY <1>2 DEF Text
  <2>2. s.constraint # NaN /\ s.relation # NaN  BY <2>1 DEF Text, NaN
  <2>3. /\ json.constraint = s.constraint /\ json.relation = s.relation
        /\ json.amount = IF s.amount = NaN THEN Null ELSE s.amount
        /\ json.countedValue = IF s.countedValue = NaN THEN Null ELSE s.countedValue
    BY <1>1, <2>1, <2>2
  <2>4. s.constraint.t = "count"  BY <2>1 DEF Text
  <2>5. json.amount = s.amount /\ json.countedValue = s.countedValue
    BY <2>3, <2>4 DEF CreateThrows, json
  <2>6. k = [kind |-> "count", indices |-> group, relation |-> s.relation,
             amount |-> s.amount.n, countedValue |-> s.countedValue.n]
    BY <2>3, <2>4, <2>5 DEF Create, CountConstraint
  <2>7. /\ k.kind = "count" /\ k.indices = group /\ k.relation = s.relation
        /\ k.amount = s.amount.n /\ k.countedValue = s.countedValue.n
    BY <2>6
  <2>8. Holds(k, q) <=> Compare(Cardinality({i \in group : q[i] = s.countedValue.n}),
                                s.relation.t, s.amount.n)
    <3> HIDE DEF k
    <3> QED  BY <2>7 DEF Holds
  <2>9. GroupMeaning(s, group, q)
          <=> Compare(Cardinality({i \in group : q[i] = s.countedValue.n}),
                      s.relation.t, s.amount.n)
    BY <2>4 DEF GroupMeaning
  <2> QED  BY <2>7, <2>8, <2>9 DEF s, json
<1>3. CASE s \in [constraint : {Text("alldifferent")}]
  <2>1. s.constraint = Text("alldifferent") /\ DOMAIN s = {"constraint"}  BY <1>3
  <2>2. s.constraint.t = "alldifferent" /\ s.constraint # NaN  BY <2>1 DEF Text, NaN
  <2>3. json.constraint = s.constraint  BY <1>1, <2>1, <2>2
  <2>4. k = [kind |-> "alldifferent", indices |-> group]
    BY <2>2, <2>3 DEF Create, AllDifferentConstraint
  <2>5. k.kind = "alldifferent" /\ k.indices = group  BY <2>4
  <2>6. Holds(k, q) <=> \A i, j \in group : i # j => q[i] # q[j]
    <3> HIDE DEF k
    <3> QED  BY <2>5 DEF Holds
  <2>7. GroupMeaning(s, group, q) <=> Cardinality({q[c] : c \in group}) = Cardinality(group)
    BY <2>2 DEF GroupMeaning
  <2> QED  BY <1>0, <2>5, <2>6, <2>7, AllDifferentIs DEF s, json
<1> QED  BY <1>0, <1>2, <1>3 DEF ViewSettings

\* The constraint made of a cell means what the cell says.
LEMMA CellIs ==
  ASSUME NEW cell, NEW content \in CellContent, content # Empty, NEW q,
         content.kind = "num" \/ content.t \in Readable
  PROVE  HoldsValue(cell, content, q) <=> CellMeaning(cell, content, q)
<1>1. /\ \A n : Num(n).kind = "num" /\ Num(n).n = n
      /\ \A t : Text(t).kind = "text" /\ Text(t).t = t
  BY DEF Num, Text
<1>2. CASE content.kind = "num"
  <2>1. content = Num(content.n)
    BY <1>1, <1>2 DEF CellContent, Empty, Num
  <2>2. content = Num(q[cell]) <=> q[cell] = content.n  BY <1>1, <2>1
  <2>3. \A t : content # Text(t)  BY <1>1, <1>2
  <2> QED  BY <1>2, <2>2, <2>3 DEF HoldsValue, CellMeaning
<1>3. CASE content.kind # "num"
  <2>1. PICK t \in Texts : content = Text(t)
    BY <1>1, <1>3 DEF CellContent
  <2>2. content.kind = "text" /\ content.t = t /\ t \in Readable  BY <1>1, <1>3, <2>1
  <2>3. content # Num(q[cell])  BY <1>1, <1>3
  <2>4. \A u : content = Text(u) => u = t  BY <1>1, <2>2
  <2>5. HoldsValue(cell, content, q) <=> Reading(cell, t, q)  BY <2>2 DEF HoldsValue
  <2>6. CellMeaning(cell, content, q) <=> Reading(cell, t, q)
    BY <2>1, <2>2, <2>3, <2>4 DEF CellMeaning
  <2> QED  BY <2>5, <2>6
<1> QED  BY <1>2, <1>3

\* The solutions of the model are what the grid means.
LEMMA SolutionsAreMeaning ==
  ASSUME NEW g, IsGrid(g), Accepted(g), Compiles(Model(g))
  PROVE  Solutions(Model(g)) = Meaning(g)
<1> DEFINE limits == g.minValue.n .. g.maxValue.n
           content == g.content
<1>1. Model(g).domain = limits  BY JsonIs DEF Model, ParseJsonModel
<1>2. Model(g).constraints =
        ValueConstraint(content)
        \cup UNION {{Create(JsonOf(v).settings, indices) : indices \in v.groups} :
                       v \in UNION g.constraints}
  BY JsonViews, JsonIs
<1>3. ASSUME NEW q
      PROVE  (\A k \in ValueConstraint(content) : Holds(k, q))
             <=> \A c \in DOMAIN content : CellMeaning(c, content[c], q)
  <2> DEFINE valueOf(c) == [kind |-> "value", cell |-> c, value |-> content[c]]
  <2>1. ValueConstraint(content) = {valueOf(c) : c \in {d \in DOMAIN content : content[d] # Empty}}
    BY DEF ValueConstraint
  <2>2. ASSUME NEW c \in DOMAIN content, content[c] # Empty
        PROVE  Holds(valueOf(c), q) <=> CellMeaning(c, content[c], q)
    <3>1. valueOf(c).kind = "value" /\ valueOf(c).cell = c /\ valueOf(c).value = content[c]
      OBVIOUS
    <3>2. valueOf(c) \in Model(g).constraints  BY <1>2, <2>1, <2>2
    <3> HIDE DEF valueOf
    <3>3. content[c].kind = "num" \/ content[c].t \in Readable  BY <3>1, <3>2 DEF Compiles
    <3>4. content[c] \in CellContent  BY GridIs
    <3>5. Holds(valueOf(c), q) <=> HoldsValue(c, content[c], q)  BY <3>1 DEF Holds
    <3> QED  BY <2>2, <3>3, <3>4, <3>5, CellIs
  <2>3. \A c : content[c] = Empty => CellMeaning(c, content[c], q)  BY DEF CellMeaning
  <2> HIDE DEF valueOf, content
  <2> QED  BY <2>1, <2>2, <2>3
<1>4. ASSUME NEW q
      PROVE  (\A v \in UNION g.constraints : \A group \in v.groups :
                  Holds(Create(JsonOf(v).settings, group), q))
             <=> \A v \in UNION g.constraints : \A group \in v.groups :
                    GroupMeaning(v.settings, group, q)
  <2>1. ASSUME NEW v \in UNION g.constraints, NEW group \in v.groups
        PROVE  Holds(Create(JsonOf(v).settings, group), q) <=> GroupMeaning(v.settings, group, q)
    <3>1. v \in ViewMetadata  BY GridIs
    <3>2. ~CreateThrows(JsonOf(v).settings)  BY JsonViews
    <3> QED  BY <3>1, <3>2, ConstraintIs
  <2> QED  BY <2>1
<1>5. ASSUME NEW q
      PROVE  (\A k \in Model(g).constraints : Holds(k, q))
             <=> /\ \A k \in ValueConstraint(content) : Holds(k, q)
                 /\ \A v \in UNION g.constraints : \A group \in v.groups :
                       Holds(Create(JsonOf(v).settings, group), q)
  <2> HIDE DEF content
  <2> QED  BY <1>2
<1>6. \A q : q \in Solutions(Model(g))
                <=> q \in [Cells -> limits] /\ \A k \in Model(g).constraints : Holds(k, q)
  BY <1>1 DEF Solutions
<1>7. \A q : q \in Meaning(g)
                <=> /\ q \in [Cells -> limits]
                    /\ \A c \in DOMAIN content : CellMeaning(c, content[c], q)
                    /\ \A v \in UNION g.constraints : \A group \in v.groups :
                          GroupMeaning(v.settings, group, q)
  BY DEF Meaning
<1> HIDE DEF limits, content
<1>8. \A q : q \in Solutions(Model(g)) <=> q \in Meaning(g)  BY <1>3, <1>4, <1>5, <1>6, <1>7
<1>9. Meaning(g) \subseteq [Cells -> limits] /\ Solutions(Model(g)) \subseteq [Cells -> limits]
  BY <1>6, <1>7
<1> QED  BY <1>8, <1>9

\* What an answer may be.
LEMMA AnswerIs ==
  ASSUME NEW g, IsGrid(g), Accepted(g), NEW stopped,
         NEW printed \in Printed(Model(g), stopped)
  PROVE  LET answer == AnswerOf(printed) IN
         \/ answer \in {Text("ERROR"), Text("UNKNOWN"), Text("Modeleo")}
         \/ answer = Text("UNSATISFIABLE") /\ Meaning(g) = {}
         \/ \E q \in Meaning(g) :
               /\ answer = [kind |-> "array", q |-> [c \in Cells |-> Abs(q[c])]]
               /\ stopped \/ \A p \in Meaning(g) : NoWorse(g, q, p)
<1> DEFINE answer == AnswerOf(printed)
           array(q) == [kind |-> "array", q |-> q]
<1>1. \A t : Text(t).kind = "text" /\ Text(t).t = t /\ Text(t) # Null
  BY DEF Text, Null
<1>2. \A t : AnswerOf(Text(t)) = IF t = "Model error" THEN Text("Modeleo") ELSE Text(t)
  <2> TAKE t
  <2>1. Text(t).kind # "array"  BY <1>1
  <2>2. Text(t) = Text("Model error") <=> t = "Model error"  BY <1>1
  <2> QED  BY <1>1, <2>1, <2>2 DEF AnswerOf, OutputToJson
<1>3. CASE ~Compiles(Model(g))
  <2>1. printed = Null  BY <1>3 DEF Printed
  <2>2. answer = AnswerOf(Text("Model error"))  BY <1>1, <2>1 DEF AnswerOf
  <2> QED  BY <1>2, <2>2
<1>4. CASE Compiles(Model(g))
  <2>1. Solutions(Model(g)) = Meaning(g)  BY <1>4, SolutionsAreMeaning
  <2> DEFINE found == IF stopped THEN Meaning(g) ELSE Best(Model(g).solve, Meaning(g))
  <2>2. Printed(Model(g), stopped) =
          {Null, Text("ERROR")} \cup {array(q) : q \in found}
          \cup (IF stopped THEN {Text("UNKNOWN")}
                ELSE IF Meaning(g) = {} THEN {Text("UNSATISFIABLE")} ELSE {})
    BY <1>4, <2>1 DEF Printed
  <2>3. ASSUME NEW q \in found
        PROVE  q \in Meaning(g) /\ (stopped \/ \A p \in Meaning(g) : NoWorse(g, q, p))
    <3>1. Model(g).solve = g.solvingMethod  BY JsonIs DEF Model, ParseJsonModel
    <3>2. g.solvingMethod \in SolvingMethods  BY GridIs
    <3> QED  BY <3>1, <3>2 DEF Best, NoWorse, SolvingMethods
  <2>4. ASSUME NEW q
        PROVE  AnswerOf(array(q)) = [kind |-> "array", q |-> [c \in Cells |-> Abs(q[c])]]
    <3>1. array(q).kind = "array" /\ array(q).q = q  OBVIOUS
    <3>2. array(q) # Null  BY <3>1 DEF Null
    <3>3. [array(q) EXCEPT !.q = [c \in Cells |-> Abs(array(q).q[c])]]
             = [kind |-> "array", q |-> [c \in Cells |-> Abs(q[c])]]
      OBVIOUS
    <3> HIDE DEF array
    <3> QED  BY <3>1, <3>2, <3>3 DEF AnswerOf, OutputToJson
  <2> HIDE DEF found, array
  <2>5. \/ printed \in {Null, Text("ERROR"), Text("UNKNOWN")}
        \/ printed = Text("UNSATISFIABLE") /\ Meaning(g) = {}
        \/ \E q \in found : printed = array(q)
    BY <2>2
  <2>6. AnswerOf(Null) = AnswerOf(Text("Model error"))  BY <1>1 DEF AnswerOf
  <2> QED  BY <1>2, <2>3, <2>4, <2>5, <2>6
<1> QED  BY <1>3, <1>4

-----------------------------------------------------------------------------
(* The invariant *)

\* What loadSolution makes of an answer is true.
LEMMA LoadedIsTrue ==
  ASSUME IInv, OnMessage
  PROVE  ShownIsTrue'
<1>1. PICK g : /\ posted = {g} /\ IsGrid(g) /\ Accepted(g)
               /\ \E printed \in Printed(Model(g), timedOut) : message = AnswerOf(printed)
  BY DEF IInv, OnItsWay, OnMessage
<1> DEFINE solution == SolutionData(message)
           round == [grid |-> g, timedOut |-> timedOut]
           array(q) == [kind |-> "array", q |-> [c \in Cells |-> Abs(q[c])]]
<1>2. /\ \A t : Text(t).kind = "text" /\ Text(t).t = t
      /\ \A n : Num(n).kind = "num"
      /\ round.grid = g /\ round.timedOut = timedOut
  BY DEF Text, Num
<1>3. 0 \in Cells  BY CellsAssumption
<1>4. \/ message \in Failures \cup {Text("UNKNOWN")}
      \/ message = Text("UNSATISFIABLE") /\ Meaning(g) = {}
      \/ \E q \in Meaning(g) :
            message = array(q) /\ (timedOut \/ \A p \in Meaning(g) : NoWorse(g, q, p))
  <2>1. PICK printed \in Printed(Model(g), timedOut) : message = AnswerOf(printed)  BY <1>1
  <2> QED  BY <1>1, <2>1, AnswerIs DEF Failures
<1>5. answered' = IF message \in Failures THEN answered ELSE {round}
  BY <1>1 DEF OnMessage
<1>6. LoadSolution(solution, Result(message))  BY DEF OnMessage
<1> HIDE DEF round, solution
<1>7. CASE message = Text("ERROR")
  <2>1. Result(message) = "ERROR"  BY <1>2, <1>7 DEF Result
  <2>2. board' = board  BY <1>6, <2>1 DEF LoadSolution
  <2>3. answered' = answered  BY <1>5, <1>7 DEF Failures
  <2> QED  BY <2>2, <2>3 DEF IInv, ShownIsTrue, ShowsNumbers
<1>8. CASE message = Text("Modeleo")
  <2>1. Result(message) = "OK"  BY <1>2, <1>8 DEF Result
  <2>2. solution = [c \in {0} |-> Text("odele")]  BY <1>2, <1>8 DEF SolutionData, solution
  <2>3. board' = [c \in Cells |-> IF c \in DOMAIN solution THEN solution[c] ELSE board[c]]
    BY <1>6, <2>1 DEF LoadSolution
  <2>4. answered' = answered  BY <1>5, <1>8 DEF Failures
  <2>5. board'[0] = Text("odele")  BY <1>3, <2>2, <2>3
  <2>6. ~ShowsNumbers'  BY <1>2, <1>3, <2>5 DEF ShowsNumbers
  <2>7. \A c \in Cells : board'[c] = Text(":(") => board[c] = Text(":(")
    <3>1. Text("odele") # Text(":(")  BY <1>2
    <3> QED  BY <2>2, <2>3, <3>1
  <2> QED  BY <2>4, <2>6, <2>7 DEF IInv, ShownIsTrue
<1>9. CASE message = Text("UNKNOWN")
  <2>1. Result(message) = "UNKNOWN"  BY <1>2, <1>9 DEF Result
  <2>2. board' = [c \in Cells |-> Text("?")]  BY <1>6, <2>1 DEF LoadSolution
  <2> QED  BY <1>2, <1>3, <2>2 DEF ShownIsTrue, ShowsNumbers
<1>10. CASE message = Text("UNSATISFIABLE") /\ Meaning(g) = {}
  <2>1. Result(message) = "UNSATISFIABLE"  BY <1>2, <1>10 DEF Result
  <2>2. board' = [c \in Cells |-> Text(":(")]  BY <1>6, <2>1 DEF LoadSolution
  <2>3. ~ShowsNumbers'  BY <1>2, <1>3, <2>2 DEF ShowsNumbers
  <2>4. message \notin Failures  BY <1>2, <1>10 DEF Failures
  <2>5. \E r \in answered' : Meaning(r.grid) = {}  BY <1>2, <1>5, <1>10, <2>4
  <2> QED  BY <2>3, <2>5 DEF ShownIsTrue
<1>11. ASSUME NEW q \in Meaning(g), message = array(q),
              timedOut \/ \A p \in Meaning(g) : NoWorse(g, q, p)
       PROVE  ShownIsTrue'
  <2>1. message.kind = "array" /\ message.q = [c \in Cells |-> Abs(q[c])]  BY <1>11
  <2> HIDE DEF array
  <2>2. Result(message) = "OK"  BY <1>2, <2>1 DEF Result
  <2>3. solution = [c \in Cells |-> Num(Abs(q[c]))]  BY <2>1 DEF SolutionData, solution
  <2>4. board' = [c \in Cells |-> IF c \in DOMAIN solution THEN solution[c] ELSE board[c]]
    BY <1>6, <2>2 DEF LoadSolution
  <2>5. \A c \in Cells : board'[c] = Num(Abs(q[c]))  BY <2>3, <2>4
  <2>6. ~\E c \in Cells : board'[c] = Text(":(")  BY <1>2, <2>5
  <2>7. message \notin Failures  BY <1>2, <2>1 DEF Failures
  <2>8. answered' = {round}  BY <1>5, <2>7
  <2>9. \E r \in answered' : \E s \in Meaning(r.grid) :
           /\ \A c \in Cells : board'[c] = Num(Abs(s[c]))
           /\ r.timedOut \/ \A p \in Meaning(r.grid) : NoWorse(r.grid, s, p)
    BY <1>2, <1>11, <2>5, <2>8
  <2> QED  BY <2>6, <2>9 DEF ShownIsTrue
<1> HIDE DEF array
<1> QED  BY <1>4, <1>7, <1>8, <1>9, <1>10, <1>11 DEF Failures

LEMMA InitIInv == Init => IInv
<1> SUFFICES ASSUME Init PROVE IInv  OBVIOUS
<1>1. IsGrid(grid)  BY GridsAssumption DEF Init, IsGrid
<1>2. ShownIsTrue
  <2>1. Empty.kind # "num" /\ Empty # Text(":(")  BY DEF Empty, Text
  <2> QED  BY <2>1, CellsAssumption DEF Init, ShownIsTrue, ShowsNumbers
<1> QED  BY <1>1, <1>2 DEF Init, IInv

\* What the board shows stays true when it and the last answer stay.
LEMMA StaysTrue ==
  ASSUME ShownIsTrue, UNCHANGED <<board, answered>>
  PROVE  ShownIsTrue'
BY DEF ShownIsTrue, ShowsNumbers

LEMMA NextIInv == IInv /\ [Next]_vars => IInv'
<1> SUFFICES ASSUME IInv, [Next]_vars PROVE IInv'  OBVIOUS
<1>1. CASE (\E g \in Redrawn : Draw(g))
           \/ (\E method \in SolvingMethods : OnSelectionChange(method))
           \/ UNCHANGED vars
  <2>1. UNCHANGED <<at, message, board, posted, timedOut, answered>>
    BY <1>1 DEF Draw, OnSelectionChange, vars
  <2>2. IsGrid(grid')
    BY <1>1, GridsAssumption, GridIs DEF Draw, OnSelectionChange, IsGrid, IInv, vars
  <2>3. ShownIsTrue'  BY <2>1, StaysTrue DEF IInv
  <2>4. \A g : OnItsWay(g) => OnItsWay(g)'  BY <2>1 DEF OnItsWay
  <2> QED  BY <2>1, <2>2, <2>3, <2>4 DEF IInv
<1>2. CASE PostModel
  <2>1. posted' = {grid} /\ at' = "backend" /\ message' = ToJson(grid)  BY <1>2 DEF PostModel
  <2>2. OnItsWay(grid)'  BY <1>2, <2>1 DEF IInv, OnItsWay, PostModel
  <2>3. ShownIsTrue'  BY <1>2, StaysTrue DEF IInv, PostModel
  <2>4. grid' = grid  BY <1>2 DEF PostModel
  <2> QED  BY <2>1, <2>2, <2>3, <2>4 DEF IInv
<1>3. CASE HandlePost
  <2>1. PICK g : posted = {g} /\ IsGrid(g) /\ message = ToJson(g)
    BY <1>3 DEF IInv, OnItsWay, HandlePost
  <2>2. \/ at' = "page"
        \/ at' = "solver" /\ posted' = {g} /\ OnItsWay(g)'
    BY <1>3, <2>1 DEF HandlePost, OnItsWay, Accepted, Model
  <2>3. ShownIsTrue'  BY <1>3, StaysTrue DEF IInv, HandlePost
  <2>4. grid' = grid  BY <1>3 DEF HandlePost
  <2> QED  BY <2>2, <2>3, <2>4 DEF IInv
<1>4. CASE Solve
  <2>1. PICK g : posted = {g} /\ IsGrid(g) /\ Accepted(g) /\ message = Model(g)
    BY <1>4 DEF IInv, OnItsWay, Solve
  <2>2. \E printed \in Printed(Model(g), timedOut') : message' = AnswerOf(printed)
    BY <1>4, <2>1 DEF Solve, AnswerOf
  <2>3. at' = "answer" /\ posted' = {g} /\ OnItsWay(g)'
    BY <1>4, <2>1, <2>2 DEF Solve, OnItsWay
  <2>4. ShownIsTrue'  BY <1>4, StaysTrue DEF IInv, Solve
  <2>5. grid' = grid  BY <1>4 DEF Solve
  <2> QED  BY <2>3, <2>4, <2>5 DEF IInv
<1>5. CASE OnMessage
  BY <1>5, LoadedIsTrue DEF IInv, OnMessage
<1> QED  BY <1>1, <1>2, <1>3, <1>4, <1>5 DEF Next

\* What comes after each stage of a round is what the stages before have made of the
\* grid that was posted.
THEOREM Inductive == Spec => []IInv
BY InitIInv, NextIInv, PTL DEF Spec

\* For every grid, every text in its cells, and whatever MiniZinc makes of the text:
\* numbers on the solution grid are, up to their signs, a solution of the grid that was
\* answered last, and the best one unless time ran out; and a grid that is said to have
\* no solution has none.
THEOREM AnswersAreTrue == Spec => []ShownIsTrue
<1>1. IInv => ShownIsTrue  BY DEF IInv
<1> QED  BY <1>1, Inductive, PTL

\* What the README says of the result, and a run refutes, holds when the limits of the
\* grid that was answered last are natural numbers: then there is no sign to lose.
THEOREM NaturalsAreShown ==
  Spec => []((\A round \in answered : {round.grid.minValue, round.grid.maxValue}
                                         \subseteq [kind : {"num"}, n : Nat])
                => ResultIsShown)
<1>1. ShownIsTrue =>
        ((\A round \in answered : {round.grid.minValue, round.grid.maxValue}
                                     \subseteq [kind : {"num"}, n : Nat])
           => ResultIsShown)
  <2> SUFFICES ASSUME ShownIsTrue, ShowsNumbers,
                      \A round \in answered : {round.grid.minValue, round.grid.maxValue}
                                                 \subseteq [kind : {"num"}, n : Nat]
               PROVE  \E round \in answered : \E q \in Meaning(round.grid) :
                         \A c \in Cells : board[c] = Num(q[c])
    BY DEF ResultIsShown
  <2>1. PICK round \in answered : \E q \in Meaning(round.grid) :
                                     \A c \in Cells : board[c] = Num(Abs(q[c]))
    BY DEF ShownIsTrue
  <2>2. PICK q \in Meaning(round.grid) : \A c \in Cells : board[c] = Num(Abs(q[c]))
    BY <2>1
  <2>3. round.grid.minValue.n \in Nat /\ round.grid.maxValue.n \in Nat  OBVIOUS
  <2>4. \A c \in Cells : q[c] \in round.grid.minValue.n .. round.grid.maxValue.n
    BY DEF Meaning
  <2>5. \A c \in Cells : Abs(q[c]) = q[c]  BY <2>3, <2>4 DEF Abs
  <2> QED  BY <2>2, <2>5
<1> QED  BY <1>1, AnswersAreTrue, PTL

=============================================================================
