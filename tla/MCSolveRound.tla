---------------------------- MODULE MCSolveRound ----------------------------
(***************************************************************************)
(* The instances of SolveRound that TLC checks: grids of two cells with one *)
(* view of each constraint, of which one part at a time varies fully.       *)
(***************************************************************************)
EXTENDS SolveRound

CONSTANTS Depths,     \* the lowest values, negated
          Contents, Relations, Amounts

\* Another cell, a constraint that always holds, and a word that MiniZinc does not know.
MCTexts == {"q[1]", "1 \\/ true", "two"}
MCReadable == {"q[1]", "1 \\/ true"}
MCReading(c, t, q) == t = "q[1]" => q[c] = q[1]

\* An option of NaN stands for a field that does not hold a number.
OrNaN(S) == {Num(n) : n \in S} \cup {NaN}

MCContents ==
    UNION {[D -> {Num(n) : n \in Contents} \cup {Empty} \cup {Text(t) : t \in MCTexts}] :
              D \in SUBSET Cells}

CountSettings ==
    [constraint : {Text("count")}, relation : {Text(r) : r \in Relations},
     amount : OrNaN(Amounts), countedValue : OrNaN({1})]

\* No view, or one with some of two groups.
CountViews ==
    {{}} \cup {{[settings |-> s, groups |-> G]} :
                  s \in CountSettings, G \in SUBSET {{}, Cells}}

\* No view, or one of the whole grid.
AllDifferentViews ==
    {{}, {[settings |-> [constraint |-> Text("alldifferent")], groups |-> {Cells}]}}

GridsWith(lowest, highest, contents, constraints) ==
    [minValue : lowest, maxValue : highest, content : contents,
     constraints : constraints, solvingMethod : {"satisfy"}]

Lowest == {Num(-n) : n \in Depths}
NoContent == [c \in {} |-> Empty]

\* Limits that are no numbers, any contents, any constraints.
MCGrids ==
    GridsWith(Lowest \cup {NaN}, OrNaN({1}), {NoContent}, {{}})
    \cup GridsWith(Lowest, {Num(1)}, MCContents, {{A} : A \in AllDifferentViews})
    \cup GridsWith(Lowest, {Num(1)}, {NoContent},
                   {{C, A} : C \in CountViews, A \in AllDifferentViews})

\* Later the user takes everything away but the number of one cell.
MCRedrawn == GridsWith({Num(0)}, {Num(1)}, {[c \in {0} |-> Num(1)]}, {{}})
=============================================================================
