---------------------------- MODULE ViewTree_proofs ----------------------------
(***************************************************************************)
(* The tree of constraints and views, for any names, and any number of      *)
(* constraints and views: it shows the grid, and does to the views what     *)
(* ViewEvents allows.                                                      *)
(*                                                                         *)
(* ViewTree reads the flat list as the code does, searching forwards and    *)
(* backwards from an item.  The proofs say the same with a relation,        *)
(* Heads, and show first that the searches find what it relates.            *)
(***************************************************************************)
EXTENDS ViewTree, SequenceLemmas

\* In list s the item at j is a constraint, and all from there to the item at i are
\* views: the item at i is nested under it.
Heads(s, j, i) ==
    /\ j < i /\ IsConstraint(s[j])
    /\ \A k \in j + 1 .. i : ~IsConstraint(s[k])

Children(j) == {flat[i] : i \in {k \in 1 .. Len(flat) : Heads(flat, j, k)}}

\* Ids are given out in order, so the next one is new wherever it might be remembered.
IdsIssued ==
    /\ \A i \in 1 .. Len(flat) : flat[i][2] <= IF IsConstraint(flat[i]) THEN lastConstraint
                                                                      ELSE lastView
    /\ constraints \subseteq 1 .. lastConstraint /\ views \subseteq 1 .. lastView
    /\ activeConstraintId <= lastConstraint /\ activeViewId <= lastView
    /\ \A v \in ViewIds : parentOf[v] <= lastConstraint

\* Every view is under its constraint.
Nested ==
    \A i \in 1 .. Len(flat) : ~IsConstraint(flat[i]) =>
        \E j \in 1 .. i - 1 : Heads(flat, j, i) /\ flat[j] = C(parentOf[flat[i][2]])

InGridInTree ==
    /\ \A c \in constraints : \E i \in 1 .. Len(flat) : flat[i] = C(c)
    /\ \A v \in views : \E i \in 1 .. Len(flat) : flat[i] = V(v)

NoneTwice == \A i, j \in 1 .. Len(flat) : flat[i] = flat[j] => i = j

\* A constraint with views is selected exactly if all of these are.
CheckedTogether ==
    \A j \in 1 .. Len(flat) : Children(j) # {} =>
        (flat[j] \in checked <=> Children(j) \subseteq checked)

NamesDiffer == \A c, d \in constraints : nameOf[c] = nameOf[d] => c = d

\* The menu is the active constraint's, and the list is shown for the active view, which
\* is under the active constraint.
MenuFollows ==
    /\ ActiveConstraint # Nil => clickedOnConstraint = nameOf[activeConstraintId]
    /\ activeViewId \in views => parentOf[activeViewId] = activeConstraintId
    /\ clickedOnView <=> activeViewId \in views

IInv ==
    /\ TypeOK /\ IdsIssued
    /\ Nested /\ InGridInTree /\ NoneTwice
    /\ CheckedTogether /\ ViewKindMatches /\ NamesDiffer /\ MenuFollows

-----------------------------------------------------------------------------
(* Nodes *)

LEMMA NodesAre ==
  /\ \A c \in ConstraintIds : C(c) \in Nodes /\ IsConstraint(C(c)) /\ C(c)[2] = c
  /\ \A v \in ViewIds : V(v) \in Nodes /\ ~IsConstraint(V(v)) /\ V(v)[2] = v
BY DEF Nodes, C, V, IsConstraint

LEMMA NodeIs ==
  ASSUME NEW node \in Nodes
  PROVE  IF IsConstraint(node) THEN node[2] \in ConstraintIds /\ node = C(node[2])
                               ELSE node[2] \in ViewIds /\ node = V(node[2])
BY DEF Nodes, C, V, IsConstraint

-----------------------------------------------------------------------------
(* The searches *)

LEMMA BlockEndIs ==
  ASSUME flat \in Seq(Nodes), NEW i \in 1 .. Len(flat)
  PROVE  /\ BlockEnd(i) \in i .. Len(flat)
         /\ \A k \in i + 1 .. BlockEnd(i) : ~IsConstraint(flat[k])
         /\ BlockEnd(i) = Len(flat) \/ IsConstraint(flat[BlockEnd(i) + 1])
<1> DEFINE Later == {k \in i + 1 .. Len(flat) : IsConstraint(flat[k])}
           Ends(j) == /\ \A k \in i + 1 .. j : ~IsConstraint(flat[k])
                      /\ j = Len(flat) \/ IsConstraint(flat[j + 1])
<1>0. Len(flat) \in Nat  BY LenProperties
<1>1. \E j \in i .. Len(flat) : Ends(j)
  <2>1. CASE Later = {}
    <3>1. Ends(Len(flat))  BY <2>1
    <3> QED  BY <1>0, <3>1
  <2>2. CASE Later # {}
    <3>1. Later \in SUBSET Nat  BY <1>0
    <3>2. PICK x \in Later : \A y \in Later : x <= y  BY <2>2, <3>1, LeastElement
    <3>3. x - 1 \in i .. Len(flat) /\ (x - 1) + 1 = x  BY <1>0, <3>2
    <3>4. \A k \in i + 1 .. x - 1 : k \notin Later  BY <1>0, <3>2
    <3>5. Ends(x - 1)  BY <1>0, <3>2, <3>3, <3>4
    <3> QED  BY <3>3, <3>5
  <2> QED  BY <2>1, <2>2
<1>2. BlockEnd(i) = CHOOSE j \in i .. Len(flat) : Ends(j)  BY DEF BlockEnd
<1> HIDE DEF Ends
<1>3. BlockEnd(i) \in i .. Len(flat) /\ Ends(BlockEnd(i))  BY <1>1, <1>2
<1> QED  BY <1>3 DEF Ends

\* getDescendants finds what is nested under an item, which is nothing under a view.
LEMMA DescendantsAre ==
  ASSUME flat \in Seq(Nodes), NEW i \in 1 .. Len(flat)
  PROVE  Descendants(i) = Children(i)
<1>0. Len(flat) \in Nat  BY LenProperties
<1>1. CASE ~IsConstraint(flat[i])
  BY <1>1 DEF Descendants, Children, Heads
<1>2. CASE IsConstraint(flat[i])
  <2>1. ASSUME NEW k \in 1 .. Len(flat)
        PROVE  k \in i + 1 .. BlockEnd(i) <=> Heads(flat, i, k)
    <3>1. /\ BlockEnd(i) \in i .. Len(flat)
          /\ \A l \in i + 1 .. BlockEnd(i) : ~IsConstraint(flat[l])
          /\ BlockEnd(i) = Len(flat) \/ IsConstraint(flat[BlockEnd(i) + 1])
      BY BlockEndIs
    <3>2. k \in i + 1 .. BlockEnd(i) => Heads(flat, i, k)  BY <1>0, <1>2, <3>1 DEF Heads
    <3>3. ASSUME Heads(flat, i, k), BlockEnd(i) < k PROVE FALSE
      <4>1. BlockEnd(i) + 1 \in i + 1 .. k  BY <1>0, <3>1, <3>3
      <4> QED  BY <1>0, <3>1, <3>3, <4>1 DEF Heads
    <3> QED  BY <1>0, <3>1, <3>2, <3>3 DEF Heads
  <2>2. i + 1 .. BlockEnd(i) \subseteq 1 .. Len(flat)  BY <1>0, BlockEndIs
  <2> QED  BY <1>2, <2>1, <2>2 DEF Descendants, Children
<1> QED  BY <1>1, <1>2

\* An item is nested under one constraint.
LEMMA OneHead ==
  ASSUME NEW s, NEW i \in Nat, NEW j \in 1 .. i, NEW k \in 1 .. i,
         Heads(s, j, i), Heads(s, k, i)
  PROVE  j = k
<1>1. CASE j < k
  <2>1. k \in j + 1 .. i  BY <1>1
  <2> QED  BY <2>1 DEF Heads
<1>2. CASE k < j
  <2>1. j \in k + 1 .. i  BY <1>2
  <2> QED  BY <2>1 DEF Heads
<1> QED  BY <1>1, <1>2

\* getParentNode finds the constraint that an item is nested under.
LEMMA ParentIs ==
  ASSUME NEW i \in 1 .. Len(flat), flat \in Seq(Nodes),
         NEW j \in 1 .. i - 1, Heads(flat, j, i)
  PROVE  ParentIndex(i) = j
<1> DEFINE P(k) == IsConstraint(flat[k]) /\ \A l \in k + 1 .. i - 1 : ~IsConstraint(flat[l])
<1>0. Len(flat) \in Nat /\ i \in Nat  BY LenProperties
<1>1. P(j)  BY <1>0 DEF Heads
<1>2. ~IsConstraint(flat[i])  BY <1>0 DEF Heads
<1>3. ASSUME NEW k \in 1 .. i - 1, P(k) PROVE k = j
  <2>1. Heads(flat, k, i)  BY <1>0, <1>2, <1>3 DEF Heads
  <2> QED  BY <1>0, <2>1, OneHead
<1>4. ParentIndex(i) = CHOOSE k \in 1 .. i - 1 : P(k)  BY DEF ParentIndex
<1> HIDE DEF P
<1> QED  BY <1>1, <1>3, <1>4

-----------------------------------------------------------------------------
(* What every action leaves of the tree *)

\* After the tree is rebuilt nothing is selected.
LEMMA NoneChecked == checked' = {} => CheckedTogether'
BY DEF CheckedTogether

LEMMA OnAddConstraintInd ==
  ASSUME IInv, NEW name \in Names, OnAddConstraint(name)
  PROVE  IInv'
<1> DEFINE new == lastConstraint + 1
<1>0. /\ flat \in Seq(Nodes) /\ Len(flat) \in Nat
      /\ flat' = Append(flat, C(new))
      /\ lastConstraint \in Nat /\ lastConstraint' = new
      /\ new \in ConstraintIds /\ C(new) \in Nodes
      /\ constraints' = constraints \cup {new} /\ checked' = {} /\ expanded' = {}
      /\ nameOf' = [nameOf EXCEPT ![new] = name]
      /\ UNCHANGED <<lastView, views, parentOf, kindOf, activeVars, menuVars>>
  <2>1. /\ flat \in Seq(Nodes) /\ lastConstraint \in Nat
        /\ lastConstraint + 1 \in ConstraintIds
    BY MaxConstraintsAssumption DEF IInv, TypeOK, OnAddConstraint, ConstraintIds
  <2> QED  BY <2>1, LenProperties, NodesAre DEF OnAddConstraint, NewConstraint, Refresh
<1>1. /\ flat' \in Seq(Nodes) /\ Len(flat') = Len(flat) + 1
      /\ \A i \in 1 .. Len(flat) : flat'[i] = flat[i]
      /\ flat'[Len(flat) + 1] = C(new)
  BY <1>0, AppendProperties
<1>2. new \notin constraints /\ activeConstraintId # new /\ \A v \in ViewIds : parentOf[v] # new
  BY <1>0 DEF IInv, IdsIssued, TypeOK, ConstraintIds
<1>3. \A i \in 1 .. Len(flat) : flat[i] # C(new)
  BY <1>0, NodesAre DEF IInv, IdsIssued
<1>4. TypeOK'
  <2>1. stale' \subseteq Nodes
    BY <1>0, ToSetIs DEF IInv, TypeOK, OnAddConstraint, Refresh
  <2>2. nameOf' \in [ConstraintIds -> Names \cup {NoName}]  BY <1>0 DEF IInv, TypeOK
  <2>3. constraints' \subseteq ConstraintIds /\ lastConstraint' \in 0 .. MaxConstraints
    BY <1>0, MaxConstraintsAssumption DEF IInv, TypeOK, ConstraintIds
  <2> QED  BY <1>0, <1>1, <2>1, <2>2, <2>3 DEF IInv, TypeOK, activeVars, menuVars
<1>5. IdsIssued'
  <2>1. \A i \in 1 .. Len(flat) : flat[i] \in Nodes  BY <1>0, ElementOfSeq
  <2>2. \A i \in 1 .. Len(flat) :
            flat[i][2] <= IF IsConstraint(flat[i]) THEN new ELSE lastView
    <3> TAKE i \in 1 .. Len(flat)
    <3>1. flat[i][2] \in Int  BY <2>1, NodeIs DEF ConstraintIds, ViewIds
    <3> QED  BY <1>0, <3>1 DEF IInv, IdsIssued
  <2>3. \A i \in 1 .. Len(flat') :
            flat'[i][2] <= IF IsConstraint(flat'[i]) THEN new ELSE lastView
    BY <1>0, <1>1, <2>2, NodesAre
  <2>4. constraints' \subseteq 1 .. new  BY <1>0 DEF IInv, IdsIssued
  <2>5. activeConstraintId <= new /\ \A v \in ViewIds : parentOf[v] <= new
    BY <1>0 DEF IInv, IdsIssued, TypeOK, ConstraintIds, Nil
  <2> QED  BY <1>0, <2>3, <2>4, <2>5 DEF IInv, IdsIssued, activeVars
<1>6. Nested'
  <2> SUFFICES ASSUME NEW i \in 1 .. Len(flat'), ~IsConstraint(flat'[i])
               PROVE  \E j \in 1 .. i - 1 :
                          Heads(flat', j, i) /\ flat'[j] = C(parentOf[flat'[i][2]])
    BY <1>0 DEF Nested
  <2>1. i \in 1 .. Len(flat)  BY <1>0, <1>1, NodesAre
  <2>2. PICK j \in 1 .. i - 1 : Heads(flat, j, i) /\ flat[j] = C(parentOf[flat[i][2]])
    BY <1>1, <2>1 DEF IInv, Nested
  <2>3. Heads(flat', j, i)  BY <1>0, <1>1, <2>1, <2>2 DEF Heads
  <2> QED  BY <1>0, <1>1, <2>1, <2>2, <2>3
<1>7. InGridInTree'
  <2>1. \A n : (\E i \in 1 .. Len(flat) : flat[i] = n)
                  => \E i \in 1 .. Len(flat') : flat'[i] = n
    BY <1>0, <1>1
  <2>2. Len(flat) + 1 \in 1 .. Len(flat')  BY <1>0, <1>1
  <2> QED  BY <1>0, <1>1, <2>1, <2>2 DEF IInv, InGridInTree
<1>8. NoneTwice'  BY <1>0, <1>1, <1>3 DEF IInv, NoneTwice
<1>9. ViewKindMatches'
  BY <1>0, <1>2 DEF IInv, ViewKindMatches, TypeOK
<1>10. NamesDiffer'
  BY <1>0, <1>2 DEF IInv, NamesDiffer, TypeOK, OnAddConstraint
<1>11. MenuFollows'
  <2>1. ActiveConstraint' = ActiveConstraint
    BY <1>0, <1>2 DEF ActiveConstraint, activeVars
  <2>2. ActiveConstraint # Nil => nameOf'[activeConstraintId] = nameOf[activeConstraintId]
    BY <1>0, <1>2 DEF IInv, TypeOK, ActiveConstraint
  <2> QED  BY <1>0, <2>1, <2>2 DEF IInv, MenuFollows, activeVars, menuVars
<1> QED
  BY <1>0, <1>4, <1>5, <1>6, <1>7, <1>8, <1>9, <1>10, <1>11, NoneChecked DEF IInv

-----------------------------------------------------------------------------
(* Steps that leave the grid and the list as they are *)

LEMMA SameTree ==
  ASSUME IInv, UNCHANGED <<gridVars, flat>>
  PROVE  /\ Nested' /\ InGridInTree' /\ NoneTwice' /\ ViewKindMatches' /\ NamesDiffer'
         /\ \A j : Children(j)' = Children(j)
BY DEF IInv, gridVars, Nested, InGridInTree, NoneTwice, ViewKindMatches, NamesDiffer, Children

LEMMA SameActive ==
  ASSUME IInv, UNCHANGED <<gridVars, activeVars, menuVars>>
  PROVE  MenuFollows' /\ ActiveConstraint' = ActiveConstraint
BY DEF IInv, gridVars, activeVars, menuVars, MenuFollows, ActiveConstraint

LEMMA SameIds ==
  ASSUME IInv, UNCHANGED <<gridVars, activeVars, flat>>
  PROVE  IdsIssued'
BY DEF IInv, gridVars, activeVars, IdsIssued

LEMMA ToggleExpandedInd ==
  ASSUME IInv, NEW i \in 1 .. Len(flat), ToggleExpanded(i)
  PROVE  IInv'
<1>1. UNCHANGED <<gridVars, activeVars, flat, checked, stale, menuVars>>
  BY DEF ToggleExpanded
<1>2. expanded' \subseteq ToSet(flat)
  BY ToSetIs DEF IInv, TypeOK, ToggleExpanded
<1>3. TypeOK'  BY <1>1, <1>2 DEF IInv, TypeOK, gridVars, activeVars, menuVars
<1>4. CheckedTogether'
  BY <1>1, SameTree DEF IInv, CheckedTogether
<1> QED  BY <1>1, <1>3, <1>4, SameTree, SameActive, SameIds DEF IInv

-----------------------------------------------------------------------------
(* Clicks *)

\* After a step the active view is in the grid exactly if its id is: its constraint is
\* the active one.
LEMMA ActiveViewIs ==
  ASSUME TypeOK', ViewKindMatches',
         activeViewId' \in views' => parentOf'[activeViewId'] = activeConstraintId'
  PROVE  ActiveView' # Nil <=> activeViewId' \in views'
BY DEF TypeOK, ViewKindMatches, ActiveView, ActiveConstraint, ConstraintIds, ViewIds, Nil

LEMMA OnClickItemInd ==
  ASSUME IInv, NEW i \in 1 .. Len(flat), OnClickItem(flat[i])
  PROVE  IInv'
<1> DEFINE node == flat[i]
<1>0. flat \in Seq(Nodes) /\ Len(flat) \in Nat /\ node \in Nodes
  BY LenProperties, ElementOfSeq DEF IInv, TypeOK
<1>1. UNCHANGED <<gridVars, treeVars>>  BY DEF OnClickItem
<1>4. /\ activeConstraintId' \in ConstraintIds /\ activeConstraintId' <= lastConstraint
      /\ activeViewId' \in ViewIds \cup {Nil} /\ activeViewId' <= lastView
      /\ activeViewId' \in views => parentOf[activeViewId'] = activeConstraintId'
  <2>1. CASE IsConstraint(node)
    <3>1. /\ node[2] \in ConstraintIds /\ node[2] <= lastConstraint
          /\ activeConstraintId' = node[2] /\ activeViewId' = Nil
      BY <1>0, <2>1, NodeIs DEF IInv, IdsIssued, OnClickItem
    <3>2. Nil \notin views /\ Nil <= lastView  BY DEF IInv, TypeOK, ViewIds, Nil
    <3> QED  BY <3>1, <3>2
  <2>2. CASE ~IsConstraint(node)
    <3>1. /\ node[2] \in ViewIds /\ node[2] <= lastView
          /\ activeConstraintId' = parentOf[node[2]] /\ activeViewId' = node[2]
      BY <1>0, <2>2, NodeIs DEF IInv, IdsIssued, OnClickItem
    <3>2. PICK j \in 1 .. i - 1 : Heads(flat, j, i) /\ flat[j] = C(parentOf[node[2]])
      BY <2>2 DEF IInv, Nested
    <3>3. j \in 1 .. Len(flat) /\ flat[j] \in Nodes  BY <1>0, <3>2, ElementOfSeq
    <3>0. IsConstraint(flat[j]) /\ flat[j][2] = parentOf[node[2]]
      BY <3>2 DEF Heads, C
    <3>4. parentOf[node[2]] \in ConstraintIds /\ parentOf[node[2]] <= lastConstraint
      BY <3>0, <3>3, NodeIs DEF IInv, IdsIssued
    <3> QED  BY <3>1, <3>4
  <2> QED  BY <2>1, <2>2
<1>5. /\ clickedOnConstraint' = IF ActiveConstraint' = Nil THEN clickedOnConstraint
                                ELSE nameOf'[ActiveConstraint']
      /\ clickedOnView' = (ActiveView' # Nil)
  BY DEF OnClickItem, ViewChanged
<1>6. ActiveConstraint' # Nil => ActiveConstraint' = activeConstraintId'
  BY DEF ActiveConstraint
<1>7. clickedOnConstraint' \in Names \cup {NoName}
  BY <1>1, <1>4, <1>5, <1>6 DEF IInv, TypeOK, gridVars
<1>8. TypeOK'
  BY <1>1, <1>4, <1>5, <1>7 DEF IInv, TypeOK, gridVars, treeVars
<1>9. IdsIssued'  BY <1>1, <1>4 DEF IInv, IdsIssued, gridVars, treeVars
<1>10. CheckedTogether'  BY <1>1, SameTree DEF IInv, CheckedTogether, treeVars
<1>11. ViewKindMatches'  BY <1>1, SameTree DEF treeVars
<1>12. MenuFollows'
  <2>1. activeViewId' \in views' => parentOf'[activeViewId'] = activeConstraintId'
    BY <1>1, <1>4 DEF gridVars
  <2>2. ActiveView' # Nil <=> activeViewId' \in views'
    BY <1>8, <1>11, <2>1, ActiveViewIs
  <2> QED  BY <1>1, <1>5, <1>6, <2>1, <2>2 DEF MenuFollows, gridVars
<1> QED  BY <1>1, <1>8, <1>9, <1>10, <1>12, SameTree DEF IInv, treeVars

-----------------------------------------------------------------------------
(* Selection *)

LEMMA ChildrenAre ==
  ASSUME flat \in Seq(Nodes), NoneTwice, NEW i \in 1 .. Len(flat), NEW j \in 1 .. Len(flat)
  PROVE  /\ Children(i) \subseteq ToSet(flat)
         /\ Children(i) # {} => IsConstraint(flat[i])
         /\ \A n \in Children(i) : ~IsConstraint(n)
         /\ i # j => Children(i) \cap Children(j) = {}
<1>0. Len(flat) \in Nat  BY LenProperties
<1>1. \A k \in 1 .. Len(flat) : Heads(flat, i, k) => IsConstraint(flat[i]) /\ ~IsConstraint(flat[k])
  BY <1>0 DEF Heads
<1>2. ASSUME NEW n, n \in Children(i), n \in Children(j) PROVE i = j
  <2>1. PICK k \in 1 .. Len(flat) : n = flat[k] /\ Heads(flat, i, k)  BY <1>2 DEF Children
  <2>2. PICK l \in 1 .. Len(flat) : n = flat[l] /\ Heads(flat, j, l)  BY <1>2 DEF Children
  <2>3. k = l  BY <2>1, <2>2 DEF NoneTwice
  <2> QED  BY <1>0, <2>1, <2>2, <2>3, OneHead DEF Heads
<1>3. Children(i) \subseteq ToSet(flat)  BY ToSetIs DEF Children
<1> QED  BY <1>1, <1>2, <1>3 DEF Children


\* What stays when only the selection changes.
LEMMA NewSelection ==
  ASSUME IInv, CheckedTogether', checked' \subseteq ToSet(flat),
         UNCHANGED <<gridVars, activeVars, flat, stale, expanded, menuVars>>
  PROVE  IInv'
<1>1. TypeOK'  BY DEF IInv, TypeOK, gridVars, activeVars, menuVars
<1> QED  BY <1>1, SameTree, SameActive, SameIds DEF IInv

LEMMA ParentSelectionToggleInd ==
  ASSUME IInv, NEW i \in 1 .. Len(flat), ParentSelectionToggle(i)
  PROVE  IInv'
<1> DEFINE block == {flat[i]} \cup Children(i)
<1>0. flat \in Seq(Nodes) /\ NoneTwice /\ checked \subseteq ToSet(flat) /\ Len(flat) \in Nat
  BY LenProperties DEF IInv, TypeOK
<1>1. /\ Children(i) # {}
      /\ checked' = IF flat[i] \in checked THEN checked \ block ELSE checked \cup block
      /\ UNCHANGED <<gridVars, activeVars, flat, stale, expanded, menuVars>>
  BY <1>0, DescendantsAre DEF ParentSelectionToggle
<1>2. ASSUME NEW j \in 1 .. Len(flat), Children(j) # {}
      PROVE  flat[j] \in checked' <=> Children(j) \subseteq checked'
  <2>1. CASE j = i  BY <1>1, <2>1
  <2>2. CASE j # i
    <3>1. flat[j] # flat[i]  BY <1>0, <2>2 DEF NoneTwice
    <3>2. flat[j] \notin Children(i) /\ flat[i] \notin Children(j)
      BY <1>0, <1>1, <1>2, ChildrenAre
    <3>3. Children(j) \cap block = {}  BY <1>0, <2>2, <3>2, ChildrenAre
    <3>4. flat[j] \in checked' <=> flat[j] \in checked  BY <1>1, <3>1, <3>2
    <3>5. Children(j) \subseteq checked' <=> Children(j) \subseteq checked
      BY <1>1, <3>3
    <3> QED  BY <1>2, <3>4, <3>5 DEF IInv, CheckedTogether
  <2> QED  BY <2>1, <2>2
<1>3. CheckedTogether'  BY <1>1, <1>2, SameTree DEF CheckedTogether
<1>4. checked' \subseteq ToSet(flat)
  <2>1. block \subseteq ToSet(flat)  BY <1>0, ToSetIs, ChildrenAre
  <2> QED  BY <1>0, <1>1, <2>1
<1> QED  BY <1>1, <1>3, <1>4, NewSelection

LEMMA LeafSelectionToggleInd ==
  ASSUME IInv, NEW i \in 1 .. Len(flat), LeafSelectionToggle(i)
  PROVE  IInv'
<1> DEFINE selected == IF flat[i] \in checked THEN checked \ {flat[i]}
                       ELSE checked \cup {flat[i]}
<1>0. flat \in Seq(Nodes) /\ NoneTwice /\ checked \subseteq ToSet(flat) /\ Len(flat) \in Nat
  BY LenProperties DEF IInv, TypeOK
<1>1. /\ Children(i) = {}
      /\ checked' = CheckParentSelection(i, selected)
      /\ UNCHANGED <<gridVars, activeVars, flat, stale, expanded, menuVars>>
  BY <1>0, DescendantsAre DEF LeafSelectionToggle
<1>2. selected \subseteq ToSet(flat)  BY <1>0, ToSetIs
<1>3. ASSUME NEW j \in 1 .. Len(flat), Children(j) # {}
      PROVE  j # i /\ flat[j] # flat[i] /\ IsConstraint(flat[j])
             /\ (flat[j] \in checked <=> Children(j) \subseteq checked)
  BY <1>0, <1>1, <1>3, ChildrenAre DEF IInv, CheckedTogether, NoneTwice
<1>4. CASE IsConstraint(flat[i])
  <2>1. checked' = selected  BY <1>1, <1>4 DEF CheckParentSelection
  <2>2. ASSUME NEW j \in 1 .. Len(flat), Children(j) # {}
        PROVE  flat[j] \in checked' <=> Children(j) \subseteq checked'
    <3>1. flat[i] \notin Children(j)  BY <1>0, <1>4, ChildrenAre
    <3> QED  BY <1>3, <2>1, <2>2, <3>1
  <2>3. CheckedTogether'  BY <1>1, <2>2, SameTree DEF CheckedTogether
  <2> QED  BY <1>1, <1>2, <2>1, <2>3, NewSelection
<1>5. CASE ~IsConstraint(flat[i])
  <2>1. PICK p \in 1 .. i - 1 : Heads(flat, p, i)  BY <1>5 DEF IInv, Nested
  <2>2. p \in 1 .. Len(flat) /\ ParentIndex(i) = p /\ Descendants(p) = Children(p)
    BY <1>0, <2>1, ParentIs, DescendantsAre
  <2>3. checked' = IF Children(p) \subseteq selected THEN selected \cup {flat[p]}
                   ELSE selected \ {flat[p]}
    BY <1>1, <1>5, <2>2 DEF CheckParentSelection
  <2>4. flat[i] \in Children(p) /\ IsConstraint(flat[p])  BY <2>1 DEF Children, Heads
  <2>5. ASSUME NEW j \in 1 .. Len(flat), Children(j) # {}
        PROVE  flat[j] \in checked' <=> Children(j) \subseteq checked'
    <3>1. flat[p] \notin Children(j)  BY <1>0, <2>2, <2>4, ChildrenAre
    <3>2. CASE j = p  BY <2>3, <3>1, <3>2
    <3>3. CASE j # p
      <4>1. flat[j] # flat[p]  BY <1>0, <2>2, <3>3 DEF NoneTwice
      <4>2. flat[i] \notin Children(j)  BY <1>0, <2>2, <2>4, <3>3, ChildrenAre
      <4>3. flat[j] \in checked' <=> flat[j] \in checked
        BY <1>3, <2>3, <2>5, <4>1
      <4>4. Children(j) \subseteq checked' <=> Children(j) \subseteq checked
        BY <2>3, <3>1, <4>2
      <4> QED  BY <1>3, <2>5, <4>3, <4>4
    <3> QED  BY <3>2, <3>3
  <2>6. CheckedTogether'  BY <1>1, <2>5, SameTree DEF CheckedTogether
  <2>7. checked' \subseteq ToSet(flat)  BY <1>0, <1>2, <2>2, <2>3, ToSetIs
  <2> QED  BY <1>1, <2>6, <2>7, NewSelection
<1> QED  BY <1>4, <1>5

-----------------------------------------------------------------------------
(* A new view *)

LEMMA OnAddViewInd ==
  ASSUME IInv, OnAddView
  PROVE  IInv'
<1> DEFINE new == lastView + 1
           a == activeConstraintId
<1>0. /\ flat \in Seq(Nodes) /\ Len(flat) \in Nat
      /\ \A k \in 1 .. Len(flat) : flat[k] \in Nodes
      /\ lastView \in Nat /\ lastView' = new /\ new \in ViewIds
      /\ V(new) \in Nodes /\ ~IsConstraint(V(new)) /\ V(new)[2] = new
      /\ a \in constraints /\ a \in ConstraintIds /\ ActiveConstraint = a
      /\ clickedOnConstraint \in Names /\ clickedOnConstraint = nameOf[a]
      /\ views' = views \cup {new}
      /\ parentOf' = [parentOf EXCEPT ![new] = a]
      /\ kindOf' = [kindOf EXCEPT ![new] = clickedOnConstraint]
      /\ UNCHANGED <<lastConstraint, constraints, nameOf, activeVars, menuVars>>
  <2>1. /\ flat \in Seq(Nodes) /\ lastView \in Nat
        /\ lastView + 1 \in ViewIds
    BY MaxViewsAssumption DEF IInv, TypeOK, OnAddView, ViewIds
  <2>2. ActiveConstraint = a /\ a \in constraints /\ a \in ConstraintIds
    BY DEF OnAddView, ActiveConstraint, IInv, TypeOK
  <2>3. clickedOnConstraint = nameOf[a]
    BY <2>2 DEF OnAddView, IInv, MenuFollows
  <2> QED  BY <2>1, <2>2, <2>3, LenProperties, ElementOfSeq, NodesAre DEF OnAddView, NewView
<1>1. PICK i \in 1 .. Len(flat) :
          flat[i] = C(a) /\ flat' = InsertAt(flat, BlockEnd(i) + 1, V(new))
  <2>1. C(a) \in ToSet(flat)  BY <1>0, ToSetIs DEF IInv, InGridInTree
  <2>2. AddSecondLevelNode(new)  BY <1>0, <2>1 DEF OnAddView, NewView
  <2> QED  BY <1>0, <2>2 DEF AddSecondLevelNode
<1> DEFINE pos == BlockEnd(i) + 1
<1>2. /\ checked' = {} /\ stale' = stale \cup checked
      /\ expanded' \subseteq ToSet(flat')
  <2>1. C(a) \in ToSet(flat)  BY <1>0, ToSetIs DEF IInv, InGridInTree
  <2>2. Refresh /\ ExpandByName(a)
    BY <1>0, <2>1 DEF OnAddView, AddSecondLevelNode
  <2> QED  BY <2>2 DEF Refresh, ExpandByName, ToSet
<1>3. /\ pos \in i + 1 .. Len(flat) + 1
      /\ \A k \in i + 1 .. pos - 1 : ~IsConstraint(flat[k])
      /\ pos \in 1 .. Len(flat) => IsConstraint(flat[pos])
  BY <1>0, BlockEndIs
<1>4. /\ flat' \in Seq(Nodes) /\ Len(flat') = Len(flat) + 1
      /\ \A k \in 1 .. Len(flat) + 1 :
            flat'[k] = IF k < pos THEN flat[k] ELSE IF k = pos THEN V(new) ELSE flat[k - 1]
  <2>1. pos \in 1 .. Len(flat) + 1  BY <1>0, <1>3
  <2>2. flat' = InsertAt(flat, pos, V(new))  BY <1>1
  <2> DEFINE node == V(new)
  <2>3. node \in Nodes  BY <1>0
  <2> HIDE DEF pos, node
  <2>4. /\ InsertAt(flat, pos, node) \in Seq(Nodes)
        /\ Len(InsertAt(flat, pos, node)) = Len(flat) + 1
        /\ \A k \in 1 .. Len(flat) + 1 : InsertAt(flat, pos, node)[k] =
              IF k < pos THEN flat[k] ELSE IF k = pos THEN node ELSE flat[k - 1]
    BY <1>0, <2>1, <2>3, InsertAtIs
  <2> QED  BY <2>2, <2>4 DEF node
<1> HIDE DEF pos
<1>5. /\ new \notin views /\ activeViewId # new
      /\ \A k \in 1 .. Len(flat) : flat[k] # V(new)
      /\ \A k \in 1 .. Len(flat) : ~IsConstraint(flat[k]) =>
            flat[k][2] \in ViewIds /\ flat[k][2] # new
  <2>1. \A k \in 1 .. Len(flat) : ~IsConstraint(flat[k]) =>
            flat[k][2] \in ViewIds /\ flat[k][2] # new
    BY <1>0, NodeIs DEF IInv, IdsIssued, ViewIds
  <2>2. new \notin views /\ activeViewId # new
    BY <1>0 DEF IInv, IdsIssued, TypeOK, ViewIds, Nil
  <2> QED  BY <1>0, <2>1, <2>2
<1>6. TypeOK'
  <2>1. stale' \subseteq Nodes  BY <1>0, <1>2, ToSetIs DEF IInv, TypeOK
  <2>2. views' \subseteq ViewIds /\ lastView' \in 0 .. MaxViews
    BY <1>0, MaxViewsAssumption DEF IInv, TypeOK, ViewIds
  <2>3. /\ parentOf' \in [ViewIds -> ConstraintIds \cup {Nil}]
        /\ kindOf' \in [ViewIds -> Names \cup {NoName}]
    BY <1>0 DEF IInv, TypeOK
  <2> QED  BY <1>0, <1>2, <1>4, <2>1, <2>2, <2>3 DEF IInv, TypeOK, activeVars, menuVars
<1>7. \A n : (\E k \in 1 .. Len(flat') : flat'[k] = n)
                <=> n = V(new) \/ \E k \in 1 .. Len(flat) : flat[k] = n
  <2>1. pos \in 1 .. Len(flat')  BY <1>0, <1>3, <1>4
  <2>2. \A k \in 1 .. Len(flat') :
            flat'[k] = V(new) \/ \E l \in 1 .. Len(flat) : flat[l] = flat'[k]
    <3> TAKE k \in 1 .. Len(flat')
    <3>1. CASE k < pos  BY <1>0, <1>3, <1>4, <3>1
    <3>2. CASE k > pos
      <4>1. k - 1 \in 1 .. Len(flat) /\ flat'[k] = flat[k - 1]  BY <1>0, <1>3, <1>4, <3>2
      <4> QED  BY <4>1
    <3> QED  BY <1>0, <1>3, <1>4, <3>1, <3>2
  <2>3. ASSUME NEW k \in 1 .. Len(flat) PROVE \E l \in 1 .. Len(flat') : flat'[l] = flat[k]
    <3>1. CASE k < pos  BY <1>0, <1>4, <3>1
    <3>2. CASE ~(k < pos)
      <4>1. k + 1 \in 1 .. Len(flat') /\ flat'[k + 1] = flat[k]
        BY <1>0, <1>3, <1>4, <3>2
      <4> QED  BY <4>1
    <3> QED  BY <3>1, <3>2
  <2> QED  BY <1>0, <1>3, <1>4, <2>1, <2>2, <2>3
<1>8. IdsIssued'
  <2>1. \A k \in 1 .. Len(flat) :
            flat[k][2] <= IF IsConstraint(flat[k]) THEN lastConstraint ELSE new
    <3> TAKE k \in 1 .. Len(flat)
    <3>1. flat[k][2] \in Int  BY <1>0, NodeIs DEF ConstraintIds, ViewIds
    <3> QED  BY <1>0, <3>1 DEF IInv, IdsIssued
  <2>2. \A k \in 1 .. Len(flat') :
            flat'[k][2] <= IF IsConstraint(flat'[k]) THEN lastConstraint ELSE new
    <3> TAKE k \in 1 .. Len(flat')
    <3>1. flat'[k] = V(new) \/ \E l \in 1 .. Len(flat) : flat[l] = flat'[k]  BY <1>7
    <3>2. new <= new  BY <1>0
    <3> QED  BY <1>0, <2>1, <3>1, <3>2
  <2>3. views' \subseteq 1 .. new /\ activeViewId <= new
    BY <1>0 DEF IInv, IdsIssued, TypeOK, ViewIds, Nil
  <2>4. \A v \in ViewIds : parentOf'[v] <= lastConstraint
    BY <1>0 DEF IInv, IdsIssued, TypeOK
  <2> QED  BY <1>0, <2>2, <2>3, <2>4 DEF IInv, IdsIssued, activeVars
<1>9. Nested'
  <2> SUFFICES ASSUME NEW k \in 1 .. Len(flat'), ~IsConstraint(flat'[k])
               PROVE  \E j \in 1 .. k - 1 :
                          Heads(flat', j, k) /\ flat'[j] = C(parentOf'[flat'[k][2]])
    BY DEF Nested
  <2>1. CASE k < pos
    <3>1. k \in 1 .. Len(flat) /\ flat'[k] = flat[k]  BY <1>0, <1>3, <1>4, <2>1
    <3>2. PICK j \in 1 .. k - 1 : Heads(flat, j, k) /\ flat[j] = C(parentOf[flat[k][2]])
      BY <3>1 DEF IInv, Nested
    <3>3. \A l \in j .. k : flat'[l] = flat[l]  BY <1>0, <1>3, <1>4, <2>1
    <3>4. Heads(flat', j, k)
      <4>1. flat'[j] = flat[j] /\ \A l \in j + 1 .. k : flat'[l] = flat[l]
        BY <1>0, <3>2, <3>3
      <4> QED  BY <3>2, <4>1 DEF Heads
    <3>5. parentOf'[flat[k][2]] = parentOf[flat[k][2]]  BY <1>0, <1>5, <3>1 DEF IInv, TypeOK
    <3> QED  BY <3>1, <3>2, <3>3, <3>4, <3>5
  <2>2. CASE k = pos
    <3>1. i \in 1 .. k - 1 /\ flat'[i] = C(a)  BY <1>0, <1>1, <1>3, <1>4, <2>2
    <3>2. flat'[k] = V(new) /\ parentOf'[new] = a  BY <1>0, <1>4, <2>2 DEF IInv, TypeOK
    <3>3. \A l \in i + 1 .. k : ~IsConstraint(flat'[l])
      <4> TAKE l \in i + 1 .. k
      <4>1. CASE l = k  BY <1>0, <1>4, <2>2, <4>1, NodesAre
      <4>2. CASE l < k
        <5>1. l \in Int /\ i + 1 <= l /\ l <= pos - 1  BY <1>0, <1>3, <2>2, <4>2
        <5>2. l \in i + 1 .. pos - 1 /\ l \in 1 .. Len(flat) + 1  BY <1>0, <1>3, <5>1
        <5>3. flat'[l] = flat[l]  BY <1>0, <1>3, <1>4, <5>1, <5>2
        <5> QED  BY <1>3, <5>2, <5>3
      <4> QED  BY <1>0, <4>1, <4>2
    <3>4. Heads(flat', i, k)  BY <1>0, <3>1, <3>3, NodesAre DEF Heads
    <3> QED  BY <1>0, <3>1, <3>2, <3>4
  <2>3. CASE k > pos
    <3>1. k - 1 \in 1 .. Len(flat) /\ flat'[k] = flat[k - 1] /\ pos <= k - 1
      BY <1>0, <1>3, <1>4, <2>3
    <3>2. PICK j \in 1 .. k - 1 - 1 :
              Heads(flat, j, k - 1) /\ flat[j] = C(parentOf[flat[k - 1][2]])
      BY <3>1 DEF IInv, Nested
    <3>3. IsConstraint(flat[pos])  BY <1>0, <1>3, <3>1
    <3>4. pos <= j  BY <1>0, <1>3, <3>1, <3>2, <3>3 DEF Heads
    <3>5. \A l \in j + 1 .. k : flat'[l] = flat[l - 1]
      BY <1>0, <1>3, <1>4, <3>4
    <3>6. j + 1 \in 1 .. k - 1 /\ flat'[j + 1] = flat[j]
      <4>1. j \in Nat /\ k \in Nat /\ j <= k - 2  BY <1>0, <3>1, <3>2
      <4>2. j + 1 \in j + 1 .. k /\ j + 1 - 1 = j  BY <4>1
      <4>3. flat'[j + 1] = flat[j]  BY <3>5, <4>2
      <4> QED  BY <3>2, <4>1, <4>3
    <3>7. ASSUME NEW l \in j + 1 + 1 .. k PROVE ~IsConstraint(flat'[l])
      <4>1. l - 1 \in j + 1 .. k - 1 /\ flat'[l] = flat[l - 1]  BY <1>0, <3>5
      <4> QED  BY <3>2, <4>1 DEF Heads
    <3>8. Heads(flat', j + 1, k)  BY <1>0, <3>2, <3>6, <3>7 DEF Heads
    <3>9. parentOf'[flat[k - 1][2]] = parentOf[flat[k - 1][2]]
      BY <1>0, <1>5, <3>1 DEF IInv, TypeOK
    <3> QED  BY <3>1, <3>2, <3>6, <3>8, <3>9
  <2> QED  BY <1>0, <1>3, <1>4, <2>1, <2>2, <2>3
<1>10. InGridInTree'  BY <1>0, <1>7 DEF IInv, InGridInTree
<1>11. NoneTwice'
  <2> SUFFICES ASSUME NEW k \in 1 .. Len(flat'), NEW l \in 1 .. Len(flat'), flat'[k] = flat'[l]
               PROVE  k = l
    BY DEF NoneTwice
  <2> DEFINE old(m) == IF m < pos THEN m ELSE m - 1
  <2>1. \A m \in 1 .. Len(flat') : m # pos => old(m) \in 1 .. Len(flat) /\ flat'[m] = flat[old(m)]
    BY <1>0, <1>3, <1>4
  <2>2. flat'[pos] = V(new)  BY <1>0, <1>3, <1>4
  <2>3. k # pos /\ l # pos => old(k) = old(l)  BY <2>1 DEF IInv, NoneTwice
  <2>4. \A m \in 1 .. Len(flat') : m # pos => flat'[m] # V(new)  BY <1>5, <2>1
  <2>5. CASE k = pos \/ l = pos  BY <2>2, <2>4, <2>5
  <2>6. CASE k # pos /\ l # pos
    <3>1. pos \in Int /\ k \in Int /\ l \in Int /\ old(k) = old(l)  BY <1>0, <1>3, <2>3, <2>6
    <3> QED  BY <2>6, <3>1
  <2> QED  BY <2>5, <2>6
<1>12. ViewKindMatches'
  BY <1>0, <1>5 DEF IInv, ViewKindMatches, TypeOK
<1>13. MenuFollows'
  <2>1. ActiveConstraint' = ActiveConstraint  BY <1>0 DEF ActiveConstraint, activeVars
  <2>2. activeViewId \in views => parentOf'[activeViewId] = parentOf[activeViewId]
    BY <1>0, <1>5 DEF IInv, TypeOK
  <2> QED  BY <1>0, <1>5, <2>1, <2>2 DEF IInv, MenuFollows, activeVars, menuVars
<1>14. NamesDiffer'  BY <1>0 DEF IInv, NamesDiffer
<1> QED
  BY <1>2, <1>6, <1>8, <1>9, <1>10, <1>11, <1>12, <1>13, <1>14, NoneChecked DEF IInv

-----------------------------------------------------------------------------
(* Deletion *)

\* The filtered list is the old one without what is selected: f tells where its items
\* stood, in their order, and leaves out no item that is not selected.
LEMMA UnselectedIs ==
  ASSUME flat \in Seq(Nodes), Unselected
  PROVE  /\ flat' \in Seq(Nodes) /\ Len(flat') \in Nat
         /\ \E f \in [1 .. Len(flat') -> 1 .. Len(flat)] :
              /\ \A k, l \in 1 .. Len(flat') : k < l <=> f[k] < f[l]
              /\ \A k \in 1 .. Len(flat') : flat'[k] = flat[f[k]] /\ flat[f[k]] \notin checked
              /\ \A i \in 1 .. Len(flat) :
                    flat[i] \notin checked => \E k \in 1 .. Len(flat') : f[k] = i
<1> DEFINE kept == {i \in 1 .. Len(flat) : flat[i] \notin checked}
           n == Cardinality(kept)
<1>0. Len(flat) \in Nat /\ DOMAIN flat = 1 .. Len(flat)
      /\ \A i \in 1 .. Len(flat) : flat[i] \in Nodes
  BY LenProperties, ElementOfSeq
<1>1. IsFiniteSet(kept) /\ n \in Nat
  <2>1. IsFiniteSet(1 .. Len(flat)) /\ kept \in SUBSET (1 .. Len(flat))  BY <1>0, FS_Interval
  <2> HIDE DEF kept
  <2>2. IsFiniteSet(kept)  BY <2>1, FS_Subset
  <2> QED  BY <2>2, FS_CardinalityType
<1>2. PICK place \in [1 .. n -> kept] :
          /\ \A j, k \in 1 .. n : j < k => place[j] < place[k]
          /\ flat' = [k \in 1 .. n |-> flat[place[k]]]
  <2>1. PICK place \in [1 .. n -> kept] :
            /\ \A j, k \in DOMAIN place : j < k => place[j] < place[k]
            /\ flat' = [k \in DOMAIN place |-> flat[place[k]]]
    BY <1>0 DEF Unselected
  <2>2. DOMAIN place = 1 .. n  OBVIOUS
  <2> QED  BY <2>1, <2>2
<1> HIDE DEF n
<1>3. \A k \in 1 .. n : place[k] \in kept  BY <1>2
<1>4. flat' \in Seq(Nodes) /\ Len(flat') = n
  <2>1. \A k \in 1 .. n : flat[place[k]] \in Nodes  BY <1>0, <1>3
  <2>2. flat' \in [1 .. n -> Nodes]  BY <1>2, <2>1
  <2> QED  BY <1>1, <1>2, <2>2, LenProperties, SeqDef
<1>5. \A k, l \in 1 .. n : k < l <=> place[k] < place[l]
  <2>1. \A k \in 1 .. n : place[k] \in Int  BY <1>0, <1>3
  <2> QED  BY <1>1, <1>2, <2>1
<1>6. place \in Surjection(1 .. n, kept)
  <2>1. \A k, l \in 1 .. n : place[k] = place[l] => k = l
    <3>1. \A k \in 1 .. n : place[k] \in Int  BY <1>0, <1>3
    <3> QED  BY <1>1, <1>5, <3>1
  <2>2. place \in Injection(1 .. n, kept)  BY <1>2, <2>1 DEF Injection, IsInjective
  <2>3. Cardinality(1 .. n) = n  BY <1>1, FS_Interval
  <2> QED  BY <1>1, <2>2, <2>3, FS_Injection DEF n
<1>7. \A i \in kept : \E k \in 1 .. n : place[k] = i  BY <1>6 DEF Surjection
<1>8. place \in [1 .. Len(flat') -> 1 .. Len(flat)]  BY <1>2, <1>4
<1>9. \A k \in 1 .. n : flat'[k] = flat[place[k]] /\ flat[place[k]] \notin checked
  BY <1>2, <1>3
<1> QED  BY <1>1, <1>4, <1>5, <1>7, <1>8, <1>9

\* No deletion separates a view from its constraint.
LEMMA HeadStays ==
  ASSUME IInv, NEW i \in 1 .. Len(flat), flat[i] \notin checked,
         NEW j \in 1 .. i - 1, Heads(flat, j, i)
  PROVE  flat[j] \notin checked
<1>0. Len(flat) \in Nat  BY LenProperties DEF IInv, TypeOK
<1>1. flat[i] \in Children(j) /\ j \in 1 .. Len(flat)  BY <1>0 DEF Children
<1> QED  BY <1>1 DEF IInv, CheckedTogether

LEMMA DeletionIs ==
  ASSUME IInv, OnDeleteSelected
  PROVE  /\ constraints' = {c \in constraints : C(c) \notin checked \cup stale}
         /\ views' = {v \in views : V(v) \notin checked \cup stale /\ parentOf[v] \in constraints'}
         /\ checked' = {} /\ stale' = {} /\ expanded' = {} /\ Unselected
         /\ activeViewId' \in {activeViewId, Nil}
         /\ activeViewId' = Nil => activeViewId \notin views'
         /\ activeConstraintId' \in {activeConstraintId, Nil}
         /\ activeConstraintId' = Nil => activeConstraintId \notin constraints'
         /\ UNCHANGED <<lastConstraint, lastView, nameOf, parentOf, kindOf>>
         /\ ViewChanged
<1>1. /\ constraints' = {c \in constraints : C(c) \notin checked \cup stale}
      /\ views' = {v \in views : V(v) \notin checked \cup stale /\ parentOf[v] \in constraints'}
  BY DEF OnDeleteSelected, CleanConstraints
<1>2. /\ ActiveView # Nil => ActiveView = activeViewId
      /\ ActiveConstraint # Nil => ActiveConstraint = activeConstraintId
  BY DEF ActiveView, ActiveConstraint
<1>3. Nil \notin views /\ Nil \notin constraints
  BY DEF IInv, TypeOK, ViewIds, ConstraintIds, Nil
<1>4. activeViewId' \in {activeViewId, Nil} /\ (activeViewId' = Nil => activeViewId \notin views')
  <2>1. activeViewId' = IF ActiveView # Nil /\ V(ActiveView) \in checked \cup stale THEN Nil
                        ELSE activeViewId
    BY DEF OnDeleteSelected
  <2> QED  BY <1>1, <1>2, <1>3, <2>1
<1>5. /\ activeConstraintId' \in {activeConstraintId, Nil}
      /\ activeConstraintId' = Nil => activeConstraintId \notin constraints'
  <2>1. activeConstraintId' =
            IF ActiveConstraint # Nil /\ C(ActiveConstraint) \in checked \cup stale THEN Nil
            ELSE activeConstraintId
    BY DEF OnDeleteSelected
  <2> QED  BY <1>1, <1>2, <1>3, <2>1
<1> QED  BY <1>1, <1>4, <1>5 DEF OnDeleteSelected, RemoveSelected

LEMMA OnDeleteSelectedInd ==
  ASSUME IInv, OnDeleteSelected
  PROVE  IInv'
<1>0. /\ flat \in Seq(Nodes) /\ Len(flat) \in Nat
      /\ \A k \in 1 .. Len(flat) : flat[k] \in Nodes
  BY LenProperties, ElementOfSeq DEF IInv, TypeOK
<1>1. /\ constraints' = {c \in constraints : C(c) \notin checked \cup stale}
      /\ views' = {v \in views : V(v) \notin checked \cup stale /\ parentOf[v] \in constraints'}
      /\ checked' = {} /\ stale' = {} /\ expanded' = {} /\ Unselected
      /\ activeViewId' \in {activeViewId, Nil}
      /\ activeConstraintId' \in {activeConstraintId, Nil}
      /\ activeConstraintId' = Nil => activeConstraintId \notin constraints'
      /\ UNCHANGED <<lastConstraint, lastView, nameOf, parentOf, kindOf>>
      /\ ViewChanged
  BY DeletionIs
<1>2. flat' \in Seq(Nodes) /\ Len(flat') \in Nat  BY <1>0, <1>1, UnselectedIs
<1>3. PICK f \in [1 .. Len(flat') -> 1 .. Len(flat)] :
          /\ \A k, l \in 1 .. Len(flat') : k < l <=> f[k] < f[l]
          /\ \A k \in 1 .. Len(flat') : flat'[k] = flat[f[k]] /\ flat[f[k]] \notin checked
          /\ \A i \in 1 .. Len(flat) :
                flat[i] \notin checked => \E k \in 1 .. Len(flat') : f[k] = i
  BY <1>0, <1>1, UnselectedIs
<1>4. \A k \in 1 .. Len(flat') : f[k] \in 1 .. Len(flat) /\ f[k] \in Nat  BY <1>0
<1>5. ActiveConstraint' # Nil => ActiveConstraint' = activeConstraintId'
  BY DEF ActiveConstraint
<1>6. TypeOK'
  <2>1. /\ activeViewId' \in ViewIds \cup {Nil}
        /\ activeConstraintId' \in ConstraintIds \cup {Nil}
    BY <1>1 DEF IInv, TypeOK
  <2>2. clickedOnConstraint' \in Names \cup {NoName} /\ clickedOnView' \in BOOLEAN
    BY <1>1, <1>5, <2>1 DEF ViewChanged, IInv, TypeOK
  <2> QED  BY <1>1, <1>2, <2>1, <2>2 DEF IInv, TypeOK
<1>7. IdsIssued'
  <2>1. \A k \in 1 .. Len(flat') :
            flat'[k][2] <= IF IsConstraint(flat'[k]) THEN lastConstraint ELSE lastView
    BY <1>3, <1>4 DEF IInv, IdsIssued
  <2>2. Nil <= lastConstraint /\ Nil <= lastView  BY DEF IInv, TypeOK, Nil
  <2>3. /\ constraints' \subseteq 1 .. lastConstraint /\ views' \subseteq 1 .. lastView
        /\ activeConstraintId' <= lastConstraint /\ activeViewId' <= lastView
        /\ \A v \in ViewIds : parentOf[v] <= lastConstraint
    BY <1>1, <2>2 DEF IInv, IdsIssued
  <2> QED  BY <1>1, <2>1, <2>3 DEF IdsIssued
<1>8. Nested'
  <2> SUFFICES ASSUME NEW k \in 1 .. Len(flat'), ~IsConstraint(flat'[k])
               PROVE  \E j \in 1 .. k - 1 :
                          Heads(flat', j, k) /\ flat'[j] = C(parentOf[flat'[k][2]])
    BY <1>1 DEF Nested
  <2> DEFINE i == f[k]
  <2>1. i \in 1 .. Len(flat) /\ flat'[k] = flat[i] /\ flat[i] \notin checked  BY <1>3, <1>4
  <2>2. PICK h \in 1 .. i - 1 : Heads(flat, h, i) /\ flat[h] = C(parentOf[flat[i][2]])
    BY <2>1 DEF IInv, Nested
  <2>3. flat[h] \notin checked /\ h \in 1 .. Len(flat)  BY <1>0, <2>1, <2>2, HeadStays
  <2>4. PICK j \in 1 .. Len(flat') : f[j] = h  BY <1>3, <2>3
  <2>5. j < k  BY <1>3, <2>1, <2>2, <2>4
  <2>6. ASSUME NEW l \in j + 1 .. k PROVE ~IsConstraint(flat'[l])
    <3>1. l \in 1 .. Len(flat') /\ j < l /\ ~(k < l)  BY <1>2, <2>5
    <3>2. f[l] \in h + 1 .. i  BY <1>3, <1>4, <2>1, <2>4, <3>1
    <3> QED  BY <1>3, <2>2, <3>1, <3>2 DEF Heads
  <2>7. flat'[j] = flat[h]  BY <1>3, <2>4
  <2>8. Heads(flat', j, k)  BY <2>2, <2>5, <2>6, <2>7 DEF Heads
  <2>9. j \in 1 .. k - 1  BY <1>2, <2>5
  <2> QED  BY <2>1, <2>2, <2>7, <2>8, <2>9
<1>9. InGridInTree'
  <2>1. ASSUME NEW n, n \notin checked, \E i \in 1 .. Len(flat) : flat[i] = n
        PROVE  \E k \in 1 .. Len(flat') : flat'[k] = n
    <3>1. PICK i \in 1 .. Len(flat) : flat[i] = n  BY <2>1
    <3>2. PICK k \in 1 .. Len(flat') : f[k] = i  BY <1>3, <2>1, <3>1
    <3> QED  BY <1>3, <3>1, <3>2
  <2>2. \A c \in constraints' : C(c) \notin checked /\ \E i \in 1 .. Len(flat) : flat[i] = C(c)
    BY <1>1 DEF IInv, InGridInTree
  <2>3. \A v \in views' : V(v) \notin checked /\ \E i \in 1 .. Len(flat) : flat[i] = V(v)
    BY <1>1 DEF IInv, InGridInTree
  <2> QED  BY <2>1, <2>2, <2>3 DEF InGridInTree
<1>10. NoneTwice'
  <2> SUFFICES ASSUME NEW k \in 1 .. Len(flat'), NEW l \in 1 .. Len(flat'), flat'[k] = flat'[l]
               PROVE  k = l
    BY DEF NoneTwice
  <2>1. f[k] = f[l]  BY <1>3, <1>4 DEF IInv, NoneTwice
  <2>2. ~(k < l) /\ ~(l < k)  BY <1>3, <1>4, <2>1
  <2> QED  BY <1>2, <2>2
<1>11. ViewKindMatches'  BY <1>1 DEF IInv, ViewKindMatches
<1>12. NamesDiffer'  BY <1>1 DEF IInv, NamesDiffer
<1>13. MenuFollows'
  <2>1. activeViewId' \in views' => parentOf'[activeViewId'] = activeConstraintId'
    <3> SUFFICES ASSUME activeViewId' \in views'
                 PROVE  parentOf[activeViewId'] = activeConstraintId'
      BY <1>1
    <3>1. activeViewId' = activeViewId /\ activeViewId \in views
          /\ parentOf[activeViewId] \in constraints'
      BY <1>1 DEF IInv, TypeOK, ViewIds, Nil
    <3>2. parentOf[activeViewId] = activeConstraintId  BY <3>1 DEF IInv, MenuFollows
    <3> QED  BY <1>1, <3>1, <3>2
  <2>2. ActiveView' # Nil <=> activeViewId' \in views'
    BY <1>6, <1>11, <2>1, ActiveViewIs
  <2>3. /\ clickedOnConstraint' = IF ActiveConstraint' = Nil THEN clickedOnConstraint
                                  ELSE nameOf'[ActiveConstraint']
        /\ clickedOnView' = (ActiveView' # Nil)
    BY <1>1 DEF ViewChanged
  <2> QED  BY <1>5, <2>1, <2>2, <2>3 DEF MenuFollows
<1> QED
  BY <1>1, <1>6, <1>7, <1>8, <1>9, <1>10, <1>11, <1>12, <1>13, NoneChecked DEF IInv


-----------------------------------------------------------------------------
(* The invariant *)

LEMMA InitIInv == Init => IInv
<1> SUFFICES ASSUME Init PROVE IInv
  OBVIOUS
<1>1. flat \in Seq(Nodes) /\ Len(flat) = 0
  <2>1. flat = << >>  BY DEF Init
  <2> QED  BY <2>1
<1>2. TypeOK
  <2>1. \A S : {} \in SUBSET S  OBVIOUS
  <2>2. flat \in Seq(Nodes) /\ checked \in SUBSET ToSet(flat) /\ expanded \in SUBSET ToSet(flat)
    BY <1>1, <2>1 DEF Init
  <2>3. 0 \in 0 .. MaxConstraints /\ 0 \in 0 .. MaxViews
    BY MaxConstraintsAssumption, MaxViewsAssumption
  <2>4. /\ lastConstraint \in 0 .. MaxConstraints /\ lastView \in 0 .. MaxViews
        /\ activeConstraintId \in ConstraintIds \cup {Nil}
        /\ activeViewId \in ViewIds \cup {Nil}
    BY <2>3 DEF Init
  <2>5. /\ nameOf \in [ConstraintIds -> Names \cup {NoName}]
        /\ parentOf \in [ViewIds -> ConstraintIds \cup {Nil}]
        /\ kindOf \in [ViewIds -> Names \cup {NoName}]
    BY DEF Init
  <2>6. /\ constraints \in SUBSET ConstraintIds /\ views \in SUBSET ViewIds
        /\ stale \in SUBSET Nodes
        /\ clickedOnConstraint \in Names \cup {NoName} /\ clickedOnView \in BOOLEAN
    BY DEF Init
  <2> QED  BY <2>2, <2>4, <2>5, <2>6 DEF TypeOK
<1>3. IdsIssued
  <2>1. \A i \in 1 .. Len(flat) : FALSE  BY <1>1
  <2>2. \A v \in ViewIds : parentOf[v] <= lastConstraint  BY DEF Init, Nil
  <2> QED  BY <2>1, <2>2 DEF Init, IdsIssued, Nil
<1>4. Nested /\ InGridInTree /\ NoneTwice /\ CheckedTogether /\ ViewKindMatches /\ NamesDiffer
  <2>1. \A i \in 1 .. Len(flat) : FALSE  BY <1>1
  <2>2. Nested /\ NoneTwice /\ CheckedTogether  BY <2>1 DEF Nested, NoneTwice, CheckedTogether
  <2>3. InGridInTree /\ ViewKindMatches /\ NamesDiffer
    BY DEF Init, InGridInTree, ViewKindMatches, NamesDiffer
  <2> QED  BY <2>2, <2>3
<1>5. MenuFollows  BY DEF Init, MenuFollows, ActiveConstraint
<1> QED  BY <1>2, <1>3, <1>4, <1>5 DEF IInv

LEMMA PositionsAre == IInv => DOMAIN flat = 1 .. Len(flat) /\ flat \in Seq(Nodes)
BY LenProperties DEF IInv, TypeOK

LEMMA NextIInv == IInv /\ [Next]_vars => IInv'
<1> SUFFICES ASSUME IInv, [Next]_vars PROVE IInv'
  OBVIOUS
<1>1. ASSUME NEW name \in Names, OnAddConstraint(name) PROVE IInv'
  BY <1>1, OnAddConstraintInd
<1>2. CASE OnAddView  BY <1>2, OnAddViewInd
<1>3. ASSUME NEW i \in 1 .. Len(flat), OnClickItem(flat[i]) PROVE IInv'
  BY <1>3, OnClickItemInd
<1>4. ASSUME NEW i \in 1 .. Len(flat), ToggleExpanded(i) PROVE IInv'
  BY <1>4, ToggleExpandedInd
<1>5. ASSUME NEW i \in 1 .. Len(flat), ParentSelectionToggle(i) PROVE IInv'
  BY <1>5, ParentSelectionToggleInd
<1>6. ASSUME NEW i \in 1 .. Len(flat), LeafSelectionToggle(i) PROVE IInv'
  BY <1>6, LeafSelectionToggleInd
<1>7. CASE OnDeleteSelected  BY <1>7, OnDeleteSelectedInd
<1>8. CASE UNCHANGED vars
  <2>1. UNCHANGED <<gridVars, activeVars, flat, stale, expanded, menuVars, checked>>
    BY <1>8 DEF vars, treeVars
  <2>2. CheckedTogether'  BY <2>1, SameTree DEF IInv, CheckedTogether
  <2>3. checked' \subseteq ToSet(flat)  BY <2>1 DEF IInv, TypeOK
  <2> QED  BY <2>1, <2>2, <2>3, NewSelection
<1> QED
  BY PositionsAre, <1>1, <1>2, <1>3, <1>4, <1>5, <1>6, <1>7, <1>8 DEF Next

-----------------------------------------------------------------------------
(* What the invariant says *)

LEMMA IInvShowsGrid == IInv => TreeIsGrid
<1> SUFFICES ASSUME IInv PROVE TreeIsGrid
  OBVIOUS
<1>0. DOMAIN flat = 1 .. Len(flat) /\ flat \in Seq(Nodes) /\ Len(flat) \in Nat
  BY PositionsAre, LenProperties
<1>1. TreeNesting
  <2> SUFFICES ASSUME NEW i \in 1 .. Len(flat), ~IsConstraint(flat[i])
               PROVE  /\ \E j \in 1 .. i - 1 : IsConstraint(flat[j])
                      /\ flat[ParentIndex(i)] = C(parentOf[flat[i][2]])
    BY <1>0 DEF TreeNesting
  <2>1. PICK j \in 1 .. i - 1 : Heads(flat, j, i) /\ flat[j] = C(parentOf[flat[i][2]])
    BY DEF IInv, Nested
  <2>2. ParentIndex(i) = j  BY <1>0, <2>1, ParentIs
  <2> QED  BY <2>1, <2>2 DEF Heads
<1>2. TreeShowsGrid
  <2>1. ToSet(flat) = {flat[i] : i \in 1 .. Len(flat)}  BY <1>0, ToSetIs
  <2>2. {C(c) : c \in constraints} \cup {V(v) : v \in views} \subseteq ToSet(flat)
    BY <2>1 DEF IInv, InGridInTree
  <2> QED  BY <1>0, <2>2 DEF TreeShowsGrid, IInv, NoneTwice
<1> QED  BY <1>1, <1>2 DEF TreeIsGrid

LEMMA IInvChecks == IInv => ParentCheckedIffChildren
<1> SUFFICES ASSUME IInv PROVE ParentCheckedIffChildren
  OBVIOUS
<1>1. \A i \in 1 .. Len(flat) : Descendants(i) = Children(i)
  BY PositionsAre, DescendantsAre
<1> QED  BY <1>1, PositionsAre DEF ParentCheckedIffChildren, IInv, CheckedTogether

-----------------------------------------------------------------------------
(* What a step may do *)

Ghosts ==
    \A node \in Nodes :
        InGrid(node) /\ InTree(node)' /\ ~InGrid(node)' =>
            node \in stale \/ (~IsConstraint(node) /\ C(parentOf[node[2]]) \in stale)

LEMMA NextGhosts == IInv /\ [Next]_vars => [Ghosts]_vars
<1> SUFFICES ASSUME IInv, Next, NEW node \in Nodes,
                    InGrid(node), InTree(node)', ~InGrid(node)'
             PROVE  node \in stale \/ (~IsConstraint(node) /\ C(parentOf[node[2]]) \in stale)
  BY DEF Ghosts
<1>0. /\ DOMAIN flat = 1 .. Len(flat) /\ flat \in Seq(Nodes) /\ Len(flat) \in Nat
  BY PositionsAre, LenProperties
<1>1. OnDeleteSelected
  <2>1. ~(constraints \subseteq constraints' /\ views \subseteq views')
    BY DEF InGrid
  <2> QED
    BY <2>1 DEF Next, OnAddConstraint, OnAddView, OnClickItem, ToggleExpanded,
                ParentSelectionToggle, LeafSelectionToggle, gridVars
<1>2. /\ constraints' = {c \in constraints : C(c) \notin checked \cup stale}
      /\ views' = {v \in views : V(v) \notin checked \cup stale /\ parentOf[v] \in constraints'}
      /\ Unselected
  BY <1>1, DeletionIs
<1>3. PICK i \in 1 .. Len(flat) : node = flat[i] /\ flat[i] \notin checked
  <2>1. flat' \in Seq(Nodes)  BY <1>0, <1>2, UnselectedIs
  <2>2. PICK k \in 1 .. Len(flat') : node = flat'[k]  BY <2>1, ToSetIs DEF InTree
  <2> QED  BY <1>0, <1>2, <2>2, UnselectedIs
<1>4. CASE IsConstraint(node)
  <2>1. node[2] \in constraints /\ node[2] \notin constraints' /\ node = C(node[2])
    BY <1>4, NodeIs DEF InGrid
  <2> QED  BY <1>2, <1>3, <2>1
<1>5. CASE ~IsConstraint(node)
  <2>1. node[2] \in views /\ node[2] \notin views' /\ node = V(node[2])
    BY <1>5, NodeIs DEF InGrid
  <2>2. node \in stale \/ C(parentOf[node[2]]) \in checked \cup stale
    BY <1>2, <1>3, <2>1 DEF IInv, ViewKindMatches
  <2>3. PICK j \in 1 .. i - 1 : Heads(flat, j, i) /\ flat[j] = C(parentOf[node[2]])
    BY <1>3, <1>5 DEF IInv, Nested
  <2>4. C(parentOf[node[2]]) \notin checked  BY <1>3, <2>3, HeadStays
  <2> QED  BY <1>5, <2>2, <2>4
<1> QED  BY <1>4, <1>5

Seen ==
    \A v \in views' \ views :
        \/ C(parentOf'[v]) \in expanded'
        \/ \E c \in ConstraintIds \ constraints : /\ C(c) \in expanded'
                                                 /\ nameOf[c] = nameOf[parentOf'[v]]

LEMMA NextSeen == IInv /\ [Next]_vars => [Seen]_vars
<1> SUFFICES ASSUME IInv, Next, NEW v \in views' \ views
             PROVE  \/ C(parentOf'[v]) \in expanded'
                    \/ \E c \in ConstraintIds \ constraints :
                          C(c) \in expanded' /\ nameOf[c] = nameOf[parentOf'[v]]
  BY DEF Seen
<1>1. OnAddView
  <2>1. ~(views' \subseteq views)  OBVIOUS
  <2> QED
    BY <2>1 DEF Next, OnAddConstraint, OnDeleteSelected, CleanConstraints, OnClickItem,
                ToggleExpanded, ParentSelectionToggle, LeafSelectionToggle, gridVars
<1> DEFINE a == activeConstraintId
<1>2. IInv'  BY NextIInv
<1>3. ActiveConstraint = a /\ a \in constraints
  BY <1>1 DEF OnAddView, ActiveConstraint
<1>4. parentOf'[v] = a /\ nameOf' = nameOf
  <2>1. v = NewView /\ parentOf' = [parentOf EXCEPT ![NewView] = a]
    BY <1>1, <1>3 DEF OnAddView
  <2>2. v \in ViewIds  BY <1>2 DEF IInv, TypeOK
  <2> QED  BY <1>1, <2>1, <2>2 DEF OnAddView, IInv, TypeOK
<1>5. ExpandByName(a)
  <2>1. flat \in Seq(Nodes)  BY DEF IInv, TypeOK
  <2>2. C(a) \in ToSet(flat)  BY <1>3, <2>1, ToSetIs DEF IInv, InGridInTree
  <2> QED  BY <1>1, <1>3, <2>2 DEF OnAddView
<1>6. PICK i \in DOMAIN flat' :
          IsConstraint(flat'[i]) /\ nameOf[flat'[i][2]] = nameOf[a] /\ expanded' = {flat'[i]}
  BY <1>4, <1>5 DEF ExpandByName
<1>7. flat'[i] \in Nodes
  <2>1. flat' \in Seq(Nodes)  BY <1>2 DEF IInv, TypeOK
  <2>2. i \in 1 .. Len(flat')  BY <1>6, <2>1, LenProperties
  <2> QED  BY <2>1, <2>2, ElementOfSeq
<1>8. flat'[i][2] \in ConstraintIds /\ flat'[i] = C(flat'[i][2])  BY <1>6, <1>7, NodeIs
<1>9. CASE flat'[i][2] \in constraints
  <2>1. flat'[i][2] = a  BY <1>3, <1>6, <1>9 DEF IInv, NamesDiffer
  <2> QED  BY <1>4, <1>6, <1>8, <2>1
<1>10. CASE flat'[i][2] \notin constraints
  <2>1. flat'[i][2] \in ConstraintIds \ constraints /\ C(flat'[i][2]) \in expanded'
    BY <1>6, <1>8, <1>10
  <2> QED  BY <1>4, <1>6, <2>1
<1> QED  BY <1>9, <1>10

-----------------------------------------------------------------------------
(* The events *)

LEMMA NextRefines == IInv /\ [Next]_vars => [Events!Next]_(Events!vars)
<1> SUFFICES ASSUME IInv, [Next]_vars PROVE [Events!Next]_(Events!vars)
  OBVIOUS
<1>0. IInv'  BY NextIInv
<1>1. ASSUME UNCHANGED <<lastView, views, activeViewId, clickedOnView>>
      PROVE  [Events!Next]_(Events!vars)
  BY <1>1 DEF Events!vars
<1>2. CASE OnAddView
  <2>1. Events!Add
    <3>1. UNCHANGED <<activeViewId, clickedOnView>>
      BY <1>2 DEF OnAddView, activeVars, menuVars
    <3> QED  BY <1>2, <3>1 DEF OnAddView, NewView, Events!Add
  <2> QED  BY <2>1 DEF Events!Next
<1>3. ASSUME NEW i \in DOMAIN flat, OnClickItem(flat[i])
      PROVE  [Events!Next]_(Events!vars)
  <2>1. UNCHANGED <<lastView, views>>  BY <1>3 DEF OnClickItem, gridVars
  <2>2. activeViewId' \in 0 .. lastView
    BY <1>0, <2>1 DEF IInv, TypeOK, IdsIssued, ViewIds, Nil
  <2>3. clickedOnView' = (activeViewId' \in views)
    BY <1>0, <2>1 DEF IInv, TypeOK, MenuFollows
  <2> QED  BY <2>1, <2>2, <2>3 DEF Events!Next, Events!Select
<1>4. CASE OnDeleteSelected
  <2>1. /\ views' \subseteq views /\ lastView' = lastView
        /\ activeViewId' \in {activeViewId, Nil}
        /\ activeViewId' = Nil => activeViewId \notin views'
    BY <1>4, DeletionIs
  <2>2. clickedOnView' = (activeViewId' \in views')
    BY <1>0 DEF IInv, TypeOK, MenuFollows
  <2>3. activeViewId' \in {activeViewId} \cup (IF activeViewId \in views' THEN {} ELSE {0})
    BY <2>1 DEF Nil
  <2> QED  BY <2>1, <2>2, <2>3 DEF Events!Next, Events!Delete
<1>5. ASSUME NEW name \in Names, OnAddConstraint(name)
      PROVE  [Events!Next]_(Events!vars)
  BY <1>1, <1>5 DEF OnAddConstraint, activeVars, menuVars
<1>6. ASSUME NEW i \in DOMAIN flat,
             ToggleExpanded(i) \/ ParentSelectionToggle(i) \/ LeafSelectionToggle(i)
      PROVE  [Events!Next]_(Events!vars)
  BY <1>1, <1>6 DEF ToggleExpanded, ParentSelectionToggle, LeafSelectionToggle, gridVars,
                    activeVars, menuVars
<1>7. CASE UNCHANGED vars
  BY <1>1, <1>7 DEF vars, gridVars, activeVars, menuVars
<1> QED  BY <1>2, <1>3, <1>4, <1>5, <1>6, <1>7 DEF Next

-----------------------------------------------------------------------------
(* Theorems *)

\* The invariant is inductive, for any names and any bounds on what is created.
THEOREM Inductive == Spec => []IInv
<1> QED  BY InitIInv, NextIInv, PTL DEF Spec

\* SharedGridService, the tree and the menu: every variable has its values.
THEOREM TypeCorrect == Spec => []TypeOK
<1>1. IInv => TypeOK  BY DEF IInv
<1> QED  BY <1>1, Inductive, PTL

\* addSecondLevelNode and dataNodes.filter keep every view in the tree under its own
\* constraint and no item twice, and everything in the grid has its item.
THEOREM TreeShowsTheGrid == Spec => []TreeIsGrid
<1> QED  BY IInvShowsGrid, Inductive, PTL

\* parentSelectionToggle and checkParentSelection keep a constraint selected exactly if
\* all its views are, through every rebuilding of the tree.
THEOREM SelectionIsConsistent == Spec => []ParentCheckedIffChildren
<1> QED  BY IInvChecks, Inductive, PTL

\* The option menu on the page belongs to the constraint that onAddView adds to.
THEOREM KindsMatch == Spec => []ViewKindMatches
<1>1. IInv => ViewKindMatches  BY DEF IInv
<1> QED  BY <1>1, Inductive, PTL

\* onDeleteSelected leaves an item in the tree while its constraint or view goes from the
\* grid only if that item, or the item of its constraint, was selected before the tree was
\* last rebuilt.
THEOREM OnlyStaleGhosts == Spec => GhostsWereStale
<1> QED  BY NextGhosts, Inductive, PTL DEF Spec, GhostsWereStale, Ghosts

\* The ADD_VIEW handler expands the constraint of the new view, or else the leftover item of
\* a constraint of the same name that is gone from the grid.
THEOREM NewViewIsSeen == Spec => AddedViewIsSeen
<1> QED  BY NextSeen, Inductive, PTL DEF Spec, AddedViewIsSeen, Seen

\* Whatever is clicked in the tree, the views change as GroupEditor assumes.
THEOREM TreeImplementsViewEvents == Spec => ImplementsViewEvents
<1>1. Init => Events!Init
  BY DEF Init, Events!Init, Nil
<1> QED  BY <1>1, NextRefines, Inductive, PTL DEF Spec, ImplementsViewEvents, Events!Spec

=============================================================================
