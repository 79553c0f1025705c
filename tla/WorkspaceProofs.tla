--------------------------- MODULE WorkspaceProofs ---------------------------
(***************************************************************************)
(* Theorems about Workspace, for any assets, any number of changes and of  *)
(* reloads that overlap and overtake each other: what the asset tree shows *)
(* once everything is quiet, which rows a statement can cut off from it,   *)
(* that the active tab is an open one, and the types of the variables.     *)
(***************************************************************************)
EXTENDS Workspace, ListsProofs

-----------------------------------------------------------------------------
(* The rows below a row: what the recursions over the table collect.        *)

\* A set of rows with all the rows of r that are in it or right below it.
ClosedUnder(r, top, X) == \A i \in DOMAIN r : r[i] \in {top} \cup X => i \in X

\* level is what HangFrom goes through.
Levels(level, r, top) ==
    /\ level[0] = {}
    /\ \A n \in 1 .. Cardinality(Ids) :
          level[n] = {i \in DOMAIN r : r[i] \in {top} \cup level[n - 1]}
    /\ HangFrom(r, top) = level[Cardinality(Ids)]

\* There are finitely many assets, so the levels of HangFrom end.
LEMMA IdsAreCounted == IsFiniteSet(Ids) /\ Cardinality(Ids) \in Nat
  BY WorkspaceAssumption, FS_CardinalityType

\* The recursion of HangFrom has a value at every level.
LEMMA LevelsExist ==
  ASSUME NEW r, NEW top
  PROVE  \E level \in [0 .. Cardinality(Ids) -> SUBSET DOMAIN r] : Levels(level, r, top)
  <1> DEFINE N == Cardinality(Ids)
             T == SUBSET DOMAIN r
             Def(f) == [n \in 0 .. N |->
                           IF n = 0 THEN {}
                           ELSE {i \in DOMAIN r : r[i] \in {top} \cup f[n - 1]}]
             level == CHOOSE f : f = Def(f)
             step == [n \in 1 .. N |-> [v \in T |-> {i \in DOMAIN r : r[i] \in {top} \cup v}]]
  <1>1. N \in Nat BY IdsAreCounted
  <1>2. step \in [1 .. N -> [T -> T]] /\ {} \in T OBVIOUS
  <1>3. PICK f \in [0 .. N -> T] : Runs(f, {}, step, N)
    <2> HIDE DEF step, N, T
    <2> QED BY <1>1, <1>2, RecursionUpTo
  <1>4. f[0] = {} /\ \A n \in 1 .. N : f[n] = {i \in DOMAIN r : r[i] \in {top} \cup f[n - 1]}
    <2>1. f[0] = {} BY <1>3 DEF Runs
    <2>2. ASSUME NEW n \in 1 .. N PROVE f[n] = {i \in DOMAIN r : r[i] \in {top} \cup f[n - 1]}
      <3>1. f[n] = step[n][f[n - 1]] BY <1>3 DEF Runs
      <3>2. f[n - 1] \in T BY <1>1
      <3> QED BY <3>1, <3>2
    <2> QED BY <2>1, <2>2
  <1> HIDE DEF step
  <1>5. f = Def(f)
    <2>1. \A n \in 0 .. N : Def(f)[n] = f[n] BY <1>1, <1>4
    <2>2. DOMAIN Def(f) = 0 .. N /\ Def(f) = [n \in DOMAIN Def(f) |-> Def(f)[n]] OBVIOUS
    <2>3. f = [n \in 0 .. N |-> f[n]] OBVIOUS
    <2> HIDE DEF Def, N
    <2> QED BY <2>1, <2>2, <2>3
  <1>6. level = Def(level)
    <2> HIDE DEF Def
    <2> QED BY <1>5
  <1>7. HangFrom(r, top) = level[N] BY DEF HangFrom
  <1> HIDE DEF level
  <1> DEFINE G == {n \in 0 .. N : level[n] = f[n]}
  <1>8. \A n \in 0 .. N : n \in G
    <2>1. 0 \in G BY <1>1, <1>4, <1>6
    <2>2. \A n \in 1 .. N : level[n] = {i \in DOMAIN r : r[i] \in {top} \cup level[n - 1]}
      <3> SUFFICES ASSUME NEW n \in 1 .. N
                   PROVE  level[n] = Def(level)[n] /\ n # 0 /\ n \in 0 .. N
        OBVIOUS
      <3> HIDE DEF Def, N
      <3> QED BY <1>1, <1>6
    <2>3. ASSUME NEW n \in 1 .. N, n - 1 \in G PROVE n \in G
      <3>1. level[n - 1] = f[n - 1] BY <2>3
      <3>2. level[n] = f[n] BY <1>4, <2>2, <3>1
      <3> QED BY <3>2
    <2> HIDE DEF G, N
    <2> QED BY <1>1, <2>1, <2>3, UpTo
  <1>9. HangFrom(r, top) = f[N] BY <1>1, <1>7, <1>8
  <1>10. Levels(f, r, top) BY <1>4, <1>9 DEF Levels
  <1> QED BY <1>10

\* After as many levels as there are assets no row is left to find: what the recursions
\* of buildTree and deleteChildren collect (asset.go) is the least set that holds every
\* row whose parent is the top or in the set, however deep the groups are.
THEOREM HangFromIsLeastClosed ==
  ASSUME NEW r, DOMAIN r \subseteq Ids, NEW top
  PROVE  /\ HangFrom(r, top) \subseteq DOMAIN r
         /\ ClosedUnder(r, top, HangFrom(r, top))
         /\ \A X : ClosedUnder(r, top, X) => HangFrom(r, top) \subseteq X
  <1> DEFINE N == Cardinality(Ids)
  <1>1. N \in Nat /\ IsFiniteSet(Ids) BY IdsAreCounted
  <1>2. PICK level \in [0 .. N -> SUBSET DOMAIN r] : Levels(level, r, top) BY LevelsExist
  <1>3. /\ level[0] = {}
        /\ \A n \in 1 .. N : level[n] = {i \in DOMAIN r : r[i] \in {top} \cup level[n - 1]}
        /\ HangFrom(r, top) = level[N]
    BY <1>2 DEF Levels
  <1>4. HangFrom(r, top) \subseteq DOMAIN r BY <1>1, <1>3
  <1>5. ASSUME NEW X, ClosedUnder(r, top, X) PROVE HangFrom(r, top) \subseteq X
    <2> DEFINE G == {n \in 0 .. N : level[n] \subseteq X}
    <2>1. 0 \in G BY <1>1, <1>3
    <2>2. ASSUME NEW n \in 1 .. N, n - 1 \in G PROVE n \in G
      <3>1. level[n - 1] \subseteq X BY <2>2
      <3>2. level[n] \subseteq X BY <1>3, <1>5, <3>1 DEF ClosedUnder
      <3> QED BY <3>2
    <2>3. \A n \in 0 .. N : n \in G
      <3> HIDE DEF G, N
      <3> QED BY <1>1, <2>1, <2>2, UpTo
    <2>4. N \in G BY <1>1, <2>3
    <2> QED BY <1>3, <2>4
  <1>6. ClosedUnder(r, top, HangFrom(r, top))
    \* A level that is not closed has more rows than the one before.
    <2> DEFINE Grown(n) == IsFiniteSet(level[n]) /\ Cardinality(level[n]) >= n
               G == {n \in 0 .. N : ClosedUnder(r, top, level[n]) \/ Grown(n)}
    <2>0. \A n \in 0 .. N : level[n] \subseteq Ids /\ IsFiniteSet(level[n])
                            /\ Cardinality(level[n]) \in Nat /\ Cardinality(level[n]) <= N
      BY <1>1, FS_Subset, FS_CardinalityType
    <2>1. 0 \in G
      <3>1. Grown(0) BY <1>1, <1>3, FS_EmptySet
      <3> QED BY <1>1, <3>1
    <2> DEFINE M == {n \in 0 .. N : n = 0 \/ level[n - 1] \subseteq level[n]}
    <2>2. \A n \in 0 .. N : n \in M
      <3>1. 0 \in M BY <1>1
      <3>2. ASSUME NEW n \in 1 .. N, n - 1 \in M PROVE n \in M
        <4>1. CASE n = 1 BY <1>1, <1>3, <4>1
        <4>2. CASE n # 1
          <5>1. n - 1 \in 1 .. N /\ level[n - 2] \subseteq level[n - 1] BY <1>1, <3>2, <4>2
          <5>2. level[n - 1] = {i \in DOMAIN r : r[i] \in {top} \cup level[n - 2]}
            BY <1>3, <5>1
          <5>3. level[n] = {i \in DOMAIN r : r[i] \in {top} \cup level[n - 1]} BY <1>3
          <5> QED BY <5>1, <5>2, <5>3
        <4> QED BY <4>1, <4>2
      <3> HIDE DEF M, N
      <3> QED BY <1>1, <3>1, <3>2, UpTo
    <2>3. ASSUME NEW n \in 1 .. N, n - 1 \in G PROVE n \in G
      <3>1. level[n] = {i \in DOMAIN r : r[i] \in {top} \cup level[n - 1]} BY <1>3
      <3>2. level[n - 1] \subseteq level[n] BY <2>2
      <3>3. CASE ClosedUnder(r, top, level[n - 1])
        <4>1. level[n] = level[n - 1] BY <3>1, <3>2, <3>3 DEF ClosedUnder
        <4> QED BY <3>3, <4>1
      <3>4. CASE ~ClosedUnder(r, top, level[n - 1])
        <4>1. Cardinality(level[n - 1]) >= n - 1 BY <2>3, <3>4
        <4>2. level[n - 1] # level[n] BY <3>1, <3>4 DEF ClosedUnder
        <4>3. n - 1 \in 0 .. N /\ n \in 0 .. N BY <1>1
        <4>4. Cardinality(level[n - 1]) < Cardinality(level[n])
          BY <2>0, <3>2, <4>2, <4>3, FS_Subset
        <4>5. Cardinality(level[n]) >= n BY <2>0, <4>1, <4>3, <4>4
        <4> QED BY <2>0, <4>5
      <3> QED BY <3>3, <3>4
    <2>4. N \in G
      <3> HIDE DEF G, N
      <3>1. \A n \in 0 .. N : n \in G BY <1>1, <2>1, <2>3, UpTo
      <3> QED BY <1>1, <3>1
    <2>5. CASE Grown(N)
      <3>1. level[N] = Ids BY <1>1, <2>0, <2>5, FS_Subset
      <3> QED BY <1>3, <3>1 DEF ClosedUnder
    <2> QED BY <1>3, <2>4, <2>5
  <1> QED BY <1>4, <1>5, <1>6

\* A row that stays where it is in the table stays in the tree, unless the one row
\* that moved took it along to a place that is not in it.
LEMMA MoveCutsOnlyBelow ==
  ASSUME NEW r, NEW q, DOMAIN r \subseteq Ids, DOMAIN q \subseteq Ids, NEW id \in DOMAIN q,
         \A i \in DOMAIN r \ {id} : i \in DOMAIN q /\ q[i] = r[i],
         NEW i \in HangFrom(r, Root), i \notin HangFrom(q, Root)
  PROVE  /\ q[id] # r[id]
         /\ q[id] \notin HangFrom(q, Root) \cup {Root}
         /\ i \in Below(q, id) \cup {id}
  <1> DEFINE H == HangFrom(q, Root)
             B == HangFrom(q, id)
  <1>1. /\ ClosedUnder(q, Root, H) /\ H \subseteq DOMAIN q
        /\ \A X : ClosedUnder(q, Root, X) => H \subseteq X
    BY HangFromIsLeastClosed
  <1>2. ClosedUnder(q, id, B) /\ \A X : ClosedUnder(q, id, X) => B \subseteq X
    BY HangFromIsLeastClosed
  <1>3. \A X : ClosedUnder(r, Root, X) => i \in X BY HangFromIsLeastClosed
  <1> HIDE DEF H, B
  <1>4. i \in B \cup {id}
    <2>1. ClosedUnder(r, Root, H \cup B \cup {id}) BY <1>1, <1>2 DEF ClosedUnder
    <2>2. i \in H \cup B \cup {id} BY <1>3, <2>1
    <2> QED BY <2>2 DEF H
  <1>5. q[id] \notin H \cup {Root}
    <2> SUFFICES ASSUME q[id] \in H \cup {Root} PROVE FALSE OBVIOUS
    <2>1. id \in H BY <1>1 DEF ClosedUnder
    <2>2. ClosedUnder(q, id, H) BY <1>1, <2>1 DEF ClosedUnder
    <2>3. B \subseteq H BY <1>2, <2>2
    <2> QED BY <1>4, <2>1, <2>3 DEF H
  <1>6. q[id] # r[id]
    <2> SUFFICES ASSUME q[id] = r[id] PROVE FALSE OBVIOUS
    <2>1. ClosedUnder(r, Root, H) BY <1>1 DEF ClosedUnder
    <2> QED BY <1>3, <2>1 DEF H
  <1> QED BY <1>4, <1>5, <1>6 DEF Below, H, B

\* A deletion that takes along what is below the row leaves the others where they hang.
LEMMA DeleteCutsNone ==
  ASSUME NEW r, NEW q, DOMAIN r \subseteq Ids, NEW id,
         q = Restrict(r, DOMAIN r \ ({id} \cup Below(r, id))),
         NEW i \in HangFrom(r, Root), i \in DOMAIN q
  PROVE  i \in HangFrom(q, Root)
  <1> DEFINE H == HangFrom(q, Root)
             B == HangFrom(r, id)
  <1>1. /\ DOMAIN q = DOMAIN r \ (B \cup {id})
        /\ \A j \in DOMAIN q : q[j] = r[j]
    BY DEF Restrict, Below
  <1>2. ClosedUnder(q, Root, H) BY <1>1, HangFromIsLeastClosed
  <1>3. ClosedUnder(r, id, B) BY HangFromIsLeastClosed
  <1>4. \A X : ClosedUnder(r, Root, X) => i \in X BY HangFromIsLeastClosed
  <1> HIDE DEF H, B
  <1>5. ClosedUnder(r, Root, H \cup B \cup {id}) BY <1>1, <1>2, <1>3 DEF ClosedUnder
  <1>6. i \in H \cup B \cup {id} BY <1>4, <1>5
  <1> QED BY <1>1, <1>6 DEF H

\* One that does not cuts off the rows right below it, with what is below them.
LEMMA DeleteCutsBelow ==
  ASSUME NEW r, NEW q, DOMAIN r \subseteq Ids, NEW id,
         q = Restrict(r, DOMAIN r \ {id}),
         NEW i \in HangFrom(r, Root), i \in DOMAIN q, i \notin HangFrom(q, Root)
  PROVE  \E x \in DOMAIN r : r[x] = id /\ i \in Below(r, x) \cup {x}
  <1> DEFINE H == HangFrom(q, Root)
             X == {x \in DOMAIN r : r[x] = id}
             C == {j \in DOMAIN r : \E x \in X : j \in HangFrom(r, x) \cup {x}}
  <1>1. DOMAIN q = DOMAIN r \ {id} /\ \A j \in DOMAIN q : q[j] = r[j] BY DEF Restrict
  <1>2. ClosedUnder(q, Root, H) BY <1>1, HangFromIsLeastClosed
  <1>3. \A x : ClosedUnder(r, x, HangFrom(r, x)) BY HangFromIsLeastClosed
  <1>4. \A S : ClosedUnder(r, Root, S) => i \in S BY HangFromIsLeastClosed
  <1> HIDE DEF H
  <1>5. ASSUME NEW j \in DOMAIN r, r[j] \in {Root} \cup (H \cup C \cup {id})
        PROVE  j \in H \cup C \cup {id}
    <2>1. CASE j = id BY <2>1
    <2>2. CASE j # id /\ r[j] \in {Root} \cup H BY <1>1, <1>2, <2>2 DEF ClosedUnder
    <2>3. CASE r[j] = id BY <2>3
    <2>4. CASE r[j] \in C
      <3>1. PICK x \in X : r[j] \in HangFrom(r, x) \cup {x} BY <2>4
      <3>2. j \in HangFrom(r, x) BY <1>3, <3>1 DEF ClosedUnder
      <3> QED BY <3>1, <3>2
    <2> QED BY <1>5, <2>1, <2>2, <2>3, <2>4
  <1>6. ClosedUnder(r, Root, H \cup C \cup {id})
    <2> HIDE DEF C
    <2> QED BY <1>5 DEF ClosedUnder
  <1>7. i \in C
    <2> HIDE DEF C
    <2>1. i \in H \cup C \cup {id} BY <1>4, <1>6
    <2> QED BY <1>1, <2>1 DEF H
  <1> QED BY <1>7 DEF Below

-----------------------------------------------------------------------------
(* The shown tree follows the table.                                        *)

\* The records of the calls and reloads under way.
CallsFit ==
    \A c \in calls :
        /\ c = [op |-> c.op, id |-> c.id, to |-> c.to, then |-> c.then, stage |-> c.stage,
                path |-> c.path]
        /\ c.stage = "walking" => c.op = "delete"

LoadsFit ==
    /\ loads = [l \in Loads |-> loads[l]]
    /\ \A l \in Loads : /\ DOMAIN loads[l] = {"stage", "tree", "asOf", "then"}
                        /\ loads[l].stage \in {"idle", "asked", "read"}

\* No tree has seen more changes than there were.
CountsFit ==
    /\ changes \in Nat /\ asOf \in Nat /\ best \in Nat
    /\ asOf <= best /\ best <= changes
    /\ \A l \in Loads : loads[l].stage = "read" => loads[l].asOf \in 0 .. changes

\* A tree that has seen every change is the tree of the rows there are.
FreshTrees ==
    /\ changes > 0 /\ asOf = changes => shown = Tree(row)
    /\ \A l \in Loads :
          loads[l].stage = "read" /\ loads[l].asOf = changes => loads[l].tree = Tree(row)

\* A call whose answer loads the tree, or says that something failed.
Reports(c) == c.stage \in {"done", "walking"} \/ (c.op = "delete" /\ c.stage = "failed")

\* The last change is on the page, or will be: its call has still to be answered, or
\* a reload has still to read the table, or has read it since; or something failed.
LastChangeIsHeard ==
    \/ best = changes
    \/ error
    \/ \E c \in calls : Reports(c)
    \/ \E l \in Loads : \/ loads[l].stage = "asked"
                        \/ loads[l].stage = "read" /\ loads[l].asOf = changes

IInv == CallsFit /\ LoadsFit /\ CountsFit /\ FreshTrees /\ LastChangeIsHeard

\* The first reload is asked for when the tree is mounted.
THEOREM InitIInv == Init => IInv
  BY DEF Init, IInv, CallsFit, LoadsFit, CountsFit, FreshTrees, LastChangeIsHeard, Idle

\* A call goes on that has nothing to report yet.
LEMMA CallStepFits ==
  ASSUME IInv, NEW c \in calls, NEW d, d = [c EXCEPT !.stage = d.stage, !.path = d.path],
         d.stage = "walking" => c.op = "delete", Reports(c) => Reports(d),
         calls' = (calls \ {c}) \cup {d}, UNCHANGED <<row, changes, loads, store>>
  PROVE  IInv'
  <1> USE DEF IInv
  <1>1. d.op = c.op BY DEF CallsFit
  <1>2. CallsFit' BY <1>1 DEF CallsFit
  <1>3. LoadsFit' /\ CountsFit' /\ FreshTrees'
    BY DEF store, LoadsFit, CountsFit, FreshTrees, Tree, HangFrom
  <1>4. LastChangeIsHeard' BY DEF store, LastChangeIsHeard
  <1> QED BY <1>2, <1>3, <1>4

\* So does one that has changed the table.
LEMMA ChangeFits ==
  ASSUME IInv, NEW c \in calls, NEW d, d = [c EXCEPT !.stage = d.stage, !.path = d.path],
         d.stage = "walking" => c.op = "delete", Reports(d),
         calls' = (calls \ {c}) \cup {d}, changes' = changes + 1, UNCHANGED <<loads, store>>
  PROVE  IInv'
  <1> USE DEF IInv
  <1>1. d.op = c.op BY DEF CallsFit
  <1>2. CallsFit' BY <1>1 DEF CallsFit
  <1>3. LoadsFit' BY DEF LoadsFit
  <1>4. CountsFit' BY DEF store, LoadsFit, CountsFit
  <1>5. FreshTrees' BY DEF store, LoadsFit, CountsFit, FreshTrees
  <1>6. LastChangeIsHeard' BY DEF LastChangeIsHeard
  <1> QED BY <1>2, <1>3, <1>4, <1>5, <1>6

\* A reload starts: the rest of what its caller does leaves the trees alone.
LEMMA StartLoadFits ==
  ASSUME IInv, NEW then, StartLoad(then), UNCHANGED <<table, shown, asOf, best>>
  PROVE  LoadsFit' /\ CountsFit' /\ FreshTrees' /\ LastChangeIsHeard'
  BY DEF IInv, StartLoad, FreeLoads, Idle, table, LoadsFit, CountsFit, FreshTrees,
     LastChangeIsHeard

\* No step of the user, of Go or of the page leaves the invariant.
THEOREM NextIInv == IInv /\ [Next]_vars => IInv'
  <1> SUFFICES ASSUME IInv, [Next]_vars PROVE IInv' OBVIOUS
  <1> USE DEF IInv
  <1>1. ASSUME NEW c \in calls, Perform(c) PROVE IInv'
    <2> DEFINE d == [c EXCEPT !.stage = "done"]
    <2>1. d = [c EXCEPT !.stage = d.stage, !.path = d.path] /\ d.stage = "done"
      <3>1. d.stage = "done" /\ d.path = c.path BY DEF CallsFit
      <3>2. d = [c EXCEPT !.stage = "done", !.path = c.path] BY DEF CallsFit
      <3> HIDE DEF d
      <3> QED BY <3>1, <3>2
    <2>2. /\ calls' = (calls \ {c}) \cup {d} /\ changes' = changes + 1
          /\ UNCHANGED <<loads, store>>
      BY <1>1 DEF Perform
    <2> HIDE DEF d
    <2> QED BY <2>1, <2>2, ChangeFits DEF Reports
  <1>2. ASSUME NEW c \in calls, Refuse(c) PROVE IInv'
    <2> DEFINE d == [c EXCEPT !.stage = "failed", !.path = <<>>]
    <2>1. /\ d = [c EXCEPT !.stage = d.stage, !.path = d.path]
          /\ d.stage = "failed" /\ d.op = c.op
      BY DEF CallsFit
    <2>2. /\ c.stage \in {"asked", "walking"} /\ calls' = (calls \ {c}) \cup {d}
          /\ UNCHANGED <<row, changes, loads, store>>
      BY <1>2 DEF Refuse
    <2>3. Reports(c) => Reports(d) BY <2>1, <2>2 DEF Reports, CallsFit
    <2> HIDE DEF d
    <2> QED BY <2>1, <2>2, <2>3, CallStepFits
  <1>18. ASSUME NEW c \in calls, DeleteChildren(c) PROVE IInv'
    <2>1. PICK id : calls' = (calls \ {c}) \cup
                     {[c EXCEPT !.stage = "walking",
                                !.path = Append(@, [id |-> id, kids |-> Children(id)])]}
      BY <1>18 DEF DeleteChildren
    <2> DEFINE d == [c EXCEPT !.stage = "walking",
                              !.path = Append(@, [id |-> id, kids |-> Children(id)])]
    <2>2. d = [c EXCEPT !.stage = d.stage, !.path = d.path] /\ d.stage = "walking"
      BY DEF CallsFit
    <2>3. calls' = (calls \ {c}) \cup {d} BY <2>1
    <2>4. c.op = "delete" /\ UNCHANGED <<row, changes, loads, store>>
      BY <1>18 DEF DeleteChildren, table
    <2> HIDE DEF d
    <2> QED BY <2>2, <2>3, <2>4, CallStepFits DEF Reports
  <1>19. ASSUME NEW c \in calls, DeleteRow(c) PROVE IInv'
    <2> DEFINE d == [c EXCEPT !.path = Unwind(@),
                              !.stage = IF Len(c.path) = 1 THEN "done" ELSE "walking"]
    <2> DEFINE stage == IF Len(c.path) = 1 THEN "done" ELSE "walking"
               path == Unwind(c.path)
    <2>1. d = [c EXCEPT !.stage = d.stage, !.path = d.path] /\ d.stage \in {"done", "walking"}
      <3>1. d = [c EXCEPT !.path = path, !.stage = stage] /\ stage \in {"done", "walking"}
        OBVIOUS
      <3> HIDE DEF d, stage, path
      <3>2. d.stage = stage /\ d.path = path BY <3>1 DEF CallsFit
      <3>3. d = [c EXCEPT !.stage = stage, !.path = path] BY <3>1 DEF CallsFit
      <3> QED BY <3>1, <3>2, <3>3
    <2>2. /\ calls' = (calls \ {c}) \cup {d} /\ changes' = changes + 1
          /\ UNCHANGED <<loads, store>>
      BY <1>19 DEF DeleteRow
    <2>3. c.op = "delete" BY <1>19 DEF DeleteRow, CallsFit
    <2> HIDE DEF d
    <2> QED BY <2>1, <2>2, <2>3, ChangeFits DEF Reports
  <1>3. ASSUME NEW c \in calls, AnswerChange(c) PROVE IInv'
    <2>1. CallsFit' BY <1>3 DEF AnswerChange, CallsFit
    <2>2. LoadsFit' /\ CountsFit' /\ FreshTrees' /\ LastChangeIsHeard'
      BY <1>3, StartLoadFits DEF AnswerChange, table
    <2> QED BY <2>1, <2>2
  <1>4. ASSUME NEW c \in calls, AnswerDelete(c) PROVE IInv'
    <2>1. CallsFit' BY <1>4 DEF AnswerDelete, CallsFit
    <2>2. LoadsFit' /\ CountsFit' /\ FreshTrees' /\ LastChangeIsHeard'
      BY <1>4, StartLoadFits DEF AnswerDelete, table
    <2> QED BY <2>1, <2>2
  <1>5. ASSUME NEW c \in calls, AnswerFailed(c) PROVE IInv'
    <2>1. CallsFit' BY <1>5 DEF AnswerFailed, CallsFit
    <2>2. CASE c.then \in {"editor", "reload"}
      BY <1>5, <2>1, <2>2, StartLoadFits DEF AnswerFailed, table
    <2>3. CASE c.then \notin {"editor", "reload"}
      <3>1. LoadsFit' /\ CountsFit' /\ FreshTrees'
        BY <1>5, <2>3 DEF AnswerFailed, table, LoadsFit, CountsFit, FreshTrees
      <3>2. LastChangeIsHeard'
        BY <1>5, <2>3 DEF AnswerFailed, table, LastChangeIsHeard, Reports
      <3> QED BY <2>1, <3>1, <3>2
    <2> QED BY <2>2, <2>3
  <1>6. ASSUME NEW l \in Loads, ReadTree(l) PROVE IInv'
    <2>1. CallsFit' BY <1>6 DEF ReadTree, table, store, page, CallsFit
    <2>2. LoadsFit' BY <1>6 DEF ReadTree, table, store, page, LoadsFit, Idle
    <2>3. CountsFit' BY <1>6 DEF ReadTree, table, store, page, LoadsFit, CountsFit, Idle
    <2>4. FreshTrees'
      <3>1. UNCHANGED <<row, changes, shown, asOf>> BY <1>6 DEF ReadTree, table, store
      <3>2. loads'[l].tree = Tree(row) BY <1>6 DEF ReadTree, LoadsFit
      <3>3. \A k \in Loads \ {l} : loads'[k] = loads[k] BY <1>6 DEF ReadTree, LoadsFit
      <3>4. Tree(row)' = Tree(row) BY <3>1 DEF Tree, HangFrom
      <3> QED BY <3>1, <3>2, <3>3, <3>4 DEF FreshTrees
    <2>5. LastChangeIsHeard'
      BY <1>6 DEF ReadTree, table, store, page, CallsFit, LoadsFit, CountsFit, LastChangeIsHeard, Idle
    <2> QED BY <2>1, <2>2, <2>3, <2>4, <2>5
  <1>7. ASSUME NEW l \in Loads, ShowTree(l) PROVE IInv'
    <2>1. CallsFit' BY <1>7 DEF ShowTree, NextLoad, table, CallsFit
    <2>2. LoadsFit' BY <1>7 DEF ShowTree, NextLoad, table, LoadsFit, Idle
    <2>3. CountsFit' BY <1>7 DEF ShowTree, NextLoad, table, LoadsFit, CountsFit, Idle
    <2>4. FreshTrees' BY <1>7 DEF ShowTree, NextLoad, table, LoadsFit, CountsFit, FreshTrees, Idle
    <2>5. LastChangeIsHeard'
      <3>1. CASE error
        <4>1. CASE loads[l].then \in {"editor", "reload"}
          <5>1. loads'[l].stage = "asked"
            BY <1>7, <4>1 DEF ShowTree, NextLoad, LoadsFit, Idle
          <5> QED BY <5>1 DEF LastChangeIsHeard
        <4>2. CASE loads[l].then \notin {"editor", "reload"}
          BY <1>7, <3>1, <4>2 DEF ShowTree, LastChangeIsHeard
        <4> QED BY <4>1, <4>2
      <3>2. CASE best = changes \/ \E c \in calls : Reports(c)
        BY <1>7, <3>2 DEF ShowTree, table, CountsFit, LastChangeIsHeard
      <3>3. ASSUME NEW k \in Loads, loads[k].stage = "asked" PROVE LastChangeIsHeard'
        <4>1. k # l /\ loads'[k] = loads[k] BY <1>7, <3>3 DEF ShowTree, LoadsFit
        <4> QED BY <3>3, <4>1 DEF LastChangeIsHeard
      <3>4. ASSUME NEW k \in Loads, loads[k].stage = "read", loads[k].asOf = changes
            PROVE  LastChangeIsHeard'
        <4>1. CASE k = l
          BY <1>7, <3>4, <4>1 DEF ShowTree, table, CountsFit, LastChangeIsHeard
        <4>2. CASE k # l
          <5>1. loads'[k] = loads[k] /\ changes' = changes
            BY <1>7, <4>2 DEF ShowTree, table, LoadsFit
          <5> QED BY <3>4, <5>1 DEF LastChangeIsHeard
        <4> QED BY <4>1, <4>2
      <3> QED BY <3>1, <3>2, <3>3, <3>4 DEF LastChangeIsHeard
    <2> QED BY <2>1, <2>2, <2>3, <2>4, <2>5
  <1>8. ASSUME NEW l \in Loads, FailLoad(l) PROVE IInv'
    <2>1. CallsFit' BY <1>8 DEF FailLoad, NextLoad, table, CallsFit
    <2>2. LoadsFit' BY <1>8 DEF FailLoad, NextLoad, table, LoadsFit, Idle
    <2>3. CountsFit' BY <1>8 DEF FailLoad, NextLoad, table, LoadsFit, CountsFit, Idle
    <2>4. FreshTrees' BY <1>8 DEF FailLoad, NextLoad, table, LoadsFit, CountsFit, FreshTrees, Idle
    <2>5. LastChangeIsHeard'
      BY <1>8 DEF FailLoad, NextLoad, table, CallsFit, LoadsFit, CountsFit, LastChangeIsHeard, Idle
    <2> QED BY <2>1, <2>2, <2>3, <2>4, <2>5
  <1>9. ASSUME NEW key, SelectActivity(key) PROVE IInv'
    <2> DEFINE gone == [k \in Loads |-> [loads[k] EXCEPT !.then = Detached(@)]]
               asked == [Idle EXCEPT !.stage = "asked"]
    <2>1. CallsFit' BY <1>9 DEF SelectActivity, ShowActivity, DetachAll, table, CallsFit
    <2>2. /\ gone = [k \in Loads |-> gone[k]]
          /\ \A k \in Loads : /\ DOMAIN gone[k] = {"stage", "tree", "asOf", "then"}
                              /\ gone[k].stage = loads[k].stage
                              /\ gone[k].tree = loads[k].tree
                              /\ gone[k].asOf = loads[k].asOf
      BY DEF LoadsFit
    <2>3. DOMAIN asked = {"stage", "tree", "asOf", "then"} /\ asked.stage = "asked"
      BY DEF Idle
    <2>4. \/ /\ error' = FALSE
             /\ \E l \in FreeLoads : loads' = [gone EXCEPT ![l] = asked]
          \/ loads' = gone /\ UNCHANGED error
      BY <1>9 DEF SelectActivity, ShowActivity
    <2>5. UNCHANGED <<row, changes, shown, asOf, best>>
      BY <1>9 DEF SelectActivity, ShowActivity, table
    <2>6. \A c \in calls : Reports(c) => \E d \in calls' : Reports(d)
      <3>1. SUFFICES ASSUME NEW c \in calls, Reports(c)
                     PROVE  \E d \in calls' : Reports(d)
        OBVIOUS
      <3>2. [c EXCEPT !.then = Detached(c.then)] \in calls'
        BY <1>9 DEF SelectActivity, ShowActivity, DetachAll
      <3>3. Reports([c EXCEPT !.then = Detached(c.then)])
        BY <3>1 DEF CallsFit, Reports
      <3> QED BY <3>2, <3>3
    <2> HIDE DEF gone, asked
    <2>7. CASE loads' = gone /\ UNCHANGED error
      BY <2>1, <2>2, <2>5, <2>6, <2>7
         DEF LoadsFit, CountsFit, FreshTrees, LastChangeIsHeard
    <2>8. CASE error' = FALSE /\ \E l \in FreeLoads : loads' = [gone EXCEPT ![l] = asked]
      <3>1. PICK l \in FreeLoads : loads' = [gone EXCEPT ![l] = asked] BY <2>8
      <3>2. l \in Loads /\ loads'[l] = asked
        BY <2>2, <3>1 DEF FreeLoads
      <3>3. LoadsFit' BY <2>2, <2>3, <3>1 DEF LoadsFit
      <3>4. CountsFit' BY <2>2, <2>3, <2>5, <3>1 DEF LoadsFit, CountsFit
      <3>5. FreshTrees' BY <2>2, <2>3, <2>5, <3>1 DEF LoadsFit, FreshTrees
      <3>6. LastChangeIsHeard' BY <2>3, <3>2 DEF LastChangeIsHeard
      <3> QED BY <2>1, <3>3, <3>4, <3>5, <3>6
    <2> QED BY <2>4, <2>7, <2>8
  <1>10. ASSUME Refresh PROVE IInv'
    <2>1. CallsFit' BY <1>10 DEF Refresh, CallsFit
    <2>2. LoadsFit' /\ CountsFit' /\ FreshTrees' /\ LastChangeIsHeard'
      BY <1>10, StartLoadFits DEF Refresh, table
    <2> QED BY <2>1, <2>2
  <1>11. ASSUME NEW op, NEW id, NEW to, NEW then, Ask(op, id, to, then),
                UNCHANGED <<table, loads, store>>
         PROVE  IInv'
    <2>1. CallsFit' BY <1>11 DEF Ask, CallsFit
    <2>2. LoadsFit' /\ CountsFit' /\ FreshTrees'
      BY <1>11 DEF table, store, LoadsFit, CountsFit, FreshTrees
    <2>3. LastChangeIsHeard' BY <1>11 DEF Ask, table, store, LastChangeIsHeard
    <2> QED BY <2>1, <2>2, <2>3
  <1>12. ASSUME UNCHANGED <<table, calls, loads, shown, error, asOf, best>> PROVE IInv'
    BY <1>12 DEF table, CallsFit, LoadsFit, CountsFit, FreshTrees, LastChangeIsHeard
  <1>13. CASE TreeModals
    BY <1>11, <1>12, <1>13 DEF TreeModals, Cancel, SetDialog, HandleCreateGroup,
       HandleEditorSave, DoRename, ConfirmDelete, store
  <1>14. CASE TreeMenu \/ Drag \/ PickType \/ OpenNewDialog
    BY <1>11, <1>12, <1>14 DEF TreeMenu, Drag, PickType, OpenNewDialog, SetDialog,
       HandleEdit, HandleRename, HandleDelete, HandleMoveTo, OnUp, store
  <1>15. CASE TreeClicks
    BY <1>12, <1>15 DEF TreeClicks, SelectKey, DoubleClickHost, OpenTab
  <1>16. CASE TabStrip
    BY <1>12, <1>16 DEF TabStrip, SetActiveTab, CloseTab
  <1>17. CASE OpenTool \/ UNCHANGED vars
    BY <1>12, <1>17 DEF OpenTool, OpenTab, vars, table
  <1> QED
    BY <1>1, <1>2, <1>3, <1>4, <1>5, <1>6, <1>7, <1>8, <1>9, <1>10, <1>13, <1>14, <1>15,
       <1>16, <1>17, <1>18, <1>19
       DEF Next, UserNext, TreeToolbar, ActivityBar

\* The invariant holds in every reachable state of the store and the asset tree
\* (connectionStore.ts, AssetTree.tsx).
THEOREM Invariance == Spec => []IInv
  BY InitIInv, NextIInv, PTL DEF Spec

\* Once nothing is under way and nothing failed, the tree with every change has been
\* on the page, and is there unless an older answer overtook it
\* (connectionStore.ts:72-142).
THEOREM QuietTreeHasEveryChange == Spec => []QuietTreeIsCurrent
  <1>1. IInv => QuietTreeIsCurrent
    BY DEF IInv, CountsFit, FreshTrees, LastChangeIsHeard, QuietTreeIsCurrent, Quiet, Idle
  <1> QED BY <1>1, Invariance, PTL

-----------------------------------------------------------------------------
(* Types.                                                                   *)

\* What a row can hang from, what can be selected, and the recursions of a deletion.
Parents == Ids \cup {Root, PgNode}
Keys == Ids \cup {PgNode, NoKey}
Frames == [id : Keys, kids : SUBSET Ids]
RowsFit(r) == DOMAIN r \subseteq Ids /\ \A i \in DOMAIN r : r[i] \in Parents

\* What each variable can hold.
TablesFit == RowsFit(row) /\ RowsFit(shown) /\ \A l \in Loads : RowsFit(loads[l].tree)
AsksFit ==
    \A c \in calls : /\ c.op \in {"create", "update", "delete", "rename", "move"}
                     /\ c.op = "create" => c.id \in Ids
                     /\ c.id \in Keys /\ c.to \in Parents
                     /\ c.path \in Seq(Frames)
                     /\ c.path # <<>> <=> c.stage = "walking"
DialogFits ==
    /\ dialog \in [kind : {"none", "group", "picker", "editor", "rename", "delete"},
                   id : Ids \cup {NoKey}]
    /\ dialog # Closed => Panel = "assets"
PageFits ==
    /\ selected \in Ids \cup {PgNode, NoKey}
    /\ activity \in Activities /\ sidebar \in BOOLEAN /\ error \in BOOLEAN

TypesFit == TablesFit /\ AsksFit /\ DialogFits /\ PageFits

\* The empty tree fits.
LEMMA NoTreeFits == RowsFit(NoTree) /\ Idle.tree = NoTree
  BY DEF RowsFit, NoTree, Idle

\* Every value is of its type in the initial states of the shell.
THEOREM InitTypes == Init => TypesFit
  <1> SUFFICES ASSUME Init PROVE TypesFit OBVIOUS
  <1>1. RowsFit(row) BY WorkspaceAssumption DEF Init, RowsFit, Parents, Range
  <1>2. RowsFit(shown) BY NoTreeFits DEF Init
  <1>3. ASSUME NEW k \in Loads PROVE loads[k].tree = NoTree
    BY NoTreeFits DEF Init, Idle
  <1>4. TablesFit BY <1>1, <1>2, <1>3, NoTreeFits DEF TablesFit
  <1>5. AsksFit /\ DialogFits /\ PageFits
    BY DEF Init, AsksFit, DialogFits, PageFits, Closed, Activities, SidebarPanels
  <1> QED BY <1>4, <1>5 DEF TypesFit

\* What buildTree answers fits whenever its rows do.
LEMMA TreeFits == ASSUME NEW r, RowsFit(r) PROVE RowsFit(Tree(r))
  <1>1. HangFrom(r, Root) \subseteq DOMAIN r BY HangFromIsLeastClosed DEF RowsFit
  <1> QED BY <1>1 DEF RowsFit, Tree, Restrict

\* What StartLoad does to the types.
LEMMA StartLoadTypes ==
  ASSUME LoadsFit, TablesFit, PageFits, NEW then, StartLoad(then), UNCHANGED <<row, shown>>
  PROVE  TablesFit' /\ error' \in BOOLEAN
  <1>1. PICK l \in FreeLoads :
            loads' = [loads EXCEPT ![l] = [Idle EXCEPT !.stage = "asked", !.then = then]]
    BY DEF StartLoad
  <1>2. [Idle EXCEPT !.stage = "asked", !.then = then].tree = NoTree BY DEF Idle
  <1>3. \A k \in Loads : loads'[k].tree \in {loads[k].tree, NoTree}
    BY <1>1, <1>2 DEF LoadsFit
  <1>4. TablesFit' BY <1>3, NoTreeFits DEF TablesFit, RowsFit
  <1> QED BY <1>4 DEF StartLoad

\* The recursion that is left has one child less to delete.
LEMMA UnwindFits ==
  ASSUME NEW p \in Seq(Frames), p # <<>>
  PROVE  /\ Unwind(p) \in Seq(Frames) /\ (Unwind(p) = <<>> <=> Len(p) = 1)
         /\ DOMAIN Unwind(p) = 1 .. Len(p) - 1
         /\ \A n \in 1 .. Len(p) - 1 : /\ Unwind(p)[n].id = p[n].id
                                       /\ p[n].kids \ {p[Len(p)].id} \subseteq Unwind(p)[n].kids
  <1> DEFINE N == Len(p) - 1
             u(k) == IF k = N THEN [p[k] EXCEPT !.kids = @ \ {p[Len(p)].id}] ELSE p[k]
  <1>1. N \in Nat /\ Len(p) = N + 1 BY DEF Frames
  <1>2. Unwind(p) = [k \in 1 .. N |-> u(k)] BY DEF Unwind
  <1>3. ASSUME NEW k \in 1 .. N
        PROVE  u(k) \in Frames /\ u(k).id = p[k].id /\ p[k].kids \ {p[Len(p)].id} \subseteq u(k).kids
    <2>1. p[k] \in Frames BY <1>1
    <2> QED BY <2>1 DEF Frames
  <1> HIDE DEF u, N
  <1>4. Unwind(p) \in Seq(Frames) /\ Len(Unwind(p)) = N BY <1>1, <1>2, <1>3
  <1>5. Unwind(p) = <<>> <=> N = 0 BY <1>1, <1>4
  <1> QED BY <1>1, <1>2, <1>3, <1>4, <1>5 DEF N

\* Every step of the user, of Go or of the page keeps every value in its type.
THEOREM NextTypes == IInv /\ TypesFit /\ [Next]_vars => TypesFit'
  <1> SUFFICES ASSUME CallsFit, LoadsFit, TypesFit, [Next]_vars PROVE TypesFit' BY DEF IInv
  <1> USE DEF TypesFit
  <1>1. ASSUME NEW c \in calls, Perform(c) PROVE TypesFit'
    <2>1. RowsFit(row')
      <3>1. CASE c.op = "create"
        <4>1. row' = [i \in DOMAIN row \cup {c.id} |-> IF i = c.id THEN c.to ELSE row[i]]
          BY <1>1, <3>1 DEF Perform, Create
        <4>2. c.id \in Ids /\ c.to \in Parents BY <3>1 DEF AsksFit
        <4> QED BY <4>1, <4>2 DEF TablesFit, RowsFit
      <3>2. CASE c.op \in {"update", "move"}
        <4>1. row' = IF c.id \in DOMAIN row THEN [row EXCEPT ![c.id] = c.to] ELSE row
          BY <1>1, <3>2 DEF Perform, SetParent
        <4>2. c.to \in Parents BY DEF AsksFit
        <4> QED BY <4>1, <4>2 DEF TablesFit, RowsFit
      <3>3. CASE c.op = "rename" BY <1>1, <3>3 DEF Perform, TablesFit
      <3> QED BY <1>1, <3>1, <3>2, <3>3 DEF Perform, AsksFit
    <2>2. UNCHANGED <<loads, shown, dialog, activity, sidebar, selected, error>>
      BY <1>1 DEF Perform, store, page
    <2>3. AsksFit'
      <3>1. c.stage = "asked" /\ calls' = (calls \ {c}) \cup {[c EXCEPT !.stage = "done"]}
        BY <1>1 DEF Perform
      <3> QED BY <3>1 DEF AsksFit, CallsFit
    <2> QED BY <2>1, <2>2, <2>3 DEF TablesFit, DialogFits, PageFits, Panel, RowsFit
  <1>2. ASSUME NEW c \in calls, Refuse(c) PROVE TypesFit'
    <2>1. UNCHANGED <<row, loads, shown, dialog, activity, sidebar, selected, error>>
      BY <1>2 DEF Refuse, store, page
    <2>2. AsksFit'
      <3> DEFINE d == [c EXCEPT !.stage = "failed", !.path = <<>>]
      <3>1. calls' = (calls \ {c}) \cup {d} BY <1>2 DEF Refuse
      <3>2. d.op = c.op /\ d.id = c.id /\ d.to = c.to /\ d.path = <<>> /\ d.stage = "failed"
        BY DEF CallsFit
      <3>3. <<>> \in Seq(Frames) OBVIOUS
      <3> HIDE DEF d
      <3> QED BY <3>1, <3>2, <3>3 DEF AsksFit
    <2> QED BY <2>1, <2>2 DEF TablesFit, DialogFits, PageFits, Panel, RowsFit
  <1>21. ASSUME NEW c \in calls, DeleteChildren(c) PROVE TypesFit'
    <2>1. PICK id \in (IF c.path = <<>> THEN {c.id} ELSE Top(c).kids) :
              calls' = (calls \ {c}) \cup
                     {[c EXCEPT !.stage = "walking",
                                !.path = Append(@, [id |-> id, kids |-> Children(id)])]}
      BY <1>21 DEF DeleteChildren
    <2>2. id \in Keys
      <3>1. c.id \in Keys /\ c.path \in Seq(Frames) BY DEF AsksFit
      <3>2. c.path # <<>> => Top(c) \in Frames BY <3>1 DEF Top
      <3> QED BY <2>1, <3>1, <3>2 DEF Frames, Keys
    <2>3. Children(id) \subseteq Ids BY DEF Children, TablesFit, RowsFit
    <2> DEFINE p == Append(c.path, [id |-> id, kids |-> Children(id)])
    <2>4. p \in Seq(Frames) /\ p # <<>>
      <3>1. [id |-> id, kids |-> Children(id)] \in Frames BY <2>2, <2>3 DEF Frames
      <3>2. c.path \in Seq(Frames) BY DEF AsksFit
      <3> QED BY <3>1, <3>2
    <2>5. calls' = (calls \ {c}) \cup {[c EXCEPT !.stage = "walking", !.path = p]}
      BY <2>1 DEF CallsFit
    <2> HIDE DEF p
    <2>6. AsksFit' BY <2>4, <2>5 DEF AsksFit, CallsFit
    <2>7. UNCHANGED <<row, loads, shown, dialog, activity, sidebar, selected, error>>
      BY <1>21 DEF DeleteChildren, table, store, page
    <2> QED BY <2>6, <2>7 DEF TablesFit, DialogFits, PageFits, Panel, RowsFit
  <1>22. ASSUME NEW c \in calls, DeleteRow(c) PROVE TypesFit'
    <2>1. PICK gone : row' = Restrict(row, DOMAIN row \ gone) BY <1>22 DEF DeleteRow
    <2>2. RowsFit(row') BY <2>1 DEF TablesFit, RowsFit, Restrict
    <2>3. c.path \in Seq(Frames) /\ c.path # <<>> BY <1>22 DEF DeleteRow, AsksFit
    <2>4. Unwind(c.path) \in Seq(Frames) /\ (Unwind(c.path) = <<>> <=> Len(c.path) = 1)
      BY <2>3, UnwindFits
    <2>5. AsksFit'
      <3> DEFINE d == [c EXCEPT !.path = Unwind(@),
                                !.stage = IF Len(c.path) = 1 THEN "done" ELSE "walking"]
      <3>1. calls' = (calls \ {c}) \cup {d} BY <1>22 DEF DeleteRow
      <3>2. /\ d.op = c.op /\ d.id = c.id /\ d.to = c.to /\ d.path = Unwind(c.path)
            /\ d.stage = "walking" <=> Len(c.path) # 1
        BY DEF CallsFit
      <3> HIDE DEF d
      <3> QED BY <2>4, <3>1, <3>2 DEF AsksFit
    <2>6. UNCHANGED <<loads, shown, dialog, activity, sidebar, selected, error>>
      BY <1>22 DEF DeleteRow, store, page
    <2> QED BY <2>2, <2>5, <2>6 DEF TablesFit, DialogFits, PageFits, Panel, RowsFit
  <1>3. ASSUME NEW c \in calls, AnswerChange(c) \/ AnswerDelete(c) PROVE TypesFit'
    <2>1. UNCHANGED <<row, shown, dialog, activity, sidebar, selected>> /\ StartLoad(c.then)
          /\ calls' = calls \ {c}
      BY <1>3 DEF AnswerChange, AnswerDelete, table, page
    <2>2. AsksFit' BY <2>1 DEF AsksFit
    <2>3. TablesFit' /\ error' \in BOOLEAN BY <2>1, StartLoadTypes
    <2> QED BY <2>1, <2>2, <2>3 DEF DialogFits, PageFits, Panel
  <1>4. ASSUME NEW c \in calls, AnswerFailed(c) PROVE TypesFit'
    <2>1. UNCHANGED <<row, shown, activity, sidebar, selected>> /\ CloseDialog(c.then)
          /\ calls' = calls \ {c}
      BY <1>4 DEF AnswerFailed, table
    <2>2. AsksFit' BY <2>1 DEF AsksFit
    <2>3. TablesFit' /\ error' \in BOOLEAN
      <3>1. CASE c.then \in {"editor", "reload"}
        BY <1>4, <2>1, <3>1, StartLoadTypes DEF AnswerFailed
      <3>2. CASE c.then \notin {"editor", "reload"}
        BY <1>4, <2>1, <3>2 DEF AnswerFailed, TablesFit, PageFits
      <3> QED BY <3>1, <3>2
    <2>4. DialogFits' BY <2>1 DEF CloseDialog, Closed, DialogFits, Panel
    <2> QED BY <2>1, <2>2, <2>3, <2>4 DEF PageFits
  <1>5. ASSUME NEW l \in Loads, ReadTree(l) PROVE TypesFit'
    <2>1. UNCHANGED <<row, calls, shown, dialog, activity, sidebar, selected, error>>
      BY <1>5 DEF ReadTree, table, store, page
    <2>2. loads'[l].tree = Tree(row) /\ \A k \in Loads \ {l} : loads'[k] = loads[k]
      BY <1>5 DEF ReadTree, LoadsFit
    <2>3. RowsFit(Tree(row)) BY TreeFits DEF TablesFit
    <2> QED BY <2>1, <2>2, <2>3 DEF TablesFit, RowsFit, AsksFit, DialogFits, PageFits, Panel
  <1>6. ASSUME NEW l \in Loads, ShowTree(l) \/ FailLoad(l) PROVE TypesFit'
    <2>1. /\ UNCHANGED <<row, calls, activity, sidebar, selected>>
          /\ shown' \in {shown, loads[l].tree}
          /\ loads' = [loads EXCEPT ![l] = NextLoad(loads[l].then)]
          /\ CloseDialog(loads[l].then)
      BY <1>6 DEF ShowTree, FailLoad, table
    <2>2. error' \in BOOLEAN BY <1>6 DEF ShowTree, FailLoad, PageFits
    <2>3. TablesFit' BY <2>1 DEF LoadsFit, TablesFit, NextLoad, Idle, NoTree, RowsFit
    <2>4. DialogFits' BY <2>1 DEF CloseDialog, Closed, DialogFits, Panel
    <2> QED BY <2>1, <2>2, <2>3, <2>4 DEF AsksFit, PageFits
  <1>7. ASSUME NEW key \in Activities, SelectActivity(key) PROVE TypesFit'
    <2>1. UNCHANGED <<row, shown, dialog, selected>> /\ dialog = Closed /\ activity' = key
          /\ sidebar' = (key # activity \/ ~sidebar)
      BY <1>7 DEF SelectActivity, ShowActivity, table
    <2>2. AsksFit' BY <1>7 DEF SelectActivity, ShowActivity, DetachAll, AsksFit, CallsFit
    <2>3. TablesFit' /\ error' \in BOOLEAN
      <3> DEFINE gone == [k \in Loads |-> [loads[k] EXCEPT !.then = Detached(@)]]
                 asked == [Idle EXCEPT !.stage = "asked"]
      <3>1. \/ error' = FALSE /\ \E l \in FreeLoads : loads' = [gone EXCEPT ![l] = asked]
            \/ loads' = gone /\ UNCHANGED error
        BY <1>7 DEF SelectActivity, ShowActivity
      <3>2. asked.tree = NoTree BY DEF Idle
      <3>3. \A k \in Loads : gone[k].tree = loads[k].tree BY DEF LoadsFit
      <3>4. DOMAIN gone = Loads OBVIOUS
      <3> HIDE DEF gone, asked
      <3>5. \A k \in Loads : loads'[k].tree \in {loads[k].tree, NoTree}
        BY <3>1, <3>2, <3>3, <3>4
      <3>6. TablesFit' BY <2>1, <3>5, NoTreeFits DEF TablesFit, RowsFit
      <3> QED BY <3>1, <3>6 DEF PageFits
    <2> QED BY <2>1, <2>2, <2>3 DEF DialogFits, PageFits
  <1>8. ASSUME Refresh PROVE TypesFit'
    <2>1. UNCHANGED <<row, shown, calls, dialog, activity, sidebar, selected>> /\ StartLoad("nothing")
      BY <1>8 DEF Refresh, table
    <2>2. TablesFit' /\ error' \in BOOLEAN BY <2>1, StartLoadTypes
    <2> QED BY <2>1, <2>2 DEF AsksFit, DialogFits, PageFits, Panel
  <1>9. ASSUME NEW op \in {"create", "update", "delete", "rename", "move"}, NEW id \in Keys,
               NEW to \in Parents, NEW then, op = "create" => id \in Ids, Ask(op, id, to, then),
               UNCHANGED <<table, loads, store, activity, sidebar>>,
               UNCHANGED dialog \/ dialog' = Closed
        PROVE  TypesFit'
    <2>1. AsksFit'
      <3> DEFINE d == [op |-> op, id |-> id, to |-> to, then |-> then, stage |-> "asked",
                       path |-> <<>>]
      <3>1. calls' = calls \cup {d} BY <1>9 DEF Ask
      <3>2. d.op = op /\ d.id = id /\ d.to = to /\ d.path = <<>> /\ d.stage = "asked" OBVIOUS
      <3>3. <<>> \in Seq(Frames) OBVIOUS
      <3> HIDE DEF d
      <3> QED BY <1>9, <3>1, <3>2, <3>3 DEF AsksFit
    <2>2. DialogFits' BY <1>9 DEF Closed, DialogFits, Panel
    <2> QED BY <1>9, <2>1, <2>2 DEF table, store, TablesFit, RowsFit, PageFits
  <1>10. /\ Root \in Parents /\ NewIds \subseteq Ids /\ GetTargetParentId \in Parents
         /\ Ids \subseteq Keys /\ selected \in Keys /\ dialog.id \in Keys
    BY DEF Parents, Keys, NewIds, GetTargetParentId, TablesFit, RowsFit, DialogFits, PageFits, Ids
  <1>11. CASE TreeModals
    <2>1. CASE Cancel BY <2>1 DEF Cancel, SetDialog, table, store, TablesFit, RowsFit, AsksFit,
                           DialogFits, PageFits, Panel, Closed
    <2>2. CASE HandleCreateGroup
      BY <1>9, <1>10, <2>2 DEF HandleCreateGroup, Ids, Parents
    <2>3. CASE HandleEditorSave BY <1>9, <1>10, <2>3 DEF HandleEditorSave
    <2>4. CASE DoRename BY <1>9, <1>10, <2>4 DEF DoRename
    <2>5. CASE ConfirmDelete BY <1>9, <1>10, <2>5 DEF ConfirmDelete
    <2> QED BY <1>11, <2>1, <2>2, <2>3, <2>4, <2>5 DEF TreeModals
  <1>12. ASSUME NEW kind \in {"group", "picker", "editor", "rename", "delete"},
                NEW id \in Ids \cup {NoKey}, Panel = "assets", SetDialog(kind, id)
         PROVE  TypesFit'
    BY <1>12 DEF SetDialog, table, store, TablesFit, RowsFit, AsksFit, DialogFits, PageFits, Panel
  <1>13. CASE OpenNewDialog \/ PickType \/ HandleEdit \/ HandleRename \/ HandleDelete
    <2>1. \A k \in DOMAIN shown : k \in Ids BY DEF TablesFit, RowsFit
    <2>2. CASE OpenNewDialog BY <1>12, <2>2 DEF OpenNewDialog, TreeIsOpen
    <2>3. CASE PickType
      <3>1. dialog # Closed BY <2>3 DEF PickType, Closed
      <3> QED BY <1>12, <2>3, <3>1 DEF PickType, DialogFits
    <2>4. CASE HandleEdit BY <1>12, <2>1, <2>4 DEF HandleEdit, TreeIsOpen, Offered
    <2>5. CASE HandleRename BY <1>12, <2>1, <2>5 DEF HandleRename, TreeIsOpen
    <2>6. CASE HandleDelete BY <1>12, <2>1, <2>6 DEF HandleDelete, TreeIsOpen
    <2> QED BY <1>13, <2>2, <2>3, <2>4, <2>5, <2>6
  <1>14. ASSUME NEW g \in Groups \cup {Root}, HandleMoveTo(g) PROVE TypesFit'
    <2>1. g \in Parents BY DEF Parents, Ids
    <2> QED BY <1>9, <1>10, <1>14, <2>1 DEF HandleMoveTo
  <1>15. CASE Drag
    <2>1. PICK id, over \in Ids : OnUp(id, over) BY <1>15 DEF Drag
    <2>2. DropTarget(over) \in Parents
      BY <2>1 DEF OnUp, DropTarget, TablesFit, RowsFit, Parents
    <2> QED BY <1>9, <1>10, <2>1, <2>2 DEF OnUp
  <1>16. ASSUME UNCHANGED <<table, calls, loads, shown, error, dialog, activity, sidebar>>,
                selected' \in Ids \cup {PgNode, NoKey}
         PROVE  TypesFit'
    BY <1>16 DEF table, TablesFit, RowsFit, AsksFit, DialogFits, PageFits, Panel
  <1>17. selected \in Ids \cup {PgNode, NoKey} BY DEF PageFits
  <1>18. CASE TreeClicks
    <2>1. ASSUME NEW k \in Ids \cup {PgNode}, SelectKey(k) PROVE TypesFit'
      BY <1>16, <2>1 DEF SelectKey, page
    <2>2. ASSUME NEW a, DoubleClickHost(a) PROVE TypesFit'
      BY <1>16, <1>17, <2>2 DEF DoubleClickHost, OpenTab
    <2> QED BY <1>18, <2>1, <2>2 DEF TreeClicks
  <1>19. CASE TabStrip BY <1>16, <1>17, <1>19 DEF TabStrip, SetActiveTab, CloseTab, page
  <1>20. CASE OpenTool \/ UNCHANGED vars
    BY <1>16, <1>17, <1>20 DEF OpenTool, OpenTab, vars, table
  <1> QED
    BY <1>1, <1>2, <1>3, <1>4, <1>5, <1>6, <1>7, <1>8, <1>11, <1>13, <1>14, <1>15, <1>18,
       <1>19, <1>20, <1>21, <1>22
       DEF Next, UserNext, TreeToolbar, TreeMenu, ActivityBar

\* The shell's variables hold what they should in every reachable state: rows below
\* assets, roots or database nodes only, a dialog only over the tree, and a deletion at
\* a row exactly while it walks (App.tsx, connectionStore.ts, AssetTree.tsx, asset.go).
THEOREM WorkspaceTypes == Spec => []TypeOK
  <1>1. Init => IInv /\ TypesFit BY InitIInv, InitTypes
  <1>2. IInv /\ TypesFit /\ [Next]_vars => (IInv /\ TypesFit)' BY NextIInv, NextTypes
  <1>3. IInv /\ TypesFit => TypeOK
    <2> SUFFICES ASSUME LoadsFit, CountsFit, TypesFit PROVE TypeOK BY DEF IInv
    <2>1. DOMAIN row \subseteq Ids /\ Range(row) \subseteq Ids \cup {Root, PgNode}
      BY DEF TypesFit, TablesFit, RowsFit, Parents, Range
    <2>2. \A c \in calls : c.path # <<>> <=> c.stage = "walking" BY DEF TypesFit, AsksFit
    <2>3. /\ selected \in Ids \cup {PgNode, NoKey}
          /\ dialog.kind \in {"none", "group", "picker", "editor", "rename", "delete"}
          /\ activity \in Activities /\ sidebar \in BOOLEAN /\ error \in BOOLEAN
          /\ dialog # Closed => Panel = "assets"
      BY DEF TypesFit, DialogFits, PageFits
    <2> QED BY <2>1, <2>2, <2>3 DEF LoadsFit, CountsFit, TypeOK
  <1> QED BY <1>1, <1>2, <1>3, PTL DEF Spec

-----------------------------------------------------------------------------
(* The tabs.                                                                *)

\* The open tabs differ, and the active one is one of them.
TabsFit ==
    /\ tabs \in Seq(Tabs) /\ Distinct(tabs)
    /\ IF tabs = <<>> THEN active = NoKey ELSE active \in Range(tabs)

\* No tab is open at first.
THEOREM InitTabs == Init => TabsFit
  BY DEF Init, TabsFit, Distinct

\* openTab adds a tab that is not open, and shows it.
LEMMA OpenTabFits == ASSUME TabsFit, NEW tab \in Tabs, OpenTab(tab) PROVE TabsFit'
  <1>1. tabs' = (IF tab \in Range(tabs) THEN tabs ELSE Append(tabs, tab)) /\ active' = tab
    BY DEF OpenTab
  <1>2. CASE tab \in Range(tabs)
    <2>1. tabs # <<>> BY <1>2 DEF Range
    <2> QED BY <1>1, <1>2, <2>1 DEF TabsFit
  <1>3. CASE tab \notin Range(tabs)
    <2>1. tabs' = Append(tabs, tab) /\ tabs' \in Seq(Tabs) BY <1>1, <1>3 DEF TabsFit
    <2> QED BY <1>1, <1>3, <2>1, AppendRange DEF TabsFit
  <1> QED BY <1>2, <1>3

\* closeTab shows the last tab that is left when it closes the active one.
LEMMA CloseTabFits == ASSUME TabsFit, NEW tab \in Range(tabs), CloseTab(tab) PROVE TabsFit'
  <1>1. tabs' = Without(tabs, {tab}) /\ active' = IF active = tab THEN LastTab(tabs') ELSE active
    BY DEF CloseTab
  <1>2. tabs' \in Seq(Tabs) /\ Distinct(tabs') /\ Range(tabs') = Range(tabs) \ {tab}
    BY <1>1, WithoutRange DEF TabsFit
  <1>3. CASE active = tab BY <1>1, <1>2, <1>3, EndsInRange DEF LastTab, TabsFit, Distinct
  <1>4. CASE active # tab
    <2>1. tabs # <<>> BY DEF Range
    <2>2. active \in Range(tabs') BY <1>2, <1>4, <2>1 DEF TabsFit
    <2>3. tabs' # <<>> BY <2>2 DEF Range
    <2> QED BY <1>1, <1>2, <1>4, <2>2, <2>3 DEF TabsFit, Distinct
  <1> QED BY <1>3, <1>4

\* So does deleteAsset when the active tab was one of the asset.
LEMMA DeleteTabsFits == ASSUME TabsFit, NEW c, AnswerDelete(c) PROVE TabsFit'
  <1>1. /\ tabs' = TabsWithout(c.id)
        /\ active' = IF active \in Range(tabs') THEN active ELSE LastTab(tabs')
    BY DEF AnswerDelete
  <1>2. tabs' \in Seq(Tabs) /\ Distinct(tabs')
    BY <1>1, WithoutRange DEF TabsWithout, TabsFit
  <1>3. CASE active \in Range(tabs')
    <2>1. tabs' # <<>> BY <1>3 DEF Range
    <2> QED BY <1>1, <1>2, <1>3, <2>1 DEF TabsFit, Distinct
  <1>4. CASE active \notin Range(tabs')
    BY <1>1, <1>2, <1>4, EndsInRange DEF LastTab, TabsFit, Distinct
  <1> QED BY <1>3, <1>4

\* No other step touches the tabs but a click on one.
THEOREM NextTabs == TabsFit /\ [Next]_vars => TabsFit'
  <1> SUFFICES ASSUME TabsFit, [Next]_vars PROVE TabsFit' OBVIOUS
  <1>1. CASE UNCHANGED <<tabs, active>> BY <1>1 DEF TabsFit
  <1>2. CASE TreeClicks
    <2>1. ASSUME NEW k \in Ids \cup {PgNode}, SelectKey(k) PROVE TabsFit'
      BY <1>1, <2>1 DEF SelectKey
    <2>2. ASSUME NEW a \in Hosts, DoubleClickHost(a) PROVE TabsFit'
      <3>1. HostTab(a) \in Tabs BY WorkspaceAssumption DEF HostTab, Tabs
      <3> QED BY <2>2, <3>1, OpenTabFits DEF DoubleClickHost
    <2> QED BY <1>2, <2>1, <2>2 DEF TreeClicks
  <1>3. CASE OpenTool
    <2>1. ToolTab \in Tabs BY DEF ToolTab, Tabs
    <2> QED BY <1>3, <2>1, OpenTabFits DEF OpenTool
  <1>4. CASE TabStrip
    <2>1. PICK tab \in Range(tabs) : SetActiveTab(tab) \/ CloseTab(tab) BY <1>4 DEF TabStrip
    <2>2. CASE SetActiveTab(tab)
      <3>1. tabs # <<>> BY <2>1 DEF Range
      <3> QED BY <2>1, <2>2, <3>1 DEF SetActiveTab, TabsFit
    <2>3. CASE CloseTab(tab) BY <2>3, CloseTabFits
    <2> QED BY <2>1, <2>2, <2>3
  <1>5. CASE \E c \in calls : AnswerDelete(c) BY <1>5, DeleteTabsFits
  <1>6. CASE TreeToolbar \/ TreeMenu \/ TreeModals \/ PickType
    BY <1>1, <1>6 DEF store, TreeToolbar, Refresh, OpenNewDialog, SetDialog, TreeMenu, HandleEdit,
       HandleRename, HandleDelete, HandleMoveTo, TreeModals, Cancel, HandleCreateGroup,
       HandleEditorSave, DoRename, ConfirmDelete, PickType
  <1>7. CASE Drag \/ ActivityBar
    BY <1>1, <1>7 DEF store, Drag, OnUp, ActivityBar, SelectActivity, ShowActivity
  <1>8. CASE \E c \in calls : \/ Perform(c) \/ DeleteChildren(c) \/ DeleteRow(c) \/ Refuse(c)
                             \/ AnswerChange(c) \/ AnswerFailed(c)
    BY <1>1, <1>8 DEF store, Perform, DeleteChildren, DeleteRow, Refuse, AnswerChange,
       AnswerFailed
  <1>9. CASE \E l \in Loads : ReadTree(l) \/ ShowTree(l) \/ FailLoad(l)
    BY <1>1, <1>9 DEF store, ReadTree, ShowTree, FailLoad
  <1>10. CASE UNCHANGED vars BY <1>1, <1>10 DEF vars
  <1> QED BY <1>2, <1>3, <1>4, <1>5, <1>6, <1>7, <1>8, <1>9, <1>10 DEF Next, UserNext

\* The active tab is an open one, and no tab is open twice, however openTab, closeTab and
\* the late answers of deleteAsset follow each other (connectionStore.ts:111-196).
THEOREM ActiveTabIsOpen == Spec => []ActiveIsOpen
  <1>1. TabsFit => ActiveIsOpen
    <2> SUFFICES ASSUME TabsFit PROVE ActiveIsOpen OBVIOUS
    <2>1. Range(tabs) \subseteq Tabs /\ DOMAIN tabs = 1 .. Len(tabs) BY DEF TabsFit, Range
    <2>2. active = NoKey <=> tabs = <<>> BY <2>1, NoKeyIsNoTab DEF TabsFit
    <2>3. Cardinality(Range(tabs)) = Len(tabs)
      <3>1. tabs \in Bijection(1 .. Len(tabs), Range(tabs))
        BY <2>1 DEF TabsFit, Distinct, Range, Bijection, Injection, Surjection, IsInjective
      <3>2. ExistsBijection(1 .. Len(tabs), Range(tabs)) BY <3>1 DEF ExistsBijection
      <3>3. Len(tabs) \in Nat BY DEF TabsFit
      <3>4. IsFiniteSet(1 .. Len(tabs)) /\ Cardinality(1 .. Len(tabs)) = Len(tabs)
        <4>1. IsFiniteSet(1 .. Len(tabs))
              /\ Cardinality(1 .. Len(tabs)) = IF 1 > Len(tabs) THEN 0 ELSE Len(tabs) - 1 + 1
          BY <3>3, FS_Interval
        <4> QED BY <3>3, <4>1
      <3> QED BY <3>2, <3>4, FS_Bijection
    <2> QED BY <2>2, <2>3 DEF TabsFit, Distinct, ActiveIsOpen
  <1> QED BY <1>1, InitTabs, NextTabs, PTL DEF Spec

-----------------------------------------------------------------------------
(* The rows stay in the tree.                                               *)

\* Where a deletion has read the children of a row, every row below it is one of
\* those children or was put there since.
WalkFits ==
    \A c \in calls : \A n \in DOMAIN c.path : \A x \in DOMAIN row :
        row[x] = c.path[n].id => x \in c.path[n].kids \/ <<x, c.path[n].id>> \in late

\* A row a deletion is at is a walked one.
LEMMA FramesAreWalked ==
  ASSUME NEW cs, NEW c \in cs, NEW n \in DOMAIN c.path
  PROVE  c.path[n].id \in Walked(cs)
  BY DEF Walked, Range

\* Rows that go, and rows put below a walked one that late then knows of, are all that
\* may happen to a recursion that goes on.
LEMMA WalkStays ==
  ASSUME WalkFits, NEW c \in calls, NEW n \in DOMAIN c.path, c.path[n].id \in Walked(calls'),
         \A x \in DOMAIN row' : \/ x \in DOMAIN row /\ row'[x] = row[x]
                                \/ row'[x] \in Walked(calls) => <<x, row'[x]>> \in late',
         \A l \in late : l[2] \in Walked(calls') => l \in late',
         NEW x \in DOMAIN row', row'[x] = c.path[n].id
  PROVE  x \in c.path[n].kids \/ <<x, c.path[n].id>> \in late'
  <1>1. CASE x \in DOMAIN row /\ row'[x] = row[x] BY <1>1 DEF WalkFits
  <1>2. CASE row'[x] \in Walked(calls) => <<x, row'[x]>> \in late' BY <1>2, FramesAreWalked
  <1> QED BY <1>1, <1>2

\* A call goes on without one.
LEMMA WalkEnds ==
  ASSUME WalkFits,
         \A d \in calls' : d \in calls \/ d.path = <<>>
                           \/ \E c \in calls : d.path = c.path,
         \A x \in DOMAIN row' : \/ x \in DOMAIN row /\ row'[x] = row[x]
                                \/ row'[x] \in Walked(calls) => <<x, row'[x]>> \in late',
         \A l \in late : l[2] \in Walked(calls') => l \in late'
  PROVE  WalkFits'
  <1> SUFFICES ASSUME NEW d \in calls', NEW n \in DOMAIN d.path, NEW x \in DOMAIN row',
                      row'[x] = d.path[n].id
               PROVE  x \in d.path[n].kids \/ <<x, d.path[n].id>> \in late'
    BY DEF WalkFits
  <1>1. d.path # <<>> OBVIOUS
  <1>2. PICK c \in calls : d.path = c.path BY <1>1
  <1>3. c.path[n].id \in Walked(calls') BY <1>2, FramesAreWalked
  <1> QED BY <1>2, <1>3, WalkStays

\* No deletion is under way at first.
THEOREM InitWalks == Init => WalkFits
  BY DEF Init, WalkFits

\* No step lets a row get below a walked one unnoticed.
THEOREM NextWalks == IInv /\ TypesFit /\ WalkFits /\ [Next]_vars => WalkFits'
  <1> SUFFICES ASSUME CallsFit, AsksFit, WalkFits, [Next]_vars PROVE WalkFits'
    BY DEF IInv, TypesFit
  <1>1. ASSUME NEW c \in calls, Perform(c) PROVE WalkFits'
    <2>0. c.op \in {"create", "update", "delete", "rename", "move"} BY DEF AsksFit
    <2> DEFINE d == [c EXCEPT !.stage = "done"]
    <2>1. calls' = (calls \ {c}) \cup {d} /\ d.path = c.path BY <1>1 DEF Perform, CallsFit
    <2>2. /\ late' = IF row' # row /\ c.to \in Walked(calls) THEN late \cup {<<c.id, c.to>>} ELSE late
          /\ \A x \in DOMAIN row' : \/ x \in DOMAIN row /\ row'[x] = row[x]
                                    \/ x = c.id /\ row'[x] = c.to
      BY <1>1, <2>0 DEF Perform, Create, SetParent
    <2> HIDE DEF d
    <2>3. \A x \in DOMAIN row' : \/ x \in DOMAIN row /\ row'[x] = row[x]
                                 \/ row'[x] \in Walked(calls) => <<x, row'[x]>> \in late'
      BY <2>2
    <2> QED BY <2>1, <2>2, <2>3, WalkEnds
  <1>2. ASSUME NEW c \in calls, DeleteChildren(c) PROVE WalkFits'
    <2>1. PICK id : calls' = (calls \ {c}) \cup
                     {[c EXCEPT !.stage = "walking",
                                !.path = Append(@, [id |-> id, kids |-> Children(id)])]}
      BY <1>2 DEF DeleteChildren
    <2> DEFINE f == [id |-> id, kids |-> Children(id)]
               d == [c EXCEPT !.stage = "walking", !.path = Append(@, f)]
    <2>2. UNCHANGED <<row, late>> BY <1>2 DEF DeleteChildren, table
    <2>3. calls' = (calls \ {c}) \cup {d} /\ d.path = Append(c.path, f) BY <2>1 DEF CallsFit
    <2>4. f.id = id /\ f.kids = Children(id) OBVIOUS
    <2>5. c.path \in Seq(Frames) BY DEF AsksFit
    <2> HIDE DEF d, f
    <2>6. ASSUME NEW n \in DOMAIN d.path, NEW x \in DOMAIN row, row[x] = d.path[n].id
          PROVE  x \in d.path[n].kids \/ <<x, d.path[n].id>> \in late
      <3>1. (n \in DOMAIN c.path /\ d.path[n] = c.path[n]) \/ d.path[n] = f BY <2>3, <2>5
      <3> QED BY <2>4, <2>6, <3>1 DEF WalkFits, Children
    <2> QED BY <2>2, <2>3, <2>6 DEF WalkFits
  <1>3. ASSUME NEW c \in calls, DeleteRow(c) PROVE WalkFits'
    <2> DEFINE d == [c EXCEPT !.path = Unwind(@),
                              !.stage = IF Len(c.path) = 1 THEN "done" ELSE "walking"]
    <2>1. calls' = (calls \ {c}) \cup {d} /\ d.path = Unwind(c.path)
      BY <1>3 DEF DeleteRow, CallsFit
    <2>2. /\ late' = {l \in late : l[2] \in Walked(calls')}
          /\ \A x \in DOMAIN row' : x \in DOMAIN row /\ row'[x] = row[x] /\ x # Top(c).id
      BY <1>3 DEF DeleteRow, Restrict
    <2>3. c.path \in Seq(Frames) /\ c.path # <<>> BY <1>3 DEF DeleteRow, AsksFit
    <2> HIDE DEF d
    <2>4. ASSUME NEW b \in calls', NEW n \in DOMAIN b.path, NEW x \in DOMAIN row',
                 row'[x] = b.path[n].id
          PROVE  x \in b.path[n].kids \/ <<x, b.path[n].id>> \in late'
      <3>1. b.path[n].id \in Walked(calls') BY FramesAreWalked
      <3>2. CASE b \in calls BY <2>2, <2>4, <3>1, <3>2, WalkStays
      <3>3. CASE b = d
        <4>1. /\ n \in 1 .. Len(c.path) - 1 /\ b.path[n].id = c.path[n].id
              /\ c.path[n].kids \ {Top(c).id} \subseteq b.path[n].kids
          BY <2>1, <2>3, <3>3, UnwindFits DEF Top
        <4>2. n \in DOMAIN c.path BY <2>3, <4>1
        <4>3. x \in c.path[n].kids \/ <<x, c.path[n].id>> \in late'
          BY <2>2, <2>4, <3>1, <4>1, <4>2, WalkStays
        <4> QED BY <2>2, <4>1, <4>3
      <3> QED BY <2>1, <3>2, <3>3
    <2> QED BY <2>4 DEF WalkFits
  <1>4. ASSUME NEW c \in calls, Refuse(c) PROVE WalkFits'
    <2> DEFINE d == [c EXCEPT !.stage = "failed", !.path = <<>>]
    <2>1. calls' = (calls \ {c}) \cup {d} /\ d.path = <<>> BY <1>4 DEF Refuse, CallsFit
    <2>2. row' = row /\ late' = {l \in late : l[2] \in Walked(calls')} BY <1>4 DEF Refuse
    <2> HIDE DEF d
    <2> QED BY <2>1, <2>2, WalkEnds
  <1>5. ASSUME UNCHANGED <<row, late>>,
               \A d \in calls' : d \in calls \/ d.path = <<>> \/ \E c \in calls : d.path = c.path
        PROVE  WalkFits'
    BY <1>5, WalkEnds
  <1>6. ASSUME NEW c \in calls, AnswerChange(c) \/ AnswerDelete(c) \/ AnswerFailed(c)
        PROVE  WalkFits'
    BY <1>5, <1>6 DEF table, AnswerChange, AnswerDelete, AnswerFailed
  <1>7. ASSUME NEW op, NEW id, NEW to, NEW then, Ask(op, id, to, then), UNCHANGED table
        PROVE  WalkFits'
    BY <1>5, <1>7 DEF table, Ask
  <1>8. ASSUME UNCHANGED <<table, calls>> PROVE WalkFits'
    BY <1>8 DEF table, WalkFits
  <1>9. ASSUME NEW key, SelectActivity(key) PROVE WalkFits'
    <2>1. UNCHANGED <<row, late>> /\ calls' = {[c EXCEPT !.then = Detached(c.then)] : c \in calls}
      BY <1>9 DEF SelectActivity, ShowActivity, DetachAll, table
    <2>2. \A c \in calls : [c EXCEPT !.then = Detached(c.then)].path = c.path BY DEF CallsFit
    <2> QED BY <1>5, <2>1, <2>2
  <1>10. CASE TreeToolbar \/ PickType
    BY <1>8, <1>10 DEF TreeToolbar, Refresh, OpenNewDialog, PickType, SetDialog
  <1>11. CASE TreeMenu
    BY <1>7, <1>8, <1>11 DEF TreeMenu, HandleEdit, HandleRename, HandleDelete, HandleMoveTo,
       SetDialog
  <1>12. CASE TreeModals
    BY <1>7, <1>8, <1>12 DEF TreeModals, Cancel, HandleCreateGroup, HandleEditorSave, DoRename,
       ConfirmDelete, SetDialog
  <1>13. CASE Drag BY <1>7, <1>13 DEF Drag, OnUp
  <1>14. CASE TreeClicks \/ TabStrip \/ OpenTool
    BY <1>8, <1>14 DEF TreeClicks, SelectKey, DoubleClickHost, OpenTab, TabStrip, SetActiveTab,
       CloseTab, OpenTool
  <1>15. CASE \E l \in Loads : ReadTree(l) \/ ShowTree(l) \/ FailLoad(l)
    BY <1>8, <1>15 DEF ReadTree, ShowTree, FailLoad
  <1>16. CASE UNCHANGED vars BY <1>8, <1>16 DEF vars, table
  <1> QED
    BY <1>1, <1>2, <1>3, <1>4, <1>6, <1>9, <1>10, <1>11, <1>12, <1>13, <1>14, <1>15, <1>16
       DEF Next, UserNext, ActivityBar

\* What RowsStayReachable allows one step to cut off.
NoneLost ==
    \A i \in DOMAIN Tree(row) \ DOMAIN Tree(row') :
        \/ i \notin DOMAIN row'
        \/ \E g \in DOMAIN row' : /\ row'[g] # row[g]
                                 /\ row'[g] \notin DOMAIN Tree(row') \cup {Root}
                                 /\ i \in Below(row', g) \cup {g}
        \/ \E l \in late : /\ l[1] \in DOMAIN row /\ row[l[1]] = l[2]
                           /\ l[2] \notin DOMAIN row'
                           /\ i \in Below(row, l[1]) \cup {l[1]}

\* The nodes of the tree are the rows that hang from the root.
LEMMA TreeDomain == ASSUME NEW r, RowsFit(r) PROVE DOMAIN Tree(r) = HangFrom(r, Root)
  <1>1. HangFrom(r, Root) \subseteq DOMAIN r BY HangFromIsLeastClosed DEF RowsFit
  <1> QED BY <1>1 DEF Tree, Restrict

\* One statement cuts off no more than it may.
LEMMA PerformCuts ==
  ASSUME AsksFit, RowsFit(row), RowsFit(row'), NEW c \in calls, Perform(c)
  PROVE  NoneLost
  <1> DEFINE r == row
             q == row'
  <1>0. /\ DOMAIN r \subseteq Ids /\ DOMAIN q \subseteq Ids
        /\ DOMAIN Tree(r) = HangFrom(r, Root) /\ DOMAIN Tree(q) = HangFrom(q, Root)
    BY TreeDomain DEF RowsFit
  <1>1. CASE q = r BY <1>1 DEF NoneLost
  <1>2. CASE q # r
    <2>1. c.id \in DOMAIN q /\ \A i \in DOMAIN r \ {c.id} : i \in DOMAIN q /\ q[i] = r[i]
      <3>1. c.op \in {"create", "update", "delete", "rename", "move"} BY DEF AsksFit
      <3> QED BY <1>2, <3>1 DEF Perform, Create, SetParent
    <2> HIDE DEF r, q
    <2>2. ASSUME NEW i \in HangFrom(r, Root) \ HangFrom(q, Root)
          PROVE  /\ q[c.id] # r[c.id] /\ q[c.id] \notin HangFrom(q, Root) \cup {Root}
                 /\ i \in Below(q, c.id) \cup {c.id}
      BY <1>0, <2>1, MoveCutsOnlyBelow
    <2> USE DEF r, q
    <2> QED BY <1>0, <2>1, <2>2 DEF NoneLost
  <1> QED BY <1>1, <1>2

\* A deletion that is done with the children of a row cuts off what came below it since.
LEMMA DeleteRowCuts ==
  ASSUME AsksFit, WalkFits, RowsFit(row), RowsFit(row'), NEW c \in calls, DeleteRow(c)
  PROVE  NoneLost
  <1> DEFINE r == row
             q == row'
             id == Top(c).id
  <1>0. /\ DOMAIN r \subseteq Ids /\ DOMAIN q \subseteq Ids
        /\ DOMAIN Tree(r) = HangFrom(r, Root) /\ DOMAIN Tree(q) = HangFrom(q, Root)
    BY TreeDomain DEF RowsFit
  <1>1. \/ q = Restrict(r, DOMAIN r \ ({id} \cup Below(r, id)))
        \/ q = Restrict(r, DOMAIN r \ {id})
    BY DEF DeleteRow
  <1>2. CASE q = Restrict(r, DOMAIN r \ ({id} \cup Below(r, id)))
    <2> HIDE DEF r, q, id
    <2>1. ASSUME NEW i \in HangFrom(r, Root), i \in DOMAIN q PROVE i \in HangFrom(q, Root)
      BY <1>0, <1>2, <2>1, DeleteCutsNone
    <2> USE DEF r, q
    <2> QED BY <1>0, <2>1 DEF NoneLost
  <1>3. CASE q = Restrict(r, DOMAIN r \ {id})
    <2>1. \A x \in DOMAIN r : r[x] = id => <<x, id>> \in late
      <3>1. c.path \in Seq(Frames) /\ c.path # <<>> BY DEF DeleteRow, AsksFit
      <3>2. Len(c.path) \in DOMAIN c.path BY <3>1
      <3>3. Top(c).kids = {} BY DEF DeleteRow
      <3> QED BY <3>2, <3>3 DEF WalkFits, Top
    <2> HIDE DEF r, q, id
    <2>2. ASSUME NEW i \in HangFrom(r, Root), i \in DOMAIN q, i \notin HangFrom(q, Root)
          PROVE  \E x \in DOMAIN r : r[x] = id /\ i \in Below(r, x) \cup {x}
      BY <1>0, <1>3, <2>2, DeleteCutsBelow
    <2>3. ASSUME NEW i \in HangFrom(r, Root), i \in DOMAIN q, i \notin HangFrom(q, Root)
          PROVE  \E l \in late : /\ l[1] \in DOMAIN r /\ r[l[1]] = l[2] /\ l[2] \notin DOMAIN q
                                 /\ i \in Below(r, l[1]) \cup {l[1]}
      <3>1. PICK x \in DOMAIN r : r[x] = id /\ i \in Below(r, x) \cup {x} BY <2>2, <2>3
      <3>2. id \notin DOMAIN q BY <1>3 DEF Restrict
      <3> DEFINE l == <<x, id>>
      <3>3. l \in late /\ l[1] = x /\ l[2] = id BY <2>1, <3>1
      <3> HIDE DEF l
      <3> QED BY <3>1, <3>2, <3>3
    <2> USE DEF r, q
    <2> QED BY <1>0, <2>3 DEF NoneLost
  <1> QED BY <1>1, <1>2, <1>3

\* So does every step: only statements touch the rows.
THEOREM StepCuts == AsksFit /\ WalkFits /\ RowsFit(row) /\ RowsFit(row') /\ [Next]_vars => NoneLost
  <1> SUFFICES ASSUME AsksFit, WalkFits, RowsFit(row), RowsFit(row'), [Next]_vars PROVE NoneLost
    OBVIOUS
  <1>1. CASE \E c \in calls : Perform(c) BY <1>1, PerformCuts
  <1>8. CASE \E c \in calls : DeleteRow(c) BY <1>8, DeleteRowCuts
  <1>2. CASE UNCHANGED row BY <1>2 DEF NoneLost, Tree, HangFrom
  <1>3. CASE TreeToolbar \/ TreeMenu \/ TreeModals \/ PickType
    <2>1. UNCHANGED row
      BY <1>3 DEF table, TreeToolbar, Refresh, OpenNewDialog, SetDialog, TreeMenu, HandleEdit,
         HandleRename, HandleDelete, HandleMoveTo, TreeModals, Cancel, HandleCreateGroup,
         HandleEditorSave, DoRename, ConfirmDelete, PickType
    <2> QED BY <1>2, <2>1
  <1>4. CASE TreeClicks \/ Drag \/ TabStrip \/ ActivityBar \/ OpenTool
    <2>1. UNCHANGED row
      BY <1>4 DEF table, TreeClicks, SelectKey, DoubleClickHost, OpenTab, Drag, OnUp, TabStrip,
         SetActiveTab, CloseTab, ActivityBar, SelectActivity, ShowActivity, OpenTool
    <2> QED BY <1>2, <2>1
  <1>5. CASE \E c \in calls : \/ DeleteChildren(c) \/ Refuse(c) \/ AnswerChange(c)
                             \/ AnswerDelete(c) \/ AnswerFailed(c)
    BY <1>2, <1>5 DEF table, DeleteChildren, Refuse, AnswerChange, AnswerDelete, AnswerFailed
  <1>6. CASE \E l \in Loads : ReadTree(l) \/ ShowTree(l) \/ FailLoad(l)
    BY <1>2, <1>6 DEF table, ReadTree, ShowTree, FailLoad
  <1>7. CASE UNCHANGED vars BY <1>2, <1>7 DEF vars
  <1> QED BY <1>1, <1>3, <1>4, <1>5, <1>6, <1>7, <1>8 DEF Next, UserNext

\* What the last step needs holds in every reachable state.
THEOREM WalksInvariance == Spec => [](IInv /\ TypesFit /\ WalkFits)
  <1>1. Init => IInv /\ TypesFit /\ WalkFits BY InitIInv, InitTypes, InitWalks
  <1>2. IInv /\ TypesFit /\ WalkFits /\ [Next]_vars => (IInv /\ TypesFit /\ WalkFits)'
    BY NextIInv, NextTypes, NextWalks
  <1> QED BY <1>1, <1>2, PTL DEF Spec

\* No call, late, overtaken, half done or failed, takes a row out of the tree that it is
\* not about: rows go with their own deletion, below a place that is not in the tree, or
\* because they were put below a row whose children a deletion had read by then: what
\* deleteChildren leaves behind without a transaction is that and no more
\* (asset.go:164-322).
THEOREM RowsStay == Spec => RowsStayReachable
  <1>1. /\ IInv /\ TypesFit /\ WalkFits /\ (IInv /\ TypesFit /\ WalkFits)' /\ [Next]_vars
        => [NoneLost]_vars
    BY StepCuts DEF TypesFit, TablesFit
  <1>2. [NoneLost]_vars => [\A i \in DOMAIN Tree(row) \ DOMAIN Tree(row') :
          \/ i \notin DOMAIN row'
          \/ \E g \in DOMAIN row' : /\ row'[g] # row[g]
                                   /\ row'[g] \notin DOMAIN Tree(row') \cup {Root}
                                   /\ i \in Below(row', g) \cup {g}
          \/ \E l \in late : /\ l[1] \in DOMAIN row /\ row[l[1]] = l[2]
                             /\ l[2] \notin DOMAIN row'
                             /\ i \in Below(row, l[1]) \cup {l[1]}]_vars
    BY DEF NoneLost
  <1> QED BY <1>1, <1>2, WalksInvariance, PTL DEF Spec, RowsStayReachable
==============================================================================
