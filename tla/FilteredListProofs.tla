------------------------ MODULE FilteredListProofs -------------------------
(***************************************************************************)
(* Theorems about the filters of a list, for any filters of finitely many  *)
(* levels, and any tests in them.                                          *)
(*                                                                         *)
(* parseMongoStyleFilter, Within, Keys and Means are recursive; that there *)
(* are such functions follows level by level (Induction).  What holds of a *)
(* filter if it holds of all filters of fewer levels holds of all          *)
(* (LevelByLevel).                                                         *)
(***************************************************************************)
EXTENDS FilteredList, ListQueryProofs

\* A set with 0 and all successors has every number: otherwise adding one maps
\* its part below a missing number into itself, but nothing to 0.
LEMMA Induction ==
    ASSUME NEW S, 0 \in S, \A n \in S : n \in Nat => n + 1 \in S, NEW m \in Nat
    PROVE  m \in S
<1> SUFFICES ASSUME m \notin S PROVE FALSE
    OBVIOUS
<1> DEFINE below == S \cap (0..m)
           next == [n \in below |-> n + 1]
<1>1. IsFiniteSet(0..m)
    BY FS_Interval
<1>2. IsFiniteSet(below)
    BY <1>1, FS_Subset
<1>3. \A n \in below : n \in Nat /\ n + 1 \in below
    OBVIOUS
<1>4. next \in Injection(below, below)
    BY <1>3 DEF Injection, IsInjective
<1>5. next \in Surjection(below, below)
    BY <1>2, <1>4, FS_Injection
<1>6. 0 \in below
    OBVIOUS
<1> HIDE DEF next
<1>7. PICK n \in below : next[n] = 0
    BY <1>5, <1>6 DEF Surjection
<1> QED
    BY <1>3, <1>7 DEF next

\* Filters in S if all of fewer levels are, are in S.
LEMMA LevelByLevel ==
    ASSUME NEW S,
           \A f \in Filters : (\A g \in Filters : Nesting[g] < Nesting[f] => g \in S) => f \in S
    PROVE  Filters \subseteq S
<1> DEFINE Low == {n \in Nat : \A f \in Filters : Nesting[f] < n => f \in S}
<1>0. Deepest \in Nat /\ \A f \in Filters : Nesting[f] \in 0..Deepest
    BY FiltersAssumption
<1>1. 0 \in Low
    BY <1>0
<1>2. ASSUME NEW n \in Low, n \in Nat PROVE n + 1 \in Low
    <2> SUFFICES ASSUME NEW f \in Filters, Nesting[f] < n + 1 PROVE f \in S
        OBVIOUS
    <2>1. \A g \in Filters : Nesting[g] < Nesting[f] => Nesting[g] < n
        BY <1>0
    <2> QED
        BY <2>1
<1>3. Deepest + 1 \in Low
    <2> HIDE DEF Low
    <2> QED
        BY <1>0, <1>1, <1>2, Induction
<1>4. \A f \in Filters : Nesting[f] < Deepest + 1
    BY <1>0
<1> QED
    BY <1>3, <1>4

\* The objects in a filter are filters of fewer levels.
LEMMA PartsBelow ==
    ASSUME NEW f \in Filters, NEW e \in ToSet(f), e.on \in {"$and", "$or"}
    PROVE  /\ e.parts \in Seq(Filters)
           /\ \A part \in ToSet(e.parts) : part \in Filters /\ Nesting[part] < Nesting[f]
<1>1. e.parts \in Seq(Filters) /\ \A part \in ToSet(e.parts) : Nesting[part] < Nesting[f]
    BY FiltersAssumption
<1>2. ToSet(e.parts) \subseteq Filters
    BY <1>1 DEF ToSet
<1> QED
    BY <1>1, <1>2

LEMMA FilterSeq ==
    ASSUME NEW f \in Filters
    PROVE  /\ Len(f) \in Nat /\ DOMAIN f = 1..Len(f)
           /\ \A i \in DOMAIN f : f[i] \in ToSet(f)
BY FiltersAssumption DEF ToSet

----------------------------------------------------------------------------
\* The recursive functions.

LEMMA ParseDef ==
    \A f \in Filters : parseMongoStyleFilter[f] = Entries(f, parseMongoStyleFilter)
<1> DEFINE Low(n) == {f \in Filters : Nesting[f] < n}
           Solves(g, n) == g = [f \in Low(n) |-> Entries(f, g)]
           Good == {n \in Nat : \E g : Solves(g, n)}
<1>0. Deepest \in Nat /\ \A f \in Filters : Nesting[f] \in 0..Deepest
    BY FiltersAssumption
<1>1. 0 \in Good
    <2>1. Low(0) = {}
        BY <1>0
    <2>2. Solves([f \in {} |-> f], 0)
        <3> HIDE DEF Low
        <3> QED
            BY <2>1
    <2> HIDE DEF Solves
    <2> QED
        BY <2>2
<1>2. ASSUME NEW n \in Good PROVE n + 1 \in Good
    <2>0. n \in Nat /\ n + 1 \in Nat
        OBVIOUS
    <2>1. PICK g : Solves(g, n)
        BY <1>2
    <2> DEFINE h == [f \in Low(n + 1) |-> Entries(f, g)]
    <2>2. \A f \in Low(n) : f \in Low(n + 1) /\ h[f] = g[f]
        <3>1. \A f \in Low(n) : f \in Low(n + 1)
            BY <1>0, <2>0
        <3>2. \A f \in Low(n) : g[f] = Entries(f, g)
            <4> HIDE DEF Low
            <4> QED
                BY <2>1
        <3> HIDE DEF Low
        <3> QED
            BY <3>1, <3>2
    <2>3. ASSUME NEW f \in Low(n + 1) PROVE Entries(f, h) = Entries(f, g)
        <3> HIDE DEF h
        <3>1. ASSUME NEW i \in DOMAIN f PROVE Entry(f[i], h) = Entry(f[i], g)
            <4> DEFINE e == f[i]
            <4>1. f \in Filters /\ e \in ToSet(f)
                BY FilterSeq
            <4>2. CASE e.on \in {"$and", "$or"}
                <5>1. \A j \in DOMAIN e.parts : e.parts[j] \in Low(n)
                    <6>1. \A j \in DOMAIN e.parts : e.parts[j] \in ToSet(e.parts)
                        BY DEF ToSet
                    <6>2. \A part \in ToSet(e.parts) : part \in Filters /\ Nesting[part] < Nesting[f]
                        BY <4>1, <4>2, PartsBelow
                    <6>3. Nesting[f] < n + 1
                        OBVIOUS
                    <6> HIDE DEF e
                    <6> QED
                        BY <1>0, <2>0, <4>1, <6>1, <6>2, <6>3
                <5>2. \A j \in DOMAIN e.parts : h[e.parts[j]] = g[e.parts[j]]
                    <6> HIDE DEF e, Low
                    <6> QED
                        BY <2>2, <5>1
                <5> HIDE DEF e, Low
                <5>3. [j \in DOMAIN e.parts |-> h[e.parts[j]]] = [j \in DOMAIN e.parts |-> g[e.parts[j]]]
                    BY <5>2
                <5>4. Entry(e, h) = Entry(e, g)
                    BY <4>2, <5>3 DEF Entry
                <5> QED
                    BY <5>4 DEF e
            <4>3. CASE e.on \notin {"$and", "$or"}
                <5> HIDE DEF e
                <5>1. Entry(e, h) = Entry(e, g)
                    BY <4>3 DEF Entry
                <5> QED
                    BY <5>1 DEF e
            <4> QED
                BY <4>2, <4>3
        <3>2. [i \in DOMAIN f |-> Entry(f[i], h)] = [i \in DOMAIN f |-> Entry(f[i], g)]
            BY <3>1
        <3> QED
            BY <3>2 DEF Entries
    <2>4. Solves(h, n + 1)
        <3>1. h = [f \in Low(n + 1) |-> Entries(f, g)]
            OBVIOUS
        <3> HIDE DEF h, Low
        <3> QED
            BY <2>3, <3>1
    <2>5. \E f : Solves(f, n + 1)
        <3> HIDE DEF Solves
        <3> QED
            BY <2>4
    <2> HIDE DEF Solves
    <2> QED
        BY <2>0, <2>5
<1>3. Deepest + 1 \in Good
    <2> HIDE DEF Good
    <2>1. \A n \in Good : n \in Nat => n + 1 \in Good
        BY <1>2
    <2> QED
        BY <1>0, <1>1, <2>1, Induction
<1>4. PICK g : Solves(g, Deepest + 1)
    BY <1>3
<1>5. Low(Deepest + 1) = Filters
    BY <1>0
<1> DEFINE R(f) == f = [filter \in Filters |-> Entries(filter, f)]
<1>6. R(g)
    <2> HIDE DEF Low
    <2> QED
        BY <1>4, <1>5
<1>7. parseMongoStyleFilter = CHOOSE f : R(f)
    BY DEF parseMongoStyleFilter
<1>8. R(parseMongoStyleFilter)
    <2> HIDE DEF R
    <2> QED
        BY <1>6, <1>7
<1> QED
    BY <1>8

\* A function that gathers what is in a filter and in those below it.
Gathers(F, Own, Sub) == F = [f \in Filters |-> Own[f] \cup UNION {F[p] : p \in Sub[f]}]

LEMMA Gather ==
    ASSUME NEW Own, NEW Sub,
           \A f \in Filters : \A p \in Sub[f] : p \in Filters /\ Nesting[p] < Nesting[f]
    PROVE  \E F : Gathers(F, Own, Sub)
<1> DEFINE Body(f, g) == Own[f] \cup UNION {g[p] : p \in Sub[f]}
           Low(n) == {f \in Filters : Nesting[f] < n}
           Solves(g, n) == g = [f \in Low(n) |-> Body(f, g)]
           Good == {n \in Nat : \E g : Solves(g, n)}
<1>0. Deepest \in Nat /\ \A f \in Filters : Nesting[f] \in 0..Deepest
    BY FiltersAssumption
<1>1. 0 \in Good
    <2>1. Low(0) = {}
        BY <1>0
    <2>2. Solves([f \in {} |-> f], 0)
        <3> HIDE DEF Low, Body
        <3> QED
            BY <2>1
    <2> HIDE DEF Solves
    <2> QED
        BY <2>2
<1>2. ASSUME NEW n \in Good PROVE n + 1 \in Good
    <2>0. n \in Nat /\ n + 1 \in Nat
        OBVIOUS
    <2>1. PICK g : Solves(g, n)
        BY <1>2
    <2> DEFINE h == [f \in Low(n + 1) |-> Body(f, g)]
    <2>2. \A f \in Low(n) : f \in Low(n + 1) /\ h[f] = g[f]
        <3>1. \A f \in Low(n) : f \in Low(n + 1)
            BY <1>0, <2>0
        <3>2. \A f \in Low(n) : g[f] = Body(f, g)
            <4> HIDE DEF Low, Body
            <4> QED
                BY <2>1
        <3> HIDE DEF Low, Body
        <3> QED
            BY <3>1, <3>2
    <2>3. ASSUME NEW f \in Low(n + 1) PROVE Body(f, h) = Body(f, g)
        <3>1. \A p \in Sub[f] : p \in Low(n)
            BY <1>0, <2>0
        <3> HIDE DEF h, Low
        <3>2. \A p \in Sub[f] : h[p] = g[p]
            BY <2>2, <3>1
        <3>3. {h[p] : p \in Sub[f]} = {g[p] : p \in Sub[f]}
            BY <3>2
        <3> QED
            BY <3>3
    <2>4. Solves(h, n + 1)
        <3>1. h = [f \in Low(n + 1) |-> Body(f, g)]
            OBVIOUS
        <3> HIDE DEF h, Low, Body
        <3> QED
            BY <2>3, <3>1
    <2>5. \E f : Solves(f, n + 1)
        <3> HIDE DEF Solves
        <3> QED
            BY <2>4
    <2> HIDE DEF Solves
    <2> QED
        BY <2>0, <2>5
<1>3. Deepest + 1 \in Good
    <2> HIDE DEF Good
    <2>1. \A n \in Good : n \in Nat => n + 1 \in Good
        BY <1>2
    <2> QED
        BY <1>0, <1>1, <2>1, Induction
<1>4. PICK g : Solves(g, Deepest + 1)
    BY <1>3
<1>5. Low(Deepest + 1) = Filters
    BY <1>0
<1>6. g = [f \in Filters |-> Body(f, g)]
    <2> HIDE DEF Low, Body
    <2> QED
        BY <1>4, <1>5
<1> QED
    BY <1>6 DEF Gathers

LEMMA PartsAreBelow ==
    ASSUME NEW f \in Filters, NEW kinds, kinds \subseteq {"$and", "$or"}, NEW p \in Parts(f, kinds)
    PROVE  p \in Filters /\ Nesting[p] < Nesting[f]
<1>1. PICK e \in ToSet(f) : e.on \in kinds /\ p \in ToSet(e.parts)
    BY DEF Parts
<1> QED
    BY <1>1, PartsBelow

LEMMA WithinDef ==
    \A f \in Filters : Within[f] = {f} \cup UNION {Within[p] : p \in Parts(f, {"$and", "$or"})}
<1> DEFINE Own == [f \in Filters |-> {f}]
           Sub == [f \in Filters |-> Parts(f, {"$and", "$or"})]
           R(g) == g = [f \in Filters |-> {f} \cup UNION {g[p] : p \in Parts(f, {"$and", "$or"})}]
<1>1. \A f \in Filters : \A p \in Sub[f] : p \in Filters /\ Nesting[p] < Nesting[f]
    BY PartsAreBelow
<1> HIDE DEF Own, Sub
<1>2. PICK g : Gathers(g, Own, Sub)
    BY <1>1, Gather
<1>3. \A f \in Filters : Own[f] = {f} /\ Sub[f] = Parts(f, {"$and", "$or"})
    BY DEF Own, Sub
<1>4. R(g)
    BY <1>2, <1>3 DEF Gathers
<1>5. Within = CHOOSE h : R(h)
    BY DEF Within
<1>6. R(Within)
    <2> HIDE DEF R
    <2> QED
        BY <1>4, <1>5
<1> QED
    BY <1>6

LEMMA KeysDef ==
    \A f \in Filters :
        Keys[f] = (UNION {OwnKeys(e) : e \in ToSet(f)}) \cup UNION {Keys[p] : p \in Parts(f, {"$and"})}
<1> DEFINE Own == [f \in Filters |-> UNION {OwnKeys(e) : e \in ToSet(f)}]
           Sub == [f \in Filters |-> Parts(f, {"$and"})]
           R(g) == g = [f \in Filters |->
                          (UNION {OwnKeys(e) : e \in ToSet(f)}) \cup UNION {g[p] : p \in Parts(f, {"$and"})}]
<1>1. \A f \in Filters : \A p \in Sub[f] : p \in Filters /\ Nesting[p] < Nesting[f]
    BY PartsAreBelow
<1>2. \A f \in Filters : Own[f] = UNION {OwnKeys(e) : e \in ToSet(f)} /\ Sub[f] = Parts(f, {"$and"})
    OBVIOUS
<1> HIDE DEF Own, Sub
<1>3. PICK g : Gathers(g, Own, Sub)
    BY <1>1, Gather
<1>4. R(g)
    BY <1>2, <1>3 DEF Gathers
<1>5. Keys = CHOOSE h : R(h)
    BY DEF Keys
<1>6. R(Keys)
    <2> HIDE DEF R
    <2> QED
        BY <1>4, <1>5
<1> QED
    BY <1>6

LEMMA MeansDef ==
    \A f \in Filters : Means[f] = Told(f, Means)
<1> DEFINE Low(n) == {f \in Filters : Nesting[f] < n}
           Solves(g, n) == g = [f \in Low(n) |-> Told(f, g)]
           Good == {n \in Nat : \E g : Solves(g, n)}
<1>0. Deepest \in Nat /\ \A f \in Filters : Nesting[f] \in 0..Deepest
    BY FiltersAssumption
<1>1. 0 \in Good
    <2>1. Low(0) = {}
        BY <1>0
    <2>2. Solves([f \in {} |-> f], 0)
        <3> HIDE DEF Low
        <3> QED
            BY <2>1
    <2> HIDE DEF Solves
    <2> QED
        BY <2>2
<1>2. ASSUME NEW n \in Good PROVE n + 1 \in Good
    <2>0. n \in Nat /\ n + 1 \in Nat
        OBVIOUS
    <2>1. PICK g : Solves(g, n)
        BY <1>2
    <2> DEFINE h == [f \in Low(n + 1) |-> Told(f, g)]
    <2>2. \A f \in Low(n) : f \in Low(n + 1) /\ h[f] = g[f]
        <3>1. \A f \in Low(n) : f \in Low(n + 1)
            BY <1>0, <2>0
        <3>2. \A f \in Low(n) : g[f] = Told(f, g)
            <4> HIDE DEF Low
            <4> QED
                BY <2>1
        <3> HIDE DEF Low
        <3> QED
            BY <3>1, <3>2
    <2>3. ASSUME NEW f \in Low(n + 1) PROVE Told(f, h) = Told(f, g)
        <3>1. f \in Filters
            OBVIOUS
        <3>2. ASSUME NEW e \in ToSet(f), e.on \in {"$and", "$or"}, NEW part \in ToSet(e.parts)
              PROVE  h[part] = g[part]
            <4>1. part \in Filters /\ Nesting[part] < Nesting[f]
                BY <3>1, <3>2, PartsBelow
            <4>2. part \in Low(n)
                BY <1>0, <2>0, <4>1
            <4> HIDE DEF h, Low
            <4> QED
                BY <2>2, <4>2
        <3> HIDE DEF h, Low
        <3> QED
            BY <3>2 DEF Told
    <2>4. Solves(h, n + 1)
        <3>1. h = [f \in Low(n + 1) |-> Told(f, g)]
            OBVIOUS
        <3> HIDE DEF h, Low
        <3> QED
            BY <2>3, <3>1
    <2>5. \E f : Solves(f, n + 1)
        <3> HIDE DEF Solves
        <3> QED
            BY <2>4
    <2> HIDE DEF Solves
    <2> QED
        BY <2>0, <2>5
<1>3. Deepest + 1 \in Good
    <2> HIDE DEF Good
    <2>1. \A n \in Good : n \in Nat => n + 1 \in Good
        BY <1>2
    <2> QED
        BY <1>0, <1>1, <2>1, Induction
<1>4. PICK g : Solves(g, Deepest + 1)
    BY <1>3
<1>5. Low(Deepest + 1) = Filters
    BY <1>0
<1> DEFINE R(f) == f = [filter \in Filters |-> Told(filter, f)]
<1>6. R(g)
    <2> HIDE DEF Low
    <2> QED
        BY <1>4, <1>5
<1>7. Means = CHOOSE f : R(f)
    BY DEF Means
<1>8. R(Means)
    <2> HIDE DEF R
    <2> QED
        BY <1>6, <1>7
<1> QED
    BY <1>8

----------------------------------------------------------------------------
\* Merging.

LEMMA LastIn ==
    ASSUME NEW n \in Nat, NEW places \in SUBSET (1..n), places # {}
    PROVE  LastOf(places) \in places
<1> DEFINE S == {m \in Nat : \A T \in SUBSET (1..m) : T # {} => \E i \in T : \A j \in T : j <= i}
<1>1. 0 \in S
    <2>1. 1..0 = {}
        OBVIOUS
    <2> QED
        BY <2>1
<1>2. ASSUME NEW m \in S, m \in Nat PROVE m + 1 \in S
    <2> SUFFICES ASSUME NEW T \in SUBSET (1..(m + 1)), T # {}
                 PROVE  \E i \in T : \A j \in T : j <= i
        OBVIOUS
    <2>1. CASE m + 1 \in T
        BY <2>1
    <2>2. CASE m + 1 \notin T
        <3>1. T \in SUBSET (1..m)
            BY <2>2
        <3> QED
            BY <3>1
    <2> QED
        BY <2>1, <2>2
<1>3. n \in S
    <2> HIDE DEF S
    <2> QED
        BY <1>1, <1>2, Induction
<1>4. \E i \in places : \A j \in places : j <= i
    BY <1>3
<1> QED
    BY <1>4 DEF LastOf

\* A condition of the whole is one of a part, and so is its $or.
LEMMA MergedFrom ==
    ASSUME NEW wheres, NEW n \in Nat, DOMAIN wheres = 1..n
    PROVE  /\ \A key \in DOMAIN Merged(wheres).conds : \E i \in 1..n :
                 key \in DOMAIN wheres[i].conds /\ Merged(wheres).conds[key] = wheres[i].conds[key]
           /\ \A i \in 1..n : DOMAIN wheres[i].conds \subseteq DOMAIN Merged(wheres).conds
           /\ Merged(wheres).or # {} => \E i \in 1..n : Merged(wheres).or = wheres[i].or
           /\ Merged(wheres).or = {} => \A i \in 1..n : wheres[i].or = {}
<1> DEFINE having(key) == {i \in DOMAIN wheres : key \in DOMAIN wheres[i].conds}
           ors == {i \in DOMAIN wheres : wheres[i].or # {}}
           all == UNION {DOMAIN wheres[i].conds : i \in DOMAIN wheres}
           M == Merged(wheres)
<1>1. /\ DOMAIN M.conds = all
      /\ \A key \in all : M.conds[key] = wheres[LastOf(having(key))].conds[key]
      /\ M.or = IF ors = {} THEN {} ELSE wheres[LastOf(ors)].or
    BY DEF Merged, Where
<1>2. \A key \in all : LastOf(having(key)) \in having(key)
    <2> TAKE key \in all
    <2>1. having(key) \in SUBSET (1..n) /\ having(key) # {}
        OBVIOUS
    <2> HIDE DEF having
    <2> QED
        BY <2>1, LastIn
<1>3. ors # {} => LastOf(ors) \in ors
    <2>1. ors \in SUBSET (1..n)
        OBVIOUS
    <2> HIDE DEF ors
    <2> QED
        BY <2>1, LastIn
<1> HIDE DEF M
<1>4. \A key \in DOMAIN M.conds : \E i \in 1..n :
         key \in DOMAIN wheres[i].conds /\ M.conds[key] = wheres[i].conds[key]
    BY <1>1, <1>2
<1>5. \A i \in 1..n : DOMAIN wheres[i].conds \subseteq DOMAIN M.conds
    BY <1>1
<1>6. M.or # {} => \E i \in 1..n : M.or = wheres[i].or
    BY <1>1, <1>3
<1>7. M.or = {} => \A i \in 1..n : wheres[i].or = {}
    BY <1>1, <1>3
<1> QED
    BY <1>4, <1>5, <1>6, <1>7 DEF M

\* What all parts select, the whole selects.
LEMMA MergedSelects ==
    ASSUME NEW wheres, NEW n \in Nat, DOMAIN wheres = 1..n, NEW row,
           \A i \in 1..n : WhereSelects(wheres[i], row)
    PROVE  WhereSelects(Merged(wheres), row)
<1>1. CondsHold(Merged(wheres), row)
    BY MergedFrom DEF WhereSelects, CondsHold
<1>2. \A branches \in Merged(wheres).or : \E branch \in ToSet(branches) : BranchHolds(branch, row)
    <2> TAKE branches \in Merged(wheres).or
    <2>1. PICK i \in 1..n : Merged(wheres).or = wheres[i].or
        BY MergedFrom
    <2> QED
        BY <2>1 DEF WhereSelects
<1> QED
    BY <1>1, <1>2 DEF WhereSelects

\* Parts that share no key, and no $or, are all in the whole.
LEMMA MergedWhole ==
    ASSUME NEW wheres, NEW n \in Nat, DOMAIN wheres = 1..n, NEW row, NEW K,
           \A i \in 1..n : /\ DOMAIN wheres[i].conds \subseteq K[i]
                           /\ wheres[i].or # {} => <<"$or">> \in K[i],
           \A i, j \in 1..n : i # j => K[i] \cap K[j] = {},
           WhereSelects(Merged(wheres), row), Applies(Merged(wheres)),
           NEW i \in 1..n
    PROVE  WhereSelects(wheres[i], row) /\ Applies(wheres[i])
<1> DEFINE M == Merged(wheres)
<1>1. \A key \in DOMAIN wheres[i].conds : key \in DOMAIN M.conds /\ M.conds[key] = wheres[i].conds[key]
    <2> TAKE key \in DOMAIN wheres[i].conds
    <2>1. key \in DOMAIN M.conds
        BY MergedFrom
    <2>2. PICK j \in 1..n : key \in DOMAIN wheres[j].conds /\ M.conds[key] = wheres[j].conds[key]
        BY <2>1, MergedFrom
    <2>3. j = i
        BY <2>2
    <2> QED
        BY <2>1, <2>2, <2>3
<1>2. wheres[i].or # {} => M.or = wheres[i].or
    <2> SUFFICES ASSUME wheres[i].or # {} PROVE M.or = wheres[i].or
        OBVIOUS
    <2>1. M.or # {}
        BY MergedFrom
    <2>2. PICK j \in 1..n : M.or = wheres[j].or
        BY <2>1, MergedFrom
    <2>3. j = i
        BY <2>1, <2>2
    <2> QED
        BY <2>2, <2>3
<1>3. CondsHold(M, row)
    BY DEF WhereSelects
<1>4. CondsHold(wheres[i], row)
    <2> HIDE DEF M
    <2> QED
        BY <1>1, <1>3 DEF CondsHold
<1>5. \A branches \in wheres[i].or : \E branch \in ToSet(branches) : BranchHolds(branch, row)
    BY <1>2 DEF WhereSelects
<1>6. Applies(wheres[i])
    BY <1>2 DEF Applies
<1> QED
    BY <1>4, <1>5, <1>6 DEF WhereSelects

----------------------------------------------------------------------------
\* What a filter that parses is made of.

Nested == {"$and", "$or"}

LEMMA ParsesParts ==
    ASSUME NEW f \in Filters, Parses(f)
    PROVE  /\ \A e \in ToSet(f) :
                 e.on # "legacy" /\ (e.on = "ops" => \A t \in ToSet(e.tests) : t.op \in Operations)
           /\ \A p \in Parts(f, Nested) : Parses(p)
<1>1. Within[f] = {f} \cup UNION {Within[p] : p \in Parts(f, Nested)}
    BY WithinDef DEF Nested
<1> QED
    BY <1>1 DEF Parses

LEMMA DistinctParts ==
    ASSUME NEW f \in Filters, Distinct(f)
    PROVE  /\ \A i, j \in DOMAIN f : i # j => EntryKeys(f[i]) \cap EntryKeys(f[j]) = {}
           /\ \A e \in ToSet(f) : e.on = "$and" => \A i, j \in DOMAIN e.parts :
                 i # j => Keys[e.parts[i]] \cap Keys[e.parts[j]] = {}
           /\ \A p \in Parts(f, Nested) : Distinct(p)
<1>1. Within[f] = {f} \cup UNION {Within[p] : p \in Parts(f, Nested)}
    BY WithinDef DEF Nested
<1>2. f \in Within[f] /\ \A p \in Parts(f, Nested) : Within[p] \subseteq Within[f]
    BY <1>1
<1> QED
    BY <1>2 DEF Distinct

LEMMA NoNullParts ==
    ASSUME NEW f \in Filters, NoNullBranch(f)
    PROVE  /\ \A p \in Parts(f, {"$or"}) : \A k \in DOMAIN parseMongoStyleFilter[p].conds :
                 ~ IsNull(parseMongoStyleFilter[p].conds[k])
           /\ \A p \in Parts(f, Nested) : NoNullBranch(p)
<1>1. Within[f] = {f} \cup UNION {Within[p] : p \in Parts(f, Nested)}
    BY WithinDef DEF Nested
<1>2. f \in Within[f] /\ \A p \in Parts(f, Nested) : Within[p] \subseteq Within[f]
    BY <1>1
<1> QED
    BY <1>2 DEF NoNullBranch

LEMMA EntryKinds ==
    ASSUME NEW f \in Filters, NEW e \in ToSet(f)
    PROVE  \/ e.on \in {"field", "legacy"}
           \/ e.on = "ops" /\ \A s, t \in ToSet(e.tests) : s.op = t.op => s = t
           \/ /\ e.on \in Nested /\ DOMAIN e.parts = 1..Len(e.parts) /\ Len(e.parts) \in Nat
              /\ \A i \in DOMAIN e.parts :
                    /\ e.parts[i] \in ToSet(e.parts) /\ e.parts[i] \in Parts(f, {e.on})
                    /\ e.parts[i] \in Parts(f, Nested)
                    /\ e.parts[i] \in Filters /\ Nesting[e.parts[i]] < Nesting[f]
<1>1. CASE e.on \in Nested
    <2>1. e.parts \in Seq(Filters) /\ \A p \in ToSet(e.parts) : p \in Filters /\ Nesting[p] < Nesting[f]
        BY <1>1, PartsBelow DEF Nested
    <2>2. DOMAIN e.parts = 1..Len(e.parts) /\ Len(e.parts) \in Nat
        BY <2>1
    <2>3. \A i \in DOMAIN e.parts : e.parts[i] \in ToSet(e.parts)
        BY DEF ToSet
    <2>4. \A p \in ToSet(e.parts) : p \in Parts(f, {e.on}) /\ p \in Parts(f, Nested)
        BY <1>1 DEF Parts
    <2> QED
        BY <1>1, <2>1, <2>2, <2>3, <2>4
<1>2. CASE e.on \notin Nested
    BY <1>2, FiltersAssumption DEF Nested
<1> QED
    BY <1>1, <1>2

\* The condition of an operator is its test.
LEMMA OpsTests ==
    ASSUME NEW f \in Filters, NEW e \in ToSet(f), e.on = "ops"
    PROVE  /\ DOMAIN OpsConditions(e) = {<<e.field, t.op>> : t \in ToSet(e.tests)}
           /\ \A t \in ToSet(e.tests) : OpsConditions(e)[<<e.field, t.op>>] = t
<1>1. DOMAIN OpsConditions(e) = {<<e.field, t.op>> : t \in ToSet(e.tests)}
    BY DEF OpsConditions
<1>2. ASSUME NEW t \in ToSet(e.tests) PROVE OpsConditions(e)[<<e.field, t.op>>] = t
    <2> DEFINE chosen == CHOOSE s \in ToSet(e.tests) : s.op = t.op
    <2>1. OpsConditions(e)[<<e.field, t.op>>] = chosen
        BY DEF OpsConditions
    <2>2. chosen \in ToSet(e.tests) /\ chosen.op = t.op
        OBVIOUS
    <2> HIDE DEF chosen
    <2>3. chosen = t
        BY <2>2, EntryKinds DEF Nested
    <2> QED
        BY <2>1, <2>3
<1> QED
    BY <1>1, <1>2

\* The conditions that are kept under the keys K, and a $or under its own.
Under(where, K) == DOMAIN where.conds \subseteq K /\ (where.or # {} => <<"$or">> \in K)

\* The calls for the parts of an entry, in their order.
Calls(e) == [i \in DOMAIN e.parts |-> parseMongoStyleFilter[e.parts[i]]]

LEMMA EntryCases ==
    ASSUME NEW e
    PROVE  LET w == Entry(e, parseMongoStyleFilter) IN
           /\ e.on = "field" =>
                 /\ w.or = {} /\ DOMAIN w.conds = {<<e.field>>}
                 /\ w.conds[<<e.field>>] = Test(e.field, "$eq", <<e.value>>)
           /\ e.on = "ops" => w.or = {} /\ w.conds = OpsConditions(e)
           /\ e.on = "$and" => w = Merged(Calls(e))
           /\ e.on = "$or" => w.or = {Calls(e)} /\ DOMAIN w.conds = {}
           /\ e.on = "legacy" => w.or = {} /\ DOMAIN w.conds = {}
BY DEF Entry, Where, NoConds, Calls

LEMMA EntryUnder ==
    ASSUME NEW f \in Filters, NEW e \in ToSet(f),
           \A p \in Parts(f, Nested) : Under(parseMongoStyleFilter[p], Keys[p])
    PROVE  Under(Entry(e, parseMongoStyleFilter), EntryKeys(e))
<1> DEFINE w == Entry(e, parseMongoStyleFilter)
<1>1. CASE e.on = "$and"
    <2> DEFINE n == Len(e.parts)
               K == UNION {Keys[part] : part \in ToSet(e.parts)}
    <2>1. /\ n \in Nat /\ DOMAIN e.parts = 1..n
          /\ \A i \in 1..n : e.parts[i] \in ToSet(e.parts) /\ e.parts[i] \in Parts(f, Nested)
        BY <1>1, EntryKinds
    <2>2. EntryKeys(e) = K
        BY <1>1 DEF EntryKeys
    <2>3. \A i \in 1..n : Under(Calls(e)[i], Keys[e.parts[i]])
        BY <2>1 DEF Calls
    <2>4. \A i \in 1..n : Keys[e.parts[i]] \subseteq K
        BY <2>1
    <2>5. DOMAIN Calls(e) = 1..n
        BY <2>1 DEF Calls
    <2>6. w = Merged(Calls(e))
        BY <1>1, EntryCases
    <2> HIDE DEF K, n, w
    <2>7. DOMAIN w.conds \subseteq K
        <3> SUFFICES ASSUME NEW key \in DOMAIN w.conds PROVE key \in K
            OBVIOUS
        <3>1. PICK i \in 1..n : key \in DOMAIN Calls(e)[i].conds
            BY <2>1, <2>5, <2>6, MergedFrom
        <3> QED
            BY <2>3, <2>4, <3>1 DEF Under
    <2>8. w.or # {} => <<"$or">> \in K
        <3> SUFFICES ASSUME w.or # {} PROVE <<"$or">> \in K
            OBVIOUS
        <3>1. PICK i \in 1..n : w.or = Calls(e)[i].or
            BY <2>1, <2>5, <2>6, MergedFrom
        <3> QED
            BY <2>3, <2>4, <3>1 DEF Under
    <2> QED
        BY <2>2, <2>7, <2>8 DEF Under, w
<1>2. CASE e.on # "$and"
    <2>1. EntryKeys(e) = OwnKeys(e)
        BY <1>2 DEF EntryKeys
    <2>2. CASE e.on = "field"
        BY <2>1, <2>2, EntryCases DEF Under, OwnKeys
    <2>3. CASE e.on = "ops"
        <3>1. w.or = {} /\ w.conds = OpsConditions(e)
            BY <2>3, EntryCases
        <3>2. DOMAIN OpsConditions(e) = OwnKeys(e)
            BY <2>3, OpsTests DEF OwnKeys
        <3> QED
            BY <2>1, <3>1, <3>2 DEF Under
    <2>4. CASE e.on = "$or"
        BY <2>1, <2>4, EntryCases DEF Under, OwnKeys
    <2>5. CASE e.on = "legacy"
        BY <2>1, <2>5, EntryCases DEF Under
    <2> QED
        BY <1>2, <2>2, <2>3, <2>4, <2>5, EntryKinds DEF Nested
<1> QED
    BY <1>1, <1>2

\* The entries, in their order, and what a filter comes to.
Made(f) == [i \in DOMAIN f |-> Entry(f[i], parseMongoStyleFilter)]

LEMMA MadeOf ==
    ASSUME NEW f \in Filters
    PROVE  /\ parseMongoStyleFilter[f] = Merged(Made(f))
           /\ Len(f) \in Nat /\ DOMAIN Made(f) = 1..Len(f) /\ DOMAIN f = 1..Len(f)
           /\ \A i \in 1..Len(f) : f[i] \in ToSet(f) /\ Made(f)[i] = Entry(f[i], parseMongoStyleFilter)
<1>1. parseMongoStyleFilter[f] = Merged(Made(f))
    BY ParseDef DEF Entries, Made
<1>2. Len(f) \in Nat /\ DOMAIN f = 1..Len(f) /\ \A i \in 1..Len(f) : f[i] \in ToSet(f)
    BY FilterSeq
<1> QED
    BY <1>1, <1>2 DEF Made

\* Keys are those of the conditions.
LEMMA KeysKept ==
    \A f \in Filters : Under(parseMongoStyleFilter[f], Keys[f])
<1> DEFINE S == {f \in Filters : Under(parseMongoStyleFilter[f], Keys[f])}
<1>1. ASSUME NEW f \in Filters, \A g \in Filters : Nesting[g] < Nesting[f] => g \in S
      PROVE  Under(parseMongoStyleFilter[f], Keys[f])
    <2>1. \A p \in Parts(f, Nested) : Under(parseMongoStyleFilter[p], Keys[p])
        BY <1>1, PartsAreBelow DEF Nested
    <2>2. \A e \in ToSet(f) : EntryKeys(e) \subseteq Keys[f]
        <3> TAKE e \in ToSet(f)
        <3>1. Keys[f] = (UNION {OwnKeys(d) : d \in ToSet(f)}) \cup UNION {Keys[p] : p \in Parts(f, {"$and"})}
            BY KeysDef
        <3>2. CASE e.on = "$and"
            <4>1. ToSet(e.parts) \subseteq Parts(f, {"$and"})
                BY <3>2 DEF Parts
            <4> QED
                BY <3>1, <3>2, <4>1 DEF EntryKeys
        <3>3. CASE e.on # "$and"
            BY <3>1, <3>3 DEF EntryKeys
        <3> QED
            BY <3>2, <3>3
    <2>3. \A i \in 1..Len(f) : Under(Made(f)[i], Keys[f])
        <3> TAKE i \in 1..Len(f)
        <3>1. Under(Entry(f[i], parseMongoStyleFilter), EntryKeys(f[i]))
            BY <2>1, MadeOf, EntryUnder
        <3> QED
            BY <2>2, <3>1, MadeOf DEF Under
    <2> DEFINE w == Merged(Made(f))
    <2>4. DOMAIN w.conds \subseteq Keys[f]
        BY <2>3, MadeOf, MergedFrom DEF Under
    <2>5. w.or # {} => <<"$or">> \in Keys[f]
        BY <2>3, MadeOf, MergedFrom DEF Under
    <2> QED
        BY <2>4, <2>5, MadeOf DEF Under
<1>2. Filters \subseteq S
    <2>1. \A f \in Filters : (\A g \in Filters : Nesting[g] < Nesting[f] => g \in S) => f \in S
        BY <1>1
    <2> HIDE DEF S
    <2> QED
        BY <2>1, LevelByLevel
<1> QED
    BY <1>2

----------------------------------------------------------------------------
\* A filter that parses selects the rows it means.
LEMMA Hides ==
    ASSUME NEW row
    PROVE  \A f \in Filters :
              Parses(f) /\ row \in Means[f] => WhereSelects(parseMongoStyleFilter[f], row)
<1> DEFINE Claim(f) == Parses(f) /\ row \in Means[f] => WhereSelects(parseMongoStyleFilter[f], row)
           S == {f \in Filters : Claim(f)}
<1>1. ASSUME NEW f \in Filters, \A g \in Filters : Nesting[g] < Nesting[f] => g \in S,
             Parses(f), row \in Means[f]
      PROVE  WhereSelects(parseMongoStyleFilter[f], row)
    <2>1. \A p \in Parts(f, Nested) :
              p \in Filters /\ (row \in Means[p] => WhereSelects(parseMongoStyleFilter[p], row))
        BY <1>1, ParsesParts, PartsAreBelow DEF Nested
    <2>2. row \in Told(f, Means)
        BY <1>1, MeansDef
    <2>3. ASSUME NEW e \in ToSet(f) PROVE WhereSelects(Entry(e, parseMongoStyleFilter), row)
        <3>1. CASE e.on = "field"
            BY <2>2, <3>1, EntryCases DEF Told, WhereSelects, CondsHold
        <3>2. CASE e.on = "ops"
            <4>1. \A t \in ToSet(e.tests) : Holds(t, row)
                BY <2>2, <3>2 DEF Told
            <4>2. \A k \in DOMAIN OpsConditions(e) : Holds(OpsConditions(e)[k], row)
                <5> TAKE k \in DOMAIN OpsConditions(e)
                <5>0. DOMAIN OpsConditions(e) = {<<e.field, t.op>> : t \in ToSet(e.tests)}
                    BY <3>2, OpsTests
                <5>1. PICK t \in ToSet(e.tests) : k = <<e.field, t.op>>
                    BY <5>0
                <5>2. OpsConditions(e)[k] = t
                    BY <3>2, <5>1, OpsTests
                <5> QED
                    BY <4>1, <5>1, <5>2
            <4> QED
                BY <3>2, <4>2, EntryCases DEF WhereSelects, CondsHold
        <3>3. CASE e.on = "$and"
            <4>1. /\ Len(e.parts) \in Nat /\ DOMAIN e.parts = 1..Len(e.parts)
                  /\ \A i \in 1..Len(e.parts) : e.parts[i] \in ToSet(e.parts) /\ e.parts[i] \in Parts(f, Nested)
                BY <3>3, EntryKinds
            <4>2. \A part \in ToSet(e.parts) : row \in Means[part]
                BY <2>2, <3>3 DEF Told
            <4>3. DOMAIN Calls(e) = 1..Len(e.parts)
                BY <4>1 DEF Calls
            <4>4. \A i \in 1..Len(e.parts) : WhereSelects(Calls(e)[i], row)
                BY <2>1, <4>1, <4>2 DEF Calls
            <4> QED
                BY <3>3, <4>1, <4>3, <4>4, MergedSelects, EntryCases
        <3>4. CASE e.on = "$or"
            <4>1. PICK part \in ToSet(e.parts) : row \in Means[part]
                BY <2>2, <3>4 DEF Told
            <4>2. PICK i \in DOMAIN e.parts : part = e.parts[i]
                BY DEF ToSet
            <4>3. WhereSelects(parseMongoStyleFilter[part], row)
                BY <2>1, <3>4, <4>1, <4>2, EntryKinds
            <4>4. Calls(e)[i] \in ToSet(Calls(e)) /\ Calls(e)[i] = parseMongoStyleFilter[part]
                BY <4>2 DEF Calls, ToSet
            <4> QED
                BY <3>4, <4>3, <4>4, EntryCases DEF WhereSelects, CondsHold, BranchHolds
        <3> QED
            BY <1>1, <3>1, <3>2, <3>3, <3>4, ParsesParts, EntryKinds DEF Nested
    <2>4. \A i \in 1..Len(f) : WhereSelects(Made(f)[i], row)
        BY <2>3, MadeOf
    <2> QED
        BY <2>4, MadeOf, MergedSelects
<1>2. Filters \subseteq S
    <2>1. \A f \in Filters : (\A g \in Filters : Nesting[g] < Nesting[f] => g \in S) => f \in S
        BY <1>1
    <2> HIDE DEF S
    <2> QED
        BY <2>1, LevelByLevel
<1> QED
    BY <1>2

\* A filter whose conditions have keys of their own, without a null in an $or,
\* and whose query runs, selects only the rows it means.
LEMMA SelectsOnly ==
    ASSUME NEW row \in Row
    PROVE  \A f \in Filters :
              (/\ Parses(f) /\ Distinct(f) /\ NoNullBranch(f)
               /\ Applies(parseMongoStyleFilter[f])
               /\ WhereSelects(parseMongoStyleFilter[f], row)) => row \in Means[f]
<1> DEFINE Chosen(f) == Applies(parseMongoStyleFilter[f]) /\ WhereSelects(parseMongoStyleFilter[f], row)
           Claim(f) == Parses(f) /\ Distinct(f) /\ NoNullBranch(f) /\ Chosen(f) => row \in Means[f]
           S == {f \in Filters : Claim(f)}
<1>1. ASSUME NEW f \in Filters, \A g \in Filters : Nesting[g] < Nesting[f] => g \in S,
             Parses(f), Distinct(f), NoNullBranch(f), Chosen(f)
      PROVE  row \in Means[f]
    <2>1. \A p \in Parts(f, Nested) : p \in Filters /\ (Chosen(p) => row \in Means[p])
        BY <1>1, ParsesParts, DistinctParts, NoNullParts, PartsAreBelow DEF Nested
    <2>2. ASSUME NEW i \in 1..Len(f)
          PROVE  WhereSelects(Made(f)[i], row) /\ Applies(Made(f)[i])
        <3> DEFINE K == [j \in 1..Len(f) |-> EntryKeys(f[j])]
        <3>1. \A j \in 1..Len(f) : Under(Made(f)[j], K[j])
            BY MadeOf, EntryUnder, KeysKept, PartsAreBelow DEF Nested
        <3>2. \A j, k \in 1..Len(f) : j # k => K[j] \cap K[k] = {}
            BY <1>1, MadeOf, DistinctParts
        <3> HIDE DEF K
        <3>3. Applies(Merged(Made(f))) /\ WhereSelects(Merged(Made(f)), row)
            BY <1>1, MadeOf
        <3> QED
            BY <3>1, <3>2, <3>3, MadeOf, MergedWhole DEF Under
    <2> HIDE DEF Chosen
    <2>3. ASSUME NEW e \in ToSet(f) PROVE WhereSelects(Entry(e, parseMongoStyleFilter), row)
                                            /\ Applies(Entry(e, parseMongoStyleFilter))
        <3>1. PICK i \in DOMAIN f : f[i] = e
            BY DEF ToSet
        <3> QED
            BY <2>2, <3>1, MadeOf
    <2>4. ASSUME NEW e \in ToSet(f), e.on = "field"
          PROVE  Holds(Test(e.field, "$eq", <<e.value>>), row)
        BY <2>3, <2>4, EntryCases DEF WhereSelects, CondsHold
    <2>5. ASSUME NEW e \in ToSet(f), e.on = "ops", NEW t \in ToSet(e.tests)
          PROVE  Holds(t, row)
        <3>1. <<e.field, t.op>> \in DOMAIN OpsConditions(e) /\ OpsConditions(e)[<<e.field, t.op>>] = t
            BY <2>5, OpsTests
        <3>2. \A k \in DOMAIN OpsConditions(e) : Holds(OpsConditions(e)[k], row)
            BY <2>3, <2>5, EntryCases DEF WhereSelects, CondsHold
        <3> QED
            BY <3>1, <3>2
    <2>6. ASSUME NEW e \in ToSet(f), e.on = "$and", NEW part \in ToSet(e.parts)
          PROVE  row \in Means[part]
        <3> DEFINE n == Len(e.parts)
                   K == [j \in 1..n |-> Keys[e.parts[j]]]
        <3>1. /\ n \in Nat /\ DOMAIN e.parts = 1..n /\ DOMAIN Calls(e) = 1..n
              /\ \A j \in 1..n : /\ e.parts[j] \in Parts(f, Nested) /\ e.parts[j] \in Filters
                                 /\ Calls(e)[j] = parseMongoStyleFilter[e.parts[j]]
            BY <2>6, EntryKinds DEF Calls
        <3>2. PICK i \in 1..n : part = e.parts[i]
            BY <3>1 DEF ToSet
        <3>3. \A j \in 1..n : Under(Calls(e)[j], K[j])
            BY <3>1, KeysKept
        <3>4. \A j, k \in 1..n : j # k => K[j] \cap K[k] = {}
            BY <1>1, <2>6, <3>1, DistinctParts
        <3>5. Applies(Merged(Calls(e))) /\ WhereSelects(Merged(Calls(e)), row)
            BY <2>3, <2>6, EntryCases
        <3> HIDE DEF K, n
        <3>6. WhereSelects(Calls(e)[i], row) /\ Applies(Calls(e)[i])
            BY <3>1, <3>2, <3>3, <3>4, <3>5, MergedWhole, SMTT(30) DEF Under
        <3>7. parseMongoStyleFilter[part] = Calls(e)[i]
            BY <3>1, <3>2
        <3>8. Chosen(part)
            BY <3>6, <3>7 DEF Chosen
        <3>9. part \in Parts(f, Nested)
            BY <3>1, <3>2
        <3> QED
            BY <2>1, <3>8, <3>9
    <2>7. ASSUME NEW e \in ToSet(f), e.on = "$or"
          PROVE  \E part \in ToSet(e.parts) : row \in Means[part]
        <3> DEFINE w == Entry(e, parseMongoStyleFilter)
        <3>1. w.or = {Calls(e)} /\ Applies(w) /\ WhereSelects(w, row)
            BY <2>3, <2>7, EntryCases
        <3>0. \A b \in ToSet(Calls(e)) : \A k \in DOMAIN b.conds : ~ IsNull(b.conds[k])
            <4> TAKE b \in ToSet(Calls(e))
            <4>1. PICK i \in DOMAIN e.parts : b = parseMongoStyleFilter[e.parts[i]]
                BY DEF ToSet, Calls
            <4>2. e.parts[i] \in Parts(f, {"$or"})
                BY <2>7, EntryKinds DEF Nested
            <4> QED
                BY <1>1, <4>1, <4>2, NoNullParts
        <3> HIDE DEF w
        <3>2. PICK branch \in ToSet(Calls(e)) : CondsHold(branch, row)
            BY <3>0, <3>1 DEF WhereSelects, BranchHolds, CondsHold
        <3>3. branch.or = {}
            BY <3>1 DEF Applies
        <3>4. PICK i \in DOMAIN e.parts : branch = parseMongoStyleFilter[e.parts[i]]
            BY DEF ToSet, Calls
        <3>5. e.parts[i] \in ToSet(e.parts) /\ e.parts[i] \in Parts(f, Nested)
            BY <2>7, EntryKinds
        <3>6. Chosen(e.parts[i])
            BY <3>2, <3>3, <3>4 DEF Chosen, Applies, WhereSelects
        <3> QED
            BY <2>1, <3>5, <3>6
    <2>8. \A e \in ToSet(f) : e.on # "legacy"
        BY <1>1, ParsesParts
    <2>9. row \in Told(f, Means)
        BY <2>4, <2>5, <2>6, <2>7, <2>8, EntryKinds DEF Told, Nested
    <2> QED
        BY <2>9, MeansDef
<1>2. Filters \subseteq S
    <2>1. \A f \in Filters : (\A g \in Filters : Nesting[g] < Nesting[f] => g \in S) => f \in S
        BY <1>1
    <2> HIDE DEF S
    <2> QED
        BY <2>1, LevelByLevel
<1> QED
    BY <1>2

----------------------------------------------------------------------------
\* The older format.  A filter that does not parse because of an operator that
\* there is not, selects nothing in it either.
LEMMA LegacyExact ==
    ASSUME NEW f \in Filters, NEW row \in Row, ~ Mongo(f), LegacyApplies(f), ~ Mixed(f)
    PROVE  LegacySelects(f, row) <=> row \in Means[f]
<1>0. Means[f] = Told(f, Means)
    BY MeansDef
<1>1. CASE \A e \in ToSet(f) : e.on # "ops"
    <2>1. \A e \in ToSet(f) : e.on = "field" \/ e.on = "legacy"
        BY <1>1 DEF LegacyApplies
    <2> QED
        BY <1>0, <2>1 DEF Told, LegacySelects
<1>2. CASE \E e \in ToSet(f) : e.on = "ops"
    <2>1. \A e \in ToSet(f) : e.on = "field" \/ e.on = "ops"
        BY <1>2 DEF LegacyApplies, Mixed
    <2>2. \A i \in 1..Len(f) : Made(f)[i].or = {}
        <3> TAKE i \in 1..Len(f)
        <3>1. f[i] \in ToSet(f) /\ Made(f)[i] = Entry(f[i], parseMongoStyleFilter)
            BY MadeOf
        <3>2. Entry(f[i], parseMongoStyleFilter).or = {}
            BY <2>1, <3>1, EntryCases
        <3> QED
            BY <3>1, <3>2
    <2>3. Applies(parseMongoStyleFilter[f])
        <3>1. parseMongoStyleFilter[f].or = {}
            BY <2>2, MadeOf, MergedFrom
        <3> QED
            BY <3>1 DEF Applies
    <2>4. Parts(f, Nested) = {}
        BY <2>1 DEF Parts, Nested
    <2>5. Within[f] = {f}
        BY <2>4, WithinDef DEF Nested
    <2>6. PICK e \in ToSet(f) : e.on = "ops" /\ \E t \in ToSet(e.tests) : t.op \notin Operations
        BY <2>1, <2>3, <2>5 DEF Mongo, Parses
    <2>7. PICK t \in ToSet(e.tests) : ~ Holds(t, row)
        BY <2>6 DEF Holds, Operations
    <2>8. row \notin Told(f, Means)
        BY <2>6, <2>7 DEF Told
    <2>9. ~ LegacySelects(f, row)
        BY <2>6 DEF LegacySelects
    <2> QED
        BY <1>0, <2>8, <2>9
<1> QED
    BY <1>1, <1>2

----------------------------------------------------------------------------
\* What a list matches, in terms of its filter.
LEMMA Matched ==
    ASSUME TypeOK, query.of = "list", Accepted(query.filter), query.filter \in Filters,
           NEW row \in table
    PROVE  row \in Matching(table)
              <=> (query.search # None => row.a = query.search) /\ Selected(query.filter, row)
BY FiltersAreMongo DEF Matching, Matches, AcceptsFilter, SelectsRow, TypeOK

\* Parsing a filter and adding it to the query hides no row that matches it: of
\* conditions under one key some are lost, but none is added that the filter
\* does not have, whatever is under $and and $or.
THEOREM NothingHidden == Spec => []FilterHidesNothing
<1>1. IInv => FilterHidesNothing
    <2> SUFFICES ASSUME IInv, query.of = "list", Accepted(query.filter), ~ Mixed(query.filter),
                        NEW row \in Meant
                 PROVE  row \in Matching(table)
        BY DEF FilterHidesNothing
    <2>1. TypeOK /\ query.filter \in Filters
        BY DEF IInv, Stages, Query
    <2>2. row \in table /\ row \in Row /\ (query.search # None => row.a = query.search)
          /\ row \in Means[query.filter]
        BY <2>1 DEF Meant, TypeOK
    <2>3. Selected(query.filter, row)
        <3>1. CASE Mongo(query.filter)
            BY <2>1, <2>2, <3>1, Hides DEF Selected, Mongo
        <3>2. CASE ~ Mongo(query.filter)
            BY <2>1, <2>2, <3>2, LegacyExact DEF Selected, Accepted
        <3> QED
            BY <3>1, <3>2
    <2> QED
        BY <2>1, <2>2, <2>3, Matched
<1> QED
    BY <1>1, Invariance, PTL

\* Where no two conditions that must both hold are kept under one key, and no
\* branch of an $or compares with null, the list has exactly the rows that match
\* its filter, in either format.
THEOREM FiltersExact == Spec => []FilterExact
<1>1. IInv /\ FilterHidesNothing => FilterExact
    <2> SUFFICES ASSUME IInv, FilterHidesNothing, query.of = "list", Accepted(query.filter),
                        ~ Mixed(query.filter), Distinct(query.filter), NoNullBranch(query.filter)
                 PROVE  Meant = Matching(table)
        BY DEF FilterExact
    <2>1. TypeOK /\ query.filter \in Filters
        BY DEF IInv, Stages, Query
    <2>2. Meant \subseteq Matching(table)
        BY DEF FilterHidesNothing
    <2>3. ASSUME NEW row \in Matching(table) PROVE row \in Meant
        <3>1. row \in table /\ row \in Row
            BY <2>1 DEF Matching, TypeOK
        <3>2. (query.search # None => row.a = query.search) /\ Selected(query.filter, row)
            BY <2>1, <3>1, Matched
        <3>3. CASE Mongo(query.filter)
            <4>1. row \in Means[query.filter]
                BY <2>1, <3>1, <3>2, <3>3, SelectsOnly DEF Selected, Mongo
            <4> QED
                BY <3>1, <3>2, <4>1 DEF Meant
        <3>4. CASE ~ Mongo(query.filter)
            <4>1. row \in Means[query.filter]
                BY <2>1, <3>1, <3>2, <3>4, LegacyExact DEF Selected, Accepted
            <4> QED
                BY <3>1, <3>2, <4>1 DEF Meant
        <3> QED
            BY <3>3, <3>4
    <2> QED
        BY <2>2, <2>3
<1> QED
    BY <1>1, Invariance, NothingHidden, PTL
============================================================================
