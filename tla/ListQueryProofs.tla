-------------------------- MODULE ListQueryProofs --------------------------
(***************************************************************************)
(* Theorems about walking the pages of a list and about the parts of one   *)
(* response, for tables and walks of any size, every page size, every sort *)
(* and whatever a filter selects.                                          *)
(*                                                                         *)
(* The walk has reached a number of rows, and a row has a rank, the number *)
(* of matching rows with a greater key.  A row of a key of its own is at   *)
(* the place its rank says: if it was given its rank is below what is      *)
(* reached, and if not it is not, until a write moves the ranks.  A row    *)
(* that shares its key is somewhere between its rank and the last place of *)
(* the key.                                                                *)
(***************************************************************************)
EXTENDS ListQuery, FiniteSetTheorems, SequenceTheorems, TLAPS

Given   == got \o data
Reached == IF pc = "select" THEN Skip ELSE Skip + Limit

Above(row)   == {t \in Matching(table) : Key(t) > Key(row)}
AtLeast(row) == {t \in Matching(table) : Key(t) >= Key(row)}
Rank(row)    == Cardinality(Above(row))

\* A place that an order may give a row.
Fits(row, i) == Rank(row) < i /\ i <= Cardinality(AtLeast(row))

\* What the stages of a request have.
Stages ==
    /\ query \in Query
    /\ pc \in {"select", "count", "populate"} => query.of = "list"
    /\ pc \in {"total", "groups"} => query.of = "metrics"
    /\ pc \notin {"count", "populate"} => data = <<>>
    /\ pc \in {"populate", "groups"} => total \in Nat
    /\ stayed \subseteq Matching(table)
    /\ Ties(Matching(table)) \subseteq tied

\* Of the rows g that were given, with a number m reached: what was there all
\* along was given, or lies ahead, unless a deletion moved it back.
Ahead(g, m) ==
    ~ departed => \A row \in stayed \ tied : row \in ToSet(g) \/ m <= Rank(row)

Once(g) == \A i, j \in DOMAIN g : g[i] = g[j] => i = j \/ g[i] \in tied

\* What was given lies behind, once, unless an insert moved it on.
Behind(g, m) ==
    ~ arrived =>
        /\ Once(g)
        /\ \A row \in ToSet(g) \ tied : row \in Matching(table) => Rank(row) < m

\* Without either, what was given is the first m places, as far as there are.
Exact(g, m) ==
    (~ arrived /\ ~ departed) =>
        /\ Matching(table) = stayed
        /\ ToSet(g) \subseteq stayed
        /\ Len(g) = Lesser(m, Cardinality(stayed))
        /\ \A i \in 1..Len(g) : Fits(g[i], i)

Walk(g, m) == Ahead(g, m) /\ Behind(g, m) /\ Exact(g, m)

\* A row is missing, or a place.
Missing(g, m) == stayed \ (tied \cup ToSet(g)) # {} \/ Cardinality(stayed) > m

\* The last page leaves none out.
Finished ==
    (~ departed /\ query.limit # None /\ Missing(Given, Reached)) =>
        /\ pc = "populate" => total > Skip + Limit
        /\ pc = "end" => page = MaxPages

WalkInv == Sorting => Walk(Given, Reached) /\ Finished

\* What was counted is what there is.
PartsInv ==
    ~ between =>
        /\ pc = "count" => data = <<>> \/ Skip + Len(data) <= Cardinality(Matching(table))
        /\ pc = "populate" => data = <<>> \/ Skip + Len(data) <= total
        /\ pc = "groups" => total = Cardinality(table)

\* The inductive invariant.
IInv == TypeOK /\ Stages /\ WalkInv /\ PartsInv /\ PartsAgree
----------------------------------------------------------------------------
\* Rows and their ranks.

Numbered == \A r, t \in table : r.at = t.at => r = t

LEMMA RowsFinite ==
    ASSUME table \in SUBSET Row, Numbered
    PROVE  IsFiniteSet(table) /\ IsFiniteSet(Matching(table))
<1> DEFINE number == [row \in table |-> row.at]
<1>1. number \in Injection(table, Ats)
    BY DEF Numbered, Row, Injection, IsInjective
<1>2. IsFiniteSet(Ats)
    BY ConstantsAssumption, FS_Interval DEF Ats
<1>3. IsFiniteSet(table)
    BY <1>1, <1>2, FS_Injection
<1> QED
    BY <1>3, FS_Subset DEF Matching

LEMMA RankType ==
    ASSUME IsFiniteSet(Matching(table)), NEW row
    PROVE  Rank(row) \in Nat /\ IsFiniteSet(Above(row))
BY FS_Subset, FS_CardinalityType DEF Rank, Above

LEMMA KeyType ==
    ASSUME query \in Query, Sorting, NEW row \in Row
    PROVE  Key(row) \in Int
BY ConstantsAssumption DEF Query, Sorting, Key

\* A row of a key of its own comes right after those above it.
LEMMA UntiedRank ==
    ASSUME query \in Query, Sorting, table \in SUBSET Row, Numbered,
           NEW row \in Matching(table), row \notin Ties(Matching(table))
    PROVE  Cardinality(AtLeast(row)) = Rank(row) + 1
<1>1. \A t \in Matching(table) : Key(t) \in Int
    BY KeyType DEF Matching
<1>2. AtLeast(row) = Above(row) \cup {row} /\ row \notin Above(row)
    BY <1>1 DEF AtLeast, Above, Ties
<1>3. IsFiniteSet(Above(row))
    BY RowsFinite, RankType
<1> QED
    BY <1>2, <1>3, FS_AddElement DEF Rank

\* Two rows that fit one place have the same key.
LEMMA OnePlace ==
    ASSUME query \in Query, Sorting, table \in SUBSET Row, Numbered,
           NEW r \in Row, NEW t \in Row, NEW i \in Nat, Fits(r, i), Fits(t, i)
    PROVE  Key(r) = Key(t)
<1>1. \A u \in Row : Key(u) \in Int
    BY KeyType
<1>2. \A u \in Matching(table) : u \in Row
    BY DEF Matching
<1>3. ASSUME NEW a \in Row, NEW b \in Row, Fits(a, i), Fits(b, i), Key(a) > Key(b)
      PROVE  FALSE
    <2>1. AtLeast(a) \subseteq Above(b)
        BY <1>1, <1>2, <1>3 DEF AtLeast, Above
    <2>2. IsFiniteSet(Above(b)) /\ Rank(b) \in Nat
        BY RowsFinite, RankType
    <2>3. Cardinality(AtLeast(a)) \in Nat /\ Cardinality(AtLeast(a)) <= Rank(b)
        BY <2>1, <2>2, FS_Subset, FS_CardinalityType DEF Rank
    <2> QED
        BY <1>3, <2>2, <2>3 DEF Fits
<1> QED
    BY <1>1, <1>3

\* All that match have a rank below their number.
LEMMA RankBound ==
    ASSUME query \in Query, Sorting, table \in SUBSET Row, Numbered, NEW row \in Matching(table)
    PROVE  Rank(row) < Cardinality(Matching(table))
<1>1. IsFiniteSet(Matching(table)) /\ Cardinality(Matching(table)) \in Nat /\ Rank(row) \in Nat
    BY RowsFinite, RankType, FS_CardinalityType
<1>2. row \notin Above(row) /\ Above(row) \subseteq Matching(table)
    <2>1. row \in Row
        BY DEF Matching
    <2> QED
        BY <2>1, KeyType DEF Above
<1> QED
    BY <1>1, <1>2, FS_Subset DEF Rank

\* What an answer of the database without a limit has: each row that matches
\* once, and if the list is sorted, at a place that fits it.
LEMMA Answer ==
    ASSUME query \in Query, table \in SUBSET Row, Numbered, NEW order \in Orders(Matching(table))
    PROVE  /\ order \in Seq(Matching(table)) /\ order \in Seq(Row)
           /\ Len(order) = Cardinality(Matching(table))
           /\ IsInjective(order) /\ ToSet(order) = Matching(table)
           /\ Sorting => \A i \in 1..Len(order) : Fits(order[i], i)
           /\ Sorting => \A i \in 1..Len(order) :
                 order[i] \in Ties(Matching(table)) \/ Rank(order[i]) = i - 1
<1> DEFINE M == Matching(table)
           n == Cardinality(M)
<1>1. IsFiniteSet(M) /\ n \in Nat
    BY RowsFinite, FS_CardinalityType
<1>2. order \in [1..n -> M] /\ IsInjective(order)
    BY DEF Orders, SetToSeqs, IsInjective
<1>3. order \in Seq(M) /\ Len(order) = n /\ DOMAIN order = 1..n
    BY <1>1, <1>2
<1>4. order \in Seq(Row)
    BY <1>3, SeqMonotonic DEF Matching
<1>5. order \in Injection(1..n, M)
    BY <1>2 DEF Injection
<1>6. IsFiniteSet(1..n) /\ Cardinality(1..n) = n
    BY <1>1, FS_Interval
<1>7. order \in Surjection(1..n, M)
    BY <1>1, <1>5, <1>6, FS_Injection
<1>8. ToSet(order) = M
    BY <1>7, <1>3, <1>2 DEF Surjection, ToSet
<1>9. ASSUME Sorting, NEW i \in 1..n
      PROVE  Fits(order[i], i)
    <2> DEFINE row == order[i]
               before == {order[j] : j \in 1..(i-1)}
               upto == {order[j] : j \in 1..i}
    <2>1. Sorted(order)
        BY <1>9 DEF Orders
    <2>2. \A j \in 1..n : order[j] \in M /\ Key(order[j]) \in Int
        BY <1>2, <1>9, KeyType DEF Matching
    <2>3. \A j, k \in 1..n : j < k => Key(order[j]) >= Key(order[k])
        BY <2>1, <1>3 DEF Sorted
    <2>4. Above(row) \subseteq before
        <3> SUFFICES ASSUME NEW t \in Above(row) PROVE t \in before
            OBVIOUS
        <3>1. PICK j \in 1..n : order[j] = t
            BY <1>7 DEF Above, Surjection
        <3>2. Key(order[j]) > Key(order[i])
            BY <3>1 DEF Above
        <3>3. j \in 1..(i-1)
            BY <3>2, <2>2, <2>3, <1>1
        <3> QED
            BY <3>1, <3>3
    <2>5. upto \subseteq AtLeast(row)
        <3> SUFFICES ASSUME NEW j \in 1..i PROVE order[j] \in AtLeast(row)
            OBVIOUS
        <3>1. j \in 1..n
            BY <1>1
        <3>2. Key(order[j]) >= Key(order[i])
            BY <3>1, <2>2, <2>3
        <3> QED
            BY <3>1, <3>2, <2>2 DEF AtLeast
    <2>6. i \in 0..n /\ i - 1 \in 0..n
        BY <1>1
    <2>7. /\ IsFiniteSet(before) /\ Cardinality(before) = i - 1
          /\ IsFiniteSet(upto) /\ Cardinality(upto) = i
        <3>1. n \in Nat
            BY <1>1
        <3> HIDE DEF n, M, before, upto
        <3>2. \A k \in 0..n : \A first :
                 first = {order[j] : j \in 1..k} => IsFiniteSet(first) /\ Cardinality(first) = k
            <4> SUFFICES ASSUME NEW k \in 0..n, NEW first, first = {order[j] : j \in 1..k}
                         PROVE  IsFiniteSet(first) /\ Cardinality(first) = k
                OBVIOUS
            <4> DEFINE f == [j \in 1..k |-> order[j]]
            <4>1. f \in Bijection(1..k, first)
                BY <3>1, <1>2 DEF Bijection, Injection, Surjection, IsInjective
            <4>2. k \in Nat /\ (1 > k => k = 0)
                BY <3>1
            <4>3. IsFiniteSet(1..k) /\ Cardinality(1..k) = k
                BY <4>2, FS_Interval
            <4> QED
                BY <4>1, <4>3, FS_Bijection DEF ExistsBijection
        <3>3. IsFiniteSet(before) /\ Cardinality(before) = i - 1
            BY <2>6, <3>2 DEF before
        <3>4. IsFiniteSet(upto) /\ Cardinality(upto) = i
            BY <2>6, <3>2 DEF upto
        <3> QED
            BY <3>3, <3>4
    <2>8. IsFiniteSet(AtLeast(row))
        BY <1>1, FS_Subset DEF AtLeast
    <2> HIDE DEF before, upto, row
    <2>9. Rank(row) \in Nat /\ Rank(row) <= i - 1
        BY <2>4, <2>7, FS_Subset, FS_CardinalityType DEF Rank
    <2>10. Cardinality(AtLeast(row)) \in Nat /\ i <= Cardinality(AtLeast(row))
        BY <2>5, <2>7, <2>8, FS_Subset, FS_CardinalityType
    <2> QED
        BY <2>6, <2>9, <2>10, <1>1 DEF Fits, row
<1>10. ASSUME Sorting, NEW i \in 1..n, order[i] \notin Ties(M)
       PROVE  Rank(order[i]) = i - 1
    <2>1. order[i] \in M
        BY <1>2
    <2>2. Cardinality(AtLeast(order[i])) = Rank(order[i]) + 1
        BY <1>10, <2>1, UntiedRank
    <2>3. Fits(order[i], i)
        BY <1>10, <1>9
    <2>4. Rank(order[i]) \in Nat
        BY <1>1, RankType
    <2> QED
        BY <2>2, <2>3, <2>4, <1>1 DEF Fits
<1> QED
    BY <1>2, <1>3, <1>4, <1>8, <1>9, <1>10

----------------------------------------------------------------------------
\* Pages.

LEMMA LimitType ==
    ASSUME query \in Query, query.of = "list", page \in 1..MaxPages
    PROVE  /\ Limit \in Nat \ {0} /\ Skip \in Nat
           /\ query.limit # None => query.limit = Limit
<1>1. Limit \in Nat \ {0} /\ page - 1 \in Nat
    <2>1. query.limit \in Limits
        BY DEF Query
    <2>2. page - 1 \in Nat
        BY ConstantsAssumption
    <2> QED
        BY <2>1, <2>2, ConstantsAssumption DEF Limit
<1>2. \A m, n \in Nat : m * n \in Nat
    OBVIOUS
<1> QED
    BY <1>1, <1>2 DEF Skip, Limit

LEMMA PageRows ==
    ASSUME NEW S, NEW order \in Seq(S), Limit \in Nat \ {0}, Skip \in Nat
    PROVE  /\ Page(order) \in Seq(S) /\ Len(Page(order)) <= Limit
           /\ Page(order) = <<>> \/ Skip + Len(Page(order)) = Lesser(Skip + Limit, Len(order))
           /\ Page(order) = <<>> => Len(order) <= Skip
           /\ \A i \in 1..Len(Page(order)) :
                 Skip + i \in 1..Len(order) /\ Page(order)[i] = order[Skip + i]
<1> DEFINE m == Skip + 1
           n == Lesser(Skip + Limit, Len(order))
<1>1. Len(order) \in Nat /\ n \in Nat /\ n <= Len(order) /\ n <= Skip + Limit
      /\ (n = Len(order) \/ n = Skip + Limit)
    BY DEF Lesser
<1>2. \A i \in m .. n : order[i] \in S
    BY <1>1
<1> HIDE DEF n
<1>3. /\ SubSeq(order, m, n) \in Seq(S)
      /\ Len(SubSeq(order, m, n)) = IF m <= n THEN n - m + 1 ELSE 0
      /\ \A i \in 1 .. n - m + 1 : SubSeq(order, m, n)[i] = order[m + i - 1]
    <2>1. m \in Int /\ n \in Int
        BY <1>1
    <2> HIDE DEF m
    <2> QED
        BY <2>1, <1>2, SubSeqProperties
<1>4. Page(order) = SubSeq(order, m, n)
    BY DEF Page, n
<1>5. Page(order) \in Seq(S) /\ Len(Page(order)) = IF m <= n THEN n - m + 1 ELSE 0
    BY <1>3, <1>4
<1>6. Page(order) = <<>> <=> Len(Page(order)) = 0
    BY <1>5, EmptySeq
<1>7. ASSUME NEW i \in 1..Len(Page(order))
      PROVE  Skip + i \in 1..Len(order) /\ Page(order)[i] = order[Skip + i]
    <2>1. i \in 1 .. n - m + 1 /\ Skip + i \in 1..Len(order)
        BY <1>5, <1>1
    <2>2. m + i - 1 = Skip + i
        BY <2>1
    <2> QED
        BY <2>1, <2>2, <1>3, <1>4
<1> QED
    BY <1>1, <1>5, <1>6, <1>7 DEF n

\* Math.ceil: the pages after this one are those that have rows.
LEMMA MorePages ==
    ASSUME query \in Query, query.of = "list", page \in 1..MaxPages, query.limit # None,
           NEW n \in Nat, n > Skip + Limit
    PROVE  page < totalPages(n)
<1> DEFINE L == query.limit
<1>1. L \in Nat \ {0} /\ L = Limit /\ page \in Nat \ {0}
    BY LimitType, ConstantsAssumption
<1>2. Skip + Limit = page * L
    BY <1>1 DEF Skip
<1> HIDE DEF L
<1>3. PICK q \in Int : q = (n + L - 1) \div L
    BY <1>1
<1>4. n + L - 1 < L * (q + 1)
    BY <1>1, <1>3
<1>5. page < q
    <2> SUFFICES ASSUME q + 1 <= page + 1 PROVE FALSE
        BY <1>1, <1>3
    <2>1. L * (q + 1) <= L * (page + 1)
        BY <1>1, <1>3
    <2>2. L * (page + 1) = page * L + L
        BY <1>1
    <2> QED
        BY <2>1, <2>2, <1>1, <1>2, <1>3, <1>4
<1> QED
    BY <1>1, <1>2, <1>3, <1>5 DEF totalPages, L
----------------------------------------------------------------------------
\* What was given, and the response.

LEMMA SetOfConcat ==
    ASSUME NEW s \in Seq(Row), NEW t \in Seq(Row)
    PROVE  /\ s \o t \in Seq(Row) /\ ToSet(s \o t) = ToSet(s) \cup ToSet(t)
           /\ \A i \in DOMAIN (s \o t) :
                 \/ i \in DOMAIN s /\ (s \o t)[i] = s[i]
                 \/ i - Len(s) \in DOMAIN t /\ (s \o t)[i] = t[i - Len(s)]
<1> DEFINE u == s \o t
<1>1. u \in Seq(Row) /\ Len(u) = Len(s) + Len(t) /\ Len(s) \in Nat /\ Len(t) \in Nat
    BY ConcatProperties
<1>2. \A i \in 1 .. Len(s) + Len(t) : u[i] = IF i <= Len(s) THEN s[i] ELSE t[i - Len(s)]
    BY ConcatProperties
<1>3. DOMAIN u = 1 .. Len(s) + Len(t) /\ DOMAIN s = 1..Len(s) /\ DOMAIN t = 1..Len(t)
    BY <1>1
<1> HIDE DEF u
<1>4. \A i \in DOMAIN u :
         \/ i \in DOMAIN s /\ u[i] = s[i]
         \/ i - Len(s) \in DOMAIN t /\ u[i] = t[i - Len(s)]
    BY <1>1, <1>2, <1>3
<1>5. \A i \in DOMAIN s : i \in DOMAIN u /\ u[i] = s[i]
    BY <1>1, <1>2, <1>3
<1>6. \A i \in DOMAIN t : Len(s) + i \in DOMAIN u /\ u[Len(s) + i] = t[i]
    <2> SUFFICES ASSUME NEW i \in DOMAIN t PROVE Len(s) + i \in DOMAIN u /\ u[Len(s) + i] = t[i]
        OBVIOUS
    <2>1. Len(s) + i \in 1 .. Len(s) + Len(t) /\ ~ (Len(s) + i <= Len(s)) /\ (Len(s) + i) - Len(s) = i
        BY <1>1, <1>3
    <2> QED
        BY <2>1, <1>2, <1>3
<1>7. ToSet(u) = ToSet(s) \cup ToSet(t)
    BY <1>4, <1>5, <1>6 DEF ToSet
<1> QED
    BY <1>1, <1>4, <1>7 DEF u

LEMMA RespondStep ==
    ASSUME TypeOK, query \in Query, query.of = "list", query' = query,
           NEW rows \in Seq(Row), NEW n \in Nat, NEW actors, Respond(rows, n, actors)
    PROVE  /\ Given' = got \o rows /\ Reached' = Skip + Limit
           /\ got' \in Seq(Row) /\ data' = <<>> /\ total' = None
           /\ page' \in 1..MaxPages /\ pc' \in {"select", "end"}
           /\ (pc' = "end" /\ query.limit # None /\ n > Skip + Limit) => page' = MaxPages
<1>1. got \o rows \in Seq(Row) /\ got' = got \o rows /\ data' = <<>>
    BY ConcatProperties DEF TypeOK, Respond
<1>2. Given' = got \o rows
    BY <1>1, ConcatEmptySeq DEF Given
<1>3. MaxPages \in Nat /\ page \in Nat \ {0} /\ page <= MaxPages
    BY ConstantsAssumption DEF TypeOK
<1>4. Limit' = Limit /\ Limit \in Nat /\ Skip \in Nat
    BY LimitType DEF Limit, TypeOK
<1>5. Reached' = Skip + Limit
    <2>1. CASE page < totalPages(n) /\ page < MaxPages
        <3>1. page' = page + 1 /\ pc' = "select"
            BY <2>1 DEF Respond
        <3>2. Skip' = ((page + 1) - 1) * Limit
            BY <3>1, <1>4 DEF Skip
        <3>3. ((page + 1) - 1) * Limit = (page - 1) * Limit + Limit
            BY <1>3, <1>4
        <3> QED
            BY <3>1, <3>2, <3>3 DEF Reached, Skip
    <2>2. CASE ~ (page < totalPages(n) /\ page < MaxPages)
        <3>1. page' = page /\ pc' = "end"
            BY <2>2 DEF Respond
        <3>2. Skip' = Skip
            BY <3>1, <1>4 DEF Skip
        <3> QED
            BY <3>1, <3>2, <1>4 DEF Reached
    <2> QED
        BY <2>1, <2>2
<1>6. page' \in 1..MaxPages /\ pc' \in {"select", "end"}
    BY <1>3 DEF Respond
<1>7. ASSUME pc' = "end", query.limit # None, n > Skip + Limit PROVE page' = MaxPages
    <2>1. page < totalPages(n)
        BY <1>7, MorePages DEF TypeOK
    <2> QED
        BY <2>1, <1>7, <1>3 DEF Respond
<1> QED
    BY <1>1, <1>2, <1>5, <1>6, <1>7 DEF Respond

LEMMA ListedStep ==
    ASSUME TypeOK, query \in Query, query.of = "list", query' = query,
           NEW rows \in Seq(Row), NEW n \in Nat, Listed(rows, n)
    PROVE  /\ Given' = got \o rows /\ Reached' = Skip + Limit
           /\ got' \in Seq(Row) /\ page' \in 1..MaxPages
           /\ \/ /\ pc' = "populate" /\ data' = rows /\ total' = n /\ reply' = None
                 /\ page' = page
              \/ pc' \in {"select", "end"} /\ data' = <<>> /\ total' = None
                 /\ Respond(rows, n, None)
           /\ (pc' = "end" /\ query.limit # None /\ n > Skip + Limit) => page' = MaxPages
<1>1. CASE query.populate /\ Actors(rows) # {}
    <2>1. /\ data' = rows /\ total' = n /\ pc' = "populate" /\ reply' = None
          /\ page' = page /\ got' = got
        BY <1>1 DEF Listed
    <2>2. Given' = got \o rows
        BY <2>1 DEF Given
    <2>3. Limit' = Limit /\ Skip' = Skip
        BY <2>1 DEF Limit, Skip
    <2> QED
        BY <2>1, <2>2, <2>3 DEF Reached, TypeOK
<1>2. CASE ~ (query.populate /\ Actors(rows) # {})
    <2>1. Respond(rows, n, None)
        BY <1>2 DEF Listed
    <2> HIDE DEF Respond
    <2> QED
        BY <2>1, RespondStep
<1> QED
    BY <1>1, <1>2
----------------------------------------------------------------------------
\* The walk.

\* One more page.
LEMMA PageExtends ==
    ASSUME TypeOK, Stages, Sorting, Walk(got, Skip),
           NEW order \in Orders(Matching(table))
    PROVE  Walk(got \o Page(order), Skip + Limit)
<1> DEFINE rows == Page(order)
           g == got \o rows
           all == Cardinality(Matching(table))
<1>1. /\ order \in Seq(Row) /\ IsInjective(order) /\ ToSet(order) = Matching(table)
      /\ \A i \in 1..Len(order) : Fits(order[i], i)
      /\ \A i \in 1..Len(order) : order[i] \in tied \/ Rank(order[i]) = i - 1
      /\ Len(order) = all /\ Len(order) \in Nat /\ DOMAIN order = 1..Len(order)
    <2>1. table \in SUBSET Row /\ Numbered /\ query \in Query /\ Ties(Matching(table)) \subseteq tied
        BY DEF TypeOK, Numbered, Stages
    <2>2. order \in Seq(Row)
        BY <2>1, Answer
    <2> QED
        BY <2>1, <2>2, Answer, LenProperties
<1>2. Limit \in Nat \ {0} /\ Skip \in Nat
    BY LimitType DEF TypeOK, Stages, Sorting
<1>3. /\ rows \in Seq(Row) /\ Len(rows) \in Nat /\ DOMAIN rows = 1..Len(rows) /\ Len(rows) <= Limit
      /\ rows = <<>> => all <= Skip
      /\ rows # <<>> => Skip + Len(rows) = Lesser(Skip + Limit, all)
      /\ \A i \in 1..Len(rows) : Skip + i \in 1..Len(order) /\ rows[i] = order[Skip + i]
    BY <1>1, <1>2, PageRows, LenProperties
<1> HIDE DEF rows
\* the rows of the page that have a key of their own are those with a rank from
\* Skip on, below Skip + Limit
<1>4. \A i \in DOMAIN rows :
         /\ rows[i] \in Matching(table) /\ Fits(rows[i], Skip + i)
         /\ rows[i] \in tied \/ Rank(rows[i]) = Skip + i - 1
    BY <1>1, <1>2, <1>3 DEF ToSet
<1>5. \A row \in Matching(table) \ tied :
         Rank(row) < Skip \/ row \in ToSet(rows) \/ Skip + Limit <= Rank(row)
    <2> SUFFICES ASSUME NEW row \in Matching(table) \ tied,
                        ~ (Rank(row) < Skip), ~ (Skip + Limit <= Rank(row))
                 PROVE  row \in ToSet(rows)
        OBVIOUS
    <2>1. PICK i \in 1..Len(order) : row = order[i]
        BY <1>1 DEF ToSet
    <2>2. Rank(row) = i - 1
        BY <2>1, <1>1
    <2>3. i - Skip \in 1..Limit
        BY <2>2, <1>2
    <2>4. rows # <<>>
        BY <2>3, <1>1, <1>2, <1>3
    <2>5. i - Skip \in 1..Len(rows)
        BY <2>3, <2>4, <1>1, <1>2, <1>3 DEF Lesser
    <2>6. rows[i - Skip] = order[i]
        <3>1. Skip + (i - Skip) = i
            BY <1>2
        <3> QED
            BY <3>1, <2>5, <1>3
    <2> QED
        BY <2>1, <2>5, <2>6, <1>3 DEF ToSet
<1>6. /\ got \in Seq(Row) /\ Len(got) \in Nat /\ DOMAIN got = 1..Len(got)
      /\ ToSet(g) = ToSet(got) \cup ToSet(rows)
      /\ \A i \in DOMAIN g :
            \/ i \in DOMAIN got /\ g[i] = got[i]
            \/ i - Len(got) \in DOMAIN rows /\ g[i] = rows[i - Len(got)]
      /\ DOMAIN g = 1..Len(g) /\ Len(g) = Len(got) + Len(rows) /\ g \in Seq(Row)
    <2>1. got \in Seq(Row)
        BY DEF TypeOK
    <2>2. g \in Seq(Row) /\ Len(g) = Len(got) + Len(rows)
        BY <2>1, <1>3, SetOfConcat, ConcatProperties
    <2> HIDE DEF g
    <2>3. DOMAIN g = 1..Len(g)
        BY <2>2
    <2> QED
        BY <2>1, <2>2, <2>3, <1>3, SetOfConcat DEF g
<1> HIDE DEF g
<1>7. \A row : Rank(row) \in Nat
    <2>1. IsFiniteSet(Matching(table))
        BY RowsFinite DEF TypeOK, Numbered
    <2> QED
        BY <2>1, RankType
<1>8. Ahead(g, Skip + Limit)
    <2>1. stayed \subseteq Matching(table)
        BY DEF Stages
    <2> QED
        BY <2>1, <1>2, <1>5, <1>6, <1>7 DEF Walk, Ahead
<1>9. Behind(g, Skip + Limit)
    <2> SUFFICES ASSUME ~ arrived
                 PROVE  /\ Once(g)
                        /\ \A row \in ToSet(g) \ tied : row \in Matching(table) => Rank(row) < Skip + Limit
        BY DEF Behind
    <2>1. Once(got) /\ \A row \in ToSet(got) \ tied : row \in Matching(table) => Rank(row) < Skip
        BY DEF Walk, Behind
    <2>2. \A row \in ToSet(g) \ tied : row \in Matching(table) => Rank(row) < Skip + Limit
        <3>1. \A row \in ToSet(rows) \ tied : Rank(row) < Skip + Limit
            BY <1>2, <1>3, <1>4 DEF ToSet
        <3> QED
            BY <3>1, <2>1, <1>2, <1>6, <1>7
    <2>3. \A i \in DOMAIN got, j \in DOMAIN rows : got[i] # rows[j] \/ got[i] \in tied
        <3> SUFFICES ASSUME NEW i \in DOMAIN got, NEW j \in DOMAIN rows,
                            got[i] = rows[j], got[i] \notin tied
                     PROVE  FALSE
            OBVIOUS
        <3>1. got[i] \in ToSet(got) /\ got[i] \in Matching(table) /\ Rank(got[i]) = Skip + j - 1
            BY <1>4 DEF ToSet
        <3> QED
            BY <3>1, <2>1, <1>2, <1>3
    <2>4. \A i, j \in DOMAIN rows : rows[i] = rows[j] => i = j \/ rows[i] \in tied
        BY <1>2, <1>3, <1>4
    <2>5. Once(g)
        <3> SUFFICES ASSUME NEW i \in DOMAIN g, NEW j \in DOMAIN g, g[i] = g[j], g[i] \notin tied
                     PROVE  i = j
            BY DEF Once
        <3>1. CASE i \in DOMAIN got /\ g[i] = got[i]
            BY <3>1, <2>1, <2>3, <1>6 DEF Once
        <3>2. CASE i - Len(got) \in DOMAIN rows /\ g[i] = rows[i - Len(got)]
            <4>1. j - Len(got) \in DOMAIN rows /\ g[j] = rows[j - Len(got)]
                BY <3>2, <2>3, <1>6
            <4>2. i - Len(got) = j - Len(got)
                BY <3>2, <4>1, <2>4
            <4> QED
                BY <4>2, <1>6
        <3> QED
            BY <3>1, <3>2, <1>6
    <2> QED
        BY <2>2, <2>5
<1>10. Exact(g, Skip + Limit)
    <2> SUFFICES ASSUME ~ arrived, ~ departed
                 PROVE  /\ Matching(table) = stayed /\ ToSet(g) \subseteq stayed
                        /\ Len(g) = Lesser(Skip + Limit, Cardinality(stayed))
                        /\ \A i \in 1..Len(g) : Fits(g[i], i)
        BY DEF Exact
    <2>1. /\ Matching(table) = stayed /\ ToSet(got) \subseteq stayed
          /\ Len(got) = Lesser(Skip, all)
          /\ \A i \in 1..Len(got) : Fits(got[i], i)
        BY DEF Walk, Exact
    <2>2. ToSet(g) \subseteq stayed
        BY <2>1, <1>4, <1>6 DEF ToSet
    <2>3. all \in Nat
        BY <1>1
    <2> HIDE DEF all
    <2>4. rows = <<>> <=> Len(rows) = 0
        BY <1>3, EmptySeq
    <2>5. rows # <<>> => Len(got) = Skip
        BY <2>1, <2>3, <2>4, <1>2, <1>3 DEF Lesser
    <2>6. Len(g) = Lesser(Skip + Limit, all)
        BY <2>1, <2>3, <2>4, <2>5, <1>2, <1>3, <1>6 DEF Lesser
    <2>7. ASSUME NEW i \in 1..Len(g) PROVE Fits(g[i], i)
        <3>1. CASE i \in DOMAIN got /\ g[i] = got[i]
            BY <3>1, <2>1, <1>6
        <3>2. CASE i - Len(got) \in DOMAIN rows /\ g[i] = rows[i - Len(got)]
            <4>1. Len(got) = Skip
                BY <3>2, <2>4, <2>5, <1>3
            <4>2. Skip + (i - Skip) = i
                BY <1>2
            <4> QED
                BY <3>2, <4>1, <4>2, <1>4
        <3> QED
            BY <3>1, <3>2, <1>6
    <2> QED
        BY <2>1, <2>2, <2>6, <2>7 DEF all
<1> QED
    BY <1>8, <1>9, <1>10 DEF Walk, g, rows

LEMMA RanksSame ==
    ASSUME Matching(table)' = Matching(table), query' = query, NEW row
    PROVE  Rank(row)' = Rank(row) /\ \A i : Fits(row, i)' = Fits(row, i)
<1>1. Above(row)' = Above(row) /\ AtLeast(row)' = AtLeast(row)
    BY DEF Above, AtLeast, Key
<1> QED
    BY <1>1 DEF Rank, Fits

\* A step that writes no row.
LEMMA WalkStep ==
    ASSUME UNCHANGED <<table, query, history>>, NEW g, NEW m, Walk(g, m), Given' = g, Reached' = m
    PROVE  Walk(Given, Reached)'
<1>1. Matching(table)' = Matching(table)
    BY DEF Matching, Matches
<1>2. \A row : Rank(row)' = Rank(row) /\ \A i : Fits(row, i)' = Fits(row, i)
    BY <1>1, RanksSame
<1>3. UNCHANGED <<stayed, arrived, departed, tied>>
    BY DEF history
<1>4. Ahead(Given, Reached)'
    BY <1>2, <1>3 DEF Walk, Ahead
<1>5. Behind(Given, Reached)'
    BY <1>1, <1>2, <1>3 DEF Walk, Behind, Once
<1>6. Exact(Given, Reached)'
    BY <1>1, <1>2, <1>3 DEF Walk, Exact
<1> QED
    BY <1>4, <1>5, <1>6 DEF Walk
----------------------------------------------------------------------------
\* The queries of a request.

LEMMA ListParts ==
    ASSUME TypeOK, UNCHANGED accounts, NEW rows \in Seq(Row), NEW n, NEW actors,
           Respond(rows, n, actors),
           ~ between' => rows = <<>> \/ Skip + Len(rows) <= n,
           actors = None \/ actors = BatchGetUsers(Actors(rows))
    PROVE  PartsAgree'
<1>1. /\ reply'.of = "list" /\ reply'.rows = rows /\ reply'.upTo = Skip + Len(rows)
      /\ reply'.total = n /\ reply'.actors = actors
    BY DEF Respond
<1>2. ASSUME actors # None, NEW row \in ToSet(rows), row.a \in accounts
      PROVE  row.a \in DOMAIN actors /\ actors[row.a] = row.a
    <2>1. row.a # None
        <3>1. row.a \in {1, 2}
            BY <1>2 DEF TypeOK
        <3>2. 1 # None /\ 2 # None
            BY ConstantsAssumption
        <3> QED
            BY <3>1, <3>2
    <2>2. row.a \in Actors(rows)
        BY <1>2, <2>1 DEF Actors
    <2> QED
        BY <1>2, <2>2 DEF BatchGetUsers, findByIds
<1> QED
    BY <1>1, <1>2 DEF PartsAgree

LEMMA RequestStep ==
    ASSUME IInv, UNCHANGED <<table, query, history>>
    PROVE  /\ Matching(table)' = Matching(table) /\ query' \in Query
           /\ stayed' \subseteq Matching(table)' /\ Ties(Matching(table))' \subseteq tied'
           /\ table \in SUBSET Row /\ Numbered
<1>1. Matching(table)' = Matching(table)
    BY DEF Matching, Matches
<1>2. Ties(Matching(table))' = Ties(Matching(table))
    BY <1>1 DEF Ties, Sorting, Key
<1> QED
    BY <1>1, <1>2 DEF IInv, TypeOK, Stages, Numbered, history

\* What is missing when a page has been counted lies on a later page.
LEMMA CountedAhead ==
    ASSUME IInv, NEW g, Ahead(g, Skip + Limit), ~ departed, Missing(g, Skip + Limit), Sorting
    PROVE  Cardinality(Matching(table)) > Skip + Limit
<1>1. table \in SUBSET Row /\ Numbered /\ stayed \subseteq Matching(table) /\ query \in Query
    BY DEF IInv, TypeOK, Stages, Numbered
<1>2. IsFiniteSet(Matching(table))
    BY <1>1, RowsFinite
<1>3. Cardinality(Matching(table)) \in Nat /\ Skip + Limit \in Nat
    BY <1>2, FS_CardinalityType, LimitType DEF IInv, TypeOK, Stages, Sorting
<1>4. CASE Cardinality(stayed) > Skip + Limit
    <2>1. Cardinality(stayed) \in Nat /\ Cardinality(stayed) <= Cardinality(Matching(table))
        BY <1>1, <1>2, FS_Subset, FS_CardinalityType
    <2> QED
        BY <1>3, <1>4, <2>1
<1>5. CASE stayed \ (tied \cup ToSet(g)) # {}
    <2>1. PICK row \in stayed : Skip + Limit <= Rank(row)
        BY <1>5 DEF Ahead
    <2>2. row \in Matching(table) /\ Rank(row) \in Nat
        BY <1>1, <1>2, RankType
    <2>3. Rank(row) < Cardinality(Matching(table))
        BY <1>1, <2>2, RankBound
    <2> QED
        BY <1>3, <2>1, <2>2, <2>3
<1> QED
    BY <1>4, <1>5 DEF Missing

LEMMA SelectKeeps ==
    ASSUME IInv, Select
    PROVE  IInv'
<1>1. query.of = "list" /\ query \in Query /\ UNCHANGED <<table, accounts, query, history>> /\ between' = FALSE
    BY DEF IInv, Stages, Select
<1>2. /\ Matching(table)' = Matching(table) /\ query' \in Query
      /\ stayed' \subseteq Matching(table)' /\ Ties(Matching(table))' \subseteq tied'
      /\ table \in SUBSET Row /\ Numbered
    BY <1>1, RequestStep
<1>3. Limit \in Nat \ {0} /\ Skip \in Nat /\ Limit' = Limit
    BY <1>1, LimitType DEF IInv, TypeOK, Limit
<1>4. PICK order \in Orders(Matching(table)) :
          LET rows == Page(order) IN
          IF Counted(rows)
          THEN Listed(rows, Skip + Len(rows))
          ELSE data' = rows /\ pc' = "count" /\ reply' = None /\ UNCHANGED <<page, total, got>>
    BY DEF Select
<1> DEFINE rows == Page(order)
           all == Cardinality(Matching(table))
<1>5. order \in Seq(Row) /\ Len(order) = all /\ Len(order) \in Nat
    BY <1>1, <1>2, Answer, LenProperties
<1>6. /\ rows \in Seq(Row) /\ Len(rows) \in Nat /\ Len(rows) <= Limit
      /\ rows = <<>> => all <= Skip
      /\ rows # <<>> => Skip + Len(rows) = Lesser(Skip + Limit, all)
    BY <1>3, <1>5, PageRows, LenProperties
<1>7. data = <<>> /\ Given = got /\ Reached = Skip /\ got \in Seq(Row)
    BY ConcatEmptySeq DEF IInv, TypeOK, Stages, Select, Given, Reached
<1>8. Sorting => Walk(got \o rows, Skip + Limit)
    BY <1>1, <1>7, PageExtends DEF IInv, WalkInv
<1> HIDE DEF rows, all
<1>9. CASE Counted(rows)
    <2>1. Skip + Len(rows) = all
        BY <1>3, <1>5, <1>6, <1>9 DEF Counted, Lesser
    <2>2. Listed(rows, all)
        BY <1>4, <1>9, <2>1 DEF rows
    <2>3. /\ Given' = got \o rows /\ Reached' = Skip + Limit
          /\ got' \in Seq(Row) /\ page' \in 1..MaxPages
          /\ \/ /\ pc' = "populate" /\ data' = rows /\ total' = all /\ reply' = None
                /\ page' = page
             \/ pc' \in {"select", "end"} /\ data' = <<>> /\ total' = None
                /\ Respond(rows, all, None)
          /\ (pc' = "end" /\ query.limit # None /\ all > Skip + Limit) => page' = MaxPages
        BY <1>1, <1>5, <1>6, <2>2, ListedStep DEF IInv
    <2>4. TypeOK'
        <3>1. <<>> \in Seq(Row) /\ Len(<<>>) = 0
            BY EmptySeq
        <3>2. data' \in Seq(Row) /\ total' \in Nat \cup {None}
            BY <1>5, <1>6, <2>3, <3>1
        <3>3. Len(data') <= Limit'
            <4>1. data' = rows \/ data' = <<>>
                BY <2>3
            <4> QED
                BY <4>1, <1>3, <1>6, <3>1
        <3>4. pc' \in {"select", "count", "populate", "total", "groups", "end"}
            BY <2>3
        <3>5. stayed' \subseteq table'
            BY <1>2 DEF Matching
        <3> QED
            BY <1>1, <2>3, <3>2, <3>3, <3>4, <3>5 DEF IInv, TypeOK
    <2>5. Stages'
        BY <1>1, <1>2, <1>5, <2>3 DEF Stages
    <2>6. WalkInv'
        <3> SUFFICES ASSUME Sorting PROVE Walk(Given, Reached)' /\ Finished'
            BY <1>1 DEF WalkInv, Sorting
        <3>1. Walk(Given, Reached)'
            BY <1>1, <1>8, <2>3, WalkStep
        <3>2. Finished'
            <4> SUFFICES ASSUME ~ departed, query.limit # None, Missing(got \o rows, Skip + Limit)
                         PROVE  /\ pc' = "populate" => total' > (Skip + Limit)'
                                /\ pc' = "end" => page' = MaxPages
                BY <1>1, <2>3 DEF Finished, Missing, history
            <4>1. all > Skip + Limit
                BY <1>1, <1>8, CountedAhead DEF Walk, all
            <4>2. pc' = "populate" => (Skip + Limit)' = Skip + Limit
                BY <2>3 DEF Reached
            <4> QED
                BY <2>3, <4>1, <4>2
        <3> QED
            BY <3>1, <3>2
    <2>7. PartsInv'
        <3>1. pc' = "populate" => Skip' = Skip
            BY <1>3, <2>3 DEF Skip
        <3> QED
            BY <1>5, <2>1, <2>3, <3>1, <1>3, <1>6 DEF PartsInv
    <2>8. PartsAgree'
        <3>1. CASE reply' = None
            BY <3>1 DEF PartsAgree
        <3>2. CASE Respond(rows, all, None)
            BY <1>1, <1>3, <1>5, <1>6, <2>1, <3>2, ListParts DEF IInv
        <3> QED
            BY <2>3, <3>1, <3>2
    <2> QED
        BY <2>4, <2>5, <2>6, <2>7, <2>8 DEF IInv
<1>10. CASE ~ Counted(rows)
    <2>1. data' = rows /\ pc' = "count" /\ reply' = None /\ UNCHANGED <<page, total, got>>
        BY <1>4, <1>10 DEF rows
    <2>2. Given' = got \o rows /\ Skip' = Skip /\ Reached' = Skip + Limit
        BY <1>3, <2>1 DEF Given, Reached, Skip
    <2>3. TypeOK'
        BY <1>1, <1>2, <1>3, <1>6, <2>1 DEF IInv, TypeOK, Matching
    <2>4. Stages'
        BY <1>1, <1>2, <2>1 DEF Stages
    <2>5. WalkInv'
        <3> SUFFICES ASSUME Sorting PROVE Walk(Given, Reached)' /\ Finished'
            BY <1>1 DEF WalkInv, Sorting
        <3>1. Walk(Given, Reached)'
            BY <1>1, <1>8, <2>2, WalkStep
        <3> QED
            BY <2>1, <3>1 DEF Finished
    <2>6. PartsInv'
        <3>1. rows = <<>> \/ Skip + Len(rows) <= all
            BY <1>3, <1>5, <1>6 DEF Lesser
        <3> QED
            BY <1>2, <2>1, <2>2, <3>1 DEF PartsInv, all
    <2>7. PartsAgree'
        BY <2>1 DEF PartsAgree
    <2> QED
        BY <2>3, <2>4, <2>5, <2>6, <2>7 DEF IInv
<1> QED
    BY <1>9, <1>10
LEMMA CountKeeps ==
    ASSUME IInv, Count
    PROVE  IInv'
<1> DEFINE all == Cardinality(Matching(table))
<1>1. /\ query.of = "list" /\ query \in Query /\ UNCHANGED <<table, accounts, query, history, between>>
      /\ pc = "count" /\ Listed(data, all)
    BY DEF IInv, Stages, Count
<1>2. /\ Matching(table)' = Matching(table) /\ query' \in Query
      /\ stayed' \subseteq Matching(table)' /\ Ties(Matching(table))' \subseteq tied'
      /\ table \in SUBSET Row /\ Numbered
    BY <1>1, RequestStep
<1>3. all \in Nat
    BY <1>2, RowsFinite, FS_CardinalityType
<1>4. Limit \in Nat \ {0} /\ Skip \in Nat /\ Limit' = Limit
    BY <1>1, LimitType DEF IInv, TypeOK, Limit
<1>5. data \in Seq(Row) /\ Len(data) <= Limit /\ Given = got \o data /\ Reached = Skip + Limit
    BY <1>1 DEF IInv, TypeOK, Given, Reached
<1> HIDE DEF all
<1>6. /\ Given' = Given /\ Reached' = Skip + Limit
      /\ got' \in Seq(Row) /\ page' \in 1..MaxPages
      /\ \/ /\ pc' = "populate" /\ data' = data /\ total' = all /\ reply' = None
            /\ page' = page
         \/ pc' \in {"select", "end"} /\ data' = <<>> /\ total' = None
            /\ Respond(data, all, None)
      /\ (pc' = "end" /\ query.limit # None /\ all > Skip + Limit) => page' = MaxPages
    BY <1>1, <1>3, <1>5, ListedStep DEF IInv
<1>7. TypeOK'
    <2>1. <<>> \in Seq(Row) /\ Len(<<>>) = 0
        BY EmptySeq
    <2>2. data' \in Seq(Row) /\ total' \in Nat \cup {None}
        BY <1>3, <1>5, <1>6, <2>1
    <2>3. Len(data') <= Limit'
        <3>1. data' = data \/ data' = <<>>
            BY <1>6
        <3> QED
            BY <3>1, <1>4, <1>5, <2>1
    <2>4. pc' \in {"select", "count", "populate", "total", "groups", "end"}
        BY <1>6
    <2>5. stayed' \subseteq table'
        BY <1>2 DEF Matching
    <2> QED
        BY <1>1, <1>6, <2>2, <2>3, <2>4, <2>5 DEF IInv, TypeOK
<1>8. Stages'
    BY <1>1, <1>2, <1>3, <1>6 DEF Stages
<1>9. WalkInv'
    <2> SUFFICES ASSUME Sorting PROVE Walk(Given, Reached)' /\ Finished'
        BY <1>1 DEF WalkInv, Sorting
    <2>1. Walk(Given, Skip + Limit)
        BY <1>1, <1>5 DEF IInv, WalkInv
    <2>2. Walk(Given, Reached)'
        BY <1>1, <1>6, <2>1, WalkStep
    <2>3. Finished'
        <3> SUFFICES ASSUME ~ departed, query.limit # None, Missing(Given, Skip + Limit)
                     PROVE  /\ pc' = "populate" => total' > (Skip + Limit)'
                            /\ pc' = "end" => page' = MaxPages
            BY <1>1, <1>6 DEF Finished, Missing, history
        <3>1. all > Skip + Limit
            BY <1>1, <2>1, CountedAhead DEF Walk, all
        <3>2. pc' = "populate" => (Skip + Limit)' = Skip + Limit
            BY <1>6 DEF Reached
        <3> QED
            BY <1>6, <3>1, <3>2
    <2> QED
        BY <2>2, <2>3
<1>10. ~ between => data = <<>> \/ Skip + Len(data) <= all
    BY <1>1 DEF IInv, PartsInv, all
<1>11. PartsInv'
    <2>1. pc' = "populate" => Skip' = Skip
        BY <1>4, <1>6 DEF Skip
    <2> QED
        BY <1>1, <1>6, <1>10, <2>1 DEF PartsInv
<1>12. PartsAgree'
    <2>1. CASE reply' = None
        BY <2>1 DEF PartsAgree
    <2>2. CASE Respond(data, all, None)
        BY <1>1, <1>5, <1>10, <2>2, ListParts DEF IInv
    <2> QED
        BY <1>6, <2>1, <2>2
<1> QED
    BY <1>7, <1>8, <1>9, <1>11, <1>12 DEF IInv

LEMMA PopulateKeeps ==
    ASSUME IInv, Populate
    PROVE  IInv'
<1>1. /\ query.of = "list" /\ query \in Query /\ UNCHANGED <<table, accounts, query, history, between>>
      /\ pc = "populate" /\ total \in Nat
    BY DEF IInv, Stages, Populate
<1>2. PICK actors : /\ Respond(data, total, actors)
                    /\ actors = None \/ actors = BatchGetUsers(Actors(data))
    BY DEF Populate
<1>3. /\ Matching(table)' = Matching(table) /\ query' \in Query
      /\ stayed' \subseteq Matching(table)' /\ Ties(Matching(table))' \subseteq tied'
    BY <1>1, RequestStep
<1>4. Limit \in Nat \ {0} /\ Skip \in Nat /\ Limit' = Limit
    BY <1>1, LimitType DEF IInv, TypeOK, Limit
<1>5. data \in Seq(Row) /\ Given = got \o data /\ Reached = Skip + Limit
    BY <1>1 DEF IInv, TypeOK, Given, Reached
<1>6. /\ Given' = Given /\ Reached' = Reached
      /\ got' \in Seq(Row) /\ data' = <<>> /\ total' = None
      /\ page' \in 1..MaxPages /\ pc' \in {"select", "end"}
      /\ (pc' = "end" /\ query.limit # None /\ total > Skip + Limit) => page' = MaxPages
    BY <1>1, <1>2, <1>5, RespondStep DEF IInv
<1>7. TypeOK'
    <2>1. <<>> \in Seq(Row) /\ Len(<<>>) = 0
        BY EmptySeq
    <2>2. stayed' \subseteq table'
        BY <1>3 DEF Matching
    <2> QED
        BY <1>1, <1>4, <1>6, <2>1, <2>2 DEF IInv, TypeOK
<1>8. Stages'
    BY <1>1, <1>3, <1>6 DEF Stages
<1>9. WalkInv'
    <2> SUFFICES ASSUME Sorting PROVE Walk(Given, Reached)' /\ Finished'
        BY <1>1 DEF WalkInv, Sorting
    <2>1. Walk(Given, Reached) /\ Finished
        BY <1>1 DEF IInv, WalkInv
    <2>2. Walk(Given, Reached)'
        BY <1>1, <1>6, <2>1, WalkStep
    <2>3. Finished'
        BY <1>1, <1>6, <2>1 DEF Finished, Missing, history
    <2> QED
        BY <2>2, <2>3
<1>10. PartsInv'
    BY <1>6 DEF PartsInv
<1>11. PartsAgree'
    <2>1. ~ between' => data = <<>> \/ Skip + Len(data) <= total
        BY <1>1 DEF IInv, PartsInv
    <2> QED
        BY <1>1, <1>2, <1>5, <2>1, ListParts DEF IInv
<1> QED
    BY <1>7, <1>8, <1>9, <1>10, <1>11 DEF IInv

\* The request is refused: nothing matches, so nothing is missing.
LEMMA RejectKeeps ==
    ASSUME IInv, Reject
    PROVE  IInv'
<1>1. /\ query.of = "list" /\ UNCHANGED <<table, accounts, query, page, data, total, got, reply, history, between>>
      /\ pc' = "end" /\ data = <<>>
    BY DEF IInv, Stages, Reject
<1>2. Matching(table) = {} /\ stayed = {}
    BY DEF Matching, Matches, Reject, IInv, Stages
<1>3. Matching(table)' = Matching(table) /\ query' \in Query /\ stayed' \subseteq Matching(table)'
      /\ Ties(Matching(table))' \subseteq tied'
    BY <1>1, RequestStep
<1>4. TypeOK'
    BY <1>1 DEF IInv, TypeOK, Limit, history
<1>5. Stages'
    BY <1>1, <1>3 DEF Stages
<1>6. WalkInv'
    <2> SUFFICES ASSUME Sorting PROVE Walk(Given, Reached)' /\ Finished'
        BY <1>1 DEF WalkInv, Sorting
    <2>1. Walk(Given, Reached) /\ Given' = Given
        BY <1>1 DEF IInv, WalkInv, Given
    <2>2. Walk(Given, Reached')
        <3>1. Reached \in Nat /\ Reached' \in Nat
            <4>1. Limit \in Nat /\ Skip \in Nat /\ Limit' = Limit /\ Skip' = Skip
                BY <1>1, LimitType DEF IInv, TypeOK, Stages, Limit, Skip
            <4> QED
                BY <1>1, <4>1 DEF Reached
        <3>2. Lesser(Reached, Cardinality(stayed)) = 0 /\ Lesser(Reached', Cardinality(stayed)) = 0
            BY <1>2, <3>1, FS_EmptySet DEF Lesser
        <3> QED
            BY <1>2, <2>1, <3>2 DEF Walk, Ahead, Behind, Exact
    <2>3. Walk(Given, Reached)'
        BY <1>1, <2>1, <2>2, WalkStep
    <2>4. Finished'
        <3>1. Reached' \in Nat /\ Cardinality(stayed) = 0
            <4>1. Limit \in Nat /\ Skip \in Nat /\ Limit' = Limit /\ Skip' = Skip
                BY <1>1, LimitType DEF IInv, TypeOK, Stages, Limit, Skip
            <4> QED
                BY <1>1, <1>2, <4>1, FS_EmptySet DEF Reached
        <3> QED
            BY <1>1, <1>2, <3>1 DEF Finished, Missing, history
    <2> QED
        BY <2>3, <2>4
<1>7. PartsInv' /\ PartsAgree'
    BY <1>1 DEF IInv, PartsInv, PartsAgree, CountOf
<1> QED
    BY <1>4, <1>5, <1>6, <1>7 DEF IInv

----------------------------------------------------------------------------
\* The metrics.

LEMMA StatusesAdd ==
    ASSUME table \in SUBSET Row, IsFiniteSet(table)
    PROVE  Cardinality(table) = Cardinality({row \in table : row.a = 1})
                                + Cardinality({row \in table : row.a = 2})
                                + Cardinality({row \in table : row.a = None})
<1> DEFINE With(v) == {row \in table : row.a = v}
<1>1. IsFiniteSet(With(1)) /\ IsFiniteSet(With(2)) /\ IsFiniteSet(With(None))
    BY FS_Subset
<1>2. /\ Cardinality(With(1)) \in Nat /\ Cardinality(With(2)) \in Nat
      /\ Cardinality(With(None)) \in Nat
    BY <1>1, FS_CardinalityType
<1>3. 1 # None /\ 2 # None
    BY ConstantsAssumption
<1>4. With(1) \cap With(2) = {} /\ (With(1) \cup With(2)) \cap With(None) = {}
    BY <1>3
<1>5. table = (With(1) \cup With(2)) \cup With(None)
    BY DEF Row, Statuses
<1> HIDE DEF With
<1>6. /\ IsFiniteSet(With(1) \cup With(2))
      /\ Cardinality(With(1) \cup With(2)) = Cardinality(With(1)) + Cardinality(With(2))
    BY <1>1, <1>2, <1>4, FS_Union, FS_EmptySet
<1>7. Cardinality(table) = Cardinality(With(1)) + Cardinality(With(2)) + Cardinality(With(None))
    <2> DEFINE both == With(1) \cup With(2)
    <2>1. IsFiniteSet(both) /\ both \cap With(None) = {} /\ table = both \cup With(None)
        BY <1>4, <1>5, <1>6
    <2>2. Cardinality(both) = Cardinality(With(1)) + Cardinality(With(2))
        BY <1>6
    <2> HIDE DEF both
    <2>3. Cardinality(both \cup With(None)) = Cardinality(both) + Cardinality(With(None)) - Cardinality({})
        BY <1>1, <2>1, FS_Union
    <2> QED
        BY <1>2, <2>1, <2>2, <2>3, FS_EmptySet
<1> QED
    BY <1>7 DEF With

LEMMA MetricsTotalKeeps ==
    ASSUME IInv, MetricsTotal
    PROVE  IInv'
<1>1. /\ query.of = "metrics" /\ UNCHANGED <<table, accounts, query, page, data, got, reply, history, between>>
      /\ pc = "total" /\ pc' = "groups" /\ total' = Cardinality(table)
    BY DEF IInv, Stages, MetricsTotal
<1>2. /\ Matching(table)' = Matching(table) /\ query' \in Query
      /\ stayed' \subseteq Matching(table)' /\ Ties(Matching(table))' \subseteq tied'
      /\ table \in SUBSET Row /\ Numbered
    BY <1>1, RequestStep
<1>3. total' \in Nat
    BY <1>1, <1>2, RowsFinite, FS_CardinalityType
<1>4. TypeOK'
    BY <1>1, <1>3 DEF IInv, TypeOK, history
<1>5. Stages'
    BY <1>1, <1>2, <1>3 DEF IInv, Stages
<1>6. WalkInv' /\ PartsInv'
    BY <1>1 DEF WalkInv, PartsInv, Sorting
<1>7. PartsAgree'
    BY <1>1 DEF IInv, PartsAgree, CountOf
<1> QED
    BY <1>4, <1>5, <1>6, <1>7 DEF IInv

LEMMA MetricsByStatusKeeps ==
    ASSUME IInv, MetricsByStatus
    PROVE  IInv'
<1>1. /\ query.of = "metrics" /\ UNCHANGED <<table, accounts, query, page, data, got, history, between>>
      /\ pc = "groups" /\ pc' = "end" /\ total' = None /\ total \in Nat
    BY DEF IInv, Stages, MetricsByStatus
<1>2. /\ Matching(table)' = Matching(table) /\ query' \in Query
      /\ stayed' \subseteq Matching(table)' /\ Ties(Matching(table))' \subseteq tied'
      /\ table \in SUBSET Row /\ Numbered
    BY <1>1, RequestStep
<1>3. TypeOK'
    BY <1>1 DEF IInv, TypeOK, history
<1>4. Stages'
    BY <1>1, <1>2 DEF IInv, Stages
<1>5. WalkInv' /\ PartsInv'
    BY <1>1 DEF WalkInv, PartsInv, Sorting
<1>6. PartsAgree'
    <2> DEFINE With(v) == {row \in table : row.a = v}
               Present == {row.a : row \in table}
    <2>1. /\ reply'.of = "metrics" /\ reply'.total = total
          /\ reply'.byStatus = [v \in Present |-> Cardinality(With(v))]
        BY DEF MetricsByStatus
    <2>2. \A v : CountOf(v)' = Cardinality(With(v))
        <3> SUFFICES ASSUME NEW v PROVE CountOf(v)' = Cardinality(With(v))
            OBVIOUS
        <3>1. CountOf(v)' = IF v \in Present THEN Cardinality(With(v)) ELSE 0
            BY <2>1 DEF CountOf
        <3>2. v \notin Present => With(v) = {}
            OBVIOUS
        <3> QED
            BY <3>1, <3>2, FS_EmptySet
    <2>3. Cardinality(table) = Cardinality(With(1)) + Cardinality(With(2)) + Cardinality(With(None))
        BY <1>2, RowsFinite, StatusesAdd
    <2>4. ~ between' => total = Cardinality(table)
        BY <1>1 DEF IInv, PartsInv
    <2> HIDE DEF With, Present
    <2>5. ~ between' => reply'.total = CountOf(1)' + CountOf(2)' + CountOf(None)'
        BY <2>1, <2>2, <2>3, <2>4
    <2> QED
        BY <2>1, <2>5 DEF PartsAgree
<1> QED
    BY <1>3, <1>4, <1>5, <1>6 DEF IInv
----------------------------------------------------------------------------
\* Writes of others.

LEMMA RanksGrow ==
    ASSUME IsFiniteSet(Matching(table)'), Matching(table) \subseteq Matching(table)',
           query' = query, NEW row
    PROVE  Rank(row) \in Nat /\ Rank(row)' \in Nat /\ Rank(row) <= Rank(row)'
<1>1. Above(row) \subseteq Above(row)' /\ Above(row)' \subseteq Matching(table)'
    BY DEF Above, Key
<1>2. IsFiniteSet(Above(row)') /\ IsFiniteSet(Above(row))
    BY <1>1, FS_Subset
<1> QED
    BY <1>1, <1>2, FS_Subset, FS_CardinalityType DEF Rank

LEMMA RanksFall ==
    ASSUME IsFiniteSet(Matching(table)), Matching(table)' \subseteq Matching(table),
           query' = query, NEW row
    PROVE  Rank(row) \in Nat /\ Rank(row)' \in Nat /\ Rank(row)' <= Rank(row)
<1>1. Above(row)' \subseteq Above(row) /\ Above(row) \subseteq Matching(table)
    BY DEF Above, Key
<1>2. IsFiniteSet(Above(row)') /\ IsFiniteSet(Above(row))
    BY <1>1, FS_Subset
<1> QED
    BY <1>1, <1>2, FS_Subset, FS_CardinalityType DEF Rank

LEMMA WriteStep ==
    ASSUME IInv, Write
    PROVE  /\ UNCHANGED <<accounts, query, page, data, total, pc, got, reply>>
           /\ Given' = Given /\ Reached' = Reached /\ Skip' = Skip /\ Limit' = Limit
           /\ between' \in BOOLEAN /\ PartsAgree' /\ PartsInv'
           /\ IsFiniteSet(table) /\ IsFiniteSet(Matching(table))
           /\ pc \in {"select", "count", "populate"} =>
                  Reached \in Nat
<1>1. UNCHANGED <<accounts, query, page, data, total, pc, got, reply>>
    BY DEF Write, request
<1>2. Given' = Given /\ Reached' = Reached /\ Skip' = Skip /\ Limit' = Limit
    BY <1>1 DEF Given, Reached, Skip, Limit
<1>3. between' \in BOOLEAN /\ (between => between') /\ (pc \in {"count", "populate", "groups"} => between')
    BY DEF Write, IInv, TypeOK
<1>4. PartsAgree'
    BY <1>1, <1>3 DEF IInv, PartsAgree, CountOf
<1>5. PartsInv'
    BY <1>1, <1>3 DEF PartsInv
<1>6. IsFiniteSet(table) /\ IsFiniteSet(Matching(table))
    BY RowsFinite DEF IInv, TypeOK, Numbered
<1>7. pc \in {"select", "count", "populate"} => Reached \in Nat
    BY LimitType DEF IInv, TypeOK, Stages, Reached
<1> QED
    BY <1>1, <1>2, <1>3, <1>4, <1>5, <1>6, <1>7

LEMMA InsertKeeps ==
    ASSUME IInv, NEW row \in Row, Insert(row)
    PROVE  IInv'
<1>1. /\ table' = table \cup {row} /\ arrived' = (arrived \/ Matches(row)) /\ Write
      /\ tied' = (IF Matches(row) THEN tied \cup Ties(Matching(table')) ELSE tied)
      /\ UNCHANGED <<stayed, departed>> /\ \A r \in table : r.at # row.at
    BY DEF Insert
<1>2. /\ UNCHANGED <<accounts, query, page, data, total, pc, got, reply>>
      /\ Given' = Given /\ Reached' = Reached /\ Skip' = Skip /\ Limit' = Limit
      /\ between' \in BOOLEAN /\ PartsAgree' /\ PartsInv'
      /\ IsFiniteSet(Matching(table))
      /\ pc \in {"select", "count", "populate"} => Reached \in Nat
    BY <1>1, WriteStep
<1>3. pc \in {"select", "count", "populate", "total", "groups"}
    BY <1>1 DEF Write, IInv, TypeOK
<1>4. Matching(table)' = IF Matches(row) THEN Matching(table) \cup {row} ELSE Matching(table)
    BY <1>1, <1>2 DEF Matching, Matches
<1>5. IsFiniteSet(Matching(table)') /\ Matching(table) \subseteq Matching(table)'
    BY <1>2, <1>4, FS_AddElement
<1>6. TypeOK'
    <2>1. table' \subseteq Row /\ \A r, t \in table' : r.at = t.at => r = t
        BY <1>1 DEF IInv, TypeOK
    <2>2. stayed' \subseteq table'
        BY <1>1 DEF IInv, TypeOK
    <2> QED
        BY <1>2, <2>1, <2>2 DEF IInv, TypeOK
<1>7. tied \subseteq tied' /\ Ties(Matching(table))' \subseteq tied'
    <2>1. Ties(Matching(table))' = Ties(Matching(table)')
        BY <1>2 DEF Ties, Sorting, Key
    <2>2. Matching(table)' = Matching(table')
        BY <1>2 DEF Matching, Matches
    <2>3. Ties(Matching(table)) \subseteq tied
        BY DEF IInv, Stages
    <2> QED
        BY <1>1, <1>4, <2>1, <2>2, <2>3
<1>8. Stages'
    BY <1>1, <1>2, <1>5, <1>7 DEF IInv, Stages
<1>9. WalkInv'
    <2> SUFFICES ASSUME Sorting PROVE Walk(Given, Reached)' /\ Finished'
        BY <1>2 DEF WalkInv, Sorting
    <2>1. Walk(Given, Reached) /\ Finished /\ Reached \in Nat
        BY <1>2, <1>3 DEF IInv, WalkInv, Stages, Sorting
    <2>2. Ahead(Given, Reached)'
        <3>1. \A r : Rank(r) \in Nat /\ Rank(r)' \in Nat /\ Rank(r) <= Rank(r)'
            BY <1>2, <1>5, RanksGrow
        <3> QED
            BY <1>1, <1>2, <1>7, <2>1, <3>1 DEF Walk, Ahead
    <2>3. ASSUME ~ arrived'
          PROVE  ~ arrived /\ Matching(table)' = Matching(table) /\ tied' = tied
        BY <1>1, <1>4, <2>3
    <2>4. ASSUME ~ arrived', NEW r
          PROVE  Rank(r)' = Rank(r) /\ \A i : Fits(r, i)' = Fits(r, i)
        BY <1>2, <2>3, <2>4, RanksSame
    <2>5. Behind(Given, Reached)'
        <3> SUFFICES ASSUME ~ arrived'
                     PROVE  /\ Once(Given)
                            /\ \A r \in ToSet(Given) \ tied : r \in Matching(table) => Rank(r)' < Reached
            BY <1>2, <2>3 DEF Behind, Once
        <3> QED
            BY <2>1, <2>3, <2>4 DEF Walk, Behind
    <2>6. Exact(Given, Reached)'
        BY <1>1, <1>2, <2>1, <2>3, <2>4 DEF Walk, Exact
    <2>7. Finished'
        BY <1>1, <1>2, <1>7, <2>1 DEF Finished, Missing
    <2> QED
        BY <2>2, <2>5, <2>6, <2>7 DEF Walk
<1> QED
    BY <1>2, <1>6, <1>8, <1>9 DEF IInv

LEMMA DeleteKeeps ==
    ASSUME IInv, NEW row \in table, Delete(row)
    PROVE  IInv'
<1>1. /\ table' = table \ {row} /\ departed' = (departed \/ Matches(row)) /\ Write
      /\ stayed' = stayed \ {row} /\ UNCHANGED <<arrived, tied>>
    BY DEF Delete
<1>2. /\ UNCHANGED <<accounts, query, page, data, total, pc, got, reply>>
      /\ Given' = Given /\ Reached' = Reached /\ Skip' = Skip /\ Limit' = Limit
      /\ between' \in BOOLEAN /\ PartsAgree' /\ PartsInv'
      /\ IsFiniteSet(Matching(table))
      /\ pc \in {"select", "count", "populate"} => Reached \in Nat
    BY <1>1, WriteStep
<1>3. pc \in {"select", "count", "populate", "total", "groups"}
    BY <1>1 DEF Write, IInv, TypeOK
<1>4. Matching(table)' = Matching(table) \ {row}
    BY <1>1, <1>2 DEF Matching, Matches
<1>5. TypeOK'
    BY <1>1, <1>2 DEF IInv, TypeOK
<1>6. Stages'
    <2>1. Ties(Matching(table))' \subseteq Ties(Matching(table))
        BY <1>2, <1>4 DEF Ties, Sorting, Key
    <2> QED
        BY <1>1, <1>2, <1>4, <2>1 DEF IInv, Stages
<1>7. WalkInv'
    <2> SUFFICES ASSUME Sorting PROVE Walk(Given, Reached)' /\ Finished'
        BY <1>2 DEF WalkInv, Sorting
    <2>1. Walk(Given, Reached) /\ Finished /\ Reached \in Nat
        BY <1>2, <1>3 DEF IInv, WalkInv, Stages, Sorting
    <2>2. ASSUME ~ departed'
          PROVE  ~ departed /\ Matching(table)' = Matching(table) /\ stayed' = stayed
        BY <1>1, <1>4, <2>2 DEF IInv, Stages, Matching
    <2>7. ASSUME ~ departed', NEW r
          PROVE  Rank(r)' = Rank(r) /\ \A i : Fits(r, i)' = Fits(r, i)
        BY <1>2, <2>2, <2>7, RanksSame
    <2>3. Ahead(Given, Reached)'
        BY <1>1, <1>2, <2>1, <2>2, <2>7 DEF Walk, Ahead
    <2>4. Behind(Given, Reached)'
        <3>1. \A r : Rank(r) \in Nat /\ Rank(r)' \in Nat /\ Rank(r)' <= Rank(r)
            BY <1>2, <1>4, RanksFall
        <3>2. Matching(table)' \subseteq Matching(table)
            BY <1>4
        <3> QED
            BY <1>1, <1>2, <2>1, <3>1, <3>2 DEF Walk, Behind, Once
    <2>5. Exact(Given, Reached)'
        BY <1>1, <1>2, <2>1, <2>2, <2>7 DEF Walk, Exact
    <2>6. Finished'
        BY <1>1, <1>2, <2>1, <2>2 DEF Finished, Missing
    <2> QED
        BY <2>3, <2>4, <2>5, <2>6 DEF Walk
<1> QED
    BY <1>2, <1>5, <1>6, <1>7 DEF IInv

LEMMA DeleteAccountKeeps ==
    ASSUME IInv, NEW actor \in accounts, DeleteAccount(actor)
    PROVE  IInv'
<1>1. UNCHANGED <<table, query, page, data, total, pc, got, reply, stayed, arrived, departed, tied,
                 between>>
    BY DEF DeleteAccount, request, history
<1>2. accounts' \subseteq accounts
    BY DEF DeleteAccount
<1>3. Given' = Given /\ Reached' = Reached /\ Skip' = Skip /\ Limit' = Limit
    BY <1>1 DEF Given, Reached, Skip, Limit
<1>4. Matching(table)' = Matching(table) /\ query' \in Query /\ stayed' \subseteq Matching(table)'
      /\ Ties(Matching(table))' \subseteq tied'
    BY <1>1, RequestStep DEF history
<1>5. TypeOK'
    BY <1>1, <1>2, <1>3 DEF IInv, TypeOK
<1>6. Stages'
    BY <1>1, <1>4 DEF IInv, Stages
<1>7. WalkInv'
    <2> SUFFICES ASSUME Sorting PROVE Walk(Given, Reached)' /\ Finished'
        BY <1>1 DEF WalkInv, Sorting
    <2>1. Walk(Given, Reached) /\ Finished
        BY DEF IInv, WalkInv
    <2>2. Walk(Given, Reached)'
        BY <1>1, <1>3, <2>1, WalkStep DEF history
    <2> QED
        BY <1>1, <1>3, <2>1, <2>2 DEF Finished, Missing
<1>8. PartsInv'
    BY <1>1, <1>3, <1>4 DEF IInv, PartsInv
<1>9. PartsAgree'
    BY <1>1, <1>2 DEF IInv, PartsAgree, CountOf
<1> QED
    BY <1>5, <1>6, <1>7, <1>8, <1>9 DEF IInv
----------------------------------------------------------------------------
LEMMA InitHolds ==
    ASSUME Init
    PROVE  IInv
<1>1. /\ table \in SUBSET Row /\ \A r, t \in table : r.at = t.at => r = t
      /\ query \in Query /\ page = 1 /\ data = <<>> /\ got = <<>> /\ stayed = Matching(table)
      /\ pc = IF query.of = "metrics" THEN "total" ELSE "select"
    BY ConstantsAssumption DEF Init
<1>2. <<>> \in Seq(Row) /\ Len(<<>>) = 0 /\ 1 \in 1..MaxPages
    BY EmptySeq, ConstantsAssumption
<1>3. query.of = "list" => Limit \in Nat \ {0}
    BY <1>1, <1>2, LimitType
<1>4. TypeOK
    <2>1. query.of = "list" => Len(data) <= Limit
        BY <1>1, <1>2, <1>3
    <2>2. data \in Seq(Row) /\ got \in Seq(Row) /\ page \in 1..MaxPages
        BY <1>1, <1>2
    <2>3. pc \in {"select", "count", "populate", "total", "groups", "end"} /\ stayed \subseteq table
        BY <1>1 DEF Matching
    <2> QED
        BY <1>1, <2>1, <2>2, <2>3 DEF Init, TypeOK
<1>5. Stages
    BY <1>1 DEF Init, Stages, Query
<1>6. WalkInv
    <2> SUFFICES ASSUME Sorting PROVE Walk(Given, Reached) /\ Finished
        BY DEF WalkInv
    <2>1. pc = "select" /\ Skip = 0 /\ Reached = 0
        <3>1. Limit \in Nat /\ (1 - 1) * Limit = 0
            BY <1>3 DEF Sorting
        <3> QED
            BY <1>1, <3>1 DEF Skip, Reached, Sorting
    <2>2. Given = <<>>
        BY <1>1, <1>2, ConcatEmptySeq DEF Given
    <2>3. DOMAIN Given = {} /\ ToSet(Given) = {} /\ Len(Given) = 0
        BY <1>2, <2>2 DEF ToSet
    <2>4. IsFiniteSet(Matching(table))
        BY <1>1, RowsFinite DEF Numbered
    <2>5. \A row : 0 <= Rank(row)
        BY <2>4, RankType
    <2>6. Lesser(0, Cardinality(stayed)) = 0
        BY <1>1, <2>4, FS_CardinalityType DEF Lesser
    <2>7. Ahead(Given, Reached) /\ Behind(Given, Reached)
        BY <1>1, <2>1, <2>3, <2>5 DEF Ahead, Behind, Once
    <2>8. Exact(Given, Reached)
        BY <1>1, <2>1, <2>3, <2>6 DEF Exact
    <2> QED
        BY <2>1, <2>7, <2>8 DEF Walk, Finished
<1>7. PartsInv /\ PartsAgree
    BY <1>1 DEF Init, PartsInv, PartsAgree
<1> QED
    BY <1>4, <1>5, <1>6, <1>7 DEF IInv

LEMMA NextKeeps ==
    ASSUME IInv, [Next]_vars
    PROVE  IInv'
<1>1. CASE Select
    BY <1>1, SelectKeeps
<1>2. CASE Reject
    BY <1>2, RejectKeeps
<1>3. CASE Count
    BY <1>3, CountKeeps
<1>4. CASE Populate
    BY <1>4, PopulateKeeps
<1>5. CASE MetricsTotal
    BY <1>5, MetricsTotalKeeps
<1>6. CASE MetricsByStatus
    BY <1>6, MetricsByStatusKeeps
<1>7. CASE \E row \in Row : Insert(row)
    BY <1>7, InsertKeeps
<1>8. CASE \E row \in table : Delete(row)
    BY <1>8, DeleteKeeps
<1>9. CASE \E actor \in accounts : DeleteAccount(actor)
    BY <1>9, DeleteAccountKeeps
<1>10. CASE UNCHANGED vars
    <2>1. /\ UNCHANGED <<table, accounts, query, page, data, total, pc, got, reply>>
          /\ UNCHANGED <<stayed, arrived, departed, tied, between>>
        BY <1>10 DEF vars, request, history
    <2>2. Given' = Given /\ Reached' = Reached /\ Skip' = Skip /\ Limit' = Limit
        BY <2>1 DEF Given, Reached, Skip, Limit
    <2>3. Matching(table)' = Matching(table) /\ query' \in Query /\ stayed' \subseteq Matching(table)'
      /\ Ties(Matching(table))' \subseteq tied'
        BY <2>1, RequestStep DEF history
    <2>4. TypeOK' /\ Stages'
        BY <2>1, <2>2, <2>3 DEF IInv, TypeOK, Stages
    <2>5. WalkInv'
        <3> SUFFICES ASSUME Sorting PROVE Walk(Given, Reached)' /\ Finished'
            BY <2>1 DEF WalkInv, Sorting
        <3>1. Walk(Given, Reached) /\ Finished
            BY DEF IInv, WalkInv
        <3>2. Walk(Given, Reached)'
            BY <2>1, <2>2, <3>1, WalkStep DEF history
        <3> QED
            BY <2>1, <2>2, <3>1, <3>2 DEF Finished, Missing
    <2>6. PartsInv'
        BY <2>1, <2>2, <2>3 DEF IInv, PartsInv
    <2>7. PartsAgree'
        BY <2>1 DEF IInv, PartsAgree, CountOf
    <2> QED
        BY <2>4, <2>5, <2>6, <2>7 DEF IInv
<1> QED
    BY <1>1, <1>2, <1>3, <1>4, <1>5, <1>6, <1>7, <1>8, <1>9, <1>10 DEF Next

\* Every reachable state satisfies the inductive invariant.
THEOREM Invariance == Spec => []IInv
<1>1. Init => IInv
    BY InitHolds
<1>2. IInv /\ [Next]_vars => IInv'
    BY NextKeeps
<1> QED
    BY <1>1, <1>2, PTL DEF Spec

\* Every variable keeps its type: findAll() gives a page of the limit at most.
THEOREM TypeCorrect == Spec => []TypeOK
<1>1. IInv => TypeOK
    BY DEF IInv
<1> QED
    BY <1>1, Invariance, PTL

\* A sorted walk of findAll() with a limit gives a client as many rows as there
\* are, their keys in order, and every row of a key of its own once, as far as no
\* write moves its pages.
THEOREM WalksComplete == Spec => []WalkComplete
<1>1. IInv => WalkComplete
    <2> SUFFICES ASSUME IInv, Walked
                 PROVE  /\ ~ departed => stayed \ tied \subseteq ToSet(got)
                        /\ ~ arrived  => Once(got)
                        /\ ~ arrived /\ ~ departed =>
                              /\ ToSet(got) \subseteq stayed
                              /\ \A order \in Orders(stayed) : KeySequence(got) = KeySequence(order)
        BY DEF WalkComplete, Once
    <2>1. got \in Seq(Row) /\ Given = got
        BY ConcatEmptySeq DEF IInv, TypeOK, Stages, Walked, Given
    <2>2. Walk(got, Reached) /\ Finished /\ Sorting
        BY <2>1 DEF IInv, WalkInv, Walked
    <2>3. page # MaxPages /\ pc = "end" /\ query.limit # None
        BY ConstantsAssumption DEF Walked, IInv, TypeOK
    <2>4. ~ departed => stayed \ tied \subseteq ToSet(got) /\ ~ (Cardinality(stayed) > Reached)
        BY <2>1, <2>2, <2>3 DEF Finished, Missing
    <2>5. ~ arrived => Once(got)
        BY <2>2 DEF Walk, Behind
    <2>6. ASSUME ~ arrived, ~ departed, NEW order \in Orders(stayed)
          PROVE  ToSet(got) \subseteq stayed /\ KeySequence(got) = KeySequence(order)
        <3>1. /\ Matching(table) = stayed /\ ToSet(got) \subseteq stayed
              /\ Len(got) = Lesser(Reached, Cardinality(stayed))
              /\ \A i \in 1..Len(got) : Fits(got[i], i)
            BY <2>2, <2>6 DEF Walk, Exact
        <3>2. table \in SUBSET Row /\ Numbered /\ query \in Query
            BY DEF IInv, TypeOK, Stages, Numbered
        <3>3. /\ order \in Seq(Row) /\ Len(order) = Cardinality(stayed)
              /\ \A i \in 1..Len(order) : Fits(order[i], i)
            BY <2>2, <3>1, <3>2, <2>6, Answer
        <3>4. Len(got) = Len(order)
            <4>1. Limit \in Nat /\ Skip \in Nat
                BY <2>2, <3>2, LimitType DEF IInv, TypeOK, Sorting
            <4>2. Reached \in Nat /\ Cardinality(stayed) \in Nat
                BY <3>3, <4>1 DEF Reached
            <4> QED
                BY <2>4, <2>6, <3>1, <3>3, <4>2 DEF Lesser
        <3>5. DOMAIN got = 1..Len(order) /\ DOMAIN order = 1..Len(order)
            BY <2>1, <3>3, <3>4
        <3>6. \A i \in 1..Len(order) : Key(got[i]) = Key(order[i])
            <4> SUFFICES ASSUME NEW i \in 1..Len(order) PROVE Key(got[i]) = Key(order[i])
                OBVIOUS
            <4>1. got[i] \in Row /\ order[i] \in Row /\ i \in Nat
                BY <2>1, <3>3, <3>5
            <4> QED
                BY <2>2, <3>1, <3>2, <3>3, <3>4, <4>1, OnePlace
        <3> QED
            BY <3>1, <3>5, <3>6 DEF KeySequence
    <2>7. ~ arrived /\ ~ departed => ToSet(got) \subseteq stayed
        BY <2>2 DEF Walk, Exact
    <2> QED
        BY <2>4, <2>5, <2>6, <2>7
<1> QED
    BY <1>1, Invariance, PTL

\* The parts of a response, each from a query of its own, agree unless a row
\* was written between the queries; actors are shown if they have an account.
THEOREM ResponsesAgree == Spec => []PartsAgree
<1>1. IInv => PartsAgree
    BY DEF IInv
<1> QED
    BY <1>1, Invariance, PTL
============================================================================
