---------------------------- MODULE FilteredList ----------------------------
(***************************************************************************)
(* Lists with the filters of MongoFilter: what a filter means in ListQuery *)
(* is what its parser and the query builder make of it.                    *)
(***************************************************************************)
EXTENDS ListQuery

CONSTANTS
    TextFields,  \* columns of text, which a filter compares as such
    Nesting,     \* how many levels of objects are in a filter
    Deepest      \* bound: that of all filters

INSTANCE MongoFilter WITH Objects <- Filters, Rows <- Row

AcceptsFilter(filter)    == Accepted(filter)
SelectsRow(filter, row)  == Selected(filter, row)

\* A filter is a JSON object: of finitely many levels, the operators of a field
\* with one test each.  A $or of nothing is left out.
ASSUME FiltersAssumption ==
    /\ Deepest \in Nat /\ Nesting \in [Filters -> 0..Deepest]
    /\ \A filter \in Filters : filter \in Seq(ToSet(filter)) /\ \A e \in ToSet(filter) :
          \/ e.on \in {"field", "legacy"}
          \/ e.on = "ops" /\ \A s, t \in ToSet(e.tests) : s.op = t.op => s = t
          \/ /\ e.on \in {"$and", "$or"} /\ e.parts \in Seq(Filters)
             /\ e.on = "$or" => e.parts # <<>>
             /\ \A part \in ToSet(e.parts) : Nesting[part] < Nesting[filter]

\* What the database makes of a filter is what this code makes of it.
ASSUME FiltersAreMongo ==
    \A filter \in Filters :
        /\ Accepts(filter) <=> AcceptsFilter(filter)
        /\ AcceptsFilter(filter) => \A row \in Row : (Selects(filter, row) <=> SelectsRow(filter, row))

Meant ==
    {row \in table : (query.search # None => row.a = query.search) /\ row \in Means[query.filter]}

\* A filter that the program accepts does not hide a row that matches it, unless
\* it mixes the two formats: all a condition can do to another is take its place.
FilterHidesNothing ==
    (query.of = "list" /\ Accepted(query.filter) /\ ~ Mixed(query.filter)) => Meant \subseteq Matching(table)

\* In either format a filter selects the rows that match it, unless two parts
\* of an $and have a condition on the same field with the same operator, or a
\* null in an $or selects the rows without a value, as it does nowhere else.
FilterExact ==
    (/\ query.of = "list" /\ Accepted(query.filter)
     /\ ~ Mixed(query.filter) /\ Distinct(query.filter) /\ NoNullBranch(query.filter))
        => Meant = Matching(table)
=============================================================================
