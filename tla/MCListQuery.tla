---------------------------- MODULE MCListQuery ----------------------------
EXTENDS FilteredList

\* filters of the request parameter: every way to combine two conditions, and
\* an $and of a condition and an $or
Cond(field, op, args) == [field |-> field, op |-> op, args |-> args]
Plain == <<[on |-> "field", field |-> "a", value |-> 1]>>
Leaves ==
    {Plain, <<[on |-> "field", field |-> "at", value |-> 2]>>,
     <<[on |-> "field", field |-> "a", value |-> None]>>}
    \cup {<<[on |-> "ops", field |-> t.field, tests |-> <<t>>]>> :
             t \in {Cond("at", "$gt", <<1>>), Cond("at", "$gt", <<2>>), Cond("a", "$isNull", <<>>),
                    Cond("a", "$not", <<1>>), Cond("at", "$in", <<1, 3>>),
                    Cond("at", "$regex", <<1>>), Cond("a", "$regex", <<1>>)}}
    \cup {<<[on |-> "ops", field |-> "at", tests |-> <<Cond("at", "$gt", <<1>>), Cond("at", "$lt", <<3>>)>>]>>,
          <<[on |-> "legacy", test |-> Cond("at", "$lt", <<2>>)]>>}
Pairs == {<<f, g>> : f, g \in Leaves}
Name(e) == IF e.on = "legacy" THEN e.test.op ELSE e.field
TwoConditions ==
    {<<>>} \cup Leaves
           \cup {fg[1] \o fg[2] : fg \in {p \in Pairs : Name(p[1][1]) # Name(p[2][1])}}
           \cup {<<[on |-> c, parts |-> fg]>> : c \in {"$and", "$or"}, fg \in Pairs}
           \cup {<<[on |-> "$and", parts |-> <<f, <<[on |-> "$or", parts |-> <<Plain, g>>]>> >>]>> :
                     f, g \in Leaves}

Nested(f) == {e \in ToSet(f) : e.on \in {"$and", "$or"}} # {}
NestingOf ==
    [f \in TwoConditions |->
        IF ~ Nested(f) THEN 0 ELSE IF \E e \in ToSet(f) : \E g \in ToSet(e.parts) : Nested(g) THEN 2 ELSE 1]

\* a sort by the column of unique values, and one by a column that is the same
\* in some rows
SortBy == {"at", "day"}
KeyOf(sort, row) == IF sort = "at" THEN row.at ELSE row.at \div 2

\* a walk with each page size, with one of two filters or a search; some with the
\* other sort, without one and with the actors; a request with any filter; one
\* for the metrics
List == [of |-> "list", filter |-> <<>>, search |-> None, sort |-> "at", limit |-> None,
         populate |-> FALSE]
Walks ==
    {[List EXCEPT !.limit = n, !.filter = f] : n \in Limits, f \in {<<>>, Plain}}
        \cup {[List EXCEPT !.limit = n, !.search = 1] : n \in Limits}
        \cup {[List EXCEPT !.limit = n, !.filter = Plain, !.sort = "day"] : n \in Limits}
        \cup {[List EXCEPT !.limit = 2, !.sort = None]}
        \cup {[List EXCEPT !.limit = 2, !.populate = TRUE]}
WalksAndFilters ==
    Walks
        \cup {[List EXCEPT !.filter = f] : f \in Filters}
        \cup {[List EXCEPT !.filter = f, !.search = 1] : f \in Leaves}
        \cup {[of |-> "metrics", populate |-> FALSE]}

\* the names of the configuration, for values that TLC then computes once
FilterParameters == TwoConditions
Levels == NestingOf
Requests == WalksAndFilters
============================================================================
