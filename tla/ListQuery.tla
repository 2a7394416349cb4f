----------------------------- MODULE ListQuery -----------------------------
(***************************************************************************)
(* GET of a list: findAll() of BaseCRUDService and the page numbers that   *)
(* ResponseBuilder adds, with a client that walks the pages one request    *)
(* after the other while rows are inserted and deleted.  getManyAndCount   *)
(* selects a page and counts in two queries, and does without the second   *)
(* where the page tells the total.  populate() of AuditLogService adds the *)
(* actors of the page in one more query, a command of the account package. *)
(* getMetrics() of AccountUserService counts the rows, and then by status. *)
(*                                                                         *)
(* `at` is unique; `a` is what a list may search, the actor of a row of    *)
(* the audit log, and the status of an account.  The client names the      *)
(* columns to sort by and nothing breaks their ties: rows of the same key  *)
(* come in whichever order, another one for each page, as all rows do      *)
(* without a sort.  What a sort and a filter mean to the database are      *)
(* parameters; FilteredList gives the filter the value that the code       *)
(* computes.  got, stayed, arrived, departed, tied, reply and between are  *)
(* history.                                                                *)
(***************************************************************************)
EXTENDS Integers, SequencesExt

CONSTANTS
    MaxRows,       \* bound: rows of the table
    Limits,        \* limit parameters of the client, None if it sends none
    DefaultLimit,  \* the limit findAll() takes then (10)
    MaxPages,      \* bound: pages a client asks for
    Filters,       \* filter parameters
    Queries,       \* the requests there are
    Sorts,         \* sort parameters: columns of the table, each with a direction
    SortKey(_, _), \* where a sort puts a row: those with the greatest key come first
    Accepts(_),    \* whether the query of a filter runs
    Selects(_, _), \* whether a filter selects a row
    None

Statuses == {1, 2, None}
Ats == 1..MaxRows
Row == [at : Ats, a : Statuses]

\* the parameters of a list but the page, and those of the metrics: none
Query ==
    [of : {"list"}, filter : Filters, search : {1, None}, sort : Sorts \cup {None},
     limit : Limits, populate : BOOLEAN]
        \cup [of : {"metrics"}, populate : {FALSE}]

ASSUME ConstantsAssumption ==
    /\ MaxRows \in Nat /\ MaxPages \in Nat \ {0}
    /\ Limits \subseteq (Nat \ {0}) \cup {None}
    /\ DefaultLimit \in Nat \ {0}
    /\ None \notin Nat
    /\ Queries \subseteq Query
    /\ \A sort \in Sorts : \A row \in Row : SortKey(sort, row) \in Int

VARIABLES
    table,    \* the rows there are
    accounts, \* the actors that still have an account
    query,    \* the parameters all requests of the walk have but the page
    page,     \* the page asked for
    data,     \* the rows the first query returned
    total,    \* how many there are, once counted
    pc,       \* the query the request waits for, or "end" of the walk
    got,      \* the rows the client was given, in order
    stayed,   \* rows that match and have been there since the walk began
    arrived,  \* whether a row that matches was inserted since then
    departed, \* whether a row that matches was deleted since then
    tied,     \* rows whose key another row that matches had as well, at some time
    reply,    \* the last response
    between   \* whether a row was deleted or inserted between its queries

request == <<page, data, total, pc, got, reply>>
history == <<stayed, arrived, departed, tied>>
vars    == <<table, accounts, query, request, history, between>>

Limit == IF query.limit = None THEN DefaultLimit ELSE query.limit

\* Mutated: the first page is page 0.
Skip_FromZero == page * Limit

Skip == (page - 1) * Limit

\* no row if the request is refused; (a ILIKE ...) whatever the filter: a null
\* is like nothing
Matches(row) ==
    /\ query.of = "list" /\ Accepts(query.filter)
    /\ query.search # None => row.a = query.search
    /\ Selects(query.filter, row)

Matching(rows) == {row \in rows : Matches(row)}

\* ORDER BY the columns of the sort
Sorting == query.of = "list" /\ query.sort # None
Key(row) == SortKey(query.sort, row)
Sorted(rows) == \A i, j \in DOMAIN rows : i < j => Key(rows[i]) >= Key(rows[j])

Orders(rows) == {order \in SetToSeqs(rows) : Sorting => Sorted(order)}

Lesser(m, n) == IF m <= n THEN m ELSE n

\* Mutated: it takes one row more, to see whether there is a next page.
Page_OneMore(rows) == SubSeq(rows, Skip + 1, Lesser(Skip + Limit + 1, Len(rows)))

Page(rows) == SubSeq(rows, Skip + 1, Lesser(Skip + Limit, Len(rows)))

\* Mutated: Math.floor.
totalPages_Floor(n) ==
    IF query.limit = None \/ n < query.limit THEN 1 ELSE n \div query.limit

\* Math.ceil(totalItems / itemsPerPage) || 1, which is 1 for NaN
totalPages(n) ==
    IF query.limit = None \/ n = 0 THEN 1
    ELSE (n + query.limit - 1) \div query.limit

\* The response, and the client's request for the page after it.
Respond(rows, n, actors) ==
    /\ got'   = got \o rows
    /\ reply' = [of |-> "list", rows |-> rows, upTo |-> Skip + Len(rows), total |-> n,
                 actors |-> actors]
    /\ data'  = <<>> /\ total' = None
    /\ IF page < totalPages(n) /\ page < MaxPages
       THEN page' = page + 1 /\ pc' = "select"
       ELSE page' = page /\ pc' = "end"

\* Mutated: the actor of the first row is looked up.
Actors_First(rows) == {rows[i].a : i \in DOMAIN rows \cap {1}} \ {None}

\* the ids to look up, each once, where there is one
Actors(rows) == {row.a : row \in ToSet(rows)} \ {None}

\* The list is there and counted.
Listed(rows, n) ==
    IF query.populate /\ Actors(rows) # {}
    THEN /\ data' = rows /\ total' = n /\ pc' = "populate" /\ reply' = None
         /\ UNCHANGED <<page, got>>
    ELSE Respond(rows, n, None)

\* the total follows from a page that is not full, unless it is past the end
Counted(rows) == Len(rows) < Limit /\ ~ (rows = <<>> /\ Skip > 0)

Select ==
    /\ pc = "select"
    /\ Accepts(query.filter)
    /\ \E order \in Orders(Matching(table)) :
          LET rows == Page(order) IN
          IF Counted(rows)
          THEN Listed(rows, Skip + Len(rows))
          ELSE /\ data' = rows /\ pc' = "count" /\ reply' = None
               /\ UNCHANGED <<page, total, got>>
    /\ between' = FALSE
    /\ UNCHANGED <<table, accounts, query, history>>

\* an error of the parser, of the query builder or of the database
Reject ==
    /\ pc = "select"
    /\ ~ Accepts(query.filter)
    /\ pc' = "end"
    /\ UNCHANGED <<table, accounts, query, page, data, total, got, reply, history, between>>

Count ==
    /\ pc = "count"
    /\ Listed(data, Cardinality(Matching(table)))
    /\ UNCHANGED <<table, accounts, query, history, between>>

findByIds(ids) == ids \cap accounts

\* the command of the account package: a map by id (of users, here their ids)
BatchGetUsers(ids) == [id \in findByIds(ids) |-> id]

\* populate(["actor"]): whatever the command throws, the list has no actors
Populate ==
    /\ pc = "populate"
    /\ \/ Respond(data, total, BatchGetUsers(Actors(data)))
       \/ Respond(data, total, None)
    /\ UNCHANGED <<table, accounts, query, history, between>>

\* getMetrics
MetricsTotal ==
    /\ pc = "total"
    /\ total' = Cardinality(table)
    /\ pc' = "groups"
    /\ UNCHANGED <<table, accounts, query, page, data, got, reply, history, between>>

MetricsByStatus ==
    /\ pc = "groups"
    /\ reply' = [of |-> "metrics", total |-> total,
                 byStatus |-> [v \in {row.a : row \in table} |->
                                  Cardinality({row \in table : row.a = v})]]
    /\ total' = None
    /\ pc' = "end"
    /\ UNCHANGED <<table, accounts, query, page, data, got, history, between>>

Write ==
    /\ pc # "end"
    /\ between' = (between \/ pc \notin {"select", "total"})
    /\ UNCHANGED <<accounts, query, request>>

\* rows of the same key, in whichever order
Ties(rows) == {row \in rows : Sorting /\ \E t \in rows \ {row} : Key(t) = Key(row)}

Insert(row) ==
    /\ \A r \in table : r.at # row.at
    /\ table'   = table \cup {row}
    /\ arrived' = (arrived \/ Matches(row))
    /\ tied'    = IF Matches(row) THEN tied \cup Ties(Matching(table')) ELSE tied
    /\ Write
    /\ UNCHANGED <<stayed, departed>>

Delete(row) ==
    /\ table'    = table \ {row}
    /\ stayed'   = stayed \ {row}
    /\ departed' = (departed \/ Matches(row))
    /\ Write
    /\ UNCHANGED <<arrived, tied>>

\* An account goes; the rows that name it stay.  Bound: only while it matters.
DeleteAccount(actor) ==
    /\ pc # "end" /\ query.populate
    /\ accounts' = accounts \ {actor}
    /\ UNCHANGED <<table, query, request, history, between>>

Init ==
    /\ table \in {rows \in SUBSET Row : \A r, t \in rows : r.at = t.at => r = t}
    /\ query \in Queries
    /\ accounts = {1, 2}
    /\ page = 1 /\ data = <<>> /\ total = None
    /\ pc = IF query.of = "metrics" THEN "total" ELSE "select"
    /\ got = <<>> /\ stayed = Matching(table)
    /\ arrived = FALSE /\ departed = FALSE
    /\ tied = Ties(Matching(table))
    /\ reply = None /\ between = FALSE

Next ==
    \/ Select
    \/ Reject
    \/ Count
    \/ Populate
    \/ MetricsTotal
    \/ MetricsByStatus
    \/ \E row \in Row : Insert(row)
    \/ \E row \in table : Delete(row)
    \/ \E actor \in accounts : DeleteAccount(actor)

Spec == Init /\ [][Next]_vars

----------------------------------------------------------------------------
\* Type invariant: no two rows have the same `at`.
TypeOK ==
    /\ table \subseteq Row /\ \A r, t \in table : r.at = t.at => r = t
    /\ page \in 1..MaxPages
    /\ pc \in {"select", "count", "populate", "total", "groups", "end"}
    /\ data \in Seq(Row) /\ (query.of = "list" => Len(data) <= Limit)
    /\ total \in Nat \cup {None}
    /\ accounts \subseteq {1, 2} /\ between \in BOOLEAN
    /\ got \in Seq(Row)
    /\ stayed \subseteq table

Walked == pc = "end" /\ Sorting /\ query.limit # None /\ page < MaxPages

KeySequence(rows) == [i \in DOMAIN rows |-> Key(rows[i])]

\* A sorted walk that no write overlaps gives the client as many rows that match
\* as there are, their keys in order.  Every row that never shared its key with
\* another is among them, once; one of several with the same key (a role, a
\* status) may come twice or not at all, for their order is another on each page.
\* An insert makes no row of a key of its own go missing that was there, and a
\* deletion makes none come twice.  Actors that cannot be had cost it no row.
WalkComplete ==
    Walked =>
        /\ ~ departed => stayed \ tied \subseteq ToSet(got)
        /\ ~ arrived  => \A i, j \in DOMAIN got : got[i] = got[j] => i = j \/ got[i] \in tied
        /\ ~ arrived /\ ~ departed =>
              /\ ToSet(got) \subseteq stayed
              /\ \A order \in Orders(stayed) : KeySequence(got) = KeySequence(order)

\* How many accounts the metrics say have a status, if any.
CountOf(v) == IF v \in DOMAIN reply.byStatus THEN reply.byStatus[v] ELSE 0

\* What the queries of one response return agrees, unless a row was written
\* between them: the total counts the rows up to the page, and the statuses
\* add up to it.  An actor that a row names is shown if the account is there.
PartsAgree ==
    reply # None =>
        /\ (reply.of = "metrics" /\ ~ between) =>
              reply.total = CountOf(1) + CountOf(2) + CountOf(None)
        /\ (reply.of = "list" /\ ~ between) =>
              reply.rows = <<>> \/ reply.upTo <= reply.total
        /\ (reply.of = "list" /\ reply.actors # None) =>
              \A row \in ToSet(reply.rows) :
                  row.a \in accounts => row.a \in DOMAIN reply.actors /\ reply.actors[row.a] = row.a
============================================================================
