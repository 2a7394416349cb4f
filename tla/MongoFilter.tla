---------------------------- MODULE MongoFilter ----------------------------
(***************************************************************************)
(* The filter of a list query: parseMongoStyleFilter turns the JSON object *)
(* into conditions kept under keys, applyFiltersToQueryBuilder adds each   *)
(* to the WHERE clause, and an object that does not parse is tried again   *)
(* in the older format.  Means is the reference: what the object says.     *)
(*                                                                         *)
(* A filter is the sequence of the entries of its object:                  *)
(*   [on |-> "field", field, value]         { "a": 1 }                     *)
(*   [on |-> "ops", field, tests]           { "a": { "$gt": 1, ... } }     *)
(*   [on |-> "$and" or "$or", parts]        { "$and": [ {...}, {...} ] }   *)
(*   [on |-> "legacy", test]                { "$gt": ["a", 1] }            *)
(* A test is [field, op, args].  Values are compared by SQL: nothing but   *)
(* $isNull holds of a null.  The value of a field may be null; other bad   *)
(* input (dates, wrong operands) is left out.                              *)
(***************************************************************************)
EXTENDS Integers, Sequences, SequencesExt

CONSTANTS
    Objects,      \* the filters, and the objects in them
    Rows,         \* rows of the table
    TextFields,   \* columns of text; the others are numbers or dates
    None

\* Six of the fifteen FILTER_OPERATIONS: the others ($gte, $like, $between, ...)
\* take the same path and are one more comparison in Holds.
Operations == {"$eq", "$not", "$gt", "$lt", "$in", "$isNull"}

Test(field, op, args) == [field |-> field, op |-> op, args |-> args]

\* the SQL of the find operators
Holds(test, row) ==
    LET v == row[test.field] IN
    \/ test.op = "$isNull" /\ v = None
    \/ /\ v # None
       /\ \/ test.op = "$eq"  /\ v = test.args[1]
          \/ test.op = "$not" /\ v # test.args[1]
          \/ test.op = "$gt"  /\ v > test.args[1]
          \/ test.op = "$lt"  /\ v < test.args[1]
          \/ test.op = "$in"  /\ v \in ToSet(test.args)

----------------------------------------------------------------------------
\* whereConditions: conditions under their keys, and the value of $or, in a set
\* that is empty if there is none.
Where(conds, or) == [conds |-> conds, or |-> or]

NoConds == [key \in {} |-> None]

LastOf(places) == CHOOSE i \in places : \A j \in places : j <= i

\* Object.assign of one after the other: of two under one key the later stays
Merged(wheres) ==
    LET having(key) == {i \in DOMAIN wheres : key \in DOMAIN wheres[i].conds}
        ors         == {i \in DOMAIN wheres : wheres[i].or # {}}
    IN  Where([key \in UNION {DOMAIN wheres[i].conds : i \in DOMAIN wheres} |->
                  wheres[LastOf(having(key))].conds[key]],
              IF ors = {} THEN {} ELSE wheres[LastOf(ors)].or)

\* Mutated: the key of a condition is its field.
OpsConditions_ByField(e) ==
    [k \in {<<e.field>>} |-> e.tests[Len(e.tests)]]

\* `${key}_${operator}`: the operators of an object differ
OpsConditions(e) ==
    [k \in {<<e.field, t.op>> : t \in ToSet(e.tests)} |->
        CHOOSE t \in ToSet(e.tests) : t.op = k[2]]

\* What an entry adds; inner are the calls for the objects in it.
Entry(e, inner) ==
    CASE e.on = "field" -> Where([k \in {<<e.field>>} |-> Test(e.field, "$eq", <<e.value>>)], {})
      [] e.on = "ops"   -> Where(OpsConditions(e), {})
      [] e.on = "$and"  -> Merged([i \in DOMAIN e.parts |-> inner[e.parts[i]]])
      [] e.on = "$or"   -> Where(NoConds, {[i \in DOMAIN e.parts |-> inner[e.parts[i]]]})
      [] OTHER          -> Where(NoConds, {})

Entries(filter, inner) == Merged([i \in DOMAIN filter |-> Entry(filter[i], inner)])

parseMongoStyleFilter[filter \in Objects] == Entries(filter, parseMongoStyleFilter)

Parts(filter, kinds) == UNION {ToSet(e.parts) : e \in {e \in ToSet(filter) : e.on \in kinds}}

\* a filter and the objects in it
Within[filter \in Objects] ==
    {filter} \cup UNION {Within[part] : part \in Parts(filter, {"$and", "$or"})}

\* It throws on other operators, also those the legacy format has at the top.
Parses(filter) ==
    \A object \in Within[filter] : \A e \in ToSet(object) :
        /\ e.on # "legacy"
        /\ e.on = "ops" => \A t \in ToSet(e.tests) : t.op \in Operations

\* andWhere(array) looks the keys of each object up as columns of the entity,
\* and throws on `field_$operator` and on a $or in it.
Applies(where) ==
    \A branches \in where.or : \A branch \in ToSet(branches) :
        branch.or = {} /\ \A k \in DOMAIN branch.conds : Len(k) = 1

\* The catch block takes fields and { operator: [field, value] }.  An object as
\* the value of a field goes to the database as JSON text, which only a column
\* of text compares with (and no row holds).
LegacyApplies(filter) ==
    \A e \in ToSet(filter) :
        \/ e.on = "field"
        \/ e.on = "legacy" /\ e.test.op \in Operations
        \/ e.on = "ops" /\ e.field \in TextFields

LegacySelects(filter, row) ==
    \A e \in ToSet(filter) :
        /\ e.on # "ops"
        /\ Holds(IF e.on = "field" THEN Test(e.field, "$eq", <<e.value>>) ELSE e.test, row)

CondsHold(where, row) == \A k \in DOMAIN where.conds : Holds(where.conds[k], row)

\* the value of a field is null
IsNull(test) == test.args = <<None>>

\* andWhere(array): of an object it writes null as IS NULL, where a condition of
\* its own is `= null`, which no row satisfies.
BranchHolds(where, row) ==
    \A k \in DOMAIN where.conds :
        LET test == where.conds[k] IN Holds(test, row) \/ (IsNull(test) /\ row[test.field] = None)

\* Mutated: the conditions of $or are added one by one.
WhereSelects_OrIsAnd(where, row) ==
    /\ CondsHold(where, row)
    /\ \A branches \in where.or : \A branch \in ToSet(branches) : BranchHolds(branch, row)

WhereSelects(where, row) ==
    /\ CondsHold(where, row)
    /\ \A branches \in where.or : \E branch \in ToSet(branches) : BranchHolds(branch, row)

Mongo(filter) == Parses(filter) /\ Applies(parseMongoStyleFilter[filter])

\* applyFiltersToQueryBuilder: whether the query runs, and selects a row
Accepted(filter) == Mongo(filter) \/ LegacyApplies(filter)

Selected(filter, row) ==
    IF Mongo(filter) THEN WhereSelects(parseMongoStyleFilter[filter], row)
                     ELSE LegacySelects(filter, row)

----------------------------------------------------------------------------
\* The reference: the rows of all entries of an object, all parts of $and, one
\* of $or.
Told(filter, inner) ==
    {row \in Rows : \A e \in ToSet(filter) :
        CASE e.on = "field"  -> Holds(Test(e.field, "$eq", <<e.value>>), row)
          [] e.on = "ops"    -> \A t \in ToSet(e.tests) : Holds(t, row)
          [] e.on = "legacy" -> Holds(e.test, row)
          [] e.on = "$and"   -> \A part \in ToSet(e.parts) : row \in inner[part]
          [] e.on = "$or"    -> \E part \in ToSet(e.parts) : row \in inner[part]}

Means[filter \in Objects] == Told(filter, Means)

\* The keys that the conditions of an object are kept under.
OwnKeys(e) ==
    CASE e.on = "field"  -> {<<e.field>>}
      [] e.on = "ops"    -> {<<e.field, t.op>> : t \in ToSet(e.tests)}
      [] e.on = "legacy" -> {<<e.test.op>>}
      [] e.on = "$or"    -> {<<"$or">>}
      [] OTHER           -> {}

Keys[filter \in Objects] ==
    (UNION {OwnKeys(e) : e \in ToSet(filter)}) \cup UNION {Keys[part] : part \in Parts(filter, {"$and"})}

EntryKeys(e) ==
    IF e.on = "$and" THEN UNION {Keys[part] : part \in ToSet(e.parts)} ELSE OwnKeys(e)

\* an object with entries of both formats
Mixed(filter) == {"ops", "legacy"} \subseteq {e.on : e \in ToSet(filter)}

\* In no branch of an $or the value of a field is null.
NoNullBranch(filter) ==
    \A object \in Within[filter] : \A part \in Parts(object, {"$or"}) :
        LET conds == parseMongoStyleFilter[part].conds IN \A k \in DOMAIN conds : ~ IsNull(conds[k])

\* No two entries of an object make a condition under the same key, nor two
\* parts of an $and.
Distinct(filter) ==
    \A object \in Within[filter] :
        /\ \A i, j \in DOMAIN object :
              i # j => EntryKeys(object[i]) \cap EntryKeys(object[j]) = {}
        /\ \A e \in ToSet(object) : e.on = "$and" => \A i, j \in DOMAIN e.parts :
              i # j => Keys[e.parts[i]] \cap Keys[e.parts[j]] = {}
============================================================================
