----------------------------- MODULE AuditDiff -----------------------------
(***************************************************************************)
(* AuditLogService.create: the old and the new value of a resource are     *)
(* sanitised (truncated, or their sensitive fields redacted) and compared. *)
(* The values come as JSON through the gateway, so they are trees of       *)
(* objects, arrays, scalars and null.                                      *)
(*                                                                         *)
(* A value is a record: its kind, its atom if it is a scalar, its fields   *)
(* if it is an object or an array (by index).  A path is a sequence of     *)
(* keys; changes are a set, the order of keys tells nothing.  A payload    *)
(* longer than 10KB is known by its digest: length and checksum.  Left out *)
(* are keys that every JavaScript object inherits ("toString", ...), the   *)
(* empty key, and keys with a dot, which a joined path could not tell.     *)
(***************************************************************************)
EXTENDS Integers, Sequences, SequencesExt

CONSTANTS
    Documents,  \* the values a payload may have, and all values in them
    Height,     \* how many levels a document has below its own
    Longest,    \* bound: that of all documents
    Keys,       \* keys of objects
    Indices,    \* indices of arrays
    Sensitive,  \* the keys that contain "password", "secret", "token" or "key"
    FalsyAtoms, \* the scalars that JavaScript takes for false: 0, "" and false
    Metadata,   \* what callers pass as metadata
    Digests,    \* lengths and checksums of the payloads that are too long
    MaxDepth,   \* maxDepth of computeJsonDiff (5 in the code)
    None

NoFields == [k \in {} |-> {}]

Scalar(a)     == [kind |-> "scalar", atom |-> a, fields |-> NoFields]
Null          == [kind |-> "null", atom |-> None, fields |-> NoFields]
Absent        == [kind |-> "undefined", atom |-> None, fields |-> NoFields]
Node(kind, f) == [kind |-> kind, atom |-> None, fields |-> f]

Structured(v)   == v.kind \in {"object", "array"}
TypeofObject(v) == v.kind \in {"object", "array", "null"}    \* typeof null

\* JSON text is finite: what is in a document is a document of fewer levels.
ASSUME DocumentsAssumption ==
    /\ Longest \in Nat \ {0} /\ Height \in [Documents -> 0..Longest]
    /\ \A v \in Documents :
          \/ v = Scalar(v.atom)
          \/ v = Null
          \/ /\ v = Node("object", v.fields) /\ DOMAIN v.fields \subseteq Keys
             /\ \A k \in DOMAIN v.fields : v.fields[k] \in Documents /\ Height[v.fields[k]] < Height[v]
          \/ /\ v = Node("array", v.fields) /\ DOMAIN v.fields \subseteq Indices
             /\ \A k \in DOMAIN v.fields : v.fields[k] \in Documents /\ Height[v.fields[k]] < Height[v]

ASSUME KeysAssumption ==
    /\ Sensitive \subseteq Keys
    /\ Sensitive \cap (Indices \cup {"_truncated"}) = {}
    /\ MaxDepth \in Nat \ {0}

----------------------------------------------------------------------------
(* Sanitising.                                                             *)

Redacted == Scalar("[REDACTED]")

\* Mutated: the items of an array are taken as they are.
redact_SkipsArrays(v, inner) ==
    IF v.kind # "object" THEN v
    ELSE Node(v.kind, [k \in DOMAIN v.fields |->
             IF k \in Sensitive THEN Redacted ELSE inner[v.fields[k]]])

\* A call of the recursion; inner are the calls for what is in v.
redact(v, inner) ==
    IF ~ Structured(v) THEN v
    ELSE Node(v.kind, [k \in DOMAIN v.fields |->
             IF v.kind = "object" /\ k \in Sensitive THEN Redacted ELSE inner[v.fields[k]]])

redactSensitiveFields[v \in Documents] == redact(v, redactSensitiveFields)

Truncated(digest) == Node("object", [k \in {"_truncated"} |-> Scalar(digest)])

\* a payload may be missing
Falsy(v) ==
    \/ v \in {Null, Absent}
    \/ v.kind = "scalar" /\ v.atom \in FalsyAtoms

\* A payload is a value, with its digest if it is too long.  What is falsy is kept.
sanitizePayload(p) ==
    IF Falsy(p.value) THEN p.value
    ELSE IF p.digest # None THEN Truncated(p.digest)
    ELSE redactSensitiveFields[p.value]

----------------------------------------------------------------------------
(* The diff.                                                               *)

Names == Keys \cup Indices \cup {"_truncated"}

Child(v, key) == IF key \in DOMAIN v.fields THEN v.fields[key] ELSE Absent

\* the values on a path from v, v the first
Along(v, path) ==
    LET value[n \in 0..Len(path)] == IF n = 0 THEN v ELSE Child(value[n - 1], path[n])
    IN  value

At(v, path) == Along(v, path)[Len(path)]

Change(type, path, old, new) == [type |-> type, path |-> path, old |-> old, new |-> new]

\* Mutated: every field that is compared is recorded.
Edit_Always(path, old, new) == {Change("edit", path, old, new)}

Edit(path, old, new) == IF old = new THEN {} ELSE {Change("edit", path, old, new)}

\* Mutated: null counts as an object without keys.
Comparable_Null(old, new) == TypeofObject(old) /\ TypeofObject(new)

Comparable(old, new) == Structured(old) /\ Structured(new)

\* Mutated: only the keys of the old object.
AllKeys_Old(old, new) == DOMAIN old.fields

AllKeys(old, new) == DOMAIN old.fields \cup DOMAIN new.fields

\* What a call records for one of the keys; inner are the calls below.
ForKey(old, new, path, key, inner) ==
    LET from == old.fields
        to   == new.fields
        at   == Append(path, key)
    IN  CASE key \notin DOMAIN from -> {Change("add", at, Absent, to[key])}
          [] key \notin DOMAIN to   -> {Change("remove", at, from[key], Absent)}
          [] OTHER -> IF TypeofObject(from[key]) /\ TypeofObject(to[key]) THEN inner[at]
                      ELSE Edit(at, from[key], to[key])

\* A call of the recursion; its depth is the length of its path.
deepDiff(old, new, path, inner) ==
    IF Len(path) >= MaxDepth THEN {}
    ELSE IF ~ Comparable(old, new) THEN Edit(path, old, new)
    ELSE UNION {ForKey(old, new, path, key, inner) : key \in AllKeys(old, new)}

computeJsonDiff(old, new) ==
    LET diff[path \in Seq(Names)] == deepDiff(At(old, path), At(new, path), path, diff)
    IN  diff[<<>>]

----------------------------------------------------------------------------
(* The operation.                                                          *)

Payloads == [value : Documents \cup {Absent}, digest : Digests \cup {None}]

VARIABLES
    oldValue, newValue,  \* the payloads of the command
    metadata,            \* its third value
    auditLog             \* the row that create() saves, None before

vars == <<oldValue, newValue, metadata, auditLog>>

\* One value has one digest.
Init ==
    /\ oldValue \in Payloads
    /\ newValue \in Payloads
    /\ oldValue.value = newValue.value => oldValue.digest = newValue.digest
    /\ metadata \in Metadata
    /\ auditLog = None

create ==
    /\ auditLog = None
    /\ LET old == sanitizePayload(oldValue)
           new == sanitizePayload(newValue)
       IN  auditLog' = [oldValue |-> old, newValue |-> new,
                        diff |-> IF Falsy(old) \/ Falsy(new) THEN None
                                 ELSE computeJsonDiff(old, new),
                        metadata |-> metadata]
    /\ UNCHANGED <<oldValue, newValue, metadata>>

Next == create
Spec == Init /\ [][Next]_vars

----------------------------------------------------------------------------
Diffed == auditLog # None /\ auditLog.diff # None

\* Type invariant: the shapes of DiffChange.
TypeOK ==
    Diffed => \A c \in auditLog.diff :
        CASE c.type = "add"    -> c.old = Absent
          [] c.type = "remove" -> c.new = Absent
          [] OTHER             -> c.type = "edit" /\ c.old # c.new

(* The reference: two values, compared path by path.                       *)

Paths == UNION {[1..n -> Names] : n \in 0..MaxDepth}

\* The values first differ at this path: above it, both have fields.
FirstDifference(old, new, path) ==
    LET a == Along(old, path)
        b == Along(new, path)
        n == Len(path)
    IN  /\ \A i \in 0..(n - 1) : Structured(a[i]) /\ Structured(b[i])
        /\ a[n] # b[n]
        /\ ~ (Structured(a[n]) /\ Structured(b[n]))

\* At depth MaxDepth the two are compared only if one is a scalar or absent.
Reached(old, new, path) ==
    Len(path) = MaxDepth => ~ (TypeofObject(At(old, path)) /\ TypeofObject(At(new, path)))

\* The diff names exactly the paths, down to maxDepth, at which the two stored
\* values first differ, with what each holds there: a field that becomes null
\* or stops being null, an item of an array and a whole value included.
DiffExact ==
    Diffed =>
        LET old == auditLog.oldValue
            new == auditLog.newValue
        IN  /\ {c.path : c \in auditLog.diff} =
                   {p \in Paths : FirstDifference(old, new, p) /\ Reached(old, new, p)}
            /\ \A c \in auditLog.diff : c.old = At(old, c.path) /\ c.new = At(new, c.path)

\* What there is at a path, and what there is once changes are made: a change
\* replaces all that is at its path or below.
Content(v, path) == [kind |-> At(v, path).kind, atom |-> At(v, path).atom]

Patched(v, changes, path) ==
    LET made == {c \in changes : IsPrefix(c.path, path)}
    IN  IF made = {} THEN Content(v, path)
        ELSE LET c == CHOOSE c \in made : TRUE
             IN  Content(c.new, SubSeq(path, Len(c.path) + 1, Len(path)))

\* Where nothing lies deeper than maxDepth and no object turns into an array,
\* the stored diff takes the stored old value to the stored new one.
DiffReplays ==
    Diffed =>
        LET old == auditLog.oldValue
            new == auditLog.newValue
        IN  (\A p \in Paths :
                /\ Len(p) = MaxDepth => ~ Structured(At(old, p)) /\ ~ Structured(At(new, p))
                /\ Structured(At(old, p)) /\ Structured(At(new, p)) => At(old, p).kind = At(new, p).kind)
            => \A p \in Paths : Patched(old, auditLog.diff, p) = Content(new, p)

\* a value and all values in it
Parts(v) ==
    LET upTo[n \in 0..Longest] ==
            IF n = 0 THEN {v}
            ELSE upTo[n - 1] \cup UNION {{w.fields[k] : k \in DOMAIN w.fields} : w \in upTo[n - 1]}
    IN  upTo[Longest]

Clean(v) == \A w \in Parts(v) : \A k \in DOMAIN w.fields \cap Sensitive : w.fields[k] = Redacted

CleanChanges(changes) ==
    \A c \in changes :
        /\ Clean(c.old) /\ Clean(c.new)
        /\ (c.path # <<>> /\ Last(c.path) \in Sensitive) => {c.old, c.new} \subseteq {Redacted, Absent}

\* the columns of a row that hold what a sensitive field held
Exposing(row) ==
    {column \in DOMAIN row : IF column = "diff" THEN row.diff # None /\ ~ CleanChanges(row.diff)
                             ELSE ~ Clean(row[column])}

\* What a sensitive field of the two values held is in no part of the row, at
\* any depth, the diff included.  metadata is the exception: create() stores it
\* as it came, so it is up to its callers what it holds.
SensitiveOnlyInMetadata == auditLog # None => Exposing(auditLog) \subseteq {"metadata"}
============================================================================
