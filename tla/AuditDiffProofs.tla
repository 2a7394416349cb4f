-------------------------- MODULE AuditDiffProofs --------------------------
(***************************************************************************)
(* Theorems about what create() stores, for documents of any number and    *)
(* nesting, any keys and any depth of the comparison.                      *)
(*                                                                         *)
(* redactSensitiveFields, Along, Parts and the calls of deepDiff are       *)
(* recursive.  That such a function exists, and what it returns, follows   *)
(* by an induction stated over sets of numbers: the numbers for which what *)
(* is to be shown holds contain 0 and the successor of each.               *)
(***************************************************************************)
EXTENDS AuditDiff, FiniteSetTheorems, SequenceTheorems, TLAPS

\* A set with 0 and all successors has every number: otherwise adding one maps
\* its part below a missing number into itself, but nothing to 0.
LEMMA Induction ==
    ASSUME NEW S, 0 \in S, \A n \in S : n \in Nat => n + 1 \in S, NEW m \in Nat
    PROVE  m \in S
<1> SUFFICES ASSUME m \notin S PROVE FALSE
    OBVIOUS
<1> DEFINE below == S \cap (0..m)
           next == [n \in below |-> n + 1]
<1>1. IsFiniteSet(0..m)
    BY FS_Interval
<1>2. IsFiniteSet(below)
    BY <1>1, FS_Subset
<1>3. \A n \in below : n \in Nat /\ n + 1 \in below
    OBVIOUS
<1>4. next \in Injection(below, below)
    BY <1>3 DEF Injection, IsInjective
<1>5. next \in Surjection(below, below)
    BY <1>2, <1>4, FS_Injection
<1>6. 0 \in below
    OBVIOUS
<1> HIDE DEF next
<1>7. PICK n \in below : next[n] = 0
    BY <1>5, <1>6 DEF Surjection
<1> QED
    BY <1>3, <1>7 DEF next

----------------------------------------------------------------------------
\* Values on a path.

LEMMA AlongDef ==
    ASSUME NEW v, NEW path \in Seq(Names)
    PROVE  Along(v, path) = [n \in 0..Len(path) |->
                                IF n = 0 THEN v ELSE Child(Along(v, path)[n - 1], path[n])]
<1> DEFINE Value(g, n) == IF n = 0 THEN v ELSE Child(g[n - 1], path[n])
           Fits(g, m) == g = [n \in 0..m |-> Value(g, n)]
           Good == {m \in Nat : \E g : Fits(g, m)}
<1>1. 0 \in Good
    <2> DEFINE g == [n \in 0..0 |-> v]
    <2>1. Fits(g, 0)
        OBVIOUS
    <2> QED
        BY <2>1
<1>2. ASSUME NEW m \in Good PROVE m + 1 \in Good
    <2>1. PICK g : Fits(g, m)
        BY <1>2
    <2> DEFINE h == [n \in 0..(m + 1) |-> Value(g, n)]
    <2>2. \A n \in 0..m : h[n] = g[n]
        BY <2>1
    <2>3. \A n \in 0..(m + 1) : n # 0 => n - 1 \in 0..m
        OBVIOUS
    <2>4. \A n \in 0..(m + 1) : Value(h, n) = Value(g, n)
        <3> HIDE DEF h
        <3> QED
            BY <2>2, <2>3
    <2>5. Fits(h, m + 1)
        <3>1. h = [n \in 0..(m + 1) |-> Value(g, n)]
            OBVIOUS
        <3> HIDE DEF h, Value
        <3> QED
            BY <2>4, <3>1
    <2>6. \E f : Fits(f, m + 1)
        <3> HIDE DEF Fits
        <3> QED
            BY <2>5
    <2> QED
        BY <2>6
<1>3. Len(path) \in Good
    <2> HIDE DEF Good
    <2>1. \A n \in Good : n \in Nat => n + 1 \in Good
        BY <1>2
    <2> QED
        BY <1>1, <2>1, Induction
<1>4. \E g : Fits(g, Len(path))
    BY <1>3
<1>5. Along(v, path) = CHOOSE g : Fits(g, Len(path))
    BY DEF Along
<1>6. Fits(Along(v, path), Len(path))
    <2> HIDE DEF Fits
    <2> QED
        BY <1>4, <1>5
<1> QED
    BY <1>6

LEMMA AlongValues ==
    ASSUME NEW v, NEW path \in Seq(Names)
    PROVE  /\ Along(v, path)[0] = v
           /\ \A n \in 1..Len(path) : Along(v, path)[n] = Child(Along(v, path)[n - 1], path[n])
           /\ At(v, path) = Along(v, path)[Len(path)]
BY AlongDef DEF At

LEMMA AlongPrefix ==
    ASSUME NEW v, NEW p \in Seq(Names), NEW q \in Seq(Names), NEW m \in Nat,
           m <= Len(p), m <= Len(q), \A i \in 1..m : p[i] = q[i]
    PROVE  \A n \in 0..m : Along(v, p)[n] = Along(v, q)[n]
<1> DEFINE S == {n \in Nat : n <= m => Along(v, p)[n] = Along(v, q)[n]}
<1>1. 0 \in S
    BY AlongValues
<1>2. ASSUME NEW n \in S, n \in Nat PROVE n + 1 \in S
    <2> SUFFICES ASSUME n + 1 <= m PROVE Along(v, p)[n + 1] = Along(v, q)[n + 1]
        OBVIOUS
    <2>1. n + 1 \in 1..m /\ n + 1 \in 1..Len(p) /\ n + 1 \in 1..Len(q) /\ (n + 1) - 1 = n
        OBVIOUS
    <2>2. Along(v, p)[n] = Along(v, q)[n] /\ p[n + 1] = q[n + 1]
        BY <2>1
    <2>3. Along(v, p)[n + 1] = Child(Along(v, p)[n], p[n + 1])
        BY <2>1, AlongValues
    <2>4. Along(v, q)[n + 1] = Child(Along(v, q)[n], q[n + 1])
        BY <2>1, AlongValues
    <2> QED
        BY <2>2, <2>3, <2>4
<1>3. \A n \in Nat : n \in S
    <2> HIDE DEF S
    <2> QED
        BY <1>1, <1>2, Induction
<1> QED
    BY <1>3

\* The value at the first n keys of a path is the n-th along it.
LEMMA AtFirst ==
    ASSUME NEW v, NEW p \in Seq(Names), NEW n \in 0..Len(p)
    PROVE  /\ SubSeq(p, 1, n) \in Seq(Names) /\ Len(SubSeq(p, 1, n)) = n
           /\ \A i \in 1..n : SubSeq(p, 1, n)[i] = p[i]
           /\ \A i \in 0..n : Along(v, SubSeq(p, 1, n))[i] = Along(v, p)[i]
           /\ At(v, SubSeq(p, 1, n)) = Along(v, p)[n]
<1> DEFINE q == SubSeq(p, 1, n)
<1>1. q \in Seq(Names) /\ Len(q) = n /\ \A i \in 1..n : q[i] = p[i]
    OBVIOUS
<1> HIDE DEF q
<1>2. \A i \in 0..n : Along(v, q)[i] = Along(v, p)[i]
    BY <1>1, AlongPrefix
<1>3. At(v, q) = Along(v, p)[n]
    BY <1>1, <1>2, AlongValues
<1> QED
    BY <1>1, <1>2, <1>3 DEF q

LEMMA AtEmpty ==
    ASSUME NEW v
    PROVE  <<>> \in Seq(Names) /\ Len(<<>>) = 0 /\ At(v, <<>>) = v
<1>1. <<>> \in Seq(Names) /\ Len(<<>>) = 0
    OBVIOUS
<1>2. At(v, <<>>) = Along(v, <<>>)[0] /\ Along(v, <<>>)[0] = v
    BY <1>1, AlongValues
<1> QED
    BY <1>1, <1>2

LEMMA AtAppend ==
    ASSUME NEW v, NEW p \in Seq(Names), NEW k \in Names
    PROVE  /\ Append(p, k) \in Seq(Names) /\ Len(Append(p, k)) = Len(p) + 1
           /\ \A i \in 0..Len(p) : Along(v, Append(p, k))[i] = Along(v, p)[i]
           /\ At(v, Append(p, k)) = Child(At(v, p), k)
<1> DEFINE q == Append(p, k)
<1>1. /\ q \in Seq(Names) /\ Len(q) = Len(p) + 1
      /\ \A i \in 1..Len(p) : q[i] = p[i]
      /\ q[Len(p) + 1] = k
    OBVIOUS
<1> HIDE DEF q
<1>2. \A i \in 0..Len(p) : Along(v, q)[i] = Along(v, p)[i]
    BY <1>1, AlongPrefix
<1>3. Len(p) + 1 \in 1..Len(q) /\ (Len(p) + 1) - 1 = Len(p) /\ Len(p) \in 0..Len(p)
    BY <1>1
<1>4. Along(v, q)[Len(p) + 1] = Child(Along(v, q)[Len(p)], k)
    BY <1>1, <1>3, AlongValues
<1>5. At(v, q) = Child(At(v, p), k)
    BY <1>1, <1>2, <1>3, <1>4, AlongValues
<1> QED
    BY <1>1, <1>2, <1>5 DEF q

\* Further down a path is further down from the value reached.
LEMMA AtRest ==
    ASSUME NEW v, NEW p \in Seq(Names), NEW n \in 0..Len(p)
    PROVE  At(Along(v, p)[n], SubSeq(p, n + 1, Len(p))) = At(v, p)
<1> DEFINE w == Along(v, p)[n]
           r == SubSeq(p, n + 1, Len(p))
           S == {i \in Nat : i <= Len(p) - n => Along(w, r)[i] = Along(v, p)[n + i]}
<1>1. r \in Seq(Names) /\ Len(r) = Len(p) - n /\ \A i \in 1..(Len(p) - n) : r[i] = p[n + i]
    <2>1. CASE n = Len(p)
        BY <2>1
    <2>2. CASE n # Len(p)
        BY <2>2
    <2> QED
        BY <2>1, <2>2
<1> HIDE DEF r
<1>2. 0 \in S
    BY <1>1, AlongValues
<1>3. ASSUME NEW i \in S, i \in Nat PROVE i + 1 \in S
    <2> SUFFICES ASSUME i + 1 <= Len(p) - n PROVE Along(w, r)[i + 1] = Along(v, p)[n + (i + 1)]
        OBVIOUS
    <2>1. /\ i + 1 \in 1..Len(r) /\ (i + 1) - 1 = i /\ i + 1 \in 1..(Len(p) - n)
          /\ n + (i + 1) \in 1..Len(p) /\ (n + (i + 1)) - 1 = n + i
        BY <1>1
    <2>2. Along(w, r)[i] = Along(v, p)[n + i] /\ r[i + 1] = p[n + (i + 1)]
        BY <1>1, <2>1
    <2> HIDE DEF w
    <2>3. Along(w, r)[i + 1] = Child(Along(w, r)[i], r[i + 1])
        BY <1>1, <2>1, AlongValues
    <2>4. Along(v, p)[n + (i + 1)] = Child(Along(v, p)[n + i], p[n + (i + 1)])
        BY <2>1, AlongValues
    <2> QED
        BY <2>2, <2>3, <2>4
<1>4. \A i \in Nat : i \in S
    <2> HIDE DEF S
    <2> QED
        BY <1>2, <1>3, Induction
<1>5. Len(r) \in Nat /\ Len(r) <= Len(p) - n /\ n + Len(r) = Len(p)
    BY <1>1
<1>6. Along(w, r)[Len(r)] = Along(v, p)[Len(p)]
    BY <1>4, <1>5
<1> HIDE DEF w
<1>7. At(w, r) = At(v, p)
    BY <1>1, <1>6, AlongValues
<1> QED
    BY <1>7 DEF w, r

----------------------------------------------------------------------------
\* Redaction and what is stored.

LEMMA RedactDef ==
    \A v \in Documents : redactSensitiveFields[v] = redact(v, redactSensitiveFields)
<1> DEFINE Low(n) == {v \in Documents : Height[v] < n}
           Fits(g, n) == g = [v \in Low(n) |-> redact(v, g)]
           Good == {n \in Nat : \E g : Fits(g, n)}
<1>0. /\ Longest \in Nat /\ \A v \in Documents : Height[v] \in 0..Longest
      /\ \A v \in Documents : Structured(v) =>
            \A k \in DOMAIN v.fields : v.fields[k] \in Documents /\ Height[v.fields[k]] < Height[v]
    <2>1. Longest \in Nat /\ Height \in [Documents -> 0..Longest]
        BY DocumentsAssumption
    <2>2. ASSUME NEW v \in Documents, Structured(v), NEW k \in DOMAIN v.fields
          PROVE  v.fields[k] \in Documents /\ Height[v.fields[k]] < Height[v]
        BY <2>2, DocumentsAssumption DEF Structured, Scalar, Null, Node
    <2> QED
        BY <2>1, <2>2
<1>1. 0 \in Good
    <2>1. Low(0) = {}
        BY <1>0
    <2>2. Fits([v \in {} |-> v], 0)
        BY <2>1
    <2> QED
        BY <2>2
<1>2. ASSUME NEW n \in Good PROVE n + 1 \in Good
    <2>1. PICK g : Fits(g, n)
        BY <1>2
    <2> DEFINE h == [v \in Low(n + 1) |-> redact(v, g)]
    <2>2. \A v \in Low(n) : v \in Low(n + 1) /\ h[v] = g[v]
        <3>1. \A v \in Low(n) : v \in Low(n + 1)
            BY <1>0
        <3>2. \A v \in Low(n) : g[v] = redact(v, g)
            <4> HIDE DEF Low
            <4> QED
                BY <2>1
        <3> HIDE DEF Low
        <3> QED
            BY <3>1, <3>2
    <2>3. ASSUME NEW v \in Low(n + 1) PROVE redact(v, h) = redact(v, g)
        <3>1. CASE ~ Structured(v)
            BY <3>1 DEF redact
        <3>2. CASE Structured(v)
            <4>1. \A k \in DOMAIN v.fields : v.fields[k] \in Low(n)
                <5> HIDE DEF h
                <5> QED
                    BY <1>0, <3>2
            <4>2. \A k \in DOMAIN v.fields : h[v.fields[k]] = g[v.fields[k]]
                <5> HIDE DEF h, Low
                <5> QED
                    BY <2>2, <4>1
            <4> HIDE DEF h, Low
            <4> QED
                BY <3>2, <4>2 DEF redact
        <3> QED
            BY <3>1, <3>2
    <2>4. Fits(h, n + 1)
        <3>1. h = [v \in Low(n + 1) |-> redact(v, g)]
            OBVIOUS
        <3> HIDE DEF h, Low
        <3> QED
            BY <2>3, <3>1
    <2>5. \E f : Fits(f, n + 1)
        <3> HIDE DEF Fits
        <3> QED
            BY <2>4
    <2>6. n + 1 \in Nat
        OBVIOUS
    <2> QED
        <3> HIDE DEF Fits
        <3> QED
            BY <2>5, <2>6
<1>3. Longest + 1 \in Good
    <2> HIDE DEF Good
    <2>1. \A n \in Good : n \in Nat => n + 1 \in Good
        BY <1>2
    <2> QED
        BY <1>0, <1>1, <2>1, Induction
<1>4. PICK g : Fits(g, Longest + 1)
    BY <1>3
<1>5. Low(Longest + 1) = Documents
    BY <1>0
<1>6. g = [v \in Documents |-> redact(v, g)]
    <2> HIDE DEF Low
    <2> QED
        BY <1>4, <1>5
<1> DEFINE R(f) == f = [v \in Documents |-> redact(v, f)]
<1>7. R(g)
    BY <1>6
<1>8. redactSensitiveFields = CHOOSE f : R(f)
    BY DEF redactSensitiveFields
<1>9. R(redactSensitiveFields)
    <2> HIDE DEF R
    <2> QED
        BY <1>7, <1>8
<1> QED
    BY <1>9

\* All that a stored value can hold, and what is not there.
Stored ==
    {redactSensitiveFields[v] : v \in Documents} \cup {Truncated(d) : d \in Digests}
    \cup {Scalar(d) : d \in Digests} \cup {Null, Absent, Redacted}

\* the fields of a value are stored values, the sensitive ones redacted
Kept(w) ==
    /\ DOMAIN w.fields \subseteq Names
    /\ \A k \in DOMAIN w.fields : w.fields[k] \in Stored /\ w.fields[k].kind # "undefined"
    /\ \A k \in DOMAIN w.fields \cap Sensitive : w.fields[k] = Redacted

Shape(w) ==
    /\ Structured(w) => w.atom = None /\ w.kind # "undefined"
    /\ ~ Structured(w) => DOMAIN w.fields = {}
    /\ TypeofObject(w) /\ ~ Structured(w) => w = Null
    /\ w = Absent <=> w.kind = "undefined"

LEMMA StoredValue ==
    ASSUME NEW w \in Stored
    PROVE  Kept(w) /\ Shape(w)
<1>1. CASE w \in {Null, Absent, Redacted} \cup {Scalar(d) : d \in Digests}
    <2>1. w.fields = NoFields /\ w.kind \in {"null", "undefined", "scalar"}
        BY <1>1 DEF Null, Absent, Redacted, Scalar
    <2>2. DOMAIN w.fields = {}
        BY <2>1 DEF NoFields
    <2>3. Kept(w)
        BY <2>2 DEF Kept
    <2>4. Shape(w)
        BY <1>1, <2>2 DEF Shape, Structured, TypeofObject, Null, Absent, Redacted, Scalar
    <2> QED
        BY <2>3, <2>4
<1>2. CASE w \in {Truncated(d) : d \in Digests}
    <2>1. PICK d \in Digests : w = Truncated(d)
        BY <1>2
    <2>2. /\ w.kind = "object" /\ w.atom = None /\ DOMAIN w.fields = {"_truncated"}
          /\ w.fields["_truncated"] = Scalar(d)
        BY <2>1 DEF Truncated, Node
    <2>3. Scalar(d) \in Stored /\ Scalar(d).kind = "scalar"
        BY DEF Stored, Scalar
    <2>4. Kept(w)
        BY <2>2, <2>3, KeysAssumption DEF Kept, Names
    <2>5. Shape(w)
        BY <2>2 DEF Shape, Structured, TypeofObject, Absent
    <2> QED
        BY <2>4, <2>5
<1>3. CASE w \in {redactSensitiveFields[v] : v \in Documents}
    <2>1. PICK v \in Documents : w = redactSensitiveFields[v]
        BY <1>3
    <2>2. w = redact(v, redactSensitiveFields)
        BY <2>1, RedactDef
    <2>3. CASE ~ Structured(v)
        <3>1. w = v
            BY <2>2, <2>3 DEF redact
        <3>2. w = Scalar(w.atom) \/ w = Null
            BY <2>3, <3>1, DocumentsAssumption DEF Structured, Node
        <3>3. w.fields = NoFields /\ w.kind \in {"null", "scalar"}
            BY <3>2 DEF Null, Scalar
        <3>4. DOMAIN w.fields = {}
            BY <3>3 DEF NoFields
        <3>5. Kept(w)
            BY <3>4 DEF Kept
        <3>6. Shape(w)
            BY <3>2, <3>3, <3>4 DEF Shape, Structured, TypeofObject, Null, Absent, Scalar
        <3> QED
            BY <3>5, <3>6
    <2>4. CASE Structured(v)
        <3>1. /\ w.kind = v.kind /\ w.atom = None /\ DOMAIN w.fields = DOMAIN v.fields
              /\ \A k \in DOMAIN v.fields :
                    w.fields[k] = IF v.kind = "object" /\ k \in Sensitive THEN Redacted
                                  ELSE redactSensitiveFields[v.fields[k]]
            BY <2>2, <2>4 DEF redact, Node
        <3>2. /\ v.kind = "object" => DOMAIN v.fields \subseteq Keys
              /\ v.kind = "array" => DOMAIN v.fields \subseteq Indices
              /\ \A k \in DOMAIN v.fields : v.fields[k] \in Documents
            BY <2>4, DocumentsAssumption DEF Structured, Scalar, Null, Node
        <3>3. v.kind \in {"object", "array"}
            BY <2>4 DEF Structured
        <3>4. Redacted \in Stored /\ Redacted.kind # "undefined"
            BY DEF Stored, Redacted, Scalar
        <3>5. \A d \in Documents : redactSensitiveFields[d] \in Stored /\ redactSensitiveFields[d].kind # "undefined"
            <4> TAKE d \in Documents
            <4>1. redactSensitiveFields[d] = redact(d, redactSensitiveFields)
                BY RedactDef
            <4>2. redact(d, redactSensitiveFields).kind = d.kind
                BY DEF redact, Node
            <4>3. d.kind # "undefined"
                BY DocumentsAssumption DEF Scalar, Null, Node
            <4>4. redactSensitiveFields[d].kind # "undefined"
                BY <4>1, <4>2, <4>3
            <4> QED
                BY <4>4 DEF Stored
        <3>6. \A k \in DOMAIN w.fields : w.fields[k] \in Stored /\ w.fields[k].kind # "undefined"
            BY <3>1, <3>2, <3>4, <3>5
        <3>7. \A k \in DOMAIN w.fields \cap Sensitive : w.fields[k] = Redacted
            BY <3>1, <3>2, <3>3, KeysAssumption
        <3>8. Kept(w)
            BY <3>1, <3>2, <3>3, <3>6, <3>7 DEF Kept, Names
        <3>9. Shape(w)
            BY <3>1, <3>3 DEF Shape, Structured, TypeofObject, Absent
        <3> QED
            BY <3>8, <3>9
    <2> QED
        BY <2>3, <2>4
<1> QED
    BY <1>1, <1>2, <1>3 DEF Stored

LEMMA SanitizedStored ==
    ASSUME NEW p \in Payloads
    PROVE  sanitizePayload(p) \in Stored
<1>1. CASE p.value \in Documents /\ p.value.kind = "scalar"
    <2>1. redactSensitiveFields[p.value] = redact(p.value, redactSensitiveFields)
        BY <1>1, RedactDef
    <2>2. redactSensitiveFields[p.value] = p.value
        BY <1>1, <2>1 DEF redact, Structured
    <2> QED
        BY <1>1, <2>2 DEF sanitizePayload, Payloads, Stored
<1>2. CASE p.value = Absent
    <2>1. Falsy(p.value)
        BY <1>2 DEF Falsy
    <2>2. sanitizePayload(p) = p.value
        BY <2>1 DEF sanitizePayload
    <2> QED
        BY <1>2, <2>2 DEF Stored
<1>3. CASE p.value \in Documents /\ p.value.kind # "scalar"
    BY <1>3 DEF sanitizePayload, Falsy, Payloads, Stored
<1> QED
    BY <1>1, <1>2, <1>3 DEF Payloads

LEMMA StoredParts ==
    ASSUME NEW w \in Stored, NEW k \in DOMAIN w.fields
    PROVE  w.fields[k] \in Stored /\ w.fields[k] # Absent /\ k \in Names
BY StoredValue DEF Kept, Shape

LEMMA AlongStored ==
    ASSUME NEW v \in Stored, NEW p \in Seq(Names)
    PROVE  (\A n \in 0..Len(p) : Along(v, p)[n] \in Stored) /\ At(v, p) \in Stored
<1> DEFINE S == {n \in Nat : n <= Len(p) => Along(v, p)[n] \in Stored}
<1>1. 0 \in S
    BY AlongValues
<1>2. ASSUME NEW n \in S, n \in Nat PROVE n + 1 \in S
    <2> SUFFICES ASSUME n + 1 <= Len(p) PROVE Along(v, p)[n + 1] \in Stored
        OBVIOUS
    <2>1. n + 1 \in 1..Len(p) /\ (n + 1) - 1 = n
        OBVIOUS
    <2>2. Along(v, p)[n + 1] = Child(Along(v, p)[n], p[n + 1])
        BY <2>1, AlongValues
    <2>3. Along(v, p)[n] \in Stored
        BY <2>1
    <2>4. Absent \in Stored
        BY DEF Stored
    <2> QED
        BY <2>2, <2>3, <2>4, StoredParts DEF Child
<1>3. \A n \in Nat : n \in S
    <2> HIDE DEF S
    <2> QED
        BY <1>1, <1>2, Induction
<1>4. \A n \in 0..Len(p) : Along(v, p)[n] \in Stored
    BY <1>3
<1>5. Len(p) \in 0..Len(p)
    OBVIOUS
<1> QED
    BY <1>4, <1>5, AlongValues

\* The parts of a value lie in every set that has it and the fields of all it has.
LEMMA PartsWithin ==
    ASSUME NEW v, NEW S, v \in S,
           \A w \in S : \A k \in DOMAIN w.fields : w.fields[k] \in S
    PROVE  Parts(v) \subseteq S
<1> DEFINE Below(X) == X \cup UNION {{w.fields[k] : k \in DOMAIN w.fields} : w \in X}
           Value(g, n) == IF n = 0 THEN {v} ELSE Below(g[n - 1])
           Fits(g, m) == g = [n \in 0..m |-> Value(g, n)]
           Good == {m \in Nat : \E g : Fits(g, m)}
<1>1. 0 \in Good
    <2> DEFINE g == [n \in 0..0 |-> {v}]
    <2>1. Fits(g, 0)
        OBVIOUS
    <2> QED
        BY <2>1
<1>2. ASSUME NEW m \in Good PROVE m + 1 \in Good
    <2>1. PICK g : Fits(g, m)
        BY <1>2
    <2> DEFINE h == [n \in 0..(m + 1) |-> Value(g, n)]
    <2>2. \A n \in 0..m : h[n] = g[n]
        <3>1. \A n \in 0..m : g[n] = Value(g, n)
            <4> HIDE DEF Value
            <4> QED
                BY <2>1
        <3>2. \A n \in 0..m : n \in 0..(m + 1)
            OBVIOUS
        <3> HIDE DEF Value
        <3> QED
            BY <3>1, <3>2
    <2>3. \A n \in 0..(m + 1) : n # 0 => n - 1 \in 0..m
        OBVIOUS
    <2>4. \A n \in 0..(m + 1) : Value(h, n) = Value(g, n)
        <3> HIDE DEF h, Below
        <3> QED
            BY <2>2, <2>3
    <2>5. Fits(h, m + 1)
        <3>1. h = [n \in 0..(m + 1) |-> Value(g, n)]
            OBVIOUS
        <3> HIDE DEF h, Value
        <3> QED
            BY <2>4, <3>1
    <2>6. m + 1 \in Nat /\ \E f : Fits(f, m + 1)
        <3> HIDE DEF Fits
        <3> QED
            BY <2>5
    <2> QED
        <3> HIDE DEF Fits
        <3> QED
            BY <2>6
<1>3. Longest \in Nat
    BY DocumentsAssumption
<1>4. Longest \in Good
    <2> HIDE DEF Good
    <2>1. \A n \in Good : n \in Nat => n + 1 \in Good
        BY <1>2
    <2> QED
        BY <1>1, <1>3, <2>1, Induction
<1>5. \E g : Fits(g, Longest)
    BY <1>4
<1> DEFINE upTo == CHOOSE g : Fits(g, Longest)
<1>6. Parts(v) = upTo[Longest]
    BY DEF Parts
<1>7. Fits(upTo, Longest)
    <2> HIDE DEF Fits
    <2> QED
        BY <1>5
<1> HIDE DEF upTo
<1> DEFINE T == {n \in Nat : n <= Longest => upTo[n] \subseteq S}
<1>8. \A n \in 0..Longest : upTo[n] = Value(upTo, n)
    <2> HIDE DEF Value
    <2> QED
        BY <1>7
<1>9. 0 \in T
    <2>1. 0 \in 0..Longest
        BY <1>3
    <2>2. upTo[0] = {v}
        <3> HIDE DEF Below
        <3> QED
            BY <1>8, <2>1
    <2> QED
        BY <2>2
<1>10. ASSUME NEW n \in T, n \in Nat PROVE n + 1 \in T
    <2> SUFFICES ASSUME n + 1 <= Longest PROVE upTo[n + 1] \subseteq S
        OBVIOUS
    <2>1. n + 1 \in 0..Longest /\ n + 1 # 0 /\ (n + 1) - 1 = n /\ n <= Longest
        BY <1>3
    <2>2. upTo[n + 1] = Below(upTo[n])
        <3> HIDE DEF Below
        <3> QED
            BY <1>8, <2>1
    <2>3. upTo[n] \subseteq S
        BY <2>1
    <2> QED
        BY <2>2, <2>3
<1>11. \A n \in Nat : n \in T
    <2> HIDE DEF T
    <2> QED
        BY <1>9, <1>10, Induction
<1> QED
    BY <1>3, <1>6, <1>11

LEMMA StoredClean ==
    ASSUME NEW v \in Stored
    PROVE  Clean(v)
<1>1. Parts(v) \subseteq Stored
    BY PartsWithin, StoredParts
<1> QED
    BY <1>1, StoredValue DEF Clean, Kept

----------------------------------------------------------------------------
\* The calls of deepDiff.

LEMMA DeepDiffSame ==
    ASSUME NEW a \in Stored, NEW b \in Stored, NEW q \in Seq(Names), NEW g, NEW h,
           Len(q) < MaxDepth => \A k \in Names : g[Append(q, k)] = h[Append(q, k)]
    PROVE  deepDiff(a, b, q, g) = deepDiff(a, b, q, h)
<1>1. CASE Len(q) >= MaxDepth
    BY <1>1 DEF deepDiff
<1>2. CASE ~ Comparable(a, b)
    BY <1>2 DEF deepDiff
<1>3. CASE ~ (Len(q) >= MaxDepth) /\ Comparable(a, b)
    <2>1. \A k \in AllKeys(a, b) : k \in Names
        BY StoredParts DEF AllKeys
    <2>2. Len(q) < MaxDepth
        BY <1>3, KeysAssumption
    <2>3. \A k \in AllKeys(a, b) : ForKey(a, b, q, k, g) = ForKey(a, b, q, k, h)
        BY <2>1, <2>2 DEF ForKey
    <2>4. {ForKey(a, b, q, key, g) : key \in AllKeys(a, b)} = {ForKey(a, b, q, key, h) : key \in AllKeys(a, b)}
        BY <2>3
    <2> QED
        BY <1>3, <2>4 DEF deepDiff
<1> QED
    BY <1>1, <1>2, <1>3

\* D holds what the call for each path records.
Calls(D, old, new) ==
    \A q \in Seq(Names) : D[q] = deepDiff(At(old, q), At(new, q), q, D)

LEMMA ComputeDef ==
    ASSUME NEW old \in Stored, NEW new \in Stored
    PROVE  \E D : Calls(D, old, new) /\ computeJsonDiff(old, new) = D[<<>>]
<1> DEFINE Call(q, g) == deepDiff(At(old, q), At(new, q), q, g)
           Low(n) == {q \in Seq(Names) : Len(q) + n >= MaxDepth}
           Fits(g, n) == g = [q \in Low(n) |-> Call(q, g)]
           Good == {n \in Nat : \E g : Fits(g, n)}
<1>0. MaxDepth \in Nat /\ \A q \in Seq(Names) : Len(q) \in Nat
    BY KeysAssumption
<1>1. 0 \in Good
    <2> DEFINE g == [q \in Low(0) |-> {}]
    <2>1. \A q \in Low(0) : Call(q, g) = {}
        BY <1>0 DEF deepDiff
    <2>2. Fits(g, 0)
        <3>1. g = [q \in Low(0) |-> {}]
            OBVIOUS
        <3> HIDE DEF g, Low, Call
        <3> QED
            BY <2>1, <3>1
    <2>3. \E f : Fits(f, 0)
        <3> HIDE DEF Fits
        <3> QED
            BY <2>2
    <2> HIDE DEF Fits
    <2> QED
        BY <2>3
<1>2. ASSUME NEW n \in Good PROVE n + 1 \in Good
    <2>0. n \in Nat /\ n + 1 \in Nat
        OBVIOUS
    <2>1. PICK g : Fits(g, n)
        BY <1>2
    <2> DEFINE h == [q \in Low(n + 1) |-> Call(q, g)]
    <2>2. \A q \in Low(n) : q \in Low(n + 1) /\ h[q] = g[q]
        <3>1. \A q \in Low(n) : q \in Low(n + 1)
            BY <1>0, <2>0
        <3>2. \A q \in Low(n) : g[q] = Call(q, g)
            <4> HIDE DEF Low, Call
            <4> QED
                BY <2>1
        <3> HIDE DEF Low, Call
        <3> QED
            BY <3>1, <3>2
    <2>3. ASSUME NEW q \in Low(n + 1) PROVE Call(q, h) = Call(q, g)
        <3>1. q \in Seq(Names)
            OBVIOUS
        <3>2. \A k \in Names : Append(q, k) \in Low(n)
            <4> TAKE k \in Names
            <4>1. Append(q, k) \in Seq(Names) /\ Len(Append(q, k)) = Len(q) + 1
                BY <3>1
            <4>2. Len(q) + (n + 1) >= MaxDepth
                OBVIOUS
            <4> QED
                BY <1>0, <2>0, <3>1, <4>1, <4>2
        <3>3. \A k \in Names : h[Append(q, k)] = g[Append(q, k)]
            <4> HIDE DEF h, Low
            <4> QED
                BY <2>2, <3>2
        <3>4. At(old, q) \in Stored /\ At(new, q) \in Stored
            BY <3>1, AlongStored
        <3> HIDE DEF h, Low
        <3> QED
            BY <3>1, <3>3, <3>4, DeepDiffSame
    <2>4. Fits(h, n + 1)
        <3>1. h = [q \in Low(n + 1) |-> Call(q, g)]
            OBVIOUS
        <3> HIDE DEF h, Low, Call
        <3> QED
            BY <2>3, <3>1
    <2>5. \E f : Fits(f, n + 1)
        <3> HIDE DEF Fits
        <3> QED
            BY <2>4
    <2> HIDE DEF Fits
    <2> QED
        BY <2>0, <2>5
<1>3. MaxDepth \in Good
    <2> HIDE DEF Good
    <2>1. \A n \in Good : n \in Nat => n + 1 \in Good
        BY <1>2
    <2> QED
        BY <1>0, <1>1, <2>1, Induction
<1>4. PICK g : Fits(g, MaxDepth)
    BY <1>3
<1>5. Low(MaxDepth) = Seq(Names)
    BY <1>0
<1> DEFINE R(f) == f = [q \in Seq(Names) |-> Call(q, f)]
<1>6. R(g)
    <2> HIDE DEF Low, Call
    <2> QED
        BY <1>4, <1>5
<1> DEFINE D == CHOOSE f : R(f)
<1>7. computeJsonDiff(old, new) = D[<<>>]
    BY DEF computeJsonDiff
<1>8. R(D)
    <2> HIDE DEF R
    <2> QED
        BY <1>6
<1> HIDE DEF D
<1>9. Calls(D, old, new)
    <2>1. \A q \in Seq(Names) : D[q] = Call(q, D)
        <3> HIDE DEF Call
        <3> QED
            BY <1>8
    <2> QED
        BY <2>1 DEF Calls
<1> QED
    BY <1>7, <1>9

----------------------------------------------------------------------------
\* What the calls record.

\* A path that deepDiff is called for.
Called(old, new, q) ==
    /\ q \in Seq(Names) /\ Len(q) <= MaxDepth
    /\ \A i \in 0..(Len(q) - 1) : Structured(Along(old, q)[i]) /\ Structured(Along(new, q)[i])

Exact(old, new, c) ==
    /\ c.path \in Seq(Names) /\ Len(c.path) <= MaxDepth
    /\ FirstDifference(old, new, c.path) /\ Reached(old, new, c.path)
    /\ c.old = At(old, c.path) /\ c.new = At(new, c.path)
    /\ \/ c.type = "add" /\ c.old = Absent
       \/ c.type = "remove" /\ c.new = Absent
       \/ c.type = "edit" /\ c.old # c.new

LEMMA ChangeExact ==
    ASSUME NEW old, NEW new, NEW p, Called(old, new, p), Reached(old, new, p),
           At(old, p) # At(new, p), ~ (Structured(At(old, p)) /\ Structured(At(new, p))),
           NEW type,
           \/ type = "add" /\ At(old, p) = Absent
           \/ type = "remove" /\ At(new, p) = Absent
           \/ type = "edit"
    PROVE  Exact(old, new, Change(type, p, At(old, p), At(new, p)))
<1> DEFINE c == Change(type, p, At(old, p), At(new, p))
<1>1. c.type = type /\ c.path = p /\ c.old = At(old, p) /\ c.new = At(new, p)
    BY DEF Change
<1>2. p \in Seq(Names) /\ Len(p) <= MaxDepth
    BY DEF Called
<1>3. FirstDifference(old, new, p)
    BY <1>2, AlongValues DEF FirstDifference, Called
<1> HIDE DEF c
<1>4. Exact(old, new, c)
    BY <1>1, <1>2, <1>3 DEF Exact
<1> QED
    BY <1>4 DEF c

\* Below a call that compares keys, the path to a key is one deeper.
LEMMA CalledBelow ==
    ASSUME NEW old, NEW new, NEW q, Called(old, new, q), Len(q) < MaxDepth,
           Comparable(At(old, q), At(new, q)), NEW k \in Names
    PROVE  /\ Called(old, new, Append(q, k)) /\ Len(Append(q, k)) = Len(q) + 1
           /\ At(old, Append(q, k)) = Child(At(old, q), k)
           /\ At(new, Append(q, k)) = Child(At(new, q), k)
<1> DEFINE p == Append(q, k)
<1>1. q \in Seq(Names)
    BY DEF Called
<1>2. /\ p \in Seq(Names) /\ Len(p) = Len(q) + 1
      /\ \A i \in 0..Len(q) : Along(old, p)[i] = Along(old, q)[i] /\ Along(new, p)[i] = Along(new, q)[i]
      /\ At(old, p) = Child(At(old, q), k) /\ At(new, p) = Child(At(new, q), k)
    BY <1>1, AtAppend
<1> HIDE DEF p
<1>3. Structured(Along(old, q)[Len(q)]) /\ Structured(Along(new, q)[Len(q)])
    BY <1>1, AlongValues DEF Comparable
<1>4. Len(q) \in Nat /\ MaxDepth \in Nat
    BY <1>1, KeysAssumption
<1>5. \A i \in 0..(Len(p) - 1) : Structured(Along(old, p)[i]) /\ Structured(Along(new, p)[i])
    <2> TAKE i \in 0..(Len(p) - 1)
    <2>1. i \in 0..Len(q)
        BY <1>2, <1>4
    <2>2. CASE i = Len(q)
        BY <1>2, <1>3, <2>1, <2>2
    <2>3. CASE i # Len(q)
        <3>1. i \in 0..(Len(q) - 1)
            BY <1>4, <2>1, <2>3
        <3>2. Structured(Along(old, q)[i]) /\ Structured(Along(new, q)[i])
            BY <3>1 DEF Called
        <3> QED
            BY <1>2, <2>1, <3>2
    <2> QED
        BY <2>2, <2>3
<1>6. Called(old, new, p)
    BY <1>2, <1>4, <1>5 DEF Called
<1> QED
    BY <1>2, <1>6 DEF p

LEMMA Sound ==
    ASSUME NEW old \in Stored, NEW new \in Stored, NEW D, Calls(D, old, new)
    PROVE  \A c \in D[<<>>] : Exact(old, new, c)
<1> DEFINE Holds(q) == \A c \in D[q] : Exact(old, new, c)
           S == {n \in Nat : \A q \in Seq(Names) :
                    Called(old, new, q) /\ Len(q) + n >= MaxDepth => Holds(q)}
<1>0. MaxDepth \in Nat /\ MaxDepth > 0 /\ \A q \in Seq(Names) : Len(q) \in Nat
    BY KeysAssumption
<1>1. 0 \in S
    <2> SUFFICES ASSUME NEW q \in Seq(Names), Len(q) + 0 >= MaxDepth PROVE D[q] = {}
        OBVIOUS
    <2>1. Len(q) >= MaxDepth
        BY <1>0
    <2> QED
        BY <2>1 DEF Calls, deepDiff
<1>2. ASSUME NEW n \in S, n \in Nat PROVE n + 1 \in S
    <2> SUFFICES ASSUME NEW q \in Seq(Names), Called(old, new, q), Len(q) + (n + 1) >= MaxDepth,
                        NEW c \in D[q]
                 PROVE  Exact(old, new, c)
        OBVIOUS
    <2>1. At(old, q) \in Stored /\ At(new, q) \in Stored
        BY AlongStored
    <2>2. D[q] = deepDiff(At(old, q), At(new, q), q, D)
        BY DEF Calls
    <2>3. ~ (Len(q) >= MaxDepth)
        BY <2>2 DEF deepDiff
    <2>4. Len(q) < MaxDepth /\ Len(q) \in Nat
        BY <1>0, <2>3
    <2>5. Reached(old, new, q)
        BY <2>4 DEF Reached
    <2>6. CASE ~ Comparable(At(old, q), At(new, q))
        <3>1. c \in Edit(q, At(old, q), At(new, q))
            BY <2>2, <2>3, <2>6 DEF deepDiff
        <3>2. c = Change("edit", q, At(old, q), At(new, q)) /\ At(old, q) # At(new, q)
            BY <3>1 DEF Edit
        <3>3. ~ (Structured(At(old, q)) /\ Structured(At(new, q)))
            BY <2>6 DEF Comparable
        <3> QED
            BY <2>5, <3>2, <3>3, ChangeExact
    <2>7. CASE Comparable(At(old, q), At(new, q))
        <3>1. PICK k \in AllKeys(At(old, q), At(new, q)) : c \in ForKey(At(old, q), At(new, q), q, k, D)
            BY <2>2, <2>3, <2>7 DEF deepDiff
        <3> DEFINE a == At(old, q)
                   b == At(new, q)
                   p == Append(q, k)
        <3>2. k \in Names
            BY <2>1, <3>1, StoredParts DEF AllKeys
        <3>3. /\ Called(old, new, p) /\ Len(p) = Len(q) + 1
              /\ At(old, p) = Child(a, k) /\ At(new, p) = Child(b, k)
            BY <2>4, <2>7, <3>2, CalledBelow
        <3>4. k \in DOMAIN a.fields => Child(a, k) = a.fields[k] /\ Child(a, k) \in Stored /\ Child(a, k) # Absent
            BY <2>1, StoredParts DEF Child
        <3>5. k \in DOMAIN b.fields => Child(b, k) = b.fields[k] /\ Child(b, k) \in Stored /\ Child(b, k) # Absent
            BY <2>1, StoredParts DEF Child
        <3>6. ~ TypeofObject(Absent) /\ ~ Structured(Absent) /\ \A v : Structured(v) => TypeofObject(v)
            BY DEF TypeofObject, Structured, Absent
        <3>7. c \in ForKey(a, b, q, k, D)
            BY <3>1
        <3>8. k \in DOMAIN a.fields \/ k \in DOMAIN b.fields
            BY <3>1 DEF AllKeys
        <3> HIDE DEF a, b, p
        <3>9. CASE k \notin DOMAIN a.fields
            <4>1. c = Change("add", p, Absent, b.fields[k])
                BY <3>7, <3>8, <3>9 DEF ForKey, p
            <4>2. At(old, p) = Absent /\ At(new, p) = b.fields[k] /\ At(new, p) # Absent
                BY <3>3, <3>5, <3>8, <3>9 DEF Child
            <4>3. Reached(old, new, p)
                BY <3>6, <4>2 DEF Reached
            <4>4. Exact(old, new, Change("add", p, At(old, p), At(new, p)))
                BY <3>3, <3>6, <4>2, <4>3, ChangeExact
            <4> QED
                BY <4>1, <4>2, <4>4
        <3>10. CASE k \in DOMAIN a.fields /\ k \notin DOMAIN b.fields
            <4>1. c = Change("remove", p, a.fields[k], Absent)
                BY <3>7, <3>10 DEF ForKey, p
            <4>2. At(new, p) = Absent /\ At(old, p) = a.fields[k] /\ At(old, p) # Absent
                BY <3>3, <3>4, <3>10 DEF Child
            <4>3. Reached(old, new, p)
                BY <3>6, <4>2 DEF Reached
            <4>4. Exact(old, new, Change("remove", p, At(old, p), At(new, p)))
                BY <3>3, <3>6, <4>2, <4>3, ChangeExact
            <4> QED
                BY <4>1, <4>2, <4>4
        <3>11. CASE /\ k \in DOMAIN a.fields /\ k \in DOMAIN b.fields
                    /\ ~ (TypeofObject(a.fields[k]) /\ TypeofObject(b.fields[k]))
            <4>1. c \in Edit(p, a.fields[k], b.fields[k])
                BY <3>7, <3>11 DEF ForKey, p
            <4>2. At(old, p) = a.fields[k] /\ At(new, p) = b.fields[k]
                BY <3>3, <3>4, <3>5, <3>11
            <4>3. c = Change("edit", p, At(old, p), At(new, p)) /\ At(old, p) # At(new, p)
                BY <4>1, <4>2 DEF Edit
            <4>4. Reached(old, new, p)
                BY <3>11, <4>2 DEF Reached
            <4>5. ~ (Structured(At(old, p)) /\ Structured(At(new, p)))
                BY <3>6, <3>11, <4>2
            <4> QED
                BY <3>3, <4>3, <4>4, <4>5, ChangeExact
        <3>12. CASE /\ k \in DOMAIN a.fields /\ k \in DOMAIN b.fields
                    /\ TypeofObject(a.fields[k]) /\ TypeofObject(b.fields[k])
            <4>1. c \in D[p]
                BY <3>7, <3>12 DEF ForKey, p
            <4>2. p \in Seq(Names)
                BY <3>3 DEF Called
            <4>3. Len(p) + n >= MaxDepth
                BY <1>0, <2>4, <3>3
            <4> QED
                BY <3>3, <4>1, <4>2, <4>3
        <3> QED
            BY <3>9, <3>10, <3>11, <3>12
    <2> QED
        BY <2>6, <2>7
<1>3. MaxDepth \in S
    <2> HIDE DEF S
    <2> QED
        BY <1>0, <1>1, <1>2, Induction
<1>4. <<>> \in Seq(Names) /\ Len(<<>>) = 0
    BY AtEmpty
<1>5. Called(old, new, <<>>)
    BY <1>0, <1>4 DEF Called
<1>6. Len(<<>>) + MaxDepth >= MaxDepth
    BY <1>0, <1>4
<1>7. Holds(<<>>)
    <2> HIDE DEF Holds
    <2> QED
        BY <1>3, <1>4, <1>5, <1>6
<1> QED
    BY <1>7

\* A call that compares keys records what there is to record for each of them.
LEMMA ForKeyRecorded ==
    ASSUME NEW old, NEW new, NEW D, Calls(D, old, new), NEW q \in Seq(Names), Len(q) < MaxDepth,
           Comparable(At(old, q), At(new, q)), NEW k \in AllKeys(At(old, q), At(new, q))
    PROVE  ForKey(At(old, q), At(new, q), q, k, D) \subseteq D[q]
<1>1. ~ (Len(q) >= MaxDepth)
    BY KeysAssumption
<1>2. D[q] = deepDiff(At(old, q), At(new, q), q, D)
    BY DEF Calls
<1>3. D[q] = UNION {ForKey(At(old, q), At(new, q), q, key, D) : key \in AllKeys(At(old, q), At(new, q))}
    BY <1>1, <1>2 DEF deepDiff
<1> QED
    BY <1>3

LEMMA SelfRecorded ==
    ASSUME NEW old, NEW new, NEW D, Calls(D, old, new), NEW q \in Seq(Names), Len(q) < MaxDepth,
           At(old, q) # At(new, q), ~ (Structured(At(old, q)) /\ Structured(At(new, q)))
    PROVE  \E c \in D[q] : c.path = q
<1>1. ~ (Len(q) >= MaxDepth)
    BY KeysAssumption
<1>2. D[q] = deepDiff(At(old, q), At(new, q), q, D)
    BY DEF Calls
<1>3. D[q] = Edit(q, At(old, q), At(new, q))
    BY <1>1, <1>2 DEF deepDiff, Comparable
<1> DEFINE c == Change("edit", q, At(old, q), At(new, q))
<1>4. D[q] = {c}
    BY <1>3 DEF Edit
<1>5. c.path = q
    BY DEF Change
<1> HIDE DEF c
<1> QED
    BY <1>4, <1>5

LEMMA Complete ==
    ASSUME NEW old \in Stored, NEW new \in Stored, NEW D, Calls(D, old, new),
           NEW p \in Seq(Names), Len(p) <= MaxDepth,
           FirstDifference(old, new, p), Reached(old, new, p)
    PROVE  \E c \in D[<<>>] : c.path = p
<1> DEFINE Q(i) == SubSeq(p, 1, i)
           S == {i \in Nat : i < Len(p) => D[Q(i)] \subseteq D[<<>>]}
<1>0. /\ MaxDepth \in Nat /\ MaxDepth > 0 /\ Len(p) \in Nat
      /\ At(old, p) # At(new, p) /\ ~ (Structured(At(old, p)) /\ Structured(At(new, p)))
      /\ \A v : Structured(v) => TypeofObject(v)
    BY KeysAssumption DEF FirstDifference, At, Structured, TypeofObject
<1>1. ASSUME NEW i \in Nat, i < Len(p)
      PROVE  /\ Q(i) \in Seq(Names) /\ Len(Q(i)) < MaxDepth /\ Append(Q(i), p[i + 1]) = Q(i + 1)
             /\ At(old, Q(i)) = Along(old, p)[i] /\ At(new, Q(i)) = Along(new, p)[i]
             /\ Comparable(At(old, Q(i)), At(new, Q(i)))
             /\ At(old, Q(i)) \in Stored /\ At(new, Q(i)) \in Stored
             /\ Along(old, p)[i + 1] = Child(At(old, Q(i)), p[i + 1])
             /\ Along(new, p)[i + 1] = Child(At(new, Q(i)), p[i + 1])
    <2>1. i \in 0..Len(p) /\ i \in 0..(Len(p) - 1) /\ i + 1 \in 1..Len(p) /\ (i + 1) - 1 = i
        BY <1>0, <1>1
    <2>2. /\ Q(i) \in Seq(Names) /\ Len(Q(i)) = i
          /\ At(old, Q(i)) = Along(old, p)[i] /\ At(new, Q(i)) = Along(new, p)[i]
        BY <2>1, AtFirst
    <2>3. Structured(Along(old, p)[i]) /\ Structured(Along(new, p)[i])
        BY <2>1 DEF FirstDifference
    <2>4. Append(Q(i), p[i + 1]) = Q(i + 1)
        BY <2>1
    <2>5. Len(Q(i)) < MaxDepth
        BY <1>0, <1>1, <2>2
    <2>6. /\ Along(old, p)[i + 1] = Child(Along(old, p)[i], p[i + 1])
          /\ Along(new, p)[i + 1] = Child(Along(new, p)[i], p[i + 1])
        BY <2>1, AlongValues
    <2>7. At(old, Q(i)) \in Stored /\ At(new, Q(i)) \in Stored
        BY <2>2, AlongStored
    <2> HIDE DEF Q
    <2> QED
        BY <2>2, <2>3, <2>4, <2>5, <2>6, <2>7 DEF Comparable
<1>2. Q(0) = <<>> /\ Q(Len(p)) = p
    OBVIOUS
<1>3. 0 \in S
    BY <1>2
<1>4. ASSUME NEW i \in S, i \in Nat PROVE i + 1 \in S
    <2> SUFFICES ASSUME i + 1 < Len(p) PROVE D[Q(i + 1)] \subseteq D[<<>>]
        OBVIOUS
    <2> DEFINE a == At(old, Q(i))
               b == At(new, Q(i))
               k == p[i + 1]
    <2>1. i < Len(p) /\ D[Q(i)] \subseteq D[<<>>] /\ i \in Nat /\ i + 1 \in Nat
        BY <1>0
    <2> HIDE DEF S, Q
    <2>2. /\ Q(i) \in Seq(Names) /\ Len(Q(i)) < MaxDepth /\ Append(Q(i), k) = Q(i + 1)
          /\ Comparable(a, b) /\ a \in Stored /\ b \in Stored
          /\ Along(old, p)[i + 1] = Child(a, k) /\ Along(new, p)[i + 1] = Child(b, k)
        BY <1>1, <2>1
    <2>3. /\ At(old, Q(i + 1)) = Along(old, p)[i + 1] /\ At(new, Q(i + 1)) = Along(new, p)[i + 1]
          /\ Comparable(At(old, Q(i + 1)), At(new, Q(i + 1)))
        BY <1>1, <2>1
    <2>4. /\ Q(i) \in Seq(Names) /\ Len(Q(i)) < MaxDepth /\ Append(Q(i), k) = Q(i + 1)
          /\ Comparable(a, b) /\ a \in Stored /\ b \in Stored
          /\ At(old, Q(i + 1)) = Child(a, k) /\ At(new, Q(i + 1)) = Child(b, k)
          /\ Structured(At(old, Q(i + 1))) /\ Structured(At(new, Q(i + 1)))
        <3> HIDE DEF a, b, k
        <3> QED
            BY <2>2, <2>3 DEF Comparable
    <2>5. k \in DOMAIN a.fields /\ k \in DOMAIN b.fields
        BY <2>4 DEF Child, Structured, Absent
    <2>6. TypeofObject(a.fields[k]) /\ TypeofObject(b.fields[k])
        BY <1>0, <2>4, <2>5 DEF Child
    <2>7. k \in AllKeys(a, b)
        BY <2>5 DEF AllKeys
    <2>8. ForKey(a, b, Q(i), k, D) \subseteq D[Q(i)]
        BY <2>4, <2>7, ForKeyRecorded
    <2> HIDE DEF a, b, k
    <2>9. ForKey(a, b, Q(i), k, D) = D[Q(i + 1)]
        BY <2>4, <2>5, <2>6 DEF ForKey
    <2> QED
        BY <2>1, <2>8, <2>9
<1>5. CASE Len(p) = 0
    <2>1. p = <<>>
        BY <1>5
    <2>2. Len(p) < MaxDepth
        BY <1>0, <1>5
    <2>3. \E c \in D[p] : c.path = p
        BY <1>0, <2>2, SelfRecorded
    <2> QED
        BY <2>1, <2>3
<1>6. CASE Len(p) > 0
    <2> DEFINE i == Len(p) - 1
    <2>1. i \in Nat /\ i < Len(p) /\ i + 1 = Len(p)
        BY <1>0, <1>6
    <2> HIDE DEF i
    <2>2. D[Q(i)] \subseteq D[<<>>]
        <3>1. i \in S
            <4> HIDE DEF S
            <4> QED
                BY <1>3, <1>4, <2>1, Induction
        <3> QED
            BY <2>1, <3>1
    <2> HIDE DEF S, Q
    <2> DEFINE a == At(old, Q(i))
               b == At(new, Q(i))
               k == p[i + 1]
    <2>3. /\ Q(i) \in Seq(Names) /\ Len(Q(i)) < MaxDepth /\ Append(Q(i), k) = p
          /\ Comparable(a, b) /\ a \in Stored /\ b \in Stored
          /\ At(old, p) = Child(a, k) /\ At(new, p) = Child(b, k)
        BY <1>1, <1>2, <2>1, AlongValues, SMTT(30)
    <2>4. k \in AllKeys(a, b)
        BY <1>0, <2>3 DEF Child, AllKeys
    <2>5. ForKey(a, b, Q(i), k, D) \subseteq D[Q(i)]
        BY <2>3, <2>4, ForKeyRecorded
    <2> HIDE DEF a, b, k
    <2>6. \E c \in ForKey(a, b, Q(i), k, D) : c.path = p
        <3>1. CASE k \notin DOMAIN a.fields
            <4>1. ForKey(a, b, Q(i), k, D) = {Change("add", p, Absent, b.fields[k])}
                BY <2>3, <2>4, <3>1 DEF ForKey, AllKeys
            <4> QED
                BY <4>1 DEF Change
        <3>2. CASE k \in DOMAIN a.fields /\ k \notin DOMAIN b.fields
            <4>1. ForKey(a, b, Q(i), k, D) = {Change("remove", p, a.fields[k], Absent)}
                BY <2>3, <3>2 DEF ForKey
            <4> QED
                BY <4>1 DEF Change
        <3>3. CASE k \in DOMAIN a.fields /\ k \in DOMAIN b.fields
            <4>1. At(old, p) = a.fields[k] /\ At(new, p) = b.fields[k]
                BY <2>3, <3>3 DEF Child
            <4>2. CASE TypeofObject(At(old, p)) /\ TypeofObject(At(new, p))
                <5>1. ForKey(a, b, Q(i), k, D) = D[p]
                    BY <2>3, <3>3, <4>1, <4>2 DEF ForKey
                <5>2. Len(p) < MaxDepth
                    BY <1>0, <4>2 DEF Reached
                <5> QED
                    BY <1>0, <5>1, <5>2, SelfRecorded
            <4>3. CASE ~ (TypeofObject(At(old, p)) /\ TypeofObject(At(new, p)))
                <5>1. ForKey(a, b, Q(i), k, D) = Edit(p, At(old, p), At(new, p))
                    BY <2>3, <3>3, <4>1, <4>3 DEF ForKey
                <5> DEFINE c == Change("edit", p, At(old, p), At(new, p))
                <5>2. ForKey(a, b, Q(i), k, D) = {c}
                    BY <1>0, <5>1 DEF Edit
                <5>3. c.path = p
                    BY DEF Change
                <5> HIDE DEF c
                <5> QED
                    BY <5>2, <5>3
            <4> QED
                BY <4>2, <4>3
        <3> QED
            BY <3>1, <3>2, <3>3
    <2> QED
        BY <2>2, <2>5, <2>6
<1> QED
    BY <1>0, <1>5, <1>6

LEMMA PathsAre == Paths = {p \in Seq(Names) : Len(p) <= MaxDepth}
<1>1. MaxDepth \in Nat
    BY KeysAssumption
<1>2. ASSUME NEW p \in Paths PROVE p \in Seq(Names) /\ Len(p) <= MaxDepth
    <2>1. PICK n \in 0..MaxDepth : p \in [1..n -> Names]
        BY DEF Paths
    <2>2. p \in Seq(Names) /\ Len(p) = n
        BY <2>1, IsASeq
    <2> QED
        BY <1>1, <2>2
<1>3. ASSUME NEW p \in Seq(Names), Len(p) <= MaxDepth PROVE p \in Paths
    <2>1. p \in [1..Len(p) -> Names] /\ Len(p) \in 0..MaxDepth
        BY <1>1, <1>3
    <2> QED
        BY <2>1 DEF Paths
<1> QED
    BY <1>2, <1>3

\* What computeJsonDiff returns for stored values.
LEMMA DiffOfStored ==
    ASSUME NEW old \in Stored, NEW new \in Stored
    PROVE  /\ \A c \in computeJsonDiff(old, new) : Exact(old, new, c)
           /\ \A p \in Paths : FirstDifference(old, new, p) /\ Reached(old, new, p) =>
                 \E c \in computeJsonDiff(old, new) : c.path = p
<1>1. PICK D : Calls(D, old, new) /\ computeJsonDiff(old, new) = D[<<>>]
    BY ComputeDef
<1> QED
    BY <1>1, Sound, Complete, PathsAre

----------------------------------------------------------------------------
\* The patch.

\* A value patched with its own diff.
LEMMA PatchedIsNew ==
    ASSUME NEW old \in Stored, NEW new \in Stored, NEW changes,
           \A c \in changes : Exact(old, new, c),
           \A p \in Paths : FirstDifference(old, new, p) /\ Reached(old, new, p) =>
              \E c \in changes : c.path = p,
           \A p \in Paths :
              /\ Len(p) = MaxDepth => ~ Structured(At(old, p)) /\ ~ Structured(At(new, p))
              /\ Structured(At(old, p)) /\ Structured(At(new, p)) => At(old, p).kind = At(new, p).kind,
           NEW p \in Paths
    PROVE  Patched(old, changes, p) = Content(new, p)
<1> DEFINE made == {c \in changes : IsPrefix(c.path, p)}
           O(i) == Along(old, p)[i]
           N(i) == Along(new, p)[i]
           Both(i) == Structured(O(i)) /\ Structured(N(i))
           Q(i) == SubSeq(p, 1, i)
<1>0. p \in Seq(Names) /\ Len(p) <= MaxDepth /\ Len(p) \in Nat /\ MaxDepth \in Nat
    BY PathsAre, KeysAssumption
<1>1. CASE made = {}
    <2>1. ASSUME NEW i \in 0..Len(p), O(i) # N(i), ~ Both(i), \A j \in 0..(i - 1) : Both(j)
          PROVE  FALSE
        <3>1. /\ Q(i) \in Seq(Names) /\ Len(Q(i)) = i
              /\ \A j \in 0..i : Along(old, Q(i))[j] = O(j) /\ Along(new, Q(i))[j] = N(j)
              /\ At(old, Q(i)) = O(i) /\ At(new, Q(i)) = N(i)
            BY <1>0, AtFirst
        <3>2. IsPrefix(Q(i), p)
            <4>1. DOMAIN Q(i) = 1..i /\ DOMAIN p = 1..Len(p) /\ \A j \in 1..i : Q(i)[j] = p[j]
                BY <1>0
            <4> QED
                BY <1>0, <3>1, <4>1 DEF IsPrefix
        <3> HIDE DEF Q, O, N
        <3>3. Q(i) \in Paths
            BY <1>0, <3>1, PathsAre
        <3>4. FirstDifference(old, new, Q(i))
            BY <1>0, <2>1, <3>1 DEF FirstDifference
        <3>5. Reached(old, new, Q(i))
            <4>1. O(i) \in Stored /\ N(i) \in Stored
                BY <3>1, AlongStored
            <4>2. Len(Q(i)) = MaxDepth => ~ Structured(O(i)) /\ ~ Structured(N(i))
                BY <3>1, <3>3
            <4>3. ~ Structured(O(i)) /\ ~ Structured(N(i)) => ~ (TypeofObject(O(i)) /\ TypeofObject(N(i)))
                BY <2>1, <4>1, StoredValue DEF Shape
            <4> QED
                BY <3>1, <4>2, <4>3 DEF Reached
        <3>6. PICK c \in changes : c.path = Q(i)
            BY <3>3, <3>4, <3>5
        <3>7. c \in made
            BY <3>2, <3>6
        <3> QED
            BY <1>1, <3>7
    <2> DEFINE S == {i \in Nat : i <= Len(p) => O(i) = N(i) \/ \A j \in 0..i : Both(j)}
    <2> HIDE DEF made, Both, O, N, Q
    <2>2. 0 \in S
        <3>1. 0 \in 0..Len(p) /\ 0..(0 - 1) = {} /\ 0..0 = {0}
            BY <1>0
        <3>2. O(0) = N(0) \/ Both(0)
            BY <2>1, <3>1
        <3> QED
            BY <3>1, <3>2
    <2>3. ASSUME NEW i \in S, i \in Nat PROVE i + 1 \in S
        <3> SUFFICES ASSUME i + 1 <= Len(p), O(i + 1) # N(i + 1)
                     PROVE  \A j \in 0..(i + 1) : Both(j)
            OBVIOUS
        <3>1. /\ i + 1 \in 0..Len(p) /\ i + 1 \in 1..Len(p) /\ (i + 1) - 1 = i /\ i <= Len(p)
              /\ \A j \in 0..(i + 1) : j \in 0..i \/ j = i + 1
            BY <1>0
        <3>2. O(i + 1) = Child(O(i), p[i + 1]) /\ N(i + 1) = Child(N(i), p[i + 1])
            BY <1>0, <3>1, AlongValues DEF O, N
        <3>3. O(i) # N(i)
            BY <3>2
        <3>4. \A j \in 0..i : Both(j)
            BY <3>1, <3>3
        <3>5. Both(i + 1)
            BY <2>1, <3>1, <3>4
        <3> QED
            BY <3>1, <3>4, <3>5
    <2>4. Len(p) \in S
        <3> HIDE DEF S
        <3> QED
            BY <1>0, <2>2, <2>3, Induction
    <2>5. At(old, p) = At(new, p) \/ (Structured(At(old, p)) /\ Structured(At(new, p)))
        <3>1. O(Len(p)) = N(Len(p)) \/ Both(Len(p))
            BY <1>0, <2>4
        <3> QED
            BY <1>0, <3>1, AlongValues DEF O, N, Both
    <2>6. At(old, p) \in Stored /\ At(new, p) \in Stored
        BY <1>0, AlongStored
    <2>7. At(old, p).kind = At(new, p).kind /\ At(old, p).atom = At(new, p).atom
        BY <2>5, <2>6, StoredValue DEF Shape
    <2> QED
        BY <1>1, <2>7 DEF Patched, Content, made
<1>2. CASE made # {}
    <2> DEFINE c == CHOOSE c \in made : TRUE
    <2>1. c \in made
        BY <1>2
    <2>2. Patched(old, changes, p) = Content(c.new, SubSeq(p, Len(c.path) + 1, Len(p)))
        BY <1>2 DEF Patched
    <2> HIDE DEF c
    <2>3. Exact(old, new, c) /\ IsPrefix(c.path, p)
        BY <2>1
    <2> DEFINE q == c.path
               n == Len(c.path)
    <2>4. q \in Seq(Names) /\ c.new = At(new, q)
        BY <2>3 DEF Exact
    <2>5. n \in 0..Len(p) /\ \A i \in 1..n : q[i] = p[i]
        BY <1>0, <2>3, <2>4 DEF IsPrefix
    <2>6. At(new, q) = Along(new, p)[n]
        <3>1. n \in Nat /\ n <= Len(q) /\ n <= Len(p) /\ n \in 0..n
            BY <1>0, <2>4, <2>5
        <3>2. \A i \in 0..n : Along(new, q)[i] = Along(new, p)[i]
            BY <1>0, <2>4, <2>5, <3>1, AlongPrefix, SMTT(30)
        <3> QED
            BY <2>4, <3>1, <3>2, AlongValues
    <2>7. At(c.new, SubSeq(p, n + 1, Len(p))) = At(new, p)
        BY <1>0, <2>4, <2>5, <2>6, AtRest
    <2> QED
        BY <2>2, <2>7 DEF Content
<1> QED
    BY <1>1, <1>2

----------------------------------------------------------------------------
\* What create() stores is sanitised, and its diff is that of the two.
Computed ==
    auditLog # None =>
        /\ DOMAIN auditLog = {"oldValue", "newValue", "diff", "metadata"}
        /\ auditLog.oldValue \in Stored /\ auditLog.newValue \in Stored
        /\ auditLog.diff # None =>
              auditLog.diff = computeJsonDiff(auditLog.oldValue, auditLog.newValue)

IInv == oldValue \in Payloads /\ newValue \in Payloads /\ Computed

LEMMA Invariance == Spec => []IInv
<1>1. Init => IInv
    BY DEF Init, IInv, Computed
<1>2. IInv /\ [Next]_vars => IInv'
    <2> SUFFICES ASSUME IInv, [Next]_vars PROVE IInv'
        OBVIOUS
    <2>1. CASE create
        <3> DEFINE old == sanitizePayload(oldValue)
                   new == sanitizePayload(newValue)
        <3>1. old \in Stored /\ new \in Stored
            BY SanitizedStored DEF IInv
        <3>2. /\ auditLog' = [oldValue |-> old, newValue |-> new,
                              diff |-> IF Falsy(old) \/ Falsy(new) THEN None
                                       ELSE computeJsonDiff(old, new),
                              metadata |-> metadata]
              /\ UNCHANGED <<oldValue, newValue>>
            BY <2>1 DEF create
        <3> HIDE DEF old, new
        <3> QED
            BY <3>1, <3>2 DEF IInv, Computed
    <2>2. CASE UNCHANGED vars
        BY <2>2 DEF vars, IInv, Computed
    <2> QED
        BY <2>1, <2>2 DEF Next
<1> QED
    BY <1>1, <1>2, PTL DEF Spec

\* Of an addition the old value is absent, of a removal the new one, and an
\* edit has two values that differ: the shapes deepDiff() gives its changes.
THEOREM TypeCorrect == Spec => []TypeOK
<1>1. IInv => TypeOK
    <2> SUFFICES ASSUME IInv, Diffed, NEW c \in auditLog.diff
                 PROVE  CASE c.type = "add"    -> c.old = Absent
                          [] c.type = "remove" -> c.new = Absent
                          [] OTHER             -> c.type = "edit" /\ c.old # c.new
        BY DEF TypeOK
    <2>1. Exact(auditLog.oldValue, auditLog.newValue, c)
        BY DiffOfStored DEF IInv, Computed, Diffed
    <2> QED
        BY <2>1 DEF Exact
<1> QED
    BY <1>1, Invariance, PTL

\* deepDiff() records exactly the places, down to maxDepth, at which the two
\* stored values first differ, with what each has there.
THEOREM DiffsExact == Spec => []DiffExact
<1>1. IInv => DiffExact
    <2> SUFFICES ASSUME IInv, Diffed PROVE DiffExact
        BY DEF DiffExact
    <2> DEFINE old == auditLog.oldValue
               new == auditLog.newValue
    <2>1. /\ old \in Stored /\ new \in Stored
          /\ auditLog.diff = computeJsonDiff(old, new)
        BY DEF IInv, Computed, Diffed
    <2>2. /\ \A c \in auditLog.diff : Exact(old, new, c)
          /\ \A p \in Paths : FirstDifference(old, new, p) /\ Reached(old, new, p) =>
                \E c \in auditLog.diff : c.path = p
        BY <2>1, DiffOfStored
    <2>3. \A c \in auditLog.diff :
             /\ c.path \in Paths /\ FirstDifference(old, new, c.path) /\ Reached(old, new, c.path)
             /\ c.old = At(old, c.path) /\ c.new = At(new, c.path)
        BY <2>2, PathsAre DEF Exact
    <2>4. {c.path : c \in auditLog.diff} =
             {p \in Paths : FirstDifference(old, new, p) /\ Reached(old, new, p)}
        BY <2>2, <2>3
    <2> QED
        BY <2>3, <2>4 DEF DiffExact
<1> QED
    BY <1>1, Invariance, PTL

\* The diff a row stores turns its old value into its new one, where nothing
\* lies below maxDepth and no object became an array.
THEOREM DiffsReplay == Spec => []DiffReplays
<1>1. IInv => DiffReplays
    <2> SUFFICES ASSUME IInv, Diffed PROVE DiffReplays
        BY DEF DiffReplays
    <2> DEFINE old == auditLog.oldValue
               new == auditLog.newValue
    <2>1. /\ old \in Stored /\ new \in Stored
          /\ auditLog.diff = computeJsonDiff(old, new)
        BY DEF IInv, Computed, Diffed
    <2>2. /\ \A c \in auditLog.diff : Exact(old, new, c)
          /\ \A p \in Paths : FirstDifference(old, new, p) /\ Reached(old, new, p) =>
                \E c \in auditLog.diff : c.path = p
        BY <2>1, DiffOfStored
    <2> HIDE DEF old, new
    <2>3. ASSUME \A p \in Paths :
                    /\ Len(p) = MaxDepth => ~ Structured(At(old, p)) /\ ~ Structured(At(new, p))
                    /\ Structured(At(old, p)) /\ Structured(At(new, p)) => At(old, p).kind = At(new, p).kind
          PROVE  \A p \in Paths : Patched(old, auditLog.diff, p) = Content(new, p)
        BY <2>1, <2>2, <2>3, PatchedIsNew
    <2> QED
        BY <2>3 DEF DiffReplays, old, new
<1> QED
    BY <1>1, Invariance, PTL

\* What a sensitive field of the two values held is in no column but metadata,
\* which create() stores as it came: not in the values, which
\* redactSensitiveFields() went through, nor in a change of the diff.
THEOREM ValuesRedacted == Spec => []SensitiveOnlyInMetadata
<1>1. IInv => SensitiveOnlyInMetadata
    <2> SUFFICES ASSUME IInv, auditLog # None PROVE Exposing(auditLog) \subseteq {"metadata"}
        BY DEF SensitiveOnlyInMetadata
    <2> DEFINE old == auditLog.oldValue
               new == auditLog.newValue
    <2>1. /\ old \in Stored /\ new \in Stored
          /\ Diffed => auditLog.diff = computeJsonDiff(old, new)
        BY DEF IInv, Computed, Diffed
    <2>2. ASSUME Diffed, NEW c \in auditLog.diff
          PROVE  /\ Clean(c.old) /\ Clean(c.new)
                 /\ (c.path # <<>> /\ Last(c.path) \in Sensitive) => {c.old, c.new} \subseteq {Redacted, Absent}
        <3>1. Exact(old, new, c)
            BY <2>1, <2>2, DiffOfStored
        <3> DEFINE p == c.path
                   n == Len(p)
        <3>2. p \in Seq(Names) /\ c.old = At(old, p) /\ c.new = At(new, p)
            BY <3>1 DEF Exact
        <3>3. c.old \in Stored /\ c.new \in Stored
            BY <2>1, <3>2, AlongStored
        <3>4. ASSUME p # <<>>, Last(p) \in Sensitive
              PROVE  {c.old, c.new} \subseteq {Redacted, Absent}
            <4>1. n \in 1..n /\ n - 1 \in 0..n /\ Last(p) = p[n]
                BY <3>2, <3>4 DEF Last
            <4> DEFINE a == Along(old, p)[n - 1]
                       b == Along(new, p)[n - 1]
            <4>2. c.old = Child(a, Last(p)) /\ c.new = Child(b, Last(p))
                BY <3>2, <4>1, AlongValues
            <4>3. a \in Stored /\ b \in Stored
                BY <2>1, <3>2, <4>1, AlongStored
            <4> HIDE DEF a, b, p, n
            <4>4. \A w \in Stored : Child(w, Last(p)) \in {Redacted, Absent}
                BY <3>4, StoredValue DEF Kept, Child
            <4> QED
                BY <4>2, <4>3, <4>4
        <3> QED
            BY <3>3, <3>4, StoredClean
    <2>3. Clean(old) /\ Clean(new)
        BY <2>1, StoredClean
    <2>4. auditLog.diff # None => CleanChanges(auditLog.diff)
        BY <2>2 DEF CleanChanges, Diffed
    <2>5. DOMAIN auditLog = {"oldValue", "newValue", "diff", "metadata"}
        BY DEF IInv, Computed
    <2> QED
        BY <2>3, <2>4, <2>5 DEF Exposing
<1> QED
    BY <1>1, Invariance, PTL

============================================================================
