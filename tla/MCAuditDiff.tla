---------------------------- MODULE MCAuditDiff ----------------------------
EXTENDS AuditDiff

\* Values by depth: the deeper, the fewer their shapes.
Atoms == {"x", "zero"}
Leaves == {Scalar(a) : a \in Atoms} \cup {Null}
Maps(domains, values) == UNION {[D -> values] : D \in domains}
Values[n \in Nat] ==
    IF n = 0 THEN Leaves
    ELSE Values[n - 1]
         \cup {Node("array", f) : f \in Maps(SUBSET Indices, Values[n - 1])}
         \cup IF n > 2
              THEN {Node("object", f) : f \in Maps({{k} : k \in Keys \ Sensitive}, Values[n - 1])}
              ELSE {Node("object", [k \in DOMAIN f \cup DOMAIN g |->
                                      IF k \in DOMAIN g THEN g[k] ELSE f[k]])
                    : f \in Maps(SUBSET (Keys \ Sensitive), Values[n - 1]),
                      g \in Maps(SUBSET Sensitive, {Scalar(a) : a \in Atoms})}

ValuesToDepth3 == Values[3]
\* Callers may pass no metadata, or any.
MetadataValues ==
    {Absent, Node("object", [k \in {"secret"} |-> Scalar("x")])}

HeightOf == [v \in ValuesToDepth3 |-> CHOOSE n \in 0..3 : v \in Values[n] /\ \A m \in 0..(n - 1) : v \notin Values[m]]
============================================================================
