CONSTANTS
    None = None
    Documents <- ValuesToDepth3
    Height <- HeightOf
    Longest = 3
    Keys = {"k", "secret"}
    Indices = {"0"}
    Sensitive = {"secret"}
    FalsyAtoms = {"zero"}
    Metadata <- MetadataValues
    Digests = {"d", "e"}
    MaxDepth = 2
SPECIFICATION Spec
INVARIANTS TypeOK DiffExact DiffReplays SensitiveOnlyInMetadata
CHECK_DEADLOCK FALSE
