SPECIFICATION Spec
CONSTANTS
    Nil = Nil
    Body <- MCBody
INVARIANT TextMeansDocument
PROPERTIES RetryOnlyUndoes PatchKeepsFields
