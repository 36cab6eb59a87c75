SPECIFICATION Spec
CONSTANTS
    v1 = v1
    v2 = v2
    v3 = v3
    None = None
    Version <- Versions
    Keep <- Keeps
    MayFail = TRUE
    MaxDrift = 2
SYMMETRY Symmetric
INVARIANTS
    EnsureErrorsAsDocumented
