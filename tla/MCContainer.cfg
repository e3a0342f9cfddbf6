\* Three tokens, two dependencies each: diamonds, cycles of every length,
\* missing providers and constructors that throw, one resolution after another.
CONSTANTS
    t1 = t1
    t2 = t2
    t3 = t3
    Tokens <- MCTokens
    MaxDeps = 2
SYMMETRY Symmetry
SPECIFICATION ContainerSpec
INVARIANTS
    ContainerTypeOK
    OutcomeIsReal
    DependenciesFirst
