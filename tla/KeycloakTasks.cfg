SPECIFICATION AllSpec
CONSTANTS
    Shells = {s1, s2}
    Tokens = {t1, t2, t3}
    ToImport <- MCToImport
    ToDelete <- MCToDelete
    Onboarding = "onboarding"
    TokenRealm = "authority"
SYMMETRY Symmetric
INVARIANTS
    HealsInOneCall
    SuccessMeansImported
