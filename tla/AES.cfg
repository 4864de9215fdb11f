SPECIFICATION Spec
CONSTANTS
    secret_key <- Key
    Plaintexts <- Blocks
INVARIANTS SubstitutionIsInverse GmultIsProduct Fips197
PROPERTIES RoundsInvertible
CHECK_DEADLOCK FALSE
