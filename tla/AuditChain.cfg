SPECIFICATION Spec
CONSTANTS
    MaxId <- MCMaxId
    MaxSecret <- MCMaxSecret
INVARIANTS TypeOK ChainLinear  PurgeAgreesWithVerifier OneRotationIsProvable
PROPERTY RechainRestores
CHECK_DEADLOCK FALSE
