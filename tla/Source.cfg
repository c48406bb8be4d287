SPECIFICATION SourceSpec
CONSTANTS
    Base = 3
    MaxCoefficient = 8
    MaxExponent = 3
    MaxWide = 2000
    MaxIndex = 40
    PointCounts = {2, 4}
    Saturation = 6
    Envelope = 7
    Places = 2
    Malformed = {"m..x"}
    Parent <- MCParent
    MaxInt = 12
    MaxCoordinate = 8
    MaxSubstitutions = 2
    MaxAnalyses = 3
    MaxAssertions = 4
    MaxSamples = 30
    MaxTotalSamples = 60
    MaxVariants = 2
    MaxVariantWork = 9
    MaxConfigurations = 3
    MaxChecks = 2
    MaxCheckAssertions = 3
    LongNames = {}
    NameOrder <- MCNameOrder
    PinOffset <- MCPinOffset
    PadGeometry <- MCPadGeometry
    Uuid <- MCUuid
    Decimals <- MCDecimals
    MaxU64 = 9
    MaxU32 = 8
    MaxI16 = 400
    MaxDamage = 2
INVARIANTS
    NumbersAreExact
PROPERTIES
    AcceptedIsWritten
    EveryDamageIsReported
    NothingIsDropped
    IdentitiesAreLocated
CHECK_DEADLOCK FALSE
