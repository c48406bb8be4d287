SPECIFICATION Spec
CONSTANTS
    Base = 10
    MaxCoefficient = 999
    MaxExponent = 3
    MaxWide = 2000
    MaxIndex = 1000
    Malformed = {""}
    Parent <- MCParent
    MaxInt = 12
    MaxCoordinate = 9
    MaxSubstitutions = 2
    MaxAnalyses = 3
    MaxAssertions = 2
    MaxSamples = 250
    MaxTotalSamples = 300
    MaxVariants = 1
    MaxVariantWork = 5
    MaxConfigurations = 2
    MaxChecks = 1
    MaxCheckAssertions = 2
    LongNames = {}
    NameOrder <- MCNameOrder
    Unsupported = {"V+", "R-2"}
    CaseKeys <- MCCaseKeys
    ReservedNodes = {"0", "GND", "gnd"}
    Hex <- MCHex
    Backend = "ohmnivore"
    Unity = 1000
    MaxFinite = 1000000
    MaxEntries = 8
    FloatDigits = 2
    NameBytes = 10
    MaxGeneratedBytes = 50000
    Answers <- MCAnswers
    MaxFaults = 1
INVARIANTS
    SuccessMeansTheDesignHolds
    RightAnswersAreTaken
    EvidenceIsBound
CHECK_DEADLOCK FALSE
