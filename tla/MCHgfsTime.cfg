\* Both builds, every guest stamp and every host NT time at scale.
CONSTANTS
    TicksPerSec = 4
    NsPerTick = 2
    EpochSecs = 20
    NtBits = 10
    S32Bits = 4
    S64Bits = 10
    BuildChoices <- MCBuildChoices
SPECIFICATION Spec
INVARIANTS
    TypeOK
    HostTimeConvertedFaithfully
    StampRoundTrips
\* A behaviour converts one time and stops; conversions share no state.
CHECK_DEADLOCK FALSE
