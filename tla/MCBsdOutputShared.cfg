\* Every dtoa, wmemchr and bsd_btowc call of the bounded inputs, for bytes
\* that are characters by themselves.
CONSTANTS
    w1 = w1
    w2 = w2
    junk = junk
    Eighths <- MCEighths
    Precisions <- MCPrecisions
    StrdupOk = {TRUE, FALSE}
    WChars <- MCWChars
    MaxWLen = 3
    Bytes = {0, 65}
    Garbage <- MCGarbage
SPECIFICATION Spec
INVARIANTS
    TypeOK
    DtoaValueExact
    WmemchrFindsFirst
\* A behaviour is one call; the helpers keep no state between calls.
CHECK_DEADLOCK FALSE
