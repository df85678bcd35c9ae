\* bsd_btowc of a NUL, an ASCII byte and the lead byte of a two-byte
\* UTF-8 sequence (0xC3), in a UTF-8 locale.
CONSTANTS
    w1 = w1
    w2 = w2
    junk = junk
    Eighths <- MCEighths
    Precisions <- MCPrecisions
    StrdupOk = {TRUE, FALSE}
    WChars <- MCWChars
    MaxWLen = 3
    Bytes = {0, 65, 195}
    Garbage <- MCGarbage
SPECIFICATION Spec
INVARIANT
    BtowcCharOrWeof
\* A behaviour is one call; the helpers keep no state between calls.
CHECK_DEADLOCK FALSE
