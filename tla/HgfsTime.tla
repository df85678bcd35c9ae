------------------------------ MODULE HgfsTime ------------------------------
(***************************************************************************)
(* Time conversion of src/modules/linux/vmhgfs/hgfsUtil.c between Unix    *)
(* time (seconds and nanoseconds since 1970, in a time_t of the build's    *)
(* width) and NT time (100 ns ticks since 1601, in a uint64).              *)
(*                                                                         *)
(* TLC integers are 32-bit, so the widths and scales are CONSTANTS that    *)
(* keep the order of the real ones: the 32-bit time_t range is shorter     *)
(* than the span from 1601 to 1970, the 32-bit wrap-around of 2038 fits    *)
(* in the NT range, and the NT range in seconds fits in a 64-bit time_t.   *)
(* Unsigned arithmetic is modulo 2^NtBits, the time_t results are signed   *)
(* in their width.                                                         *)
(*                                                                         *)
(* A file time crosses the conversion in two directions: the guest stamps  *)
(* a Unix time that goes out as NT time, and an NT time the host reports   *)
(* is converted back, in a 32-bit (x86) or 64-bit (x86_64) build.  The    *)
(* conversions share no state, so a behaviour is one of them.              *)
(***************************************************************************)
EXTENDS Integers

CONSTANTS
    TicksPerSec,   \* NT ticks per second (10^7)
    NsPerTick,     \* nanoseconds per NT tick (100)
    EpochSecs,     \* seconds from 1601 to 1970
    NtBits,        \* width of the NT time (64)
    S32Bits,       \* width of time_t in an x86 build (32)
    S64Bits,       \* width of time_t in an x86_64 build (64)
    BuildChoices   \* the builds checked

ASSUME 2^(S32Bits - 1) < EpochSecs
ASSUME (EpochSecs + 2^(S32Bits - 1)) * TicksPerSec < 2^NtBits
ASSUME 2^NtBits \div TicksPerSec < 2^(S64Bits - 1)
ASSUME BuildChoices \subseteq {"x86", "x86_64"}

VARIABLES
    build,        \* VM_X86_64 undefined ("x86") or defined ("x86_64")
    origin,       \* where ntTime came from: "none", "guest", "host"
    unixTime,     \* the guest's time_t and nsec, when it stamped
    nsec,
    ntTime,       \* the NT time on the wire
    read,         \* the guest has converted ntTime back
    converted     \* HgfsConvertFromNtTimeNsec's result, once read

vars == <<build, origin, unixTime, nsec, ntTime, read, converted>>

\* The result before the guest converts (the caller's struct timespec).
Unread == [sec |-> 0, nsec |-> 0, ret |-> 0]
NsecPerSec == TicksPerSec * NsPerTick
TimeTBits(b) == IF b = "x86" THEN S32Bits ELSE S64Bits
TimeTMin(b) == -(2^(TimeTBits(b) - 1))
TimeTMax(b) == 2^(TimeTBits(b) - 1) - 1

\* uint64 arithmetic, and a value of `bits' bits stored into a signed type.
U64(x) == x % 2^NtBits
ToSigned(x, bits) == IF x >= 2^(bits - 1) THEN x - 2^bits ELSE x

UNIX_EPOCH == EpochSecs * TicksPerSec
UNIX_S32_MAX == UNIX_EPOCH + 2^(S32Bits - 1) * TicksPerSec

-----------------------------------------------------------------------------
\* A conversion that multiplies before widening to uint64.
HgfsConvertToNtTimeNarrowProduct(u, ns) ==
    U64(ToSigned((u * TicksPerSec) % 2^TimeTBits(build), TimeTBits(build))
        + ns \div NsPerTick + UNIX_EPOCH)

\* (uint64)unixTime * 10000000 + nsec / 100 + UNIX_EPOCH
HgfsConvertToNtTime(u, ns) ==
    U64(U64(u) * TicksPerSec + ns \div NsPerTick + UNIX_EPOCH)

\* A conversion that scales the whole interval, not its remainder, to ns.
HgfsConvertFromNtTimeNsecWholeNsec(nt, b) ==
    CASE b = "x86" /\ nt >= UNIX_S32_MAX ->
             [sec |-> 2^(S32Bits - 1) - 1, nsec |-> 0, ret |-> 1]
      [] nt < UNIX_EPOCH -> [sec |-> 0, nsec |-> 0, ret |-> -1]
      [] OTHER ->
             [sec  |-> ToSigned((nt - UNIX_EPOCH) \div TicksPerSec, TimeTBits(b)),
              nsec |-> (nt - UNIX_EPOCH) * NsPerTick,
              ret  |-> 0]

\* A cap that lets the wrap-around instant itself through.
HgfsConvertFromNtTimeNsecCapAfter(nt, b) ==
    CASE b = "x86" /\ nt > UNIX_S32_MAX ->
             [sec |-> 2^(S32Bits - 1) - 1, nsec |-> 0, ret |-> 1]
      [] nt < UNIX_EPOCH -> [sec |-> 0, nsec |-> 0, ret |-> -1]
      [] OTHER ->
             [sec  |-> ToSigned((nt - UNIX_EPOCH) \div TicksPerSec, TimeTBits(b)),
              nsec |-> ((nt - UNIX_EPOCH) % TicksPerSec) * NsPerTick,
              ret  |-> 0]

\* The x86 build caps at the 2038 wrap-around of a signed 32-bit time_t;
\* both builds clamp times before 1970 to zero; otherwise the quotient and
\* remainder by ticks per second (Div643232 on x86) go to tv_sec, tv_nsec.
HgfsConvertFromNtTimeNsec(nt, b) ==
    CASE b = "x86" /\ nt >= UNIX_S32_MAX ->
             [sec |-> 2^(S32Bits - 1) - 1, nsec |-> 0, ret |-> 1]
      [] nt < UNIX_EPOCH -> [sec |-> 0, nsec |-> 0, ret |-> -1]
      [] OTHER ->
             [sec  |-> ToSigned((nt - UNIX_EPOCH) \div TicksPerSec, TimeTBits(b)),
              nsec |-> ((nt - UNIX_EPOCH) % TicksPerSec) * NsPerTick,
              ret  |-> 0]

-----------------------------------------------------------------------------
\* The guest stamps a file with a time_t of its build and a valid nsec; the
\* request carries HgfsConvertToNtTime of it.
HgfsSetTime ==
    /\ origin = "none"
    /\ \E u \in TimeTMin(build)..TimeTMax(build), ns \in 0..(NsecPerSec - 1) :
          /\ unixTime' = u
          /\ nsec' = ns
          /\ ntTime' = HgfsConvertToNtTime(u, ns)
    /\ origin' = "guest"
    /\ read' = FALSE
    /\ converted' = Unread
    /\ UNCHANGED build

\* The host reports any NT time a file may carry.
HostTime ==
    /\ origin = "none"
    /\ \E nt \in 0..(2^NtBits - 1) : ntTime' = nt
    /\ origin' = "host"
    /\ unixTime' = 0
    /\ nsec' = 0
    /\ read' = FALSE
    /\ converted' = Unread
    /\ UNCHANGED build

\* The guest converts the NT time on the wire back to Unix time.
HgfsGetTime ==
    /\ origin # "none"
    /\ ~read
    /\ read' = TRUE
    /\ converted' = HgfsConvertFromNtTimeNsec(ntTime, build)
    /\ UNCHANGED <<build, origin, unixTime, nsec, ntTime>>

Init ==
    /\ build \in BuildChoices
    /\ origin = "none"
    /\ unixTime = 0
    /\ nsec = 0
    /\ ntTime = 0
    /\ read = FALSE
    /\ converted = Unread

Next == HgfsSetTime \/ HostTime \/ HgfsGetTime

Spec == Init /\ [][Next]_vars

-----------------------------------------------------------------------------
TypeOK ==
    /\ build \in {"x86", "x86_64"}
    /\ origin \in {"none", "guest", "host"}
    /\ unixTime \in TimeTMin(build)..TimeTMax(build)
    /\ nsec \in 0..(NsecPerSec - 1)
    /\ ntTime \in 0..(2^NtBits - 1)
    /\ read \in BOOLEAN
    /\ converted \in
          [sec : TimeTMin(build)..TimeTMax(build),
           nsec : 0..(NsecPerSec - 1), ret : {-1, 0, 1}]

\* The exact NT time of a Unix time, in unbounded integers.
RealNtTime(u, ns) == u * TicksPerSec + ns \div NsPerTick + UNIX_EPOCH

\* What an NT time means in Unix time: before 1970 is below range, past the
\* largest time_t of the build is above range and clamps to it.
IntendedUnixTime(nt, b) ==
    LET s == (nt - UNIX_EPOCH) \div TicksPerSec IN
    CASE nt < UNIX_EPOCH -> [sec |-> 0, nsec |-> 0, ret |-> -1]
      [] s > TimeTMax(b) -> [sec |-> TimeTMax(b), nsec |-> 0, ret |-> 1]
      [] OTHER -> [sec |-> s, nsec |-> ((nt - UNIX_EPOCH) % TicksPerSec) * NsPerTick,
                   ret |-> 0]

\* What converting a guest stamp out and back should give.
IntendedRoundTrip(u, ns) ==
    IF u < 0 THEN [sec |-> 0, nsec |-> 0, ret |-> -1]
    ELSE [sec |-> u, nsec |-> (ns \div NsPerTick) * NsPerTick, ret |-> 0]

\* Every NT time the host reports converts to the Unix time it denotes, or
\* is clamped with the right range indicator (HgfsConvertFromNtTimeNsec,
\* with the x86 cap at UNIX_S32_MAX and the 64-bit path unclamped).
HostTimeConvertedFaithfully ==
    origin = "host" /\ read =>
        converted = IntendedUnixTime(ntTime, build)

\* A guest stamp whose NT time lies between 1601 and the end of the uint64
\* range comes back as itself, nanoseconds truncated to the tick, or as
\* below range if it is before 1970 (HgfsConvertToNtTime then back).
StampRoundTrips ==
    origin = "guest" /\ read
    /\ 0 <= RealNtTime(unixTime, nsec) /\ RealNtTime(unixTime, nsec) < 2^NtBits
        => converted = IntendedRoundTrip(unixTime, nsec)

=============================================================================
