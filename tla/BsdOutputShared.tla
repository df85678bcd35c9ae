--------------------------- MODULE BsdOutputShared ---------------------------
(***************************************************************************)
(* The helpers of src/lib/string/bsd_output_shared.c that the BSD printf  *)
(* (bsd_vsnprintf) calls where the platform's libc lacks them:             *)
(*                                                                         *)
(*   dtoa      a double as decimal digits and an exponent, by ecvt (mode   *)
(*             2) or fcvt (mode 3), with trailing zeroes stripped;         *)
(*   wmemchr   the first occurrence of a wide character in a buffer;       *)
(*   bsd_btowc a byte as a wide character, through mbtowc.                 *)
(*                                                                         *)
(* The helpers share no state, so a behaviour is one call and its result.  *)
(*                                                                         *)
(* A double is an eighth, n/8: exactly representable in binary, so a tie  *)
(* in decimal rounding is a real tie, which libc rounds to even.  Values   *)
(* are carried in thousandths (n/8 = 125 n / 1000).  Digits are integers   *)
(* 0..9, a digit string a sequence of them.                                *)
(***************************************************************************)
EXTENDS Integers, Sequences

CONSTANTS
    Eighths,        \* the doubles d = n/8 passed to dtoa
    Precisions,     \* the prec values vfprintf passes, per mode
    StrdupOk,       \* strdup may fail (ENOMEM)
    WChars,         \* wide characters in wmemchr's buffers
    MaxWLen,        \* longest wmemchr buffer
    Bytes,          \* the bytes passed to bsd_btowc
    Garbage         \* what an uninitialized wchar_t may hold

ASSUME Eighths \subseteq Int
ASSUME Precisions \in [{2, 3} -> SUBSET (0..3)] /\ 0 \notin Precisions[2]
ASSUME StrdupOk \subseteq BOOLEAN
ASSUME MaxWLen \in Nat /\ Bytes \subseteq 0..255

VARIABLES
    call,      \* the helper called and its arguments; fn "none" before
    result     \* what it returned, or "none"

vars == <<call, result>>

EOF == -1
WEOF == -1                        \* (wint_t)-1
Scale == 3                        \* thousandths

Abs(x) == IF x < 0 THEN -x ELSE x

\* Number of decimal digits of x > 0.
NumDigits(x) == CHOOSE k \in 1..12 : 10^(k-1) <= x /\ x < 10^k

\* The first k digits of s as an integer.
RECURSIVE SeqVal(_, _)
SeqVal(s, k) == IF k = 0 THEN 0 ELSE 10 * SeqVal(s, k - 1) + s[k]

\* The k digits of x, leading zeroes included.
DigitSeq(x, k) == [i \in 1..k |-> (x \div 10^(k - i)) % 10]

\* 0.s[1..k] * 10^e equals x thousandths.
Denotes(s, k, e, x) ==
    IF e - k + Scale >= 0 THEN SeqVal(s, k) * 10^(e - k + Scale) = x
                          ELSE SeqVal(s, k) = x * 10^(k - e - Scale)

-----------------------------------------------------------------------------
(* The libc conversions dtoa calls.  Both round to nearest, ties to even, *)
(* and return the digits with the decimal point's position decpt.         *)

\* x / 10^p, rounded to nearest, ties to even.
RoundDiv(x, p) ==
    LET q == x \div 10^p
        r == x % 10^p
    IN  IF 2 * r > 10^p \/ (2 * r = 10^p /\ q % 2 = 1) THEN q + 1 ELSE q

\* ecvt(d, n): n significant digits.
Ecvt(v, n) ==
    IF v = 0 THEN [digits |-> DigitSeq(0, n), decpt |-> 1]
    ELSE LET k == NumDigits(v)
             r == IF k > n THEN RoundDiv(v, k - n) ELSE v * 10^(n - k)
             carry == r = 10^n
         IN  [digits |-> DigitSeq(IF carry THEN r \div 10 ELSE r, n),
              decpt  |-> k - Scale + (IF carry THEN 1 ELSE 0)]

\* fcvt(d, n): n digits after the decimal point, no leading zeroes.
Fcvt(v, n) ==
    LET r == RoundDiv(v, Scale - n)
    IN  IF r = 0 THEN [digits |-> DigitSeq(0, n + 1), decpt |-> 1]
        ELSE [digits |-> DigitSeq(r, NumDigits(r)),
              decpt  |-> NumDigits(r) - n]

-----------------------------------------------------------------------------
\* `while ((*strEnd > str) && ('0' == *((*strEnd) - 1))) (*strEnd)--;'
RECURSIVE StripTrailingZeroes(_, _)
StripTrailingZeroes(s, e) ==
    IF e > 0 /\ s[e] = 0 THEN StripTrailingZeroes(s, e - 1) ELSE e

\* A dtoa that calls fcvt for mode 2 and ecvt for mode 3, as its header
\* comment describes the modes.
DtoaModesSwapped(n, mode, prec, ok) ==
    LET v   == Abs(125 * n)
        cvt == IF mode = 2 THEN Fcvt(v, prec) ELSE Ecvt(v, prec)
    IN  IF ~ok THEN [ok |-> FALSE, sign |-> n < 0]
        ELSE [ok     |-> TRUE,
              str    |-> cvt.digits,
              strEnd |-> StripTrailingZeroes(cvt.digits, Len(cvt.digits)),
              expOut |-> cvt.decpt,
              sign   |-> n < 0]

\* dtoa(d, mode, prec, &expOut, &sign, &strEnd); `ok' is strdup's success.
\* On failure (`ok' FALSE: str is NULL) expOut and strEnd are left as the
\* caller had them.
Dtoa(n, mode, prec, ok) ==
    LET v   == Abs(125 * n)
        cvt == IF mode = 2 THEN Ecvt(v, prec) ELSE Fcvt(v, prec)
    IN  IF ~ok THEN [ok |-> FALSE, sign |-> n < 0]
        ELSE [ok     |-> TRUE,
              str    |-> cvt.digits,
              strEnd |-> StripTrailingZeroes(cvt.digits, Len(cvt.digits)),
              expOut |-> cvt.decpt,
              sign   |-> n < 0]

\* A loop that stops one character short of n.
RECURSIVE WmemchrFromShort(_, _, _, _)
WmemchrFromShort(s, c, n, i) ==
    IF i >= n THEN 0
    ELSE IF s[i] = c THEN i
    ELSE WmemchrFromShort(s, c, n, i + 1)

\* A loop that returns the end of the buffer, s + n, when c is not found.
RECURSIVE WmemchrFromEnd(_, _, _, _)
WmemchrFromEnd(s, c, n, i) ==
    IF i > n THEN i
    ELSE IF s[i] = c THEN i
    ELSE WmemchrFromEnd(s, c, n, i + 1)

\* wmemchr(s, c, n): the 1-based position of the first c among the first n
\* characters, 0 for NULL.
RECURSIVE WmemchrFrom(_, _, _, _)
WmemchrFrom(s, c, n, i) ==
    IF i > n THEN 0
    ELSE IF s[i] = c THEN i
    ELSE WmemchrFrom(s, c, n, i + 1)

Wmemchr(s, c, n) == WmemchrFrom(s, c, n, 1)

\* mbtowc(&wc, &cc, 1) in a UTF-8 locale: a NUL gives 0, an ASCII byte 1,
\* any other byte alone is an invalid or incomplete sequence and gives -1
\* without storing to wc.
Mbtowc(b) ==
    CASE b = 0   -> [ret |-> 0, wc |-> 0]
      [] b < 128 -> [ret |-> 1, wc |-> b]
      [] OTHER   -> [ret |-> -1]

\* bsd_btowc(c): the set of values it may return; wc is uninitialized when
\* mbtowc does not store to it.
BsdBtowc(c) ==
    IF c = EOF THEN {WEOF}
    ELSE LET m == Mbtowc(c) IN
         IF m.ret > 1 THEN {WEOF}
         ELSE IF "wc" \in DOMAIN m THEN {m.wc} ELSE Garbage

-----------------------------------------------------------------------------
CallDtoa ==
    /\ call.fn = "none"
    /\ \E n \in Eighths, mode \in {2, 3}, ok \in StrdupOk :
       \E prec \in Precisions[mode] :
          /\ call' = [fn |-> "dtoa", d |-> n, mode |-> mode, prec |-> prec]
          /\ result' = Dtoa(n, mode, prec, ok)

CallWmemchr ==
    /\ call.fn = "none"
    /\ \E len \in 0..MaxWLen :
       \E s \in [1..len -> WChars], c \in WChars, n \in 0..len :
          /\ call' = [fn |-> "wmemchr", s |-> s, c |-> c, n |-> n]
          /\ result' = Wmemchr(s, c, n)

CallBtowc ==
    /\ call.fn = "none"
    /\ \E c \in Bytes \cup {EOF} :
       \E r \in BsdBtowc(c) :
          /\ call' = [fn |-> "btowc", c |-> c]
          /\ result' = r

Init ==
    /\ call = [fn |-> "none"]
    /\ result = "none"

Next == CallDtoa \/ CallWmemchr \/ CallBtowc

Spec == Init /\ [][Next]_vars

-----------------------------------------------------------------------------
TypeOK ==
    \/ call.fn = "none" /\ result = "none"
    \/ call.fn = "dtoa" /\ (~result.ok \/ result.str \in Seq(0..9))
    \/ call.fn = "wmemchr" /\ result \in 0..MaxWLen
    \/ call.fn = "btowc" /\ result \in {WEOF} \cup Garbage \cup 0..127

\* What vfprintf asks of dtoa (FreeBSD's contract): mode 2 rounds to prec
\* significant digits (%e, %g), mode 3 to prec digits after the point
\* (%f), to nearest with ties to even.  The multiple of g nearest to v is
\* one of those within g of it.
NearestMultiple(v, g) ==
    LET cands == {y \in (v - g)..(v + g) : y >= 0 /\ y % g = 0}
        dist(y) == Abs(y - v)
    IN  CHOOSE y \in cands :
            \A z \in cands \ {y} :
                \/ dist(y) < dist(z)
                \/ dist(y) = dist(z) /\ (y \div g) % 2 = 0

PrintfRounded(v, mode, prec) ==
    IF mode = 3 THEN NearestMultiple(v, 10^(Scale - prec))
    ELSE IF v = 0 \/ NumDigits(v) <= prec THEN v
    ELSE NearestMultiple(v, 10^(NumDigits(v) - prec))

\* The digits dtoa returns, up to strEnd, with expOut, are the rounding of
\* |d| that vfprintf asked for by mode and prec, and no shorter prefix of
\* them is: vfprintf prints strEnd - str digits and pads the rest itself,
\* so a zero value has none.  The sign is d's.
DtoaValueExact ==
    call.fn = "dtoa" /\ result.ok =>
        LET v == PrintfRounded(Abs(125 * call.d), call.mode, call.prec) IN
        /\ result.strEnd \in 0..Len(result.str)
        /\ Denotes(result.str, result.strEnd, result.expOut, v)
        /\ \A k \in 0..result.strEnd - 1 :
               ~Denotes(result.str, k, result.expOut, v)
        /\ result.sign = (call.d < 0)

\* wmemchr returns the first position among the first n holding c, NULL
\* if there is none.
WmemchrFindsFirst ==
    call.fn = "wmemchr" =>
        LET hits == {i \in 1..call.n : call.s[i] = call.c} IN
        IF hits = {} THEN result = 0
        ELSE result \in hits /\ \A i \in hits : result <= i

\* bsd_btowc returns the byte's wide character, or WEOF where the byte is
\* no character by itself (its comment: the check `> 1' "detects error
\* return values").
BtowcCharOrWeof ==
    call.fn = "btowc" =>
        IF call.c # EOF /\ call.c < 128 THEN result = call.c
        ELSE result = WEOF
=============================================================================
