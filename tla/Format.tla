------------------------------- MODULE Format -------------------------------
(***************************************************************************)
(* Formatted output and input of kiwilib: kvformat and its sinks,          *)
(* vsscanf (userspace/kiwilib/src/stdio.c) and strtoull (stdlib.c).        *)
(*                                                                         *)
(* A format string is given by what it says: the flags, width and          *)
(* conversion of one directive.  Integers have WordBits bits instead of    *)
(* 64.  Each call starts with its input in "call" and puts its result      *)
(* there.                                                                  *)
(***************************************************************************)
EXTENDS Integers, Sequences, FiniteSets

CONSTANTS
  WordBits,   \* the width of a long long
  Directives, \* [left, plus, space, alt, zero, width, spec]
  PrintArgs,  \* integers to print
  BufferSizes,\* sizes given to snprintf
  Numerals,   \* texts given to strtoull
  Bases       \* and their bases

VARIABLE call

formatVars == call

NUL == "NUL"
DigitChars == <<"0", "1", "2", "3", "4", "5", "6", "7", "8", "9", "a", "b", "c", "d", "e", "f">>
DigitValue(c) == IF \E i \in 1..16 : DigitChars[i] = c THEN (CHOOSE i \in 1..16 : DigitChars[i] = c) - 1 ELSE -1
Repeat(c, n) == [i \in 1..n |-> c]
Word == 2^WordBits
Unsigned(v) == v % Word
Signed(v) == IF v >= Word \div 2 THEN v - Word ELSE v

-----------------------------------------------------------------------------
(* Printing.                                                               *)

BaseOf(spec) == CASE spec \in {"d", "u", "i"} -> 10 [] spec = "o" -> 8 [] OTHER -> 16

\* utoa_base: the digits, most significant first.
Utoa(value, base) ==
  LET F[n \in 0..WordBits, v \in 0..(Word - 1)] ==
        IF v = 0 \/ n = 0 THEN <<>> ELSE Append(F[n - 1, v \div base], DigitChars[(v % base) + 1])
  IN IF value = 0 THEN <<"0">> ELSE F[WordBits, value]

\* The size of a negative number, without overflow at the most negative one.
Magnitude(v) == IF v < 0 THEN Unsigned(-(v + 1)) + 1 ELSE v

SignOf(d, v) == IF v < 0 THEN <<"-">> ELSE IF d.plus THEN <<"+">> ELSE IF d.space THEN <<" ">> ELSE <<>>

PrefixOf(d, v) ==
  CASE d.spec \in {"d", "i"} -> SignOf(d, v)
    [] d.spec = "o" /\ d.alt /\ v # 0 -> <<"0">>
    [] d.spec = "x" /\ d.alt /\ v # 0 -> <<"0", "x">>
    [] OTHER -> <<>>

NumberText(d, v) ==
  IF d.spec \in {"d", "i"} THEN PrefixOf(d, v) \o Utoa(Magnitude(v), 10)
  ELSE PrefixOf(d, v) \o Utoa(Unsigned(v), BaseOf(d.spec))

PadOf(d) == IF d.zero THEN "0" ELSE " "

FormatText(d, text) ==
  LET padding == IF d.width > Len(text) THEN d.width - Len(text) ELSE 0
  IN IF d.left THEN text \o Repeat(" ", padding) ELSE Repeat(PadOf(d), padding) \o text

Kvformat(d, v) == FormatText(d, NumberText(d, v))

\* sink_putc into a buffer; the position runs on when the buffer is full.
SinkPutc(s, c) ==
  [buf |-> IF s.pos + 1 < s.size THEN [s.buf EXCEPT ![s.pos + 1] = c] ELSE s.buf, pos |-> s.pos + 1, size |-> s.size]

SinkFinish(s) ==
  IF s.size = 0 THEN s
  ELSE IF s.pos < s.size THEN [s EXCEPT !.buf[s.pos + 1] = NUL] ELSE [s EXCEPT !.buf[s.size] = NUL]

\* vsnprintf: the buffer, with "?" where nothing is written, and the result.
Vsnprintf(size, out) ==
  LET F[i \in 0..Len(out)] ==
        IF i = 0 THEN [buf |-> Repeat("?", size), pos |-> 0, size |-> size] ELSE SinkPutc(F[i - 1], out[i])
  IN [buf |-> SinkFinish(F[Len(out)]).buf, ret |-> F[Len(out)].pos]

-----------------------------------------------------------------------------
(* Scanning.  Positions count the characters already passed.               *)

At(s, p) == IF p < Len(s) THEN s[p + 1] ELSE NUL

SkipSpaces(s, p) ==
  CHOOSE q \in p..Len(s) : (\A i \in p..(q - 1) : At(s, i) = " ") /\ At(s, q) # " "

SignLen(s, p) == IF At(s, p) \in {"+", "-"} THEN 1 ELSE 0

HexPrefix(s, p, base) == base \in {0, 16} /\ At(s, p) = "0" /\ At(s, p + 1) = "x"

BaseUsed(s, p, base) ==
  IF HexPrefix(s, p, base) THEN 16 ELSE IF base # 0 THEN base ELSE IF At(s, p) = "0" THEN 8 ELSE 10

\* Digits start after "0x", and in base 0 after a leading "0" as well.
DigitsFrom(s, p, base) ==
  IF HexPrefix(s, p, base) THEN p + 2 ELSE IF base = 0 /\ At(s, p) = "0" THEN p + 1 ELSE p

AccumulateWide(v, base, digit) == v * base + digit

Accumulate(v, base, digit) == Unsigned(v * base + digit)

\* The loop over the digits: where it stops and the value.
DigitLoop(s, start, base) ==
  LET F[n \in 0..(Len(s) - start)] ==
        IF n = 0 THEN [end |-> start, v |-> 0, more |-> TRUE]
        ELSE LET prev == F[n - 1]
                 digit == DigitValue(At(s, prev.end))
             IN IF prev.more /\ digit >= 0 /\ digit < base
                THEN [end |-> prev.end + 1, v |-> Accumulate(prev.v, base, digit), more |-> TRUE]
                ELSE [prev EXCEPT !.more = FALSE]
  IN F[Len(s) - start]

StrtoullFrom(s, p, base) ==
  LET start == DigitsFrom(s, p + SignLen(s, p), base)
      r == DigitLoop(s, start, BaseUsed(s, p + SignLen(s, p), base))
  IN [value |-> IF At(s, p) = "-" THEN Unsigned(-r.v) ELSE r.v, end |-> IF r.end = start THEN 0 ELSE r.end]

Strtoull(s, base) == StrtoullFrom(s, SkipSpaces(s, 0), base)

\* vsscanf of one integer after white space: the non-blank characters, as
\* many as the width allows, go to strtoull.
ScanBase(spec) == CASE spec = "i" -> 0 [] spec = "o" -> 8 [] spec = "x" -> 16 [] OTHER -> 10

TokenEnd(s, p, width) ==
  CHOOSE q \in p..Len(s) :
    /\ \A i \in p..(q - 1) : At(s, i) # " " /\ (width = 0 \/ i - p < width)
    /\ At(s, q) \in {" ", NUL} \/ (width # 0 /\ q - p >= width)

ScanToken(spec, token) ==
  IF token = <<>> \/ Strtoull(token, ScanBase(spec)).end = 0 THEN [assigned |-> 0, value |-> 0]
  ELSE [assigned |-> 1,
        value |-> IF spec \in {"d", "i"} THEN Signed(Strtoull(token, ScanBase(spec)).value)
                  ELSE Strtoull(token, ScanBase(spec)).value]

Vsscanf(s, spec, width) ==
  LET p == SkipSpaces(s, 0)
  IN ScanToken(spec, SubSeq(s, p + 1, TokenEnd(s, p, width)))

-----------------------------------------------------------------------------
Pending == [buf |-> <<>>, ret |-> 0, assigned |-> 0, value |-> 0, end |-> 0]

FormatInit ==
  \/ \E d \in Directives, v \in PrintArgs, size \in BufferSizes :
       call = [kind |-> "print", d |-> d, arg |-> v, size |-> size, text |-> <<>>, base |-> 0, done |-> FALSE, r |-> Pending]
  \/ \E s \in Numerals, b \in Bases :
       call = [kind |-> "parse", d |-> CHOOSE d \in Directives : TRUE, arg |-> 0, size |-> 0, text |-> s, base |-> b,
               done |-> FALSE, r |-> Pending]

\* snprintf, and sscanf of the whole text with the same conversion.
PrintAndScan(out, scanned, printed) ==
  call' = [call EXCEPT !.done = TRUE, !.text = out,
                       !.r = [Pending EXCEPT !.buf = printed.buf, !.ret = printed.ret,
                                             !.assigned = scanned.assigned, !.value = scanned.value]]

PrintCall ==
  /\ call.kind = "print" /\ ~call.done
  /\ \E out \in {Kvformat(call.d, call.arg)} : PrintAndScan(out, Vsscanf(out, call.d.spec, 0), Vsnprintf(call.size, out))

ParseCall ==
  /\ call.kind = "parse" /\ ~call.done
  /\ \E r \in {Strtoull(call.text, call.base)} :
       call' = [call EXCEPT !.done = TRUE, !.r = [Pending EXCEPT !.value = r.value, !.end = r.end]]

FormatNext == PrintCall \/ ParseCall

-----------------------------------------------------------------------------
\* snprintf writes the start of the whole output that fits with its final
\* NUL, nothing beyond the buffer and nothing at all into a buffer of size 0;
\* its result is the full length, so that vasprintf can allocate from it
\* (sink_putc, sink_finish, vsnprintf).
SnprintfExact ==
  (call.kind = "print" /\ call.done) =>
    LET fits == IF Len(call.text) < call.size THEN Len(call.text) ELSE call.size - 1
    IN /\ call.r.ret = Len(call.text)
       /\ Len(call.r.buf) = call.size
       /\ call.size > 0 => SubSeq(call.r.buf, 1, fits + 1) = Append(SubSeq(call.text, 1, fits), NUL)

\* What kvformat prints is at least as wide as asked, and vsscanf with the
\* same conversion reads the argument back.  Left out are two things the
\* library gets wrong: zeros are padded in front of a sign or "0x", and %i
\* does not accept a lone 0 (see the hazards).
ScanReadsBack ==
  (/\ call.kind = "print" /\ call.done
   /\ ~(call.d.zero /\ ~call.d.left /\ PrefixOf(call.d, call.arg) # <<>>)
   /\ call.d.spec = "i" => call.arg # 0 /\ ~call.d.zero) =>
    /\ Len(call.text) >= call.d.width
    /\ call.r.assigned = 1
    /\ call.r.value = IF call.d.spec \in {"d", "i"} THEN call.arg ELSE Unsigned(call.arg)

ValueOf(digits, base) ==
  LET F[i \in 0..Len(digits)] == IF i = 0 THEN 0 ELSE F[i - 1] * base + DigitValue(digits[i]) IN F[Len(digits)]

\* s is a numeral: i blanks, a sign if j > i, a prefix of k - j characters
\* and digits.
ImpliedBase(base, prefix) == IF base # 0 THEN base ELSE <<10, 8, 16>>[prefix + 1]

Numeral(s, base, i, j, k) ==
  /\ \A n \in 1..i : s[n] = " "
  /\ j > i => j = i + 1 /\ s[j] \in {"+", "-"}
  /\ k = j => base # 0 \/ s[k + 1] # "0"
  /\ k = j + 1 => base = 0 /\ s[k] = "0"
  /\ k = j + 2 => base \in {0, 16} /\ s[k - 1] = "0" /\ s[k] = "x"
  /\ \A n \in (k + 1)..Len(s) : DigitValue(s[n]) \in 0..(ImpliedBase(base, k - j) - 1)

\* The ways to read s as a numeral.
Readings(s, base) ==
  {<<i, j, k>> \in (0..Len(s)) \X (0..Len(s)) \X (0..(Len(s) - 1)) :
     i <= j /\ j <= k /\ k <= j + 2 /\ Numeral(s, base, i, j, k)}

ReadingValue(s, base, r) ==
  LET v == ValueOf(SubSeq(s, r[3] + 1, Len(s)), ImpliedBase(base, r[3] - r[2]))
  IN Unsigned(IF r[2] > r[1] /\ s[r[2]] = "-" THEN -v ELSE v)

\* A prefix without a digit after it: "0x", or 0 alone in base 0.
BarePrefix(s, base) ==
  \E n \in 1..Len(s) :
    /\ s[n] = "0" /\ (n > 1 => s[n - 1] \in {" ", "+", "-"})
    /\ \/ base \in {0, 16} /\ At(s, n) = "x" /\ DigitValue(At(s, n + 1)) < 0
       \/ base = 0 /\ At(s, n) # "x" /\ DigitValue(At(s, n)) \notin 0..7

\* strtoull accepts the longest numeral at the start of the text, with its
\* value modulo 2^64, and reports the start if there is none.  Left out are
\* bare prefixes, which it refuses although their 0 is a numeral.
StrtoullLongest ==
  (call.kind = "parse" /\ call.done /\ ~BarePrefix(call.text, call.base)) =>
    LET numerals == {n \in 1..Len(call.text) : Readings(SubSeq(call.text, 1, n), call.base) # {}}
        accepted == SubSeq(call.text, 1, call.r.end)
    IN IF numerals = {} THEN call.r.end = 0
       ELSE /\ call.r.end \in numerals /\ \A n \in numerals : n <= call.r.end
            /\ \A r \in Readings(accepted, call.base) : call.r.value = ReadingValue(accepted, call.base, r)

\* Formatting and scanning agree with their definitions and with each other.
FormatExact == SnprintfExact /\ ScanReadsBack /\ StrtoullLongest
=============================================================================
