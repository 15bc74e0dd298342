------------------------------- MODULE StrUtils -------------------------------
(***************************************************************************)
(* 1-GeneralKnowlegde: the string functions of strutils.c, called in the   *)
(* order of main.c: str_trim, str_reverse, str_to_int.  A buffer is the    *)
(* sequence of the len characters a function is given; buf[k + 1] is       *)
(* str[k].  One step is a call or one iteration of a loop, the test that   *)
(* ends it included.  INT32_MAX is a parameter, so that overflow is within *)
(* reach; buffers are far shorter than 2^31.                               *)
(***************************************************************************)
EXTENDS Integers, Sequences, SequencesExt

CONSTANTS
  NUL, Space, Minus,  \* '\0', ' ' and '-'
  Letter,             \* a character that is none of these and no digit
  Digit,              \* Digit[c]: the value of the digit c, for the digits in use
  INT32_MAX,          \* the largest int32_t
  MaxLen              \* bound: the longest buffer

Char == {NUL, Letter, Space, Minus} \cup DOMAIN Digit

ASSUME StringAssumption ==
  /\ NUL \notin {Letter, Space, Minus} /\ Letter \notin {Space, Minus} /\ Space # Minus
  /\ {NUL, Letter, Space, Minus} \cap DOMAIN Digit = {}
  /\ \A c \in DOMAIN Digit : Digit[c] \in 0 .. 9
  /\ INT32_MAX \in Nat \ {0} /\ MaxLen \in Nat

Word == 2 * (INT32_MAX + 1)
ERRNO_II == -1
SUCCESS == 0

\* The int32_t with the bits of a uint32_t, and back.
ToSigned(u) == IF u > INT32_MAX THEN u - Word ELSE u
ToUnsigned(v) == v % Word

VARIABLES
  buf,         \* the characters of the buffer
  before,      \* what it was before the last call
  ret,         \* what the last call returned
  pc,          \* the call or the loop that is next
  start, end,  \* of str_trim
  tail,        \* of str_reverse
  value,       \* ret of str_to_int
  idx          \* the index of the loop

vars == <<buf, before, ret, pc, start, end, tail, value, idx>>

len == Len(buf)
\* str is never NULL where the functions are called.
validate_input == len > 0
is_digit(c) == c \in DOMAIN Digit
Goto(label) == pc' = label

\* Any string of main.c's kind: no NUL among the first len characters.
Init ==
  /\ buf \in BoundedSeq(Char \ {NUL}, MaxLen)
  /\ before = buf /\ ret = SUCCESS /\ pc = "trim"
  /\ start = 0 /\ end = 0 /\ tail = 0 /\ value = 0 /\ idx = 0

----------------------------------------------------------------------------
(***************************************************************************)
(* str_trim: start and end move in from both sides over spaces; then the   *)
(* characters between them are copied to the front, in place, and the rest *)
(* of the buffer is filled with NULs.                                      *)
(***************************************************************************)
CallTrim ==
  /\ pc = "trim"
  /\ before' = buf
  /\ IF validate_input THEN /\ Goto("trim_start") /\ start' = 0 /\ end' = len - 1
                            /\ UNCHANGED ret
                       ELSE /\ Goto("reverse") /\ ret' = ToUnsigned(ERRNO_II)
                            /\ UNCHANGED <<start, end>>
  /\ UNCHANGED <<buf, tail, value, idx>>

TrimStart ==
  /\ pc = "trim_start"
  /\ IF start < len /\ buf[start + 1] = Space
       THEN start' = start + 1 /\ UNCHANGED pc
       ELSE Goto("trim_end") /\ UNCHANGED start
  /\ UNCHANGED <<buf, before, ret, end, tail, value, idx>>

TrimEnd ==
  /\ pc = "trim_end"
  /\ IF end > start /\ buf[end + 1] = Space
       THEN end' = end - 1 /\ UNCHANGED <<pc, idx>>
       ELSE Goto("trim_copy") /\ idx' = 0 /\ UNCHANGED end
  /\ UNCHANGED <<buf, before, ret, start, tail, value>>

\* Mutant of TrimCopy: the copy stops in front of end.
TrimCopyShort ==
  /\ pc = "trim_copy"
  /\ IF idx < len
       THEN /\ buf' = [buf EXCEPT ![idx + 1] = IF idx + start < end
                                                 THEN buf[idx + start + 1] ELSE NUL]
            /\ idx' = idx + 1 /\ UNCHANGED <<pc, ret>>
       ELSE Goto("reverse") /\ ret' = SUCCESS /\ UNCHANGED <<buf, idx>>
  /\ UNCHANGED <<before, start, end, tail, value>>

TrimCopy ==
  /\ pc = "trim_copy"
  /\ IF idx < len
       THEN /\ buf' = [buf EXCEPT ![idx + 1] = IF idx + start <= end
                                                 THEN buf[idx + start + 1] ELSE NUL]
            /\ idx' = idx + 1 /\ UNCHANGED <<pc, ret>>
       ELSE Goto("reverse") /\ ret' = SUCCESS /\ UNCHANGED <<buf, idx>>
  /\ UNCHANGED <<before, start, end, tail, value>>

----------------------------------------------------------------------------
(***************************************************************************)
(* str_reverse: tail is the place of the first NUL, or len - 1 if there is *)
(* none; then the characters in front of tail are swapped pairwise.        *)
(***************************************************************************)
CallReverse ==
  /\ pc = "reverse"
  /\ before' = buf
  /\ IF validate_input THEN /\ Goto("find_tail") /\ tail' = len - 1 /\ idx' = 0
                            /\ UNCHANGED ret
                       ELSE /\ Goto("to_int") /\ ret' = ToUnsigned(ERRNO_II)
                            /\ UNCHANGED <<tail, idx>>
  /\ UNCHANGED <<buf, start, end, value>>

FindTail ==
  /\ pc = "find_tail"
  /\ IF idx < len /\ buf[idx + 1] # NUL
       THEN idx' = idx + 1 /\ UNCHANGED <<pc, tail>>
       ELSE Goto("swap") /\ tail' = (IF idx < len THEN idx ELSE tail) /\ idx' = 0
  /\ UNCHANGED <<buf, before, ret, start, end, value>>

swap_character(x, y) == buf' = [buf EXCEPT ![x + 1] = buf[y + 1], ![y + 1] = buf[x + 1]]

\* Mutant of Swap: the swap is with str[tail - idx].
SwapShifted ==
  /\ pc = "swap"
  /\ IF idx < tail \div 2
       THEN swap_character(idx, tail - idx) /\ idx' = idx + 1 /\ UNCHANGED <<pc, ret>>
       ELSE Goto("to_int") /\ ret' = SUCCESS /\ UNCHANGED <<buf, idx>>
  /\ UNCHANGED <<before, start, end, tail, value>>

Swap ==
  /\ pc = "swap"
  /\ IF idx < tail \div 2
       THEN swap_character(idx, tail - idx - 1) /\ idx' = idx + 1 /\ UNCHANGED <<pc, ret>>
       ELSE Goto("to_int") /\ ret' = SUCCESS /\ UNCHANGED <<buf, idx>>
  /\ UNCHANGED <<before, start, end, tail, value>>

----------------------------------------------------------------------------
(***************************************************************************)
(* str_to_int: an optional '-', then digits up to the end or a NUL, added  *)
(* up in a uint32_t; anything else is answered with INT32_MAX.             *)
(***************************************************************************)
CallToInt ==
  /\ pc = "to_int"
  /\ before' = buf
  /\ IF validate_input THEN /\ Goto("digits") /\ value' = 0
                            /\ idx' = (IF buf[1] = Minus THEN 1 ELSE 0)
                            /\ UNCHANGED ret
                       ELSE /\ Goto("done") /\ ret' = ERRNO_II
                            /\ UNCHANGED <<value, idx>>
  /\ UNCHANGED <<buf, start, end, tail>>

AddDigit ==
  /\ pc = "digits" /\ idx < len /\ is_digit(buf[idx + 1])
  /\ value' = (value * 10 + Digit[buf[idx + 1]]) % Word
  /\ idx' = idx + 1
  /\ UNCHANGED <<buf, before, ret, pc, start, end, tail>>

NoDigit ==
  /\ pc = "digits" /\ idx < len /\ buf[idx + 1] # NUL /\ ~is_digit(buf[idx + 1])
  /\ ret' = INT32_MAX
  /\ Goto("done")
  /\ UNCHANGED <<buf, before, start, end, tail, value, idx>>

\* Mutant of EndOfDigits: the sign is dropped.
EndOfDigitsUnsigned ==
  /\ pc = "digits" /\ ~(idx < len /\ buf[idx + 1] # NUL)
  /\ ret' = ToSigned(value)
  /\ Goto("done")
  /\ UNCHANGED <<buf, before, start, end, tail, value, idx>>

EndOfDigits ==
  /\ pc = "digits" /\ ~(idx < len /\ buf[idx + 1] # NUL)
  /\ ret' = ToSigned(IF buf[1] = Minus THEN (Word - value) % Word ELSE value)
  /\ Goto("done")
  /\ UNCHANGED <<buf, before, start, end, tail, value, idx>>

Next ==
  \/ CallTrim \/ TrimStart \/ TrimEnd \/ TrimCopy
  \/ CallReverse \/ FindTail \/ Swap
  \/ CallToInt \/ AddDigit \/ NoDigit \/ EndOfDigits

Spec == Init /\ [][Next]_vars

----------------------------------------------------------------------------
\* The C string in a buffer: the characters in front of the first NUL.
EndsAt(s, n) == (n = Len(s) \/ s[n + 1] = NUL) /\ \A k \in 1 .. n : s[k] # NUL
CString(s) == SubSeq(s, 1, CHOOSE n \in 0 .. Len(s) : EndsAt(s, n))

(***************************************************************************)
(* After str_trim the C string is what remains of the old one without the  *)
(* spaces at both ends, and nothing but NULs follows it.                   *)
(***************************************************************************)
TrimRemovesOuterSpaces ==
  pc = "reverse" =>
    LET r == CString(buf)
    IN /\ \E a \in 0 .. Len(before), b \in 0 .. Len(before) :
            /\ a + Len(r) + b = Len(before)
            /\ r = SubSeq(before, a + 1, a + Len(r))
            /\ \A k \in (1 .. a) \cup (a + Len(r) + 1 .. Len(before)) : before[k] = Space
       /\ r # <<>> => r[1] # Space /\ r[Len(r)] # Space
       /\ \A k \in Len(r) + 1 .. Len(buf) : buf[k] = NUL

(***************************************************************************)
(* str_reverse turns a string around whose NUL is within len, as it is     *)
(* after str_trim removed something.                                       *)
(***************************************************************************)
TerminatedStringReversed ==
  pc = "to_int" /\ NUL \in Range(before) => CString(buf) = Reverse(CString(before))

(***************************************************************************)
(* What str_reverse is for, and what its comment says of tail: the last    *)
(* non-null character is found and the whole string is turned around.      *)
(***************************************************************************)
WholeStringReversed ==
  pc = "to_int" => CString(buf) = Reverse(CString(before))

\* An optional sign in front of digits; the number that the digits denote: each one
\* more makes ten times as much of those in front of it; and the number with its sign.
Sign(s, k) == k = 1 /\ s[1] = Minus
Numeral(s) == s # <<>> /\ \A k \in DOMAIN s : is_digit(s[k]) \/ Sign(s, k)
Denotes(s) ==
  LET number[k \in 0 .. Len(s)] ==
        IF k = 0 \/ Sign(s, k) THEN 0 ELSE 10 * number[k - 1] + Digit[s[k]]
  IN number[Len(s)]
SignedValue(s) == IF Sign(s, 1) THEN -Denotes(s) ELSE Denotes(s)

(***************************************************************************)
(* str_to_int returns the number a numeral denotes whenever an int32_t can *)
(* hold it, and INT32_MAX for a string with another character in it.  A    *)
(* '-' alone counts as a numeral without digits, 0.                        *)
(***************************************************************************)
NumeralsConverted ==
  pc = "done" /\ CString(buf) # <<>> =>
    IF Numeral(CString(buf))
      THEN SignedValue(CString(buf)) \in -INT32_MAX - 1 .. INT32_MAX =>
             ret = SignedValue(CString(buf))
      ELSE ret = INT32_MAX
==============================================================================
