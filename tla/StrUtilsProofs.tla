--------------------------- MODULE StrUtilsProofs ---------------------------
(***************************************************************************)
(* Proofs about StrUtils for buffers of any length over any characters:    *)
(* the loops of the three functions with their invariants.                 *)
(***************************************************************************)
EXTENDS StrUtils, SequenceTheorems, WellFoundedInduction, TLAPS

Trimming == {"trim", "trim_start", "trim_end", "trim_copy"}
Reversing == {"reverse", "find_tail", "swap"}
Converting == {"to_int", "digits", "done"}

StringTypes ==
  /\ buf \in Seq(Char) /\ before \in Seq(Char) /\ Len(buf) = Len(before)
  /\ pc \in Trimming \cup Reversing \cup Converting
  /\ start \in Nat /\ end \in Int /\ tail \in Int /\ idx \in Nat

(***************************************************************************)
(* str_trim.  Everything in front of start and behind end is a space, and  *)
(* the loops leave start and end at characters that are none, unless all   *)
(* are spaces and start ran to len.  The copy in place reads characters    *)
(* that it has not yet written.                                            *)
(***************************************************************************)
Outer ==
  /\ start <= len /\ end < len /\ (start < len => start <= end)
  /\ start = len => end = len - 1
  /\ \A k \in 1 .. len : k <= start \/ k > end + 1 => before[k] = Space

Found == start < len => before[start + 1] # Space /\ before[end + 1] # Space

Copied(n) ==
  /\ \A k \in 1 .. len : k <= n =>
       buf[k] = IF k - 1 + start <= end THEN before[k + start] ELSE NUL
  /\ \A k \in 1 .. len : k > n => buf[k] = before[k]

TrimLoops ==
  /\ pc \in Trimming => \A k \in 1 .. len : before[k] # NUL
  /\ pc \in Trimming \ {"trim_copy"} => buf = before
  /\ pc \in Trimming \ {"trim"} => len > 0 /\ Outer
  /\ pc = "trim_start" => end = len - 1
  /\ pc = "trim_end" /\ start < len => before[start + 1] # Space
  /\ pc = "trim_copy" => Found /\ idx <= len /\ Copied(idx)

(***************************************************************************)
(* str_reverse.  tail is the first NUL, or len - 1 without one; the loop   *)
(* has exchanged the first idx characters with those in front of tail.     *)
(***************************************************************************)
TailFound ==
  /\ 0 <= tail /\ tail < len
  /\ \/ before[tail + 1] = NUL /\ \A k \in 1 .. tail : before[k] # NUL
     \/ \A k \in 1 .. len : before[k] # NUL

Swapped(n) ==
  \A k \in 1 .. len :
    buf[k] = IF k <= tail /\ (k <= n \/ k > tail - n) THEN before[tail + 1 - k] ELSE before[k]

ReverseLoops ==
  /\ pc = "find_tail" => /\ buf = before /\ len > 0 /\ tail = len - 1 /\ idx <= len
                         /\ \A k \in 1 .. idx : before[k] # NUL
  /\ pc = "swap" => TailFound /\ idx <= tail \div 2 /\ Swapped(idx)

StringInv ==
  StringTypes /\ TrimLoops /\ ReverseLoops
    /\ TrimRemovesOuterSpaces /\ TerminatedStringReversed

----------------------------------------------------------------------------
\* The place of the first NUL is the only one at which a C string can end.
LEMMA CStringIs ==
  ASSUME NEW s \in Seq(Char), NEW n \in 0 .. Len(s), EndsAt(s, n)
  PROVE  /\ CString(s) = SubSeq(s, 1, n)
         /\ CString(s) \in Seq(Char) /\ Len(CString(s)) = n
         /\ \A k \in 1 .. n : CString(s)[k] = s[k]
<1>1. ASSUME NEW m \in 0 .. Len(s), EndsAt(s, m) PROVE m = n
  <2>1. ~(m < n)
    BY <1>1 DEF EndsAt
  <2>2. ~(n < m)
    BY <1>1 DEF EndsAt
  <2> QED
    BY <2>1, <2>2
<1>2. (CHOOSE m \in 0 .. Len(s) : EndsAt(s, m)) = n
  BY <1>1
<1>3. CString(s) = SubSeq(s, 1, n)
  BY <1>2 DEF CString
<1>4. /\ SubSeq(s, 1, n) \in Seq(Char) /\ Len(SubSeq(s, 1, n)) = n
      /\ \A k \in 1 .. n : SubSeq(s, 1, n)[k] = s[k]
  OBVIOUS
<1> QED
  BY <1>3, <1>4

\* Setting one character of a buffer.
LEMMA SetCharacter ==
  ASSUME NEW s \in Seq(Char), NEW i \in 1 .. Len(s), NEW c \in Char
  PROVE  /\ [s EXCEPT ![i] = c] \in Seq(Char)
         /\ Len([s EXCEPT ![i] = c]) = Len(s)
         /\ \A k \in 1 .. Len(s) : [s EXCEPT ![i] = c][k] = IF k = i THEN c ELSE s[k]
  BY ExceptSeq

\* The first call finds the buffer main made.
LEMMA StringInit == Init => StringInv
<1> SUFFICES ASSUME Init PROVE StringInv
  OBVIOUS
<1>1. buf \in Seq(Char) /\ \A k \in 1 .. Len(buf) : buf[k] # NUL
  <2>1. PICK n \in 0 .. MaxLen : buf \in [1 .. n -> Char \ {NUL}]
    BY DEF Init, BoundedSeq, SeqOf
  <2>2. n \in Nat
    BY <2>1, StringAssumption
  <2> QED
    BY <2>1, <2>2
<1>2. /\ before = buf /\ pc = "trim" /\ start = 0 /\ end = 0 /\ tail = 0 /\ idx = 0
  BY DEF Init
<1>3. StringTypes
  BY <1>1, <1>2 DEF StringTypes, Trimming
<1>4. TrimLoops /\ ReverseLoops
  BY <1>1, <1>2 DEF TrimLoops, ReverseLoops, Trimming, len
<1> QED
  BY <1>2, <1>3, <1>4 DEF StringInv, TrimRemovesOuterSpaces, TerminatedStringReversed

----------------------------------------------------------------------------
\* The copy loop has come to the end.
AllCopied ==
  /\ StringTypes /\ len > 0 /\ Outer /\ Found /\ Copied(len)
  /\ \A k \in 1 .. len : before[k] # NUL

\* What the copy loop leaves is the old string without its outer spaces.
LEMMA TrimDone == AllCopied => TrimRemovesOuterSpaces
<1> SUFFICES ASSUME AllCopied, pc = "reverse" PROVE TrimRemovesOuterSpaces
  BY DEF TrimRemovesOuterSpaces
<1> USE DEF AllCopied
<1> DEFINE n == IF start < len THEN end - start + 1 ELSE 0
           r == CString(buf)
<1>1. /\ buf \in Seq(Char) /\ before \in Seq(Char) /\ Len(buf) = len /\ Len(before) = len
      /\ len \in Nat /\ start \in Nat /\ end \in Int
  BY DEF StringTypes, len
<1>2. n \in 0 .. len /\ start \in 0 .. len /\ start + n <= len
  BY <1>1 DEF Outer
<1>3. \A k \in 1 .. len : k - 1 + start <= end <=> k <= n
  BY <1>1, <1>2 DEF Outer
<1>4. \A k \in 1 .. len : buf[k] = IF k <= n THEN before[k + start] ELSE NUL
  BY <1>1, <1>3 DEF Copied
<1>5. \A k \in 1 .. n : k + start \in 1 .. len /\ k \in 1 .. len
  BY <1>1, <1>2
<1>6. EndsAt(buf, n)
  <2>1. \A k \in 1 .. n : buf[k] # NUL
    BY <1>4, <1>5
  <2>2. n = len \/ (n + 1 \in 1 .. len /\ ~(n + 1 <= n))
    BY <1>1, <1>2
  <2>3. n = Len(buf) \/ buf[n + 1] = NUL
    BY <1>1, <1>4, <2>2
  <2> QED
    BY <2>1, <2>3 DEF EndsAt
<1> HIDE DEF n
<1>7. r \in Seq(Char) /\ Len(r) = n /\ \A k \in 1 .. n : r[k] = buf[k]
  BY <1>1, <1>2, <1>6, CStringIs
<1>8. r = SubSeq(before, start + 1, start + n)
  <2> DEFINE q == SubSeq(before, start + 1, start + n)
  <2>1. q \in Seq(Char) /\ Len(q) = n /\ \A k \in 1 .. n : q[k] = before[start + k]
    BY <1>1, <1>2
  <2>2. \A k \in 1 .. n : r[k] = before[start + k]
    BY <1>1, <1>4, <1>5, <1>7
  <2> HIDE DEF q, r
  <2>3. r = q
    BY <1>7, <2>1, <2>2, SeqEqual
  <2> QED
    BY <2>3 DEF q, r
<1>9. \A k \in (1 .. start) \cup (start + n + 1 .. Len(before)) : before[k] = Space
  <2>1. \A k \in (1 .. start) \cup (start + n + 1 .. Len(before)) :
           k \in 1 .. len /\ (k <= start \/ k > end + 1)
    BY <1>1, <1>2 DEF n, Outer
  <2> QED
    BY <2>1 DEF Outer
<1>10. r # <<>> => r[1] # Space /\ r[Len(r)] # Space
  <2> SUFFICES ASSUME r # <<>> PROVE r[1] # Space /\ r[n] # Space
    BY <1>7
  <2>1. n > 0
    <3>1. n = 0 => r = <<>>
      BY <1>7
    <3> QED
      BY <1>2, <3>1
  <2>2. start < len /\ start + n = end + 1 /\ 1 \in 1 .. n /\ n \in 1 .. n
    BY <1>1, <1>2, <2>1 DEF n
  <2>3. r[1] = before[1 + start] /\ r[n] = before[n + start]
    BY <1>4, <1>5, <1>7, <2>2
  <2>4. 1 + start = start + 1 /\ n + start = end + 1
    BY <1>1, <1>2, <2>2
  <2> QED
    BY <2>2, <2>3, <2>4 DEF Found
<1>11. \A k \in n + 1 .. Len(buf) : buf[k] = NUL
  <2>1. \A k \in n + 1 .. Len(buf) : k \in 1 .. len /\ ~(k <= n)
    BY <1>1, <1>2
  <2> QED
    BY <1>4, <2>1
<1>12. start \in 0 .. Len(before) /\ len - start - n \in 0 .. Len(before)
       /\ start + n + (len - start - n) = Len(before)
  BY <1>1, <1>2
<1> HIDE DEF r
<1>13. \E a \in 0 .. Len(before), b \in 0 .. Len(before) :
         /\ a + Len(r) + b = Len(before)
         /\ r = SubSeq(before, a + 1, a + Len(r))
         /\ \A k \in (1 .. a) \cup (a + Len(r) + 1 .. Len(before)) : before[k] = Space
  BY <1>7, <1>8, <1>9, <1>12
<1> QED
  BY <1>7, <1>10, <1>11, <1>13 DEF TrimRemovesOuterSpaces, r

\* Every step of str_trim keeps StringInv.
LEMMA TrimStep ==
  StringInv /\ (CallTrim \/ TrimStart \/ TrimEnd \/ TrimCopy) => StringInv'
<1>c. AllCopied' => TrimRemovesOuterSpaces'
  BY TrimDone, PTL
<1> SUFFICES ASSUME StringInv, CallTrim \/ TrimStart \/ TrimEnd \/ TrimCopy
             PROVE  StringInv'
  OBVIOUS
<1>i. /\ StringTypes /\ TrimLoops
      /\ buf \in Seq(Char) /\ before \in Seq(Char) /\ Len(buf) = len /\ Len(before) = len
      /\ len \in Nat /\ start \in Nat /\ end \in Int /\ tail \in Int /\ idx \in Nat
  BY DEF StringInv, StringTypes, len
<1> USE DEF Goto
<1>1. CASE CallTrim
  <2>1. /\ pc = "trim" /\ before' = buf /\ buf' = buf /\ UNCHANGED <<tail, idx>> /\ len' = len
    BY <1>1 DEF CallTrim, len
  <2>2. buf = before /\ \A k \in 1 .. len : before[k] # NUL
    BY <1>i, <2>1 DEF TrimLoops, Trimming
  <2>3. CASE validate_input
    <3>1. pc' = "trim_start" /\ start' = 0 /\ end' = len - 1 /\ len > 0
      BY <1>1, <2>3 DEF CallTrim, validate_input
    <3>2. StringTypes'
      BY <1>i, <2>1, <3>1 DEF StringTypes, Trimming
    <3>3. Outer'
      BY <1>i, <2>1, <3>1 DEF Outer
    <3>4. TrimLoops'
      BY <1>i, <2>1, <2>2, <3>1, <3>3 DEF TrimLoops, Trimming
    <3> QED
      BY <3>1, <3>2, <3>4 DEF StringInv, ReverseLoops, TrimRemovesOuterSpaces,
         TerminatedStringReversed
  <2>4. CASE ~validate_input
    <3>1. pc' = "reverse" /\ UNCHANGED <<start, end>> /\ len = 0
      BY <1>i, <1>1, <2>4 DEF CallTrim, validate_input
    <3>2. StringTypes'
      BY <1>i, <2>1, <3>1 DEF StringTypes, Reversing
    <3>3. CString(buf) = <<>>
      <4>1. EndsAt(buf, 0) /\ 0 \in 0 .. Len(buf)
        BY <1>i, <3>1 DEF EndsAt
      <4>2. CString(buf) \in Seq(Char) /\ Len(CString(buf)) = 0
        BY <1>i, <4>1, CStringIs
      <4> QED
        BY <4>2
    <3>4. TrimRemovesOuterSpaces'
      <4>1. CString(buf') = <<>> /\ Len(before') = 0 /\ Len(buf') = 0 /\ before' = <<>>
        BY <1>i, <2>1, <3>1, <3>3
      <4> QED
        BY <4>1 DEF TrimRemovesOuterSpaces
    <3> QED
      BY <3>1, <3>2, <3>4 DEF StringInv, TrimLoops, ReverseLoops, Trimming,
         TerminatedStringReversed
  <2> QED
    BY <2>3, <2>4
<1>2. CASE TrimStart
  <2>1. pc = "trim_start" /\ UNCHANGED <<buf, before, end, tail, idx>> /\ len' = len
    BY <1>2 DEF TrimStart, len
  <2>2. /\ buf = before /\ len > 0 /\ Outer /\ end = len - 1
        /\ \A k \in 1 .. len : before[k] # NUL
    BY <1>i, <2>1 DEF TrimLoops, Trimming
  <2>3. CASE start < len /\ buf[start + 1] = Space
    <3>1. pc' = "trim_start" /\ start' = start + 1
      BY <1>2, <2>3 DEF TrimStart
    <3>2. StringTypes'
      BY <1>i, <2>1, <3>1 DEF StringTypes, Trimming
    <3>3. Outer'
      BY <1>i, <2>1, <2>2, <2>3, <3>1 DEF Outer
    <3>4. TrimLoops'
      BY <1>i, <2>1, <2>2, <3>1, <3>3 DEF TrimLoops, Trimming
    <3> QED
      BY <3>1, <3>2, <3>4 DEF StringInv, ReverseLoops, TrimRemovesOuterSpaces,
         TerminatedStringReversed
  <2>4. CASE ~(start < len /\ buf[start + 1] = Space)
    <3>1. pc' = "trim_end" /\ start' = start
      BY <1>2, <2>4 DEF TrimStart
    <3>2. StringTypes'
      BY <1>i, <2>1, <3>1 DEF StringTypes, Trimming
    <3>3. Outer'
      BY <1>i, <2>1, <2>2, <3>1 DEF Outer
    <3>4. TrimLoops'
      BY <1>i, <2>1, <2>2, <2>4, <3>1, <3>3 DEF TrimLoops, Trimming
    <3> QED
      BY <3>1, <3>2, <3>4 DEF StringInv, ReverseLoops, TrimRemovesOuterSpaces,
         TerminatedStringReversed
  <2> QED
    BY <2>3, <2>4
<1>3. CASE TrimEnd
  <2>1. pc = "trim_end" /\ UNCHANGED <<buf, before, start, tail>> /\ len' = len
    BY <1>3 DEF TrimEnd, len
  <2>2. /\ buf = before /\ len > 0 /\ Outer
        /\ start < len => before[start + 1] # Space
        /\ \A k \in 1 .. len : before[k] # NUL
    BY <1>i, <2>1 DEF TrimLoops, Trimming
  <2>3. CASE end > start /\ buf[end + 1] = Space
    <3>1. pc' = "trim_end" /\ end' = end - 1 /\ idx' = idx
      BY <1>3, <2>3 DEF TrimEnd
    <3>2. StringTypes'
      BY <1>i, <2>1, <3>1 DEF StringTypes, Trimming
    <3>3. Outer'
      BY <1>i, <2>1, <2>2, <2>3, <3>1 DEF Outer
    <3>4. TrimLoops'
      BY <1>i, <2>1, <2>2, <3>1, <3>3 DEF TrimLoops, Trimming
    <3> QED
      BY <3>1, <3>2, <3>4 DEF StringInv, ReverseLoops, TrimRemovesOuterSpaces,
         TerminatedStringReversed
  <2>4. CASE ~(end > start /\ buf[end + 1] = Space)
    <3>1. pc' = "trim_copy" /\ end' = end /\ idx' = 0
      BY <1>3, <2>4 DEF TrimEnd
    <3>2. StringTypes'
      BY <1>i, <2>1, <3>1 DEF StringTypes, Trimming
    <3>3. Outer' /\ Found'
      <4>1. start < len => start <= end
        BY <2>2 DEF Outer
      <4>2. start < len => before[end + 1] # Space
        BY <1>i, <2>2, <2>4, <4>1
      <4> QED
        BY <1>i, <2>1, <2>2, <3>1, <4>2 DEF Outer, Found
    <3>4. Copied(idx)'
      BY <1>i, <2>1, <2>2, <3>1 DEF Copied
    <3>5. TrimLoops'
      BY <1>i, <2>1, <2>2, <3>1, <3>3, <3>4 DEF TrimLoops, Trimming
    <3> QED
      BY <3>1, <3>2, <3>5 DEF StringInv, ReverseLoops, TrimRemovesOuterSpaces,
         TerminatedStringReversed
  <2> QED
    BY <2>3, <2>4
<1>4. CASE TrimCopy
  <2>1. pc = "trim_copy" /\ UNCHANGED <<before, start, end, tail>>
    BY <1>4 DEF TrimCopy
  <2>2. /\ len > 0 /\ Outer /\ Found /\ idx <= len /\ Copied(idx)
        /\ \A k \in 1 .. len : before[k] # NUL
    BY <1>i, <2>1 DEF TrimLoops, Trimming
  <2>3. CASE idx < len
    <3> DEFINE c == IF idx + start <= end THEN buf[idx + start + 1] ELSE NUL
    <3>1. pc' = "trim_copy" /\ idx' = idx + 1 /\ buf' = [buf EXCEPT ![idx + 1] = c]
      BY <1>4, <2>3 DEF TrimCopy
    <3>2. idx + 1 \in 1 .. Len(buf)
      BY <1>i, <2>3
    <3>3. c = (IF idx + start <= end THEN before[idx + 1 + start] ELSE NUL) /\ c \in Char
      <4>1. ASSUME idx + start <= end
            PROVE  buf[idx + start + 1] = before[idx + 1 + start] /\ buf[idx + start + 1] \in Char
        <5>1. idx + start + 1 \in 1 .. len /\ idx + start + 1 > idx
              /\ idx + 1 + start = idx + start + 1
          BY <1>i, <2>2, <4>1 DEF Outer
        <5> QED
          BY <1>i, <2>2, <5>1 DEF Copied
      <4>2. NUL \in Char
        BY DEF Char
      <4> QED
        BY <4>1, <4>2
    <3> HIDE DEF c
    <3>4. /\ buf' \in Seq(Char) /\ Len(buf') = len
          /\ \A k \in 1 .. len : buf'[k] = IF k = idx + 1 THEN c ELSE buf[k]
      BY <1>i, <3>1, <3>2, <3>3, SetCharacter
    <3>5. len' = len
      BY <3>4 DEF len
    <3>6. StringTypes'
      BY <1>i, <2>1, <3>1, <3>4 DEF StringTypes, Trimming
    <3>7. Outer' /\ Found'
      BY <2>1, <2>2, <3>5 DEF Outer, Found
    <3>8. Copied(idx)'
      <4>1. ASSUME NEW k \in 1 .. len, k <= idx + 1
            PROVE  buf'[k] = IF k - 1 + start <= end THEN before[k + start] ELSE NUL
        <5>1. CASE k = idx + 1
          <6>1. k - 1 + start = idx + start
            BY <1>i, <5>1
          <6> QED
            BY <3>3, <3>4, <5>1, <6>1
        <5>2. CASE k # idx + 1
          <6>1. k <= idx
            BY <1>i, <4>1, <5>2
          <6> QED
            BY <2>2, <3>4, <5>2, <6>1 DEF Copied
        <5> QED
          BY <5>1, <5>2
      <4>2. ASSUME NEW k \in 1 .. len, k > idx + 1 PROVE buf'[k] = before[k]
        <5>1. k > idx /\ k # idx + 1
          BY <1>i, <4>2
        <5> QED
          BY <2>2, <3>4, <5>1 DEF Copied
      <4> QED
        BY <2>1, <3>1, <3>5, <4>1, <4>2 DEF Copied
    <3>9. TrimLoops'
      BY <1>i, <2>1, <2>2, <2>3, <3>1, <3>5, <3>7, <3>8 DEF TrimLoops, Trimming
    <3> QED
      BY <3>1, <3>6, <3>9 DEF StringInv, ReverseLoops, TrimRemovesOuterSpaces,
         TerminatedStringReversed
  <2>4. CASE ~(idx < len)
    <3>1. pc' = "reverse" /\ buf' = buf /\ idx' = idx
      BY <1>4, <2>4 DEF TrimCopy
    <3>2. idx = len /\ len' = len
      BY <1>i, <2>2, <2>4, <3>1 DEF len
    <3>3. StringTypes'
      BY <1>i, <2>1, <3>1 DEF StringTypes, Reversing
    <3>4. (len > 0)' /\ Outer' /\ Found' /\ Copied(len)'
          /\ (\A k \in 1 .. len : before[k] # NUL)'
      BY <2>1, <2>2, <3>1, <3>2 DEF Outer, Found, Copied
    <3>5. AllCopied'
      BY <3>3, <3>4 DEF AllCopied
    <3>6. TrimRemovesOuterSpaces'
      BY <1>c, <3>5
    <3> QED
      BY <3>1, <3>3, <3>6 DEF StringInv, TrimLoops, ReverseLoops, Trimming,
         TerminatedStringReversed
  <2> QED
    BY <2>3, <2>4
<1> QED
  BY <1>1, <1>2, <1>3, <1>4

----------------------------------------------------------------------------
\* The swap loop has come to the middle.
AllSwapped == StringTypes /\ TailFound /\ Swapped(tail \div 2)

\* A string whose NUL is at tail is then turned around.
LEMMA ReverseDone == AllSwapped => TerminatedStringReversed
<1> SUFFICES ASSUME AllSwapped, NUL \in Range(before)
             PROVE  CString(buf) = Reverse(CString(before))
  BY DEF TerminatedStringReversed
<1> DEFINE h == tail \div 2
<1>1. /\ buf \in Seq(Char) /\ before \in Seq(Char) /\ Len(buf) = len /\ Len(before) = len
      /\ len \in Nat /\ tail \in Nat /\ tail < len
  BY DEF AllSwapped, StringTypes, TailFound, len
<1>2. before[tail + 1] = NUL /\ \A k \in 1 .. tail : before[k] # NUL
  <2>1. PICK k \in 1 .. len : before[k] = NUL
    BY <1>1 DEF Range
  <2> QED
    BY <2>1 DEF AllSwapped, TailFound
<1>3. h \in Nat /\ (tail = 2 * h \/ tail = 2 * h + 1)
  BY <1>1
<1>4. \A k \in 1 .. len :
        buf[k] = IF k <= tail /\ (k <= h \/ k > tail - h) THEN before[tail + 1 - k] ELSE before[k]
  BY DEF AllSwapped, Swapped
<1> HIDE DEF h
<1>5. ASSUME NEW k \in 1 .. tail PROVE buf[k] = before[tail + 1 - k]
  <2>0. k \in 1 .. len
    BY <1>1
  <2>1. CASE k <= h \/ k > tail - h
    BY <1>1, <1>4, <2>0, <2>1
  <2>2. CASE ~(k <= h \/ k > tail - h)
    <3>1. tail + 1 - k = k
      BY <1>1, <1>3, <2>2
    <3>2. buf[k] = before[k]
      BY <1>4, <2>0, <2>2
    <3> QED
      BY <3>1, <3>2
  <2> QED
    BY <2>1, <2>2
<1>6. EndsAt(before, tail) /\ tail \in 0 .. len
  BY <1>1, <1>2 DEF EndsAt
<1>7. EndsAt(buf, tail)
  <2>1. \A k \in 1 .. tail : tail + 1 - k \in 1 .. tail
    BY <1>1
  <2>2. \A k \in 1 .. tail : buf[k] # NUL
    BY <1>2, <1>5, <2>1
  <2>3. tail + 1 \in 1 .. len /\ ~(tail + 1 <= tail)
    BY <1>1
  <2>4. buf[tail + 1] = NUL
    BY <1>2, <1>4, <2>3
  <2> QED
    BY <2>2, <2>4 DEF EndsAt
<1> DEFINE a == CString(before)
           b == CString(buf)
<1>8. a \in Seq(Char) /\ Len(a) = tail /\ \A k \in 1 .. tail : a[k] = before[k]
  BY <1>1, <1>6, CStringIs
<1>9. b \in Seq(Char) /\ Len(b) = tail /\ \A k \in 1 .. tail : b[k] = buf[k]
  BY <1>1, <1>6, <1>7, CStringIs
<1> HIDE DEF a, b
<1>10. Reverse(a) = [k \in 1 .. tail |-> a[(tail - k) + 1]]
  BY <1>8 DEF Reverse
<1>11. \A k \in 1 .. tail : (tail - k) + 1 \in 1 .. tail /\ (tail - k) + 1 = tail + 1 - k
  BY <1>1
<1>12. ASSUME NEW k \in 1 .. tail PROVE b[k] = a[(tail - k) + 1]
  <2>1. a[(tail - k) + 1] = before[(tail - k) + 1]
    BY <1>8, <1>11
  <2>2. b[k] = before[tail + 1 - k]
    BY <1>5, <1>9
  <2> QED
    BY <1>11, <2>1, <2>2
<1>13. b = [k \in 1 .. tail |-> b[k]]
  BY <1>9, LenProperties
<1>14. b = Reverse(a)
  BY <1>10, <1>12, <1>13
<1> QED
  BY <1>14 DEF a, b

\* Every step of str_reverse keeps StringInv.
LEMMA ReverseStep == StringInv /\ (CallReverse \/ FindTail \/ Swap) => StringInv'
<1>c. AllSwapped' => TerminatedStringReversed'
  BY ReverseDone, PTL
<1> SUFFICES ASSUME StringInv, CallReverse \/ FindTail \/ Swap PROVE StringInv'
  OBVIOUS
<1>i. /\ StringTypes /\ ReverseLoops
      /\ buf \in Seq(Char) /\ before \in Seq(Char) /\ Len(buf) = len /\ Len(before) = len
      /\ len \in Nat /\ start \in Nat /\ end \in Int /\ tail \in Int /\ idx \in Nat
  BY DEF StringInv, StringTypes, len
<1> USE DEF Goto
<1>n. pc' \notin Trimming /\ pc' # "reverse" => TrimLoops' /\ TrimRemovesOuterSpaces'
  BY DEF TrimLoops, Trimming, TrimRemovesOuterSpaces
<1>1. CASE CallReverse
  <2>1. pc = "reverse" /\ before' = buf /\ UNCHANGED <<buf, start, end>> /\ len' = len
    BY <1>1 DEF CallReverse, len
  <2>2. CASE validate_input
    <3>1. pc' = "find_tail" /\ tail' = len - 1 /\ idx' = 0 /\ len > 0
      BY <1>1, <2>2 DEF CallReverse, validate_input
    <3>2. StringTypes'
      BY <1>i, <2>1, <3>1 DEF StringTypes, Reversing
    <3>3. ReverseLoops'
      BY <1>i, <2>1, <3>1 DEF ReverseLoops
    <3> QED
      BY <1>n, <3>1, <3>2, <3>3 DEF StringInv, Trimming, TerminatedStringReversed
  <2>3. CASE ~validate_input
    <3>1. pc' = "to_int" /\ UNCHANGED <<tail, idx>> /\ len = 0
      BY <1>i, <1>1, <2>3 DEF CallReverse, validate_input
    <3>2. StringTypes'
      BY <1>i, <2>1, <3>1 DEF StringTypes, Converting
    <3>3. NUL \notin Range(before')
      BY <1>i, <2>1, <3>1 DEF Range
    <3> QED
      BY <1>n, <3>1, <3>2, <3>3 DEF StringInv, Trimming, ReverseLoops, TerminatedStringReversed
  <2> QED
    BY <2>2, <2>3
<1>2. CASE FindTail
  <2>1. pc = "find_tail" /\ UNCHANGED <<buf, before, start, end>> /\ len' = len
    BY <1>2 DEF FindTail, len
  <2>2. /\ buf = before /\ len > 0 /\ tail = len - 1 /\ idx <= len
        /\ \A k \in 1 .. idx : before[k] # NUL
    BY <1>i, <2>1 DEF ReverseLoops
  <2>3. CASE idx < len /\ buf[idx + 1] # NUL
    <3>1. pc' = "find_tail" /\ idx' = idx + 1 /\ tail' = tail
      BY <1>2, <2>3 DEF FindTail
    <3>2. StringTypes'
      BY <1>i, <2>1, <3>1 DEF StringTypes, Reversing
    <3>3. \A k \in 1 .. idx + 1 : before[k] # NUL
      <4>1. \A k \in 1 .. idx + 1 : k \in 1 .. idx \/ k = idx + 1
        BY <1>i
      <4> QED
        BY <2>2, <2>3, <4>1
    <3>4. ReverseLoops'
      BY <1>i, <2>1, <2>2, <2>3, <3>1, <3>3 DEF ReverseLoops
    <3> QED
      BY <1>n, <3>1, <3>2, <3>4 DEF StringInv, Trimming, TerminatedStringReversed
  <2>4. CASE ~(idx < len /\ buf[idx + 1] # NUL)
    <3>1. pc' = "swap" /\ idx' = 0 /\ tail' = IF idx < len THEN idx ELSE tail
      BY <1>2, <2>4 DEF FindTail
    <3>2. tail' \in Nat /\ tail' < len
      BY <1>i, <2>2, <3>1
    <3>3. StringTypes'
      BY <1>i, <2>1, <3>1, <3>2 DEF StringTypes, Reversing
    <3>4. TailFound'
      <4>1. CASE idx < len
        BY <2>1, <2>2, <2>4, <3>1, <3>2, <4>1 DEF TailFound
      <4>2. CASE ~(idx < len)
        <5>1. idx = len
          BY <1>i, <2>2, <4>2
        <5> QED
          BY <2>1, <2>2, <3>2, <5>1 DEF TailFound
      <4> QED
        BY <4>1, <4>2
    <3>5. Swapped(idx)'
      <4>1. \A k \in 1 .. len : ~(k <= tail' /\ (k <= idx' \/ k > tail' - idx'))
        BY <1>i, <3>1, <3>2
      <4>2. \A k \in 1 .. len : buf'[k] = before'[k]
        BY <2>1, <2>2
      <4> QED
        BY <2>1, <4>1, <4>2 DEF Swapped
    <3>6. (idx <= tail \div 2)'
      <4>1. \A n \in Nat : 0 <= n \div 2
        OBVIOUS
      <4>2. idx' = 0 /\ tail' \in Nat
        BY <3>1, <3>2
      <4> QED
        BY <4>1, <4>2
    <3> QED
      BY <1>n, <3>1, <3>3, <3>4, <3>5, <3>6
      DEF StringInv, Trimming, ReverseLoops, TerminatedStringReversed
  <2> QED
    BY <2>3, <2>4
<1>3. CASE Swap
  <2>1. pc = "swap" /\ UNCHANGED <<before, start, end, tail>>
    BY <1>3 DEF Swap
  <2>2. TailFound /\ idx <= tail \div 2 /\ Swapped(idx)
    BY <1>i, <2>1 DEF ReverseLoops
  <2>3. tail \in Nat /\ tail < len /\ tail \div 2 \in Nat /\ 2 * (tail \div 2) <= tail
    BY <1>i, <2>2 DEF TailFound
  <2>4. CASE idx < tail \div 2
    <3> DEFINE x == idx + 1
               y == tail - idx
    <3>1. /\ x \in 1 .. len /\ y \in 1 .. len /\ x < y /\ y <= tail
          /\ tail - idx - 1 + 1 = y /\ tail + 1 - x = y /\ tail + 1 - y = x
      BY <1>i, <2>3, <2>4
    <3>2. /\ pc' = "swap" /\ idx' = x
          /\ buf' = [[buf EXCEPT ![x] = buf[y]] EXCEPT ![y] = buf[x]]
      BY <1>3, <2>4, <3>1 DEF Swap, swap_character
    <3> HIDE DEF x, y
    <3>3. /\ [buf EXCEPT ![x] = buf[y]] \in Seq(Char)
          /\ Len([buf EXCEPT ![x] = buf[y]]) = len
          /\ \A k \in 1 .. len : [buf EXCEPT ![x] = buf[y]][k] = IF k = x THEN buf[y] ELSE buf[k]
      <4>1. buf[y] \in Char
        BY <1>i, <3>1
      <4> QED
        BY <1>i, <3>1, <4>1, SetCharacter
    <3>4. /\ buf' \in Seq(Char) /\ Len(buf') = len
          /\ \A k \in 1 .. len :
               buf'[k] = IF k = y THEN buf[x] ELSE IF k = x THEN buf[y] ELSE buf[k]
      <4> DEFINE s == [buf EXCEPT ![x] = buf[y]]
      <4>1. buf[x] \in Char
        BY <1>i, <3>1
      <4>2. s \in Seq(Char) /\ Len(s) = len
            /\ \A k \in 1 .. len : s[k] = IF k = x THEN buf[y] ELSE buf[k]
        BY <3>3
      <4>3. buf' = [s EXCEPT ![y] = buf[x]]
        BY <3>2
      <4> HIDE DEF s
      <4>4. /\ buf' \in Seq(Char) /\ Len(buf') = Len(s)
            /\ \A k \in 1 .. Len(s) : buf'[k] = IF k = y THEN buf[x] ELSE s[k]
        BY <3>1, <4>1, <4>2, <4>3, SetCharacter
      <4> QED
        BY <4>2, <4>4
    <3>5. len' = len
      BY <3>4 DEF len
    <3>6. buf[x] = before[x] /\ buf[y] = before[y]
      <4>1. ~(x <= idx \/ x > tail - idx) /\ ~(y <= idx \/ y > tail - idx)
        BY <1>i, <2>3, <2>4, <3>1 DEF x, y
      <4> QED
        BY <2>2, <3>1, <4>1 DEF Swapped
    <3>7. ASSUME NEW k \in 1 .. len
          PROVE  buf'[k] = IF k <= tail /\ (k <= x \/ k > tail - x)
                             THEN before[tail + 1 - k] ELSE before[k]
      <4>0. x = idx + 1 /\ y = tail - idx
        BY DEF x, y
      <4>1. CASE k = x
        <5>1. k <= tail /\ k <= x /\ k # y
          BY <1>i, <2>3, <3>1, <4>1
        <5> QED
          BY <3>1, <3>4, <3>6, <4>1, <5>1
      <4>2. CASE k = y
        <5>1. k <= tail /\ k > tail - x
          BY <1>i, <2>3, <3>1, <4>0, <4>2
        <5> QED
          BY <3>1, <3>4, <3>6, <4>2, <5>1
      <4>3. CASE k # x /\ k # y
        <5>1. (k <= x \/ k > tail - x) <=> (k <= idx \/ k > tail - idx)
          BY <1>i, <2>3, <4>0, <4>3
        <5>2. buf'[k] = buf[k]
          BY <3>4, <4>3
        <5> QED
          BY <2>2, <5>1, <5>2 DEF Swapped
      <4> QED
        BY <4>1, <4>2, <4>3
    <3>8. Swapped(idx)'
      BY <2>1, <3>2, <3>5, <3>7 DEF Swapped
    <3>9. StringTypes'
      BY <1>i, <2>1, <3>1, <3>2, <3>4 DEF StringTypes, Reversing
    <3>10. TailFound' /\ (idx <= tail \div 2)'
      <4>1. x <= tail \div 2
        BY <1>i, <2>3, <2>4 DEF x
      <4> QED
        BY <2>1, <2>2, <3>2, <3>5, <4>1 DEF TailFound
    <3> QED
      BY <1>n, <3>2, <3>8, <3>9, <3>10
      DEF StringInv, Trimming, ReverseLoops, TerminatedStringReversed
  <2>5. CASE ~(idx < tail \div 2)
    <3>1. pc' = "to_int" /\ UNCHANGED <<buf, idx>>
      BY <1>3, <2>5 DEF Swap
    <3>2. idx = tail \div 2 /\ len' = len
      BY <1>i, <2>2, <2>3, <2>5, <3>1 DEF len
    <3>3. StringTypes'
      BY <1>i, <2>1, <3>1 DEF StringTypes, Converting
    <3>4. AllSwapped'
      <4>1. TailFound'
        BY <2>1, <2>2, <3>1, <3>2 DEF TailFound
      <4>2. Swapped(tail \div 2)'
        BY <2>1, <2>2, <3>1, <3>2 DEF Swapped
      <4> QED
        BY <3>3, <4>1, <4>2 DEF AllSwapped
    <3> QED
      BY <1>c, <1>n, <3>1, <3>3, <3>4 DEF StringInv, Trimming, ReverseLoops
  <2> QED
    BY <2>4, <2>5
<1> QED
  BY <1>1, <1>2, <1>3

\* str_to_int leaves the buffer alone.
LEMMA ConvertStep ==
  ASSUME StringInv, CallToInt \/ AddDigit \/ NoDigit \/ EndOfDigits
  PROVE  StringInv'
<1> USE DEF Goto
<1>i. StringTypes
  BY DEF StringInv
<1>1. /\ pc' \in {"digits", "done"} /\ UNCHANGED <<buf, start, end, tail>>
      /\ before' = buf \/ before' = before
  BY <1>i DEF CallToInt, AddDigit, NoDigit, EndOfDigits
<1>2. idx' \in Nat
  BY <1>i DEF StringTypes, CallToInt, AddDigit, NoDigit, EndOfDigits
<1>3. StringTypes'
  BY <1>i, <1>1, <1>2 DEF StringTypes, Converting
<1> QED
  BY <1>1, <1>3 DEF StringInv, TrimLoops, ReverseLoops, Trimming, TrimRemovesOuterSpaces,
     TerminatedStringReversed

\* StringInv holds in every state.
LEMMA StringInvariant == Spec => []StringInv
<1>1. StringInv /\ [Next]_vars => StringInv'
  <2>1. StringInv /\ UNCHANGED vars => StringInv'
    <3> SUFFICES ASSUME StringInv, UNCHANGED vars PROVE StringInv'
      OBVIOUS
    <3>1. UNCHANGED <<buf, before, pc, start, end, tail, idx, len>>
      BY DEF vars, len
    <3>2. StringTypes' /\ TrimLoops' /\ ReverseLoops'
      BY <3>1 DEF StringInv, StringTypes, TrimLoops, ReverseLoops, Outer, Found, Copied,
         TailFound, Swapped
    <3>3. TrimRemovesOuterSpaces' /\ TerminatedStringReversed'
      BY <3>1 DEF StringInv, TrimRemovesOuterSpaces, TerminatedStringReversed
    <3> QED
      BY <3>2, <3>3 DEF StringInv
  <2> QED
    BY <2>1, TrimStep, ReverseStep, ConvertStep DEF Next
<1> QED
  BY <1>1, StringInit, PTL DEF Spec

(***************************************************************************)
(* str_trim leaves the C string without the spaces at its ends, and NULs   *)
(* behind it, in buffers of any length: the copy in place never reads what *)
(* it has overwritten, and a string of spaces only becomes empty.          *)
(***************************************************************************)
THEOREM OuterSpacesTrimmed == Spec => []TrimRemovesOuterSpaces
<1>1. StringInv => TrimRemovesOuterSpaces
  BY DEF StringInv
<1> QED
  BY <1>1, StringInvariant, PTL

(***************************************************************************)
(* str_reverse turns around every string whose NUL is within len, of even  *)
(* and odd length.                                                         *)
(***************************************************************************)
THEOREM TerminatedReversed == Spec => []TerminatedStringReversed
<1>1. StringInv => TerminatedStringReversed
  BY DEF StringInv
<1> QED
  BY <1>1, StringInvariant, PTL

----------------------------------------------------------------------------
(***************************************************************************)
(* str_to_int.  f[k] is the number that the first k characters denote; the *)
(* loop has built it for the characters it has seen, and value is that     *)
(* number in a uint32_t.                                                   *)
(***************************************************************************)
Adds(f, s, k) == IF k = 0 \/ Sign(s, k) THEN 0 ELSE 10 * f[k - 1] + Digit[s[k]]
Counts(f, s, n) == \A k \in 0 .. n : f[k] = Adds(f, s, k)
InWord(number, v) == number \in Nat /\ \E q \in Nat : number = v + q * Word

DigitLoop ==
  pc = "digits" =>
    /\ len > 0 /\ idx <= len /\ value \in 0 .. Word - 1 /\ (buf[1] = Minus => idx > 0)
    /\ \A k \in 1 .. idx : is_digit(buf[k]) \/ Sign(buf, k)
    /\ \E f : f = [k \in 0 .. idx |-> Adds(f, buf, k)]
    /\ \A f : Counts(f, buf, idx) => InWord(f[idx], value)

NumberInv == DigitLoop /\ NumeralsConverted

\* A set of natural numbers has a least one.
LEMMA LeastNumber ==
  ASSUME NEW T, T \subseteq Nat, T # {}
  PROVE  \E n \in T : \A m \in T : n <= m
<1>1. \E R : IsWellFoundedOn(R, Nat) /\ \A x, y \in Nat : x < y => <<x, y>> \in R
  <2>1. \A x, y \in Nat : x < y => <<x, y>> \in OpToRel(<, Nat)
    BY DEF OpToRel
  <2> QED
    BY <2>1, NatLessThanWellFounded
<1>2. PICK R : IsWellFoundedOn(R, Nat) /\ \A x, y \in Nat : x < y => <<x, y>> \in R
  BY <1>1
<1>3. IsWellFoundedOn(R, Nat)
  BY <1>2
<1>4. \E n \in T : \A m \in T : ~(<<m, n>> \in R)
  BY <1>3, WFMin, Zenon
<1>5. PICK n \in T : \A m \in T : ~(<<m, n>> \in R)
  BY <1>4
<1>6. \A m \in T : ~(m < n)
  BY <1>2, <1>5, Zenon
<1>7. \A m \in T : m \in Nat /\ n \in Nat
  BY <1>5
<1> QED
  BY <1>6, <1>7

\* Every buffer has a place where its C string ends.
LEMMA EndExists ==
  ASSUME NEW s \in Seq(Char)
  PROVE  \E n \in 0 .. Len(s) : EndsAt(s, n)
<1> DEFINE T == {k \in 0 .. Len(s) : k = Len(s) \/ s[k + 1] = NUL}
<1>1. Len(s) \in T /\ T \subseteq Nat
  OBVIOUS
<1>2. T # {}
  BY <1>1
<1>3. PICK n \in T : \A m \in T : n <= m
  BY <1>1, <1>2, LeastNumber
<1>4. n \in 0 .. Len(s) /\ (n = Len(s) \/ s[n + 1] = NUL)
  OBVIOUS
<1>5. ASSUME NEW k \in 1 .. n, s[k] = NUL PROVE FALSE
  <2>1. k - 1 \in 0 .. Len(s) /\ (k - 1) + 1 = k /\ ~(n <= k - 1)
    BY <1>4
  <2>2. k - 1 \in T
    BY <1>5, <2>1
  <2> QED
    BY <1>3, <2>1, <2>2
<1> QED
  BY <1>4, <1>5 DEF EndsAt

\* One more digit, in the number and in the word.
LEMMA NextDigit ==
  ASSUME NEW number, NEW v \in Nat, NEW d \in Nat, InWord(number, v)
  PROVE  /\ (v * 10 + d) % Word \in 0 .. Word - 1
         /\ InWord(10 * number + d, (v * 10 + d) % Word)
<1> DEFINE x == v * 10 + d
<1>1. PICK q \in Nat : number = v + q * Word
  BY DEF InWord
<1>2. number \in Nat /\ Word \in Nat /\ Word > 0
  BY StringAssumption DEF InWord, Word
<1>3. x \in Nat /\ x % Word \in 0 .. Word - 1 /\ x \div Word \in Nat
      /\ x = Word * (x \div Word) + (x % Word)
  BY <1>2
<1> HIDE DEF x
<1>4. 10 * number + d = x + (10 * q) * Word
  BY <1>1, <1>2 DEF x
<1>5. (10 * q + (x \div Word)) * Word = (10 * q) * Word + Word * (x \div Word)
  BY <1>2, <1>3
<1>6. q * Word \in Nat /\ (10 * q) * Word \in Nat /\ (x \div Word) * Word \in Nat
  BY <1>2, <1>3
<1>7. 10 * number + d = (x % Word) + (10 * q + (x \div Word)) * Word
  BY <1>2, <1>3, <1>4, <1>5, <1>6
<1>8. 10 * q + (x \div Word) \in Nat /\ 10 * number + d \in Nat
  BY <1>2, <1>3
<1> QED
  BY <1>3, <1>7, <1>8 DEF x, InWord

\* A number below Word is the word.
LEMMA SmallNumber ==
  ASSUME NEW number, NEW v \in 0 .. Word - 1, InWord(number, v), number < Word
  PROVE  number = v
<1>1. PICK q \in Nat : number = v + q * Word
  BY DEF InWord
<1>2. number \in Nat /\ Word \in Nat /\ Word > 0
  BY StringAssumption DEF InWord, Word
<1>3. q * Word \in Nat
  BY <1>2
<1>4. q > 0 => q * Word >= Word
  <2>1. q > 0 => q * Word = Word + (q - 1) * Word /\ (q - 1) * Word \in Nat
    BY <1>2
  <2> QED
    BY <1>2, <2>1
<1>5. q = 0
  BY <1>1, <1>2, <1>3, <1>4
<1> QED
  BY <1>1, <1>2, <1>5

\* The number of a string is defined when the numbers of its beginnings are.
LEMMA DenotesIs ==
  ASSUME NEW s, Len(s) \in Nat, \E f : f = [k \in 0 .. Len(s) |-> Adds(f, s, k)]
  PROVE  \E f : Counts(f, s, Len(s)) /\ Denotes(s) = f[Len(s)]
<1> DEFINE P(f) == f = [k \in 0 .. Len(s) |-> Adds(f, s, k)]
           g == CHOOSE f : P(f)
<1>1. P(g)
  <2>1. PICK f : P(f)
    OBVIOUS
  <2> HIDE DEF P
  <2> QED
    BY <2>1
<1>2. Denotes(s) = g[Len(s)]
  BY DEF Denotes, Adds
<1> HIDE DEF g
<1>3. Counts(g, s, Len(s))
  BY <1>1 DEF Counts
<1> QED
  BY <1>2, <1>3

\* The loop has come to the end of the numeral.
AllDigits == pc = "digits" /\ StringTypes /\ DigitLoop /\ ~(idx < len /\ buf[idx + 1] # NUL)

\* The number of the C string is then the one that value has in a word.
LEMMA NumberFound ==
  ASSUME AllDigits, CString(buf) # <<>>
  PROVE  /\ SignedValue(CString(buf)) = IF buf[1] = Minus THEN -Denotes(CString(buf))
                                                          ELSE Denotes(CString(buf))
         /\ Numeral(CString(buf)) /\ InWord(Denotes(CString(buf)), value)
<1> DEFINE r == CString(buf)
<1>1. /\ buf \in Seq(Char) /\ Len(buf) = len /\ len \in Nat /\ idx \in Nat /\ idx <= len
      /\ \A k \in 1 .. idx : is_digit(buf[k]) \/ Sign(buf, k)
      /\ \E f : f = [k \in 0 .. idx |-> Adds(f, buf, k)]
      /\ \A f : Counts(f, buf, idx) => InWord(f[idx], value)
  BY DEF AllDigits, StringTypes, DigitLoop, len
<1>2. EndsAt(buf, idx) /\ idx \in 0 .. Len(buf)
  <2>1. \A k \in 1 .. idx : buf[k] # NUL
    BY <1>1, StringAssumption DEF is_digit, Sign
  <2>2. idx = Len(buf) \/ buf[idx + 1] = NUL
    BY <1>1 DEF AllDigits
  <2> QED
    BY <1>1, <2>1, <2>2 DEF EndsAt
<1>3. r \in Seq(Char) /\ Len(r) = idx /\ \A k \in 1 .. idx : r[k] = buf[k]
  BY <1>1, <1>2, CStringIs
<1> HIDE DEF r
<1>4. r # <<>> /\ idx > 0
  <2>1. r # <<>>
    BY DEF r
  <2>2. idx = 0 => r = <<>>
    BY <1>3
  <2> QED
    BY <1>1, <2>1, <2>2
<1>5. r[1] = buf[1] /\ \A k \in 0 .. idx : Sign(r, k) <=> Sign(buf, k)
  BY <1>1, <1>3, <1>4 DEF Sign
<1>6. \A k \in 0 .. idx : \A f : Adds(f, r, k) = Adds(f, buf, k)
  BY <1>1, <1>3, <1>5 DEF Adds
<1>7. Numeral(r)
  <2>1. DOMAIN r = 1 .. idx
    BY <1>3
  <2> QED
    BY <1>1, <1>3, <1>4, <1>5, <2>1 DEF Numeral
<1>8. \E f : f = [k \in 0 .. Len(r) |-> Adds(f, r, k)]
  <2>1. PICK f : f = [k \in 0 .. idx |-> Adds(f, buf, k)]
    BY <1>1
  <2>2. [k \in 0 .. idx |-> Adds(f, buf, k)] = [k \in 0 .. Len(r) |-> Adds(f, r, k)]
    BY <1>3, <1>6
  <2> QED
    BY <2>1, <2>2
<1>9. PICK f : Counts(f, r, idx) /\ Denotes(r) = f[idx]
  BY <1>1, <1>3, <1>8, DenotesIs
<1>10. Counts(f, buf, idx)
  BY <1>6, <1>9 DEF Counts
<1>11. InWord(Denotes(r), value)
  BY <1>1, <1>9, <1>10
<1>12. SignedValue(r) = IF buf[1] = Minus THEN -Denotes(r) ELSE Denotes(r)
  BY <1>5 DEF SignedValue, Sign
<1> QED
  BY <1>7, <1>11, <1>12 DEF r

\* The word that is returned is the number with its sign, if an int32_t can hold it.
LEMMA SignedWord ==
  ASSUME NEW number, NEW v \in 0 .. Word - 1, InWord(number, v)
  PROVE  /\ number \in -INT32_MAX - 1 .. INT32_MAX => ToSigned(v) = number
         /\ -number \in -INT32_MAX - 1 .. INT32_MAX => ToSigned((Word - v) % Word) = -number
<1>1. number \in Nat /\ Word = 2 * (INT32_MAX + 1) /\ INT32_MAX \in Nat /\ INT32_MAX > 0
  BY StringAssumption DEF InWord, Word
<1>2. number < Word => number = v
  BY SmallNumber
<1>3. ASSUME number \in -INT32_MAX - 1 .. INT32_MAX PROVE ToSigned(v) = number
  BY <1>1, <1>2, <1>3 DEF ToSigned
<1>4. ASSUME -number \in -INT32_MAX - 1 .. INT32_MAX
      PROVE  ToSigned((Word - v) % Word) = -number
  <2>1. number = v /\ v <= INT32_MAX + 1
    BY <1>1, <1>2, <1>4
  <2>2. CASE v = 0
    <3>1. Word % Word = 0
      BY <1>1
    <3> QED
      BY <1>1, <2>1, <2>2, <3>1 DEF ToSigned
  <2>3. CASE v > 0
    <3>1. Word - v \in 0 .. Word - 1
      BY <1>1, <2>3
    <3>2. (Word - v) % Word = Word - v
      BY <1>1, <3>1
    <3> QED
      BY <1>1, <2>1, <2>3, <3>2 DEF ToSigned
  <2> QED
    BY <2>2, <2>3
<1> QED
  BY <1>3, <1>4

\* Every step of str_to_int keeps NumberInv.
LEMMA NumberStep ==
  ASSUME StringInv, NumberInv, CallToInt \/ AddDigit \/ NoDigit \/ EndOfDigits
  PROVE  NumberInv'
<1>i. /\ StringTypes /\ DigitLoop
      /\ buf \in Seq(Char) /\ Len(buf) = len /\ len \in Nat /\ idx \in Nat
  BY DEF StringInv, StringTypes, NumberInv, len
<1>w. Word \in Nat /\ Word > 0
  BY StringAssumption DEF Word
<1>u. UNCHANGED buf /\ len' = len
  BY DEF CallToInt, AddDigit, NoDigit, EndOfDigits, len
<1> USE DEF Goto
<1>1. CASE CallToInt
  <2>1. CASE validate_input
    <3>1. /\ pc' = "digits" /\ value' = 0 /\ len > 0
          /\ idx' = IF buf[1] = Minus THEN 1 ELSE 0
      BY <1>1, <2>1 DEF CallToInt, validate_input
    <3>2. \A k \in 1 .. idx' : is_digit(buf[k]) \/ Sign(buf, k)
      BY <3>1 DEF Sign
    <3>3. \A k \in 0 .. idx' : k = 0 \/ Sign(buf, k)
      BY <3>1 DEF Sign
    <3>4. \A k \in 0 .. idx' : \A f : Adds(f, buf, k) = 0
      BY <3>3 DEF Adds
    <3>5. \E f : f = [k \in 0 .. idx' |-> Adds(f, buf, k)]
      <4> DEFINE f == [k \in 0 .. idx' |-> 0]
      <4>1. f = [k \in 0 .. idx' |-> Adds(f, buf, k)]
        BY <3>4
      <4> QED
        BY <4>1
    <3>6. ASSUME NEW f, Counts(f, buf, idx') PROVE InWord(f[idx'], 0)
      <4>1. idx' \in 0 .. idx' /\ 0 \in Nat /\ 0 = 0 + 0 * Word
        BY <1>w, <3>1
      <4>2. f[idx'] = 0
        BY <3>4, <3>6, <4>1 DEF Counts
      <4> QED
        BY <4>1, <4>2 DEF InWord
    <3>7. DigitLoop'
      <4>1. 0 \in 0 .. Word - 1 /\ idx' <= len /\ (buf[1] = Minus => idx' > 0)
        BY <1>i, <1>w, <3>1
      <4> QED
        BY <1>u, <3>1, <3>2, <3>5, <3>6, <4>1 DEF DigitLoop, Counts, Adds, InWord, Sign, is_digit
    <3> QED
      BY <3>1, <3>7 DEF NumberInv, NumeralsConverted
  <2>2. CASE ~validate_input
    <3>1. pc' = "done" /\ len = 0
      BY <1>i, <1>1, <2>2 DEF CallToInt, validate_input
    <3>2. CString(buf) = <<>>
      <4>1. EndsAt(buf, 0) /\ 0 \in 0 .. Len(buf)
        BY <1>i, <3>1 DEF EndsAt
      <4>2. CString(buf) \in Seq(Char) /\ Len(CString(buf)) = 0
        BY <1>i, <4>1, CStringIs
      <4> QED
        BY <4>2
    <3> QED
      BY <1>u, <3>1, <3>2 DEF NumberInv, DigitLoop, NumeralsConverted
  <2> QED
    BY <2>1, <2>2
<1>2. CASE AddDigit
  <2> DEFINE n == idx + 1
             d == Digit[buf[n]]
  <2>1. /\ pc = "digits" /\ pc' = "digits" /\ idx < len /\ is_digit(buf[n]) /\ idx' = n
        /\ value' = (value * 10 + d) % Word
    BY <1>2 DEF AddDigit
  <2>2. /\ len > 0 /\ value \in 0 .. Word - 1 /\ (buf[1] = Minus => idx > 0)
        /\ \A k \in 1 .. idx : is_digit(buf[k]) \/ Sign(buf, k)
        /\ \E f : f = [k \in 0 .. idx |-> Adds(f, buf, k)]
        /\ \A f : Counts(f, buf, idx) => InWord(f[idx], value)
    BY <1>i, <2>1 DEF DigitLoop
  <2>3. d \in Nat /\ value \in Nat /\ n \in Nat /\ n - 1 = idx /\ n # 0 /\ n <= len
    BY <1>i, <1>w, <2>1, <2>2, StringAssumption DEF is_digit
  <2>4. ~Sign(buf, n) /\ \A f : Adds(f, buf, n) = 10 * f[idx] + d
    <3>1. ~Sign(buf, n)
      BY <1>i, <2>1, StringAssumption DEF Sign, is_digit
    <3> QED
      BY <2>3, <3>1 DEF Adds
  <2> HIDE DEF d, n
  <2>5. \A k \in 0 .. n : k \in 0 .. idx \/ k = n
    BY <1>i, <2>3
  <2>6. \A k \in 1 .. n : is_digit(buf[k]) \/ Sign(buf, k)
    <3>1. \A k \in 1 .. n : k \in 1 .. idx \/ k = n
      BY <1>i, <2>3
    <3> QED
      BY <2>1, <2>2, <3>1
  <2>7. \E f : f = [k \in 0 .. n |-> Adds(f, buf, k)]
    <3>1. PICK f : f = [k \in 0 .. idx |-> Adds(f, buf, k)]
      BY <2>2
    <3> DEFINE g == [k \in 0 .. n |-> IF k = n THEN 10 * f[idx] + d ELSE f[k]]
    <3>2. \A k \in 0 .. idx : g[k] = f[k]
      BY <1>i, <2>3
    <3>3. ASSUME NEW k \in 0 .. n PROVE g[k] = Adds(g, buf, k)
      <4>1. CASE k = n
        <5>1. g[k] = 10 * f[idx] + d /\ g[idx] = f[idx]
          BY <1>i, <2>3, <3>2, <4>1
        <5> QED
          BY <2>4, <4>1, <5>1
      <4>2. CASE k # n
        <5>1. k \in 0 .. idx /\ (k # 0 => k - 1 \in 0 .. idx)
          BY <1>i, <2>5, <4>2
        <5>2. g[k] = Adds(f, buf, k)
          BY <3>1, <3>2, <5>1
        <5>3. k # 0 => g[k - 1] = f[k - 1]
          BY <3>2, <5>1
        <5> HIDE DEF g
        <5> QED
          BY <5>2, <5>3 DEF Adds
      <4> QED
        BY <4>1, <4>2
    <3>4. g = [k \in 0 .. n |-> g[k]]
      OBVIOUS
    <3> HIDE DEF g
    <3>5. g = [k \in 0 .. n |-> Adds(g, buf, k)]
      BY <3>3, <3>4
    <3> QED
      BY <3>5
  <2>8. value' \in 0 .. Word - 1
    BY <1>w, <2>1, <2>3
  <2>9. ASSUME NEW f, Counts(f, buf, n) PROVE InWord(f[n], value')
    <3>1. \A k \in 0 .. idx : k \in 0 .. n
      BY <1>i, <2>3
    <3>2. Counts(f, buf, idx) /\ f[n] = 10 * f[idx] + d
      BY <2>3, <2>4, <2>9, <3>1 DEF Counts
    <3>3. InWord(f[idx], value)
      BY <2>2, <3>2
    <3> QED
      BY <2>1, <2>3, <3>2, <3>3, NextDigit
  <2>10. DigitLoop'
    <3>1. n <= len /\ n > 0 /\ len > 0
      BY <2>2, <2>3
    <3>2. idx' = n
      BY <2>1
    <3>3. (\A k \in 1 .. idx : is_digit(buf[k]) \/ Sign(buf, k))'
      BY <1>u, <2>6, <3>2 DEF Sign, is_digit
    <3>4. (\E f : f = [k \in 0 .. idx |-> Adds(f, buf, k)])'
      BY <1>u, <2>7, <3>2 DEF Adds, Sign
    <3>5. (\A f : Counts(f, buf, idx) => InWord(f[idx], value))'
      BY <1>u, <2>9, <3>2 DEF Counts, Adds, Sign, InWord
    <3> QED
      BY <1>u, <2>8, <3>1, <3>2, <3>3, <3>4, <3>5 DEF DigitLoop
  <2> QED
    BY <2>1, <2>10 DEF NumberInv, NumeralsConverted
<1>3. CASE NoDigit
  <2>1. /\ pc = "digits" /\ pc' = "done" /\ ret' = INT32_MAX
        /\ idx < len /\ buf[idx + 1] # NUL /\ ~is_digit(buf[idx + 1])
    BY <1>3 DEF NoDigit
  <2>2. /\ buf[1] = Minus => idx > 0
        /\ \A k \in 1 .. idx : is_digit(buf[k]) \/ Sign(buf, k)
    BY <1>i, <2>1 DEF DigitLoop
  <2>3. PICK n \in 0 .. Len(buf) : EndsAt(buf, n)
    BY <1>i, EndExists
  <2>4. idx < n
    <3>1. \A k \in 1 .. idx : buf[k] # NUL
      BY <2>2, StringAssumption DEF is_digit, Sign
    <3>2. ASSUME n <= idx PROVE FALSE
      <4>1. n + 1 \in 1 .. idx \/ n + 1 = idx + 1
        BY <1>i, <3>2
      <4>2. n # Len(buf)
        BY <1>i, <2>1, <3>2
      <4>3. buf[n + 1] = NUL
        BY <2>3, <4>2 DEF EndsAt
      <4> QED
        BY <2>1, <3>1, <4>1, <4>3
    <3> QED
      BY <1>i, <3>2
  <2>5. /\ CString(buf) \in Seq(Char) /\ Len(CString(buf)) = n
        /\ \A k \in 1 .. n : CString(buf)[k] = buf[k]
    BY <1>i, <2>3, CStringIs
  <2>6. ~Numeral(CString(buf))
    <3>1. idx + 1 \in DOMAIN CString(buf) /\ CString(buf)[idx + 1] = buf[idx + 1]
      BY <1>i, <2>4, <2>5
    <3>2. ~Sign(CString(buf), idx + 1)
      <4>1. 1 \in 1 .. n
        BY <1>i, <2>4
      <4> QED
        BY <1>i, <2>2, <2>5, <4>1 DEF Sign
    <3> QED
      BY <2>1, <3>1, <3>2 DEF Numeral
  <2> QED
    BY <1>u, <2>1, <2>6 DEF NumberInv, DigitLoop, NumeralsConverted
<1>4. CASE EndOfDigits
  <2>1. /\ pc = "digits" /\ pc' = "done" /\ ~(idx < len /\ buf[idx + 1] # NUL)
        /\ ret' = ToSigned(IF buf[1] = Minus THEN (Word - value) % Word ELSE value)
    BY <1>4 DEF EndOfDigits
  <2>2. value \in 0 .. Word - 1
    BY <1>i, <2>1 DEF DigitLoop
  <2> DEFINE r == CString(buf)
  <2>3. SUFFICES ASSUME r # <<>>
                 PROVE  /\ Numeral(r)
                        /\ SignedValue(r) \in -INT32_MAX - 1 .. INT32_MAX => ret' = SignedValue(r)
    BY <1>u, <2>1 DEF NumberInv, DigitLoop, NumeralsConverted
  <2>4. AllDigits
    BY <1>i, <2>1 DEF AllDigits
  <2>5. /\ Numeral(r) /\ InWord(Denotes(r), value)
        /\ SignedValue(r) = IF buf[1] = Minus THEN -Denotes(r) ELSE Denotes(r)
    BY <2>3, <2>4, NumberFound
  <2> HIDE DEF r
  <2> QED
    BY <2>1, <2>2, <2>5, SignedWord
<1> QED
  BY <1>1, <1>2, <1>3, <1>4

\* NumberInv holds in every state.
LEMMA NumberInvariant == Spec => []NumberInv
<1>1. Init => NumberInv
  BY DEF Init, NumberInv, DigitLoop, NumeralsConverted
<1>2. StringInv /\ NumberInv /\ [Next]_vars => NumberInv'
  <2> SUFFICES ASSUME StringInv, NumberInv, [Next]_vars PROVE NumberInv'
    OBVIOUS
  <2>1. CASE CallTrim \/ TrimStart \/ TrimEnd \/ TrimCopy \/ CallReverse \/ FindTail \/ Swap
    <3>1. pc' \notin {"digits", "done"}
      BY <2>1 DEF CallTrim, TrimStart, TrimEnd, TrimCopy, CallReverse, FindTail, Swap, Goto
    <3> QED
      BY <3>1 DEF NumberInv, DigitLoop, NumeralsConverted
  <2>2. CASE CallToInt \/ AddDigit \/ NoDigit \/ EndOfDigits
    BY <2>2, NumberStep
  <2>3. CASE UNCHANGED vars
    <3>1. UNCHANGED <<buf, pc, value, idx, ret, len>>
      BY <2>3 DEF vars, len
    <3>2. DigitLoop'
      BY <3>1 DEF NumberInv, DigitLoop, Counts, Adds, InWord, Sign, is_digit
    <3>3. NumeralsConverted'
      BY <3>1 DEF NumberInv, NumeralsConverted
    <3> QED
      BY <3>2, <3>3 DEF NumberInv
  <2> QED
    BY <2>1, <2>2, <2>3 DEF Next
<1> QED
  BY <1>1, <1>2, StringInvariant, PTL DEF Spec

(***************************************************************************)
(* str_to_int returns the number a numeral of any length denotes, whenever *)
(* an int32_t can hold it: the digits are added up in a word that may      *)
(* overflow on the way only if the number does not fit, and the negation   *)
(* of an unsigned word is the negative number.  Every other string is      *)
(* answered with INT32_MAX.                                                *)
(***************************************************************************)
THEOREM NumeralsAreConverted == Spec => []NumeralsConverted
<1>1. NumberInv => NumeralsConverted
  BY DEF NumberInv
<1> QED
  BY <1>1, NumberInvariant, PTL
==============================================================================
