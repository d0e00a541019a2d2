------------------------- MODULE HttpDownloadProofs -------------------------
(***************************************************************************)
(* A download, for any responses, segmentation and buffer: what the bytes  *)
(* of a response are (Laid, ChunksLaid, HeadIs), where the parser is after *)
(* each of them (Placed, ParserMoves), what its callers have got of the    *)
(* body (ReadInv), and from that the types, the whole body at the end, the *)
(* refinement of FileStream, the caller's buffer and the zero at the end.  *)
(***************************************************************************)
EXTENDS HttpDownloadProperties, SequenceTheorems, WellFoundedInduction, TLAPS

-----------------------------------------------------------------------------
(* Parts laid one after the other                                           *)

\* A property of numbers that holds of 0 and of n + 1 when it holds of n.
LEMMA FromZero ==
  ASSUME NEW S, 0 \in S, \A n \in Nat : n \in S => n + 1 \in S
  PROVE  Nat \subseteq S
<1> SUFFICES ASSUME Nat \ S # {} PROVE FALSE  OBVIOUS
<1>1. PICK m \in Nat \ S : \A y \in Nat \ S : ~ (<<y, m>> \in OpToRel(<, Nat))
  BY NatLessThanWellFounded, WFMin
<1>2. \A y \in Nat \ S : ~ (y < m)  BY <1>1 DEF OpToRel
<1>3. m \in Nat /\ m # 0  BY <1>1
<1>4. m - 1 \in Nat /\ m - 1 < m /\ (m - 1) + 1 = m  BY <1>3
<1> QED BY <1>1, <1>2, <1>4

Laid(parts, J, at) ==
  /\ at \in [0..Len(parts) -> Nat] /\ at[0] = 0 /\ at[Len(parts)] = Len(J)
  /\ \A i \in 1..Len(parts) :
       /\ at[i] = at[i - 1] + Len(parts[i]) /\ at[i] <= Len(J)
       /\ \A j \in 1..Len(parts[i]) : J[at[i - 1] + j] = parts[i][j]

\* The first n steps of the recursion in Joined.
Grows(parts, f, n) ==
  /\ f = [i \in 0..n |-> f[i]] /\ f[0] = << >>
  /\ \A i \in 1..n : f[i] = f[i - 1] \o parts[i]

Unrolls(parts, n) == \E f : Grows(parts, f, n)

\* Joined lays its parts one after the other.
LEMMA JoinedLaid ==
  ASSUME NEW S, NEW parts \in Seq(Seq(S))
  PROVE  Joined(parts) \in Seq(S) /\ \E at : Laid(parts, Joined(parts), at)
<1> DEFINE N == Len(parts)
           upTo[i \in 0..N] == IF i = 0 THEN << >> ELSE upTo[i - 1] \o parts[i]
<1>1. N \in Nat /\ \A i \in 1..N : parts[i] \in Seq(S)  BY LenProperties, ElementOfSeq
<1>2. Joined(parts) = upTo[N]  BY DEF Joined
<1>3. Unrolls(parts, N)
  <2> DEFINE C == {n \in Nat : n <= N => Unrolls(parts, n)}
  <2>1. 0 \in C
    <3>1. Grows(parts, [i \in 0..0 |-> << >>], 0)  BY DEF Grows
    <3> QED BY <3>1 DEF Unrolls
  <2>2. ASSUME NEW n \in Nat, n \in C PROVE n + 1 \in C
    <3> SUFFICES ASSUME n + 1 <= N PROVE Unrolls(parts, n + 1)  OBVIOUS
    <3>0. Unrolls(parts, n)  BY <1>1, <2>2
    <3>1. PICK f : Grows(parts, f, n)  BY <3>0 DEF Unrolls
    <3> DEFINE h == [i \in 0..n + 1 |-> IF i = n + 1 THEN f[n] \o parts[n + 1] ELSE f[i]]
    <3>2. h = [i \in 0..n + 1 |-> h[i]]  OBVIOUS
    <3>3. h[0] = << >>  BY <3>1 DEF Grows
    <3>4. ASSUME NEW i \in 1..n + 1 PROVE h[i] = h[i - 1] \o parts[i]
      <4>1. i \in 0..n + 1 /\ i - 1 \in 0..n + 1 /\ i - 1 # n + 1  OBVIOUS
      <4>2. CASE i = n + 1
        <5>1. i - 1 = n  BY <4>2
        <5> QED BY <4>1, <4>2, <5>1
      <4>3. CASE i # n + 1
        <5>1. i \in 1..n  BY <4>3
        <5>2. h[i] = f[i] /\ h[i - 1] = f[i - 1]  BY <4>1, <4>3
        <5> QED BY <3>1, <5>1, <5>2 DEF Grows
      <4> QED BY <4>2, <4>3
    <3> HIDE DEF h
    <3>5. Grows(parts, h, n + 1)  BY <3>2, <3>3, <3>4 DEF Grows
    <3> QED BY <3>5 DEF Unrolls
  <2> HIDE DEF C
  <2>3. Nat \subseteq C  BY <2>1, <2>2, FromZero
  <2>4. N \in C  BY <1>1, <2>3
  <2> QED BY <1>1, <2>4 DEF C
<1>4. \E f : f = [i \in 0..N |-> IF i = 0 THEN << >> ELSE f[i - 1] \o parts[i]]
  <2>1. PICK f : Grows(parts, f, N)  BY <1>3 DEF Unrolls
  <2> SUFFICES f = [i \in 0..N |-> IF i = 0 THEN << >> ELSE f[i - 1] \o parts[i]]  OBVIOUS
  <2>2. \A i \in 0..N : i # 0 => i \in 1..N  BY <1>1
  <2>3. \A i \in 0..N : f[i] = IF i = 0 THEN << >> ELSE f[i - 1] \o parts[i]  BY <2>1, <2>2 DEF Grows
  <2> QED BY <2>1, <2>3 DEF Grows
<1>5. upTo = [i \in 0..N |-> IF i = 0 THEN << >> ELSE upTo[i - 1] \o parts[i]]
  BY <1>4
<1> HIDE DEF upTo
<1>6. upTo[0] = << >> /\ \A i \in 1..N : upTo[i] = upTo[i - 1] \o parts[i]
  <2>1. 0 \in 0..N /\ \A i \in 1..N : i \in 0..N /\ i # 0  BY <1>1
  <2> QED BY <1>5, <2>1
<1>7. \A i \in 0..N : upTo[i] \in Seq(S)
  <2> DEFINE C == {n \in Nat : n <= N => upTo[n] \in Seq(S)}
  <2>1. 0 \in C  BY <1>6, EmptySeq
  <2>2. ASSUME NEW n \in Nat, n \in C PROVE n + 1 \in C
    <3> SUFFICES ASSUME n + 1 <= N PROVE upTo[n + 1] \in Seq(S)  OBVIOUS
    <3>1. upTo[n] \in Seq(S) /\ n + 1 \in 1..N /\ (n + 1) - 1 = n  BY <1>1, <2>2
    <3>2. upTo[n + 1] = upTo[n] \o parts[n + 1]  BY <1>6, <3>1
    <3> QED BY <1>1, <3>1, <3>2, ConcatProperties
  <2> HIDE DEF C
  <2>3. Nat \subseteq C  BY <2>1, <2>2, FromZero
  <2> QED BY <1>1, <2>3 DEF C
<1> DEFINE at == [i \in 0..N |-> Len(upTo[i])]
<1>8. \A i \in 0..N : at[i] = Len(upTo[i]) /\ at[i] \in Nat  BY <1>7, LenProperties
<1> HIDE DEF at
<1>9. ASSUME NEW i \in 1..N
      PROVE  /\ at[i] = at[i - 1] + Len(parts[i])
             /\ \A j \in 1..at[i - 1] : upTo[i][j] = upTo[i - 1][j]
             /\ \A j \in 1..Len(parts[i]) : upTo[i][at[i - 1] + j] = parts[i][j]
  <2>1. i \in 0..N /\ i - 1 \in 0..N  BY <1>1
  <2> DEFINE u == upTo[i - 1]
             v == parts[i]
  <2>2. u \in Seq(S) /\ v \in Seq(S) /\ upTo[i] = u \o v  BY <1>1, <1>6, <1>7, <2>1
  <2>3. at[i] = Len(upTo[i]) /\ at[i - 1] = Len(u)  BY <1>8, <2>1
  <2>4. Len(u) \in Nat /\ Len(v) \in Nat  BY <2>2, LenProperties
  <2> HIDE DEF u, v
  <2>5. /\ Len(u \o v) = Len(u) + Len(v)
        /\ \A j \in 1..Len(u) + Len(v) : (u \o v)[j] = IF j <= Len(u) THEN u[j] ELSE v[j - Len(u)]
    BY <2>2, ConcatProperties
  <2>6. \A j \in 1..Len(u) : (u \o v)[j] = u[j]  BY <2>4, <2>5
  <2>7. \A j \in 1..Len(v) : (u \o v)[Len(u) + j] = v[j]
    <3> SUFFICES ASSUME NEW j \in 1..Len(v) PROVE (u \o v)[Len(u) + j] = v[j]  OBVIOUS
    <3>1. Len(u) + j \in 1..Len(u) + Len(v) /\ ~(Len(u) + j <= Len(u)) /\ (Len(u) + j) - Len(u) = j
      BY <2>4
    <3> QED BY <2>5, <3>1
  <2> QED BY <2>2, <2>3, <2>5, <2>6, <2>7 DEF u, v
\* A part stays where it was laid.
<1>10. ASSUME NEW h \in 0..N
       PROVE  \A i \in h..N : at[h] <= at[i] /\ \A j \in 1..at[h] : upTo[i][j] = upTo[h][j]
  <2> DEFINE C == {n \in Nat : h + n <= N =>
                     at[h] <= at[h + n] /\ \A j \in 1..at[h] : upTo[h + n][j] = upTo[h][j]}
  <2>1. 0 \in C
    <3>1. h + 0 = h /\ at[h] \in Nat  BY <1>1, <1>8
    <3> QED BY <3>1
  <2>2. ASSUME NEW n \in Nat, n \in C PROVE n + 1 \in C
    <3> SUFFICES ASSUME h + (n + 1) <= N
                 PROVE  /\ at[h] <= at[h + (n + 1)]
                        /\ \A j \in 1..at[h] : upTo[h + (n + 1)][j] = upTo[h][j]
      OBVIOUS
    <3>1. /\ h + n <= N /\ h + n \in 0..N /\ h + (n + 1) \in 1..N /\ h + (n + 1) \in 0..N
          /\ (h + (n + 1)) - 1 = h + n
      BY <1>1
    <3>2. at[h] <= at[h + n] /\ \A j \in 1..at[h] : upTo[h + n][j] = upTo[h][j]
      BY <2>2, <3>1
    <3>3. /\ at[h + (n + 1)] = at[h + n] + Len(parts[h + (n + 1)])
          /\ \A j \in 1..at[h + n] : upTo[h + (n + 1)][j] = upTo[h + n][j]
      BY <1>9, <3>1
    <3>4. at[h] \in Nat /\ at[h + n] \in Nat /\ Len(parts[h + (n + 1)]) \in Nat
      BY <1>1, <1>8, <3>1, LenProperties
    <3>5. at[h] <= at[h + (n + 1)]  BY <3>2, <3>3, <3>4
    <3>6. \A j \in 1..at[h] : j \in 1..at[h + n]  BY <3>2, <3>4
    <3> QED BY <3>2, <3>3, <3>5, <3>6
  <2> HIDE DEF C
  <2>3. Nat \subseteq C  BY <2>1, <2>2, FromZero
  <2>4. \A i \in h..N : i - h \in C /\ h + (i - h) = i /\ i <= N  BY <1>1, <2>3
  <2> QED BY <2>4 DEF C
<1>11. at \in [0..N -> Nat] /\ at[0] = 0
  <2>1. at \in [0..N -> Nat]  BY <1>8 DEF at
  <2>2. 0 \in 0..N /\ Len(<< >>) = 0  BY <1>1, EmptySeq
  <2> QED BY <1>6, <1>8, <2>1, <2>2
<1>12. Joined(parts) \in Seq(S) /\ at[N] = Len(Joined(parts))
  <2>1. N \in 0..N  BY <1>1
  <2> QED BY <1>2, <1>7, <1>8, <2>1
<1>13. ASSUME NEW i \in 1..N
       PROVE  /\ at[i] = at[i - 1] + Len(parts[i]) /\ at[i] <= Len(Joined(parts))
              /\ \A j \in 1..Len(parts[i]) : Joined(parts)[at[i - 1] + j] = parts[i][j]
  <2>1. i \in 0..N /\ i - 1 \in 0..N /\ N \in i..N  BY <1>1
  <2>2. at[i] \in Nat /\ at[i - 1] \in Nat /\ Len(parts[i]) \in Nat  BY <1>1, <1>8, <2>1, LenProperties
  <2>3. at[i] <= at[N] /\ \A j \in 1..at[i] : upTo[N][j] = upTo[i][j]  BY <1>10, <2>1
  <2>4. /\ at[i] = at[i - 1] + Len(parts[i])
        /\ \A j \in 1..Len(parts[i]) : upTo[i][at[i - 1] + j] = parts[i][j]
    BY <1>9
  <2>5. \A j \in 1..Len(parts[i]) : at[i - 1] + j \in 1..at[i]  BY <2>2, <2>4
  <2> QED BY <1>2, <1>12, <2>3, <2>4, <2>5
<1> QED BY <1>11, <1>12, <1>13, ZenonT(30) DEF Laid

-----------------------------------------------------------------------------
(* The bytes of a response                                                  *)

LEMMA ConcatAt ==
  ASSUME NEW S, NEW u \in Seq(S), NEW v \in Seq(S)
  PROVE  /\ u \o v \in Seq(S) /\ Len(u) \in Nat /\ Len(v) \in Nat
         /\ Len(u \o v) = Len(u) + Len(v)
         /\ \A j \in 1..Len(u) : (u \o v)[j] = u[j]
         /\ \A j \in 1..Len(v) : (u \o v)[Len(u) + j] = v[j]
<1>1. Len(u) \in Nat /\ Len(v) \in Nat  BY LenProperties
<1>2. /\ u \o v \in Seq(S) /\ Len(u \o v) = Len(u) + Len(v)
      /\ \A j \in 1..Len(u) + Len(v) : (u \o v)[j] = IF j <= Len(u) THEN u[j] ELSE v[j - Len(u)]
  BY ConcatProperties
<1>3. \A j \in 1..Len(u) : (u \o v)[j] = u[j]  BY <1>1, <1>2
<1>4. \A j \in 1..Len(v) : (u \o v)[Len(u) + j] = v[j]
  <2> SUFFICES ASSUME NEW j \in 1..Len(v) PROVE (u \o v)[Len(u) + j] = v[j]  OBVIOUS
  <2>1. Len(u) + j \in 1..Len(u) + Len(v) /\ ~(Len(u) + j <= Len(u)) /\ (Len(u) + j) - Len(u) = j
    BY <1>1
  <2> QED BY <1>2, <2>1
<1> QED BY <1>1, <1>2, <1>3, <1>4

LEMMA DigitFacts ==
  /\ \A m \in 0..9 : Digit(m) \in Chars /\ Digit(m) # CR /\ Digit(m) # SP
  /\ \A m, n \in 0..9 : Digit(m) = Digit(n) => m = n
<1>1. \A m \in 0..9 : Digit(m) \in Chars  BY DEF Chars
<1>2. \A m \in 0..9 : Digit(m) # CR /\ Digit(m) # SP
  BY DEF Digit, Digits, CR, SP
<1>3. \A m, n \in 0..9 : Digit(m) = Digit(n) => m = n
  BY DEF Digit, Digits
<1> QED BY <1>1, <1>2, <1>3

\* strtol of a length with one digit.
LEMMA StrtolDigit ==
  ASSUME NEW m \in 0..9
  PROVE  Strtol(<<Digit(m)>>) = m /\ Strtol(<<SP, Digit(m)>>) = m
<1>1. Digit(m) # SP /\ \A n \in 0..9 : Digit(m) = Digit(n) => m = n  BY DigitFacts
<1> DEFINE b == Digit(m)
           value == {n \in 0..9 : b = Digit(n)}
<1>2. value = {m}  BY <1>1
<1> HIDE DEF b
<1>3. Strtol(<<b>>) = IF value = {} THEN 0 ELSE CHOOSE n \in value : TRUE
  BY <1>1 DEF Strtol, b
<1>4. Strtol(<<SP, b>>) = IF value = {} THEN 0 ELSE CHOOSE n \in value : TRUE
  BY DEF Strtol
<1> HIDE DEF value
<1> QED BY <1>2, <1>3, <1>4 DEF b

\* What strtol returns is a length.
LEMMA StrtolNat == \A s : Strtol(s) \in 0..9
<1> SUFFICES ASSUME NEW s PROVE Strtol(s) \in 0..9  OBVIOUS
<1> DEFINE start == IF s # << >> /\ s[1] = SP THEN 2 ELSE 1
           value == {n \in 0..9 : start <= Len(s) /\ s[start] = Digit(n)}
<1>1. Strtol(s) = IF value = {} THEN 0 ELSE CHOOSE n \in value : TRUE  BY DEF Strtol
<1>2. value \subseteq 0..9  OBVIOUS
<1> HIDE DEF value
<1>3. value # {} => (CHOOSE n \in value : TRUE) \in value  OBVIOUS
<1> QED BY <1>1, <1>2, <1>3

LEMMA ChunkBytes ==
  ASSUME NEW data \in Seq(Data), Len(data) <= 9
  PROVE  LET m == Len(data) IN
         /\ m \in 0..9 /\ Chunk(data) \in Seq(Chars) /\ Len(Chunk(data)) = m + 5
         /\ Chunk(data)[1] = Digit(m) /\ Chunk(data)[2] = CR /\ Chunk(data)[3] = LF
         /\ \A j \in 1..m : Chunk(data)[3 + j] = data[j]
         /\ Chunk(data)[m + 4] = CR /\ Chunk(data)[m + 5] = LF
<1> DEFINE m   == Len(data)
           b   == Digit(m)
           one == <<b, CR, LF>>
           eol == <<CR, LF>>
<1>1. m \in 0..9
  <2>1. Len(data) \in Nat  BY LenProperties
  <2>2. \A x \in Nat : x <= 9 => x \in 0..9  OBVIOUS
  <2> QED BY <2>1, <2>2
<1>2. data \in Seq(Chars)
  <2>1. Data \subseteq Chars  BY DEF Chars
  <2> QED BY <2>1, SeqMonotonic
<1>3. /\ one \in Seq(Chars) /\ Len(one) = 3 /\ one[1] = b /\ one[2] = CR /\ one[3] = LF
      /\ eol \in Seq(Chars) /\ Len(eol) = 2 /\ eol[1] = CR /\ eol[2] = LF
  <2>1. b \in Chars /\ CR \in Chars /\ LF \in Chars  BY <1>1, DigitFacts DEF Chars
  <2> HIDE DEF b
  <2> QED BY <2>1
<1> DEFINE low == one \o data
<1>4. Chunk(data) = low \o eol  BY DEF Chunk
<1> HIDE DEF one, eol, m
<1>5. /\ low \in Seq(Chars) /\ Len(low) = 3 + m
      /\ \A j \in 1..3 : low[j] = one[j]
      /\ \A j \in 1..m : low[3 + j] = data[j]
  <2>1. /\ one \o data \in Seq(Chars) /\ Len(one \o data) = Len(one) + Len(data)
        /\ \A j \in 1..Len(one) : (one \o data)[j] = one[j]
        /\ \A j \in 1..Len(data) : (one \o data)[Len(one) + j] = data[j]
    <3>1. one \in Seq(Chars)  BY <1>3
    <3> QED BY <1>2, <3>1, ConcatAt
  <2> QED BY <1>3, <2>1 DEF m
<1> HIDE DEF low
<1>6. /\ low \o eol \in Seq(Chars) /\ Len(low \o eol) = Len(low) + Len(eol)
      /\ \A j \in 1..Len(low) : (low \o eol)[j] = low[j]
      /\ \A j \in 1..Len(eol) : (low \o eol)[Len(low) + j] = eol[j]
  <2>1. low \in Seq(Chars) /\ eol \in Seq(Chars)  BY <1>3, <1>5
  <2> QED BY <2>1, ConcatAt
<1>7. Chunk(data) \in Seq(Chars) /\ Len(Chunk(data)) = m + 5  BY <1>1, <1>3, <1>4, <1>5, <1>6
<1>8. \A j \in 1..3 : Chunk(data)[j] = one[j]
  <2>1. \A j \in 1..3 : j \in 1..Len(low)  BY <1>1, <1>5
  <2> QED BY <1>4, <1>5, <1>6, <2>1
<1>9. \A j \in 1..m : Chunk(data)[3 + j] = data[j]
  <2>1. \A j \in 1..m : 3 + j \in 1..Len(low)  BY <1>1, <1>5
  <2> QED BY <1>4, <1>5, <1>6, <2>1
<1>10. Chunk(data)[m + 4] = CR /\ Chunk(data)[m + 5] = LF
  <2>1. Len(low) + 1 = m + 4 /\ Len(low) + 2 = m + 5 /\ 1 \in 1..Len(eol) /\ 2 \in 1..Len(eol)
    BY <1>1, <1>3, <1>5
  <2>2. (low \o eol)[m + 4] = eol[1] /\ (low \o eol)[m + 5] = eol[2]  BY <1>6, <2>1
  <2> QED BY <1>3, <1>4, <2>2
<1>11. 1 \in 1..3 /\ 2 \in 1..3 /\ 3 \in 1..3  OBVIOUS
<1> QED BY <1>1, <1>3, <1>7, <1>8, <1>9, <1>10, <1>11 DEF m, b

\* The head of a response with a body.
HeadIs(B, name, value) ==
  /\ B[1] = "HTTP" /\ B[2] = CR /\ B[3] = LF
  /\ B[4] = "Da" /\ B[5] = "te" /\ B[6] = Colon /\ B[7] = SP /\ B[8] = "now"
  /\ B[9] = CR /\ B[10] = LF
  /\ B[11] = name /\ B[12] = Colon /\ B[13] = SP /\ B[14] = value
  /\ B[15] = CR /\ B[16] = LF /\ B[17] = CR /\ B[18] = LF

Heading(name, value) == Preamble \o Header(name, value) \o <<CR, LF>>

LEMMA LiteralChars ==
  /\ CR \in Chars /\ LF \in Chars /\ SP \in Chars /\ Colon \in Chars
  /\ {"HTTP", "Da", "te", "now", TransferEncoding, ContentLength, Chunked} \subseteq Chars
BY DEF Chars

LEMMA HeadBytes ==
  ASSUME NEW name \in Chars, NEW value \in Chars
  PROVE  Heading(name, value) \in Seq(Chars) /\ Len(Heading(name, value)) = 18
         /\ HeadIs(Heading(name, value), name, value)
<1> DEFINE p1 == <<"HTTP", CR, LF>>
           p2 == <<"Da", "te", Colon, SP, "now", CR, LF>>
           h  == <<name, Colon, SP, value, CR, LF>>
           e  == <<CR, LF>>
           p  == p1 \o p2
           ph == p \o h
           B  == ph \o e
<1>1. /\ p1 \in Seq(Chars) /\ Len(p1) = 3 /\ p1[1] = "HTTP" /\ p1[2] = CR /\ p1[3] = LF
  BY LiteralChars
<1>2. /\ p2 \in Seq(Chars) /\ Len(p2) = 7 /\ p2[1] = "Da" /\ p2[2] = "te" /\ p2[3] = Colon
      /\ p2[4] = SP /\ p2[5] = "now" /\ p2[6] = CR /\ p2[7] = LF
  BY LiteralChars
<1>3. /\ h \in Seq(Chars) /\ Len(h) = 6 /\ h[1] = name /\ h[2] = Colon /\ h[3] = SP
      /\ h[4] = value /\ h[5] = CR /\ h[6] = LF
  BY LiteralChars
<1>4. e \in Seq(Chars) /\ Len(e) = 2 /\ e[1] = CR /\ e[2] = LF
  BY LiteralChars
<1>5. Heading(name, value) = B  BY DEF Heading, Preamble, Header
<1> HIDE DEF p1, p2, h, e
<1>6. /\ p \in Seq(Chars) /\ Len(p) = 10
      /\ \A j \in 1..3 : p[j] = p1[j]
      /\ \A j \in 1..7 : p[3 + j] = p2[j]
  <2>1. p1 \in Seq(Chars) /\ p2 \in Seq(Chars)  BY <1>1, <1>2
  <2>2. /\ p \in Seq(Chars) /\ Len(p) = Len(p1) + Len(p2)
        /\ \A j \in 1..Len(p1) : p[j] = p1[j]
        /\ \A j \in 1..Len(p2) : p[Len(p1) + j] = p2[j]
    BY <2>1, ConcatAt
  <2> HIDE DEF p
  <2> QED BY <1>1, <1>2, <2>2
<1> HIDE DEF p
<1>7. /\ ph \in Seq(Chars) /\ Len(ph) = 16
      /\ \A j \in 1..10 : ph[j] = p[j]
      /\ \A j \in 1..6 : ph[10 + j] = h[j]
  <2>1. p \in Seq(Chars) /\ h \in Seq(Chars)  BY <1>3, <1>6
  <2>2. /\ ph \in Seq(Chars) /\ Len(ph) = Len(p) + Len(h)
        /\ \A j \in 1..Len(p) : ph[j] = p[j]
        /\ \A j \in 1..Len(h) : ph[Len(p) + j] = h[j]
    BY <2>1, ConcatAt
  <2> HIDE DEF ph
  <2> QED BY <1>3, <1>6, <2>2
<1> HIDE DEF ph
<1>8. /\ B \in Seq(Chars) /\ Len(B) = 18
      /\ \A j \in 1..16 : B[j] = ph[j]
      /\ \A j \in 1..2 : B[16 + j] = e[j]
  <2>1. ph \in Seq(Chars) /\ e \in Seq(Chars)  BY <1>4, <1>7
  <2>2. /\ B \in Seq(Chars) /\ Len(B) = Len(ph) + Len(e)
        /\ \A j \in 1..Len(ph) : B[j] = ph[j]
        /\ \A j \in 1..Len(e) : B[Len(ph) + j] = e[j]
    BY <2>1, ConcatAt
  <2> HIDE DEF B
  <2> QED BY <1>4, <1>7, <2>2
<1> HIDE DEF B
<1>9. \A j \in 1..10 : B[j] = p[j]  BY <1>7, <1>8, SMTT(30)
<1>10. B[1] = p1[1] /\ B[2] = p1[2] /\ B[3] = p1[3]  BY <1>6, <1>9
<1>11. \A j \in 1..7 : B[3 + j] = p2[j]
  <2>1. \A j \in 1..7 : 3 + j \in 1..10  OBVIOUS
  <2> QED BY <1>6, <1>9, <2>1
<1>12. \A j \in 1..6 : B[10 + j] = h[j]
  <2>1. \A j \in 1..6 : 10 + j \in 1..16  OBVIOUS
  <2> QED BY <1>7, <1>8, <2>1
<1>13. /\ B[4] = p2[1] /\ B[5] = p2[2] /\ B[6] = p2[3] /\ B[7] = p2[4] /\ B[8] = p2[5]
       /\ B[9] = p2[6] /\ B[10] = p2[7]
  <2>1. B[3 + 1] = p2[1] /\ B[3 + 2] = p2[2] /\ B[3 + 3] = p2[3] /\ B[3 + 4] = p2[4]
        /\ B[3 + 5] = p2[5] /\ B[3 + 6] = p2[6] /\ B[3 + 7] = p2[7]
    BY <1>11
  <2> QED BY <2>1
<1>14. /\ B[11] = h[1] /\ B[12] = h[2] /\ B[13] = h[3] /\ B[14] = h[4] /\ B[15] = h[5]
       /\ B[16] = h[6]
  <2>1. B[10 + 1] = h[1] /\ B[10 + 2] = h[2] /\ B[10 + 3] = h[3] /\ B[10 + 4] = h[4]
        /\ B[10 + 5] = h[5] /\ B[10 + 6] = h[6]
    BY <1>12
  <2> QED BY <2>1
<1>15. B[17] = e[1] /\ B[18] = e[2]
  <2>1. B[16 + 1] = e[1] /\ B[16 + 2] = e[2]  BY <1>8
  <2> QED BY <2>1
<1>16. HeadIs(B, name, value)
  BY <1>1, <1>2, <1>3, <1>4, <1>10, <1>13, <1>14, <1>15 DEF HeadIs
<1> QED BY <1>5, <1>8, <1>16

Name(r)  == IF r.framing = "chunked" THEN TransferEncoding ELSE ContentLength
Value(r) == IF r.framing = "chunked" THEN Chunked ELSE Digit(Len(Body(r)))

LEMMA HeadKept ==
  ASSUME NEW u \in Seq(Chars), NEW v \in Seq(Chars), NEW name, NEW value,
         Len(u) >= 18, HeadIs(u, name, value)
  PROVE  HeadIs(u \o v, name, value)
<1>1. Len(u) \in Nat /\ \A j \in 1..Len(u) : (u \o v)[j] = u[j]  BY ConcatAt
<1>2. \A j \in 1..18 : (u \o v)[j] = u[j]  BY <1>1
<1> DEFINE w == u \o v
<1> HIDE DEF w
<1>3. \A j \in 1..18 : w[j] = u[j]  BY <1>2 DEF w
<1>4. HeadIs(w, name, value)
  <2>1. /\ w[1] = u[1] /\ w[2] = u[2] /\ w[3] = u[3] /\ w[4] = u[4] /\ w[5] = u[5]
        /\ w[6] = u[6] /\ w[7] = u[7] /\ w[8] = u[8] /\ w[9] = u[9] /\ w[10] = u[10]
        /\ w[11] = u[11] /\ w[12] = u[12] /\ w[13] = u[13] /\ w[14] = u[14]
        /\ w[15] = u[15] /\ w[16] = u[16] /\ w[17] = u[17] /\ w[18] = u[18]
    BY <1>3
  <2> QED BY <2>1 DEF HeadIs
<1> QED BY <1>4 DEF w

LEMMA ResponseFacts ==
  ASSUME NEW r \in Responses
  PROVE  /\ r.framing \in {"chunked", "length", "none"}
         /\ r.parts \in Seq(Seq(Data)) /\ Len(r.parts) \in Nat
         /\ \A i \in 1..Len(r.parts) : r.parts[i] \in Seq(Data) /\ Len(r.parts[i]) \in Nat \ {0}
         /\ Body(r) \in Seq(Data) /\ Len(Body(r)) \in Nat
         /\ \E at : Laid(r.parts, Body(r), at)
<1>1. r \in [framing : {"chunked", "length", "none"}, parts : Seq(Seq(Data) \ {<< >>})]
  BY ResponsesAssumption DEF ResponsesAssumption
<1>2. r.framing \in {"chunked", "length", "none"} /\ r.parts \in Seq(Seq(Data) \ {<< >>})
  BY <1>1
<1>3. r.parts \in Seq(Seq(Data)) /\ Len(r.parts) \in Nat
  <2>1. Seq(Data) \ {<< >>} \subseteq Seq(Data)  OBVIOUS
  <2> QED BY <1>2, <2>1, SeqMonotonic, LenProperties
<1>4. \A i \in 1..Len(r.parts) : r.parts[i] \in Seq(Data) /\ Len(r.parts[i]) \in Nat \ {0}
  <2> SUFFICES ASSUME NEW i \in 1..Len(r.parts)
               PROVE  r.parts[i] \in Seq(Data) /\ Len(r.parts[i]) \in Nat \ {0}
    OBVIOUS
  <2>1. r.parts[i] \in Seq(Data) \ {<< >>}  BY <1>2, ElementOfSeq
  <2> QED BY <2>1, EmptySeq
<1>5. Body(r) \in Seq(Data) /\ \E at : Laid(r.parts, Body(r), at)
  BY <1>3, JoinedLaid DEF Body
<1>6. Len(Body(r)) \in Nat  BY <1>5, LenProperties
<1> QED BY <1>2, <1>3, <1>4, <1>5, <1>6

LEMMA NoneLaid ==
  ASSUME NEW r \in Responses, r.framing = "none"
  PROVE  /\ Bytes(r) \in Seq(Chars) /\ Len(Bytes(r)) = 5 /\ Body(r) = << >>
         /\ Bytes(r)[1] = "HTTP" /\ Bytes(r)[2] = CR /\ Bytes(r)[3] = LF
         /\ Bytes(r)[4] = CR /\ Bytes(r)[5] = LF
<1>1. Bytes(r) = <<"HTTP", CR, LF, CR, LF>>  BY DEF Bytes
<1>2. Body(r) = << >>
  <2>1. r.parts = << >>  BY ResponsesAssumption DEF ResponsesAssumption
  <2>2. PICK at : Laid(r.parts, Body(r), at)  BY ResponseFacts
  <2>3. Len(Body(r)) = 0  BY <2>1, <2>2 DEF Laid
  <2>4. Body(r) \in Seq(Data)  BY ResponseFacts
  <2> QED BY <2>3, <2>4, EmptySeq
<1> QED BY <1>1, <1>2, LiteralChars

LEMMA LengthLaid ==
  ASSUME NEW r \in Responses, r.framing = "length"
  PROVE  LET L == Len(Body(r)) IN
         /\ L \in 0..9 /\ Bytes(r) \in Seq(Chars) /\ Len(Bytes(r)) = 18 + L
         /\ HeadIs(Bytes(r), Name(r), Value(r))
         /\ \A j \in 1..L : Bytes(r)[18 + j] = Body(r)[j]
<1> DEFINE L == Len(Body(r))
           H == Heading(ContentLength, Digit(L))
<1>1. L \in 0..9
  <2>1. L \in Nat /\ L <= 9  BY ResponseFacts, ResponsesAssumption DEF ResponsesAssumption
  <2> HIDE DEF L
  <2> QED BY <2>1
<1>2. Body(r) \in Seq(Chars)
  <2>1. Body(r) \in Seq(Data) /\ Data \subseteq Chars  BY ResponseFacts DEF Chars
  <2> QED BY <2>1, SeqMonotonic
<1>3. H \in Seq(Chars) /\ Len(H) = 18 /\ HeadIs(H, ContentLength, Digit(L))
  <2>1. ContentLength \in Chars /\ Digit(L) \in Chars  BY <1>1, LiteralChars, DigitFacts
  <2> QED BY <2>1, HeadBytes
<1>4. Bytes(r) = H \o Body(r)  BY DEF Bytes, Heading
<1> HIDE DEF H
<1>5. /\ Bytes(r) \in Seq(Chars) /\ Len(Bytes(r)) = Len(H) + Len(Body(r))
      /\ \A j \in 1..Len(Body(r)) : (H \o Body(r))[Len(H) + j] = Body(r)[j]
  <2>1. H \in Seq(Chars) /\ Body(r) \in Seq(Chars)  BY <1>2, <1>3
  <2> QED BY <1>4, <2>1, ConcatAt
<1>6. HeadIs(Bytes(r), ContentLength, Digit(L))
  <2>1. H \in Seq(Chars) /\ Len(H) >= 18 /\ HeadIs(H, ContentLength, Digit(L))  BY <1>3
  <2> HIDE DEF L
  <2>2. HeadIs(H \o Body(r), ContentLength, Digit(L))  BY <1>2, <2>1, HeadKept
  <2> QED BY <1>4, <2>2
<1>7. Name(r) = ContentLength /\ Value(r) = Digit(L)  BY DEF Name, Value
<1> QED BY <1>1, <1>3, <1>4, <1>5, <1>6, <1>7

\* The size of chunk i + 1: the last one is empty.
Size(r, i) == IF i < Len(r.parts) THEN Len(r.parts[i + 1]) ELSE 0

\* Where the chunks of a response and their data begin.
ChunksLaid(r, chunk, data) ==
  /\ chunk \in [0..Len(r.parts) -> Nat] /\ data \in [0..Len(r.parts) -> Nat]
  /\ chunk[0] = 18 /\ data[0] = 0 /\ data[Len(r.parts)] = Len(Body(r))
  /\ \A i \in 0..Len(r.parts) :
       LET m == Size(r, i)
           c == chunk[i]
           B == Bytes(r) IN
       /\ m \in 0..9 /\ (m = 0 <=> i = Len(r.parts))
       /\ B[c + 1] = Digit(m) /\ B[c + 2] = CR /\ B[c + 3] = LF
       /\ \A j \in 1..m : B[c + 3 + j] = Body(r)[data[i] + j]
       /\ B[c + 4 + m] = CR /\ B[c + 5 + m] = LF
       /\ c + 5 + m <= Len(B) /\ data[i] + m <= Len(Body(r))
       /\ i < Len(r.parts) => chunk[i + 1] = c + 5 + m /\ data[i + 1] = data[i] + m

LEMMA ChunksLaidOut ==
  ASSUME NEW r \in Responses, r.framing = "chunked"
  PROVE  /\ Bytes(r) \in Seq(Chars) /\ HeadIs(Bytes(r), Name(r), Value(r))
         /\ \E chunk, data : ChunksLaid(r, chunk, data)
<1> DEFINE n  == Len(r.parts)
           cs == [i \in DOMAIN r.parts |-> Chunk(r.parts[i])]
           H  == Heading(TransferEncoding, Chunked)
           J  == Joined(cs)
           E  == Chunk(<< >>)
           B  == Bytes(r)
<1>1. n \in Nat /\ DOMAIN r.parts = 1..n  BY ResponseFacts, LenProperties
<1>2. \A i \in 1..n : r.parts[i] \in Seq(Data) /\ Len(r.parts[i]) \in 1..9
  <2> SUFFICES ASSUME NEW i \in 1..n
               PROVE  r.parts[i] \in Seq(Data) /\ Len(r.parts[i]) \in 1..9
    OBVIOUS
  <2>1. r.parts[i] \in Seq(Data) /\ Len(r.parts[i]) \in Nat \ {0}  BY ResponseFacts
  <2>2. Len(r.parts[i]) <= 9
    BY <1>1, ResponsesAssumption DEF ResponsesAssumption
  <2>3. \A x \in Nat \ {0} : x <= 9 => x \in 1..9  OBVIOUS
  <2> QED BY <2>1, <2>2, <2>3
<1>3. \A i \in 1..n : cs[i] \in Seq(Chars) /\ Len(cs[i]) = Len(r.parts[i]) + 5
  <2> SUFFICES ASSUME NEW i \in 1..n
               PROVE  cs[i] \in Seq(Chars) /\ Len(cs[i]) = Len(r.parts[i]) + 5
    OBVIOUS
  <2>1. cs[i] = Chunk(r.parts[i])  BY <1>1
  <2>2. \A x \in 1..9 : x <= 9  OBVIOUS
  <2>3. r.parts[i] \in Seq(Data) /\ Len(r.parts[i]) <= 9  BY <1>2, <2>2
  <2> QED BY <2>1, <2>3, ChunkBytes
<1>4. cs \in Seq(Seq(Chars)) /\ Len(cs) = n
  <2>1. cs = [i \in 1..n |-> cs[i]]  BY <1>1
  <2> HIDE DEF cs
  <2>2. cs \in [1..n -> Seq(Chars)]  BY <1>3, <2>1
  <2>3. cs \in Seq(Seq(Chars))  BY <1>1, <2>2, SeqDef
  <2> QED BY <1>1, <2>2, <2>3, LenProperties
<1>5. J \in Seq(Chars) /\ \E at : Laid(cs, J, at)
  <2> HIDE DEF cs
  <2> QED BY <1>4, JoinedLaid
<1>6. H \in Seq(Chars) /\ Len(H) = 18 /\ HeadIs(H, TransferEncoding, Chunked)
  BY LiteralChars, HeadBytes
<1>7. /\ E \in Seq(Chars) /\ Len(E) = 5
      /\ E[1] = Digit(0) /\ E[2] = CR /\ E[3] = LF /\ E[4] = CR /\ E[5] = LF
  <2>1. << >> \in Seq(Data) /\ Len(<< >>) = 0  BY EmptySeq
  <2> DEFINE z == << >>
  <2> HIDE DEF z
  <2>2. z \in Seq(Data) /\ Len(z) = 0  BY <2>1 DEF z
  <2> DEFINE m == Len(z)
  <2>3. /\ Chunk(z) \in Seq(Chars) /\ Len(Chunk(z)) = m + 5
        /\ Chunk(z)[1] = Digit(m) /\ Chunk(z)[2] = CR /\ Chunk(z)[3] = LF
        /\ Chunk(z)[m + 4] = CR /\ Chunk(z)[m + 5] = LF
    <3>1. z \in Seq(Data) /\ Len(z) <= 9  BY <2>2
    <3> QED BY <3>1, ChunkBytes
  <2>4. m = 0  BY <2>2
  <2> HIDE DEF m
  <2> QED BY <2>3, <2>4 DEF z
<1>8. B = (H \o J) \o E  BY DEF Bytes, Heading
<1> HIDE DEF cs, H, J, E, B
<1>9. /\ H \o J \in Seq(Chars) /\ Len(J) \in Nat /\ Len(H \o J) = 18 + Len(J)
      /\ \A j \in 1..Len(J) : (H \o J)[18 + j] = J[j]
  <2>1. H \in Seq(Chars) /\ J \in Seq(Chars)  BY <1>5, <1>6
  <2>2. /\ H \o J \in Seq(Chars) /\ Len(J) \in Nat /\ Len(H \o J) = Len(H) + Len(J)
        /\ \A j \in 1..Len(J) : (H \o J)[Len(H) + j] = J[j]
    BY <2>1, ConcatAt
  <2> QED BY <1>6, <2>2
<1>10. /\ B \in Seq(Chars) /\ Len(B) = 18 + Len(J) + 5
       /\ \A j \in 1..Len(J) : B[18 + j] = J[j]
       /\ \A j \in 1..5 : B[18 + Len(J) + j] = E[j]
  <2>1. H \o J \in Seq(Chars) /\ E \in Seq(Chars)  BY <1>7, <1>9
  <2> DEFINE u == H \o J
  <2> HIDE DEF u
  <2>2. /\ u \o E \in Seq(Chars) /\ Len(u \o E) = Len(u) + Len(E)
        /\ \A j \in 1..Len(u) : (u \o E)[j] = u[j]
        /\ \A j \in 1..Len(E) : (u \o E)[Len(u) + j] = E[j]
    BY <2>1, ConcatAt DEF u
  <2>3. Len(u) = 18 + Len(J) /\ \A j \in 1..Len(J) : u[18 + j] = J[j]  BY <1>9 DEF u
  <2>4. B = u \o E  BY <1>8 DEF u
  <2>5. \A j \in 1..Len(J) : 18 + j \in 1..Len(u)  BY <1>9, <2>3
  <2> QED BY <1>7, <1>9, <2>2, <2>3, <2>4, <2>5
<1>11. HeadIs(B, Name(r), Value(r))
  <2>1. H \in Seq(Chars) /\ J \in Seq(Chars) /\ E \in Seq(Chars) /\ Len(H) >= 18
        /\ HeadIs(H, TransferEncoding, Chunked)
    BY <1>5, <1>6, <1>7
  <2>2. HeadIs(H \o J, TransferEncoding, Chunked)  BY <2>1, HeadKept
  <2>3. Len(H \o J) >= 18  BY <1>9
  <2>4. HeadIs((H \o J) \o E, TransferEncoding, Chunked)  BY <1>9, <2>1, <2>2, <2>3, HeadKept
  <2>5. Name(r) = TransferEncoding /\ Value(r) = Chunked  BY DEF Name, Value
  <2> QED BY <1>8, <2>4, <2>5
<1>12. PICK at : Laid(cs, J, at)  BY <1>5
<1>13. PICK data : Laid(r.parts, Body(r), data)  BY ResponseFacts
<1> DEFINE chunk == [i \in 0..n |-> 18 + at[i]]
<1>14. /\ at \in [0..n -> Nat] /\ at[0] = 0 /\ at[n] = Len(J)
       /\ \A i \in 1..n : /\ at[i] = at[i - 1] + Len(cs[i]) /\ at[i] <= Len(J)
                          /\ \A j \in 1..Len(cs[i]) : J[at[i - 1] + j] = cs[i][j]
  BY <1>4, <1>12 DEF Laid
<1>15. /\ data \in [0..n -> Nat] /\ data[0] = 0 /\ data[n] = Len(Body(r))
       /\ \A i \in 1..n : /\ data[i] = data[i - 1] + Len(r.parts[i]) /\ data[i] <= Len(Body(r))
                          /\ \A j \in 1..Len(r.parts[i]) : Body(r)[data[i - 1] + j] = r.parts[i][j]
  BY <1>13 DEF Laid
<1>16. /\ chunk \in [0..n -> Nat] /\ chunk[0] = 18
       /\ \A i \in 0..n : chunk[i] = 18 + at[i] /\ at[i] \in Nat
  <2>1. at \in [0..n -> Nat] /\ at[0] = 0  BY <1>14
  <2> HIDE DEF n
  <2>2. \A i \in 0..n : at[i] \in Nat /\ 18 + at[i] \in Nat  BY <2>1
  <2>3. 0 \in 0..n  BY <1>1
  <2> QED BY <2>1, <2>2, <2>3
<1> HIDE DEF chunk, n
<1> DEFINE Here(i, m, c, d) ==
             /\ m \in 0..9 /\ (m = 0 <=> i = n)
             /\ B[c + 1] = Digit(m) /\ B[c + 2] = CR /\ B[c + 3] = LF
             /\ \A j \in 1..m : B[c + 3 + j] = Body(r)[d + j]
             /\ B[c + 4 + m] = CR /\ B[c + 5 + m] = LF
             /\ c + 5 + m <= Len(B) /\ d + m <= Len(Body(r))
             /\ i < n => chunk[i + 1] = c + 5 + m /\ data[i + 1] = d + m
<1>17. ASSUME NEW i \in 0..n, i # n
       PROVE  Here(i, Len(r.parts[i + 1]), chunk[i], data[i])
  <2> DEFINE part == r.parts[i + 1]
             m == Len(part)
             c == chunk[i]
             d == data[i]
             k == Chunk(part)
  <2>1. i + 1 \in 1..n /\ i + 1 \in 0..n /\ (i + 1) - 1 = i  BY <1>1, <1>17
  <2>0. \A x \in 1..9 : x \in Nat /\ x >= 1 /\ x <= 9  OBVIOUS
  <2>2. part \in Seq(Data) /\ m \in 1..9 /\ m \in Nat /\ m >= 1 /\ m <= 9
    BY <1>2, <2>0, <2>1 DEF n
  <2>3. cs[i + 1] = k  BY <1>1, <2>1 DEF cs, n
  <2>4. /\ k[1] = Digit(m) /\ k[2] = CR /\ k[3] = LF /\ Len(k) = m + 5
        /\ \A j \in 1..m : k[3 + j] = part[j]
        /\ k[m + 4] = CR /\ k[m + 5] = LF
    BY <2>2, ChunkBytes
  <2>5. /\ at[i + 1] = at[i] + (m + 5) /\ at[i + 1] <= Len(J)
        /\ \A j \in 1..m + 5 : J[at[i] + j] = k[j]
    BY <1>14, <2>1, <2>3, <2>4
  <2>6. /\ data[i + 1] = d + m /\ data[i + 1] <= Len(Body(r))
        /\ \A j \in 1..m : Body(r)[d + j] = part[j]
    BY <1>15, <2>1
  <2>7. c = 18 + at[i] /\ at[i] \in Nat /\ chunk[i + 1] = 18 + at[i + 1] /\ d \in Nat
    BY <1>15, <1>16, <2>1
  <2> HIDE DEF part, m, c, d, k
  <2>8. \A j \in 1..m + 5 : B[c + j] = k[j]
    <3> SUFFICES ASSUME NEW j \in 1..m + 5 PROVE B[c + j] = k[j]  OBVIOUS
    <3>1. \A a, l, x \in Nat : \A y \in 1..x + 5 :
            a + (x + 5) <= l => a + y \in 1..l /\ (18 + a) + y = 18 + (a + y)
      OBVIOUS
    <3>2. at[i] + j \in 1..Len(J) /\ c + j = 18 + (at[i] + j)
      <4>1. at[i] + (m + 5) <= Len(J)  BY <2>5
      <4> QED BY <1>9, <2>2, <2>7, <3>1, <4>1, SMTT(30)
    <3> QED BY <1>10, <2>5, <3>2
  <2>9. B[c + 1] = Digit(m) /\ B[c + 2] = CR /\ B[c + 3] = LF
    <3>1. 1 \in 1..m + 5 /\ 2 \in 1..m + 5 /\ 3 \in 1..m + 5  BY <2>2
    <3> QED BY <2>4, <2>8, <3>1
  <2>10. \A j \in 1..m : B[c + 3 + j] = Body(r)[d + j]
    <3> SUFFICES ASSUME NEW j \in 1..m PROVE B[c + 3 + j] = Body(r)[d + j]  OBVIOUS
    <3>1. 3 + j \in 1..m + 5 /\ c + (3 + j) = c + 3 + j  BY <2>2, <2>7, SMTT(30)
    <3> QED BY <2>4, <2>6, <2>8, <3>1
  <2>11. B[c + 4 + m] = CR /\ B[c + 5 + m] = LF
    <3>1. /\ m + 4 \in 1..m + 5 /\ c + (m + 4) = c + 4 + m
          /\ m + 5 \in 1..m + 5 /\ c + (m + 5) = c + 5 + m
      BY <2>2, <2>7
    <3> QED BY <2>4, <2>8, <3>1
  <2>12. chunk[i + 1] = c + 5 + m /\ c + 5 + m <= Len(B)
    <3>1. \A a, l, x \in Nat :
            /\ 18 + (a + (x + 5)) = (18 + a) + 5 + x
            /\ a + (x + 5) <= l => (18 + a) + 5 + x <= 18 + l + 5
      OBVIOUS
    <3>2. at[i + 1] = at[i] + (m + 5) /\ at[i] + (m + 5) <= Len(J)  BY <2>5
    <3>3. chunk[i + 1] = 18 + (at[i] + (m + 5))  BY <2>7, <3>2
    <3>4. Len(B) = 18 + Len(J) + 5 /\ Len(J) \in Nat  BY <1>9, <1>10
    <3> QED BY <2>2, <2>7, <3>1, <3>2, <3>3, <3>4, SMTT(30)
  <2>13. m \in 0..9 /\ m # 0  BY <2>2
  <2>14. Here(i, m, c, d)  BY <1>17, <2>6, <2>9, <2>10, <2>11, <2>12, <2>13
  <2> QED BY <2>14 DEF m, c, d, part
<1>18. Here(n, 0, chunk[n], data[n])
  <2> DEFINE c == chunk[n]
  <2>1. n \in 0..n /\ ~(n < n)  BY <1>1
  <2>2. c = 18 + Len(J)  BY <1>14, <1>16, <2>1
  <2> HIDE DEF c
  <2>3. \A j \in 1..5 : B[c + j] = E[j]  BY <1>9, <1>10, <2>2
  <2>4. /\ B[c + 1] = Digit(0) /\ B[c + 2] = CR /\ B[c + 3] = LF
        /\ B[c + 4] = CR /\ B[c + 5] = LF
    BY <1>7, <2>3
  <2>5. c + 4 + 0 = c + 4 /\ c + 5 + 0 = c + 5 /\ c + 5 + 0 <= Len(B)  BY <1>9, <1>10, <2>2
  <2>6. data[n] + 0 <= Len(Body(r))
    <3>1. data[n] = Len(Body(r)) /\ data[n] \in Nat  BY <1>15, <2>1
    <3> QED BY <3>1
  <2>7. Here(n, 0, c, data[n])  BY <2>1, <2>4, <2>5, <2>6
  <2> QED BY <2>7 DEF c
<1>19. \A i \in 0..n : Here(i, Size(r, i), chunk[i], data[i])
  <2> SUFFICES ASSUME NEW i \in 0..n PROVE Here(i, Size(r, i), chunk[i], data[i])  OBVIOUS
  <2>1. i = n => Size(r, i) = 0  BY <1>1 DEF Size, n
  <2>2. i # n => Size(r, i) = Len(r.parts[i + 1])  BY <1>1 DEF Size, n
  <2> HIDE DEF Here
  <2> QED BY <1>17, <1>18, <2>1, <2>2
<1>20. ChunksLaid(r, chunk, data)
  BY <1>15, <1>16, <1>19 DEF ChunksLaid, n, B
<1> QED BY <1>10, <1>11, <1>20 DEF B

\* Where the chunks of a response and the data of each begin.
Places(r) == CHOOSE p : ChunksLaid(r, p.chunk, p.data)
ChunkStart(r) == Places(r).chunk
DataStart(r)  == Places(r).data

LEMMA Placing ==
  ASSUME NEW r \in Responses, r.framing = "chunked"
  PROVE  ChunksLaid(r, ChunkStart(r), DataStart(r))
<1>1. PICK chunk, data : ChunksLaid(r, chunk, data)  BY ChunksLaidOut
<1> DEFINE p == [chunk |-> chunk, data |-> data]
<1>2. ChunksLaid(r, p.chunk, p.data)  BY <1>1
<1> HIDE DEF p
<1>3. \E q : ChunksLaid(r, q.chunk, q.data)  BY <1>2
<1>4. ChunksLaid(r, Places(r).chunk, Places(r).data)  BY <1>3 DEF Places
<1> QED BY <1>4 DEF ChunkStart, DataStart

LEMMA ResponseTyped ==
  ASSUME NEW r \in Responses
  PROVE  /\ Bytes(r) \in Seq(Chars) /\ Len(Bytes(r)) \in Nat
         /\ Body(r) \in Seq(Chars) /\ Len(Body(r)) \in Nat
<1>1. Bytes(r) \in Seq(Chars)
  <2>1. r.framing \in {"chunked", "length", "none"}  BY ResponseFacts
  <2> QED BY <2>1, NoneLaid, LengthLaid, ChunksLaidOut
<1>2. Body(r) \in Seq(Data) /\ Data \subseteq Chars  BY ResponseFacts DEF Chars
<1>3. Body(r) \in Seq(Chars)  BY <1>2, SeqMonotonic
<1> QED BY <1>1, <1>3, LenProperties

LEMMA HeadOf ==
  ASSUME NEW r \in Responses
  PROVE  /\ Bytes(r)[1] = "HTTP" /\ Bytes(r)[2] = CR /\ Bytes(r)[3] = LF
         /\ r.framing = "none" =>
              Bytes(r)[4] = CR /\ Bytes(r)[5] = LF /\ Len(Bytes(r)) = 5 /\ Body(r) = << >>
         /\ r.framing # "none" =>
              Len(Bytes(r)) >= 18 /\ HeadIs(Bytes(r), Name(r), Value(r))
<1>0. r.framing \in {"chunked", "length", "none"}  BY ResponseFacts
<1>1. CASE r.framing = "none"  BY <1>1, NoneLaid
<1>2. CASE r.framing = "length"
  <2>1. Len(Body(r)) \in 0..9 /\ Len(Bytes(r)) = 18 + Len(Body(r))  BY <1>2, LengthLaid
  <2>2. \A x \in 0..9 : 18 + x >= 18  OBVIOUS
  <2>3. Len(Bytes(r)) >= 18  BY <2>1, <2>2
  <2>4. HeadIs(Bytes(r), Name(r), Value(r))  BY <1>2, LengthLaid
  <2> QED BY <1>2, <2>3, <2>4 DEF HeadIs
<1>3. CASE r.framing = "chunked"
  <2>1. HeadIs(Bytes(r), Name(r), Value(r))  BY <1>3, ChunksLaidOut
  <2>2. Len(Bytes(r)) >= 18
    <3>1. PICK chunk, data : ChunksLaid(r, chunk, data)  BY <1>3, ChunksLaidOut
    <3>2. Len(r.parts) \in Nat /\ 0 \in 0..Len(r.parts)  BY ResponseFacts
    <3>3. Size(r, 0) \in 0..9 /\ chunk[0] = 18 /\ chunk[0] + 5 + Size(r, 0) <= Len(Bytes(r))
      BY <3>1, <3>2 DEF ChunksLaid
    <3>4. \A x \in 0..9, l \in Nat : 18 + 5 + x <= l => l >= 18  OBVIOUS
    <3> QED BY <3>3, <3>4, ResponseTyped
  <2> QED BY <1>3, <2>1, <2>2 DEF HeadIs
<1> QED BY <1>0, <1>1, <1>2, <1>3

-----------------------------------------------------------------------------
(* Where the parser is                                                      *)

States ==
  {"getHTTPStatusLine", "finishedHTTPStatusLine", "getHeaderName", "getHeaderValue",
   "finishedHeaderValue", "finishedHeaderValue_2", "getChunkLength", "getChunkData",
   "finishedChunkData", "getContentLengthData", "packetEnd"}

Parsers ==
  [state : States,
   pos : 0..1, type : {"empty", "chunked", "length"}, remaining : Nat,
   name : Seq(Chars), value : Seq(Chars), length : Seq(Chars)]

\* In the head of a response, before the header that says how it is framed ends.
HeadAt(q, s, p, n, v) ==
  /\ q.state = s /\ q.pos = p /\ q.name = n /\ q.value = v
  /\ q.type = "empty" /\ q.length = << >>

\* What the parser holds after k bytes of the head: the status line, a header
\* that says nothing of the body, and the one that says how it is framed.
InHead(r, k, q) ==
  \/ k \in {0, 1} /\ HeadAt(q, "getHTTPStatusLine", 0, << >>, << >>)
  \/ k = 2 /\ HeadAt(q, "getHTTPStatusLine", 1, << >>, << >>)
  \/ k = 3 /\ HeadAt(q, "finishedHTTPStatusLine", 0, << >>, << >>)
  \/ k = 4 /\ r.framing = "none" /\ HeadAt(q, "finishedHeaderValue_2", 0, << >>, << >>)
  \/ /\ r.framing # "none"
     /\ \/ k = 4 /\ HeadAt(q, "getHeaderName", 0, <<"Da">>, << >>)
        \/ k = 5 /\ HeadAt(q, "getHeaderName", 0, <<"Da", "te">>, << >>)
        \/ k = 6 /\ HeadAt(q, "getHeaderValue", 0, <<"Da", "te">>, << >>)
        \/ k = 7 /\ HeadAt(q, "getHeaderValue", 0, <<"Da", "te">>, <<SP>>)
        \/ k = 8 /\ HeadAt(q, "getHeaderValue", 0, <<"Da", "te">>, <<SP, "now">>)
        \/ k = 9 /\ HeadAt(q, "getHeaderValue", 1, <<"Da", "te">>, <<SP, "now", CR>>)
        \/ k = 10 /\ HeadAt(q, "finishedHeaderValue", 0, <<"Da", "te">>, <<SP, "now">>)
        \/ k = 11 /\ HeadAt(q, "getHeaderName", 0, <<Name(r)>>, << >>)
        \/ k = 12 /\ HeadAt(q, "getHeaderValue", 0, <<Name(r)>>, << >>)
        \/ k = 13 /\ HeadAt(q, "getHeaderValue", 0, <<Name(r)>>, <<SP>>)
        \/ k = 14 /\ HeadAt(q, "getHeaderValue", 0, <<Name(r)>>, <<SP, Value(r)>>)
        \/ k = 15 /\ HeadAt(q, "getHeaderValue", 1, <<Name(r)>>, <<SP, Value(r), CR>>)
        \/ /\ q.type = r.framing /\ q.pos = 0 /\ q.length = << >>
           /\ \/ k = 16 /\ q.state = "finishedHeaderValue"
              \/ k = 17 /\ q.state = "finishedHeaderValue_2"
           /\ r.framing = "length" => q.remaining = Len(Body(r))

\* Chunk i begins after byte c of the response and data byte d of the body.
InChunk(r, i, c, d, k, g, q) ==
  \/ /\ q.state = "getChunkLength" /\ g = d
     /\ \/ k = c     /\ q.pos = 0 /\ q.length = << >>
        \/ k = c + 1 /\ q.pos = 0 /\ q.length = <<Digit(Size(r, i))>>
        \/ k = c + 2 /\ q.pos = 1 /\ q.length = <<Digit(Size(r, i))>>
  \/ /\ q.state = "getChunkData" /\ q.pos = 0
     /\ k \in c + 3..c + 2 + Size(r, i)
     /\ q.remaining = c + 3 + Size(r, i) - k /\ g = d + (k - c - 3)
  \/ /\ q.state = "finishedChunkData" /\ q.length = << >>
     /\ Size(r, i) > 0 /\ g = d + Size(r, i)
     /\ \/ k = c + 3 + Size(r, i) /\ q.pos = 0
        \/ k = c + 4 + Size(r, i) /\ q.pos = 1

InLength(r, k, g, q) ==
  /\ q.state = "getContentLengthData" /\ q.pos = 0
  /\ q.remaining = Len(Body(r)) - g /\ k = 18 + g

InSomeChunk(r, k, g, q) ==
  \E i \in 0..Len(r.parts) : InChunk(r, i, ChunkStart(r)[i], DataStart(r)[i], k, g, q)

\* The parser has taken the first k bytes of the response, and has written the
\* first g bytes of its body.
Placed(r, k, g, q) ==
  \/ InHead(r, k, q) /\ g = 0
  \/ r.framing = "length" /\ InLength(r, k, g, q)
  \/ r.framing = "chunked" /\ InSomeChunk(r, k, g, q)

\* The parser is there, and the packet goes on with the next byte.
Parsing(k, g) ==
  /\ response \in Responses /\ parser \in Parsers /\ packet \in Seq(Chars) /\ Byte \in Chars
  /\ k \in Nat /\ g \in Nat /\ g <= Len(Body(response)) /\ k < Len(Bytes(response))
  /\ Byte = Bytes(response)[k + 1] /\ Placed(response, k, g, parser)

\* It has taken that byte, and written it if it is data.
Reaches(k, g) ==
  IF parser'.state = "packetEnd"
  THEN g = Len(Body(response))
  ELSE Placed(response, k, g, parser')

Moves(k, g) ==
  /\ parser' \in Parsers
  /\ \/ buf' = buf /\ Reaches(k + 1, g)
     \/ /\ g < Len(Body(response)) /\ buf' = Append(buf, Body(response)[g + 1])
        /\ Reaches(k + 1, g + 1)

LEMMA StateSet ==
  ASSUME NEW q \in Parsers, NEW s \in States
  PROVE  /\ SetState(q, s) \in Parsers /\ SetState(q, s).state = s /\ SetState(q, s).pos = 0
         /\ SetState(q, s).type = q.type /\ SetState(q, s).remaining = q.remaining
         /\ SetState(q, s).name = q.name /\ SetState(q, s).value = q.value
         /\ SetState(q, s).length = q.length
<1> DEFINE x == [q EXCEPT !.pos = 0]
           y == [x EXCEPT !.state = s]
<1>1. /\ x \in Parsers /\ x.pos = 0 /\ x.type = q.type /\ x.remaining = q.remaining
      /\ x.name = q.name /\ x.value = q.value /\ x.length = q.length
  BY DEF Parsers
<1>2. SetState(q, s) = y  BY DEF SetState
<1> HIDE DEF x
<1>3. /\ y \in Parsers /\ y.state = s /\ y.pos = x.pos /\ y.type = x.type
      /\ y.remaining = x.remaining /\ y.name = x.name /\ y.value = x.value
      /\ y.length = x.length
  BY <1>1 DEF Parsers
<1> HIDE DEF y
<1> QED BY <1>1, <1>2, <1>3

LEMMA StatusLineMoves ==
  ASSUME NEW k, NEW g, Parsing(k, g), StatusLineByte
  PROVE  Moves(k, g)
<1>1. parser.state = "getHTTPStatusLine" /\ buf' = buf /\ parser \in Parsers
  BY DEF StatusLineByte, State, Parsing
<1>2. parser' = IF LineDone THEN SetState(parser, "finishedHTTPStatusLine")
                ELSE [parser EXCEPT !.pos = Position]
  BY DEF StatusLineByte, Processed
<1>3. k \in Nat /\ g = 0 /\ InHead(response, k, parser)
  BY <1>1 DEF Parsing, Placed, InLength, InSomeChunk, InChunk
<1>4. \/ k \in {0, 1} /\ HeadAt(parser, "getHTTPStatusLine", 0, << >>, << >>)
      \/ k = 2 /\ HeadAt(parser, "getHTTPStatusLine", 1, << >>, << >>)
  BY <1>1, <1>3 DEF InHead, HeadAt
<1>5. /\ k = 0 => Byte = "HTTP"
      /\ k = 1 => Byte = CR
      /\ k = 2 => Byte = LF
  BY <1>3, HeadOf DEF Parsing
<1>6. CASE k = 0
  <2>1. parser' = [parser EXCEPT !.pos = 0]
    BY <1>2, <1>4, <1>5, <1>6 DEF LineDone, Position, Matches, HeadAt, CR, LF
  <2>2. parser' \in Parsers /\ HeadAt(parser', "getHTTPStatusLine", 0, << >>, << >>)
    BY <1>1, <1>4, <1>6, <2>1 DEF Parsers, HeadAt
  <2> QED BY <1>1, <1>3, <1>6, <2>2 DEF Moves, Reaches, Placed, InHead, HeadAt
<1>7. CASE k = 1
  <2>1. parser' = [parser EXCEPT !.pos = 1]
    BY <1>2, <1>4, <1>5, <1>7 DEF LineDone, Position, Matches, HeadAt, CR, LF
  <2>2. parser' \in Parsers /\ HeadAt(parser', "getHTTPStatusLine", 1, << >>, << >>)
    BY <1>1, <1>4, <1>7, <2>1 DEF Parsers, HeadAt
  <2> QED BY <1>1, <1>3, <1>7, <2>2 DEF Moves, Reaches, Placed, InHead, HeadAt
<1>8. CASE k = 2
  <2>1. parser' = SetState(parser, "finishedHTTPStatusLine")
    BY <1>2, <1>4, <1>5, <1>8 DEF LineDone, Position, Matches, HeadAt, CR, LF
  <2>2. parser' \in Parsers /\ HeadAt(parser', "finishedHTTPStatusLine", 0, << >>, << >>)
    BY <1>1, <1>4, <1>8, <2>1, StateSet DEF States, HeadAt
  <2> QED BY <1>1, <1>3, <1>8, <2>2 DEF Moves, Reaches, Placed, InHead, HeadAt
<1> QED BY <1>4, <1>6, <1>7, <1>8

LEMMA NameBytes ==
  ASSUME NEW r \in Responses, r.framing # "none"
  PROVE  /\ Name(r) \in Chars /\ Name(r) # CR /\ Name(r) # Colon
         /\ Value(r) \in Chars /\ Value(r) # CR
<1>1. Name(r) \in Chars /\ Name(r) # CR /\ Name(r) # Colon
  BY LiteralChars DEF Name, TransferEncoding, ContentLength, CR, Colon
<1>2. CASE r.framing = "chunked"
  BY <1>1, <1>2, LiteralChars DEF Value, Chunked, CR
<1>3. CASE r.framing = "length"
  <2>1. Len(Body(r)) \in 0..9  BY <1>3, LengthLaid
  <2>2. Value(r) = Digit(Len(Body(r)))  BY <1>3 DEF Value
  <2> QED BY <1>1, <2>1, <2>2, DigitFacts
<1> QED BY <1>2, <1>3, ResponseFacts

LEMMA ShortText ==
  ASSUME NEW a \in Chars, NEW b \in Chars, NEW c \in Chars
  PROVE  /\ << >> \in Seq(Chars) /\ <<a>> \in Seq(Chars) /\ <<a, b>> \in Seq(Chars)
         /\ <<a, b, c>> \in Seq(Chars)
         /\ Append(<< >>, a) = <<a>> /\ Append(<<a>>, b) = <<a, b>>
         /\ Append(<<a, b>>, c) = <<a, b, c>>
         /\ Len(<<a, b, c>>) = 3 /\ SubSeq(<<a, b, c>>, 1, 2) = <<a, b>>
<1>1. /\ << >> \in Seq(Chars) /\ <<a>> \in Seq(Chars) /\ <<a, b>> \in Seq(Chars)
      /\ <<a, b, c>> \in Seq(Chars)
  OBVIOUS
<1>2. /\ Len(<< >>) = 0 /\ Len(<<a>>) = 1 /\ Len(<<a, b>>) = 2 /\ Len(<<a, b, c>>) = 3
      /\ <<a>>[1] = a /\ <<a, b>>[1] = a /\ <<a, b>>[2] = b
      /\ <<a, b, c>>[1] = a /\ <<a, b, c>>[2] = b /\ <<a, b, c>>[3] = c
  OBVIOUS
<1> DEFINE u == << >>
           v == <<a>>
           w == <<a, b>>
           x == <<a, b, c>>
<1> HIDE DEF u, v, w, x
<1>3. Append(u, a) = v
  <2>1. /\ Append(u, a) \in Seq(Chars) /\ Len(Append(u, a)) = Len(u) + 1
        /\ Append(u, a)[Len(u) + 1] = a
    <3>1. u \in Seq(Chars)  BY <1>1 DEF u
    <3> QED BY <3>1, AppendProperties
  <2>2. v \in Seq(Chars) /\ Len(v) = 1 /\ v[1] = a /\ Len(u) = 0  BY <1>1, <1>2 DEF u, v
  <2>3. Len(Append(u, a)) = Len(v) /\ \A i \in 1..Len(v) : Append(u, a)[i] = v[i]  BY <2>1, <2>2
  <2> QED BY <2>1, <2>2, <2>3, SeqEqual
<1>4. Append(v, b) = w
  <2>1. /\ Append(v, b) \in Seq(Chars) /\ Len(Append(v, b)) = Len(v) + 1
        /\ \A i \in 1..Len(v) : Append(v, b)[i] = v[i]
        /\ Append(v, b)[Len(v) + 1] = b
    <3>1. v \in Seq(Chars)  BY <1>1 DEF v
    <3> QED BY <3>1, AppendProperties
  <2>2. w \in Seq(Chars) /\ Len(w) = 2 /\ w[1] = a /\ w[2] = b /\ Len(v) = 1 /\ v[1] = a
    BY <1>1, <1>2 DEF w, v
  <2>3. Len(Append(v, b)) = Len(w) /\ \A i \in 1..Len(w) : Append(v, b)[i] = w[i]  BY <2>1, <2>2
  <2> QED BY <2>1, <2>2, <2>3, SeqEqual
<1>5. w \in Seq(Chars) /\ Len(w) = 2 /\ w[1] = a /\ w[2] = b  BY <1>1, <1>2 DEF w
<1>6. x \in Seq(Chars) /\ Len(x) = 3 /\ x[1] = a /\ x[2] = b /\ x[3] = c
  BY <1>1, <1>2 DEF x
<1>7. Append(w, c) = x
  <2>1. /\ Append(w, c) \in Seq(Chars) /\ Len(Append(w, c)) = Len(w) + 1
        /\ \A i \in 1..Len(w) : Append(w, c)[i] = w[i]
        /\ Append(w, c)[Len(w) + 1] = c
    <3>1. w \in Seq(Chars)  BY <1>5
    <3> QED BY <3>1, AppendProperties
  <2>2. Len(Append(w, c)) = Len(x) /\ \A i \in 1..Len(x) : Append(w, c)[i] = x[i]
    BY <1>5, <1>6, <2>1
  <2> QED BY <1>6, <2>1, <2>2, SeqEqual
<1>8. SubSeq(x, 1, 2) = w
  <2>1. \A i \in 1..2 : x[i] \in Chars  BY <1>6
  <2>2. /\ SubSeq(x, 1, 2) \in Seq(Chars) /\ Len(SubSeq(x, 1, 2)) = 2
        /\ \A i \in 1..2 : SubSeq(x, 1, 2)[i] = x[i]
    BY <2>1, SubSeqProperties
  <2>3. Len(SubSeq(x, 1, 2)) = Len(w) /\ \A i \in 1..Len(w) : SubSeq(x, 1, 2)[i] = w[i]
    BY <1>5, <1>6, <2>2
  <2> QED BY <1>5, <2>2, <2>3, SeqEqual
<1> QED BY <1>1, <1>2, <1>3, <1>4, <1>7, <1>8 DEF u, v, w, x

\* The bytes that the parser meets in a head.
LEMMA HeadByte ==
  ASSUME NEW k, NEW g, Parsing(k, g), response.framing # "none"
  PROVE  /\ k = 3 => Byte = "Da"
         /\ k = 4 => Byte = "te"
         /\ k = 5 => Byte = Colon
         /\ k = 6 => Byte = SP
         /\ k = 7 => Byte = "now"
         /\ k = 8 => Byte = CR
         /\ k = 9 => Byte = LF
         /\ k = 10 => Byte = Name(response)
         /\ k = 11 => Byte = Colon
         /\ k = 12 => Byte = SP
         /\ k = 13 => Byte = Value(response)
         /\ k = 14 => Byte = CR
         /\ k = 15 => Byte = LF
         /\ k = 16 => Byte = CR
         /\ k = 17 => Byte = LF
<1> DEFINE B == Bytes(response)
           n == Name(response)
           v == Value(response)
<1>1. HeadIs(B, n, v)  BY HeadOf DEF Parsing
<1>2. Byte = B[k + 1]  BY DEF Parsing
<1> HIDE DEF B, n, v
<1>3. /\ k = 3 => Byte = B[4]
      /\ k = 4 => Byte = B[5]
      /\ k = 5 => Byte = B[6]
      /\ k = 6 => Byte = B[7]
      /\ k = 7 => Byte = B[8]
      /\ k = 8 => Byte = B[9]
      /\ k = 9 => Byte = B[10]
      /\ k = 10 => Byte = B[11]
      /\ k = 11 => Byte = B[12]
      /\ k = 12 => Byte = B[13]
      /\ k = 13 => Byte = B[14]
      /\ k = 14 => Byte = B[15]
      /\ k = 15 => Byte = B[16]
      /\ k = 16 => Byte = B[17]
      /\ k = 17 => Byte = B[18]
  BY <1>2
<1>4. /\ B[4] = "Da"
      /\ B[5] = "te"
      /\ B[6] = Colon
      /\ B[7] = SP
      /\ B[8] = "now"
      /\ B[9] = CR
      /\ B[10] = LF
      /\ B[11] = n
      /\ B[12] = Colon
      /\ B[13] = SP
      /\ B[14] = v
      /\ B[15] = CR
      /\ B[16] = LF
      /\ B[17] = CR
      /\ B[18] = LF
  BY <1>1 DEF HeadIs
<1> QED BY <1>3, <1>4 DEF n, v

LEMMA LineStartMoves ==
  ASSUME NEW k, NEW g, Parsing(k, g), LineStartByte
  PROVE  Moves(k, g)
<1>1. /\ parser.state \in {"finishedHTTPStatusLine", "finishedHeaderValue"} /\ buf' = buf
      /\ parser \in Parsers /\ response \in Responses /\ Byte \in Chars
  BY DEF LineStartByte, State, Parsing
<1>2. parser' = IF Byte = CR THEN SetState(parser, "finishedHeaderValue_2")
                ELSE [SetState(parser, "getHeaderName") EXCEPT !.name = <<Byte>>, !.value = << >>]
  BY DEF LineStartByte, Processed
<1>3. k \in Nat /\ g = 0 /\ InHead(response, k, parser)
  BY <1>1 DEF Parsing, Placed, InLength, InSomeChunk, InChunk
<1>4. /\ k \in {3, 10, 16} /\ parser.length = << >>
      /\ k # 16 => parser.type = "empty"
      /\ k # 3 => response.framing # "none"
      /\ k = 16 => /\ parser.type = response.framing
                   /\ response.framing = "length" => parser.remaining = Len(Body(response))
  BY <1>1, <1>3 DEF InHead, HeadAt
<1>5. /\ k = 3 => Byte = IF response.framing = "none" THEN CR ELSE "Da"
      /\ k = 10 => Byte = Name(response)
      /\ k = 16 => Byte = CR
  <2>1. CASE response.framing = "none"
    <3>1. k = 3  BY <1>4, <2>1
    <3>2. Byte = Bytes(response)[k + 1]  BY DEF Parsing
    <3>3. Byte = Bytes(response)[4]  BY <3>1, <3>2
    <3> QED BY <1>1, <2>1, <3>1, <3>3, HeadOf
  <2>2. CASE response.framing # "none"  BY <1>4, <2>2, HeadByte
  <2> QED BY <2>1, <2>2
<1>6. CASE Byte = CR
  <2>1. parser' = SetState(parser, "finishedHeaderValue_2")  BY <1>2, <1>6
  <2>2. /\ parser' \in Parsers /\ parser'.state = "finishedHeaderValue_2" /\ parser'.pos = 0
        /\ parser'.length = << >> /\ parser'.type = parser.type
        /\ parser'.remaining = parser.remaining /\ parser'.name = parser.name
        /\ parser'.value = parser.value
    BY <1>1, <1>4, <2>1, StateSet DEF States
  <2>3. (k = 3 /\ response.framing = "none") \/ k = 16
    BY <1>1, <1>4, <1>5, <1>6, NameBytes DEF CR
  <2>4. CASE k = 3
    <3>1. parser.name = << >> /\ parser.value = << >>  BY <1>3, <2>4 DEF InHead, HeadAt
    <3>2. HeadAt(parser', "finishedHeaderValue_2", 0, << >>, << >>)
      BY <1>4, <2>2, <2>4, <3>1 DEF HeadAt
    <3> QED BY <1>1, <1>3, <2>2, <2>3, <2>4, <3>2 DEF Moves, Reaches, Placed, InHead
  <2>5. CASE k = 16
    <3>1. InHead(response, k + 1, parser')  BY <1>4, <2>2, <2>5 DEF InHead
    <3> QED BY <1>1, <1>3, <2>2, <3>1 DEF Moves, Reaches, Placed
  <2> QED BY <2>3, <2>4, <2>5
<1>7. CASE Byte # CR
  <2> DEFINE x == SetState(parser, "getHeaderName")
             y == [x EXCEPT !.name = <<Byte>>]
             z == [y EXCEPT !.value = << >>]
  <2>1. parser' = z  BY <1>2, <1>7
  <2>2. x \in Parsers /\ x.state = "getHeaderName" /\ x.pos = 0 /\ x.type = parser.type /\ x.length = << >>
    BY <1>1, <1>4, StateSet DEF States
  <2>3. <<Byte>> \in Seq(Chars) /\ << >> \in Seq(Chars)  BY <1>1, ShortText
  <2> HIDE DEF x
  <2>4. /\ y \in Parsers /\ y.state = x.state /\ y.pos = x.pos /\ y.type = x.type
        /\ y.length = x.length /\ y.name = <<Byte>>
    BY <2>2, <2>3 DEF Parsers
  <2> HIDE DEF y
  <2>5. /\ z \in Parsers /\ z.state = y.state /\ z.pos = y.pos /\ z.type = y.type
        /\ z.length = y.length /\ z.name = y.name /\ z.value = << >>
    BY <2>3, <2>4 DEF Parsers
  <2> HIDE DEF z
  <2>6. response.framing # "none" /\ (k = 3 \/ k = 10)  BY <1>4, <1>5, <1>7
  <2>7. HeadAt(parser', "getHeaderName", 0, <<Byte>>, << >>)
    BY <1>4, <2>1, <2>2, <2>4, <2>5, <2>6 DEF HeadAt
  <2>8. InHead(response, k + 1, parser')
    <3>1. CASE k = 3  BY <1>5, <2>6, <2>7, <3>1 DEF InHead
    <3>2. CASE k = 10  BY <1>5, <2>6, <2>7, <3>2 DEF InHead
    <3> QED BY <2>6, <3>1, <3>2
  <2>9. parser' \in Parsers /\ parser'.state # "packetEnd"  BY <2>1, <2>2, <2>4, <2>5
  <2> QED BY <1>1, <1>3, <2>8, <2>9 DEF Moves, Reaches, Placed
<1> QED BY <1>6, <1>7

LEMMA HeaderNameMoves ==
  ASSUME NEW k, NEW g, Parsing(k, g), HeaderNameByte
  PROVE  Moves(k, g)
<1>1. /\ parser.state = "getHeaderName" /\ buf' = buf
      /\ parser \in Parsers /\ response \in Responses /\ Byte \in Chars
  BY DEF HeaderNameByte, State, Parsing
<1>2. parser' = IF Byte = Colon THEN SetState(parser, "getHeaderValue")
                ELSE [parser EXCEPT !.pos = 0, !.name = Append(@, Byte)]
  BY DEF HeaderNameByte, Processed
<1>3. k \in Nat /\ g = 0 /\ InHead(response, k, parser)
  BY <1>1 DEF Parsing, Placed, InLength, InSomeChunk, InChunk
<1>4. /\ response.framing # "none"
      /\ \/ k = 4 /\ HeadAt(parser, "getHeaderName", 0, <<"Da">>, << >>)
         \/ k = 5 /\ HeadAt(parser, "getHeaderName", 0, <<"Da", "te">>, << >>)
         \/ k = 11 /\ HeadAt(parser, "getHeaderName", 0, <<Name(response)>>, << >>)
  BY <1>1, <1>3 DEF InHead, HeadAt
<1>5. /\ k = 4 => Byte = "te"
      /\ k \in {5, 11} => Byte = Colon
  BY <1>4, HeadByte
<1>6. CASE k = 4
  <2> DEFINE x == [parser EXCEPT !.pos = 0]
             y == [x EXCEPT !.name = Append(@, Byte)]
  <2>1. parser' = y  BY <1>2, <1>5, <1>6 DEF Colon
  <2>2. HeadAt(parser, "getHeaderName", 0, <<"Da">>, << >>)  BY <1>4, <1>6
  <2>3. x \in Parsers /\ HeadAt(x, "getHeaderName", 0, <<"Da">>, << >>)
    BY <1>1, <2>2 DEF Parsers, HeadAt
  <2>4. Append(<<"Da">>, "te") = <<"Da", "te">> /\ <<"Da", "te">> \in Seq(Chars)
    BY LiteralChars, ShortText
  <2> HIDE DEF x
  <2>5. y \in Parsers /\ HeadAt(y, "getHeaderName", 0, <<"Da", "te">>, << >>)
    <3>1. Append(x.name, Byte) = <<"Da", "te">>  BY <1>5, <1>6, <2>3, <2>4 DEF HeadAt
    <3>2. Append(x.name, Byte) \in Seq(Chars)  BY <2>4, <3>1
    <3>3. /\ y \in Parsers /\ y.name = Append(x.name, Byte) /\ y.state = x.state /\ y.pos = x.pos
          /\ y.value = x.value /\ y.type = x.type /\ y.length = x.length
      BY <2>3, <3>2 DEF Parsers
    <3> QED BY <2>3, <3>1, <3>3 DEF HeadAt
  <2>6. InHead(response, k + 1, parser')  BY <1>4, <1>6, <2>1, <2>5 DEF InHead
  <2> QED BY <1>1, <1>3, <2>1, <2>5, <2>6 DEF Moves, Reaches, Placed, HeadAt
<1>7. CASE k \in {5, 11}
  <2>1. parser' = SetState(parser, "getHeaderValue")  BY <1>2, <1>5, <1>7
  <2>2. /\ parser' \in Parsers
        /\ HeadAt(parser', "getHeaderValue", 0, parser.name, << >>)
    BY <1>1, <1>4, <2>1, StateSet DEF States, HeadAt
  <2>3. InHead(response, k + 1, parser')
    <3>1. CASE k = 5
      <4>1. parser.name = <<"Da", "te">>  BY <1>4, <3>1 DEF HeadAt
      <4> QED BY <1>4, <2>2, <3>1, <4>1 DEF InHead
    <3>2. CASE k = 11
      <4>1. parser.name = <<Name(response)>>  BY <1>4, <3>2 DEF HeadAt
      <4> QED BY <1>4, <2>2, <3>2, <4>1 DEF InHead
    <3> QED BY <1>7, <3>1, <3>2
  <2> QED BY <1>1, <1>3, <2>2, <2>3 DEF Moves, Reaches, Placed, HeadAt
<1> QED BY <1>4, <1>6, <1>7

LEMMA ValueGrows ==
  ASSUME NEW k, NEW g, NEW n, NEW v, Parsing(k, g), HeaderValueByte,
         HeadAt(parser, "getHeaderValue", 0, n, v)
  PROVE  /\ parser' \in Parsers
         /\ HeadAt(parser', "getHeaderValue", IF Byte = CR THEN 1 ELSE 0, n, Append(v, Byte))
<1>1. parser \in Parsers /\ Byte \in Chars  BY DEF Parsing
<1> DEFINE p == IF Byte = CR THEN 1 ELSE 0
           x == [parser EXCEPT !.pos = p]
           y == [x EXCEPT !.value = Append(@, Byte)]
<1>2. ~LineDone /\ Position = p  BY DEF HeadAt, LineDone, Position, Matches
<1>3. parser' = y  BY <1>2 DEF HeaderValueByte, Processed
<1>4. p \in 0..1  OBVIOUS
<1> HIDE DEF p
<1>5. x \in Parsers /\ HeadAt(x, "getHeaderValue", p, n, v)
  BY <1>1, <1>4 DEF Parsers, HeadAt
<1> HIDE DEF x
<1>6. Append(x.value, Byte) \in Seq(Chars)
  <2>1. x.value \in Seq(Chars)  BY <1>5 DEF Parsers
  <2> QED BY <1>1, <2>1, AppendProperties
<1>7. /\ y \in Parsers /\ y.value = Append(x.value, Byte) /\ y.state = x.state /\ y.pos = x.pos
      /\ y.name = x.name /\ y.type = x.type /\ y.length = x.length
  BY <1>5, <1>6 DEF Parsers
<1> HIDE DEF y
<1>8. HeadAt(y, "getHeaderValue", p, n, Append(v, Byte))  BY <1>5, <1>7 DEF HeadAt
<1> QED BY <1>3, <1>7, <1>8 DEF p

LEMMA ValueEnds ==
  ASSUME NEW k, NEW g, NEW n, NEW a \in Chars, NEW b \in Chars,
         Parsing(k, g), HeaderValueByte,
         HeadAt(parser, "getHeaderValue", 1, n, <<a, b, CR>>), Byte = LF
  PROVE  \E x \in Parsers :
           HeadAt(x, "finishedHeaderValue", 0, n, <<a, b>>) /\ parser' = WithHeader(x)
<1>1. parser \in Parsers  BY DEF Parsing
<1> DEFINE z == SetState(parser, "finishedHeaderValue")
           x == [z EXCEPT !.value = SubSeq(@, 1, Len(@) - 1)]
<1>2. LineDone  BY DEF HeadAt, LineDone, Matches
<1>3. parser' = WithHeader(x)  BY <1>2 DEF HeaderValueByte, Processed
<1>4. z \in Parsers /\ HeadAt(z, "finishedHeaderValue", 0, n, <<a, b, CR>>)
  BY <1>1, StateSet DEF HeadAt, States
<1> HIDE DEF z
<1>5. SubSeq(z.value, 1, Len(z.value) - 1) = <<a, b>> /\ <<a, b>> \in Seq(Chars)
  <2>1. Len(<<a, b, CR>>) = 3 /\ SubSeq(<<a, b, CR>>, 1, 2) = <<a, b>> /\ <<a, b>> \in Seq(Chars)
    BY LiteralChars, ShortText, ZenonT(30)
  <2>2. z.value = <<a, b, CR>>  BY <1>4 DEF HeadAt
  <2>3. Len(z.value) - 1 = 2  BY <2>1, <2>2
  <2> QED BY <2>1, <2>2, <2>3
<1>6. /\ x \in Parsers /\ x.value = <<a, b>> /\ x.state = z.state /\ x.pos = z.pos
      /\ x.name = z.name /\ x.type = z.type /\ x.length = z.length
  BY <1>4, <1>5 DEF Parsers
<1> HIDE DEF x
<1>7. HeadAt(x, "finishedHeaderValue", 0, n, <<a, b>>)  BY <1>4, <1>6 DEF HeadAt
<1> QED BY <1>3, <1>6, <1>7

LEMMA HeaderValueMoves ==
  ASSUME NEW k, NEW g, Parsing(k, g), HeaderValueByte
  PROVE  Moves(k, g)
<1>1. /\ parser.state = "getHeaderValue" /\ buf' = buf
      /\ parser \in Parsers /\ response \in Responses /\ Byte \in Chars
  BY DEF HeaderValueByte, State, Parsing
<1>3. k \in Nat /\ g = 0 /\ InHead(response, k, parser)
  BY <1>1 DEF Parsing, Placed, InLength, InSomeChunk, InChunk
<1> DEFINE dt == <<"Da", "te">>
           nm == <<Name(response)>>
           V  == Value(response)
<1>4. /\ response.framing # "none"
      /\ \/ k = 6 /\ HeadAt(parser, "getHeaderValue", 0, dt, << >>)
         \/ k = 7 /\ HeadAt(parser, "getHeaderValue", 0, dt, <<SP>>)
         \/ k = 8 /\ HeadAt(parser, "getHeaderValue", 0, dt, <<SP, "now">>)
         \/ k = 9 /\ HeadAt(parser, "getHeaderValue", 1, dt, <<SP, "now", CR>>)
         \/ k = 12 /\ HeadAt(parser, "getHeaderValue", 0, nm, << >>)
         \/ k = 13 /\ HeadAt(parser, "getHeaderValue", 0, nm, <<SP>>)
         \/ k = 14 /\ HeadAt(parser, "getHeaderValue", 0, nm, <<SP, V>>)
         \/ k = 15 /\ HeadAt(parser, "getHeaderValue", 1, nm, <<SP, V, CR>>)
  BY <1>1, <1>3 DEF InHead, HeadAt
<1>5. V \in Chars /\ V # CR /\ SP \in Chars /\ CR \in Chars /\ "now" \in Chars
  BY <1>1, <1>4, NameBytes, LiteralChars
<1>6. SUFFICES parser' \in Parsers /\ InHead(response, k + 1, parser')
                 /\ parser'.state # "packetEnd"
  BY <1>1, <1>3 DEF Moves, Reaches, Placed
<1>7. SP # CR /\ "now" # CR  BY DEF SP, CR
<1> HIDE DEF dt, nm, V
<1>8. CASE k = 6
  <2>1. HeadAt(parser, "getHeaderValue", 0, dt, << >>) /\ Byte = SP
    BY <1>4, <1>8, HeadByte DEF V
  <2>2. Append(<< >>, Byte) = <<SP>>  BY <1>5, <2>1, ShortText
  <2>3. parser' \in Parsers /\ HeadAt(parser', "getHeaderValue", 0, dt, <<SP>>)
    BY <1>5, <1>7, <2>1, <2>2, ValueGrows
  <2>4. InHead(response, k + 1, parser')  BY <1>4, <1>8, <2>3 DEF InHead, dt, nm, V
  <2> QED BY <2>3, <2>4 DEF HeadAt
<1>9. CASE k = 7
  <2>1. HeadAt(parser, "getHeaderValue", 0, dt, <<SP>>) /\ Byte = "now"
    BY <1>4, <1>9, HeadByte DEF V
  <2>2. Append(<<SP>>, Byte) = <<SP, "now">>  BY <1>5, <2>1, ShortText
  <2>3. parser' \in Parsers /\ HeadAt(parser', "getHeaderValue", 0, dt, <<SP, "now">>)
    BY <1>5, <1>7, <2>1, <2>2, ValueGrows
  <2>4. InHead(response, k + 1, parser')  BY <1>4, <1>9, <2>3 DEF InHead, dt, nm, V
  <2> QED BY <2>3, <2>4 DEF HeadAt
<1>10. CASE k = 8
  <2>1. HeadAt(parser, "getHeaderValue", 0, dt, <<SP, "now">>) /\ Byte = CR
    BY <1>4, <1>10, HeadByte DEF V
  <2>2. Append(<<SP, "now">>, Byte) = <<SP, "now", CR>>  BY <1>5, <2>1, ShortText
  <2>3. parser' \in Parsers /\ HeadAt(parser', "getHeaderValue", 1, dt, <<SP, "now", CR>>)
    BY <1>5, <1>7, <2>1, <2>2, ValueGrows
  <2>4. InHead(response, k + 1, parser')  BY <1>4, <1>10, <2>3 DEF InHead, dt, nm, V
  <2> QED BY <2>3, <2>4 DEF HeadAt
<1>11. CASE k = 9
  <2>1. PICK x \in Parsers : /\ HeadAt(x, "finishedHeaderValue", 0, dt, <<SP, "now">>)
                             /\ parser' = WithHeader(x)
    BY <1>4, <1>5, <1>11, HeadByte, ValueEnds
  <2>2. dt # <<TransferEncoding>> /\ dt # <<ContentLength>>  BY DEF dt
  <2>3. parser' = x  BY <2>1, <2>2 DEF WithHeader, HeadAt
  <2>4. HeadAt(parser', "finishedHeaderValue", 0, dt, <<SP, "now">>)  BY <2>1, <2>3
  <2>5. InHead(response, k + 1, parser')  BY <1>4, <1>11, <2>4 DEF InHead, dt
  <2> QED BY <2>1, <2>3, <2>4, <2>5 DEF HeadAt
<1>12. CASE k = 12
  <2>1. HeadAt(parser, "getHeaderValue", 0, nm, << >>) /\ Byte = SP
    BY <1>4, <1>12, HeadByte DEF V
  <2>2. Append(<< >>, Byte) = <<SP>>  BY <1>5, <2>1, ShortText
  <2>3. parser' \in Parsers /\ HeadAt(parser', "getHeaderValue", 0, nm, <<SP>>)
    BY <1>5, <1>7, <2>1, <2>2, ValueGrows
  <2>4. InHead(response, k + 1, parser')  BY <1>4, <1>12, <2>3 DEF InHead, dt, nm, V
  <2> QED BY <2>3, <2>4 DEF HeadAt
<1>13. CASE k = 13
  <2>1. HeadAt(parser, "getHeaderValue", 0, nm, <<SP>>) /\ Byte = V
    BY <1>4, <1>13, HeadByte DEF V
  <2>2. Append(<<SP>>, Byte) = <<SP, V>>  BY <1>5, <2>1, ShortText
  <2>3. parser' \in Parsers /\ HeadAt(parser', "getHeaderValue", 0, nm, <<SP, V>>)
    BY <1>5, <1>7, <2>1, <2>2, ValueGrows
  <2>4. InHead(response, k + 1, parser')  BY <1>4, <1>13, <2>3 DEF InHead, dt, nm, V
  <2> QED BY <2>3, <2>4 DEF HeadAt
<1>14. CASE k = 14
  <2>1. HeadAt(parser, "getHeaderValue", 0, nm, <<SP, V>>) /\ Byte = CR
    BY <1>4, <1>14, HeadByte DEF V
  <2>2. Append(<<SP, V>>, Byte) = <<SP, V, CR>>  BY <1>5, <2>1, ShortText
  <2>3. parser' \in Parsers /\ HeadAt(parser', "getHeaderValue", 1, nm, <<SP, V, CR>>)
    BY <1>5, <1>7, <2>1, <2>2, ValueGrows
  <2>4. InHead(response, k + 1, parser')  BY <1>4, <1>14, <2>3 DEF InHead, dt, nm, V
  <2> QED BY <2>3, <2>4 DEF HeadAt
<1>15. CASE k = 15
  <2>1. PICK x \in Parsers : /\ HeadAt(x, "finishedHeaderValue", 0, nm, <<SP, V>>)
                             /\ parser' = WithHeader(x)
    BY <1>4, <1>5, <1>15, HeadByte, ValueEnds
  <2>2. /\ parser' \in Parsers /\ parser'.state = "finishedHeaderValue" /\ parser'.pos = 0
        /\ parser'.length = << >> /\ parser'.type = response.framing
        /\ response.framing = "length" => parser'.remaining = Len(Body(response))
    <3>1. CASE response.framing = "chunked"
      <4>1. x.name = <<TransferEncoding>> /\ x.value = <<SP, Chunked>>
        BY <2>1, <3>1 DEF Name, Value, HeadAt, nm, V
      <4>2. parser' = [x EXCEPT !.type = "chunked"]  BY <2>1, <4>1 DEF WithHeader
      <4> QED BY <2>1, <3>1, <4>2 DEF Parsers, HeadAt
    <3>2. CASE response.framing = "length"
      <4>1. x.name = <<ContentLength>> /\ x.value = <<SP, Digit(Len(Body(response)))>>
        BY <2>1, <3>2 DEF Name, Value, HeadAt, nm, V
      <4>2. x.name # <<TransferEncoding>>  BY <4>1 DEF ContentLength, TransferEncoding
      <4>3. Strtol(x.value) = Len(Body(response)) /\ Len(Body(response)) \in Nat
        <5>1. Len(Body(response)) \in 0..9  BY <1>1, <3>2, LengthLaid
        <5> QED BY <4>1, <5>1, StrtolDigit, ResponseTyped, <1>1
      <4> DEFINE y == [x EXCEPT !.type = "length"]
      <4>4. parser' = [y EXCEPT !.remaining = Strtol(x.value)]
        BY <2>1, <4>1, <4>2 DEF WithHeader
      <4>5. y \in Parsers /\ y.type = "length" /\ y.state = x.state /\ y.pos = x.pos
            /\ y.length = x.length
        BY DEF Parsers
      <4> HIDE DEF y
      <4>6. /\ parser' \in Parsers /\ parser'.remaining = Strtol(x.value) /\ parser'.type = y.type
            /\ parser'.state = y.state /\ parser'.pos = y.pos /\ parser'.length = y.length
        BY <4>3, <4>4, <4>5 DEF Parsers
      <4> QED BY <2>1, <3>2, <4>3, <4>5, <4>6 DEF HeadAt
    <3> QED BY <1>1, <1>4, <3>1, <3>2, ResponseFacts
  <2> QED BY <1>4, <1>15, <2>2 DEF InHead
<1> QED BY <1>4, <1>8, <1>9, <1>10, <1>11, <1>12, <1>13, <1>14, <1>15

LEMMA HeaderEndMoves ==
  ASSUME NEW k, NEW g, Parsing(k, g), HeaderEndByte
  PROVE  Moves(k, g)
<1>1. /\ parser.state = "finishedHeaderValue_2" /\ buf' = buf
      /\ parser \in Parsers /\ response \in Responses
  BY DEF HeaderEndByte, State, Parsing
<1>3. k \in Nat /\ g = 0 /\ InHead(response, k, parser)
  BY <1>1 DEF Parsing, Placed, InLength, InSomeChunk, InChunk
<1>4. \/ k = 4 /\ response.framing = "none" /\ parser.type = "empty"
      \/ /\ k = 17 /\ response.framing # "none" /\ parser.type = response.framing
         /\ parser.pos = 0 /\ parser.length = << >>
         /\ response.framing = "length" => parser.remaining = Len(Body(response))
  BY <1>1, <1>3 DEF InHead, HeadAt
<1>5. Byte = LF
  <2>1. CASE k = 4
    <3>1. Byte = Bytes(response)[k + 1]  BY DEF Parsing
    <3>2. Byte = Bytes(response)[5]  BY <2>1, <3>1
    <3> QED BY <1>1, <1>4, <2>1, <3>2, HeadOf
  <2>2. CASE k = 17  BY <1>4, <2>2, HeadByte
  <2> QED BY <1>4, <2>1, <2>2
<1> DEFINE s == CASE parser.type = "chunked" -> "getChunkLength"
                  [] parser.type = "length" -> "getContentLengthData"
                  [] parser.type = "empty" -> "packetEnd"
<1>6. parser' = SetState(parser, s)  BY <1>5 DEF HeaderEndByte, Processed
<1>7. /\ parser.type = "chunked" => s = "getChunkLength"
      /\ parser.type = "length" => s = "getContentLengthData"
      /\ parser.type = "empty" => s = "packetEnd"
  OBVIOUS
<1>8. parser.type \in {"empty", "chunked", "length"}  BY <1>1 DEF Parsers
<1> HIDE DEF s
<1>9. s \in States  BY <1>7, <1>8 DEF States
<1>10. /\ parser' \in Parsers /\ parser'.state = s /\ parser'.pos = 0
       /\ parser'.remaining = parser.remaining /\ parser'.length = parser.length
  BY <1>1, <1>6, <1>9, StateSet
<1>11. CASE k = 4
  <2>1. Len(Body(response)) = 0  BY <1>1, <1>4, <1>11, NoneLaid, EmptySeq
  <2> QED BY <1>1, <1>3, <1>4, <1>7, <1>10, <1>11, <2>1 DEF Moves, Reaches
<1>12. CASE k = 17 /\ response.framing = "length"
  <2>1. s = "getContentLengthData" /\ parser'.remaining = Len(Body(response))
    BY <1>4, <1>7, <1>10, <1>12
  <2>2. Len(Body(response)) - g = Len(Body(response)) /\ k + 1 = 18 + g
    BY <1>1, <1>3, <1>12, ResponseTyped
  <2>3. InLength(response, k + 1, g, parser')  BY <1>10, <2>1, <2>2 DEF InLength
  <2> QED BY <1>1, <1>10, <1>12, <2>1, <2>3 DEF Moves, Reaches, Placed
<1>13. CASE k = 17 /\ response.framing = "chunked"
  <2>1. s = "getChunkLength" /\ parser'.length = << >>  BY <1>4, <1>7, <1>10, <1>13
  <2>2. ChunkStart(response)[0] = 18 /\ DataStart(response)[0] = 0
    BY <1>1, <1>13, Placing DEF ChunksLaid
  <2>3. 0 \in 0..Len(response.parts)  BY <1>1, ResponseFacts
  <2>4. InChunk(response, 0, ChunkStart(response)[0], DataStart(response)[0], k + 1, g, parser')
    BY <1>3, <1>10, <1>13, <2>1, <2>2 DEF InChunk
  <2>5. InSomeChunk(response, k + 1, g, parser')  BY <2>3, <2>4 DEF InSomeChunk
  <2> QED BY <1>1, <1>10, <1>13, <2>1, <2>5 DEF Moves, Reaches, Placed
<1> QED BY <1>1, <1>4, <1>11, <1>12, <1>13, ResponseFacts

\* What the response holds of a chunk with m bytes that begins after byte c.
ChunkLaid(r, i, c, d, m) ==
  /\ c \in Nat /\ d \in Nat /\ m \in 0..9 /\ (m = 0 <=> i = Len(r.parts))
  /\ Bytes(r)[c + 1] = Digit(m) /\ Bytes(r)[c + 2] = CR /\ Bytes(r)[c + 3] = LF
  /\ \A j \in 1..m : Bytes(r)[c + 3 + j] = Body(r)[d + j]
  /\ Bytes(r)[c + 4 + m] = CR /\ Bytes(r)[c + 5 + m] = LF
  /\ c + 5 + m <= Len(Bytes(r)) /\ d + m <= Len(Body(r))
  /\ i = Len(r.parts) => d = Len(Body(r))
  /\ i # Len(r.parts) =>
       i + 1 \in 0..Len(r.parts) /\ ChunkStart(r)[i + 1] = c + 5 + m
                                 /\ DataStart(r)[i + 1] = d + m

LEMMA ChunkFacts ==
  ASSUME NEW r \in Responses, r.framing = "chunked", NEW i \in 0..Len(r.parts)
  PROVE  ChunkLaid(r, i, ChunkStart(r)[i], DataStart(r)[i], Size(r, i))
<1> DEFINE c == ChunkStart(r)[i]
           d == DataStart(r)[i]
           m == Size(r, i)
<1>1. ChunksLaid(r, ChunkStart(r), DataStart(r))  BY Placing
<1> DEFINE n  == Len(r.parts)
           cs == ChunkStart(r)
           ds == DataStart(r)
<1>2. n \in Nat  BY ResponseFacts
<1> HIDE DEF n, cs, ds
<1>3. /\ cs \in [0..n -> Nat] /\ ds \in [0..n -> Nat] /\ ds[n] = Len(Body(r))
      /\ m \in 0..9 /\ (m = 0 <=> i = n)
      /\ Bytes(r)[c + 1] = Digit(m) /\ Bytes(r)[c + 2] = CR /\ Bytes(r)[c + 3] = LF
      /\ \A j \in 1..m : Bytes(r)[c + 3 + j] = Body(r)[d + j]
      /\ Bytes(r)[c + 4 + m] = CR /\ Bytes(r)[c + 5 + m] = LF
      /\ c + 5 + m <= Len(Bytes(r)) /\ d + m <= Len(Body(r))
      /\ i < n => cs[i + 1] = c + 5 + m /\ ds[i + 1] = d + m
  BY <1>1 DEF ChunksLaid, n, cs, ds
<1> HIDE DEF m
<1>4. i \in 0..n /\ (i # n => i < n /\ i + 1 \in 0..n)  BY <1>2 DEF n
<1>5. c \in Nat /\ d \in Nat /\ (i = n => d = Len(Body(r)))
  BY <1>3, <1>4 DEF cs, ds
<1> HIDE DEF c, d
<1>6. ChunkLaid(r, i, c, d, m)  BY <1>3, <1>4, <1>5 DEF ChunkLaid, n, cs, ds
<1> QED BY <1>6 DEF c, d, m

LEMMA InSomeChunkNow ==
  ASSUME NEW k, NEW g, Parsing(k, g),
         parser.state \in {"getChunkLength", "getChunkData", "finishedChunkData"}
  PROVE  response.framing = "chunked" /\ InSomeChunk(response, k, g, parser)
BY DEF Parsing, Placed, InHead, HeadAt, InLength

LEMMA ChunkLengthMoves ==
  ASSUME NEW k, NEW g, Parsing(k, g), ChunkLengthByte
  PROVE  Moves(k, g)
<1>1. /\ parser.state = "getChunkLength" /\ buf' = buf /\ k \in Nat
      /\ parser \in Parsers /\ response \in Responses /\ Byte \in Chars
      /\ Byte = Bytes(response)[k + 1]
  BY DEF ChunkLengthByte, State, Parsing
<1>2. parser' = IF LineDone
                THEN [SetState(parser, IF Strtol(parser.length) = 0 THEN "packetEnd"
                                       ELSE "getChunkData")
                        EXCEPT !.remaining = Strtol(parser.length)]
                ELSE IF Matches THEN [parser EXCEPT !.pos = Position]
                ELSE [parser EXCEPT !.pos = 0, !.length = Append(@, Byte)]
  BY DEF ChunkLengthByte, Processed
<1>3. response.framing = "chunked" /\ InSomeChunk(response, k, g, parser)
  BY <1>1, InSomeChunkNow
<1>4. PICK i \in 0..Len(response.parts) :
        InChunk(response, i, ChunkStart(response)[i], DataStart(response)[i], k, g, parser)
  BY <1>3 DEF InSomeChunk
<1> DEFINE c == ChunkStart(response)[i]
           d == DataStart(response)[i]
           m == Size(response, i)
           L == Len(Body(response))
<1>5. /\ c \in Nat /\ d \in Nat /\ m \in 0..9 /\ (m = 0 <=> i = Len(response.parts))
      /\ Bytes(response)[c + 1] = Digit(m) /\ Bytes(response)[c + 2] = CR
      /\ Bytes(response)[c + 3] = LF
      /\ i = Len(response.parts) => d = L
  <2>1. ChunkLaid(response, i, c, d, m)  BY <1>1, <1>3, ChunkFacts
  <2> HIDE DEF c, d, m
  <2> QED BY <2>1 DEF ChunkLaid
<1>6. \A q : /\ InChunk(response, i, c, d, k + 1, g, q) => InSomeChunk(response, k + 1, g, q)
             /\ InChunk(response, i, c, d, k + 1, g, q) => q.state # "packetEnd"
  BY DEF InSomeChunk, InChunk
<1>7. /\ g = d
      /\ \/ k = c     /\ parser.pos = 0 /\ parser.length = << >>
         \/ k = c + 1 /\ parser.pos = 0 /\ parser.length = <<Digit(m)>>
         \/ k = c + 2 /\ parser.pos = 1 /\ parser.length = <<Digit(m)>>
  BY <1>1, <1>4 DEF InChunk
<1> HIDE DEF c, d, m, L
<1>8. ASSUME parser' \in Parsers, InChunk(response, i, c, d, k + 1, g, parser')
      PROVE  Moves(k, g)
  <2>1. InSomeChunk(response, k + 1, g, parser') /\ parser'.state # "packetEnd"
    BY <1>6, <1>8
  <2> QED BY <1>1, <1>3, <1>8, <2>1 DEF Moves, Reaches, Placed
<1>9. CASE k = c
  <2>1. Byte = Digit(m) /\ parser.pos = 0 /\ parser.length = << >>
    BY <1>1, <1>5, <1>7, <1>9
  <2>2. Byte # CR  BY <1>5, <2>1, DigitFacts
  <2> DEFINE x == [parser EXCEPT !.pos = 0]
             y == [x EXCEPT !.length = Append(@, Byte)]
  <2>3. parser' = y
    <3>1. ~Matches /\ ~LineDone  BY <2>1, <2>2 DEF LineDone, Matches
    <3> QED BY <1>2, <3>1, Zenon
  <2>4. x \in Parsers /\ x.pos = 0 /\ x.state = "getChunkLength" /\ x.length = << >>
    BY <1>1, <2>1 DEF Parsers
  <2> HIDE DEF x
  <2>5. Append(x.length, Byte) = <<Digit(m)>> /\ <<Digit(m)>> \in Seq(Chars)
    BY <1>1, <2>1, <2>4, ShortText
  <2>6. /\ y \in Parsers /\ y.pos = x.pos /\ y.state = x.state /\ y.length = Append(x.length, Byte)
    BY <2>4, <2>5 DEF Parsers
  <2> HIDE DEF y
  <2>7. k + 1 = c + 1  BY <1>9
  <2>8. InChunk(response, i, c, d, k + 1, g, parser')
    BY <1>7, <2>3, <2>4, <2>5, <2>6, <2>7 DEF InChunk, m
  <2> QED BY <1>8, <2>3, <2>6, <2>8
<1>10. CASE k = c + 1
  <2>1. k + 1 = c + 2 /\ k # c /\ k # c + 2  BY <1>5, <1>10
  <2>2. Byte = CR /\ parser.pos = 0 /\ parser.length = <<Digit(m)>>
    BY <1>1, <1>5, <1>7, <1>10, <2>1
  <2>3. parser' = [parser EXCEPT !.pos = 1]
    BY <1>2, <2>2 DEF LineDone, Matches, Position, CR, LF
  <2>4. /\ parser' \in Parsers /\ parser'.pos = 1 /\ parser'.state = "getChunkLength"
        /\ parser'.length = <<Digit(m)>>
    BY <1>1, <2>2, <2>3 DEF Parsers
  <2>5. InChunk(response, i, c, d, k + 1, g, parser')
    BY <1>7, <2>1, <2>4 DEF InChunk, m
  <2> QED BY <1>8, <2>4, <2>5
<1>11. CASE k = c + 2
  <2>1. k + 1 = c + 3 /\ k # c /\ k # c + 1  BY <1>5, <1>11
  <2>2. Byte = LF /\ parser.pos = 1 /\ parser.length = <<Digit(m)>>
    BY <1>1, <1>5, <1>7, <1>11, <2>1
  <2>3. Strtol(parser.length) = m /\ m \in Nat
    <3>1. m \in 0..9  BY <1>5
    <3> HIDE DEF m
    <3>2. Strtol(<<Digit(m)>>) = m  BY <3>1, StrtolDigit, Zenon
    <3> QED BY <2>2, <3>1, <3>2
  <2> DEFINE s == IF m = 0 THEN "packetEnd" ELSE "getChunkData"
             x == SetState(parser, s)
  <2>4. parser' = [x EXCEPT !.remaining = m]
    BY <1>2, <2>2, <2>3 DEF LineDone, Matches
  <2>5. s \in States  BY DEF States
  <2> HIDE DEF s
  <2>6. x \in Parsers /\ x.state = s /\ x.pos = 0  BY <1>1, <2>5, StateSet
  <2> HIDE DEF x
  <2>7. parser' \in Parsers /\ parser'.state = s /\ parser'.pos = 0 /\ parser'.remaining = m
    BY <2>3, <2>4, <2>6 DEF Parsers
  <2>8. CASE m = 0
    <3>1. parser'.state = "packetEnd" /\ g = L  BY <1>5, <1>7, <2>7, <2>8 DEF s
    <3> QED BY <1>1, <2>7, <3>1 DEF Moves, Reaches, L
  <2>9. CASE m # 0
    <3>1. parser'.state = "getChunkData"  BY <2>7, <2>9 DEF s
    <3>2. /\ k + 1 \in c + 3..c + 2 + m /\ m = c + 3 + m - (k + 1) /\ g = d + ((k + 1) - c - 3)
      <4>1. m >= 1  BY <2>3, <2>9
      <4>2. g = d  BY <1>7
      <4> QED BY <1>5, <2>1, <2>3, <4>1, <4>2
    <3>3. InChunk(response, i, c, d, k + 1, g, parser')
      BY <2>7, <3>1, <3>2 DEF InChunk, m
    <3> QED BY <1>8, <2>7, <3>3
  <2> QED BY <2>8, <2>9
<1> QED BY <1>7, <1>9, <1>10, <1>11

LEMMA ChunkDataMoves ==
  ASSUME NEW k, NEW g, Parsing(k, g), ChunkDataByte
  PROVE  Moves(k, g)
<1>1. /\ parser.state = "getChunkData" /\ buf' = Append(buf, Byte) /\ k \in Nat /\ g \in Nat
      /\ parser \in Parsers /\ response \in Responses /\ Byte \in Chars
      /\ Byte = Bytes(response)[k + 1]
  BY DEF ChunkDataByte, State, Parsing
<1> DEFINE z == SetState(parser, "finishedChunkData")
           w == [z EXCEPT !.length = << >>]
           x == IF parser.remaining # 1 THEN parser ELSE w
<1>2. parser' = [x EXCEPT !.remaining = @ - 1]
  BY DEF ChunkDataByte, Processed, Counted
<1>3. response.framing = "chunked" /\ InSomeChunk(response, k, g, parser)
  BY <1>1, InSomeChunkNow
<1>4. PICK i \in 0..Len(response.parts) :
        InChunk(response, i, ChunkStart(response)[i], DataStart(response)[i], k, g, parser)
  BY <1>3 DEF InSomeChunk
<1> DEFINE c == ChunkStart(response)[i]
           d == DataStart(response)[i]
           m == Size(response, i)
           L == Len(Body(response))
<1>5. /\ c \in Nat /\ d \in Nat /\ m \in 0..9 /\ d + m <= L /\ L \in Nat
      /\ \A j \in 1..m : Bytes(response)[c + 3 + j] = Body(response)[d + j]
  <2>1. L \in Nat  BY <1>1, ResponseTyped
  <2>2. ChunkLaid(response, i, c, d, m)  BY <1>1, <1>3, ChunkFacts
  <2> HIDE DEF c, d, m
  <2> QED BY <2>1, <2>2 DEF ChunkLaid
<1>6. \A q, h : /\ InChunk(response, i, c, d, k + 1, h, q) => InSomeChunk(response, k + 1, h, q)
                /\ InChunk(response, i, c, d, k + 1, h, q) => q.state # "packetEnd"
  BY DEF InSomeChunk, InChunk
<1>7. /\ parser.pos = 0 /\ k \in c + 3..c + 2 + m
      /\ parser.remaining = c + 3 + m - k /\ g = d + (k - c - 3)
  BY <1>1, <1>4 DEF InChunk
<1> HIDE DEF c, d, m, L
<1>8. /\ k - c - 2 \in 1..m /\ c + 3 + (k - c - 2) = k + 1 /\ d + (k - c - 2) = g + 1
      /\ g < L /\ k + 1 <= c + 3 + m
  BY <1>1, <1>5, <1>7
<1>9. Byte = Body(response)[g + 1]
  <2>1. Bytes(response)[c + 3 + (k - c - 2)] = Body(response)[d + (k - c - 2)]  BY <1>5, <1>8
  <2> QED BY <1>1, <1>8, <2>1
<1>10. ASSUME parser' \in Parsers, InChunk(response, i, c, d, k + 1, g + 1, parser')
       PROVE  Moves(k, g)
  <2>1. InSomeChunk(response, k + 1, g + 1, parser') /\ parser'.state # "packetEnd"
    BY <1>6, <1>10
  <2> QED BY <1>1, <1>3, <1>8, <1>9, <1>10, <2>1 DEF Moves, Reaches, Placed, L
<1>11. parser.remaining \in Nat /\ parser.remaining >= 1 /\ parser.remaining - 1 \in Nat
  BY <1>1, <1>5, <1>7
<1>12. CASE parser.remaining # 1
  <2>1. parser' = [parser EXCEPT !.remaining = @ - 1]  BY <1>2, <1>12
  <2>2. /\ parser' \in Parsers /\ parser'.state = "getChunkData" /\ parser'.pos = 0
        /\ parser'.remaining = parser.remaining - 1
    BY <1>1, <1>7, <1>11, <2>1 DEF Parsers
  <2>3. /\ k + 1 \in c + 3..c + 2 + m /\ parser.remaining - 1 = c + 3 + m - (k + 1)
        /\ g + 1 = d + ((k + 1) - c - 3)
    BY <1>1, <1>5, <1>7, <1>11, <1>12
  <2>4. InChunk(response, i, c, d, k + 1, g + 1, parser')  BY <2>2, <2>3 DEF InChunk, m
  <2> QED BY <1>10, <2>2, <2>4
<1>13. CASE parser.remaining = 1
  <2>1. z \in Parsers /\ z.state = "finishedChunkData" /\ z.pos = 0 /\ z.remaining = 1
    BY <1>1, <1>13, StateSet DEF States
  <2>2. parser' = [w EXCEPT !.remaining = @ - 1]  BY <1>2, <1>13
  <2>3. << >> \in Seq(Chars)  BY EmptySeq
  <2> HIDE DEF z
  <2>4. w \in Parsers /\ w.state = z.state /\ w.pos = z.pos /\ w.remaining = z.remaining /\ w.length = << >>
    BY <2>1, <2>3 DEF Parsers
  <2> HIDE DEF w
  <2>5. w.remaining - 1 \in Nat  BY <2>1, <2>4
  <2>6. /\ parser' \in Parsers /\ parser'.state = "finishedChunkData" /\ parser'.pos = 0
        /\ parser'.length = << >>
    BY <2>1, <2>2, <2>4, <2>5 DEF Parsers
  <2>7. k + 1 = c + 3 + m /\ g + 1 = d + m /\ m > 0
    <3>1. c + 3 + m - k = 1 /\ g = d + (k - c - 3) /\ m \in 0..9 /\ k - c - 2 \in 1..m
      BY <1>5, <1>7, <1>8, <1>13
    <3>2. c \in Nat /\ d \in Nat /\ k \in Nat /\ g \in Nat  BY <1>1, <1>5
    <3>3. m \in Nat  BY <1>5
    <3> QED BY <3>1, <3>2, <3>3
  <2>8. InChunk(response, i, c, d, k + 1, g + 1, parser')  BY <2>6, <2>7 DEF InChunk, m
  <2> QED BY <1>10, <2>6, <2>8
<1> QED BY <1>12, <1>13

LEMMA ChunkEndMoves ==
  ASSUME NEW k, NEW g, Parsing(k, g), ChunkEndByte
  PROVE  Moves(k, g)
<1>1. /\ parser.state = "finishedChunkData" /\ buf' = buf /\ k \in Nat
      /\ parser \in Parsers /\ response \in Responses /\ Byte \in Chars
      /\ Byte = Bytes(response)[k + 1]
  BY DEF ChunkEndByte, State, Parsing
<1>2. parser' = IF LineDone THEN SetState(parser, "getChunkLength")
                ELSE [parser EXCEPT !.pos = Position]
  BY DEF ChunkEndByte, Processed
<1>3. response.framing = "chunked" /\ InSomeChunk(response, k, g, parser)
  BY <1>1, InSomeChunkNow
<1>4. PICK i \in 0..Len(response.parts) :
        InChunk(response, i, ChunkStart(response)[i], DataStart(response)[i], k, g, parser)
  BY <1>3 DEF InSomeChunk
<1> DEFINE c == ChunkStart(response)[i]
           d == DataStart(response)[i]
           m == Size(response, i)
<1>5. /\ c \in Nat /\ d \in Nat /\ m \in 0..9 /\ (m = 0 <=> i = Len(response.parts))
      /\ Bytes(response)[c + 4 + m] = CR /\ Bytes(response)[c + 5 + m] = LF
      /\ i # Len(response.parts) =>
           i + 1 \in 0..Len(response.parts) /\ ChunkStart(response)[i + 1] = c + 5 + m
                                            /\ DataStart(response)[i + 1] = d + m
  <2>1. ChunkLaid(response, i, c, d, m)  BY <1>1, <1>3, ChunkFacts
  <2> HIDE DEF c, d, m
  <2> QED BY <2>1 DEF ChunkLaid
<1>6. /\ parser.length = << >> /\ m > 0 /\ g = d + m
      /\ \/ k = c + 3 + m /\ parser.pos = 0
         \/ k = c + 4 + m /\ parser.pos = 1
  BY <1>1, <1>4 DEF InChunk
<1>7. \A q : InChunk(response, i, c, d, k + 1, g, q) => InSomeChunk(response, k + 1, g, q)
  BY DEF InSomeChunk
<1> HIDE DEF c, d, m
<1>8. m \in Nat /\ m # 0  BY <1>5, <1>6
<1>9. CASE k = c + 3 + m
  <2>1. k + 1 = c + 4 + m /\ k # c + 4 + m  BY <1>5, <1>8, <1>9
  <2>2. Byte = CR /\ parser.pos = 0  BY <1>1, <1>5, <1>6, <2>1
  <2>3. parser' = [parser EXCEPT !.pos = 1]
    BY <1>2, <2>2 DEF LineDone, Matches, Position, CR, LF
  <2>4. /\ parser' \in Parsers /\ parser'.pos = 1 /\ parser'.state = "finishedChunkData"
        /\ parser'.length = << >>
    BY <1>1, <1>6, <2>3, SMTT(30) DEF Parsers
  <2>5. InChunk(response, i, c, d, k + 1, g, parser')
    BY <1>6, <2>1, <2>4 DEF InChunk, m
  <2>6. InSomeChunk(response, k + 1, g, parser')  BY <1>7, <2>5
  <2> QED BY <1>1, <1>3, <2>4, <2>6 DEF Moves, Reaches, Placed
<1>10. CASE k = c + 4 + m
  <2>1. k + 1 = c + 5 + m /\ k # c + 3 + m  BY <1>5, <1>8, <1>10
  <2>2. Byte = LF /\ parser.pos = 1  BY <1>1, <1>5, <1>6, <2>1
  <2>3. parser' = SetState(parser, "getChunkLength")
    BY <1>2, <2>2 DEF LineDone, Matches
  <2>4. /\ parser' \in Parsers /\ parser'.pos = 0 /\ parser'.state = "getChunkLength"
        /\ parser'.length = << >>
    BY <1>1, <1>6, <2>3, StateSet DEF States
  <2>5. /\ i + 1 \in 0..Len(response.parts) /\ ChunkStart(response)[i + 1] = k + 1
        /\ DataStart(response)[i + 1] = g
    BY <1>5, <1>6, <1>8, <2>1
  <2>6. InChunk(response, i + 1, ChunkStart(response)[i + 1], DataStart(response)[i + 1],
                k + 1, g, parser')
    BY <2>4, <2>5 DEF InChunk
  <2>7. InSomeChunk(response, k + 1, g, parser')  BY <2>5, <2>6 DEF InSomeChunk
  <2> QED BY <1>1, <1>3, <2>4, <2>7 DEF Moves, Reaches, Placed
<1> QED BY <1>6, <1>9, <1>10

LEMMA LengthDataMoves ==
  ASSUME NEW k, NEW g, Parsing(k, g), LengthDataByte
  PROVE  Moves(k, g)
<1>1. /\ parser.state = "getContentLengthData" /\ buf' = Append(buf, Byte)
      /\ k \in Nat /\ g \in Nat /\ k < Len(Bytes(response))
      /\ parser \in Parsers /\ response \in Responses /\ Byte \in Chars
      /\ Byte = Bytes(response)[k + 1]
  BY DEF LengthDataByte, State, Parsing
<1> DEFINE z == SetState(parser, "packetEnd")
           x == IF parser.remaining # 1 THEN parser ELSE z
           L == Len(Body(response))
<1>2. parser' = [x EXCEPT !.remaining = @ - 1]
  BY DEF LengthDataByte, Processed, Counted
<1>3. response.framing = "length" /\ InLength(response, k, g, parser)
  BY <1>1 DEF Parsing, Placed, InHead, HeadAt, InSomeChunk, InChunk
<1>4. parser.pos = 0 /\ parser.remaining = L - g /\ k = 18 + g
  BY <1>3 DEF InLength
<1>5. L \in 0..9 /\ Len(Bytes(response)) = 18 + L
      /\ \A j \in 1..L : Bytes(response)[18 + j] = Body(response)[j]
  BY <1>1, <1>3, LengthLaid
<1> HIDE DEF L
<1>6. g + 1 \in 1..L /\ 18 + (g + 1) = k + 1 /\ g < L /\ L - g - 1 \in Nat  BY <1>1, <1>4, <1>5
<1>7. Byte = Body(response)[g + 1]  BY <1>1, <1>5, <1>6
<1>8. CASE parser.remaining # 1
  <2>1. parser' = [parser EXCEPT !.remaining = @ - 1]  BY <1>2, <1>8
  <2>2. parser.remaining - 1 \in Nat  BY <1>4, <1>6
  <2>3. /\ parser' \in Parsers /\ parser'.state = "getContentLengthData" /\ parser'.pos = 0
        /\ parser'.remaining = parser.remaining - 1
    BY <1>1, <1>4, <2>1, <2>2 DEF Parsers
  <2>4. parser.remaining - 1 = L - (g + 1) /\ k + 1 = 18 + (g + 1)  BY <1>1, <1>4, <1>5
  <2>5. InLength(response, k + 1, g + 1, parser')  BY <2>3, <2>4 DEF InLength, L
  <2> QED BY <1>1, <1>3, <1>6, <1>7, <2>3, <2>5 DEF Moves, Reaches, Placed, L
<1>9. CASE parser.remaining = 1
  <2>1. z \in Parsers /\ z.state = "packetEnd" /\ z.remaining = 1
    BY <1>1, <1>9, StateSet DEF States
  <2>2. parser' = [z EXCEPT !.remaining = @ - 1]  BY <1>2, <1>9
  <2> HIDE DEF z
  <2>3. z.remaining - 1 \in Nat  BY <2>1
  <2>4. parser' \in Parsers /\ parser'.state = "packetEnd"
    BY <2>1, <2>2, <2>3 DEF Parsers
  <2>5. g + 1 = L  BY <1>1, <1>4, <1>5, <1>9
  <2> QED BY <1>1, <1>6, <1>7, <2>4, <2>5 DEF Moves, Reaches, L
<1> QED BY <1>8, <1>9

\* Every step of process_byte takes the parser one byte further in the response.
LEMMA ParserMoves ==
  ASSUME NEW k, NEW g, Parsing(k, g), process_byte
  PROVE  Moves(k, g)
BY StatusLineMoves, LineStartMoves, HeaderNameMoves, HeaderValueMoves, HeaderEndMoves,
   ChunkLengthMoves, ChunkDataMoves, ChunkEndMoves, LengthDataMoves DEF process_byte

-----------------------------------------------------------------------------
(* The callers                                                              *)

Buffers == wire \in Seq(Chars) /\ packet \in Seq(Chars) /\ buf \in Seq(Chars)

Control ==
  /\ pc \in {"idle", "recv", "parse"}
  /\ mode \in {"update", "whole"}
  /\ pc # "parse" => packet = << >>

\* A call of downloadUpdate goes back to recv only while it has written nothing.
NothingYet ==
  /\ mode = "update" /\ pc # "parse" => buf = << >>
  /\ pc = "idle" => buf = << >>

\* A call that returned 0 left the parser at its end, or the connection closed
\* with nothing more to come.
ZeroMeansEnd ==
  mode = "update" /\ result = 0 =>
    \/ pc = "idle" /\ AtEnd
    \/ pc \in {"idle", "recv"} /\ link = "closed" /\ wire = << >>

\* The data of one call fits into the caller's buffer, and so does what is left of
\* the packet.
DataFits == mode = "update" => Len(buf) + Len(packet) <= BufferMax

DownloadInv == Buffers /\ Control /\ NothingYet /\ DataFits /\ ZeroMeansEnd

LEMMA DownloadInit == Init => DownloadInv
<1> SUFFICES ASSUME Init PROVE DownloadInv  OBVIOUS
<1>1. << >> \in Seq(Chars) /\ Len(<< >>) = 0  BY EmptySeq
<1>2. Buffers  BY <1>1, ResponseTyped DEF Init, Buffers
<1>3. Control /\ NothingYet  BY DEF Init, Control, NothingYet
<1>4. DataFits  BY <1>1, BufferAssumption DEF Init, DataFits, BufferAssumption
<1>5. ZeroMeansEnd  BY DEF Init, ZeroMeansEnd, NoResult
<1> QED BY <1>2, <1>3, <1>4, <1>5 DEF DownloadInv

LEMMA PartOfSeq ==
  ASSUME NEW s \in Seq(Chars), NEW m \in Nat, NEW n \in Nat, m >= 1, n <= Len(s)
  PROVE  SubSeq(s, m, n) \in Seq(Chars)
<1>1. Len(s) \in Nat /\ \A i \in 1..Len(s) : s[i] \in Chars
  BY LenProperties, ElementOfSeq
<1> QED BY <1>1, SubSeqProperties

\* What all steps of process_byte do: a byte goes, and may come into buf.
ByteTaken ==
  /\ pc = "parse" /\ packet # << >>
  /\ packet' = IF AtEnd' THEN << >> ELSE Tail(packet)
  /\ buf' \in {buf, Append(buf, packet[1])}
  /\ UNCHANGED <<server, mode, pc, out, result>>

LEMMA EachByte ==
  ASSUME Control, process_byte
  PROVE  ByteTaken
<1> USE DEF State, Processed, Byte, ByteTaken, Control, AtEnd
<1>1. CASE StatusLineByte  BY <1>1 DEF StatusLineByte
<1>2. CASE LineStartByte  BY <1>2 DEF LineStartByte
<1>3. CASE HeaderNameByte  BY <1>3 DEF HeaderNameByte
<1>4. CASE HeaderValueByte  BY <1>4 DEF HeaderValueByte
<1>5. CASE HeaderEndByte  BY <1>5 DEF HeaderEndByte
<1>6. CASE ChunkLengthByte  BY <1>6 DEF ChunkLengthByte
<1>7. CASE ChunkDataByte  BY <1>7 DEF ChunkDataByte
<1>8. CASE ChunkEndByte  BY <1>8 DEF ChunkEndByte
<1>9. CASE LengthDataByte  BY <1>9 DEF LengthDataByte
<1> QED BY <1>1, <1>2, <1>3, <1>4, <1>5, <1>6, <1>7, <1>8, <1>9 DEF process_byte

LEMMA ByteStep ==
  ASSUME DownloadInv, process_byte
  PROVE  DownloadInv' /\ result' = result
<1>0. ByteTaken  BY EachByte DEF DownloadInv
<1>1. /\ packet \in Seq(Chars) /\ buf \in Seq(Chars) /\ packet # << >>
      /\ Len(packet) \in Nat \ {0} /\ Len(buf) \in Nat
  BY <1>0, EmptySeq, LenProperties DEF ByteTaken, DownloadInv, Buffers
<1>2. packet' \in Seq(Chars) /\ Len(packet') \in Nat /\ Len(packet') <= Len(packet) - 1
  <2>1. Tail(packet) \in Seq(Chars) /\ Len(Tail(packet)) = Len(packet) - 1
    BY <1>1, HeadTailProperties
  <2>2. CASE packet' = << >>
    <3>1. Len(packet') = 0  BY <2>2
    <3> QED BY <1>1, <2>2, <3>1
  <2>3. CASE packet' = Tail(packet)
    <3>1. Len(packet') = Len(packet) - 1  BY <2>1, <2>3
    <3> QED BY <1>1, <2>1, <2>3, <3>1
  <2> QED BY <1>0, <2>2, <2>3 DEF ByteTaken
<1>3. buf' \in Seq(Chars) /\ Len(buf') \in Nat /\ Len(buf') <= Len(buf) + 1
  <2>1. packet[1] \in Chars
    <3>1. 1 \in 1..Len(packet)  BY <1>1
    <3> QED BY <1>1, <3>1, ElementOfSeq
  <2>2. Append(buf, packet[1]) \in Seq(Chars) /\ Len(Append(buf, packet[1])) = Len(buf) + 1
    BY <1>1, <2>1, AppendProperties
  <2> QED BY <1>0, <1>1, <2>2 DEF ByteTaken
<1> USE <1>0 DEF ByteTaken, DownloadInv, server
<1>4. Buffers'  BY <1>2, <1>3 DEF Buffers
<1>5. Control' /\ NothingYet'  BY DEF Control, NothingYet
<1>6. DataFits'  BY <1>1, <1>2, <1>3, BufferAssumption DEF DataFits, BufferAssumption
<1>7. ZeroMeansEnd'  BY DEF ZeroMeansEnd
<1> QED BY <1>4, <1>5, <1>6, <1>7

LEMMA CallStep ==
  ASSUME DownloadInv, Call
  PROVE  DownloadInv' /\ (mode = "update" /\ result = 0 => result' = 0)
<1>1. << >> \in Seq(Chars) /\ Len(<< >>) = 0  BY EmptySeq
<1> USE <1>1 DEF DownloadInv, Call, Return, server
<1>2. Buffers'  BY DEF Buffers
<1>3. Control' /\ NothingYet'  BY DEF Control, NothingYet
<1>4. DataFits'  BY BufferAssumption DEF DataFits, BufferAssumption, Control, NothingYet
<1>5. ZeroMeansEnd'  BY DEF ZeroMeansEnd, AtEnd
<1> QED BY <1>2, <1>3, <1>4, <1>5

LEMMA RecvStep ==
  ASSUME DownloadInv, Recv
  PROVE  DownloadInv' /\ result' = result
<1>1. PICK n \in 1..Len(wire) :
        n <= BufferMax /\ packet' = SubSeq(wire, 1, n) /\ wire' = SubSeq(wire, n + 1, Len(wire))
  BY DEF Recv
<1>2. /\ pc = "recv" /\ wire # << >> /\ pc' = "parse"
      /\ UNCHANGED <<response, link, cut, parser, mode, buf, out, result>>
  BY DEF Recv
<1>3. wire \in Seq(Chars) /\ buf \in Seq(Chars) /\ Len(wire) \in Nat
  BY LenProperties DEF DownloadInv, Buffers
<1>4. packet' \in Seq(Chars) /\ wire' \in Seq(Chars)
  BY <1>1, <1>3, PartOfSeq
<1>5. Len(packet') = n
  <2>1. \A i \in 1..n : wire[i] \in Chars  BY <1>1, <1>3, ElementOfSeq
  <2> QED BY <1>1, <1>3, <2>1, SubSeqProperties
<1>6. Buffers'  BY <1>2, <1>3, <1>4 DEF Buffers
<1>7. Control' /\ NothingYet'  BY <1>2 DEF DownloadInv, Control, NothingYet
<1>8. DataFits'
  <2>1. mode = "update" => buf = << >>  BY <1>2 DEF DownloadInv, NothingYet
  <2>2. Len(<< >>) = 0  BY EmptySeq
  <2> QED BY <1>1, <1>2, <1>3, <1>5, <2>1, <2>2, BufferAssumption
          DEF DataFits, BufferAssumption
<1>9. ZeroMeansEnd'  BY <1>2 DEF DownloadInv, ZeroMeansEnd
<1> QED BY <1>2, <1>6, <1>7, <1>8, <1>9 DEF DownloadInv

LEMMA RecvEndStep ==
  ASSUME DownloadInv, RecvEnd
  PROVE  DownloadInv' /\ (mode = "update" /\ result = 0 => result' = 0)
<1>1. << >> \in Seq(Chars) /\ Len(<< >>) = 0  BY EmptySeq
<1> USE <1>1 DEF DownloadInv, RecvEnd, Return, server
<1>2. Buffers'  BY DEF Buffers
<1>3. Control' /\ NothingYet'  BY DEF Control, NothingYet
<1>4. DataFits'  BY BufferAssumption DEF DataFits, BufferAssumption, Control, NothingYet
<1>5. ZeroMeansEnd'  BY DEF ZeroMeansEnd
<1> QED BY <1>2, <1>3, <1>4, <1>5

LEMMA ParsedStep ==
  ASSUME DownloadInv, Parsed
  PROVE  DownloadInv' /\ (mode = "update" /\ result = 0 => result' = 0)
<1>1. << >> \in Seq(Chars) /\ Len(<< >>) = 0 /\ (Len(buf) = 0 => buf = << >>)
  BY EmptySeq DEF DownloadInv, Buffers
<1>2. pc = "parse" /\ packet = << >> /\ UNCHANGED <<server, parser, mode, packet>>
  BY DEF Parsed, DownloadInv, Control
<1>3. ~(mode = "update" /\ result = 0)  BY <1>2 DEF DownloadInv, ZeroMeansEnd
<1>4. \/ /\ AtEnd \/ (mode = "update" /\ buf # << >>)
         /\ pc' = "idle" /\ buf' = << >> /\ result' = Len(buf)
      \/ /\ ~(AtEnd \/ (mode = "update" /\ buf # << >>))
         /\ pc' = "recv" /\ UNCHANGED <<buf, out, result>>
  BY DEF Parsed, Return
<1> USE <1>1, <1>2, <1>3, <1>4 DEF DownloadInv, server
<1>5. Buffers'  BY DEF Buffers
<1>6. Control' /\ NothingYet'  BY DEF Control, NothingYet
<1>7. DataFits'  BY BufferAssumption DEF DataFits, BufferAssumption, Control, NothingYet
<1>8. ZeroMeansEnd'  BY DEF ZeroMeansEnd, AtEnd
<1> QED BY <1>5, <1>6, <1>7, <1>8

LEMMA ServerCloseStep ==
  ASSUME DownloadInv, ServerClose
  PROVE  DownloadInv' /\ result' = result
<1>1. PICK n \in 0..Len(wire) : wire' = SubSeq(wire, 1, n)  BY DEF ServerClose
<1>2. link = "open" /\ UNCHANGED <<response, parser, mode, pc, packet, buf, out, result>>
  BY DEF ServerClose
<1>3. Len(wire) \in Nat /\ wire \in Seq(Chars)  BY LenProperties DEF DownloadInv, Buffers
<1>4. wire' \in Seq(Chars)  BY <1>1, <1>3, PartOfSeq
<1> QED BY <1>2, <1>4
        DEF DownloadInv, Buffers, Control, NothingYet, DataFits, ZeroMeansEnd, AtEnd

LEMMA DownloadNext ==
  ASSUME DownloadInv, [Next]_vars
  PROVE  DownloadInv' /\ (mode = "update" /\ result = 0 => result' = 0)
<1>1. CASE UNCHANGED vars
  BY <1>1 DEF vars, server, DownloadInv, Buffers, Control, NothingYet, DataFits,
              ZeroMeansEnd, AtEnd
<1>2. CASE Call  BY <1>2, CallStep
<1>3. CASE Recv  BY <1>3, RecvStep
<1>4. CASE RecvEnd  BY <1>4, RecvEndStep
<1>5. CASE process_byte  BY <1>5, ByteStep
<1>6. CASE Parsed  BY <1>6, ParsedStep
<1>7. CASE ServerClose  BY <1>7, ServerCloseStep
<1> QED BY <1>1, <1>2, <1>3, <1>4, <1>5, <1>6, <1>7 DEF Next, Download

LEMMA DownloadAlways == Spec => []DownloadInv
<1>1. DownloadInv /\ [Next]_vars => DownloadInv'  BY DownloadNext
<1> QED BY <1>1, DownloadInit, PTL DEF Spec

-----------------------------------------------------------------------------
(* What has been read                                                       *)

\* What the caller has got, and what the call has written for it.
Got == out \o buf

\* What is in the packet and on the wire are the next bytes of the response,
\* all of them unless the server cut it off.
Arriving(k) ==
  /\ k + Len(packet) + Len(wire) <= Len(Bytes(response))
  /\ ~cut => k + Len(packet) + Len(wire) = Len(Bytes(response))
  /\ \A j \in 1..Len(packet) : packet[j] = Bytes(response)[k + j]
  /\ \A j \in 1..Len(wire) : wire[j] = Bytes(response)[k + Len(packet) + j]

\* k bytes of the response have been parsed, and g bytes of its body written.
Reading(k, g) ==
  /\ Placed(response, k, g, parser) /\ Arriving(k)
  /\ g <= Len(Body(response)) /\ Got = SubSeq(Body(response), 1, g)

StillReading == \E k, g \in Nat : Reading(k, g)

Finished == packet = << >> /\ pc \in {"idle", "parse"} /\ Got = Body(response)

ReadTypes ==
  /\ response \in Responses /\ parser \in Parsers /\ out \in Seq(Chars)
  /\ link \in {"open", "closed", "reset"} /\ cut \in BOOLEAN /\ result \in Nat \cup {NoResult}

ReadInv ==
  /\ ReadTypes
  /\ link = "open" => ~cut
  /\ AtEnd => Finished
  /\ ~AtEnd => StillReading

LEMMA PrefixGrows ==
  ASSUME NEW s \in Seq(Chars), NEW g \in Nat, g < Len(s)
  PROVE  Append(SubSeq(s, 1, g), s[g + 1]) = SubSeq(s, 1, g + 1)
<1>1. Len(s) \in Nat /\ \A j \in 1..Len(s) : s[j] \in Chars  BY LenProperties, ElementOfSeq
<1> DEFINE u == SubSeq(s, 1, g)
           v == SubSeq(s, 1, g + 1)
<1>2. u \in Seq(Chars) /\ Len(u) = g /\ \A j \in 1..g : u[j] = s[j]
  <2>1. \A j \in 1..g : s[j] \in Chars  BY <1>1
  <2>2. /\ u \in Seq(Chars) /\ Len(u) = IF 1 <= g THEN g - 1 + 1 ELSE 0
        /\ \A j \in 1..g - 1 + 1 : u[j] = s[1 + j - 1]
    BY <2>1, SubSeqProperties
  <2> HIDE DEF u
  <2> QED BY <2>2
<1>3. v \in Seq(Chars) /\ Len(v) = g + 1 /\ \A j \in 1..g + 1 : v[j] = s[j]
  <2>1. \A j \in 1..g + 1 : s[j] \in Chars  BY <1>1
  <2>2. /\ v \in Seq(Chars) /\ Len(v) = IF 1 <= g + 1 THEN g + 1 - 1 + 1 ELSE 0
        /\ \A j \in 1..g + 1 - 1 + 1 : v[j] = s[1 + j - 1]
    BY <2>1, SubSeqProperties
  <2> HIDE DEF v
  <2> QED BY <2>2
<1> HIDE DEF u, v
<1> DEFINE b == s[g + 1]
           w == Append(u, b)
<1>4. /\ w \in Seq(Chars) /\ Len(w) = g + 1 /\ w[g + 1] = b
      /\ \A j \in 1..g : w[j] = u[j]
  <2>1. u \in Seq(Chars) /\ b \in Chars  BY <1>1, <1>2
  <2> HIDE DEF b
  <2>2. /\ w \in Seq(Chars) /\ Len(w) = Len(u) + 1 /\ w[Len(u) + 1] = b
        /\ \A j \in 1..Len(u) : w[j] = u[j]
    BY <2>1, AppendProperties
  <2> QED BY <1>2, <2>2
<1>5. Len(w) = Len(v) /\ \A j \in 1..Len(w) : w[j] = v[j]
  <2> HIDE DEF w
  <2>1. \A j \in 1..g + 1 : j = g + 1 \/ j \in 1..g  OBVIOUS
  <2>2. \A j \in 1..g + 1 : w[j] = v[j]  BY <1>2, <1>3, <1>4, <2>1
  <2> QED BY <1>3, <1>4, <2>2
<1>6. w = v  BY <1>3, <1>4, <1>5, SeqEqual
<1> QED BY <1>6 DEF u, v

LEMMA GotTyped ==
  ASSUME DownloadInv, ReadInv
  PROVE  /\ out \in Seq(Chars) /\ buf \in Seq(Chars) /\ Got \in Seq(Chars)
         /\ wire \in Seq(Chars) /\ packet \in Seq(Chars)
         /\ Len(wire) \in Nat /\ Len(packet) \in Nat /\ Len(buf) \in Nat
         /\ response \in Responses
         /\ Bytes(response) \in Seq(Chars) /\ Len(Bytes(response)) \in Nat
         /\ Body(response) \in Seq(Chars) /\ Len(Body(response)) \in Nat
<1>1. out \in Seq(Chars) /\ buf \in Seq(Chars) /\ wire \in Seq(Chars) /\ packet \in Seq(Chars)
      /\ response \in Responses
  BY DEF DownloadInv, Buffers, ReadInv, ReadTypes
<1>2. Got \in Seq(Chars)  BY <1>1, ConcatProperties DEF Got
<1> QED BY <1>1, <1>2, ResponseTyped, LenProperties

LEMMA ReadInit == Init => ReadInv
<1> SUFFICES ASSUME Init PROVE ReadInv  OBVIOUS
<1>1. response \in Responses /\ wire = Bytes(response) /\ packet = << >> /\ out = << >>
      /\ buf = << >> /\ parser = NewParser /\ cut = FALSE /\ link = "open" /\ result = NoResult
  BY DEF Init
<1>2. << >> \in Seq(Chars) /\ Len(<< >>) = 0  BY EmptySeq
<1>3. parser \in Parsers /\ HeadAt(parser, "getHTTPStatusLine", 0, << >>, << >>)
  <2>1. << >> \in Seq(Chars)  BY <1>2
  <2> QED BY <1>1, <2>1 DEF NewParser, Parsers, HeadAt, States
<1>4. ReadTypes  BY <1>1, <1>2, <1>3 DEF ReadTypes
<1>5. Placed(response, 0, 0, parser)  BY <1>3 DEF Placed, InHead
<1>6. Bytes(response) \in Seq(Chars) /\ Len(Bytes(response)) \in Nat
      /\ Body(response) \in Seq(Chars) /\ Len(Body(response)) \in Nat
  BY <1>1, ResponseTyped
<1>7. Arriving(0)
  <2>1. Len(packet) = 0 /\ Len(wire) = Len(Bytes(response))  BY <1>1, <1>2
  <2> QED BY <1>1, <1>6, <2>1 DEF Arriving
<1>8. Got = SubSeq(Body(response), 1, 0)
  <2>1. SubSeq(Body(response), 1, 0) = << >>  BY SubSeqEmpty
  <2>2. << >> \o << >> = << >>  BY <1>2, ConcatEmptySeq
  <2> QED BY <1>1, <2>1, <2>2 DEF Got
<1>9. Reading(0, 0)  BY <1>5, <1>6, <1>7, <1>8 DEF Reading
<1>10. StillReading /\ ~AtEnd  BY <1>3, <1>9 DEF StillReading, AtEnd, HeadAt
<1> QED BY <1>1, <1>4, <1>10 DEF ReadInv

LEMMA ByteArrives ==
  ASSUME NEW k \in Nat, packet \in Seq(Chars), wire \in Seq(Chars), packet # << >>, Arriving(k),
         Len(Bytes(response)) \in Nat
  PROVE  /\ Byte \in Chars /\ k < Len(Bytes(response)) /\ Byte = Bytes(response)[k + 1]
         /\ packet' = Tail(packet) /\ UNCHANGED server => Arriving(k + 1)'
<1>1. Len(packet) \in Nat \ {0} /\ Len(wire) \in Nat  BY EmptySeq, LenProperties
<1>2. 1 \in 1..Len(packet)  BY <1>1
<1>3. Byte \in Chars /\ Byte = Bytes(response)[k + 1] /\ k < Len(Bytes(response))
  <2>1. packet[1] \in Chars  BY <1>2, ElementOfSeq
  <2> QED BY <1>1, <1>2, <2>1 DEF Arriving, Byte
<1>4. ASSUME packet' = Tail(packet), UNCHANGED server PROVE Arriving(k + 1)'
  <2>1. /\ Len(Tail(packet)) = Len(packet) - 1
        /\ \A j \in 1..Len(packet) - 1 : Tail(packet)[j] = packet[j + 1]
    BY <1>1, HeadTailProperties
  <2> DEFINE t == Tail(packet)
             B == Bytes(response)
  <2>2. \A j \in 1..Len(t) : t[j] = B[k + 1 + j]
    <3> SUFFICES ASSUME NEW j \in 1..Len(t) PROVE t[j] = B[k + 1 + j]  OBVIOUS
    <3>1. j \in 1..Len(packet) - 1 /\ j + 1 \in 1..Len(packet) /\ k + (j + 1) = k + 1 + j
      BY <1>1, <2>1
    <3> QED BY <2>1, <3>1 DEF Arriving
  <2>3. k + 1 + Len(t) = k + Len(packet)  BY <1>1, <2>1
  <2> HIDE DEF t, B
  <2>4. /\ k + 1 + Len(t) + Len(wire) <= Len(B)
        /\ ~cut => k + 1 + Len(t) + Len(wire) = Len(B)
        /\ \A j \in 1..Len(wire) : wire[j] = B[k + 1 + Len(t) + j]
    BY <2>3 DEF Arriving, B
  <2> QED BY <1>4, <2>2, <2>4 DEF Arriving, server, t, B
<1> QED BY <1>3, <1>4

LEMMA ReadByte ==
  ASSUME DownloadInv, ReadInv, process_byte
  PROVE  ReadInv'
<1>0. ByteTaken  BY EachByte DEF DownloadInv
<1>1. /\ pc = "parse" /\ pc' = "parse" /\ packet # << >> /\ out' = out /\ UNCHANGED server
      /\ UNCHANGED <<response, wire, link, cut, result>>
      /\ packet' = IF AtEnd' THEN << >> ELSE Tail(packet)
  BY <1>0 DEF ByteTaken, server
<1>2. ~AtEnd  BY <1>1 DEF ReadInv, Finished
<1>3. PICK k, g \in Nat : Reading(k, g)  BY <1>2 DEF ReadInv, StillReading
<1>4. packet \in Seq(Chars) /\ wire \in Seq(Chars) /\ buf \in Seq(Chars) /\ out \in Seq(Chars)
      /\ Got \in Seq(Chars) /\ Len(Bytes(response)) \in Nat /\ Len(Body(response)) \in Nat
      /\ Body(response) \in Seq(Chars)
  BY GotTyped
<1>5. /\ Byte \in Chars /\ k < Len(Bytes(response)) /\ Byte = Bytes(response)[k + 1]
      /\ packet' = Tail(packet) => Arriving(k + 1)'
  BY <1>1, <1>3, <1>4, ByteArrives DEF Reading
<1>6. Parsing(k, g)
  BY <1>3, <1>4, <1>5 DEF Parsing, Reading, ReadInv, ReadTypes
<1>7. Moves(k, g)  BY <1>6, ParserMoves
<1>8. ReadTypes'  BY <1>1, <1>7 DEF Moves, ReadInv, ReadTypes
<1>9. ASSUME NEW h \in Nat, h <= Len(Body(response)), Got' = SubSeq(Body(response), 1, h),
             Reaches(k + 1, h)
      PROVE  ReadInv'
  <2>1. CASE AtEnd'
    <3>1. h = Len(Body(response))  BY <1>9, <2>1 DEF Reaches, AtEnd
    <3>2. Got' = Body(response)  BY <1>4, <1>9, <3>1, SubSeqFull
    <3> QED BY <1>1, <1>8, <2>1, <3>2 DEF ReadInv, Finished
  <2>2. CASE ~AtEnd'
    <3>1. Placed(response, k + 1, h, parser')  BY <1>9, <2>2 DEF Reaches, AtEnd
    <3>2. Arriving(k + 1)'  BY <1>1, <1>5, <2>2
    <3>3. Placed(response, k + 1, h, parser)'
      BY <1>1, <3>1 DEF Placed, InHead, HeadAt, InLength, InSomeChunk, InChunk
    <3>4. Reading(k + 1, h)'  BY <1>1, <1>9, <3>2, <3>3 DEF Reading
    <3>5. StillReading'  BY <3>4 DEF StillReading
    <3> QED BY <1>1, <1>8, <2>2, <3>5 DEF ReadInv
  <2> QED BY <2>1, <2>2
<1>10. CASE buf' = buf /\ Reaches(k + 1, g)
  <2>1. Got' = SubSeq(Body(response), 1, g) /\ g <= Len(Body(response))
    BY <1>1, <1>3, <1>10 DEF Reading, Got
  <2> QED BY <1>9, <1>10, <2>1
<1>11. CASE /\ g < Len(Body(response)) /\ buf' = Append(buf, Body(response)[g + 1])
            /\ Reaches(k + 1, g + 1)
  <2> DEFINE b == Body(response)[g + 1]
  <2>1. g + 1 \in 1..Len(Body(response)) /\ g + 1 <= Len(Body(response))  BY <1>4, <1>11
  <2>2. b \in Chars  BY <1>4, <2>1, ElementOfSeq
  <2>3. Append(SubSeq(Body(response), 1, g), b) = SubSeq(Body(response), 1, g + 1)
    BY <1>4, <1>11, PrefixGrows
  <2> HIDE DEF b
  <2>4. Append(buf, b) = buf \o <<b>> /\ Append(Got, b) = Got \o <<b>> /\ <<b>> \in Seq(Chars)
    BY <1>4, <2>2, AppendIsConcat
  <2>5. out \o (buf \o <<b>>) = (out \o buf) \o <<b>>
    BY <1>4, <2>4, ConcatAssociative, SMTT(30)
  <2>6. Got' = Append(Got, b)  BY <1>1, <1>11, <2>4, <2>5 DEF Got, b
  <2>7. Got' = SubSeq(Body(response), 1, g + 1)  BY <1>3, <2>3, <2>6 DEF Reading
  <2> QED BY <1>9, <1>11, <2>1, <2>7
<1> QED BY <1>7, <1>10, <1>11 DEF Moves

LEMMA ReadRecv ==
  ASSUME DownloadInv, ReadInv, Recv
  PROVE  ReadInv'
<1>1. PICK n \in 1..Len(wire) :
        n <= BufferMax /\ packet' = SubSeq(wire, 1, n) /\ wire' = SubSeq(wire, n + 1, Len(wire))
  BY DEF Recv
<1>2. /\ pc = "recv" /\ pc' = "parse"
      /\ UNCHANGED <<response, link, cut, parser, mode, buf, out, result>>
  BY DEF Recv
<1>3. ~AtEnd /\ packet = << >>  BY <1>2 DEF ReadInv, Finished, DownloadInv, Control
<1>4. PICK k, g \in Nat : Reading(k, g)  BY <1>3 DEF ReadInv, StillReading
<1>5. wire \in Seq(Chars) /\ Len(wire) \in Nat /\ Len(Bytes(response)) \in Nat  BY GotTyped
<1>6. \A i \in 1..Len(wire) : wire[i] \in Chars  BY <1>5, ElementOfSeq
<1> DEFINE p == SubSeq(wire, 1, n)
           w == SubSeq(wire, n + 1, Len(wire))
           B == Bytes(response)
<1>7. n \in Nat /\ n >= 1 /\ n <= Len(wire)  BY <1>5
<1>8. Len(p) = n /\ \A j \in 1..n : p[j] = wire[j]
  <2>1. \A i \in 1..n : wire[i] \in Chars  BY <1>6, <1>7
  <2>2. /\ Len(p) = IF 1 <= n THEN n - 1 + 1 ELSE 0
        /\ \A j \in 1..n - 1 + 1 : p[j] = wire[1 + j - 1]
    BY <1>7, <2>1, SubSeqProperties
  <2> HIDE DEF p
  <2> QED BY <1>7, <2>2
<1>9. Len(w) = Len(wire) - n /\ \A j \in 1..Len(wire) - n : w[j] = wire[n + j]
  <2>1. \A i \in n + 1..Len(wire) : wire[i] \in Chars  BY <1>5, <1>6, <1>7
  <2>2. n + 1 \in Int /\ Len(wire) \in Int  BY <1>5, <1>7
  <2>3. /\ Len(w) = IF n + 1 <= Len(wire) THEN Len(wire) - (n + 1) + 1 ELSE 0
        /\ \A j \in 1..Len(wire) - (n + 1) + 1 : w[j] = wire[n + 1 + j - 1]
    BY <2>1, <2>2, SubSeqProperties
  <2> HIDE DEF w
  <2> QED BY <1>5, <1>7, <2>3
<1> HIDE DEF p, w, B
<1>10. /\ k + Len(wire) <= Len(B) /\ (~cut => k + Len(wire) = Len(B))
       /\ \A j \in 1..Len(wire) : wire[j] = B[k + j]
  <2>1. Len(packet) = 0  BY <1>3, EmptySeq
  <2>2. k + Len(packet) + Len(wire) = k + Len(wire) /\ \A j \in 1..Len(wire) : k + Len(packet) + j = k + j
    BY <1>5, <2>1
  <2> QED BY <1>4, <2>2 DEF Reading, Arriving, B
<1>11. /\ k + Len(p) + Len(w) = k + Len(wire)
       /\ \A j \in 1..Len(p) : p[j] = B[k + j]
       /\ \A j \in 1..Len(w) : w[j] = B[k + Len(p) + j]
  <2>1. \A j \in 1..Len(p) : j \in 1..Len(wire)  BY <1>5, <1>7, <1>8
  <2>2. \A j \in 1..Len(w) : n + j \in 1..Len(wire) /\ k + (n + j) = k + n + j  BY <1>5, <1>7, <1>9
  <2>3. k + Len(p) + Len(w) = k + Len(wire)  BY <1>5, <1>7, <1>8, <1>9
  <2>4. \A j \in 1..Len(p) : p[j] = B[k + j]  BY <1>8, <1>10, <2>1
  <2>5. \A j \in 1..Len(w) : w[j] = B[k + n + j]
    <3> SUFFICES ASSUME NEW j \in 1..Len(w) PROVE w[j] = B[k + n + j]  OBVIOUS
    <3>1. w[j] = wire[n + j]  BY <1>9
    <3>2. wire[n + j] = B[k + (n + j)]  BY <1>10, <2>2
    <3> QED BY <2>2, <3>1, <3>2
  <2> QED BY <1>8, <2>3, <2>4, <2>5
<1>12. Arriving(k)'  BY <1>1, <1>2, <1>10, <1>11 DEF Arriving, p, w, B
<1>13. Reading(k, g)'
  BY <1>2, <1>4, <1>12
     DEF Reading, Got, Placed, InHead, HeadAt, InLength, InSomeChunk, InChunk
<1>14. StillReading'  BY <1>13 DEF StillReading
<1> QED BY <1>2, <1>3, <1>14 DEF ReadInv, ReadTypes, AtEnd

LEMMA ReadClose ==
  ASSUME DownloadInv, ReadInv, ServerClose
  PROVE  ReadInv'
<1>1. PICK n \in 0..Len(wire) : wire' = SubSeq(wire, 1, n) /\ cut' = (n < Len(wire))
  BY DEF ServerClose
<1>2. /\ link = "open" /\ link' = "closed"
      /\ UNCHANGED <<response, parser, mode, pc, packet, buf, out, result>>
  BY DEF ServerClose
<1>3. wire \in Seq(Chars) /\ Len(wire) \in Nat /\ Len(packet) \in Nat
      /\ Len(Bytes(response)) \in Nat
  BY GotTyped
<1>4. ~cut  BY <1>2 DEF ReadInv
<1>5. ReadTypes' /\ (AtEnd' <=> AtEnd)  BY <1>1, <1>2 DEF ReadInv, ReadTypes, AtEnd
<1>6. CASE AtEnd
  <2>1. Finished'  BY <1>2, <1>6 DEF ReadInv, Finished, Got
  <2> QED BY <1>2, <1>5, <1>6, <2>1 DEF ReadInv
<1>7. CASE ~AtEnd
  <2>1. PICK k, g \in Nat : Reading(k, g)  BY <1>7 DEF ReadInv, StillReading
  <2> DEFINE w == SubSeq(wire, 1, n)
             B == Bytes(response)
  <2>2. n \in Nat /\ n <= Len(wire)  BY <1>3
  <2>3. Len(w) = n /\ \A j \in 1..n : w[j] = wire[j]
    <3>1. \A i \in 1..n : wire[i] \in Chars  BY <1>3, <2>2, ElementOfSeq
    <3>2. /\ Len(w) = IF 1 <= n THEN n - 1 + 1 ELSE 0
          /\ \A j \in 1..n - 1 + 1 : w[j] = wire[1 + j - 1]
      BY <2>2, <3>1, SubSeqProperties
    <3> HIDE DEF w
    <3> QED BY <2>2, <3>2
  <2> HIDE DEF w, B
  <2>4. /\ k + Len(packet) + Len(wire) = Len(B)
        /\ \A j \in 1..Len(packet) : packet[j] = B[k + j]
        /\ \A j \in 1..Len(wire) : wire[j] = B[k + Len(packet) + j]
    BY <1>4, <2>1 DEF Reading, Arriving, B
  <2>5. /\ k + Len(packet) + Len(w) <= Len(B)
        /\ ~(n < Len(wire)) => k + Len(packet) + Len(w) = Len(B)
        /\ \A j \in 1..Len(w) : w[j] = B[k + Len(packet) + j]
    <3>1. \A j \in 1..Len(w) : j \in 1..Len(wire)  BY <1>3, <2>2, <2>3
    <3>2. k + Len(packet) + n <= Len(B) /\ (~(n < Len(wire)) => n = Len(wire))
      BY <1>3, <2>2, <2>4
    <3> QED BY <2>3, <2>4, <3>1, <3>2
  <2>6. Arriving(k)'  BY <1>1, <1>2, <2>4, <2>5 DEF Arriving, w, B
  <2>7. Reading(k, g)'
    BY <1>2, <2>1, <2>6
       DEF Reading, Got, Placed, InHead, HeadAt, InLength, InSomeChunk, InChunk
  <2>8. StillReading'  BY <2>7 DEF StillReading
  <2> QED BY <1>2, <1>5, <1>7, <2>8 DEF ReadInv
<1> QED BY <1>6, <1>7

\* A step that moves no byte and leaves the same data with the caller and the call.
LEMMA ReadSame ==
  ASSUME ReadInv, UNCHANGED <<server, parser, packet>>, Got' = Got, out' \in Seq(Chars),
         result' \in Nat \cup {NoResult}, AtEnd => pc' \in {"idle", "parse"}
  PROVE  ReadInv'
<1>1. UNCHANGED <<response, wire, link, cut>>  BY DEF server
<1>2. ReadTypes' /\ (AtEnd' <=> AtEnd)  BY <1>1 DEF ReadInv, ReadTypes, AtEnd
<1>3. CASE AtEnd
  <2>1. Finished'  BY <1>1, <1>3 DEF ReadInv, Finished
  <2> QED BY <1>1, <1>2, <1>3, <2>1 DEF ReadInv
<1>4. CASE ~AtEnd
  <2>1. PICK k, g \in Nat : Reading(k, g)  BY <1>4 DEF ReadInv, StillReading
  <2>2. Arriving(k)'  BY <1>1, <2>1 DEF Reading, Arriving
  <2>3. Reading(k, g)'
    BY <1>1, <2>1, <2>2 DEF Reading, Placed, InHead, HeadAt, InLength, InSomeChunk, InChunk
  <2>4. StillReading'  BY <2>3 DEF StillReading
  <2> QED BY <1>1, <1>2, <1>4, <2>4 DEF ReadInv
<1> QED BY <1>3, <1>4

\* A call that returns what it has written gives it to the caller.
LEMMA ReadReturn ==
  ASSUME DownloadInv, ReadInv, UNCHANGED <<server, parser, packet>>, Return(buf)
  PROVE  ReadInv'
<1>1. out \in Seq(Chars) /\ buf \in Seq(Chars) /\ Got \in Seq(Chars) /\ Len(buf) \in Nat
  BY GotTyped
<1>2. out' = Got /\ buf' = << >> /\ result' = Len(buf) /\ pc' = "idle"
  BY DEF Return, Got
<1>3. Got' = Got  BY <1>1, <1>2, ConcatEmptySeq DEF Got
<1> QED BY <1>1, <1>2, <1>3, ReadSame

LEMMA ReadNext ==
  ASSUME DownloadInv, ReadInv, [Next]_vars
  PROVE  ReadInv'
<1>0. out \in Seq(Chars) /\ result \in Nat \cup {NoResult}  BY DEF ReadInv, ReadTypes
<1>1. CASE UNCHANGED vars
  <2>1. UNCHANGED <<server, parser, packet>> /\ UNCHANGED <<pc, out, buf, result>>
    BY <1>1 DEF vars
  <2> QED BY <1>0, <2>1, ReadSame DEF ReadInv, Finished, Got
<1>2. CASE Call
  <2>1. UNCHANGED <<server, parser, packet>> /\ pc = "idle"  BY <1>2 DEF Call
  <2>2. CASE AtEnd
    <3>1. buf = << >>  BY <2>1 DEF DownloadInv, NothingYet
    <3>2. Return(buf)  BY <1>2, <2>2, <3>1 DEF Call
    <3> QED BY <2>1, <3>2, ReadReturn
  <2>3. CASE ~AtEnd
    <3>1. UNCHANGED <<buf, out, result>>  BY <1>2, <2>3 DEF Call
    <3> QED BY <1>0, <2>1, <2>3, <3>1, ReadSame DEF Got
  <2> QED BY <2>2, <2>3
<1>3. CASE Recv  BY <1>3, ReadRecv
<1>4. CASE RecvEnd
  <2>1. UNCHANGED <<server, parser, packet>> /\ pc = "recv"  BY <1>4 DEF RecvEnd
  <2>2. ~AtEnd  BY <2>1 DEF ReadInv, Finished
  <2>3. CASE mode = "update"
    <3>1. buf = << >>  BY <2>1, <2>3 DEF DownloadInv, NothingYet
    <3>2. Return(buf)  BY <1>4, <2>3, <3>1 DEF RecvEnd
    <3> QED BY <2>1, <3>2, ReadReturn
  <2>4. CASE mode # "update"
    <3>1. UNCHANGED <<buf, out, result>>  BY <1>4, <2>4 DEF RecvEnd
    <3> QED BY <1>0, <2>1, <2>2, <3>1, ReadSame DEF Got
  <2> QED BY <2>3, <2>4
<1>5. CASE process_byte  BY <1>5, ReadByte
<1>6. CASE Parsed
  <2>1. UNCHANGED <<server, parser, packet>>  BY <1>6 DEF Parsed
  <2>2. CASE AtEnd \/ (mode = "update" /\ buf # << >>)
    <3>1. Return(buf)  BY <1>6, <2>2 DEF Parsed
    <3> QED BY <2>1, <3>1, ReadReturn
  <2>3. CASE ~(AtEnd \/ (mode = "update" /\ buf # << >>))
    <3>1. UNCHANGED <<buf, out, result>> /\ ~AtEnd  BY <1>6, <2>3 DEF Parsed
    <3> QED BY <1>0, <2>1, <3>1, ReadSame DEF Got
  <2> QED BY <2>2, <2>3
<1>7. CASE ServerClose  BY <1>7, ReadClose
<1> QED BY <1>1, <1>2, <1>3, <1>4, <1>5, <1>6, <1>7 DEF Next, Download

LEMMA ReadAlways == Spec => [](DownloadInv /\ ReadInv)
<1>1. DownloadInv /\ ReadInv /\ [Next]_vars => ReadInv'  BY ReadNext
<1> QED BY <1>1, ReadInit, DownloadAlways, PTL DEF Spec

-----------------------------------------------------------------------------
(* The theorems                                                             *)

\* The parser's state, the buffers and the connection have their types, for any
\* responses, segmentation and buffer.
THEOREM TypesSound == Spec => []TypeOK
<1>1. DownloadInv /\ ReadInv => TypeOK
  BY DEF DownloadInv, Buffers, Control, ReadInv, ReadTypes, TypeOK, Parsers, States
<1> QED BY <1>1, ReadAlways, PTL

\* After a call of downloadUpdate has returned 0 every later one returns 0
\* (fileTransfer.c:305), for any response and any way it arrives or is cut.
THEOREM ZeroFinal == Spec => ZeroIsFinal
<1>1. DownloadInv /\ [Next]_vars => [mode = "update" /\ result = 0 => result' = 0]_vars
  BY DownloadNext
<1> QED BY <1>1, DownloadAlways, PTL DEF Spec, ZeroIsFinal

\* A call writes at most one byte beyond the size it was given, the NUL after its
\* data (realtimePacketParser.c:152,170), for any size, response and segmentation.
THEOREM WritesBounded == Spec => []OneBytePast
<1>1. DownloadInv => OneBytePast
  <2> SUFFICES ASSUME DownloadInv, mode = "update" PROVE Len(Written) <= BufferMax + 1
    BY DEF OneBytePast
  <2>1. buf \in Seq(Chars) /\ packet \in Seq(Chars)  BY DEF DownloadInv, Buffers
  <2>2. Len(buf) \in Nat /\ Len(packet) \in Nat /\ Len(buf) + Len(packet) <= BufferMax
    BY <2>1, LenProperties DEF DownloadInv, DataFits
  <2>3. Len(Append(buf, Nul)) = Len(buf) + 1 /\ Len(<< >>) = 0
    BY <2>1
  <2> QED BY <2>2, <2>3, BufferAssumption DEF Written, BufferAssumption
<1> QED BY <1>1, DownloadAlways, PTL

LEMMA PrefixOf ==
  ASSUME NEW s \in Seq(Chars), NEW g \in Nat, g <= Len(s)
  PROVE  Len(SubSeq(s, 1, g)) = g /\ IsPrefixOf(SubSeq(s, 1, g), s)
<1>1. Len(s) \in Nat /\ \A j \in 1..Len(s) : s[j] \in Chars  BY LenProperties, ElementOfSeq
<1>2. Len(SubSeq(s, 1, g)) = g
  <2>1. \A j \in 1..g : s[j] \in Chars  BY <1>1
  <2>2. Len(SubSeq(s, 1, g)) = IF 1 <= g THEN g - 1 + 1 ELSE 0  BY <2>1, SubSeqProperties
  <2> QED BY <2>2
<1> QED BY <1>2 DEF IsPrefixOf

LEMMA WholeAtEnd ==
  ASSUME DownloadInv, ReadInv
  PROVE  EndIsWhole
<1>1. Got \in Seq(Chars) /\ Body(response) \in Seq(Chars) /\ Len(Body(response)) \in Nat
  BY GotTyped
<1>2. AtEnd => Got = Body(response)  BY DEF ReadInv, Finished
<1>3. CASE AtEnd
  <2>1. IsPrefixOf(Got, Body(response))
    <3>1. SubSeq(Body(response), 1, Len(Body(response))) = Body(response)
      BY <1>1, SubSeqFull
    <3>2. \A x \in Nat : x <= x  OBVIOUS
    <3>3. IsPrefixOf(SubSeq(Body(response), 1, Len(Body(response))), Body(response))
      BY <1>1, <3>2, PrefixOf
    <3> QED BY <1>2, <1>3, <3>1, <3>3
  <2> QED BY <1>2, <2>1 DEF EndIsWhole, Got
<1>4. CASE ~AtEnd
  <2>1. PICK k, g \in Nat : Reading(k, g)  BY <1>4 DEF ReadInv, StillReading
  <2>2. IsPrefixOf(Got, Body(response))  BY <1>1, <2>1, PrefixOf DEF Reading
  <2> QED BY <1>4, <2>2 DEF EndIsWhole, Got
<1> QED BY <1>3, <1>4

\* What the parser has written is a beginning of the body, and the whole of it
\* when it is at the end (realtimePacketParser.c: process_byte).
THEOREM WholeBody == Spec => []EndIsWhole
<1>1. DownloadInv /\ ReadInv => EndIsWhole  BY WholeAtEnd
<1> QED BY <1>1, ReadAlways, PTL

-----------------------------------------------------------------------------
(* The driver is a stream                                                   *)

LEMMA StreamStarts == Init => Stream!Init
BY DEF Init, Stream!Init, NoResult

\* Before the end, no more has been written than has arrived: when nothing is
\* left and the server cut nothing off, that is the body.
LEMMA AllArrived ==
  ASSUME DownloadInv, ReadInv, ~AtEnd, packet = << >>, wire = << >>, ~cut
  PROVE  Got = Body(response)
<1>1. PICK k, g \in Nat : Reading(k, g)  BY DEF ReadInv, StillReading
<1>2. /\ Body(response) \in Seq(Chars) /\ Len(Body(response)) \in Nat
      /\ Len(Bytes(response)) \in Nat /\ response \in Responses
  BY GotTyped
<1>3. k = Len(Bytes(response))
  <2>1. Len(packet) = 0 /\ Len(wire) = 0  BY EmptySeq
  <2> QED BY <1>1, <1>2, <2>1 DEF Reading, Arriving
<1>4. ~InHead(response, k, parser)
  <2>1. response.framing = "none" => k = 5  BY <1>2, <1>3, HeadOf
  <2>2. response.framing # "none" => k >= 18  BY <1>2, <1>3, HeadOf
  <2> QED BY <2>1, <2>2 DEF InHead
<1>5. ~(response.framing = "chunked" /\ InSomeChunk(response, k, g, parser))
  <2> SUFFICES ASSUME response.framing = "chunked", InSomeChunk(response, k, g, parser)
               PROVE  FALSE
    OBVIOUS
  <2>1. PICK i \in 0..Len(response.parts) :
          InChunk(response, i, ChunkStart(response)[i], DataStart(response)[i], k, g, parser)
    BY DEF InSomeChunk
  <2> DEFINE c == ChunkStart(response)[i]
             d == DataStart(response)[i]
             m == Size(response, i)
  <2>2. ChunkLaid(response, i, c, d, m)  BY <1>2, ChunkFacts
  <2>3. k \in {c, c + 1, c + 2, c + 3 + m, c + 4 + m} \/ k \in c + 3..c + 2 + m
    BY <2>1 DEF InChunk
  <2> HIDE DEF c, d, m
  <2>4. c \in Nat /\ m \in 0..9 /\ c + 5 + m <= Len(Bytes(response))
    BY <2>2 DEF ChunkLaid
  <2> QED BY <1>2, <1>3, <2>3, <2>4
<1>6. response.framing = "length" /\ k = 18 + g
  BY <1>1, <1>4, <1>5 DEF Reading, Placed, InLength
<1>7. g = Len(Body(response))
  <2>1. Len(Bytes(response)) = 18 + Len(Body(response))  BY <1>2, <1>6, LengthLaid
  <2>2. \A x, y \in Nat : 18 + x = 18 + y => x = y  OBVIOUS
  <2>3. 18 + g = 18 + Len(Body(response))  BY <1>3, <1>6, <2>1
  <2> QED BY <1>2, <2>2, <2>3
<1> QED BY <1>1, <1>2, <1>7, SubSeqFull DEF Reading

\* What a call returns is a part of the body that the caller did not have, or
\* nothing, after all of it or after the server cut it off.
LEMMA ReturnsPart ==
  ASSUME DownloadInv, ReadInv, UNCHANGED <<server, mode>>, Return(buf),
         ~(mode = "update" /\ result = 0) \/ buf = << >>,
         buf = << >> => cut \/ out = Body(response)
  PROVE  [Stream!Next]_Stream!vars
<1>1. /\ out \in Seq(Chars) /\ buf \in Seq(Chars) /\ Got \in Seq(Chars)
      /\ Body(response) \in Seq(Chars) /\ Len(Body(response)) \in Nat
  BY GotTyped
<1>2. out' = Got /\ result' = Len(buf) /\ UNCHANGED <<response, cut, mode>>
  BY DEF Return, Got, server
<1>3. CASE buf = << >>
  <2>1. result' = 0 /\ out' = out  BY <1>1, <1>2, <1>3, EmptySeq, ConcatEmptySeq DEF Got
  <2>2. CASE mode = "update"
    BY <1>2, <1>3, <2>1, <2>2 DEF Stream!Next, Stream!End, Stream!vars
  <2>3. CASE mode # "update"
    BY <1>2, <2>1, <2>3 DEF Stream!vars
  <2> QED BY <2>2, <2>3
<1>4. CASE buf # << >>
  <2>1. Len(buf) \in Nat \ {0} /\ Len(out) \in Nat /\ Len(Got) = Len(out) + Len(buf)
    BY <1>1, <1>4, EmptySeq, LenProperties, ConcatProperties DEF Got
  <2>2. Len(Got) <= Len(Body(response)) /\ Got = SubSeq(Body(response), 1, Len(Got))
    BY WholeAtEnd DEF EndIsWhole, IsPrefixOf, Got
  <2> DEFINE n == Len(Got)
  <2>3. n \in Len(out) + 1..Len(Body(response)) /\ Len(out) < Len(Body(response))
    BY <1>1, <2>1, <2>2
  <2>4. out' = SubSeq(Body(response), 1, n)  BY <1>2, <2>2
  <2>5. result' # 0  BY <1>2, <2>1
  <2> HIDE DEF n
  <2>6. \E h \in Len(out) + 1..Len(Body(response)) : out' = SubSeq(Body(response), 1, h)
    BY <2>3, <2>4
  <2>7. Stream!Deliver
    BY <1>2, <1>4, <2>3, <2>5, <2>6 DEF Stream!Deliver
  <2> QED BY <2>7 DEF Stream!Next
<1> QED BY <1>3, <1>4

LEMMA StreamStep ==
  ASSUME DownloadInv, ReadInv, [Next]_vars
  PROVE  [Stream!Next]_Stream!vars
<1>0. ASSUME UNCHANGED <<response, cut, mode, out, result>> PROVE [Stream!Next]_Stream!vars
  BY <1>0 DEF Stream!vars
<1>1. CASE UNCHANGED vars  BY <1>0, <1>1 DEF vars, server
<1>2. CASE Call
  <2>1. UNCHANGED <<server, mode>> /\ pc = "idle"  BY <1>2 DEF Call
  <2>2. CASE AtEnd
    <3>1. buf = << >>  BY <2>1 DEF DownloadInv, NothingYet
    <3>2. Return(buf)  BY <1>2, <2>2, <3>1 DEF Call
    <3>3. out = Body(response)
      <4>1. out \in Seq(Chars) /\ Got = Body(response)  BY <2>2, GotTyped DEF ReadInv, Finished
      <4> QED BY <3>1, <4>1, ConcatEmptySeq DEF Got
    <3> QED BY <2>1, <3>1, <3>2, <3>3, ReturnsPart
  <2>3. CASE ~AtEnd  BY <1>0, <1>2, <2>1, <2>3 DEF Call, server
  <2> QED BY <2>2, <2>3
<1>3. CASE Recv  BY <1>0, <1>3 DEF Recv
<1>4. CASE RecvEnd
  <2>1. UNCHANGED <<server, mode>> /\ pc = "recv" /\ wire = << >> /\ packet = << >>
    BY <1>4 DEF RecvEnd, DownloadInv, Control
  <2>2. ~AtEnd  BY <2>1 DEF ReadInv, Finished
  <2>3. CASE mode = "update"
    <3>1. buf = << >>  BY <2>1, <2>3 DEF DownloadInv, NothingYet
    <3>2. Return(buf)  BY <1>4, <2>3, <3>1 DEF RecvEnd
    <3>3. cut \/ out = Body(response)
      <4>1. cut \/ Got = Body(response)  BY <2>1, <2>2, AllArrived
      <4>2. Got = out  BY <3>1, GotTyped, ConcatEmptySeq DEF Got
      <4> QED BY <4>1, <4>2
    <3> QED BY <2>1, <3>1, <3>2, <3>3, ReturnsPart
  <2>4. CASE mode # "update"  BY <1>0, <1>4, <2>1, <2>4 DEF RecvEnd, server
  <2> QED BY <2>3, <2>4
<1>5. CASE process_byte
  <2>1. ByteTaken  BY <1>5, EachByte DEF DownloadInv
  <2> QED BY <1>0, <2>1 DEF ByteTaken, server
<1>6. CASE Parsed
  <2>1. UNCHANGED <<server, mode>> /\ pc = "parse"
    BY <1>6 DEF Parsed, DownloadInv, Control
  <2>2. ~(mode = "update" /\ result = 0)  BY <2>1 DEF DownloadInv, ZeroMeansEnd
  <2>3. CASE AtEnd \/ (mode = "update" /\ buf # << >>)
    <3>1. Return(buf)  BY <1>6, <2>3 DEF Parsed
    <3>2. buf = << >> => out = Body(response)
      <4> SUFFICES ASSUME buf = << >> PROVE out = Body(response)  OBVIOUS
      <4>1. out \in Seq(Chars) /\ Got = Body(response)
        BY <2>3, GotTyped DEF ReadInv, Finished
      <4> QED BY <4>1, ConcatEmptySeq DEF Got
    <3> QED BY <2>1, <2>2, <3>1, <3>2, ReturnsPart
  <2>4. CASE ~(AtEnd \/ (mode = "update" /\ buf # << >>))
    BY <1>0, <1>6, <2>1, <2>4 DEF Parsed, server
  <2> QED BY <2>3, <2>4
<1>7. CASE ServerClose
  <2>1. cut' \in BOOLEAN /\ ~cut /\ cut \in BOOLEAN /\ UNCHANGED <<response, mode, out, result>>
    BY <1>7 DEF ServerClose, ReadInv, ReadTypes
  <2>2. CASE cut' = TRUE  BY <2>1, <2>2 DEF Stream!Next, Stream!Cut
  <2>3. CASE cut' = FALSE  BY <1>0, <2>1, <2>3
  <2> QED BY <2>1, <2>2, <2>3
<1> QED BY <1>1, <1>2, <1>3, <1>4, <1>5, <1>6, <1>7 DEF Next, Download

\* The driver keeps the promise of FileStream: what a call returns is the next
\* part of the file, and it returns zero after the last one or when the server
\* went away before (googleDownloadDriver.c: downloadUpdate).
THEOREM DriverStreams == Spec => StreamSpec
<1>1. DownloadInv /\ ReadInv /\ [Next]_vars => [Stream!Next]_Stream!vars  BY StreamStep
<1> QED BY <1>1, StreamStarts, ReadAlways, PTL DEF Spec, StreamSpec, Stream!Spec
=============================================================================
