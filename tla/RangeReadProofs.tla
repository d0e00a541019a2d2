--------------------------- MODULE RangeReadProofs ---------------------------
(***************************************************************************)
(* What a read of a range returns, for every block size, every file and    *)
(* range, and every way to cut the response.                               *)
(***************************************************************************)
EXTENDS RangeReadProperties, TransferProofs

Bytes == -1..MaxSize

\* u is what t has from its place a + 1 on.
Slice(u, a, t) ==
  a \in Nat /\ a + Len(u) <= Len(t) /\ \A i \in 1..Len(u) : u[i] = t[a + i]

LEMMA SubSeqFacts ==
  ASSUME NEW T, NEW s \in Seq(T), NEW i \in Nat, NEW n \in Nat, i + n <= Len(s)
  PROVE  /\ SubSeq(s, i + 1, i + n) \in Seq(T)
         /\ Len(SubSeq(s, i + 1, i + n)) = n
         /\ \A j \in 1..n : SubSeq(s, i + 1, i + n)[j] = s[i + j]
<1>1. \A j \in i + 1..i + n : s[j] \in T
  BY LenProperties, ElementOfSeq
<1>2. i + 1 \in Int /\ i + n \in Int /\ (i + n) - (i + 1) + 1 = n
  OBVIOUS
<1>3. \A j \in 1..n : (i + 1) + j - 1 = i + j
  OBVIOUS
<1> DEFINE cut == SubSeq(s, i + 1, i + n)
<1>4. /\ cut \in Seq(T)
      /\ Len(cut) = IF i + 1 <= i + n THEN (i + n) - (i + 1) + 1 ELSE 0
      /\ \A j \in 1..(i + n) - (i + 1) + 1 : cut[j] = s[(i + 1) + j - 1]
  BY <1>1, <1>2, SubSeqProperties
<1> QED
  BY <1>2, <1>3, <1>4

LEMMA AtMostFacts ==
  ASSUME NEW T, NEW s \in Seq(T), NEW n \in Nat
  PROVE  /\ AtMost(s, n) \in Seq(T)
         /\ Len(AtMost(s, n)) = Minimum(Len(s), n)
         /\ Len(AtMost(s, n)) <= n /\ Len(AtMost(s, n)) <= Len(s)
         /\ \A j \in 1..Len(AtMost(s, n)) : AtMost(s, n)[j] = s[j]
<1>1. PICK m \in Nat : m = Minimum(Len(s), n)
  BY LenProperties DEF Minimum
<1>2. m <= n /\ m <= Len(s) /\ AtMost(s, n) = SubSeq(s, 0 + 1, 0 + m)
  BY <1>1, LenProperties DEF Minimum, AtMost, First
<1> QED
  BY <1>1, <1>2, SubSeqFacts, LenProperties DEF Minimum

LEMMA SliceCut ==
  ASSUME NEW T, NEW u \in Seq(T), NEW t, Len(t) \in Nat, NEW a, Slice(u, a, t), NEW n \in 0..Len(u)
  PROVE  Slice(First(u, n), a, t) /\ Slice(After(u, n), a + n, t)
<1>1. Len(u) \in Nat /\ a \in Nat /\ a + Len(u) <= Len(t)
  BY LenProperties DEF Slice
<1>2. /\ Len(First(u, n)) = n /\ \A i \in 1..n : First(u, n)[i] = u[i]
  <2>1. First(u, n) = SubSeq(u, 0 + 1, 0 + n)
    BY DEF First
  <2> QED
    BY <2>1, <1>1, SubSeqFacts
<1>3. /\ Len(After(u, n)) = Len(u) - n
      /\ \A i \in 1..Len(u) - n : After(u, n)[i] = u[n + i]
  <2>1. After(u, n) = SubSeq(u, n + 1, n + (Len(u) - n))
    BY <1>1 DEF After
  <2> QED
    BY <2>1, <1>1, SubSeqFacts
<1>4. \A i \in 1..n : i \in 1..Len(u) /\ u[i] = t[a + i]
  BY <1>1 DEF Slice
<1>5. \A i \in 1..Len(u) - n : n + i \in 1..Len(u) /\ a + (n + i) = (a + n) + i
  BY <1>1
<1>6. \A i \in 1..Len(u) - n : u[n + i] = t[(a + n) + i]
  BY <1>5 DEF Slice
<1> QED
  BY <1>1, <1>2, <1>3, <1>4, <1>6 DEF Slice

LEMMA SliceConcat ==
  ASSUME NEW T, NEW u \in Seq(T), NEW v \in Seq(T), NEW t, Len(t) \in Nat, NEW a,
         Slice(u, a, t), Slice(v, a + Len(u), t)
  PROVE  Slice(u \o v, a, t)
<1>1. /\ Len(u \o v) = Len(u) + Len(v) /\ Len(u) \in Nat /\ Len(v) \in Nat
      /\ \A i \in 1..Len(u) + Len(v) :
           (u \o v)[i] = IF i <= Len(u) THEN u[i] ELSE v[i - Len(u)]
  BY ConcatProperties, LenProperties
<1>2. a \in Nat /\ a + (Len(u) + Len(v)) <= Len(t)
  BY <1>1 DEF Slice
<1>3. \A i \in 1..Len(u) + Len(v) : (u \o v)[i] = t[a + i]
  <2> TAKE i \in 1..Len(u) + Len(v)
  <2>1. CASE i <= Len(u)
    BY <2>1, <1>1 DEF Slice
  <2>2. CASE i > Len(u)
    <3>1. i - Len(u) \in 1..Len(v) /\ (a + Len(u)) + (i - Len(u)) = a + i
      BY <2>2, <1>1, <1>2
    <3>2. v[i - Len(u)] = t[(a + Len(u)) + (i - Len(u))]
      BY <3>1 DEF Slice
    <3> QED
      BY <3>1, <3>2, <2>2, <1>1
  <2> QED
    BY <2>1, <2>2, <1>1
<1> QED
  BY <1>1, <1>2, <1>3 DEF Slice

-----------------------------------------------------------------------------
(* The ranges                                                               *)

\* The fetched blocks start a block before the one that has the offset, or at the
\* start of the file.
LEMMA StartFacts ==
  ASSUME NEW o \in Nat
  PROVE  /\ EncStart(o) \in Nat /\ EncStart(o) <= o
         /\ EncStart(o) % BlockSize = 0
         /\ EncStart(o) < BlockSize => EncStart(o) = 0
         /\ EncStart(o) >= BlockSize =>
              /\ EncStart(o) + BlockSize = o - (o % BlockSize)
              /\ EncStart(o) + BlockSize <= o /\ o < EncStart(o) + 2 * BlockSize
              /\ (EncStart(o) + BlockSize) % BlockSize = 0
<1> USE BlockAssumption
<1>1. o % BlockSize \in Nat /\ o % BlockSize < BlockSize  BY DivMod
<1> DEFINE r == o % BlockSize
           w == o - r
<1>2. w \in Nat /\ w % BlockSize = 0  BY SubMod
<1>3. 0 % BlockSize = 0 /\ BlockSize % BlockSize = 0  BY BlockMod
<1>4. r \in Nat /\ r < BlockSize /\ o = w + r  BY <1>1
<1>5. EncStart(o) = IF o < BlockSize THEN 0 ELSE w - BlockSize  BY DEF EncStart
<1> HIDE DEF r, w
<1>6. CASE o < BlockSize
  BY <1>5, <1>6, <1>3
<1>7. CASE o >= BlockSize
  <2>1. w > 0  BY <1>7, <1>4, <1>2
  <2>2. w >= BlockSize  BY <2>1, <1>2, <1>3, MultipleGap
  <2>3. w - BlockSize \in Nat  BY <2>2, <1>2
  <2>4. (w - BlockSize) % BlockSize = 0
    <3>1. (BlockSize + (w - BlockSize)) % BlockSize = (w - BlockSize) % BlockSize
      BY <2>3, <1>3, AddMod
    <3>2. BlockSize + (w - BlockSize) = w  BY <1>2
    <3> QED BY <3>1, <3>2, <1>2
  <2>5. EncStart(o) = w - BlockSize  BY <1>5, <1>7
  <2>6. w - BlockSize < BlockSize => w - BlockSize = 0
    BY <2>3, <2>4, <1>3, MultipleGap
  <2>7. EncStart(o) + BlockSize = w  BY <2>5, <1>2
  <2> QED BY <2>3, <2>4, <2>5, <2>6, <2>7, <1>2, <1>4 DEF w, r
<1> QED BY <1>6, <1>7

LEMMA RoundedFacts ==
  ASSUME NEW n \in Nat
  PROVE  /\ RoundedUp(n) \in Nat /\ RoundedUp(n) >= n /\ RoundedUp(n) < n + BlockSize
         /\ RoundedUp(n) % BlockSize = 0
<1> USE BlockAssumption
<1>1. n % BlockSize \in Nat /\ n % BlockSize < BlockSize  BY DivMod
<1> DEFINE r == n % BlockSize
           w == n - r
<1>2. w \in Nat /\ w % BlockSize = 0  BY SubMod
<1>3. r \in Nat /\ r < BlockSize /\ n = w + r  BY <1>1
<1>4. RoundedUp(n) = IF r = 0 THEN n ELSE n + (BlockSize - r)  BY DEF RoundedUp
<1>5. (w + BlockSize) % BlockSize = 0  BY <1>2, BlockMod, AddMod
<1> HIDE DEF r, w
<1>6. CASE r = 0  BY <1>6, <1>2, <1>3, <1>4
<1>7. CASE r # 0
  <2>1. RoundedUp(n) = w + BlockSize  BY <1>7, <1>3, <1>4, <1>2
  <2> QED BY <2>1, <1>2, <1>3, <1>5, <1>7
<1> QED BY <1>6, <1>7

Known == EncStart(offset) < Len(body)

\* The response is the bytes of the file at Google up to here.
End == Minimum(EncEnd(RangeEnd) + 1, Len(body))

\* What of it has been received.
At == End - Len(stream)

\* Where the cipher is in the file.
Place ==
  /\ Slice(kept, DecryptedStart + decrypted, body)
  /\ DecryptedStart + decrypted + Len(kept) = At
  /\ decrypted % BlockSize = 0
  /\ kept = << >> => decrypted = 0

LEMMA DecryptedFacts ==
  ASSUME offset \in Nat
  PROVE  /\ DecryptedStart \in Nat /\ DecryptedStart <= offset
         /\ DecryptedStart % BlockSize = 0
         /\ EncStart(offset) < BlockSize => DecryptedStart = 0
         /\ EncStart(offset) >= BlockSize => DecryptedStart = EncStart(offset) + BlockSize
         /\ EncStart(offset) <= DecryptedStart
         /\ offset % BlockSize = 0 /\ offset # BlockSize => DecryptedStart = offset
<1> USE BlockAssumption
<1>1. 0 % BlockSize = 0 /\ BlockSize % BlockSize = 0  BY BlockMod
<1> DEFINE S == EncStart(offset)
<1>2. /\ S \in Nat /\ S <= offset
      /\ S < BlockSize => S = 0
      /\ S >= BlockSize => S + BlockSize = offset - (offset % BlockSize)
                            /\ S + BlockSize <= offset /\ (S + BlockSize) % BlockSize = 0
  BY StartFacts
<1>3. DecryptedStart = IF S = 0 THEN 0 ELSE S + BlockSize  BY DEF DecryptedStart
<1>4. ASSUME offset % BlockSize = 0, offset # BlockSize, S = 0  PROVE offset = 0
  <2>1. CASE offset < BlockSize
    <3>1. offset > 0 => 0 + BlockSize <= offset  BY <1>1, <1>4, MultipleGap
    <3> QED BY <3>1, <2>1
  <2>2. CASE offset >= BlockSize
    <3>1. S = offset - (offset % BlockSize) - BlockSize  BY <2>2 DEF EncStart
    <3> QED BY <3>1, <1>4
  <2> QED BY <2>1, <2>2
<1> HIDE DEF S
<1>5. CASE S < BlockSize
  BY <1>5, <1>1, <1>2, <1>3, <1>4 DEF S
<1>6. CASE S >= BlockSize
  <2>1. offset % BlockSize = 0 => S + BlockSize = offset  BY <1>6, <1>2
  <2> QED BY <2>1, <1>6, <1>2, <1>3 DEF S
<1> QED BY <1>2, <1>5, <1>6

-----------------------------------------------------------------------------
(* What Google has                                                          *)

LEMMA BodyFacts ==
  ASSUME TypeOK, StoredInOrder
  PROVE  /\ Len(file) \in Nat /\ Len(body) \in Nat /\ Len(body) % BlockSize = 0
         /\ Len(body) <= Len(file) + (BlockSize - (Len(file) % BlockSize))
         /\ message = "whole" =>
              Len(body) = Len(file) + (BlockSize - (Len(file) % BlockSize))
         /\ \A i \in 1..Len(body) : i <= Len(file) => body[i] = file[i] /\ body[i] # Pad
         /\ \A i \in 1..Len(body) : i > Len(file) => body[i] = Pad
<1>1. file \in Seq(Int) /\ body \in Seq(Int)  BY AllInt
<1>2. Len(file) \in Nat /\ Len(body) \in Nat  BY <1>1, LenProperties
<1> DEFINE p == Padding(file)
<1>3. p \in Seq(Int) /\ Len(p) = BlockSize - (Len(file) % BlockSize)
      /\ Len(p) \in Nat /\ \A i \in 1..Len(p) : p[i] = Pad
  BY <1>1, PaddingFacts, SMTT(30)
<1>4. Encrypted = file \o p  BY DEF Encrypted
<1> HIDE DEF p
<1>5. /\ Len(Encrypted) = Len(file) + Len(p) /\ Encrypted \in Seq(Int)
      /\ \A i \in 1..Len(file) + Len(p) :
           Encrypted[i] = IF i <= Len(file) THEN file[i] ELSE p[i - Len(file)]
  BY <1>1, <1>3, <1>4, ConcatProperties
<1>6. Len(body) <= Len(Encrypted) /\ body = First(Encrypted, Len(body))
  BY DEF StoredInOrder, IsPrefixOf
<1>7. \A i \in 1..Len(body) : body[i] = Encrypted[i]
  <2>1. First(Encrypted, Len(body)) = SubSeq(Encrypted, 0 + 1, 0 + Len(body))  BY DEF First
  <2>2. \A i \in 1..Len(body) : SubSeq(Encrypted, 0 + 1, 0 + Len(body))[i] = Encrypted[0 + i]
    BY <1>2, <1>5, <1>6, SubSeqFacts
  <2> QED BY <2>1, <2>2, <1>6, <1>2
<1>8. \A i \in 1..Len(file) : file[i] # Pad
  <2>1. file \in Seq(1..MaxSize)  BY DEF TypeOK
  <2>2. \A i \in 1..Len(file) : file[i] \in 1..MaxSize  BY <2>1, ElementOfSeq
  <2> QED BY <2>2, BlockAssumption DEF Pad
<1>9. ASSUME NEW i \in 1..Len(body)
      PROVE  /\ i <= Len(file) => body[i] = file[i] /\ body[i] # Pad
             /\ i > Len(file) => body[i] = Pad
  <2>1. i \in 1..Len(file) + Len(p) /\ body[i] = Encrypted[i]  BY <1>2, <1>3, <1>5, <1>6, <1>7
  <2>2. CASE i <= Len(file)  BY <2>1, <2>2, <1>5, <1>8, <1>2
  <2>3. CASE i > Len(file)
    <3>1. i - Len(file) \in 1..Len(p)  BY <2>1, <2>3, <1>2, <1>3
    <3>2. Encrypted[i] = p[i - Len(file)]  BY <2>1, <2>3, <1>5, <1>2
    <3>3. p[i - Len(file)] = Pad  BY <3>1, <1>3
    <3> QED BY <3>2, <3>3, <2>1, <2>3, <1>2
  <2> QED BY <2>2, <2>3, <1>2
<1>10. Len(body) % BlockSize = 0 /\ (message = "whole" => body = Encrypted)
  BY DEF StoredInOrder
<1> QED BY <1>2, <1>3, <1>5, <1>6, <1>9, <1>10

\* A part of what Google has is one of the file as far as that goes.
LEMMA SliceOfFile ==
  ASSUME TypeOK, StoredInOrder, NEW u \in Seq(Bytes), NEW a,
         Slice(u, a, body), a + Len(u) <= Len(file)
  PROVE  Slice(u, a, file)
<1>1. Len(u) \in Nat /\ a \in Nat /\ Len(file) \in Nat /\ Len(body) \in Nat
  BY LenProperties, BodyFacts DEF Slice
<1>2. \A i \in 1..Len(u) : /\ u[i] = body[a + i] /\ a + i \in 1..Len(body)
                           /\ a + i <= Len(file)
  BY <1>1 DEF Slice
<1>3. \A i \in 1..Len(u) : u[i] = file[a + i]  BY <1>2, BodyFacts
<1> QED BY <1>1, <1>3 DEF Slice

\* Whole blocks that are not the last are of the file.
LEMMA BlocksInFile ==
  ASSUME TypeOK, StoredInOrder, NEW n \in Nat, n % BlockSize = 0, n < Len(body)
  PROVE  n + BlockSize <= Len(body) /\ n <= Len(file) - (Len(file) % BlockSize) /\ n <= Len(file)
<1> USE BlockAssumption
<1>1. /\ Len(file) \in Nat /\ Len(body) \in Nat /\ Len(body) % BlockSize = 0
      /\ Len(body) <= Len(file) + (BlockSize - (Len(file) % BlockSize))
  BY BodyFacts
<1>2. n + BlockSize <= Len(body)  BY <1>1, MultipleGap
<1>3. Len(file) % BlockSize \in Nat  BY <1>1, DivMod
<1> QED BY <1>1, <1>2, <1>3

-----------------------------------------------------------------------------
(* Trimming                                                                 *)

LEMMA CopyTyped ==
  ASSUME got \in Seq(Bytes), size \in Nat, NEW data \in Seq(Bytes), Copy(data)
  PROVE  /\ got' \in Seq(Bytes) /\ Len(got') <= size
         /\ reading' \in {"raw", "fetch", "ended"}
         /\ reading' = "raw" => reading = "raw"
<1>1. got \o data \in Seq(Bytes)  BY ConcatProperties
<1>2. got' = AtMost(got \o data, size)  BY DEF Copy
<1>3. got' \in Seq(Bytes) /\ Len(got') <= size  BY <1>1, <1>2, AtMostFacts
<1> QED BY <1>3 DEF Copy

\* What is cut off at the two ends is never more than there is when something
\* is copied.
LEMMA TrimmedTyped ==
  ASSUME got \in Seq(Bytes), size \in Nat, offset \in Nat, decrypted \in Nat,
         reading # "raw", NEW out \in Seq(Bytes), Trimmed(out)
  PROVE  /\ (got' \in Seq(Bytes) /\ Len(got') <= size) \/ got' = got
         /\ decrypted' = decrypted + Len(out) /\ decrypted' \in Nat
         /\ reading' \in {"fetch", "ended", "crashed"}
         /\ got' \in Seq(Bytes)
<1>1. Len(out) \in Nat /\ DecryptedStart \in Nat /\ DecryptedStart <= offset
  BY LenProperties, DecryptedFacts
<1> DEFINE amount == decrypted + Len(out)
           bottom == trimBottom(amount, Len(out))
           top == trimTop(amount)
           length == Len(out) - bottom - top
           data == SubSeq(out, bottom + 1, bottom + length)
<1>2. /\ decrypted' = amount
      /\ IF length < 0 THEN reading' = "crashed" /\ UNCHANGED got ELSE Copy(data)
  BY DEF Trimmed
<1>3. amount \in Nat  BY <1>1
<1>4. bottom \in Nat  BY <1>1, <1>3 DEF trimBottom
<1>5. top \in Nat  BY <1>1, <1>3 DEF trimTop, RangeEnd
<1>6. length \in Int /\ bottom + length <= Len(out)  BY <1>1, <1>4, <1>5
<1>7. ASSUME length >= 0 PROVE data \in Seq(Bytes)
  <2> HIDE DEF bottom, length
  <2> QED BY <1>4, <1>6, <1>7, SubSeqFacts
<1> HIDE DEF amount, bottom, top, length, data
<1>8. CASE length < 0  BY <1>8, <1>2, <1>3 DEF amount
<1>9. CASE ~(length < 0)
  <2>1. Copy(data) /\ data \in Seq(Bytes)  BY <1>9, <1>2, <1>6, <1>7
  <2> QED BY <2>1, <1>2, <1>3, CopyTyped DEF amount
<1> QED BY <1>8, <1>9

\* The bytes that the caller has, and how many they are.
Delivered ==
  \/ got = << >> /\ decrypted = 0
  \/ Len(got) = DecryptedStart + decrypted - offset

LEMMA TrimmedInRange ==
  ASSUME TypeOK, got \in Seq(Bytes), size \in Nat, offset \in Nat, decrypted \in Nat,
         offset < Len(file), Slice(got, offset, file), Len(got) < size, Delivered,
         reading # "raw", NEW out \in Seq(Bytes),
         Slice(out, DecryptedStart + decrypted, file), Trimmed(out)
  PROVE  /\ Slice(got', offset, file)
         /\ reading' = "fetch" =>
              Len(got') < size /\ Len(got') = DecryptedStart + decrypted' - offset
         /\ reading' = "ended" =>
              Len(got') = size \/ DecryptedStart + decrypted' - offset <= Len(got')
         /\ DecryptedStart = offset => reading' # "crashed"
<1>1. /\ Len(out) \in Nat /\ DecryptedStart \in Nat /\ DecryptedStart <= offset
      /\ Len(got) \in Nat /\ Len(file) \in Nat
  <2>1. file \in Seq(Int)  BY AllInt
  <2> QED BY <2>1, LenProperties, DecryptedFacts
<1> DEFINE amount == decrypted + Len(out)
           bottom == trimBottom(amount, Len(out))
           top == trimTop(amount)
           length == Len(out) - bottom - top
           data == SubSeq(out, bottom + 1, bottom + length)
<1>2. /\ decrypted' = amount
      /\ IF length < 0 THEN reading' = "crashed" /\ UNCHANGED got ELSE Copy(data)
  BY DEF Trimmed
<1>3. amount \in Nat  BY <1>1
\* Nothing is cut off at the start but before the first byte that is asked for.
<1>4. /\ bottom \in Nat
      /\ DecryptedStart + decrypted + bottom = offset + Len(got)
  <2>1. CASE got = << >> /\ decrypted = 0
    <3>1. Len(got) = 0  BY <2>1
    <3>2. DecryptedStart + amount - Len(out) = DecryptedStart  BY <2>1, <1>1
    <3>3. bottom = IF DecryptedStart < offset
                   THEN Len(out) - (DecryptedStart + amount - offset) ELSE 0
      BY <3>2 DEF trimBottom
    <3>4. bottom = offset - DecryptedStart  BY <3>3, <2>1, <1>1
    <3> QED BY <3>1, <3>4, <2>1, <1>1
  <2>2. CASE Len(got) = DecryptedStart + decrypted - offset
    <3>1. DecryptedStart + amount - Len(out) = DecryptedStart + decrypted  BY <1>1
    <3>2. ~(DecryptedStart + decrypted < offset)  BY <2>2, <1>1
    <3>3. bottom = 0  BY <3>1, <3>2 DEF trimBottom
    <3> QED BY <3>3, <2>2, <1>1
  <2> QED BY <2>1, <2>2 DEF Delivered
<1>5. top = IF DecryptedStart + amount - 1 > offset + size
            THEN DecryptedStart + amount - 1 - (offset + size) ELSE 0
  BY DEF trimTop, RangeEnd
<1>6. length = (DecryptedStart + amount - top) - (offset + Len(got))  BY <1>1, <1>3, <1>4, <1>5, SMTT(30)
<1>7. top \in Nat /\ length \in Int /\ bottom + length <= Len(out)  BY <1>1, <1>3, <1>4, <1>5, SMTT(30)
<1> HIDE DEF amount, bottom, top, length, data
<1>8. CASE length < 0
  <2>1. top = 0  BY <1>1, <1>3, <1>5, <1>6, <1>8
  <2>2. DecryptedStart # offset
    <3>1. DecryptedStart + amount < offset + Len(got)  BY <2>1, <1>8, <1>6, <1>1, <1>3
    <3>2. amount = decrypted + Len(out)  BY DEF amount
    <3>3. CASE got = << >> /\ decrypted = 0  BY <3>1, <3>3, <1>1, <1>3
    <3>4. CASE Len(got) = DecryptedStart + decrypted - offset  BY <3>1, <3>2, <3>4, <1>1
    <3> QED BY <3>3, <3>4 DEF Delivered
  <2> QED BY <2>2, <1>8, <1>2
<1>9. CASE length \in Nat
  <2>1. Copy(data)  BY <1>9, <1>2
  <2>2. /\ data \in Seq(Bytes) /\ Len(data) = length
        /\ \A j \in 1..length : data[j] = out[bottom + j]
    <3>1. bottom \in Nat /\ length \in Nat /\ bottom + length <= Len(out)  BY <1>9, <1>7, <1>4
    <3>2. out \in Seq(Bytes)  OBVIOUS
    <3> QED BY <3>1, <3>2, SubSeqFacts DEF data
  <2>3. Slice(data, offset + Len(got), file)
    <3>1. \A j \in 1..length : /\ bottom + j \in 1..Len(out)
                               /\ (DecryptedStart + decrypted) + (bottom + j)
                                    = (offset + Len(got)) + j
      BY <1>9, <1>7, <1>4, <1>1
    <3>2. \A j \in 1..length : data[j] = file[(offset + Len(got)) + j]
      BY <3>1, <2>2, SMTT(30) DEF Slice
    <3>3. (offset + Len(got)) + length <= Len(file)
      <4>1. DecryptedStart + decrypted + Len(out) <= Len(file)  BY DEF Slice
      <4> QED BY <4>1, <1>1, <1>4, <1>7
    <3> QED BY <3>2, <3>3, <2>2, <1>1 DEF Slice
  <2> DEFINE all == got \o data
  <2>4. all \in Seq(Bytes) /\ Len(all) = Len(got) + length  BY <2>2, ConcatProperties
  <2>5. Slice(all, offset, file)  BY <2>2, <2>3, <1>1, SliceConcat
  <2>6. got' = AtMost(all, size)
        /\ reading' = IF data = << >> \/ Len(got') = size THEN "ended" ELSE "fetch"
    BY <2>1 DEF Copy
  <2> HIDE DEF all
  <2>7. /\ Len(got') = Minimum(Len(all), size) /\ got' \in Seq(Bytes)
        /\ Len(got') <= Len(all) /\ \A j \in 1..Len(got') : got'[j] = all[j]
    BY <2>4, <2>6, AtMostFacts
  <2>8. Len(got') \in Nat /\ Len(all) \in Nat  BY <2>7, <2>4, LenProperties
  <2>9. Slice(got', offset, file)
    <3>1. \A j \in 1..Len(got') : j \in 1..Len(all)  BY <2>7, <2>8
    <3>2. \A j \in 1..Len(got') : got'[j] = file[offset + j]
      BY <3>1, <2>7, <2>5 DEF Slice
    <3>3. offset + Len(all) <= Len(file)  BY <2>5 DEF Slice
    <3> QED BY <3>2, <3>3, <2>7, <2>8, <1>1 DEF Slice
  <2>10. Len(all) = (DecryptedStart + amount - top) - offset  BY <2>4, <1>6, <1>1, <1>3, <1>7
  <2>11. ASSUME reading' = "fetch"
         PROVE  Len(got') < size /\ Len(got') = DecryptedStart + decrypted' - offset
    <3>1. Len(got') # size  BY <2>11, <2>6
    <3>2. Len(got') = Len(all) /\ Len(all) < size  BY <3>1, <2>7, <2>8 DEF Minimum
    <3>3. top = 0  BY <3>2, <2>10, <1>5, <1>1, <1>3
    <3> QED BY <3>2, <3>3, <2>10, <1>2, <1>1, <1>3
  <2>12. ASSUME reading' = "ended"
         PROVE  Len(got') = size \/ DecryptedStart + decrypted' - offset <= Len(got')
    <3>1. CASE Len(all) >= size  BY <3>1, <2>7, <2>8 DEF Minimum
    <3>2. CASE Len(all) < size
      <4>1. Len(got') = Len(all)  BY <3>2, <2>7, <2>8 DEF Minimum
      <4>2. top = 0  BY <3>2, <2>10, <1>5, <1>1, <1>3
      <4> QED BY <4>1, <4>2, <2>10, <1>2, <1>1, <1>3
    <3> QED BY <3>1, <3>2, <2>8
  <2>13. reading' # "crashed"  BY <2>6
  <2> QED BY <2>9, <2>11, <2>12, <2>13
<1> QED BY <1>7, <1>8, <1>9

-----------------------------------------------------------------------------
(* The invariant                                                            *)

Idle ==
  reading = "idle" =>
    iv = << >> /\ counted = 0 /\ kept = << >> /\ decrypted = 0 /\ got = << >>

Asked == reading # "idle" => pc = "stored" /\ offset < Len(file) /\ size > 0

Passing == reading = "raw" => counted = 0

\* What has not been received are the bytes of the file at Google from At on.
Receiving ==
  reading # "idle" /\ Known => EncStart(offset) <= At /\ Slice(stream, At, body)

\* The vector is what has been received.
Vector ==
  reading \in {"iv", "extra"} =>
    /\ EncStart(offset) >= BlockSize
    /\ kept = << >> /\ decrypted = 0 /\ got = << >>
    /\ Known => Slice(iv, EncStart(offset), body) /\ EncStart(offset) + Len(iv) = At
    /\ reading = "iv" => counted < BlockSize /\ Len(iv) <= counted
                         /\ (counted > 0 => iv # << >>)
    /\ reading = "extra" => iv # << >>

\* The bytes that were counted twice are fewer than a block.
Counting ==
  reading \in {"iv", "extra", "fetch"} /\ Known =>
    /\ At - EncStart(offset) <= counted
    /\ counted < At - EncStart(offset) + BlockSize

InPlace == Known /\ Aligned

\* The cipher has what was received, and the caller what the cipher gave out.
Decrypting ==
  reading = "fetch" /\ InPlace =>
    Place /\ Len(got) < size /\ Delivered /\ Slice(got, offset, file)

Gotten == Readable /\ reading # "idle" => Slice(got, offset, file)

RangeInv ==
  /\ Inv /\ RangeTypeOK
  /\ Idle /\ Asked /\ Passing /\ Receiving /\ Vector /\ Counting /\ Decrypting
  /\ Gotten /\ ReadWhole /\ BlocksSafe

LEMMA RangeInitInv == RangeInit => RangeInv
<1> SUFFICES ASSUME RangeInit PROVE RangeInv
  OBVIOUS
<1>1. Inv  BY InvInit DEF RangeInit
<1>2. << >> \in Seq(Bytes) /\ Len(<< >>) = 0 /\ 0 <= BlockSize
  BY BlockAssumption
<1>3. RangeTypeOK  BY <1>2 DEF RangeInit, RangeTypeOK, Bytes
<1>4. reading = "idle" /\ counted = 0  BY DEF RangeInit
<1> QED
  BY <1>1, <1>3, <1>4 DEF RangeInit, RangeInv, Idle, Asked, Passing, Receiving, Vector,
     Counting, Decrypting, Gotten, ReadWhole, BlocksSafe, Readable

\* What received parts leave.
LEMMA StreamStep ==
  ASSUME RangeInv, reading # "idle", NEW n \in 1..Len(stream),
         stream' = After(stream, n), UNCHANGED <<vars, offset, size>>
  PROVE  /\ stream' \in Seq(Bytes) /\ First(stream, n) \in Seq(Bytes)
         /\ Len(First(stream, n)) = n
         /\ Known' = Known /\ End' = End /\ At' = At + n /\ At \in Int
         /\ Known => /\ EncStart(offset) <= At'
                     /\ Slice(stream', At', body) /\ Slice(First(stream, n), At, body)
<1>1. stream \in Seq(Bytes) /\ Len(stream) \in Nat /\ n \in 0..Len(stream)
  BY LenProperties DEF RangeInv, RangeTypeOK, Bytes
<1>2. /\ First(stream, n) \in Seq(Bytes) /\ Len(First(stream, n)) = n
      /\ stream' \in Seq(Bytes) /\ Len(stream') = Len(stream) - n
  BY <1>1, Cut
<1>3. Known' = Known /\ End' = End
  BY DEF Known, End, EncStart, EncEnd, RoundedUp, RangeEnd, Minimum, vars
<1>4. End \in Int
  <2>1. Len(body) \in Nat /\ offset + size \in Nat
    BY BodyFacts DEF RangeInv, RangeTypeOK, Inv, UploadInv
  <2>2. RoundedUp(offset + size) \in Nat  BY <2>1, RoundedFacts
  <2> QED BY <2>1, <2>2 DEF End, Minimum, EncEnd, RangeEnd
<1>5. At' = At + n /\ At \in Int  BY <1>1, <1>2, <1>3, <1>4 DEF At
<1>6. ASSUME Known
      PROVE  /\ EncStart(offset) <= At'
             /\ Slice(stream', At', body) /\ Slice(First(stream, n), At, body)
  <2>1. Slice(stream, At, body) /\ EncStart(offset) <= At  BY <1>6 DEF RangeInv, Receiving
  <2>2. Len(body) \in Nat  BY BodyFacts DEF RangeInv, Inv, UploadInv
  <2>3. Slice(First(stream, n), At, body) /\ Slice(After(stream, n), At + n, body)
    BY <1>1, <2>1, <2>2, SliceCut
  <2>4. EncStart(offset) \in Nat  BY StartFacts DEF RangeInv, RangeTypeOK
  <2> QED BY <2>1, <2>3, <2>4, <1>5
<1> QED BY <1>2, <1>3, <1>5, <1>6

\* What the invariant says of the numbers.
LEMMA Numbers ==
  ASSUME RangeInv
  PROVE  /\ offset \in Nat /\ size \in Nat /\ counted \in Nat /\ decrypted \in Nat
         /\ Len(file) \in Nat /\ Len(body) \in Nat /\ EncStart(offset) \in Nat
         /\ DecryptedStart \in Nat /\ DecryptedStart <= offset
<1>1. offset \in Nat /\ size \in Nat /\ counted \in Nat /\ decrypted \in Nat
  BY DEF RangeInv, RangeTypeOK
<1>2. Len(file) \in Nat /\ Len(body) \in Nat
  BY BodyFacts DEF RangeInv, Inv, UploadInv
<1> QED BY <1>1, <1>2, StartFacts, DecryptedFacts

LEMMA EndFacts ==
  ASSUME RangeInv
  PROVE  \E e \in Nat : /\ e >= offset + size /\ e % BlockSize = 0
                        /\ End = IF e + 1 < Len(body) THEN e + 1 ELSE Len(body)
<1>1. offset + size \in Nat  BY Numbers
<1>2. /\ RoundedUp(offset + size) \in Nat /\ RoundedUp(offset + size) >= offset + size
      /\ RoundedUp(offset + size) % BlockSize = 0
  BY <1>1, RoundedFacts
<1>3. EncEnd(RangeEnd) = RoundedUp(offset + size)  BY DEF EncEnd, RangeEnd
<1> QED BY <1>2, <1>3 DEF End, Minimum

\* At the end of the response the cipher holds at most a block back, and so all
\* that was asked for or the last block of the file.
LEMMA WholeEnd ==
  ASSUME RangeInv, message = "whole", NEW d \in Nat, NEW k \in Nat, NEW l \in Nat,
         DecryptedStart + d + k = End, k <= BlockSize, d % BlockSize = 0,
         l = size \/ DecryptedStart + d - offset <= l
  PROVE  l >= Minimum(size, Complete(file) - offset)
<1> USE BlockAssumption
<1>1. Len(file) % BlockSize \in Nat  BY Numbers, DivMod
<1>2. Complete(file) = Len(file) - (Len(file) % BlockSize)  BY DEF Complete
<1> DEFINE c == Complete(file)
<1>3. PICK q \in Nat : q = DecryptedStart + d /\ q % BlockSize = 0
  <2>1. DecryptedStart \in Nat /\ DecryptedStart % BlockSize = 0
    BY Numbers, DecryptedFacts
  <2>2. (DecryptedStart + d) % BlockSize = d % BlockSize  BY <2>1, AddMod
  <2> QED BY <2>1, <2>2
<1>4. PICK e \in Nat : /\ e >= offset + size /\ e % BlockSize = 0
                      /\ End = IF e + 1 < Len(body) THEN e + 1 ELSE Len(body)
  BY EndFacts
<1>5. q + k = End /\ (l = size \/ q - offset <= l)
  <2>1. End \in Nat  BY <1>4, Numbers
  <2>2. q + k = End  BY <2>1, <1>3, Numbers
  <2>3. l = size \/ q - offset <= l  BY <1>3, Numbers, SMTT(30)
  <2> QED BY <2>2, <2>3
<1>6. Len(file) % BlockSize <= Len(file)
  <2>1. file \in Seq(Int)  BY AllInt DEF RangeInv, Inv
  <2>2. Complete(file) \in Nat  BY <2>1, CompleteFacts, LenProperties
  <2> QED BY <2>2, <1>1, <1>2, Numbers
<1>7. c \in Nat  BY <1>1, <1>2, <1>6, Numbers
<1>8. ASSUME q >= c \/ q >= offset + size  PROVE l >= Minimum(size, c - offset)
  <2> HIDE DEF c
  <2>1. offset \in Nat /\ size \in Nat  BY Numbers
  <2>2. l = size \/ l >= c - offset \/ l >= size  BY <1>3, <1>5, <1>7, <1>8, <2>1
  <2> QED BY <2>1, <2>2, <1>7 DEF Minimum
<1>9. CASE End = Len(body)
  <2>1. Len(body) = Len(file) + (BlockSize - (Len(file) % BlockSize))
    BY BodyFacts DEF RangeInv, Inv, UploadInv
  <2>2. Len(body) = c + BlockSize  BY <2>1, <1>1, <1>2, Numbers
  <2> HIDE DEF c
  <2>3. q >= c  BY <1>9, <1>5, <2>2, <1>3, <1>7
  <2> QED BY <2>3, <1>8 DEF c
<1>10. CASE End = e + 1
  <2>1. q + k = e + 1  BY <1>5, <1>10
  <2>2. q < e => q + BlockSize <= e  BY <1>3, <1>4, MultipleGap
  <2>3. q >= e  BY <2>1, <2>2, <1>3, <1>4
  <2>4. q >= offset + size
    <3>1. offset + size \in Nat  BY Numbers
    <3> QED BY <3>1, <2>3, <1>3, <1>4
  <2> QED BY <2>4, <1>8
<1> QED BY <1>4, <1>9, <1>10

\* The steps of Transfer leave an idle read alone.
LEMMA IdleStep ==
  ASSUME RangeInv, reading = "idle", Next, UNCHANGED rangeVars
  PROVE  RangeInv'
<1>1. Inv'  BY InvNext DEF RangeInv
<1>2. RangeTypeOK'  BY DEF RangeInv, RangeTypeOK, rangeVars
<1>3. Idle'  BY DEF RangeInv, Idle, rangeVars
<1>4. reading' = "idle"  BY DEF rangeVars
<1> QED
  BY <1>1, <1>2, <1>3, <1>4 DEF RangeInv, Asked, Passing, Receiving, Vector, Counting,
     Decrypting, Gotten, ReadWhole, BlocksSafe

LEMMA InvStays ==
  ASSUME Inv, UNCHANGED vars
  PROVE  Inv'
  BY InvNext

\* The request for the blocks.
LEMMA StartStep ==
  ASSUME RangeInv, ReadStart
  PROVE  RangeInv'
<1> USE BlockAssumption
<1>1. PICK o \in 0..Len(file) - 1, n \in 1..MaxSize :
        /\ offset' = o /\ size' = n
        /\ stream' = Response(EncStart(o), EncEnd(o + n))
        /\ reading' \in {"raw", IF EncStart(o) < BlockSize THEN "fetch" ELSE "iv"}
  BY DEF ReadStart
<1>2. reading = "idle" /\ pc = "stored" /\ UNCHANGED <<vars, iv, counted, kept, decrypted, got>>
  BY DEF ReadStart
<1>3. iv = << >> /\ counted = 0 /\ kept = << >> /\ decrypted = 0 /\ got = << >>
  BY <1>2 DEF RangeInv, Idle
<1>4. o \in Nat /\ n \in Nat /\ n > 0 /\ o < Len(file) /\ o + n \in Nat
  BY Numbers
<1>5. Inv'  BY <1>2, InvStays DEF RangeInv
<1> DEFINE S == EncStart(o)
           e == EncEnd(o + n)
<1>6. /\ S \in Nat /\ S <= o /\ (S < BlockSize => S = 0)
      /\ e \in Nat /\ e >= o + n
  BY <1>4, StartFacts, RoundedFacts DEF EncEnd
<1>7. file' = file /\ body' = body /\ pc' = pc /\ message' = message  BY <1>2 DEF vars
<1>8. Known' = (S < Len(body)) /\ EncStart(offset)' = S  BY <1>1, <1>7 DEF Known, EncStart
<1>9. End' = Minimum(e + 1, Len(body))
  BY <1>1, <1>7 DEF End, RangeEnd, Minimum, EncEnd, RoundedUp
<1> HIDE DEF S, e
<1>10. body \in Seq(Bytes)
  <2>1. body \in Seq(0..MaxSize) /\ 0..MaxSize \subseteq Bytes  BY DEF RangeInv, Inv, TypeOK, Bytes
  <2> QED BY <2>1, SeqSubset
<1>11. ASSUME S < Len(body)
       PROVE  stream' \in Seq(Bytes) /\ Slice(stream', S, body) /\ At' = S
  <2> DEFINE b == AtMost(body, e + 1)
  <2>1. /\ b \in Seq(Bytes) /\ Len(b) = Minimum(Len(body), e + 1)
        /\ \A j \in 1..Len(b) : b[j] = body[j]
    BY <1>10, <1>6, AtMostFacts
  <2>2. stream' = After(b, S)  BY <1>1, <1>11 DEF Response, S, e
  <2> HIDE DEF b
  <2>3. Len(b) \in Nat /\ Len(b) <= Len(body) /\ S <= Len(b) /\ Len(b) = End'
    BY <2>1, <1>6, <1>9, <1>4, <1>11, Numbers, SMTT(30) DEF Minimum
  <2>4. Slice(b, 0, body)  BY <2>1, <2>3 DEF Slice
  <2>5. S \in 0..Len(b) /\ Len(body) \in Nat  BY <2>3, <1>6, Numbers
  <2>6. After(b, S) \in Seq(Bytes) /\ Len(After(b, S)) = Len(b) - S
    BY <2>1, <2>5, Cut
  <2>7. Slice(After(b, S), 0 + S, body)  BY <2>1, <2>4, <2>5, SliceCut
  <2>8. At' = S
    <3>1. Len(stream') = Len(b) - S  BY <2>2, <2>6
    <3>2. At' = End' - Len(stream')  BY DEF At
    <3> QED BY <3>1, <3>2, <2>3, <1>6
  <2> QED BY <2>2, <2>6, <2>7, <2>8, <1>6
<1>12. ASSUME ~(S < Len(body)) PROVE stream' \in Seq(Bytes)
  <2>1. stream' = [i \in 1..2 * BlockSize |-> Junk]
    BY <1>1, <1>12 DEF Response, Refusal, S
  <2>2. 2 * BlockSize \in Nat /\ Junk \in Bytes  BY DEF Junk, Bytes
  <2>3. [i \in 1..2 * BlockSize |-> Junk] \in [1..2 * BlockSize -> Bytes]  BY <2>2
  <2> QED BY <2>1, <2>2, <2>3, SeqDef
<1>13. stream' \in Seq(Bytes)  BY <1>11, <1>12
<1>14. reading' \in {"raw", "fetch", "iv"} /\ (reading' = "iv" => S >= BlockSize)
       /\ (reading' = "fetch" => S = 0)
  BY <1>1, <1>6 DEF S
<1>15. RangeTypeOK'
  <2>1. << >> \in Seq(Bytes) /\ Len(<< >>) = 0  OBVIOUS
  <2>2. iv' = << >> /\ counted' = 0 /\ kept' = << >> /\ decrypted' = 0 /\ got' = << >>
    BY <1>2, <1>3
  <2> QED BY <2>1, <2>2, <1>1, <1>4, <1>13, <1>14 DEF RangeTypeOK, Bytes
<1>16. Idle' /\ Asked' /\ Passing'
  BY <1>1, <1>2, <1>3, <1>4, <1>7, <1>14 DEF Idle, Asked, Passing
<1>17. Receiving'
  <2> SUFFICES ASSUME Known' PROVE EncStart(offset)' <= At' /\ Slice(stream', At', body')
    BY DEF Receiving, Slice
  <2>1. S < Len(body)  BY <1>8
  <2>2. At' = S /\ Slice(stream', S, body)  BY <2>1, <1>11
  <2>3. EncStart(offset)' <= At'  BY <2>2, <1>8, <1>6
  <2> QED BY <2>2, <2>3, <1>7
<1>18. Counting'
  <2> SUFFICES ASSUME Known'
               PROVE  /\ At' - EncStart(offset)' <= counted'
                      /\ counted' < At' - EncStart(offset)' + BlockSize
    BY DEF Counting
  <2>1. S < Len(body)  BY <1>8
  <2>2. At' = S  BY <2>1, <1>11
  <2>3. counted' = 0 /\ EncStart(offset)' = S  BY <1>2, <1>3, <1>8
  <2>4. At' - EncStart(offset)' = 0  BY <2>2, <2>3, <1>6
  <2> QED BY <2>3, <2>4
<1>19. Vector'
  <2> SUFFICES ASSUME reading' \in {"iv", "extra"} PROVE Vector'  BY DEF Vector
  <2>1. reading' = "iv" /\ S >= BlockSize  BY <1>14
  <2>2. iv' = << >> /\ counted' = 0 /\ kept' = << >> /\ decrypted' = 0 /\ got' = << >>
        /\ Len(<< >>) = 0
    BY <1>2, <1>3
  <2>3. ASSUME S < Len(body) PROVE Slice(iv', S, body') /\ S + Len(iv') = At'
    <3>1. At' = S /\ S + 0 = S  BY <2>3, <1>11, <1>6
    <3>2. Slice(<< >>, S, body)  BY <2>3, <2>2, <1>6, Numbers DEF Slice
    <3> QED BY <3>1, <3>2, <2>2, <1>7
  <2>4. EncStart(offset)' >= BlockSize /\ EncStart(offset)' = S  BY <2>1, <1>8
  <2>5. Known' => Slice(iv', EncStart(offset)', body') /\ EncStart(offset)' + Len(iv') = At'
    BY <2>3, <2>4, <1>8
  <2>6. counted' < BlockSize /\ Len(iv') <= counted'  BY <2>2
  <2> QED BY <2>1, <2>2, <2>4, <2>5, <2>6 DEF Vector, Slice
<1>20. Decrypting'
  <2> SUFFICES ASSUME reading' = "fetch", InPlace'
               PROVE  Place' /\ Len(got)' < size' /\ Delivered' /\ Slice(got', offset', file')
    BY DEF Decrypting, Slice
  <2>1. Known' /\ S < Len(body) /\ S = 0  BY <1>8, <1>14 DEF InPlace
  <2>2. DecryptedStart' = 0  BY <2>1, <1>8 DEF DecryptedStart
  <2>3. At' = 0  BY <2>1, <1>11
  <2>4. kept' = << >> /\ decrypted' = 0 /\ got' = << >> /\ Len(<< >>) = 0  BY <1>2, <1>3
  <2>5. Slice(<< >>, 0, body')  BY <1>7, Numbers DEF Slice
  <2>6. Place'  BY <2>2, <2>3, <2>4, <2>5, BlockMod DEF Place, Slice
  <2>7. Slice(<< >>, o, file)  BY <2>4, <1>4, Numbers DEF Slice
  <2> QED BY <2>4, <2>6, <2>7, <1>1, <1>4, <1>7 DEF Delivered
<1>21. Gotten' /\ ReadWhole' /\ BlocksSafe'
  BY <1>2, <1>3, <1>14 DEF Gotten, ReadWhole, BlocksSafe, Readable
<1> QED BY <1>5, <1>15, <1>16, <1>17, <1>18, <1>19, <1>20, <1>21 DEF RangeInv

\* What is left unchanged by every step of a read.
LEMMA ReadStays ==
  ASSUME RangeInv, UNCHANGED <<vars, offset, size>>
  PROVE  /\ Inv' /\ file' = file /\ body' = body /\ pc' = pc /\ message' = message
         /\ offset' = offset /\ size' = size
         /\ Known' = Known /\ End' = End /\ EncStart(offset)' = EncStart(offset)
         /\ DecryptedStart' = DecryptedStart
<1>1. Inv'  BY InvStays DEF RangeInv
<1> QED
  BY <1>1 DEF Known, End, EncStart, DecryptedStart, EncEnd, RoundedUp, RangeEnd, Minimum, vars

\* A part of the vector.
LEMMA VectorStep ==
  ASSUME RangeInv, ReadVector
  PROVE  RangeInv'
<1> USE BlockAssumption
<1>1. PICK n \in 1..Len(stream) :
        n <= ReadMax /\ stream' = After(stream, n) /\ iv' = iv \o First(stream, n)
  BY DEF ReadVector
<1>2. /\ reading = "iv" /\ counted' = counted + Len(iv')
      /\ reading' = IF counted' < BlockSize THEN "iv" ELSE "extra"
      /\ UNCHANGED <<vars, offset, size, kept, decrypted, got>>
  BY DEF ReadVector
<1>3. /\ stream' \in Seq(Bytes) /\ First(stream, n) \in Seq(Bytes)
      /\ Len(First(stream, n)) = n /\ At' = At + n /\ At \in Int
      /\ Known => /\ EncStart(offset) <= At'
                  /\ Slice(stream', At', body) /\ Slice(First(stream, n), At, body)
  BY <1>1, <1>2, StreamStep
<1>4. /\ Inv' /\ file' = file /\ body' = body /\ pc' = pc
      /\ Known' = Known /\ EncStart(offset)' = EncStart(offset)
  BY <1>2, ReadStays
<1>5. /\ EncStart(offset) >= BlockSize /\ kept = << >> /\ decrypted = 0 /\ got = << >>
      /\ Known => Slice(iv, EncStart(offset), body) /\ EncStart(offset) + Len(iv) = At
      /\ counted < BlockSize /\ Len(iv) <= counted
  BY <1>2 DEF RangeInv, Vector
<1>6. iv \in Seq(Bytes) /\ Len(iv) \in Nat /\ n \in Nat /\ n > 0 /\ Len(<< >>) = 0
  BY <1>1, LenProperties DEF RangeInv, RangeTypeOK, Bytes
<1>7. iv' \in Seq(Bytes) /\ Len(iv') = Len(iv) + n  BY <1>1, <1>3, <1>6, ConcatProperties
<1>8. counted' \in Nat /\ Len(iv') <= counted' /\ iv' # << >>
  BY <1>2, <1>6, <1>7, Numbers, SMTT(30)
<1>9. ASSUME Known
      PROVE  /\ Slice(iv', EncStart(offset), body) /\ EncStart(offset) + Len(iv') = At'
             /\ At' - EncStart(offset) <= counted'
             /\ counted' < At' - EncStart(offset) + BlockSize
  <2>1. Slice(iv', EncStart(offset), body)
    <3>1. Slice(First(stream, n), EncStart(offset) + Len(iv), body)  BY <1>3, <1>5, <1>9
    <3> QED BY <3>1, <1>1, <1>3, <1>5, <1>6, <1>9, Numbers, SliceConcat
  <2>2. EncStart(offset) + Len(iv') = At'
    <3>1. EncStart(offset) + Len(iv) = At /\ EncStart(offset) \in Nat  BY <1>5, <1>9, Numbers
    <3>2. At' = At + n /\ Len(iv') = Len(iv) + n  BY <1>3, <1>7
    <3> QED BY <3>1, <3>2, <1>6
  <2>3. At' - EncStart(offset) = Len(iv')  BY <2>2, <1>6, <1>7, Numbers
  <2> QED BY <2>1, <2>2, <2>3, <1>2, <1>5, <1>6, <1>7, <1>8, Numbers
<1>10. RangeTypeOK'  BY <1>2, <1>3, <1>7, <1>8 DEF RangeInv, RangeTypeOK, Bytes
<1>11. Idle' /\ Asked' /\ Passing'  BY <1>2, <1>4 DEF Idle, Asked, Passing, RangeInv
<1>12. Receiving'  BY <1>3, <1>4 DEF Receiving, Slice
<1>13. Counting'  BY <1>4, <1>9 DEF Counting
<1>14. Vector'
  <2>1. Known' => Slice(iv', EncStart(offset)', body') /\ EncStart(offset)' + Len(iv') = At'
    BY <1>4, <1>9
  <2>2. kept' = << >> /\ decrypted' = 0 /\ got' = << >>  BY <1>2, <1>5
  <2> QED BY <2>1, <2>2, <1>2, <1>4, <1>5, <1>8 DEF Vector, Slice
<1>15. Slice(got', offset', file')
  <2>1. offset < Len(file)  BY <1>2 DEF RangeInv, Asked
  <2>2. Slice(<< >>, offset, file)  BY <2>1, <1>6, Numbers DEF Slice
  <2> QED BY <2>2, <1>2, <1>4, <1>5
<1>16. Gotten'  BY <1>15 DEF Gotten, Slice
<1>17. Decrypting' /\ ReadWhole' /\ BlocksSafe'
  BY <1>2 DEF Decrypting, ReadWhole, BlocksSafe
<1> QED
  BY <1>4, <1>10, <1>11, <1>12, <1>13, <1>14, <1>16, <1>17 DEF RangeInv

\* What the cipher takes in is given out but for a block, and trimmed.
GivesOut(taken) ==
  LET given == Len(taken) - Kept(taken) IN
  /\ kept' = After(taken, given)
  /\ \/ given = 0 /\ reading' = "fetch" /\ UNCHANGED <<decrypted, got>>
     \/ Trimmed(First(taken, given))

LEMMA CipherTyped ==
  ASSUME RangeInv, reading \in {"extra", "fetch"}, NEW taken \in Seq(Bytes), GivesOut(taken)
  PROVE  /\ kept' \in Seq(Bytes) /\ Len(kept') <= BlockSize
         /\ got' \in Seq(Bytes) /\ Len(got') <= size /\ decrypted' \in Nat
         /\ reading' \in {"fetch", "ended", "crashed"}
<1>1. taken \in Seq(Int)
  <2>1. Bytes \subseteq Int  BY BlockAssumption DEF Bytes
  <2> QED BY <2>1, SeqSubset
<1>2. Len(taken) - Kept(taken) \in 0..Len(taken) /\ Kept(taken) \in 0..BlockSize
  BY <1>1, KeptFacts
<1>3. PICK given \in 0..Len(taken) : given = Len(taken) - Kept(taken)  BY <1>2
<1>4. /\ kept' = After(taken, given)
      /\ \/ given = 0 /\ reading' = "fetch" /\ UNCHANGED <<decrypted, got>>
         \/ Trimmed(First(taken, given))
  BY <1>3 DEF GivesOut
<1>5. /\ First(taken, given) \in Seq(Bytes) /\ kept' \in Seq(Bytes)
      /\ Len(kept') = Len(taken) - given
  BY <1>3, <1>4, Cut
<1>6. Len(kept') <= BlockSize  BY <1>2, <1>3, <1>5, BlockAssumption, LenProperties
<1>7. got \in Seq(Bytes) /\ Len(got) <= size  BY DEF RangeInv, RangeTypeOK, Bytes
<1>8. CASE Trimmed(First(taken, given))
  <2>1. /\ Len(got') <= size \/ got' = got
        /\ decrypted' \in Nat /\ got' \in Seq(Bytes)
        /\ reading' \in {"fetch", "ended", "crashed"}
    BY <1>5, <1>7, <1>8, Numbers, TrimmedTyped
  <2> QED BY <2>1, <1>5, <1>6, <1>7
<1>9. CASE given = 0 /\ reading' = "fetch" /\ UNCHANGED <<decrypted, got>>
  BY <1>5, <1>6, <1>7, <1>9, Numbers
<1> QED BY <1>4, <1>8, <1>9

LEMMA CipherInPlace ==
  ASSUME RangeInv, reading \in {"extra", "fetch"}, NEW taken \in Seq(Bytes), GivesOut(taken),
         UNCHANGED <<vars, offset, size>>,
         Slice(taken, DecryptedStart + decrypted, body),
         taken = << >> => decrypted = 0, decrypted % BlockSize = 0,
         Slice(got, offset, file), Len(got) < size, Delivered
  PROVE  /\ Slice(kept', DecryptedStart + decrypted', body)
         /\ decrypted' + Len(kept') = decrypted + Len(taken)
         /\ decrypted' % BlockSize = 0
         /\ kept' = << >> => decrypted' = 0
         /\ Slice(got', offset, file)
         /\ reading' = "fetch" => Len(got') < size /\ Delivered'
         /\ reading' = "ended" =>
              Len(got') = size \/ DecryptedStart + decrypted' - offset <= Len(got')
         /\ DecryptedStart = offset => reading' # "crashed"
<1> USE BlockAssumption
<1>1. taken \in Seq(Int)
  <2>1. Bytes \subseteq Int  BY DEF Bytes
  <2> QED BY <2>1, SeqSubset
<1>2. /\ Len(taken) - Kept(taken) \in 0..Len(taken) /\ Kept(taken) \in 0..BlockSize
      /\ (Len(taken) - Kept(taken)) % BlockSize = 0
      /\ Kept(taken) = 0 => taken = << >>
  BY <1>1, KeptFacts
<1>3. PICK given \in 0..Len(taken) : given = Len(taken) - Kept(taken)  BY <1>2
<1>4. /\ kept' = After(taken, given)
      /\ \/ given = 0 /\ reading' = "fetch" /\ UNCHANGED <<decrypted, got>>
         \/ Trimmed(First(taken, given))
  BY <1>3 DEF GivesOut
<1> DEFINE out == First(taken, given)
<1>5. /\ out \in Seq(Bytes) /\ Len(out) = given /\ kept' \in Seq(Bytes)
      /\ Len(kept') = Len(taken) - given
  <2>1. taken \in Seq(Bytes)  OBVIOUS
  <2>2. /\ out \in Seq(Bytes) /\ Len(out) = given /\ After(taken, given) \in Seq(Bytes)
        /\ Len(After(taken, given)) = Len(taken) - given
    BY <1>3, <2>1, Cut, ZenonT(30)
  <2> QED BY <1>4, <2>2, Zenon
<1>6. Len(taken) \in Nat /\ Len(kept') \in Nat /\ given \in Nat  BY <1>5, LenProperties
<1>7. decrypted' = decrypted + given
  <2>1. CASE Trimmed(out)  BY <2>1, <1>5 DEF Trimmed
  <2>2. CASE given = 0 /\ UNCHANGED decrypted  BY <2>2, Numbers
  <2> QED BY <2>1, <2>2, <1>4
<1>8. decrypted' % BlockSize = 0
  <2>1. given % BlockSize = 0  BY <1>2, <1>3
  <2>2. (decrypted + given) % BlockSize = given % BlockSize  BY <1>6, Numbers, AddMod, SMTT(30)
  <2> QED BY <2>1, <2>2, <1>7
<1>9. kept' = << >> => decrypted' = 0
  <2> SUFFICES ASSUME kept' = << >> PROVE decrypted' = 0
    OBVIOUS
  <2>1. Len(kept') = 0  OBVIOUS
  <2>2. Len(taken) = given  BY <2>1, <1>5, <1>6
  <2>3. Kept(taken) = 0  BY <2>2, <1>2, <1>3, <1>6, SMTT(30)
  <2>4. taken = << >> /\ Len(<< >>) = 0  BY <2>3, <1>2
  <2> QED BY <2>2, <2>4, <1>7
<1> DEFINE q == DecryptedStart + decrypted
<1>10. q \in Nat /\ q % BlockSize = 0
  <2>1. DecryptedStart \in Nat /\ DecryptedStart % BlockSize = 0 /\ decrypted \in Nat
    BY Numbers, DecryptedFacts
  <2>2. (DecryptedStart + decrypted) % BlockSize = decrypted % BlockSize  BY <2>1, AddMod
  <2> QED BY <2>1, <2>2
<1>11. Slice(out, q, body) /\ Slice(kept', q + given, body)
  BY <1>3, <1>4, Numbers, SliceCut
<1>12. Slice(kept', DecryptedStart + decrypted', body)
  <2>1. q + given = DecryptedStart + decrypted'  BY <1>6, <1>7, Numbers
  <2> QED BY <2>1, <1>11
<1>13. decrypted' + Len(kept') = decrypted + Len(taken)  BY <1>5, <1>6, <1>7, Numbers, SMTT(30)
\* What is given out is not the last block, so it is of the file.
<1>14. Slice(out, q, file)
  <2>1. TypeOK /\ StoredInOrder  BY DEF RangeInv, Inv, UploadInv
  <2> HIDE DEF q
  <2>2. CASE given = 0
    <3>1. q <= Len(file)
      <4>1. CASE taken = << >>
        <5>1. q = DecryptedStart  BY <4>1, Numbers DEF q
        <5>2. offset + Len(got) <= Len(file) /\ Len(got) \in Nat
          BY LenProperties DEF Slice, RangeInv, RangeTypeOK
        <5> QED BY <5>1, <5>2, Numbers
      <4>2. CASE taken # << >>
        <5>1. Len(taken) > 0  BY <4>2, <1>6, <1>2
        <5>2. q + Len(taken) <= Len(body)  BY DEF Slice, q
        <5>3. q < Len(body)  BY <5>1, <5>2, <1>6, <1>10, Numbers
        <5> QED BY <5>3, <2>1, <1>10, BlocksInFile
      <4> QED BY <4>1, <4>2
    <3>2. q + Len(out) <= Len(file)  BY <3>1, <2>2, <1>5, <1>10
    <3> QED BY <3>2, <2>1, <1>5, <1>11, SliceOfFile
  <2>3. CASE given # 0
    <3>1. (q + given) % BlockSize = 0 /\ q + given \in Nat
      <4>1. given % BlockSize = 0  BY <1>2, <1>3
      <4>2. (q + given) % BlockSize = given % BlockSize  BY <1>6, <1>10, AddMod
      <4> QED BY <4>1, <4>2, <1>6, <1>10
    <3>2. taken # << >>  BY <2>3, <1>3
    <3>3. given < Len(taken)  BY <3>2, <1>2, <1>3, <1>6
    <3>4. q + Len(taken) <= Len(body)  BY DEF Slice, q
    <3>5. q + given < Len(body)  BY <3>3, <3>4, <1>6, <1>10, Numbers
    <3>6. q + given <= Len(file)  BY <3>1, <3>5, <2>1, BlocksInFile
    <3> QED BY <3>6, <2>1, <1>5, <1>11, SliceOfFile
  <2> QED BY <2>2, <2>3
<1>15. TypeOK /\ got \in Seq(Bytes) /\ reading # "raw"
  BY DEF RangeInv, RangeTypeOK, Inv, Bytes
<1>16. offset < Len(file)  BY DEF RangeInv, Asked
<1>17. DecryptedStart' = DecryptedStart /\ offset' = offset  BY ReadStays
<1>18. CASE Trimmed(out)
  <2> HIDE DEF out
  <2>1. /\ Slice(got', offset, file)
        /\ reading' = "fetch" =>
             Len(got') < size /\ Len(got') = DecryptedStart + decrypted' - offset
        /\ reading' = "ended" =>
             Len(got') = size \/ DecryptedStart + decrypted' - offset <= Len(got')
        /\ DecryptedStart = offset => reading' # "crashed"
    BY <1>5, <1>14, <1>15, <1>16, <1>18, Numbers, TrimmedInRange
  <2> QED BY <2>1, <1>8, <1>9, <1>12, <1>13, <1>17 DEF Delivered
<1>19. CASE given = 0 /\ reading' = "fetch" /\ UNCHANGED <<decrypted, got>>
  BY <1>19, <1>8, <1>9, <1>12, <1>13, <1>17 DEF Delivered
<1> QED BY <1>4, <1>18, <1>19

\* What the two steps that decrypt leave.
LEMMA CipherInv ==
  ASSUME RangeInv, reading \in {"extra", "fetch"}, NEW taken \in Seq(Bytes), GivesOut(taken),
         UNCHANGED <<vars, offset, size, iv>>,
         stream' \in Seq(Bytes), counted' \in Nat,
         Known => /\ EncStart(offset) <= At' /\ Slice(stream', At', body)
                  /\ At' - EncStart(offset) <= counted'
                  /\ counted' < At' - EncStart(offset) + BlockSize,
         InPlace => /\ Slice(taken, DecryptedStart + decrypted, body)
                    /\ DecryptedStart + decrypted + Len(taken) = At'
                    /\ taken = << >> => decrypted = 0
                    /\ decrypted % BlockSize = 0
                    /\ Slice(got, offset, file) /\ Len(got) < size /\ Delivered
  PROVE  RangeInv'
<1> USE BlockAssumption
<1>1. /\ kept' \in Seq(Bytes) /\ Len(kept') <= BlockSize
      /\ got' \in Seq(Bytes) /\ Len(got') <= size /\ decrypted' \in Nat
      /\ reading' \in {"fetch", "ended", "crashed"}
  BY CipherTyped
<1>2. /\ Inv' /\ file' = file /\ body' = body /\ pc' = pc /\ message' = message
      /\ offset' = offset /\ size' = size
      /\ Known' = Known /\ End' = End /\ EncStart(offset)' = EncStart(offset)
      /\ DecryptedStart' = DecryptedStart
  BY ReadStays
<1>3. RangeTypeOK'  BY <1>1, <1>2 DEF RangeInv, RangeTypeOK, Bytes
<1>4. Idle' /\ Asked' /\ Passing'  BY <1>1, <1>2 DEF Idle, Asked, Passing, RangeInv
<1>5. Receiving' /\ Counting'  BY <1>2 DEF Receiving, Counting, Slice
<1>6. Vector'  BY <1>1 DEF Vector
<1>7. Aligned' = Aligned /\ InPlace' = InPlace  BY <1>2 DEF Aligned, InPlace
<1>8. Readable' => InPlace  BY <1>7, <1>2 DEF Readable, InPlace, Known
<1>9. ASSUME InPlace
      PROVE  /\ Slice(kept', DecryptedStart + decrypted', body)
             /\ decrypted' + Len(kept') = decrypted + Len(taken)
             /\ decrypted' % BlockSize = 0
             /\ kept' = << >> => decrypted' = 0
             /\ Slice(got', offset, file)
             /\ reading' = "fetch" => Len(got') < size /\ Delivered'
             /\ reading' = "ended" =>
                  Len(got') = size \/ DecryptedStart + decrypted' - offset <= Len(got')
             /\ DecryptedStart = offset => reading' # "crashed"
  <2>1. /\ Slice(taken, DecryptedStart + decrypted, body)
        /\ taken = << >> => decrypted = 0
        /\ decrypted % BlockSize = 0
        /\ Slice(got, offset, file) /\ Len(got) < size /\ Delivered
    BY <1>9
  <2> QED BY <2>1, CipherInPlace
<1>10. ASSUME InPlace
       PROVE  DecryptedStart + decrypted' + Len(kept') = At'
  <2>1. DecryptedStart + decrypted + Len(taken) = At'  BY <1>10
  <2>2. decrypted' + Len(kept') = decrypted + Len(taken)  BY <1>9, <1>10
  <2>3. Len(kept') \in Nat /\ Len(taken) \in Nat /\ decrypted' \in Nat
    BY <1>1, LenProperties
  <2>4. DecryptedStart \in Nat /\ decrypted \in Nat  BY Numbers
  <2>5. DecryptedStart + decrypted' + Len(kept') = DecryptedStart + (decrypted' + Len(kept'))
    BY <2>3, <2>4
  <2>6. DecryptedStart + decrypted + Len(taken) = DecryptedStart + (decrypted + Len(taken))
    BY <2>3, <2>4
  <2> QED BY <2>1, <2>2, <2>5, <2>6
<1>11. Decrypting'
  <2> SUFFICES ASSUME reading' = "fetch", InPlace'
               PROVE  /\ Place' /\ Len(got') < size' /\ Delivered'
                      /\ Slice(got', offset', file')
    BY DEF Decrypting, Slice
  <2>1. InPlace  BY <1>7
  <2>2. Place'  BY <2>1, <1>2, <1>9, <1>10 DEF Place, Slice
  <2> QED BY <2>1, <2>2, <1>2, <1>9
<1>12. Gotten'
  <2>1. InPlace => Slice(got', offset', file')  BY <1>2, <1>9
  <2> QED BY <2>1, <1>8 DEF Gotten, Slice
<1>13. ReadWhole'
  <2> SUFFICES ASSUME Readable', reading' = "ended", stream' = << >>, message' = "whole"
               PROVE  Len(got') >= Minimum(size, Complete(file) - offset)
    BY <1>2 DEF ReadWhole, Minimum, Complete
  <2>1. InPlace  BY <1>8
  <2>2. At' = End
    <3>1. At' = End' - Len(stream') /\ Len(<< >>) = 0  BY DEF At
    <3>2. End \in Nat  BY EndFacts, Numbers
    <3> QED BY <3>1, <3>2, <1>2
  <2>3. PICK d \in Nat, k \in Nat, l \in Nat :
          d = decrypted' /\ k = Len(kept') /\ l = Len(got')
    BY <1>1, LenProperties
  <2>4. DecryptedStart + d + k = End /\ k <= BlockSize /\ d % BlockSize = 0
    BY <2>1, <2>2, <2>3, <1>1, <1>9, <1>10
  <2>5. l = size \/ DecryptedStart + d - offset <= l  BY <2>1, <2>3, <1>9
  <2>6. message = "whole"  BY <1>2
  <2>7. l >= Minimum(size, Complete(file) - offset)  BY <2>4, <2>5, <2>6, WholeEnd
  <2> QED BY <2>3, <2>7
<1>14. BlocksSafe'
  <2> SUFFICES ASSUME Readable', offset % BlockSize = 0, offset # BlockSize
               PROVE  reading' # "crashed"
    BY <1>2 DEF BlocksSafe
  <2>1. InPlace  BY <1>8
  <2>2. DecryptedStart = offset  BY Numbers, DecryptedFacts
  <2> QED BY <2>1, <2>2, <1>9
<1> QED
  BY <1>2, <1>3, <1>4, <1>5, <1>6, <1>11, <1>12, <1>13, <1>14 DEF RangeInv

\* What came with the vector.
LEMMA ExtraStep ==
  ASSUME RangeInv, ReadExtra
  PROVE  RangeInv'
<1> USE BlockAssumption
<1> DEFINE extra == After(iv, BlockSize)
<1>1. /\ reading = "extra" /\ kept' = After(extra, Len(extra) - Kept(extra))
      /\ IF Len(extra) - Kept(extra) = 0 THEN reading' = "fetch" /\ UNCHANGED <<decrypted, got>>
         ELSE Trimmed(First(extra, Len(extra) - Kept(extra)))
      /\ UNCHANGED <<vars, offset, size, stream, iv, counted>>
  BY DEF ReadExtra
<1>2. GivesOut(extra)  BY <1>1 DEF GivesOut
<1>3. iv \in Seq(Bytes) /\ Len(iv) \in Nat /\ Len(<< >>) = 0
  BY LenProperties DEF RangeInv, RangeTypeOK, Bytes
<1>4. CASE Len(iv) >= BlockSize
  <2>1. BlockSize \in 0..Len(iv)  BY <1>3, <1>4
  <2>2. extra \in Seq(Bytes) /\ Len(extra) = Len(iv) - BlockSize  BY <2>1, <1>3, Cut
  <2>3. /\ EncStart(offset) >= BlockSize
        /\ kept = << >> /\ decrypted = 0 /\ got = << >>
        /\ Known => Slice(iv, EncStart(offset), body) /\ EncStart(offset) + Len(iv) = At
    BY <1>1 DEF RangeInv, Vector
  <2>4. DecryptedStart = EncStart(offset) + BlockSize  BY <2>3, Numbers, DecryptedFacts
  <2>5. /\ Known' = Known /\ End' = End /\ stream' = stream
        /\ EncStart(offset)' = EncStart(offset) /\ counted' = counted
    BY <1>1, ReadStays
  <2>6. At' = At  BY <2>5 DEF At
  <2>7. stream' \in Seq(Bytes) /\ counted' \in Nat
    BY <2>5 DEF RangeInv, RangeTypeOK, Bytes
  <2>8. Known => /\ EncStart(offset) <= At' /\ Slice(stream', At', body)
                 /\ At' - EncStart(offset) <= counted'
                 /\ counted' < At' - EncStart(offset) + BlockSize
    BY <2>5, <2>6, <1>1 DEF RangeInv, Receiving, Counting
  <2>9. ASSUME InPlace
        PROVE  /\ Slice(extra, DecryptedStart + decrypted, body)
               /\ DecryptedStart + decrypted + Len(extra) = At'
               /\ extra = << >> => decrypted = 0
               /\ decrypted % BlockSize = 0
               /\ Slice(got, offset, file) /\ Len(got) < size /\ Delivered
    <3>1. Known /\ Slice(iv, EncStart(offset), body) /\ EncStart(offset) + Len(iv) = At
      BY <2>3, <2>9 DEF InPlace
    <3>2. Slice(extra, EncStart(offset) + BlockSize, body)
      BY <3>1, <2>1, <1>3, Numbers, SliceCut
    <3>3. DecryptedStart + decrypted = EncStart(offset) + BlockSize  BY <2>3, <2>4, Numbers
    <3>4. DecryptedStart + decrypted + Len(extra) = At'
      <4>1. (EncStart(offset) + BlockSize) + (Len(iv) - BlockSize) = EncStart(offset) + Len(iv)
        BY <1>3, Numbers
      <4> QED BY <4>1, <3>1, <3>3, <2>2, <2>6
    <3>5. offset < Len(file) /\ size > 0  BY <1>1 DEF RangeInv, Asked
    <3>6. Slice(<< >>, offset, file)  BY <3>5, <1>3, Numbers DEF Slice
    <3> QED BY <3>2, <3>3, <3>4, <3>5, <3>6, <2>3, <1>3, BlockMod DEF Delivered
  <2> HIDE DEF extra
  <2> QED BY <2>2, <2>7, <2>8, <2>9, <1>1, <1>2, CipherInv
<1>5. CASE Len(iv) < BlockSize
  <2>1. iv # << >>  BY <1>1 DEF RangeInv, Vector
  <2>2. ~ InPlace  BY <2>1, <1>3, <1>5 DEF InPlace, Aligned
  <2>3. extra = << >>
    <3>1. ~(BlockSize + 1 <= Len(iv)) /\ BlockSize + 1 \in Int  BY <1>3, <1>5
    <3>2. extra = SubSeq(iv, BlockSize + 1, Len(iv))  BY DEF After
    <3>3. /\ extra \in Seq(Bytes)
          /\ Len(extra) = IF BlockSize + 1 <= Len(iv) THEN Len(iv) - (BlockSize + 1) + 1 ELSE 0
      <4>1. \A i \in BlockSize + 1..Len(iv) : iv[i] \in Bytes  BY <3>1, <1>3
      <4> QED BY <4>1, <3>1, <3>2, <1>3, SubSeqProperties
    <3> QED BY <3>1, <3>3, EmptySeq
  <2>4. extra \in Seq(Bytes)  BY <2>3
  <2>5. /\ Known' = Known /\ End' = End /\ stream' = stream
        /\ EncStart(offset)' = EncStart(offset) /\ counted' = counted
    BY <1>1, ReadStays
  <2>6. At' = At  BY <2>5 DEF At
  <2>7. stream' \in Seq(Bytes) /\ counted' \in Nat
    BY <2>5 DEF RangeInv, RangeTypeOK, Bytes
  <2>8. Known => /\ EncStart(offset) <= At' /\ Slice(stream', At', body)
                 /\ At' - EncStart(offset) <= counted'
                 /\ counted' < At' - EncStart(offset) + BlockSize
    BY <2>5, <2>6, <1>1 DEF RangeInv, Receiving, Counting
  <2> HIDE DEF extra
  <2> QED BY <2>2, <2>4, <2>7, <2>8, <1>1, <1>2, CipherInv
<1> QED BY <1>3, <1>4, <1>5

\* A part of the response.
LEMMA FetchStep ==
  ASSUME RangeInv, ReadFetch
  PROVE  RangeInv'
<1> USE BlockAssumption
<1>1. PICK n \in 1..Len(stream) :
        LET taken == Taken(First(stream, n))
            given == Len(taken) - Kept(taken)
        IN  /\ n <= ReadMax
            /\ stream' = After(stream, n) /\ counted' = counted + n
            /\ kept' = After(taken, given)
            /\ Trimmed(First(taken, given))
  BY DEF ReadFetch
<1>2. reading = "fetch" /\ UNCHANGED <<vars, offset, size, iv>>  BY DEF ReadFetch
<1> DEFINE taken == Taken(First(stream, n))
           part == First(stream, n)
<1>3. GivesOut(taken) /\ stream' = After(stream, n) /\ counted' = counted + n
  BY <1>1 DEF GivesOut
<1>4. /\ stream' \in Seq(Bytes) /\ part \in Seq(Bytes) /\ Len(part) = n
      /\ Known' = Known /\ End' = End /\ At' = At + n /\ At \in Int
      /\ Known => /\ EncStart(offset) <= At'
                  /\ Slice(stream', At', body) /\ Slice(part, At, body)
  BY <1>2, <1>3, StreamStep
<1>5. n \in Nat /\ n > 0  OBVIOUS
<1>6. kept \in Seq(Bytes)  BY DEF RangeInv, RangeTypeOK, Bytes
<1>7. taken \in Seq(Bytes)
  <2>1. DOMAIN part = 1..n  BY <1>4, LenProperties
  <2> DEFINE junk == [i \in 1..n |-> Junk]
  <2>2. junk \in Seq(Bytes)
    <3>1. Junk \in Bytes  BY DEF Junk, Bytes
    <3>2. junk \in [1..n -> Bytes]  BY <3>1
    <3> QED BY <3>2, <1>5, SeqDef
  <2>3. taken = kept \o (IF Aligned THEN part ELSE junk)  BY <2>1 DEF Taken
  <2> HIDE DEF junk, taken, part
  <2>4. CASE Aligned  BY <2>3, <2>4, <1>4, <1>6, ConcatProperties
  <2>5. CASE ~ Aligned  BY <2>2, <2>3, <2>5, <1>6, ConcatProperties
  <2> QED BY <2>4, <2>5
<1>8. counted' \in Nat  BY <1>3, <1>5, Numbers
<1>9. ASSUME Known
      PROVE  /\ EncStart(offset) <= At' /\ Slice(stream', At', body)
             /\ At' - EncStart(offset) <= counted'
             /\ counted' < At' - EncStart(offset) + BlockSize
  <2>1. /\ At - EncStart(offset) <= counted
        /\ counted < At - EncStart(offset) + BlockSize
    BY <1>2, <1>9 DEF RangeInv, Counting
  <2>2. At' - EncStart(offset) = (At - EncStart(offset)) + n  BY <1>4, <1>5, Numbers
  <2>3. PICK u \in Int : u = At - EncStart(offset)  BY <1>4, Numbers
  <2>4. u <= counted /\ counted < u + BlockSize /\ At' - EncStart(offset) = u + n
    BY <2>1, <2>2, <2>3
  <2>5. u + n <= counted' /\ counted' < (u + n) + BlockSize
    BY <2>3, <2>4, <1>3, <1>5, Numbers, SMTT(30)
  <2> QED BY <2>4, <2>5, <1>4, <1>9
<1>10. ASSUME InPlace
       PROVE  /\ Slice(taken, DecryptedStart + decrypted, body)
              /\ DecryptedStart + decrypted + Len(taken) = At'
              /\ taken = << >> => decrypted = 0
              /\ decrypted % BlockSize = 0
              /\ Slice(got, offset, file) /\ Len(got) < size /\ Delivered
  <2>1. Place /\ Len(got) < size /\ Delivered /\ Slice(got, offset, file)
    BY <1>2, <1>10 DEF RangeInv, Decrypting
  <2>2. taken = kept \o part  BY <1>10 DEF Taken, InPlace
  <2> HIDE DEF taken, part
  <2> DEFINE q == DecryptedStart + decrypted
  <2>3. Slice(kept, q, body) /\ q + Len(kept) = At /\ decrypted % BlockSize = 0
    BY <2>1 DEF Place
  <2>4. Slice(part, q + Len(kept), body)  BY <2>3, <1>4, <1>10 DEF InPlace
  <2>5. q \in Nat /\ Len(kept) \in Nat  BY <1>6, Numbers, LenProperties
  <2> HIDE DEF q
  <2>6. Slice(taken, q, body)  BY <2>2, <2>3, <2>4, <1>4, <1>6, Numbers, SliceConcat
  <2>7. Len(taken) = Len(kept) + n  BY <2>2, <1>4, <1>6, ConcatProperties
  <2>8. q + Len(taken) = At'  BY <2>3, <2>5, <2>7, <1>4, <1>5, SMTT(30)
  <2>9. taken # << >>
    <3>1. Len(taken) # 0 /\ Len(<< >>) = 0  BY <2>5, <2>7, <1>5
    <3> QED BY <3>1
  <2> QED BY <2>1, <2>3, <2>6, <2>8, <2>9 DEF q
<1> HIDE DEF taken
<1> QED BY <1>2, <1>3, <1>4, <1>7, <1>8, <1>9, <1>10, CipherInv

\* A part of the response that is passed on as it is.
LEMMA RawStep ==
  ASSUME RangeInv, ReadRaw
  PROVE  RangeInv'
<1>1. PICK n \in 1..Len(stream) :
        n <= ReadMax /\ stream' = After(stream, n) /\ Copy(First(stream, n))
  BY DEF ReadRaw
<1>2. reading = "raw" /\ UNCHANGED <<vars, offset, size, iv, counted, kept, decrypted>>
  BY DEF ReadRaw
<1>3. /\ stream' \in Seq(Bytes) /\ First(stream, n) \in Seq(Bytes)
      /\ Known => EncStart(offset) <= At' /\ Slice(stream', At', body)
  BY <1>1, <1>2, StreamStep
<1>4. got \in Seq(Bytes) /\ size \in Nat  BY DEF RangeInv, RangeTypeOK, Bytes
<1>5. got' \in Seq(Bytes) /\ Len(got') <= size  BY <1>1, <1>3, <1>4, CopyTyped
<1>6. reading' \in {"raw", "ended"}  BY <1>1, <1>2 DEF Copy
<1>7. /\ Inv' /\ file' = file /\ body' = body /\ pc' = pc
      /\ Known' = Known /\ EncStart(offset)' = EncStart(offset)
  BY <1>2, ReadStays
<1>8. RangeTypeOK'  BY <1>2, <1>3, <1>5, <1>6 DEF RangeInv, RangeTypeOK, Bytes
<1>9. counted' = 0  BY <1>2 DEF RangeInv, Passing
<1>10. Idle' /\ Asked' /\ Passing'  BY <1>2, <1>6, <1>7, <1>9 DEF Idle, Asked, Passing, RangeInv
<1>11. Receiving'  BY <1>3, <1>7 DEF Receiving, Slice
<1>12. Vector' /\ Counting' /\ Decrypting'  BY <1>6 DEF Vector, Counting, Decrypting
<1>13. Gotten' /\ ReadWhole' /\ BlocksSafe'
  BY <1>9 DEF Gotten, ReadWhole, BlocksSafe, Readable
<1> QED BY <1>7, <1>8, <1>10, <1>11, <1>12, <1>13 DEF RangeInv

\* The end of the response, and a connection that is closed before it.
LEMMA EndStep ==
  ASSUME RangeInv, ReadEnd \/ ReadCut
  PROVE  RangeInv'
<1> USE BlockAssumption
<1>1. /\ reading \in {"raw", "iv", "fetch"}
      /\ (reading' = "ended" /\ stream = << >>) \/ (reading' = "cut" /\ stream # << >>)
      /\ UNCHANGED <<vars, offset, size, stream, iv, counted, kept, decrypted, got>>
  BY DEF ReadEnd, ReadCut
<1>2. /\ Inv' /\ file' = file /\ body' = body /\ pc' = pc /\ message' = message
      /\ Known' = Known /\ End' = End /\ EncStart(offset)' = EncStart(offset)
  BY <1>1, ReadStays
<1>3. RangeTypeOK'  BY <1>1 DEF RangeInv, RangeTypeOK
<1>4. At' = At  BY <1>1, <1>2 DEF At
<1>5. Idle' /\ Asked' /\ Passing'  BY <1>1, <1>2 DEF Idle, Asked, Passing, RangeInv
<1>6. Receiving'
  <2>1. reading # "idle"  BY <1>1
  <2>2. Known => EncStart(offset) <= At /\ Slice(stream, At, body)
    BY <2>1 DEF RangeInv, Receiving
  <2> QED BY <2>2, <1>1, <1>2, <1>4 DEF Receiving, Slice
<1>7. Vector' /\ Counting' /\ Decrypting' /\ BlocksSafe'
  BY <1>1 DEF Vector, Counting, Decrypting, BlocksSafe
<1>8. Readable' = Readable  BY <1>1, <1>2 DEF Readable, Aligned
<1>9. Gotten'
  <2>1. Readable => Slice(got, offset, file)  BY <1>1 DEF RangeInv, Gotten
  <2> QED BY <2>1, <1>1, <1>2, <1>8 DEF Gotten, Slice
<1>10. ReadWhole'
  <2> SUFFICES ASSUME Readable, reading' = "ended", message = "whole"
               PROVE  Len(got) >= Minimum(size, Complete(file) - offset)
    BY <1>1, <1>2, <1>8 DEF ReadWhole, Minimum, Complete
  <2>1. stream = << >> /\ Len(<< >>) = 0  BY <1>1
  <2>2. End \in Nat  BY EndFacts, Numbers
  <2>3. At = End  BY <2>1, <2>2 DEF At
  <2>4. reading # "raw"  BY DEF Readable, RangeInv, Passing
  <2>5. reading # "iv"
    <3>1. reading = "iv" =>
            counted < BlockSize /\ Len(iv) <= counted /\ (counted > 0 => iv # << >>)
      BY DEF RangeInv, Vector
    <3>2. Len(iv) \in Nat  BY LenProperties DEF RangeInv, RangeTypeOK
    <3>3. iv = << >> \/ Len(iv) >= BlockSize  BY DEF Readable, Aligned
    <3>4. counted > 0  BY DEF Readable
    <3> QED BY <3>1, <3>2, <3>3, <3>4, Numbers
  <2>6. reading = "fetch" /\ InPlace  BY <2>4, <2>5, <1>1 DEF Readable, InPlace, Known
  <2>7. Place /\ Len(got) < size /\ Delivered  BY <2>6 DEF RangeInv, Decrypting
  <2>8. kept \in Seq(Bytes) /\ got \in Seq(Bytes) /\ Len(kept) <= BlockSize
    BY DEF RangeInv, RangeTypeOK, Bytes
  <2>9. PICK d \in Nat, k \in Nat, l \in Nat : d = decrypted /\ k = Len(kept) /\ l = Len(got)
    BY <2>8, Numbers, LenProperties
  <2>10. DecryptedStart + d + k = End /\ k <= BlockSize /\ d % BlockSize = 0
    BY <2>3, <2>7, <2>8, <2>9 DEF Place
  <2>11. DecryptedStart + d - offset <= l
    <3>1. CASE got = << >> /\ decrypted = 0  BY <3>1, <2>1, <2>9, Numbers
    <3>2. CASE Len(got) = DecryptedStart + decrypted - offset  BY <3>2, <2>9, Numbers
    <3> QED BY <3>1, <3>2, <2>7 DEF Delivered
  <2>12. l >= Minimum(size, Complete(file) - offset)  BY <2>10, <2>11, WholeEnd
  <2> QED BY <2>9, <2>12
<1> QED
  BY <1>2, <1>3, <1>5, <1>6, <1>7, <1>9, <1>10 DEF RangeInv

\* Where finishDecryption is called with the bytes of the file, the cipher holds
\* the last block, and that is padding.
LEMMA FinishInPlace ==
  ASSUME RangeInv, reading = "fetch", InPlace, stream = << >>, Finishes
  PROVE  /\ Len(kept) = BlockSize /\ \A i \in 1..BlockSize : kept[i] = Pad
         /\ Len(got) = Len(file) - offset /\ Complete(file) = Len(file)
<1> USE BlockAssumption
<1>1. /\ Len(got) < size /\ Delivered
      /\ Slice(kept, DecryptedStart + decrypted, body)
      /\ DecryptedStart + decrypted + Len(kept) = At
      /\ decrypted % BlockSize = 0
      /\ kept = << >> => decrypted = 0
  BY DEF RangeInv, Decrypting, Place
<1>2. Len(kept) \in Nat /\ Len(kept) <= BlockSize /\ Len(got) \in Nat
  BY LenProperties DEF RangeInv, RangeTypeOK
<1>3. offset < Len(file)  BY DEF RangeInv, Asked
<1>4. PICK q \in Nat : q = DecryptedStart + decrypted /\ q % BlockSize = 0
  <2>1. DecryptedStart \in Nat /\ DecryptedStart % BlockSize = 0 /\ decrypted \in Nat
    BY Numbers, DecryptedFacts
  <2>2. (DecryptedStart + decrypted) % BlockSize = decrypted % BlockSize  BY <2>1, AddMod
  <2> QED BY <2>1, <2>2, <1>1
<1>5. PICK e \in Nat : /\ e >= offset + size /\ e % BlockSize = 0
                      /\ End = IF e + 1 < Len(body) THEN e + 1 ELSE Len(body)
  BY EndFacts
<1>6. End \in Nat /\ q + Len(kept) = End
  <2>1. End \in Nat  BY <1>5, Numbers
  <2>2. At = End - Len(stream) /\ Len(<< >>) = 0  BY DEF At
  <2> QED BY <2>1, <2>2, <1>1, <1>4
<1> DEFINE L == Len(file)
           r == L % BlockSize
<1>7. PICK R \in Nat : R = RoundedUp(L) /\ R >= L /\ R % BlockSize = 0
  BY Numbers, RoundedFacts
<1>8. /\ L \in Nat /\ r \in Nat /\ r < BlockSize
      /\ Len(body) \in Nat /\ Len(body) % BlockSize = 0
      /\ Len(body) <= L + (BlockSize - r)
  BY Numbers, DivMod, BodyFacts DEF RangeInv, Inv, UploadInv
<1>9. R < End
  <2>1. EncStart(offset) + counted = R + BlockSize
    BY <1>7 DEF Finishes, EndOfEncrypted
  <2>2. counted < At - EncStart(offset) + BlockSize
    BY DEF RangeInv, Counting, InPlace
  <2>3. At = End  BY <1>1, <1>4, <1>6
  <2> QED BY <2>1, <2>2, <2>3, <1>6, Numbers, SMTT(30)
<1>10. End <= Len(body)  BY <1>5, <1>8
<1> HIDE DEF L, r
<1>11. r = 0 /\ R = L /\ Len(body) = L + BlockSize /\ L % BlockSize = 0
  <2>1. R + BlockSize <= Len(body)  BY <1>7, <1>8, <1>9, <1>10, <1>6, MultipleGap
  <2>2. r = 0 /\ R = L /\ Len(body) = L + BlockSize  BY <2>1, <1>7, <1>8
  <2> QED BY <2>2, <1>7
<1>12. Len(kept) >= 1
  <2>1. CASE Len(kept) = 0
    <3>1. kept = << >>  BY <2>1, EmptySeq DEF RangeInv, RangeTypeOK
    <3>2. q = DecryptedStart  BY <3>1, <1>1, <1>4, Numbers
    <3>3. q = End  BY <2>1, <1>6
    <3>4. q <= offset  BY <3>2, Numbers
    <3> QED BY <3>3, <3>4, <1>3, <1>9, <1>11, <1>8, Numbers DEF L
  <2> QED BY <2>1, <1>2
<1>13. q <= L
  <2>1. (L + BlockSize) % BlockSize = 0  BY <1>8, <1>11, BlockMod, AddMod
  <2>2. q > L => L + BlockSize <= q  BY <1>4, <1>8, <1>11, MultipleGap
  <2> QED BY <2>2, <1>6, <1>8, <1>10, <1>11, <1>12, <1>2, <1>4
<1>14. q >= L
  <2>1. q < L => q + BlockSize <= L  BY <1>4, <1>8, <1>11, MultipleGap
  <2> QED BY <2>1, <1>2, <1>6, <1>8, <1>9, <1>11, <1>4
<1>15. q = L  BY <1>13, <1>14, <1>4, <1>8
<1>16. Len(got) = L - offset
  <2>1. CASE got = << >> /\ decrypted = 0
    <3>1. q = DecryptedStart  BY <2>1, <1>4, Numbers
    <3> QED BY <3>1, <1>15, <1>3, Numbers DEF L
  <2>2. CASE Len(got) = DecryptedStart + decrypted - offset  BY <2>2, <1>4, <1>15, Numbers
  <2> QED BY <2>1, <2>2, <1>1 DEF Delivered
<1>17. End = Len(body)
  <2>1. CASE End = e + 1
    <3>1. e >= L  BY <2>1, <1>9, <1>11, <1>8, <1>5
    <3>2. e > L => L + BlockSize <= e  BY <1>5, <1>8, <1>11, MultipleGap
    <3>3. e = L  BY <3>1, <3>2, <2>1, <1>5, <1>8, <1>10, <1>11
    <3>4. L - offset < size /\ L >= offset + size  BY <3>3, <1>1, <1>5, <1>16
    <3> QED BY <3>4, <1>8, Numbers
  <2> QED BY <2>1, <1>5
<1>18. Len(kept) = BlockSize  BY <1>6, <1>11, <1>15, <1>17, <1>2, <1>8
<1>19. \A i \in 1..BlockSize : kept[i] = Pad
  <2> TAKE i \in 1..BlockSize
  <2>1. kept[i] = body[L + i]  BY <1>1, <1>4, <1>15, <1>18 DEF Slice
  <2>2. L + i \in 1..Len(body) /\ L + i > L  BY <1>8, <1>11
  <2>3. body[L + i] = Pad  BY <2>2, BodyFacts DEF L, RangeInv, Inv, UploadInv
  <2> QED BY <2>1, <2>3
<1>20. Complete(file) = L  BY <1>8, <1>11 DEF Complete, L, r
<1> QED BY <1>16, <1>18, <1>19, <1>20 DEF L

\* finishDecryption.
LEMMA FinishStep ==
  ASSUME RangeInv, ReadFinish
  PROVE  RangeInv'
<1> USE BlockAssumption
<1>1. /\ stream = << >> /\ Finishes /\ reading = "fetch"
      /\ UNCHANGED <<vars, offset, size, stream, iv, counted, kept>>
  BY DEF ReadFinish, Finishes
<1>2. \/ Cipher!MayFail /\ reading' = "crashed" /\ UNCHANGED <<decrypted, got>>
      \/ /\ ~ Cipher!MayFail /\ reading' = "ended"
         /\ \E n \in Cipher!PaddingLengths :
              /\ got' = AtMost(got \o First(kept, BlockSize - n), size)
              /\ decrypted' = decrypted + BlockSize - n
  BY DEF ReadFinish
<1>3. /\ Inv' /\ file' = file /\ body' = body /\ pc' = pc /\ message' = message
      /\ offset' = offset /\ size' = size
      /\ Known' = Known /\ End' = End /\ EncStart(offset)' = EncStart(offset)
  BY <1>1, ReadStays
<1>4. got \in Seq(Bytes) /\ Len(got) <= size /\ kept \in Seq(Bytes)
  BY DEF RangeInv, RangeTypeOK, Bytes
\* What is taken for padding is at most the block.
<1>5. ASSUME NEW n \in Cipher!PaddingLengths
      PROVE  /\ Len(kept) = BlockSize /\ n \in 1..BlockSize
             /\ First(kept, BlockSize - n) \in Seq(Bytes)
             /\ Len(First(kept, BlockSize - n)) = BlockSize - n
             /\ got \o First(kept, BlockSize - n) \in Seq(Bytes)
             /\ decrypted + BlockSize - n \in Nat
  <2>1. Len(kept) = BlockSize /\ n \in 1..BlockSize  BY DEF Cipher!PaddingLengths
  <2>2. BlockSize - n \in 0..Len(kept)  BY <2>1
  <2>3. /\ First(kept, BlockSize - n) \in Seq(Bytes)
        /\ Len(First(kept, BlockSize - n)) = BlockSize - n
    BY <2>2, <1>4, Cut
  <2>4. decrypted + BlockSize - n \in Nat  BY <2>1, Numbers
  <2> QED BY <2>1, <2>3, <2>4, <1>4, ConcatProperties
<1>6. /\ got' \in Seq(Bytes) /\ Len(got') <= size /\ decrypted' \in Nat
      /\ reading' \in {"ended", "crashed"}
  <2>1. CASE UNCHANGED <<decrypted, got>> /\ reading' = "crashed"  BY <2>1, <1>4, Numbers
  <2>2. ASSUME NEW n \in Cipher!PaddingLengths, reading' = "ended",
               got' = AtMost(got \o First(kept, BlockSize - n), size),
               decrypted' = decrypted + BlockSize - n
        PROVE  /\ got' \in Seq(Bytes) /\ Len(got') <= size /\ decrypted' \in Nat
               /\ reading' \in {"ended", "crashed"}
    <3>1. got \o First(kept, BlockSize - n) \in Seq(Bytes) /\ decrypted' \in Nat
      BY <2>2, <1>5
    <3>2. got' \in Seq(Bytes) /\ Len(got') <= size
      BY <3>1, <2>2, Numbers, AtMostFacts
    <3> QED BY <3>1, <3>2, <2>2
  <2> QED BY <2>1, <2>2, <1>2
<1>7. RangeTypeOK'  BY <1>1, <1>6 DEF RangeInv, RangeTypeOK, Bytes
<1>8. At' = At  BY <1>1, <1>3 DEF At
<1>9. Idle' /\ Asked' /\ Passing'  BY <1>1, <1>3, <1>6 DEF Idle, Asked, Passing, RangeInv
<1>10. Receiving'
  <2>1. Known => EncStart(offset) <= At /\ Slice(stream, At, body)
    BY <1>1 DEF RangeInv, Receiving
  <2> QED BY <2>1, <1>1, <1>3, <1>8 DEF Receiving, Slice
<1>11. Vector' /\ Counting' /\ Decrypting'  BY <1>6 DEF Vector, Counting, Decrypting
<1>12. Readable' = Readable  BY <1>1, <1>3 DEF Readable, Aligned
<1>13. ASSUME Readable
       PROVE  /\ reading' = "ended" /\ Slice(got', offset, file)
              /\ Len(got') = Len(file) - offset /\ Complete(file) = Len(file)
  <2>1. InPlace  BY <1>13 DEF Readable, InPlace, Known
  <2>2. /\ Len(kept) = BlockSize /\ \A i \in 1..BlockSize : kept[i] = Pad
        /\ Len(got) = Len(file) - offset /\ Complete(file) = Len(file)
    BY <2>1, <1>1, FinishInPlace
  <2>3. Len(got) < size /\ Slice(got, offset, file)
    BY <2>1, <1>1 DEF RangeInv, Decrypting
  <2>4. ~ Cipher!MayFail
    <3>1. DOMAIN kept = 1..BlockSize  BY <2>2, <1>4, LenProperties
    <3>2. BlockSize \in DOMAIN kept /\ kept[BlockSize] = Pad  BY <2>2, <3>1
    <3> QED BY <3>2 DEF Cipher!MayFail, Pad, Cipher!Pad
  <2>5. PICK n \in Cipher!PaddingLengths : got' = AtMost(got \o First(kept, BlockSize - n), size)
    BY <2>4, <1>2
  <2> DEFINE more == First(kept, BlockSize - n)
  <2>6. n = BlockSize
    <3>1. kept[BlockSize] = Pad  BY <2>2
    <3>2. \A i \in 1..BlockSize : kept[i] = Pad <=> i > BlockSize - n
      BY <3>1, <2>2 DEF Cipher!PaddingLengths, Pad, Cipher!Pad
    <3>3. 1 \in 1..BlockSize  OBVIOUS
    <3>4. 1 > BlockSize - n  BY <3>2, <3>3, <2>2
    <3> QED BY <3>4, <1>5
  <2>7. more \in Seq(Bytes) /\ Len(more) = 0
    <3>1. more \in Seq(Bytes) /\ Len(more) = BlockSize - n /\ n \in 1..BlockSize  BY <1>5
    <3> QED BY <3>1, <2>6
  <2> HIDE DEF more
  <2>8. Len(got) \in Nat  BY <1>4, LenProperties
  <2>9. got \o more \in Seq(Bytes) /\ Len(got \o more) = Len(got)
        /\ \A i \in 1..Len(got) : (got \o more)[i] = got[i]
    BY <2>7, <2>8, <1>4, ConcatProperties
  <2>10. got' = AtMost(got \o more, size)  BY <2>5 DEF more
  <2>11. Len(got') = Len(got) /\ \A j \in 1..Len(got) : got'[j] = got[j]
    <3>1. /\ Len(got') = Minimum(Len(got), size)
          /\ \A j \in 1..Len(got') : got'[j] = (got \o more)[j]
      BY <2>9, <2>10, AtMostFacts, Numbers, ZenonT(30)
    <3>2. Len(got') = Len(got)  BY <3>1, <2>3, <2>8, Numbers DEF Minimum
    <3> QED BY <3>1, <3>2, <2>9
  <2>12. Slice(got', offset, file)  BY <2>3, <2>11 DEF Slice
  <2>13. reading' = "ended"  BY <2>4, <1>2
  <2> QED BY <2>2, <2>11, <2>12, <2>13
<1>14. Gotten'  BY <1>3, <1>12, <1>13 DEF Gotten, Slice
<1>15. ReadWhole'
  <2> SUFFICES ASSUME Readable
               PROVE  Len(got') >= Minimum(size, Complete(file) - offset)
    BY <1>3, <1>12 DEF ReadWhole, Minimum, Complete
  <2>1. Len(got') = Complete(file) - offset /\ Complete(file) = Len(file)  BY <1>13
  <2>2. Complete(file) - offset \in Int  BY <2>1, Numbers
  <2> QED BY <2>1, <2>2, Numbers DEF Minimum
<1>16. BlocksSafe'  BY <1>12, <1>13 DEF BlocksSafe
<1> QED
  BY <1>3, <1>7, <1>9, <1>10, <1>11, <1>14, <1>15, <1>16 DEF RangeInv

-----------------------------------------------------------------------------

LEMMA RangeInvNext == RangeInv /\ [RangeNext]_allVars => RangeInv'
<1> SUFFICES ASSUME RangeInv, [RangeNext]_allVars PROVE RangeInv'
  OBVIOUS
<1>1. CASE reading = "idle" /\ Next /\ UNCHANGED rangeVars  BY <1>1, IdleStep
<1>2. CASE ReadStart   BY <1>2, StartStep
<1>3. CASE ReadVector  BY <1>3, VectorStep
<1>4. CASE ReadExtra   BY <1>4, ExtraStep
<1>5. CASE ReadFetch   BY <1>5, FetchStep
<1>6. CASE ReadRaw     BY <1>6, RawStep
<1>7. CASE ReadEnd     BY <1>7, EndStep
<1>8. CASE ReadFinish  BY <1>8, FinishStep
<1>9. CASE ReadCut     BY <1>9, EndStep
<1>10. CASE UNCHANGED allVars
  <2>1. Inv'  BY <1>10, InvStays DEF RangeInv, allVars
  <2>2. UNCHANGED rangeVars /\ UNCHANGED vars  BY <1>10 DEF allVars
  <2>3. RangeTypeOK' /\ Idle' /\ Asked' /\ Passing'
    BY <2>2 DEF RangeInv, RangeTypeOK, Idle, Asked, Passing, rangeVars, vars
  <2>4. /\ Known' = Known /\ End' = End /\ EncStart(offset)' = EncStart(offset)
        /\ DecryptedStart' = DecryptedStart /\ At' = At /\ Aligned' = Aligned
    BY <2>2 DEF Known, End, EncStart, DecryptedStart, EncEnd, RoundedUp, RangeEnd, Minimum,
       At, Aligned, rangeVars, vars
  <2>5. Receiving' /\ Vector' /\ Counting' /\ Decrypting' /\ Gotten'
    BY <2>2, <2>4 DEF RangeInv, Receiving, Vector, Counting, Decrypting, Gotten, Readable,
       InPlace, Place, Delivered, Slice, Known, rangeVars, vars
  <2>6. ReadWhole' /\ BlocksSafe'
    BY <2>2, <2>4 DEF RangeInv, ReadWhole, BlocksSafe, Readable, Minimum, Complete,
       rangeVars, vars
  <2> QED BY <2>1, <2>3, <2>5, <2>6 DEF RangeInv
<1> QED
  BY <1>1, <1>2, <1>3, <1>4, <1>5, <1>6, <1>7, <1>8, <1>9, <1>10 DEF RangeNext, Read

LEMMA RangeInvHolds == RangeSpec => []RangeInv
BY RangeInitInv, RangeInvNext, PTL DEF RangeSpec

\* The invariants of STOR and RETR, with reads.
THEOREM ReadsKeepTransfer == RangeSpec => [](StoredInOrder /\ SentInOrder /\ RoundTrip)
<1>1. RangeInv => StoredInOrder /\ SentInOrder /\ RoundTrip
  BY SentBeforePadding DEF RangeInv, Inv, UploadInv, SentInOrder
<1> QED BY <1>1, RangeInvHolds, PTL

\* The types of every variable of a read.
THEOREM RangeTyped == RangeSpec => []RangeTypeOK
<1>1. RangeInv => RangeTypeOK  BY DEF RangeInv
<1> QED BY <1>1, RangeInvHolds, PTL

\* read_callback: wherever the range is and however recv cuts the response behind
\* the initialisation vector, a read that got the whole vector (Readable) gives the
\* caller bytes of the file from its offset on, in order.
THEOREM RangeInOrder == RangeSpec => []OnlyRange
<1>1. ASSUME RangeInv PROVE OnlyRange
  <2> SUFFICES ASSUME Readable PROVE IsPrefixOf(got, After(file, offset))
    BY DEF OnlyRange
  <2>1. got \in Seq(Int) /\ file \in Seq(Int)
    <3>1. Bytes \subseteq Int /\ got \in Seq(Bytes)
      BY <1>1, BlockAssumption DEF Bytes, RangeInv, RangeTypeOK
    <3> QED BY <3>1, <1>1, SeqSubset, AllInt DEF RangeInv, Inv
  <2>2. reading # "idle"  BY <1>1 DEF RangeInv, Idle, Readable
  <2>3. Slice(got, offset, file)  BY <2>2, <1>1 DEF RangeInv, Gotten
  <2>4. Len(got) \in Nat /\ Len(file) \in Nat /\ offset \in Nat /\ offset + Len(got) <= Len(file)
    BY <2>1, <2>3, LenProperties DEF Slice
  <2> DEFINE tail == After(file, offset)
  <2>5. /\ tail \in Seq(Int) /\ Len(tail) = Len(file) - offset
        /\ \A j \in 1..Len(file) - offset : tail[j] = file[offset + j]
    <3>1. PICK m \in Nat : m = Len(file) - offset /\ offset + m = Len(file)  BY <2>4
    <3>2. tail = SubSeq(file, offset + 1, offset + m)  BY <3>1 DEF After
    <3> HIDE DEF tail
    <3>3. /\ SubSeq(file, offset + 1, offset + m) \in Seq(Int)
          /\ Len(SubSeq(file, offset + 1, offset + m)) = m
          /\ \A j \in 1..m : SubSeq(file, offset + 1, offset + m)[j] = file[offset + j]
      BY <3>1, <2>1, <2>4, SubSeqFacts
    <3> QED BY <3>1, <3>2, <3>3
  <2> HIDE DEF tail
  <2>6. Len(got) <= Len(tail)  BY <2>4, <2>5
  <2>7. /\ First(tail, Len(got)) \in Seq(Int) /\ Len(First(tail, Len(got))) = Len(got)
        /\ \A j \in 1..Len(got) : First(tail, Len(got))[j] = tail[j]
    <3>1. First(tail, Len(got)) = SubSeq(tail, 0 + 1, 0 + Len(got))  BY <2>4 DEF First
    <3> QED BY <3>1, <2>4, <2>5, <2>6, SubSeqFacts
  <2>8. \A j \in 1..Len(got) : First(tail, Len(got))[j] = got[j]
    BY <2>3, <2>4, <2>5, <2>7 DEF Slice
  <2>9. got = First(tail, Len(got))  BY <2>1, <2>7, <2>8, SeqEqual
  <2> QED BY <2>6, <2>9 DEF IsPrefixOf, tail
<1> QED BY <1>1, RangeInvHolds, PTL

\* A read that got the whole vector and all of the response has all that it wanted
\* of the whole blocks of the file.
THEOREM RangeWhole == RangeSpec => []ReadWhole
<1>1. RangeInv => ReadWhole  BY DEF RangeInv
<1> QED BY <1>1, RangeInvHolds, PTL

\* A read from the start of a block that got the whole vector never moves a negative
\* number of bytes, but for the second block.
THEOREM RangeBlocksSafe == RangeSpec => []BlocksSafe
<1>1. RangeInv => BlocksSafe  BY DEF RangeInv
<1> QED BY <1>1, RangeInvHolds, PTL
=============================================================================
