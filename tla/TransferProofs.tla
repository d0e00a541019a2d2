--------------------------- MODULE TransferProofs ---------------------------
(***************************************************************************)
(* What Google decodes and what the client gets back, for every block      *)
(* size, every file and every way to cut it.                               *)
(***************************************************************************)
EXTENDS TransferProperties, SequenceTheorems, TLAPS

-----------------------------------------------------------------------------
(* Division by the block size                                               *)

\* Quotient and remainder of numbers that are not negative.
LEMMA DivMod == \A a \in Nat, b \in Nat \ {0} :
  /\ a % b \in Nat /\ a % b < b /\ a \div b \in Nat /\ a = b * (a \div b) + (a % b)
BY Z3

\* They are the only ones.
LEMMA Unique ==
  \A b \in Nat \ {0}, p, q \in Int, r, s \in Nat :
    r < b /\ s < b /\ b * p + r = b * q + s => p = q /\ r = s
<1> SUFFICES ASSUME NEW b \in Nat \ {0}, NEW p \in Int, NEW q \in Int,
                    NEW r \in Nat, NEW s \in Nat, r < b, s < b, b * p + r = b * q + s
             PROVE  p = q /\ r = s
  OBVIOUS
<1>1. CASE p = q  BY <1>1
<1>2. CASE p < q
  <2>1. PICK d \in Nat : d >= 1 /\ q = p + d
    <3>1. q - p \in Nat /\ q - p >= 1 /\ q = p + (q - p)  BY <1>2
    <3> QED BY <3>1
  <2>2. b * q = b * p + b * d  BY <2>1
  <2>3. b * d >= b  BY <2>1
  <2> QED BY <2>2, <2>3
<1>3. CASE q < p
  <2>1. PICK d \in Nat : d >= 1 /\ p = q + d
    <3>1. p - q \in Nat /\ p - q >= 1 /\ p = q + (p - q)  BY <1>3
    <3> QED BY <3>1
  <2>2. b * p = b * q + b * d  BY <2>1
  <2>3. b * d >= b  BY <2>1
  <2> QED BY <2>2, <2>3
<1> QED BY <1>1, <1>2, <1>3

\* The remainder, from any quotient that fits.
LEMMA ModOf ==
  \A b \in Nat \ {0}, q \in Int, r \in Nat :
    r < b /\ b * q + r \in Nat => (b * q + r) % b = r
<1> SUFFICES ASSUME NEW b \in Nat \ {0}, NEW q \in Int, NEW r \in Nat,
                    r < b, b * q + r \in Nat
             PROVE  (b * q + r) % b = r
  OBVIOUS
<1> DEFINE x == b * q + r
           d == x \div b
           m == x % b
<1>1. d \in Int /\ m \in Nat /\ m < b /\ x = b * d + m  BY DivMod
<1>2. b * q + r = b * d + m  BY <1>1
<1> HIDE DEF d, m
<1>3. r = m  BY <1>1, <1>2, Unique
<1> QED BY <1>3 DEF m

\* Whole blocks in front do not change what is over.
LEMMA AddMod ==
  \A b \in Nat \ {0}, x, y \in Nat : x % b = 0 => (x + y) % b = y % b
<1> SUFFICES ASSUME NEW b \in Nat \ {0}, NEW x \in Nat, NEW y \in Nat, x % b = 0
             PROVE  (x + y) % b = y % b
  OBVIOUS
<1> DEFINE p == x \div b
           q == y \div b
           r == y % b
<1>1. p \in Nat /\ x = b * p
  <2>1. p \in Nat /\ x = b * p + (x % b) BY DivMod
  <2> QED BY <2>1
<1>2. q \in Nat /\ r \in Nat /\ r < b /\ y = b * q + r  BY DivMod
<1> HIDE DEF p, q, r
<1>3. x + y = b * (p + q) + r  BY <1>1, <1>2
<1>4. (b * (p + q) + r) % b = r  BY <1>1, <1>2, <1>3, ModOf
<1> QED BY <1>3, <1>4 DEF r

\* Without what is over, whole blocks are left.
LEMMA SubMod ==
  \A b \in Nat \ {0}, x \in Nat : x - (x % b) \in Nat /\ (x - (x % b)) % b = 0
<1> SUFFICES ASSUME NEW b \in Nat \ {0}, NEW x \in Nat
             PROVE  x - (x % b) \in Nat /\ (x - (x % b)) % b = 0
  OBVIOUS
<1> DEFINE p == x \div b
           r == x % b
<1>1. p \in Nat /\ r \in Nat /\ r < b /\ x = b * p + r  BY DivMod
<1> HIDE DEF p, r
<1>2. x - r = b * p + 0 /\ b * p + 0 \in Nat  BY <1>1
<1>3. (b * p + 0) % b = 0  BY <1>1, <1>2, ModOf
<1>4. x - r \in Nat /\ (x - r) % b = 0  BY <1>2, <1>3
<1> QED BY <1>4 DEF r

\* Two lengths in whole blocks that differ do so by a block.
LEMMA MultipleGap ==
  \A b \in Nat \ {0}, x, y \in Nat : x % b = 0 /\ y % b = 0 /\ x < y => x + b <= y
<1> SUFFICES ASSUME NEW b \in Nat \ {0}, NEW x \in Nat, NEW y \in Nat,
                    x % b = 0, y % b = 0, x < y
             PROVE  x + b <= y
  OBVIOUS
<1> DEFINE p == x \div b
           q == y \div b
<1>1. p \in Nat /\ x = b * p
  <2>1. p \in Nat /\ x = b * p + (x % b)  BY DivMod
  <2> QED BY <2>1
<1>2. q \in Nat /\ y = b * q
  <2>1. q \in Nat /\ y = b * q + (y % b)  BY DivMod
  <2> QED BY <2>1
<1> HIDE DEF p, q
<1>3. PICK e \in Int : q = p + e
  <2>1. q - p \in Int /\ q = p + (q - p)  BY <1>1, <1>2
  <2> QED BY <2>1
<1>4. b * q = b * p + b * e  BY <1>1, <1>3
<1>5. b * e > 0 BY <1>1, <1>2, <1>4
<1>6. e >= 1
  <2>1. CASE e <= 0
    <3>1. b * e <= 0 BY <2>1
    <3> QED BY <3>1, <1>5
  <2> QED BY <2>1
<1>7. b * e >= b  BY <1>6
<1> QED BY <1>1, <1>2, <1>4, <1>7

\* A sequence over a set is one over every larger set.
LEMMA SeqSubset ==
  ASSUME NEW S, NEW T, S \subseteq T, NEW s \in Seq(S)
  PROVE  s \in Seq(T)
<1>1. Len(s) \in Nat /\ s \in [1..Len(s) -> S]  BY LenProperties
<1>2. s \in [1..Len(s) -> T]  BY <1>1
<1> QED BY <1>1, <1>2, SeqDef

\* Concatenation is associative.
LEMMA ConcatInt ==
  \A u, v, w \in Seq(Int) : (u \o v) \o w = u \o (v \o w)
<1> SUFFICES ASSUME NEW u \in Seq(Int), NEW v \in Seq(Int), NEW w \in Seq(Int)
             PROVE  (u \o v) \o w = u \o (v \o w)
  OBVIOUS
<1>1. Len(u) \in Nat /\ Len(v) \in Nat /\ Len(w) \in Nat  BY LenProperties
<1>2. /\ u \o v \in Seq(Int) /\ Len(u \o v) = Len(u) + Len(v)
      /\ v \o w \in Seq(Int) /\ Len(v \o w) = Len(v) + Len(w)
  BY ConcatProperties
<1>3. /\ (u \o v) \o w \in Seq(Int) /\ Len((u \o v) \o w) = Len(u) + Len(v) + Len(w)
      /\ u \o (v \o w) \in Seq(Int) /\ Len(u \o (v \o w)) = Len(u) + Len(v) + Len(w)
  BY <1>1, <1>2, ConcatProperties
<1>4. \A i \in 1..Len((u \o v) \o w) : ((u \o v) \o w)[i] = (u \o (v \o w))[i]
  BY <1>1, <1>2, <1>3, SMTT(30)
<1> QED BY <1>3, <1>4, SeqEqual

\* The two parts of a sequence that is cut anywhere.
LEMMA Cut ==
  ASSUME NEW S, NEW s \in Seq(S), NEW n \in 0..Len(s)
  PROVE  /\ First(s, n) \in Seq(S) /\ Len(First(s, n)) = n
         /\ After(s, n) \in Seq(S) /\ Len(After(s, n)) = Len(s) - n
         /\ First(s, n) \o After(s, n) = s
<1>1. Len(s) \in Nat /\ \A i \in 1..Len(s) : s[i] \in S  BY LenProperties, ElementOfSeq
<1>2. First(s, n) \in Seq(S) /\ Len(First(s, n)) = n
  BY <1>1, SubSeqProperties DEF First
<1>3. After(s, n) \in Seq(S) /\ Len(After(s, n)) = Len(s) - n
  BY <1>1, SubSeqProperties DEF After
<1>4. First(s, n) \o After(s, n) = s
  <2>1. 1 \in 1..Len(s)+1 /\ n \in 1-1..Len(s) /\ Len(s) \in n..Len(s)  BY <1>1
  <2>2. First(s, n) \o After(s, n) = SubSeq(s, 1, Len(s))
    BY <2>1, ConcatAdjacentSubSeq DEF First, After
  <2> QED BY <2>2, SubSeqFull
<1> QED BY <1>2, <1>3, <1>4

\* Of two sequences that begin the same one, the shorter begins the longer.
LEMMA TwoPrefixes ==
  \A u, v, f, g \in Seq(Int) : u \o v = f \o g /\ Len(u) <= Len(f) => IsPrefixOf(u, f)
<1> SUFFICES ASSUME NEW u \in Seq(Int), NEW v \in Seq(Int),
                    NEW f \in Seq(Int), NEW g \in Seq(Int),
                    u \o v = f \o g, Len(u) <= Len(f)
             PROVE  IsPrefixOf(u, f)
  OBVIOUS
<1>1. Len(u) \in Nat /\ Len(f) \in Nat /\ Len(v) \in Nat /\ Len(g) \in Nat  BY LenProperties
<1>2. First(f, Len(u)) \in Seq(Int) /\ Len(First(f, Len(u))) = Len(u)  BY <1>1, Cut
<1>3. \A i \in 1..Len(u) : u[i] = First(f, Len(u))[i]
  <2> TAKE i \in 1..Len(u)
  <2>1. (u \o v)[i] = u[i]  BY <1>1, ConcatProperties
  <2>2. (f \o g)[i] = f[i]  BY <1>1, ConcatProperties
  <2>3. First(f, Len(u))[i] = f[i]  BY <1>1 DEF First
  <2> QED BY <2>1, <2>2, <2>3
<1>4. u = First(f, Len(u))  BY <1>2, <1>3, SeqEqual
<1> QED BY <1>4 DEF IsPrefixOf

\* What is appended leaves the beginning.
LEMMA PrefixOfConcat ==
  \A u, v \in Seq(Int) : IsPrefixOf(u, u \o v)
<1> SUFFICES ASSUME NEW u \in Seq(Int), NEW v \in Seq(Int)
             PROVE  IsPrefixOf(u, u \o v)
  OBVIOUS
<1> DEFINE f == u \o v
<1>1. /\ f \in Seq(Int) /\ << >> \in Seq(Int) /\ f \o << >> = f
      /\ Len(f) = Len(u) + Len(v) /\ Len(u) \in Nat /\ Len(v) \in Nat
  BY ConcatProperties, ConcatEmptySeq, LenProperties, EmptySeq
<1>2. u \o v = f \o << >> /\ Len(u) <= Len(f)  BY <1>1
<1> HIDE DEF f
<1>3. IsPrefixOf(u, f)  BY <1>1, <1>2, TwoPrefixes
<1> QED BY <1>3 DEF f

\* The part of a sequence that a prefix of it leaves.
LEMMA PrefixSplits ==
  \A u, t \in Seq(Int) :
    IsPrefixOf(u, t) => After(t, Len(u)) \in Seq(Int) /\ u \o After(t, Len(u)) = t
<1> SUFFICES ASSUME NEW u \in Seq(Int), NEW t \in Seq(Int), IsPrefixOf(u, t)
             PROVE  After(t, Len(u)) \in Seq(Int) /\ u \o After(t, Len(u)) = t
  OBVIOUS
<1>1. Len(u) \in 0..Len(t) /\ u = First(t, Len(u)) BY LenProperties DEF IsPrefixOf
<1> QED BY <1>1, Cut
-----------------------------------------------------------------------------
(* The cipher                                                               *)

USE DEF Pad, Junk

\* Every sequence of the state is a sequence of numbers.
LEMMA AllInt ==
  TypeOK => /\ file \in Seq(Int) /\ unread \in Seq(Int) /\ held \in Seq(Int)
            /\ body \in Seq(Int) /\ rest \in Seq(Int) /\ piece \in Seq(Int)
            /\ sent \in Seq(Int)
            /\ unread \in Seq(0..MaxSize) /\ held \in Seq(-1..MaxSize)
<1> SUFFICES ASSUME TypeOK
             PROVE  /\ file \in Seq(Int) /\ unread \in Seq(Int) /\ held \in Seq(Int)
                    /\ body \in Seq(Int) /\ rest \in Seq(Int) /\ piece \in Seq(Int)
                    /\ sent \in Seq(Int)
                    /\ unread \in Seq(0..MaxSize) /\ held \in Seq(-1..MaxSize)
  OBVIOUS
<1>1. 1..MaxSize \subseteq Int /\ 0..MaxSize \subseteq Int /\ -1..MaxSize \subseteq Int
      /\ 1..MaxSize \subseteq 0..MaxSize /\ 0..MaxSize \subseteq -1..MaxSize
  BY BlockAssumption
<1>2. file \in Seq(Int) /\ unread \in Seq(Int) /\ unread \in Seq(0..MaxSize)
  BY <1>1, SeqSubset DEF TypeOK
<1>3. /\ held \in Seq(Int) /\ body \in Seq(Int) /\ rest \in Seq(Int)
      /\ held \in Seq(-1..MaxSize)
  BY <1>1, SeqSubset DEF TypeOK
<1>4. piece \in Seq(Int) /\ sent \in Seq(Int)  BY <1>1, SeqSubset DEF TypeOK
<1> QED BY <1>2, <1>3, <1>4

\* finishEncryption adds a byte to a whole block of padding, and nothing else.
LEMMA PaddingFacts ==
  \A t \in Seq(Int) :
    /\ Padding(t) \in Seq(0..MaxSize) /\ Padding(t) \in Seq(Int)
    /\ Len(Padding(t)) = BlockSize - (Len(t) % BlockSize)
    /\ Len(Padding(t)) \in 1..BlockSize
    /\ \A i \in 1..Len(Padding(t)) : Padding(t)[i] = Pad
<1> TAKE t \in Seq(Int)
<1> DEFINE n == BlockSize - (Len(t) % BlockSize)
<1>1. n \in 1..BlockSize /\ n \in Nat  BY DivMod, LenProperties, BlockAssumption
<1>2. Padding(t) = [i \in 1..n |-> Pad]  BY DEF Padding
<1> HIDE DEF n
<1>3. 0 \in 0..MaxSize  BY BlockAssumption
<1>4. Padding(t) \in Seq(0..MaxSize) /\ Padding(t) \in Seq(Int)  BY <1>1, <1>2, <1>3, SeqDef
<1>5. Len(Padding(t)) = n  BY <1>1, <1>2
<1>6. \A i \in 1..n : Padding(t)[i] = Pad  BY <1>2
<1> QED BY <1>1, <1>4, <1>5, <1>6 DEF n

\* Nothing is over of nothing and of one block.
LEMMA BlockMod == 0 % BlockSize = 0 /\ BlockSize % BlockSize = 0
<1> DEFINE b == BlockSize
<1>1. b \in Nat \ {0}  BY BlockAssumption
<1>2. b * 0 + 0 = 0 /\ b * 1 + 0 = b  BY <1>1
<1> HIDE DEF b
<1>3. (b * 0 + 0) % b = 0 /\ (b * 1 + 0) % b = 0  BY <1>1, <1>2, ModOf
<1>4. 0 % b = 0 /\ b % b = 0  BY <1>2, <1>3
<1> QED BY <1>4 DEF b

\* The encrypted file has whole blocks, and at most one more than the file.
LEMMA EncryptedFacts ==
  TypeOK => /\ Encrypted \in Seq(Int)
            /\ Len(Encrypted) = Len(file) + Len(Padding(file))
            /\ Len(Encrypted) % BlockSize = 0
            /\ Len(Encrypted) <= Len(file) + BlockSize
<1> SUFFICES ASSUME TypeOK
             PROVE  /\ Encrypted \in Seq(Int)
                    /\ Len(Encrypted) = Len(file) + Len(Padding(file))
                    /\ Len(Encrypted) % BlockSize = 0
                    /\ Len(Encrypted) <= Len(file) + BlockSize
  OBVIOUS
<1> DEFINE m == Len(file) - (Len(file) % BlockSize)
<1>1. file \in Seq(Int) /\ Len(file) \in Nat  BY AllInt, LenProperties
<1>2. /\ Padding(file) \in Seq(Int) /\ Len(Padding(file)) \in 1..BlockSize
      /\ Len(Padding(file)) = BlockSize - (Len(file) % BlockSize)
  BY <1>1, PaddingFacts
<1>3. /\ Encrypted \in Seq(Int)
      /\ Len(Encrypted) = Len(file) + Len(Padding(file))
  BY <1>1, <1>2, ConcatProperties DEF Encrypted
<1>4. m \in Nat /\ m % BlockSize = 0  BY <1>1, SubMod, BlockAssumption
<1>5. Len(file) % BlockSize \in Nat  BY <1>1, DivMod, BlockAssumption
<1>6. Len(Encrypted) = m + BlockSize  BY <1>1, <1>2, <1>3, <1>5, BlockAssumption
<1> HIDE DEF m
<1>7. (m + BlockSize) % BlockSize = BlockSize % BlockSize  BY <1>4, AddMod, BlockAssumption
<1>8. Len(Encrypted) % BlockSize = 0  BY <1>6, <1>7, BlockMod
<1>9. Len(Encrypted) <= Len(file) + BlockSize  BY <1>1, <1>2, <1>3, BlockAssumption
<1> QED BY <1>3, <1>8, <1>9

\* updateEncryption gives out whole blocks and holds back less than one.
LEMMA CompleteFacts ==
  \A t \in Seq(Int) :
    /\ Complete(t) \in 0..Len(t) /\ Complete(t) % BlockSize = 0
    /\ Len(t) - Complete(t) = Len(t) % BlockSize
    /\ Len(t) - Complete(t) < BlockSize
<1> TAKE t \in Seq(Int)
<1>1. Len(t) \in Nat  BY LenProperties
<1>2. Len(t) % BlockSize \in Nat /\ Len(t) % BlockSize < BlockSize
  BY <1>1, DivMod, BlockAssumption
<1>3. /\ Len(t) - (Len(t) % BlockSize) \in Nat
      /\ (Len(t) - (Len(t) % BlockSize)) % BlockSize = 0
  BY <1>1, SubMod, BlockAssumption
<1> QED BY <1>1, <1>2, <1>3 DEF Complete

\* updateDecryption gives out whole blocks and holds back something if it has anything.
LEMMA KeptFacts ==
  \A t \in Seq(Int) :
    /\ Len(t) - Kept(t) \in 0..Len(t) /\ (Len(t) - Kept(t)) % BlockSize = 0
    /\ Kept(t) \in 0..BlockSize
    /\ Kept(t) = 0 => t = << >>
<1> TAKE t \in Seq(Int)
<1>1. Len(t) \in Nat  BY LenProperties
<1>2. CASE t = << >>
  <2>1. Len(t) = 0 /\ Kept(t) = 0  BY <1>2, EmptySeq DEF Kept
  <2>2. Len(t) - Kept(t) = 0  BY <2>1
  <2> QED BY <1>2, <2>1, <2>2, BlockMod, BlockAssumption
<1>3. CASE t # << >>
  <2> DEFINE x == Len(t) - 1
             r == x % BlockSize
  <2>1. x \in Nat  BY <1>1, <1>3, EmptySeq
  <2>2. r \in Nat /\ r < BlockSize  BY <2>1, DivMod, BlockAssumption
  <2>3. x - r \in Nat /\ (x - r) % BlockSize = 0  BY <2>1, SubMod, BlockAssumption
  <2>4. Kept(t) = r + 1  BY <1>3 DEF Kept
  <2> HIDE DEF r
  <2>5. Len(t) - Kept(t) = x - r  BY <1>1, <2>2, <2>4
  <2>6. x - r <= Len(t)  BY <1>1, <2>1, <2>2
  <2>7. Kept(t) \in 0..BlockSize /\ Kept(t) # 0  BY <2>2, <2>4, BlockAssumption
  <2> HIDE DEF x
  <2>8. Len(t) - Kept(t) \in 0..Len(t)  BY <1>1, <2>3, <2>5, <2>6
  <2>9. (Len(t) - Kept(t)) % BlockSize = 0  BY <2>3, <2>5
  <2> QED BY <2>7, <2>8, <2>9
<1> QED BY <1>2, <1>3

-----------------------------------------------------------------------------
(* STOR                                                                     *)

\* What Google decoded, what the cipher holds and what the session has not
\* received are the file, in this order.
Uploading ==
  pc = "stor" => /\ message # "whole" /\ Len(held) < BlockSize
                 /\ message = "open" => (body \o held) \o unread = file

UploadInv == StoredInOrder /\ Uploading

\* What the client has, what the cipher holds and what the session has not
\* received are the file that Google kept, in this order.
Downloading ==
  /\ pc \in {"stor", "answer", "stored"} => sent = << >>
  /\ pc \in {"answer", "stored"} => held = << >>
  /\ pc = "retr" => /\ (sent \o held) \o rest = body
                    /\ Len(sent) % BlockSize = 0
                    /\ held = << >> => sent = << >>

\* The encrypted file begins as the file does.
LEMMA EncryptedPrefix ==
  ASSUME TypeOK, NEW u \in Seq(Int), NEW v \in Seq(Int), u \o v = file
  PROVE  IsPrefixOf(u, Encrypted)
<1> DEFINE g == Padding(file)
<1>1. file \in Seq(Int) /\ g \in Seq(Int)  BY AllInt, PaddingFacts
<1> HIDE DEF g
<1>2. v \o g \in Seq(Int)  BY <1>1, ConcatProperties
<1>3. (u \o v) \o g = u \o (v \o g)  BY <1>1, ConcatInt, ZenonT(30)
<1>4. IsPrefixOf(u, u \o (v \o g))  BY <1>2, PrefixOfConcat
<1>5. Encrypted = u \o (v \o g)  BY <1>3 DEF Encrypted, g
<1> QED BY <1>4, <1>5

\* A recv of STOR, for each number of bytes that it returns.
LEMMA UploadRead ==
  ASSUME TypeOK, UploadInv, Downloading, StorRead
  PROVE  TypeOK' /\ UploadInv' /\ Downloading'
<1>1. PICK n \in 1..Len(unread) :
        /\ unread' = After(unread, n)
        /\ held' = After(held \o First(unread, n), Complete(held \o First(unread, n)))
        /\ Upload(First(held \o First(unread, n), Complete(held \o First(unread, n))))
  BY DEF StorRead
<1> DEFINE r == First(unread, n)
           taken == held \o r
           data == First(taken, Complete(taken))
<1>2. /\ pc = "stor" /\ pc' = pc /\ file' = file /\ rest' = rest
      /\ piece' = piece /\ sent' = sent
  BY DEF StorRead
<1>3. /\ Len(unread) \in Nat /\ n \in 0..Len(unread)
      /\ unread \in Seq(0..MaxSize) /\ unread \in Seq(1..MaxSize)
      /\ held \in Seq(0..MaxSize) /\ body \in Seq(0..MaxSize)
  BY LenProperties, AllInt DEF TypeOK
<1>4. r \in Seq(0..MaxSize) /\ unread' \in Seq(1..MaxSize) /\ r \o unread' = unread
  BY <1>1, <1>3, Cut
<1>5. taken \in Seq(0..MaxSize)  BY <1>3, <1>4, ConcatProperties
<1>6. 0..MaxSize \subseteq Int /\ 1..MaxSize \subseteq Int  OBVIOUS
<1>7. /\ r \in Seq(Int) /\ taken \in Seq(Int) /\ held \in Seq(Int) /\ body \in Seq(Int)
      /\ unread' \in Seq(Int)
  BY <1>3, <1>4, <1>5, <1>6, SeqSubset
<1> HIDE DEF r
<1>8. /\ Complete(taken) \in 0..Len(taken) /\ Complete(taken) % BlockSize = 0
      /\ Len(taken) - Complete(taken) < BlockSize
  BY <1>7, CompleteFacts
<1>9. held' = After(taken, Complete(taken)) /\ Upload(data)  BY <1>1 DEF r
<1> HIDE DEF taken, data
<1> DEFINE k == Complete(taken)
<1>10. k \in 0..Len(taken) /\ held' = After(taken, k) /\ data = First(taken, k)
  BY <1>8, <1>9 DEF data
<1> HIDE DEF k
<1>11. /\ data \in Seq(0..MaxSize) /\ Len(data) = k
       /\ held' \in Seq(0..MaxSize) /\ Len(held') = Len(taken) - k
       /\ data \o held' = taken
  BY <1>5, <1>10, Cut
<1>12. /\ data \in Seq(0..MaxSize) /\ Len(data) = Complete(taken)
       /\ held' \in Seq(0..MaxSize) /\ Len(held') = Len(taken) - Complete(taken)
       /\ data \o held' = taken
  BY <1>11 DEF k
<1>13. Len(held') < BlockSize /\ Len(data) % BlockSize = 0  BY <1>8, <1>12
<1>14. held' \in Seq(Int) /\ data \in Seq(Int)  BY <1>12, <1>6, SeqSubset
<1>15. body \o data \in Seq(0..MaxSize) /\ Len(body \o data) = Len(body) + Len(data)
  BY <1>3, <1>12, ConcatProperties
<1>16. body' \in Seq(0..MaxSize) /\ message' \in {"open", "short"}
  BY <1>2, <1>3, <1>9, <1>15 DEF Upload, TypeOK, UploadInv, Uploading
<1>17. TypeOK'
  <2>1. Len(held') \in Nat  BY <1>12, LenProperties
  <2>2. Len(held') <= BlockSize  BY <1>13, <2>1, BlockAssumption
  <2> QED BY <1>2, <1>4, <1>12, <1>16, <2>2 DEF TypeOK
<1>18. message = "open" => ((body \o data) \o held') \o unread' = file
  <2> HAVE message = "open"
  <2>1. (body \o data) \o held' = body \o taken  BY <1>7, <1>12, <1>14, ConcatInt, ZenonT(30)
  <2>2. body \o taken = (body \o held) \o r  BY <1>7, ConcatInt DEF taken
  <2>3. body \o held \in Seq(Int)  BY <1>7, ConcatProperties
  <2>4. ((body \o held) \o r) \o unread' = (body \o held) \o unread
    BY <1>4, <1>7, <2>3, ConcatInt
  <2> QED BY <1>2, <2>1, <2>2, <2>4 DEF UploadInv, Uploading
<1>19. Encrypted' = Encrypted  BY <1>2 DEF Encrypted, Padding
<1>20. IsPrefixOf(body', Encrypted)
  <2>1. CASE message # "open"
    BY <1>9, <2>1 DEF Upload, UploadInv, StoredInOrder
  <2>2. CASE message = "open"
    <3> DEFINE u == body \o data
               v == held' \o unread'
               h == held'
               w == unread'
    <3>1. u \in Seq(Int) /\ h \in Seq(Int) /\ w \in Seq(Int)
      BY <1>7, <1>14, ConcatProperties
    <3>2. (u \o h) \o w = file  BY <1>18, <2>2
    <3> HIDE DEF u, h, w
    <3>3. (u \o h) \o w = u \o (h \o w) /\ h \o w \in Seq(Int)
      BY <3>1, ConcatInt, ConcatProperties
    <3>4. v = h \o w  BY DEF h, w
    <3> HIDE DEF v
    <3>5. u \o v = file /\ v \in Seq(Int)  BY <3>2, <3>3, <3>4
    <3>6. IsPrefixOf(u, Encrypted)  BY <3>1, <3>5, EncryptedPrefix
    <3> QED BY <1>9, <2>2, <3>6 DEF u, Upload
  <2> QED BY <2>1, <2>2
<1>21. Len(body') % BlockSize = 0
  <2>1. CASE message # "open"
    BY <1>9, <2>1 DEF Upload, UploadInv, StoredInOrder
  <2>2. CASE message = "open"
    <3>1. Len(body) \in Nat /\ Len(data) \in Nat  BY <1>7, <1>14, LenProperties
    <3>2. Len(body) % BlockSize = 0  BY DEF UploadInv, StoredInOrder
    <3>3. (Len(body) + Len(data)) % BlockSize = Len(data) % BlockSize
      BY <3>1, <3>2, AddMod, BlockAssumption
    <3> QED BY <1>9, <1>13, <1>15, <2>2, <3>3 DEF Upload
  <2> QED BY <2>1, <2>2
<1>22. StoredInOrder'  BY <1>16, <1>19, <1>20, <1>21 DEF StoredInOrder, IsPrefixOf
<1>23. Uploading'
  <2>1. message' # "whole"  BY <1>16
  <2>2. message' = "open" => ((body' \o held') \o unread' = file')
    BY <1>2, <1>9, <1>18 DEF Upload
  <2> QED BY <1>13, <2>1, <2>2 DEF Uploading
<1> QED BY <1>2, <1>17, <1>22, <1>23 DEF UploadInv, Downloading

\* The end of STOR: the padding is that of the whole file.
LEMMA UploadEnd ==
  ASSUME TypeOK, UploadInv, Downloading, StorEnd
  PROVE  TypeOK' /\ UploadInv' /\ Downloading'
<1> DEFINE p == Padding(held)
<1>1. /\ pc = "stor" /\ unread = << >> /\ pc' = "answer" /\ held' = << >>
      /\ body' = IF message = "open" THEN body \o held \o p ELSE body
      /\ message' = IF message = "open" THEN "whole" ELSE message
      /\ UNCHANGED <<file, unread, rest, piece, sent>>
  BY DEF StorEnd
<1>2. /\ body \in Seq(Int) /\ held \in Seq(Int) /\ file \in Seq(Int)
      /\ held \in Seq(0..MaxSize) /\ body \in Seq(0..MaxSize)
  BY AllInt DEF TypeOK
<1>3. p \in Seq(Int) /\ p \in Seq(0..MaxSize)  BY <1>2, PaddingFacts
<1>4. Encrypted' = Encrypted  BY <1>1 DEF Encrypted, Padding
<1>5. body \o held \in Seq(0..MaxSize) /\ body \o held \in Seq(Int)
      /\ Len(body \o held) = Len(body) + Len(held)
  BY <1>2, ConcatProperties
<1>6. message = "open" => body \o held = file /\ p = Padding(file)
  <2> HAVE message = "open"
  <2>1. (body \o held) \o << >> = body \o held  BY <1>5, ConcatEmptySeq
  <2>2. body \o held = file  BY <1>1, <2>1 DEF UploadInv, Uploading
  <2>3. Len(body) % BlockSize = 0  BY DEF UploadInv, StoredInOrder
  <2>4. Len(body) \in Nat /\ Len(held) \in Nat  BY <1>2, LenProperties
  <2>5. (Len(body) + Len(held)) % BlockSize = Len(held) % BlockSize
    BY <2>3, <2>4, AddMod, BlockAssumption
  <2>6. Len(file) % BlockSize = Len(held) % BlockSize  BY <1>5, <2>2, <2>5
  <2> QED BY <2>2, <2>6 DEF Padding
<1>7. message = "open" => body' = Encrypted  BY <1>1, <1>6 DEF Encrypted
<1>8. message # "open" => body' = body /\ message' = message  BY <1>1
<1>9. message # "whole"  BY <1>1 DEF UploadInv, Uploading
<1>10. StoredInOrder'
  <2>1. CASE message = "open"
    <3>1. /\ Encrypted \in Seq(Int) /\ Len(Encrypted) % BlockSize = 0
          /\ Len(Encrypted) \in Nat
      BY EncryptedFacts, LenProperties
    <3>2. Encrypted = First(Encrypted, Len(Encrypted))  BY <3>1, SubSeqFull DEF First
    <3> QED BY <1>4, <1>7, <2>1, <3>1, <3>2 DEF StoredInOrder, IsPrefixOf
  <2>2. CASE message # "open"
    BY <1>4, <1>8, <1>9, <2>2 DEF StoredInOrder, UploadInv, IsPrefixOf
  <2> QED BY <2>1, <2>2
<1>11. TypeOK'
  <2> HIDE DEF p
  <2>1. (body \o held) \o p \in Seq(0..MaxSize)  BY <1>3, <1>5, ConcatProperties
  <2>2. body' \in Seq(0..MaxSize)  BY <1>1, <1>2, <2>1
  <2>3. << >> \in Seq(0..MaxSize) /\ Len(<< >>) = 0  BY EmptySeq
  <2> QED BY <1>1, <2>2, <2>3, BlockAssumption DEF TypeOK
<1>12. Uploading' /\ Downloading'  BY <1>1 DEF Uploading, Downloading
<1> QED BY <1>10, <1>11, <1>12 DEF UploadInv

-----------------------------------------------------------------------------
(* RETR                                                                     *)

\* RETR has sent whole blocks, and the cipher holds at least a byte back, so
\* that what is sent ends before the last block, the only one with padding.
LEMMA SentBeforePadding ==
  ASSUME TypeOK, StoredInOrder, Downloading, pc = "retr"
  PROVE  IsPrefixOf(sent, file)
<1>1. /\ sent \in Seq(Int) /\ held \in Seq(Int) /\ rest \in Seq(Int) /\ body \in Seq(Int)
      /\ file \in Seq(Int)
  BY AllInt
<1>2. /\ (sent \o held) \o rest = body /\ Len(sent) % BlockSize = 0
      /\ held = << >> => sent = << >>
  BY DEF Downloading
<1>3. Padding(file) \in Seq(Int)  BY <1>1, PaddingFacts
<1> DEFINE v == held \o rest
           g == Padding(file)
           e == Encrypted
           z == After(e, Len(body))
<1>4. v \in Seq(Int) /\ Len(v) = Len(held) + Len(rest)  BY <1>1, ConcatProperties
<1>5. sent \o v = body
  <2>1. sent \in Seq(Int) /\ held \in Seq(Int) /\ rest \in Seq(Int)  BY <1>1
  <2>2. (sent \o held) \o rest = sent \o (held \o rest)  BY <2>1, ConcatInt
  <2> QED BY <1>2, <2>2
<1>6. e \in Seq(Int) /\ Len(e) % BlockSize = 0 /\ Len(e) <= Len(file) + BlockSize
  BY EncryptedFacts
<1>7. IsPrefixOf(body, e)  BY DEF StoredInOrder
<1> HIDE DEF v, g, z
<1>8. z \in Seq(Int) /\ body \o z = e  BY <1>1, <1>6, <1>7, PrefixSplits DEF z
<1>9. v \o z \in Seq(Int) /\ sent \o (v \o z) = file \o g
  <2>1. v \o z \in Seq(Int)  BY <1>4, <1>8, ConcatProperties
  <2>2. (sent \o v) \o z = sent \o (v \o z)
    <3>1. sent \in Seq(Int) /\ v \in Seq(Int) /\ z \in Seq(Int)  BY <1>1, <1>4, <1>8
    <3> QED BY <3>1, ConcatInt
  <2> QED BY <1>5, <1>8, <2>1, <2>2 DEF Encrypted, g
<1>10. Len(sent) <= Len(file)
  <2>1. /\ Len(sent) \in Nat /\ Len(held) \in Nat /\ Len(rest) \in Nat /\ Len(file) \in Nat
        /\ Len(e) \in Nat /\ Len(body) \in Nat
    BY <1>1, <1>6, LenProperties
  <2>2. CASE held = << >>
    <3>1. Len(sent) = 0  BY <1>2, <2>2, EmptySeq
    <3> QED BY <2>1, <3>1
  <2>3. CASE held # << >>
    <3>1. Len(held) # 0  BY <1>1, <2>3, EmptySeq
    <3>2. Len(body) = Len(sent) + (Len(held) + Len(rest))
      <4>1. sent \in Seq(Int) /\ v \in Seq(Int)  BY <1>1, <1>4
      <4>2. Len(sent \o v) = Len(sent) + Len(v)  BY <4>1, ConcatProperties
      <4> QED BY <1>4, <1>5, <4>2
    <3>3. Len(body) <= Len(e)  BY <1>7 DEF IsPrefixOf
    <3>4. Len(sent) < Len(e)  BY <2>1, <3>1, <3>2, <3>3
    <3>5. Len(sent) + BlockSize <= Len(e)
      BY <1>2, <1>6, <2>1, <3>4, MultipleGap, BlockAssumption
    <3> QED BY <1>6, <2>1, <3>5, BlockAssumption
  <2> QED BY <2>2, <2>3
<1>11. g \in Seq(Int)  BY <1>3 DEF g
<1> QED BY <1>1, <1>9, <1>10, <1>11, TwoPrefixes

\* Inv is inductive: what Google decodes, what RETR has sent, and, at the end,
\* the whole file.
Inv == TypeOK /\ UploadInv /\ Downloading /\ RoundTrip

\* RETR starts with an empty cipher context.
LEMMA DownloadStart ==
  ASSUME Inv, Retr
  PROVE  Inv'
<1>1. /\ pc = "stored" /\ pc' = "retr" /\ rest' = body /\ piece' \in {<< >>, <<Junk>>}
      /\ UNCHANGED <<file, unread, held, body, message, sent>>
  BY DEF Retr
<1>2. held = << >> /\ sent = << >>  BY <1>1 DEF Inv, Downloading
<1>3. body \in Seq(Int)  BY AllInt DEF Inv
<1>4. (<< >> \o << >>) \o body = body  BY <1>3, ConcatEmptySeq, EmptySeq
<1>5. Len(<< >>) = 0  BY EmptySeq
<1>6. Downloading'
  BY <1>1, <1>2, <1>4, <1>5, BlockMod DEF Downloading
<1>7. piece' \in Seq(-1..MaxSize)
  <2>1. -1 \in -1..MaxSize  BY BlockAssumption
  <2>2. <<Junk>> \in Seq(-1..MaxSize)  BY <2>1
  <2>3. << >> \in Seq(-1..MaxSize)  BY EmptySeq
  <2> QED BY <1>1, <2>2, <2>3
<1>8. TypeOK'  BY <1>1, <1>7 DEF Inv, TypeOK
<1>9. UploadInv'
  BY <1>1 DEF Inv, UploadInv, StoredInOrder, Uploading, Encrypted, Padding,
              IsPrefixOf, First
<1> QED BY <1>1, <1>6, <1>8, <1>9 DEF Inv, RoundTrip

\* A piece of the download, of any size.
LEMMA DownloadRead ==
  ASSUME Inv, RetrRead
  PROVE  Inv'
<1>1. PICK n \in 1..Len(rest) :
        LET taken == held \o First(rest, n)
            given == Len(taken) - Kept(taken)
        IN  /\ rest' = After(rest, n)
            /\ held' = After(taken, given)
            /\ piece' = First(taken, given)
  BY DEF RetrRead
<1>2. /\ pc = "retr" /\ pc' = pc /\ sent' = sent \o piece'
      /\ UNCHANGED <<file, unread, body, message>>
  BY DEF RetrRead
<1> DEFINE r == First(rest, n)
           taken == held \o r
           given == Len(taken) - Kept(taken)
           h == held'
           p == piece'
           w == rest'
<1>3. /\ Len(rest) \in Nat /\ n \in 0..Len(rest) /\ n # 0
      /\ rest \in Seq(0..MaxSize) /\ held \in Seq(0..MaxSize)
      /\ sent \in Seq(Int) /\ rest \in Seq(Int) /\ held \in Seq(Int)
      /\ sent \in Seq(-1..MaxSize)
  BY AllInt, LenProperties DEF Inv, TypeOK
<1>4. w = After(rest, n) /\ h = After(taken, given) /\ p = First(taken, given)
  BY <1>1
<1> HIDE DEF h, p, w
<1>5. /\ r \in Seq(0..MaxSize) /\ Len(r) = n /\ w \in Seq(0..MaxSize) /\ r \o w = rest
  BY <1>3, <1>4, Cut
<1> HIDE DEF r
<1>6. taken \in Seq(0..MaxSize) /\ Len(taken) = Len(held) + Len(r)
  BY <1>3, <1>5, ConcatProperties
<1>7. 0..MaxSize \subseteq Int /\ 0..MaxSize \subseteq -1..MaxSize  BY BlockAssumption
<1>8. r \in Seq(Int) /\ w \in Seq(Int) /\ taken \in Seq(Int)
  BY <1>5, <1>6, <1>7, SeqSubset
<1>9. taken # << >>
  <2>1. Len(held) \in Nat /\ Len(taken) # 0  BY <1>3, <1>5, <1>6, LenProperties
  <2> QED BY <2>1, EmptySeq
<1> HIDE DEF taken
<1>10. /\ given \in 0..Len(taken) /\ given % BlockSize = 0
       /\ Kept(taken) \in 0..BlockSize /\ Kept(taken) # 0
  BY <1>8, <1>9, KeptFacts
<1>11. Len(taken) \in Nat /\ Len(taken) - given = Kept(taken)
  BY <1>8, <1>10, LenProperties
<1> HIDE DEF given
<1>12. /\ p \in Seq(0..MaxSize) /\ Len(p) = given
       /\ h \in Seq(0..MaxSize) /\ Len(h) = Len(taken) - given
       /\ p \o h = taken
  <2>1. /\ taken \in Seq(0..MaxSize) /\ given \in 0..Len(taken)
        /\ h = After(taken, given) /\ p = First(taken, given)
    BY <1>4, <1>6, <1>10
  <2> QED BY <2>1, Cut
<1>13. p \in Seq(Int) /\ h \in Seq(Int) /\ p \in Seq(-1..MaxSize)
  BY <1>7, <1>12, SeqSubset
<1>14. /\ sent \o p \in Seq(-1..MaxSize) /\ sent \o p \in Seq(Int)
       /\ Len(sent \o p) = Len(sent) + Len(p)
  BY <1>3, <1>13, ConcatProperties
<1>15. ((sent \o p) \o h) \o w = body
  <2>1. (sent \o p) \o h = sent \o taken  BY <1>3, <1>12, <1>13, ConcatInt, ZenonT(30)
  <2>2. sent \o (held \o r) = (sent \o held) \o r  BY <1>3, <1>8, ConcatInt, ZenonT(30)
  <2>3. sent \o held \in Seq(Int)  BY <1>3, ConcatProperties
  <2>4. ((sent \o held) \o r) \o w = (sent \o held) \o (r \o w)
    BY <1>8, <2>3, ConcatInt
  <2>5. (sent \o held) \o rest = body  BY <1>2 DEF Inv, Downloading
  <2> QED BY <1>5, <2>1, <2>2, <2>4, <2>5 DEF taken
<1>16. Len(sent \o p) % BlockSize = 0
  <2>1. Len(sent) % BlockSize = 0  BY <1>2 DEF Inv, Downloading
  <2>2. Len(sent) \in Nat /\ given \in Nat  BY <1>3, <1>10, <1>11, LenProperties
  <2>3. (Len(sent) + given) % BlockSize = given % BlockSize
    BY <2>1, <2>2, AddMod, BlockAssumption
  <2> QED BY <1>10, <1>12, <1>14, <2>3
<1>17. Len(h) \in 0..BlockSize /\ h # << >>
  BY <1>10, <1>11, <1>12, EmptySeq
<1>18. Downloading'
  BY <1>2, <1>15, <1>16, <1>17 DEF Downloading, h, p, w
<1>19. TypeOK'
  BY <1>2, <1>5, <1>12, <1>13, <1>14, <1>17 DEF Inv, TypeOK, h, p, w
<1>20. UploadInv'
  BY <1>2 DEF Inv, UploadInv, StoredInOrder, Uploading, Encrypted, Padding,
              IsPrefixOf, First
<1> QED BY <1>2, <1>18, <1>19, <1>20 DEF Inv, RoundTrip

\* At the end of a file that Google kept whole the cipher holds one block, and
\* its padding can be told from the bytes of the file.
LEMMA LastBlock ==
  ASSUME Inv, pc = "retr", rest = << >>, message = "whole"
  PROVE  /\ ~ MayFail
         /\ \A n \in PaddingLengths :
              n \in 1..BlockSize /\ sent \o First(held, BlockSize - n) = file
<1> DEFINE b == BlockSize
           q == Len(Padding(file))
           g == Padding(file)
<1>1. /\ TypeOK /\ StoredInOrder /\ Downloading
      /\ sent \in Seq(Int) /\ held \in Seq(Int) /\ file \in Seq(Int)
      /\ file \in Seq(1..MaxSize)
      /\ Len(held) <= b /\ b \in Nat \ {0}
  BY AllInt, BlockAssumption DEF Inv, UploadInv, TypeOK
<1>2. sent \o held \in Seq(Int) /\ Len(sent \o held) = Len(sent) + Len(held)
  BY <1>1, ConcatProperties
<1>3. body = Encrypted  BY <1>1 DEF StoredInOrder
<1>4. (sent \o held) \o rest = sent \o held  BY <1>2, ConcatEmptySeq
<1>5. sent \o held = file \o g /\ Len(sent) % b = 0 /\ (held = << >> => sent = << >>)
  BY <1>1, <1>3, <1>4 DEF Downloading, Encrypted
<1>6. /\ g \in Seq(Int) /\ q \in 1..b /\ Len(g) = q
      /\ \A i \in 1..q : g[i] = Pad
  BY <1>1, PaddingFacts
<1>7. Len(sent) \in Nat /\ Len(held) \in Nat /\ Len(file) \in Nat
  BY <1>1, LenProperties
<1>8. /\ Len(Encrypted) % b = 0 /\ Len(Encrypted) = Len(file) + q
  BY <1>1, EncryptedFacts
<1> HIDE DEF q, g
<1>9. Len(sent) + Len(held) = Len(file) + q
  <2>1. Len(file \o g) = Len(file) + Len(g)  BY <1>1, <1>6, ConcatProperties
  <2> QED BY <1>2, <1>5, <1>6, <2>1
<1>10. held # << >>
  <2>1. held = << >> => Len(sent) = 0 /\ Len(held) = 0  BY <1>5, EmptySeq
  <2> QED BY <1>6, <1>7, <1>9, <2>1
<1>11. Len(held) = b
  <2>1. Len(held) # 0  BY <1>1, <1>10, EmptySeq
  <2>2. (Len(sent) + Len(held)) % b = 0  BY <1>8, <1>9
  <2>3. Len(sent) + Len(held) \in Nat /\ Len(sent) < Len(sent) + Len(held)  BY <1>7, <2>1
  <2> DEFINE m == Len(sent) + Len(held)
  <2>4. m \in Nat /\ m % b = 0 /\ Len(sent) < m  BY <2>2, <2>3
  <2> HIDE DEF b, m
  <2>5. Len(sent) + b <= m  BY <1>1, <1>5, <1>7, <2>4, MultipleGap
  <2> QED BY <1>1, <1>7, <2>5 DEF m
<1>12. \A i \in 1..b : held[i] = (file \o g)[Len(sent) + i]
  <2> TAKE i \in 1..b
  <2>1. Len(sent) + i \in Len(sent) + 1..Len(sent) + Len(held)  BY <1>1, <1>7, <1>11
  <2>2. (sent \o held)[Len(sent) + i] = held[(Len(sent) + i) - Len(sent)]
    BY <1>1, <1>7, <2>1, ConcatProperties
  <2>3. (Len(sent) + i) - Len(sent) = i  BY <1>7
  <2> QED BY <1>5, <2>2, <2>3
<1>13. \A i \in 1..b : held[i] = Pad <=> i > b - q
  <2> TAKE i \in 1..b
  <2> DEFINE k == Len(sent) + i
  <2>1. k \in 1..Len(file) + q /\ (k > Len(file) <=> i > b - q)
    BY <1>1, <1>6, <1>7, <1>9, <1>11
  <2> HIDE DEF k
  <2>2. CASE k <= Len(file)
    <3>1. k \in 1..Len(file)  BY <1>7, <2>1, <2>2
    <3>2. (file \o g)[k] = file[k]  BY <1>1, <1>6, <3>1, ConcatProperties
    <3>3. file[k] \in 1..MaxSize  BY <1>1, <3>1, ElementOfSeq
    <3>4. held[i] = (file \o g)[k]  BY <1>12 DEF k
    <3>5. file[k] # Pad  BY <3>3
    <3> QED BY <1>1, <1>6, <1>7, <2>1, <2>2, <3>2, <3>4, <3>5
  <2>3. CASE k > Len(file)
    <3>1. k \in Len(file) + 1..Len(file) + Len(g)  BY <1>6, <1>7, <2>1, <2>3
    <3>2. (file \o g)[k] = g[k - Len(file)]  BY <1>1, <1>6, <3>1, ConcatProperties
    <3>3. k - Len(file) \in 1..q  BY <1>6, <1>7, <3>1
    <3>4. held[i] = Pad  BY <1>6, <1>12, <3>2, <3>3 DEF k
    <3> QED BY <2>1, <2>3, <3>4
  <2> QED BY <1>7, <2>1, <2>2, <2>3
<1>14. b \in 1..b /\ b > b - q  BY <1>1, <1>6
<1>15. held[b] = Pad  BY <1>13, <1>14
<1>16. ~ MayFail
  <2>1. DOMAIN held = 1..b  BY <1>1, <1>11, LenProperties
  <2> QED BY <1>14, <1>15, <2>1 DEF MayFail
<1>17. \A n \in PaddingLengths : n = q
  <2> TAKE n \in PaddingLengths
  <2>1. n \in 1..b /\ \A i \in 1..b : held[i] = Pad <=> i > b - n
    BY <1>11, <1>15 DEF PaddingLengths
  <2>2. \A i \in 1..b : i > b - q <=> i > b - n  BY <1>13, <2>1
  <2>3. b - q + 1 \in 1..b /\ b - n + 1 \in 1..b  BY <1>1, <1>6, <2>1
  <2>4. b - q + 1 > b - n /\ b - n + 1 > b - q
    <3>1. b - q + 1 > b - q /\ b - n + 1 > b - n  BY <1>1, <1>6, <2>1
    <3> QED BY <2>2, <2>3, <3>1
  <2> QED BY <1>1, <1>6, <2>1, <2>4
<1>18. sent \o First(held, b - q) = file
  <2> DEFINE h == First(held, b - q)
             t == After(held, b - q)
  <2>1. b - q \in 0..Len(held)  BY <1>1, <1>6, <1>11
  <2>2. h \in Seq(Int) /\ Len(h) = b - q /\ t \in Seq(Int) /\ h \o t = held
    BY <1>1, <2>1, Cut, ZenonT(30)
  <2> HIDE DEF h, t
  <2>3. (sent \o h) \o t = file \o g
    <3>1. sent \in Seq(Int) /\ h \in Seq(Int) /\ t \in Seq(Int)  BY <1>1, <2>2
    <3>2. (sent \o h) \o t = sent \o (h \o t)  BY <3>1, ConcatInt
    <3> QED BY <1>5, <2>2, <3>2
  <2>4. sent \o h \in Seq(Int) /\ Len(sent \o h) = Len(sent) + Len(h)
    BY <1>1, <2>2, ConcatProperties
  <2>5. Len(sent \o h) = Len(file)  BY <1>1, <1>6, <1>7, <1>9, <1>11, <2>2, <2>4
  <2> DEFINE u == sent \o h
  <2>6. u \in Seq(Int) /\ u \o t = file \o g /\ Len(u) = Len(file)  BY <2>3, <2>4, <2>5
  <2> HIDE DEF u
  <2>7. IsPrefixOf(u, file)
    <3>1. u \in Seq(Int) /\ t \in Seq(Int) /\ file \in Seq(Int) /\ g \in Seq(Int)
      BY <1>1, <1>6, <2>2, <2>6
    <3>2. u \o t = file \o g /\ Len(u) <= Len(file)  BY <1>7, <2>6
    <3> QED BY <3>1, <3>2, TwoPrefixes
  <2>8. First(file, Len(file)) = file  BY <1>1, SubSeqFull DEF First
  <2>9. u = file  BY <2>6, <2>7, <2>8 DEF IsPrefixOf
  <2> QED BY <2>9 DEF u, h
<1> QED BY <1>6, <1>16, <1>17, <1>18

\* The end of RETR, after the whole response or where Google cut it, whether or
\* not the padding is found.
LEMMA DownloadEnd ==
  ASSUME Inv, RetrEnd \/ RetrCut
  PROVE  Inv'
<1>1. /\ pc = "retr" /\ pc' \in {"done", "cut"} /\ held' = << >>
      /\ pc' = "done" => rest = << >>
      /\ sent' = sent \o piece'
      /\ UNCHANGED <<file, unread, body, message, rest>>
      /\ \/ \E n \in PaddingLengths : piece' = First(held, BlockSize - n)
         \/ MayFail /\ UNCHANGED piece
  BY DEF RetrEnd, RetrCut, RetrFinish
<1>2. piece' \in Seq(-1..MaxSize)
  <2>1. CASE piece' = piece  BY <2>1 DEF Inv, TypeOK
  <2>2. ASSUME NEW n \in PaddingLengths, piece' = First(held, BlockSize - n)
        PROVE  piece' \in Seq(-1..MaxSize)
    <3>1. Len(held) = BlockSize /\ n \in 1..BlockSize  BY DEF PaddingLengths
    <3>2. BlockSize - n \in 0..Len(held)  BY <3>1, BlockAssumption
    <3>3. held \in Seq(-1..MaxSize)  BY AllInt DEF Inv
    <3>4. First(held, BlockSize - n) \in Seq(-1..MaxSize)  BY <3>2, <3>3, Cut
    <3> QED BY <2>2, <3>4
  <2> QED BY <1>1, <2>1, <2>2
<1>3. sent' \in Seq(-1..MaxSize)
  <2>1. sent \in Seq(-1..MaxSize)  BY DEF Inv, TypeOK
  <2> QED BY <1>1, <1>2, <2>1, ConcatProperties
<1>4. << >> \in Seq(0..MaxSize) /\ Len(<< >>) <= BlockSize  BY EmptySeq, BlockAssumption
<1>5. TypeOK'  BY <1>1, <1>2, <1>3, <1>4 DEF Inv, TypeOK
<1>6. UploadInv'
  BY <1>1 DEF Inv, UploadInv, StoredInOrder, Uploading, Encrypted, Padding,
              IsPrefixOf, First
<1>7. Downloading'  BY <1>1 DEF Downloading
<1>8. RoundTrip'
  <2> SUFFICES ASSUME pc' = "done", message = "whole" PROVE sent' = file
    BY <1>1 DEF RoundTrip
  <2> QED BY <1>1, LastBlock
<1> QED BY <1>5, <1>6, <1>7, <1>8 DEF Inv

-----------------------------------------------------------------------------

\* Every file is in order before it is sent.
LEMMA InvInit == Init => Inv
<1> SUFFICES ASSUME Init PROVE Inv  OBVIOUS
<1>1. PICK n \in 0..MaxSize : file = [i \in 1..n |-> i]  BY DEF Init
<1>2. n \in Nat /\ 1..n \subseteq 1..MaxSize  BY BlockAssumption
<1>3. file \in Seq(1..MaxSize)
  <2>1. file \in [1..n -> 1..MaxSize]  BY <1>1, <1>2
  <2> QED BY <1>2, <2>1, SeqDef
<1>4. << >> \in Seq(0..MaxSize) /\ << >> \in Seq(-1..MaxSize) /\ Len(<< >>) = 0
  BY EmptySeq
<1>5. TypeOK  BY <1>3, <1>4, BlockAssumption DEF Init, TypeOK
<1>6. Encrypted \in Seq(Int) /\ file \in Seq(Int)  BY <1>5, EncryptedFacts, AllInt
<1>7. IsPrefixOf(<< >>, Encrypted)
  <2>1. << >> \o Encrypted = Encrypted /\ << >> \in Seq(Int)
    BY <1>6, ConcatEmptySeq, EmptySeq
  <2> QED BY <1>6, <2>1, PrefixOfConcat
<1>8. (<< >> \o << >>) \o file = file  BY <1>6, ConcatEmptySeq, EmptySeq
<1>9. UploadInv
  BY <1>4, <1>7, <1>8, BlockMod, BlockAssumption
     DEF Init, UploadInv, StoredInOrder, Uploading
<1> QED BY <1>5, <1>9 DEF Init, Inv, Downloading, RoundTrip

\* No step disturbs the order.
LEMMA InvNext == Inv /\ [Next]_vars => Inv'
<1> SUFFICES ASSUME Inv, [Next]_vars PROVE Inv'  OBVIOUS
<1>1. CASE StorRead
  <2>1. TypeOK' /\ UploadInv' /\ Downloading'  BY <1>1, UploadRead DEF Inv
  <2> QED BY <1>1, <2>1 DEF Inv, RoundTrip, StorRead
<1>2. CASE StorEnd
  <2>1. TypeOK' /\ UploadInv' /\ Downloading'  BY <1>2, UploadEnd DEF Inv
  <2> QED BY <1>2, <2>1 DEF Inv, RoundTrip, StorEnd
<1>3. CASE StorCreate \/ StorNoAnswer
  <2>1. /\ pc = "answer" /\ pc' \in {"stored", "dead", "stuck"}
        /\ UNCHANGED <<file, unread, held, body, message, rest, piece, sent>>
    BY <1>3 DEF StorCreate, StorNoAnswer
  <2> QED BY <2>1 DEF Inv, TypeOK, UploadInv, StoredInOrder, Uploading, Downloading,
                      RoundTrip, Encrypted, Padding, IsPrefixOf, First
<1>4. CASE Retr  BY <1>4, DownloadStart
<1>5. CASE RetrRead  BY <1>5, DownloadRead
<1>6. CASE RetrEnd \/ RetrCut  BY <1>6, DownloadEnd
<1>7. CASE UNCHANGED vars
  BY <1>7 DEF vars, Inv, TypeOK, UploadInv, StoredInOrder, Uploading, Downloading,
              RoundTrip, Encrypted, Padding, IsPrefixOf, First
<1> QED BY <1>1, <1>2, <1>3, <1>4, <1>5, <1>6, <1>7 DEF Next

\* The invariant holds of every run of STOR and RETR.
THEOREM InvHolds == Spec => []Inv
BY InvInit, InvNext, PTL DEF Spec

\* The types of every variable, and a cipher context that never holds more than
\* one block (crypto.c).
THEOREM TransferTyped == Spec => []TypeOK
<1>1. Inv => TypeOK  BY DEF Inv
<1> QED BY <1>1, InvHolds, PTL

\* STOR: whatever the sizes that recv returns, the chunks Google decodes are
\* whole blocks of the encrypted file, in order and without a gap, and all of
\* them if no empty chunk ended the request.
THEOREM TransferStoresInOrder == Spec => []StoredInOrder
<1>1. Inv => StoredInOrder  BY DEF Inv, UploadInv
<1> QED BY <1>1, InvHolds, PTL

\* RETR: what the client has before the download is finished is the beginning
\* of the file, without padding, also when Google has only a part of it.
THEOREM TransferSendsInOrder == Spec => []SentInOrder
<1>1. Inv => SentInOrder  BY SentBeforePadding DEF Inv, UploadInv, SentInOrder
<1> QED BY <1>1, InvHolds, PTL

\* STOR and RETR are inverse: a file stored whole comes back byte for byte.
THEOREM TransferRoundTrip == Spec => []RoundTrip
<1>1. Inv => RoundTrip  BY DEF Inv
<1> QED BY <1>1, InvHolds, PTL
=============================================================================
