------------------------- MODULE VfpgaConfigProofs -------------------------
(***************************************************************************)
(* Proofs about VfpgaConfig, for every set of counts and paddings, of      *)
(* places where writing breaks off and of bytes that rot.                  *)
(*                                                                         *)
(* What load() accepts from an undamaged file is what was last saved: it   *)
(* has all its bytes, and the file is always a beginning of what was sent. *)
(* Nothing is assumed of the checksum for that.                            *)
(*                                                                         *)
(* The checksum is low + 256 * high, and the sum it is compared with has   *)
(* low and high in it and cannot overflow; so bytes are valid only when the*)
(* others that are summed make 255 * high.  One byte changes that by       *)
(* itself, unless it is low or one that is not summed.                     *)
(***************************************************************************)
EXTENDS VfpgaConfig, DataLemmas

Has(s, n) == s \in Seq(Byte) /\ Len(s) = n

(* Names for the operators on sequences, under which the provers do not    *)
(* look into them.                                                         *)
Join(s, t) == s \o t
Cut(s, m, n) == SubSeq(s, m, n)

(* A beginning of the whole, but for the bytes that are wrong.             *)
Begins(s, whole, wrong) ==
  Len(s) <= Len(whole) /\ \A k \in 1..Len(s) : k \notin wrong => s[k] = whole[k]
OneAtMost(S) == \A x, y \in S : x = y

ObjectOK == Has(object, Size)
SentOK == Has(sent, 0) \/ Has(sent, Size)
WritingOK == writing = <<>> \/ (writing = sent /\ Has(sent, Size))
FileOK ==
  /\ file \in Seq(Byte) /\ Len(file) <= Size
  /\ Begins(file, sent, rotten) /\ OneAtMost(rotten)
LoadedOK ==
  result = "loaded" =>
    /\ Validated(object) /\ Has(sent, Size)
    /\ \A k \in 1..Size : k \notin rotten => object[k] = sent[k]

ConfigInv == ObjectOK /\ SentOK /\ WritingOK /\ FileOK /\ LoadedOK

-----------------------------------------------------------------------------
(* Sequences of bytes *)

LEMMA NoBytes == <<>> \in Seq(Byte) /\ Len(<<>>) = 0
BY EmptySeq

LEMMA Joined ==
  ASSUME NEW s, NEW t, NEW a \in Nat, NEW b \in Nat, Has(s, a), Has(t, b)
  PROVE  Has(Join(s, t), a + b) /\ \A k \in 1..a : Join(s, t)[k] = s[k]
<1>1. s \in Seq(Byte) /\ t \in Seq(Byte) /\ Len(s) = a /\ Len(t) = b
  BY DEF Has
<1>2. /\ s \o t \in Seq(Byte) /\ Len(s \o t) = a + b
      /\ \A k \in 1 .. a + b : (s \o t)[k] = IF k <= a THEN s[k] ELSE t[k - a]
  BY <1>1, ConcatProperties
<1>3. \A k \in 1..a : k \in 1 .. a + b /\ k <= a
  OBVIOUS
<1> QED
  BY <1>2, <1>3 DEF Has, Join

LEMMA CutOut ==
  ASSUME NEW s, NEW a \in Nat, Has(s, a), NEW m \in Nat \ {0}, NEW n \in Nat, n <= a, m <= n + 1
  PROVE  /\ Has(Cut(s, m, n), n - m + 1)
         /\ \A k \in 1 .. n - m + 1 : Cut(s, m, n)[k] = s[m + k - 1]
<1>1. \A k \in 1..a : s[k] \in Byte
  BY ElementOfSeq DEF Has
<1>2. \A k \in m..n : k \in 1..a
  OBVIOUS
<1>3. m \in Int /\ n \in Int /\ \A k \in m..n : s[k] \in Byte
  BY <1>1, <1>2
<1>4. /\ SubSeq(s, m, n) \in Seq(Byte)
      /\ Len(SubSeq(s, m, n)) = (IF m <= n THEN n - m + 1 ELSE 0)
      /\ \A k \in 1 .. n - m + 1 : SubSeq(s, m, n)[k] = s[m + k - 1]
  BY <1>3, SubSeqProperties
<1>5. (IF m <= n THEN n - m + 1 ELSE 0) = n - m + 1
  OBVIOUS
<1> QED
  BY <1>4, <1>5 DEF Has, Cut

LEMMA SameBytes ==
  ASSUME NEW s, NEW t, NEW n \in Nat, Has(s, n), Has(t, n), \A k \in 1..n : s[k] = t[k]
  PROVE  s = t
BY SeqEqual DEF Has

(* Replacing a byte keeps a sequence and its length.                       *)
LEMMA Replaced ==
  ASSUME NEW s, NEW n \in Nat, Has(s, n), NEW j, NEW e \in Byte
  PROVE  Has([s EXCEPT ![j] = e], n)
<1>1. s \in [1..n -> Byte]
  BY LenProperties DEF Has
<1>2. [s EXCEPT ![j] = e] \in [1..n -> Byte]
  BY <1>1
<1> QED
  BY <1>2, LengthOf DEF Has

LEMMA Numbers == \A k \in Byte : k \in Int /\ 0 <= k /\ k <= 255
BY DEF Byte

(* The constructor gives an object of 20 bytes.                            *)
LEMMA FreshObject ==
  ASSUME NEW padding \in Paddings
  PROVE  Has(Fresh(padding), Size)
<1> DEFINE zeros == [k \in 1..12 |-> 0]
<1>1. Has(Magic, 4) /\ Has(Version, 2)
  BY DEF Magic, Version, Has, Byte
<1>2. Has(zeros, 12)
  <2>1. zeros \in [1..12 -> Byte] /\ 12 \in Nat
    BY DEF Byte
  <2> HIDE DEF zeros
  <2> QED
    BY <2>1, LengthOf DEF Has
<1>3. Has(padding, 2)
  BY PaddingsAssumption, LengthOf DEF Has
<1> HIDE DEF zeros
<1>4. Has(Join(Magic, Version), 6)
  BY <1>1, Joined
<1>5. Has(Join(Join(Magic, Version), zeros), 18)
  BY <1>2, <1>4, Joined
<1>6. Has(Join(Join(Join(Magic, Version), zeros), padding), Size)
  BY <1>3, <1>5, Joined DEF Size
<1> QED
  BY <1>6 DEF Fresh, zeros, Join

-----------------------------------------------------------------------------
(* The checksum *)

Others == 1..Size \ (VioCount \cup ChecksumAt)

LEMMA Summands ==
  ASSUME NEW bytes, Has(bytes, Size), NEW S
  PROVE  [k \in 1..Size |-> IF k \in S THEN bytes[k] ELSE 0] \in [1..Size -> Int]
<1>1. \A k \in 1..Size : bytes[k] \in Int
  BY ElementOfSeq, Numbers DEF Has
<1> QED
  BY <1>1

(* The sum of bytes: no overflow.                                          *)
LEMMA SumBounded ==
  ASSUME NEW bytes, Has(bytes, Size), NEW S
  PROVE  SumOf(bytes, S) \in Int /\ 0 <= SumOf(bytes, S) /\ SumOf(bytes, S) <= 5100
<1> DEFINE s == [k \in 1..Size |-> IF k \in S THEN bytes[k] ELSE 0]
           low == [k \in 1..Size |-> 0]
           high == [k \in 1..Size |-> 255]
<1>1. \A k \in 1..Size : bytes[k] \in Int /\ 0 <= bytes[k] /\ bytes[k] <= 255
  BY ElementOfSeq, Numbers DEF Has
<1>2. s \in [1..Size -> Int] /\ low \in [1..Size -> Int] /\ high \in [1..Size -> Int]
  BY Summands
<1>3. \A k \in 1..Size : low[k] <= s[k] /\ s[k] <= high[k] /\ low[k] = 0 /\ high[k] = 255
  BY <1>1
<1>4. Size \in Nat /\ Size * 0 = 0 /\ Size * 255 = 5100 /\ 0 \in Int /\ 255 \in Int
  BY DEF Size
<1>5. SumOf(bytes, S) = Total(s)
  BY Zenon DEF SumOf
<1> HIDE DEF s, low, high
<1>6. Total(low) = 0 /\ Total(high) = 5100
  <2>1. Total(low) = Size * 0
    BY <1>2, <1>3, <1>4, TotalOfEqual
  <2>2. Total(high) = Size * 255
    BY <1>2, <1>3, <1>4, TotalOfEqual
  <2> QED
    BY <1>4, <2>1, <2>2
<1>7. Total(low) <= Total(s) /\ Total(s) <= Total(high)
  <2>1. Total(low) <= Total(s)
    <3>1. Size \in Nat /\ low \in [1..Size -> Int] /\ s \in [1..Size -> Int] /\ \A k \in 1..Size : low[k] <= s[k]
      BY <1>2, <1>3, <1>4
    <3> QED
      BY <3>1, TotalMonotone
  <2>2. Total(s) <= Total(high)
    <3>1. Size \in Nat /\ high \in [1..Size -> Int] /\ s \in [1..Size -> Int] /\ \A k \in 1..Size : s[k] <= high[k]
      BY <1>2, <1>3, <1>4
    <3> QED
      BY <3>1, TotalMonotone
  <2> QED
    BY <2>1, <2>2
<1>8. Total(s) \in Int
  BY <1>2, <1>4, TotalInt
<1> QED
  BY <1>5, <1>6, <1>7, <1>8

(* A byte that is not in a set adds to its sum.                            *)
LEMMA SumWithout ==
  ASSUME NEW bytes, Has(bytes, Size), NEW S, NEW j \in 1..Size, j \in S
  PROVE  SumOf(bytes, S) = SumOf(bytes, S \ {j}) + bytes[j]
<1> DEFINE s == [k \in 1..Size |-> IF k \in S THEN bytes[k] ELSE 0]
           t == [k \in 1..Size |-> IF k \in S \ {j} THEN bytes[k] ELSE 0]
<1>1. s \in [1..Size -> Int] /\ t \in [1..Size -> Int] /\ Size \in Nat
  BY Summands DEF Size
<1>2. s[j] = bytes[j] /\ t[j] = 0 /\ \A k \in 1..Size : k # j => t[k] = s[k]
  OBVIOUS
<1>3. SumOf(bytes, S) = Total(s) /\ SumOf(bytes, S \ {j}) = Total(t)
  BY Zenon DEF SumOf
<1> HIDE DEF s, t
<1>4. Total(t) = Total(s) - s[j] + t[j]
  BY <1>1, <1>2, TotalChange, ZenonT(30)
<1>5. Total(s) \in Int /\ Total(t) \in Int /\ s[j] \in Int
  BY <1>1, TotalInt
<1> QED
  BY <1>2, <1>3, <1>4, <1>5

(* Changing one byte changes the sum of a set that has it by as much, and  *)
(* no other.                                                               *)
LEMMA SumChanged ==
  ASSUME NEW a, NEW b, Has(a, Size), Has(b, Size), NEW S, NEW j \in 1..Size,
         \A k \in 1..Size : k # j => a[k] = b[k]
  PROVE  /\ j \in S => SumOf(b, S) - SumOf(a, S) = b[j] - a[j]
         /\ j \notin S => SumOf(b, S) = SumOf(a, S)
<1> DEFINE s == [k \in 1..Size |-> IF k \in S THEN a[k] ELSE 0]
           t == [k \in 1..Size |-> IF k \in S THEN b[k] ELSE 0]
<1>1. s \in [1..Size -> Int] /\ t \in [1..Size -> Int] /\ Size \in Nat
  BY Summands DEF Size
<1>2. /\ \A k \in 1..Size : k # j => t[k] = s[k]
      /\ j \in S => s[j] = a[j] /\ t[j] = b[j]
      /\ j \notin S => s[j] = 0 /\ t[j] = 0
  OBVIOUS
<1>3. SumOf(a, S) = Total(s) /\ SumOf(b, S) = Total(t)
  BY Zenon DEF SumOf
<1> HIDE DEF s, t
<1>4. Total(t) = Total(s) - s[j] + t[j]
  BY <1>1, <1>2, TotalChange
<1>5. Total(s) \in Int /\ Total(t) \in Int /\ s[j] \in Int /\ t[j] \in Int
  BY <1>1, TotalInt
<1> QED
  BY <1>2, <1>3, <1>4, <1>5

(* Bytes are valid only when those that are neither the checksum nor left  *)
(* out of it sum to 255 times its high byte.                               *)
LEMMA ValidSums ==
  ASSUME NEW bytes, Has(bytes, Size), Validated(bytes)
  PROVE  SumOf(bytes, Others) = 255 * bytes[18] /\ bytes[18] \in Int
<1> DEFINE all == SumOf(bytes, Summed)
           rest == SumOf(bytes, Others)
<1>1. 17 \in 1..Size /\ 18 \in 1..Size /\ 17 \in Summed /\ 18 \in Summed \ {17}
  BY DEF Size, Summed, VioCount
<1>2. (Summed \ {17}) \ {18} = Others
  BY DEF Summed, Others, ChecksumAt
<1>3. all = SumOf(bytes, Summed \ {17}) + bytes[17]
  BY <1>1, SumWithout
<1>4. SumOf(bytes, Summed \ {17}) = rest + bytes[18]
  BY <1>1, <1>2, SumWithout
<1>5. bytes[17] \in Int /\ bytes[18] \in Int
  BY <1>1, ElementOfSeq, Numbers DEF Has
<1>6. all \in Int /\ 0 <= all /\ all <= 5100 /\ rest \in Int
  BY SumBounded
<1>7. bytes[17] + 256 * bytes[18] = all % 65536
  BY DEF Validated, compute_checksum
<1> HIDE DEF all, rest
<1>8. all % 65536 = all
  BY <1>6
<1>9. all = rest + bytes[18] + bytes[17]
  BY <1>3, <1>4, <1>5, <1>6
<1> QED
  BY <1>5, <1>6, <1>7, <1>8, <1>9 DEF rest

(* A single byte that differs between two valid ones is vio_count's or the *)
(* low byte of the checksum.                                               *)
LEMMA OneByteOff ==
  ASSUME NEW a, NEW b, Has(a, Size), Has(b, Size), Validated(a), Validated(b), NEW j \in 1..Size,
         \A k \in 1..Size : k # j => a[k] = b[k], j \notin VioCount \cup {17}
  PROVE  a[j] = b[j]
<1>1. a[j] \in Int /\ b[j] \in Int /\ a[18] \in Int /\ b[18] \in Int
  <2>1. 18 \in 1..Size
    BY DEF Size
  <2> QED
    BY <2>1, ElementOfSeq, Numbers DEF Has
<1>2. SumOf(a, Others) = 255 * a[18] /\ SumOf(b, Others) = 255 * b[18]
  BY ValidSums
<1>3. CASE j = 18
  <2>1. j \notin Others
    BY <1>3 DEF Others, ChecksumAt
  <2>2. SumOf(b, Others) = SumOf(a, Others)
    BY <2>1, SumChanged
  <2> QED
    BY <1>1, <1>2, <1>3, <2>2
<1>4. CASE j # 18
  <2>1. j \in Others
    BY <1>4 DEF Others, ChecksumAt
  <2>2. SumOf(b, Others) - SumOf(a, Others) = b[j] - a[j]
    BY <2>1, SumChanged
  <2>3. 18 \in 1..Size
    BY DEF Size
  <2>4. a[18] = b[18]
    BY <1>4, <2>3
  <2>5. SumOf(b, Others) = SumOf(a, Others)
    BY <1>2, <2>4
  <2>6. SumOf(a, Others) \in Int
    BY SumBounded
  <2> QED
    BY <1>1, <2>2, <2>5, <2>6
<1> QED
  BY <1>3, <1>4

(* The checksum is stored in two bytes.                                    *)
LEMMA ChecksumStored ==
  ASSUME NEW copy, Has(copy, Size)
  PROVE  Has(WithChecksum(copy, compute_checksum(copy)), Size)
<1> DEFINE sum == compute_checksum(copy)
<1>1. sum \in Int /\ 0 <= sum /\ sum < 65536
  <2>1. SumOf(copy, Summed) \in Int
    BY SumBounded
  <2> QED
    BY <2>1 DEF compute_checksum
<1> HIDE DEF sum
<1>2. sum % 256 \in Byte /\ sum \div 256 \in Byte
  BY <1>1 DEF Byte
<1>3. Size \in Nat
  BY DEF Size
<1>4. Has([copy EXCEPT ![17] = sum % 256], Size)
  BY <1>2, <1>3, Replaced
<1>5. Has([[copy EXCEPT ![17] = sum % 256] EXCEPT ![18] = sum \div 256], Size)
  BY <1>2, <1>3, <1>4, Replaced, ZenonT(30)
<1> QED
  BY <1>5, Zenon DEF WithChecksum, sum

(* Conversely, if they do, and the bytes begin as they should, they are    *)
(* valid.                                                                  *)
LEMMA SumsValid ==
  ASSUME NEW bytes, Has(bytes, Size), SumOf(bytes, Others) = 255 * bytes[18],
         SubSeq(bytes, 1, 4) = Magic, SubSeq(bytes, 5, 6) = Version
  PROVE  Validated(bytes)
<1> DEFINE all == SumOf(bytes, Summed)
           rest == SumOf(bytes, Others)
<1>1. 17 \in 1..Size /\ 18 \in 1..Size /\ 17 \in Summed /\ 18 \in Summed \ {17}
  BY DEF Size, Summed, VioCount
<1>2. (Summed \ {17}) \ {18} = Others
  BY DEF Summed, Others, ChecksumAt
<1>3. all = SumOf(bytes, Summed \ {17}) + bytes[17]
  BY <1>1, SumWithout
<1>4. SumOf(bytes, Summed \ {17}) = rest + bytes[18]
  BY <1>1, <1>2, SumWithout
<1>5. bytes[17] \in Int /\ bytes[18] \in Int
  BY <1>1, ElementOfSeq, Numbers DEF Has
<1>6. all \in Int /\ 0 <= all /\ all <= 5100 /\ rest \in Int /\ rest = 255 * bytes[18]
  BY SumBounded
<1>7. compute_checksum(bytes) = all % 65536
  BY DEF compute_checksum
<1> HIDE DEF all, rest
<1>8. all % 65536 = all
  BY <1>6
<1>9. all = rest + bytes[18] + bytes[17]
  BY <1>3, <1>4, <1>5, <1>6
<1>10. bytes[17] + 256 * bytes[18] = compute_checksum(bytes)
  BY <1>5, <1>6, <1>7, <1>8, <1>9
<1> QED
  BY <1>10 DEF Validated

(* Whether bytes are valid does not depend on vio_count, nor on the low    *)
(* byte of the checksum.                                                   *)
LEMMA UntoldByteOff ==
  ASSUME NEW a, NEW b, Has(a, Size), Has(b, Size), Validated(a), NEW j \in VioCount \cup {17},
         \A k \in 1..Size : k # j => a[k] = b[k]
  PROVE  Validated(b)
<1>1. j \in 1..Size /\ j \notin Others /\ j # 18 /\ j \notin 1..6 /\ 18 \in 1..Size /\ 20 = Size
  BY DEF Size, VioCount, ChecksumAt, Others
<1>2. SumOf(b, Others) = SumOf(a, Others)
  BY <1>1, SumChanged
<1>3. SumOf(b, Others) = 255 * b[18]
  BY <1>1, <1>2, ValidSums
<1>4. \A k \in 1..6 : a[k] = b[k]
  BY <1>1
<1>5. Has(a, 20) /\ Has(b, 20)
  BY <1>1
<1>6. SubSeq(b, 1, 4) = SubSeq(a, 1, 4)
  <2>1. /\ Has(Cut(a, 1, 4), 4 - 1 + 1) /\ \A k \in 1 .. 4 - 1 + 1 : Cut(a, 1, 4)[k] = a[1 + k - 1]
        /\ Has(Cut(b, 1, 4), 4 - 1 + 1) /\ \A k \in 1 .. 4 - 1 + 1 : Cut(b, 1, 4)[k] = b[1 + k - 1]
    BY <1>5, CutOut
  <2>2. \A k \in 1 .. 4 - 1 + 1 : a[1 + k - 1] = b[1 + k - 1]
    BY <1>4
  <2>3. Cut(a, 1, 4) = Cut(b, 1, 4)
    <3>1. 4 - 1 + 1 \in Nat
      OBVIOUS
    <3>2. \A k \in 1 .. 4 - 1 + 1 : Cut(a, 1, 4)[k] = Cut(b, 1, 4)[k]
      BY <2>1, <2>2
    <3> QED
      BY <2>1, <3>1, <3>2, SameBytes
  <2> QED
    BY <2>3 DEF Cut
<1>7. SubSeq(b, 5, 6) = SubSeq(a, 5, 6)
  <2>1. /\ Has(Cut(a, 5, 6), 6 - 5 + 1) /\ \A k \in 1 .. 6 - 5 + 1 : Cut(a, 5, 6)[k] = a[5 + k - 1]
        /\ Has(Cut(b, 5, 6), 6 - 5 + 1) /\ \A k \in 1 .. 6 - 5 + 1 : Cut(b, 5, 6)[k] = b[5 + k - 1]
    BY <1>5, CutOut
  <2>2. \A k \in 1 .. 6 - 5 + 1 : a[5 + k - 1] = b[5 + k - 1]
    BY <1>4
  <2>3. Cut(a, 5, 6) = Cut(b, 5, 6)
    <3>1. 6 - 5 + 1 \in Nat
      OBVIOUS
    <3>2. \A k \in 1 .. 6 - 5 + 1 : Cut(a, 5, 6)[k] = Cut(b, 5, 6)[k]
      BY <2>1, <2>2
    <3> QED
      BY <2>1, <3>1, <3>2, SameBytes
  <2> QED
    BY <2>3 DEF Cut
<1> QED
  BY <1>3, <1>6, <1>7, SumsValid DEF Validated

-----------------------------------------------------------------------------
(* The invariant *)

LEMMA InitConfigInv == ConfigInit => ConfigInv
<1> SUFFICES ASSUME ConfigInit PROVE ConfigInv
  OBVIOUS
<1>1. ObjectOK
  BY FreshObject DEF ConfigInit, ObjectOK
<1>2. SentOK /\ FileOK /\ WritingOK
  BY NoBytes DEF ConfigInit, SentOK, FileOK, WritingOK, Begins, OneAtMost, Has, Size
<1>3. LoadedOK
  BY DEF ConfigInit, LoadedOK
<1> QED
  BY <1>1, <1>2, <1>3 DEF ConfigInv

LEMMA FillKeeps ==
  ASSUME ConfigInv, Fill
  PROVE  ConfigInv'
<1>1. PICK payload \in Payloads : object' = SubSeq(object, 1, 6) \o payload \o SubSeq(object, 17, 20)
  BY DEF Fill
<1>2. Has(payload, 10)
  BY PayloadsAssumption, LengthOf DEF Has
<1>3. Has(object, 20) /\ Size = 20
  BY DEF ConfigInv, ObjectOK, Size
<1>4. Has(Cut(object, 1, 6), 6) /\ Has(Cut(object, 17, 20), 4)
  BY <1>3, CutOut
<1>5. Has(Join(Cut(object, 1, 6), payload), 16)
  BY <1>2, <1>4, Joined
<1>6. Has(Join(Join(Cut(object, 1, 6), payload), Cut(object, 17, 20)), 20)
  BY <1>4, <1>5, Joined
<1>7. ObjectOK'
  BY <1>1, <1>3, <1>6 DEF ObjectOK, Join, Cut
<1>8. LoadedOK'
  BY DEF Fill, LoadedOK
<1> QED
  BY <1>7, <1>8 DEF Fill, ConfigInv, SentOK, WritingOK, FileOK

(* What is sent has 20 bytes, and the file is empty when it is opened.     *)
LEMMA SaveBeginsKeeps ==
  ASSUME ConfigInv, SaveBegins
  PROVE  ConfigInv'
<1>1. ObjectOK'
  BY DEF SaveBegins, ConfigInv, ObjectOK
<1>2. LoadedOK'
  BY DEF SaveBegins, LoadedOK
<1>3. ASSUME NEW padding \in Paddings,
             writing' = WithChecksum(SubSeq(object, 1, 18) \o padding,
                                     compute_checksum(SubSeq(object, 1, 18) \o padding)),
             file' = <<>>, sent' = writing', rotten' = {}
      PROVE  SentOK' /\ WritingOK' /\ FileOK'
  <2> DEFINE copy == SubSeq(object, 1, 18) \o padding
  <2>1. Has(padding, 2)
    BY PaddingsAssumption, LengthOf DEF Has
  <2>2. Has(object, 20) /\ Size = 20
    BY DEF ConfigInv, ObjectOK, Size
  <2>3. Has(Cut(object, 1, 18), 18)
    BY <2>2, CutOut
  <2>4. Has(Join(Cut(object, 1, 18), padding), 20)
    BY <2>1, <2>3, Joined
  <2>5. Has(copy, Size)
    BY <2>2, <2>4 DEF Join, Cut
  <2>6. Has(sent', Size)
    <3>1. sent' = WithChecksum(copy, compute_checksum(copy))
      BY <1>3
    <3> HIDE DEF copy
    <3> QED
      BY <2>5, <3>1, ChecksumStored
  <2>7. FileOK'
    BY <1>3, <2>2, <2>6, NoBytes DEF FileOK, Begins, OneAtMost, Has
  <2> QED
    BY <1>3, <2>6, <2>7 DEF SentOK, WritingOK
<1>4. ASSUME UNCHANGED <<file, writing, sent, rotten>>
      PROVE  SentOK' /\ WritingOK' /\ FileOK'
  BY <1>4 DEF ConfigInv, SentOK, WritingOK, FileOK
<1>5. SentOK' /\ WritingOK' /\ FileOK'
  BY <1>3, <1>4 DEF SaveBegins
<1> QED
  BY <1>1, <1>2, <1>5 DEF ConfigInv

(* Writing leaves a beginning of what was sent.                            *)
LEMMA BrokenOff ==
  ASSUME ConfigInv, writing # <<>>, NEW n \in Cuts \cup {Size},
         file' = SubSeq(writing, 1, n), sent' = sent, rotten' = rotten
  PROVE  FileOK'
<1>1. writing = sent /\ Has(sent, 20) /\ OneAtMost(rotten)
  BY DEF ConfigInv, WritingOK, FileOK, Size
<1>2. n \in Nat /\ n <= 20
  BY CutsAssumption DEF Size
<1>3. Has(Cut(sent, 1, n), n) /\ \A k \in 1..n : Cut(sent, 1, n)[k] = sent[k]
  <2>1. /\ Has(Cut(sent, 1, n), n - 1 + 1)
        /\ \A k \in 1 .. n - 1 + 1 : Cut(sent, 1, n)[k] = sent[1 + k - 1]
    BY <1>1, <1>2, CutOut
  <2>2. n - 1 + 1 = n /\ \A k \in 1..n : 1 + k - 1 = k
    BY <1>2
  <2> QED
    BY <2>1, <2>2
<1>4. file' = Cut(sent, 1, n)
  BY <1>1 DEF Cut
<1> QED
  BY <1>1, <1>2, <1>3, <1>4 DEF FileOK, Begins, Size, Has

LEMMA SaveEndsKeeps ==
  ASSUME ConfigInv, SaveEnds
  PROVE  ConfigInv'
<1>1. FileOK'
  BY BrokenOff DEF SaveEnds
<1>2. LoadedOK'
  BY DEF SaveEnds, LoadedOK
<1> QED
  BY <1>1, <1>2 DEF SaveEnds, ConfigInv, ObjectOK, SentOK, WritingOK

LEMMA PowerFailsKeeps ==
  ASSUME ConfigInv, PowerFails
  PROVE  ConfigInv'
<1>1. FileOK'
  <2>1. CASE writing = <<>>
    BY <2>1 DEF PowerFails, ConfigInv, FileOK
  <2>2. CASE writing # <<>>
    BY <2>2, BrokenOff DEF PowerFails
  <2> QED
    BY <2>1, <2>2
<1>2. ObjectOK'
  BY FreshObject DEF PowerFails, ObjectOK
<1>3. LoadedOK'
  BY DEF PowerFails, LoadedOK
<1>4. SentOK' /\ WritingOK'
  BY DEF PowerFails, ConfigInv, SentOK, WritingOK
<1> QED
  BY <1>1, <1>2, <1>3, <1>4 DEF ConfigInv

(* A whole file is what is loaded.                                         *)
LEMMA LoadKeeps ==
  ASSUME ConfigInv, Load
  PROVE  ConfigInv'
<1> DEFINE n == Len(file)
<1>1. n \in Nat /\ n <= 20 /\ Has(object, 20) /\ Has(file, n)
  BY LenProperties DEF ConfigInv, FileOK, ObjectOK, Size, Has
<1> HIDE DEF n
<1>2. Has(Cut(object, n + 1, 20), 20 - n)
  <2>1. Has(Cut(object, n + 1, 20), 20 - (n + 1) + 1)
    BY <1>1, CutOut
  <2>2. 20 - (n + 1) + 1 = 20 - n
    BY <1>1
  <2> QED
    BY <2>1, <2>2
<1>3. /\ Has(object', 20)
      /\ \A k \in 1..n : object'[k] = file[k]
  <2>1. object' = Join(file, Cut(object, n + 1, 20))
    BY DEF Load, Size, Join, Cut, n
  <2>2. n + (20 - n) = 20 /\ 20 - n \in Nat
    BY <1>1
  <2>3. /\ Has(Join(file, Cut(object, n + 1, 20)), n + (20 - n))
        /\ \A k \in 1..n : Join(file, Cut(object, n + 1, 20))[k] = file[k]
    BY <1>1, <1>2, <2>2, Joined
  <2> QED
    BY <2>1, <2>2, <2>3
<1>4. ASSUME result' = "loaded"
      PROVE  /\ Validated(object') /\ Has(sent, 20)
             /\ \A k \in 1..20 : k \notin rotten => object'[k] = sent[k]
  <2>1. n = 20 /\ Validated(file)
    BY <1>4 DEF Load, Size, n
  <2>2. object' = file
    BY <1>1, <1>3, <2>1, SameBytes
  <2>3. Len(sent) >= 20 /\ \A k \in 1..20 : k \notin rotten => file[k] = sent[k]
    BY <2>1 DEF ConfigInv, FileOK, Begins, n
  <2>4. Has(sent, 20)
    BY <2>3 DEF ConfigInv, SentOK, Has, Size
  <2> QED
    BY <2>1, <2>2, <2>3, <2>4
<1>5. ObjectOK' /\ LoadedOK'
  <2>1. Validated(object)' <=> Validated(object')
    BY DEF Validated, compute_checksum, SumOf
  <2> QED
    BY <1>3, <1>4, <2>1 DEF Load, ObjectOK, LoadedOK, Size
<1> QED
  BY <1>5 DEF Load, ConfigInv, SentOK, WritingOK, FileOK

LEMMA RotKeeps ==
  ASSUME ConfigInv, Rot
  PROVE  ConfigInv'
<1> DEFINE n == Len(file)
<1>1. PICK j \in DOMAIN file, b \in RotBytes : file' = [file EXCEPT ![j] = b] /\ rotten' = {j}
  BY DEF Rot
<1>2. Has(file, n) /\ n \in Nat /\ b \in Byte /\ DOMAIN file = 1..n
  BY LenProperties, RotBytesAssumption DEF ConfigInv, FileOK, Has
<1>3. Has(file', n)
  <2> HIDE DEF n
  <2> QED
    BY <1>1, <1>2, Replaced
<1>4. \A k \in 1..n : k \notin rotten' => file'[k] = sent[k]
  BY <1>1, <1>2 DEF Rot, ConfigInv, FileOK, Begins
<1>5. FileOK'
  BY <1>1, <1>3, <1>4 DEF Rot, ConfigInv, FileOK, Begins, OneAtMost, Has
<1>6. LoadedOK'
  BY DEF Rot, LoadedOK
<1> QED
  BY <1>5, <1>6 DEF Rot, ConfigInv, ObjectOK, SentOK, WritingOK

LEMMA NextConfigInv == ConfigInv /\ [ConfigNext]_configVars => ConfigInv'
<1> SUFFICES ASSUME ConfigInv, [ConfigNext]_configVars PROVE ConfigInv'
  OBVIOUS
<1>1. CASE UNCHANGED configVars
  BY <1>1 DEF configVars, ConfigInv, ObjectOK, SentOK, WritingOK, FileOK, LoadedOK, Validated
<1> QED
  BY <1>1, FillKeeps, SaveBeginsKeeps, SaveEndsKeeps, PowerFailsKeeps, LoadKeeps, RotKeeps
     DEF ConfigNext

(* Whatever power failures, full storage and failed calls came between,    *)
(* what load() accepts from an undamaged file is what was last saved.      *)
THEOREM NeverLoadsTornFile == ConfigSpec => []LoadsUndamaged
<1>1. ConfigInv => LoadsUndamaged
  <2> SUFFICES ASSUME ConfigInv, result = "loaded", rotten = {} PROVE object = sent
    BY DEF LoadsUndamaged
  <2>1. Has(object, Size) /\ Has(sent, Size) /\ Size \in Nat /\ \A k \in 1..Size : object[k] = sent[k]
    BY DEF ConfigInv, ObjectOK, LoadedOK, Size
  <2> QED
    BY <2>1, SameBytes
<1> QED
  BY <1>1, InitConfigInv, NextConfigInv, PTL DEF ConfigSpec

(* Moreover, whichever byte rots, and whatever it rots to, what load()     *)
(* accepts differs from what was saved in that byte at most; and if it     *)
(* does, the file was acceptable as it was saved exactly when the byte is  *)
(* vio_count's or the low one of the checksum.                             *)
THEOREM OneRottenByteIsNoticed == ConfigSpec => []LoadsTheLastSave
<1>1. ConfigInv /\ LoadsUndamaged => LoadsTheLastSave
  <2> DEFINE wrong == {k \in 1..Size : object[k] # sent[k]}
             untold == VioCount \cup {17}
  <2> SUFFICES ASSUME ConfigInv, result = "loaded"
               PROVE  wrong \subseteq rotten /\ (Validated(sent) <=> wrong \subseteq untold)
    BY DEF LoadsTheLastSave
  <2>1. /\ Has(object, Size) /\ Has(sent, Size) /\ Validated(object)
        /\ \A j \in 1..Size : j \notin rotten => object[j] = sent[j]
        /\ \A i, j \in rotten : i = j
    BY DEF ConfigInv, ObjectOK, LoadedOK, FileOK, OneAtMost
  <2>2. wrong \subseteq rotten
    BY <2>1
  <2>3. ASSUME NEW k \in wrong
        PROVE  k \in 1..Size /\ object[k] # sent[k] /\ \A j \in 1..Size : j # k => object[j] = sent[j]
    BY <2>1, <2>2
  <2> HIDE DEF wrong
  <2>4. ASSUME Validated(sent) PROVE wrong \subseteq untold
    BY <2>1, <2>3, <2>4, OneByteOff
  <2>5. ASSUME wrong \subseteq untold PROVE Validated(sent)
    <3>1. CASE wrong = {}
      <4>1. \A j \in 1..Size : object[j] = sent[j]
        BY <3>1 DEF wrong
      <4>2. object = sent
        BY <2>1, <4>1, SameBytes DEF Size
      <4> QED
        BY <2>1, <4>2
    <3>2. CASE wrong # {}
      <4>1. PICK k \in wrong : TRUE
        BY <3>2
      <4> QED
        BY <2>1, <2>3, <2>5, <4>1, UntoldByteOff
    <3> QED
      BY <3>1, <3>2
  <2> QED
    BY <2>2, <2>4, <2>5
<1> QED
  BY <1>1, NeverLoadsTornFile, InitConfigInv, NextConfigInv, PTL DEF ConfigSpec

(* An undamaged file is accepted only when the bytes that are neither      *)
(* vio_count nor the checksum sum to a multiple of 255.                    *)
THEOREM AcceptedSums == ConfigSpec => []LoadableSums
<1>1. ConfigInv => LoadableSums
  <2> SUFFICES ASSUME ConfigInv, result = "loaded" PROVE SumOf(object, Others) % 255 = 0
    BY DEF LoadableSums, Others
  <2>1. Has(object, Size) /\ Validated(object)
    BY DEF ConfigInv, ObjectOK, LoadedOK
  <2>2. SumOf(object, Others) = 255 * object[18] /\ object[18] \in Int
    BY <2>1, ValidSums
  <2> QED
    BY <2>2
<1> QED
  BY <1>1, InitConfigInv, NextConfigInv, PTL DEF ConfigSpec
=============================================================================
