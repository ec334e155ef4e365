---------------------------- MODULE FileHashProofs ----------------------------
(***************************************************************************)
(* Proofs about FileHash, for every block size, length field, buffer and   *)
(* file: what was read is in the whole blocks and the partial one, and the *)
(* compressed blocks are those of the padded file.                         *)
(***************************************************************************)
EXTENDS FileHash, SequenceTheorems, TLAPS

Content == [Indices -> Int]

\* The block of the file behind j whole ones.
FileBlock(j) == [i \in Indices |-> j * BlockSize + i + 1]

\* The inductive invariant: the compressed blocks are the first ones of the
\* file, and the partial block starts with the bytes behind them.
HashInv ==
    /\ fileSize \in Nat /\ position \in 0..fileSize
    /\ blockLen \in Nat /\ lengthBytes \in Nat /\ digested \in BOOLEAN
    /\ block \in Content /\ compressed \in Seq(Content)
    /\ HashAccounted
    /\ ~digested =>
        /\ \A j \in 1..Len(compressed) : compressed[j] = FileBlock(j - 1)
        /\ \A i \in 0..blockLen - 1 : block[i] = Len(compressed) * BlockSize + i + 1
    /\ DigestOfWholeFile

-----------------------------------------------------------------------------
(* Arithmetic.                                                               *)

LEMMA DivisionIsUnique ==
    ASSUME NEW b \in Nat, b # 0, NEW q \in Nat, NEW r \in Nat, r < b
    PROVE  /\ (q * b + r) \div b = q
           /\ (q * b + r) % b = r
OBVIOUS

LEMMA Division ==
    ASSUME NEW b \in Nat, b # 0, NEW a \in Nat
    PROVE  /\ a \div b \in Nat
           /\ a % b \in 0..b - 1
           /\ a = ((a \div b) * b) + (a % b)
OBVIOUS

LEMMA Distribution ==
    ASSUME NEW a \in Int, NEW b \in Int, NEW c \in Int
    PROVE  (a + b) * c = a * c + b * c
OBVIOUS

-----------------------------------------------------------------------------
(* One read.                                                                 *)

\* What UpdatePartial leaves.
LEMMA PartialRead ==
    ASSUME HashInv, ~digested, NEW n \in 1..ReadSize, n <= fileSize - position,
           UpdatePartial(n), position' = position + n,
           lengthBytes' = lengthBytes + n, UNCHANGED <<fileSize, digested>>
    PROVE  HashInv'
<1> USE BlockAssumption, FileAssumption
<1> DEFINE base == Len(compressed) * BlockSize
<1>1. n \in Nat /\ Len(compressed) \in Nat /\ base \in Nat
    BY DEF HashInv
<1>2. Taken(n) = n /\ blockLen + n < BlockSize
    BY <1>1 DEF UpdatePartial, Taken, HashInv, HashAccounted
<1>3. block' \in Content
    BY <1>1, <1>2 DEF UpdatePartial, Filled, Overwrite, FileBytes, HashInv, Content, Indices
<1>4. base + blockLen = position
    BY DEF HashInv, HashAccounted
<1>5. ASSUME NEW i \in 0..blockLen + n - 1
      PROVE  block'[i] = base + i + 1
    <2>1. i \in Indices
        BY <1>1, <1>2 DEF Indices, HashInv
    <2>2. block'[i] = IF blockLen <= i /\ i < blockLen + n
                      THEN position + (i - blockLen) + 1 ELSE block[i]
        BY <1>1, <1>2, <2>1 DEF UpdatePartial, Filled, Overwrite, FileBytes, HashInv
    <2>3. i < blockLen => block[i] = base + i + 1
        BY DEF HashInv
    <2> QED BY <1>1, <1>4, <2>2, <2>3 DEF HashInv
<1>6. blockLen' = blockLen + n /\ compressed' = compressed
    BY <1>2 DEF UpdatePartial
<1>7. Len(compressed') * BlockSize = base
    BY <1>6
<1> HIDE DEF base
<1>8. HashAccounted'
    <2>1. blockLen' < BlockSize /\ lengthBytes' = position'
        BY <1>2, <1>6 DEF HashInv, HashAccounted
    <2>2. Len(compressed') * BlockSize + blockLen' = position'
        BY <1>1, <1>4, <1>6, <1>7 DEF HashInv
    <2> QED BY <2>1, <2>2 DEF HashAccounted
<1>9. \A i \in 0..blockLen' - 1 : block'[i] = Len(compressed') * BlockSize + i + 1
    <2>1. blockLen' - 1 = blockLen + n - 1
        BY <1>1, <1>6 DEF HashInv
    <2> QED BY <1>5, <1>7, <2>1
<1> QED
    BY <1>1, <1>3, <1>6, <1>8, <1>9 DEF HashInv, DigestOfWholeFile

\* What UpdateBlocks leaves: the filled block, if there was a partial one, the
\* whole blocks behind it and the rest.
LEMMA BlockRead ==
    ASSUME HashInv, ~digested, NEW n \in 1..ReadSize, n <= fileSize - position,
           UpdateBlocks(n), position' = position + n,
           lengthBytes' = lengthBytes + n, UNCHANGED <<fileSize, digested>>
    PROVE  HashInv'
<1> USE BlockAssumption, FileAssumption
<1> DEFINE taken == Taken(n)
           left == n - taken
           whole == left \div BlockSize
           rest == left % BlockSize
           first == IF blockLen = 0 THEN <<>> ELSE <<Filled(n)>>
           nth(j) == FileBytes(taken + j * BlockSize, BlockSize)
           tail == [j \in 1..whole |-> nth(j - 1)]
           base == Len(compressed) * BlockSize
           count == Len(compressed) + Len(first)
<1>1. n \in Nat /\ Len(compressed) \in Nat /\ base \in Nat /\ base + blockLen = position
    BY DEF HashInv, HashAccounted
<1>2. taken \in Nat /\ taken <= n
      /\ (blockLen = 0 => taken = 0) /\ (blockLen # 0 => taken = BlockSize - blockLen)
    BY <1>1 DEF UpdateBlocks, Taken, HashInv, HashAccounted
<1>3. left \in Nat /\ whole \in Nat /\ rest \in 0..BlockSize - 1
      /\ left = (whole * BlockSize) + rest
    <2>1. left \in Nat /\ BlockSize # 0
        BY <1>1, <1>2
    <2> HIDE DEF left
    <2> QED BY <2>1, Division
<1>4. Filled(n) \in Content
    BY <1>1, <1>2 DEF Filled, Overwrite, FileBytes, HashInv, Content, Indices
<1>5. blockLen # 0 => Filled(n) = FileBlock(Len(compressed))
    <2> SUFFICES ASSUME blockLen # 0
                 PROVE  Filled(n) = FileBlock(Len(compressed))
        OBVIOUS
    <2>1. ASSUME NEW i \in Indices
          PROVE  Filled(n)[i] = base + i + 1
        <3>1. Filled(n)[i] = IF blockLen <= i THEN position + (i - blockLen) + 1 ELSE block[i]
            BY <1>1, <1>2 DEF Filled, Overwrite, FileBytes, Indices, HashInv
        <3>2. i < blockLen => block[i] = base + i + 1
            BY DEF HashInv, Indices
        <3> QED BY <1>1, <3>1, <3>2 DEF HashInv, Indices
    <2> QED BY <2>1 DEF Filled, Overwrite, FileBlock
<1>6. first \in Seq(Content) /\ Len(first) \in {0, 1}
      /\ (blockLen = 0 => Len(first) = 0) /\ (blockLen # 0 => Len(first) = 1)
      /\ \A j \in 1..Len(first) : first[j] = FileBlock(Len(compressed) + j - 1)
    BY <1>1, <1>4, <1>5
<1>7. count * BlockSize = position + taken
    <2>1. count * BlockSize = base + Len(first) * BlockSize
        BY <1>1, <1>6, Distribution
    <2> QED BY <1>1, <1>2, <1>6, <2>1 DEF HashInv
<1>8. ASSUME NEW j \in Nat
      PROVE  nth(j) = FileBlock(count + j)
    <2>1. (count + j) * BlockSize = position + taken + j * BlockSize
        BY <1>1, <1>6, <1>7, Distribution
    <2> HIDE DEF taken, count
    <2>2. j * BlockSize \in Nat
        BY <1>1
    <2>3. \A i \in Indices : position + (taken + j * BlockSize) + i + 1
                                = (count + j) * BlockSize + i + 1
        BY <1>1, <1>2, <2>1, <2>2 DEF Indices, HashInv
    <2> QED BY <2>3 DEF FileBytes, FileBlock, Indices
<1>9. \A j \in Nat : FileBlock(j) \in Content
    BY DEF FileBlock, Content, Indices
<1>10. tail \in Seq(Content) /\ Len(tail) = whole
       /\ \A j \in 1..whole : tail[j] = FileBlock(count + j - 1)
    <2> HIDE DEF whole, count, first
    <2>1. \A j \in 1..whole : j - 1 \in Nat /\ count + (j - 1) \in Nat
        BY <1>1, <1>3, <1>6 DEF count
    <2>2. \A j \in 1..whole : nth(j - 1) = FileBlock(count + (j - 1)) /\ nth(j - 1) \in Content
        BY <1>8, <1>9, <2>1
    <2> HIDE DEF nth
    <2>3. tail \in [1..whole -> Content]
        BY <2>2
    <2>4. tail \in Seq(Content) /\ Len(tail) = whole
        BY <1>3, <2>3
    <2>5. \A j \in 1..whole : count + (j - 1) = count + j - 1
        BY <1>1, <1>3, <1>6 DEF count
    <2> QED BY <2>2, <2>4, <2>5
<1>11. compressed' = (compressed \o first) \o tail /\ blockLen' = rest
       /\ block' = Overwrite(Filled(n), 0, FileBytes(taken + whole * BlockSize, rest))
    BY DEF UpdateBlocks
<1>12. block' \in Content
       /\ \A i \in 0..rest - 1 : block'[i] = position + taken + whole * BlockSize + i + 1
    <2>1. whole * BlockSize \in Nat
        BY <1>3
    <2> HIDE DEF taken, whole, rest
    <2>2. \A i \in Indices : block'[i] = IF i < rest
                THEN position + (taken + whole * BlockSize) + i + 1 ELSE Filled(n)[i]
        BY <1>3, <1>11 DEF Overwrite, FileBytes, Indices
    <2>3. DOMAIN block' = Indices
        BY <1>11 DEF Overwrite
    <2>4. \A i \in Indices : block'[i] \in Int
        <3> DEFINE skip == whole * BlockSize
        <3>1. skip \in Nat
            BY <2>1
        <3>2. \A i \in Indices : Filled(n)[i] \in Int
            BY <1>4 DEF Content
        <3>3. \A i \in Indices : block'[i] = IF i < rest
                    THEN position + (taken + skip) + i + 1 ELSE Filled(n)[i]
            BY <2>2
        <3> HIDE DEF skip
        <3>4. \A i \in Indices : position + (taken + skip) + i + 1 \in Int
            BY <1>1, <1>2, <3>1 DEF Indices, HashInv
        <3> QED BY <3>2, <3>3, <3>4
    <2>5. block' \in Content
        BY <1>11, <2>4 DEF Overwrite, Content
    <2>6. \A i \in 0..rest - 1 : i \in Indices /\ i < rest
        BY <1>3 DEF Indices
    <2> QED BY <1>1, <1>2, <2>1, <2>2, <2>5, <2>6 DEF HashInv, Indices
<1> HIDE DEF first, tail, base, rest, whole, taken, left
<1>13. compressed \o first \in Seq(Content) /\ Len(compressed \o first) = count
       /\ \A j \in 1..count : (compressed \o first)[j] = FileBlock(j - 1)
    <2>1. /\ compressed \o first \in Seq(Content) /\ Len(compressed \o first) = count
          /\ \A j \in 1..count : (compressed \o first)[j] =
                IF j <= Len(compressed) THEN compressed[j] ELSE first[j - Len(compressed)]
        BY <1>6, ConcatProperties DEF HashInv
    <2>2. ASSUME NEW j \in 1..count
          PROVE  (compressed \o first)[j] = FileBlock(j - 1)
        <3>1. CASE j <= Len(compressed)
            BY <1>1, <2>1, <3>1 DEF HashInv
        <3>2. CASE j > Len(compressed)
            <4>1. j - Len(compressed) \in 1..Len(first)
                  /\ Len(compressed) + (j - Len(compressed)) - 1 = j - 1
                BY <1>1, <1>6, <3>2
            <4> QED BY <1>1, <1>6, <2>1, <3>2, <4>1
        <3> QED BY <1>1, <1>6, <3>1, <3>2
    <2> QED BY <2>1, <2>2
<1>14. compressed' \in Seq(Content) /\ Len(compressed') = count + whole
       /\ \A j \in 1..count + whole : compressed'[j] = FileBlock(j - 1)
    <2> DEFINE head == compressed \o first
    <2> HIDE DEF head
    <2>1. /\ compressed' \in Seq(Content) /\ Len(compressed') = count + whole
          /\ \A j \in 1..count + whole : compressed'[j] =
                IF j <= count THEN head[j] ELSE tail[j - count]
        <3>1. compressed' = head \o tail /\ head \in Seq(Content) /\ Len(head) = count
            BY <1>11, <1>13 DEF head
        <3> HIDE DEF count
        <3> QED BY <1>10, <3>1, ConcatProperties
    <2>3. \A j \in 1..count : head[j] = FileBlock(j - 1)
        BY <1>13 DEF head
    <2>4. count \in Nat
        BY <1>1, <1>6
    <2> HIDE DEF count
    <2>2. ASSUME NEW j \in 1..count + whole
          PROVE  compressed'[j] = FileBlock(j - 1)
        <3>1. CASE j <= count
            <4>1. j \in 1..count
                BY <1>3, <2>4, <3>1
            <4> QED BY <2>1, <2>3, <3>1, <4>1
        <3>2. CASE j > count
            <4>1. j - count \in 1..whole /\ count + (j - count) - 1 = j - 1 /\ ~(j <= count)
                BY <1>3, <2>4, <3>2
            <4> QED BY <1>10, <2>1, <4>1
        <3> QED BY <1>3, <2>4, <3>1, <3>2
    <2> QED BY <2>1, <2>2
<1>15. Len(compressed') * BlockSize = position + taken + whole * BlockSize
    BY <1>1, <1>3, <1>6, <1>7, <1>14, Distribution
<1>16. whole * BlockSize \in Nat /\ n = taken + whole * BlockSize + rest
    BY <1>1, <1>2, <1>3 DEF left
<1>17. HashAccounted'
    <2>1. blockLen' < BlockSize
        BY <1>3, <1>11
    <2>2. lengthBytes' = position'
        BY DEF HashInv, HashAccounted
    <2>3. Len(compressed') * BlockSize + blockLen' = position'
        <3> DEFINE skip == whole * BlockSize
                   total == Len(compressed') * BlockSize
        <3>1. skip \in Nat /\ n = taken + skip + rest /\ total = position + taken + skip
            BY <1>15, <1>16
        <3> HIDE DEF skip, total
        <3>2. total + blockLen' = position'
            BY <1>1, <1>2, <1>3, <1>11, <3>1 DEF HashInv
        <3> QED BY <3>2 DEF total
    <2> QED BY <2>1, <2>2, <2>3 DEF HashAccounted
<1>18. \A i \in 0..blockLen' - 1 : block'[i] = Len(compressed') * BlockSize + i + 1
    BY <1>11, <1>12, <1>15
<1> QED
    BY <1>1, <1>3, <1>11, <1>12, <1>14, <1>17, <1>18 DEF HashInv, DigestOfWholeFile

-----------------------------------------------------------------------------
(* The padding.                                                              *)

\* The padded message, byte for byte.
LEMMA PaddedBytes ==
    ASSUME fileSize \in Nat, PaddingZeros \in Nat
    PROVE  /\ Len(Padded) = fileSize + 1 + PaddingZeros + LengthSize
           /\ \A p \in 1..Len(Padded) : Padded[p] =
                IF p <= fileSize THEN p
                ELSE IF p = fileSize + 1 THEN Marker
                ELSE IF p <= fileSize + 1 + PaddingZeros THEN Zero
                ELSE LengthByte(fileSize)
<1> USE BlockAssumption
<1> DEFINE message == [p \in 1..fileSize |-> p]
           zeros == [p \in 1..PaddingZeros |-> Zero]
           length == [p \in 1..LengthSize |-> LengthByte(fileSize)]
<1>1. message \in Seq(Int) /\ Len(message) = fileSize
    OBVIOUS
<1>2. zeros \in Seq(Int) /\ Len(zeros) = PaddingZeros
    BY DEF Zero
<1>3. length \in Seq(Int) /\ Len(length) = LengthSize
    BY DEF LengthByte
<1>4. <<Marker>> \in Seq(Int) /\ Len(<<Marker>>) = 1 /\ <<Marker>>[1] = Marker
    BY DEF Marker
<1>5. /\ \A p \in 1..fileSize : message[p] = p
      /\ \A p \in 1..PaddingZeros : zeros[p] = Zero
      /\ \A p \in 1..LengthSize : length[p] = LengthByte(fileSize)
    OBVIOUS
<1> DEFINE marked == message \o <<Marker>>
           filled == marked \o zeros
<1>6. Padded = filled \o length
    BY DEF Padded
<1> HIDE DEF message, zeros, length
<1>7. /\ marked \in Seq(Int) /\ Len(marked) = fileSize + 1
      /\ \A p \in 1..fileSize + 1 : marked[p] = IF p <= fileSize THEN p ELSE Marker
    <2>1. /\ marked \in Seq(Int) /\ Len(marked) = fileSize + 1
          /\ \A p \in 1..fileSize + 1 : marked[p] =
                IF p <= fileSize THEN message[p] ELSE <<Marker>>[p - fileSize]
        BY <1>1, <1>4, ConcatProperties
    <2>2. \A p \in 1..fileSize + 1 : p <= fileSize \/ p - fileSize = 1
        OBVIOUS
    <2> HIDE DEF marked
    <2> QED BY <1>4, <1>5, <2>1, <2>2
<1> HIDE DEF marked
<1>8. /\ filled \in Seq(Int) /\ Len(filled) = fileSize + 1 + PaddingZeros
      /\ \A p \in 1..fileSize + 1 + PaddingZeros : filled[p] =
            IF p <= fileSize THEN p ELSE IF p = fileSize + 1 THEN Marker ELSE Zero
    <2>1. /\ filled \in Seq(Int) /\ Len(filled) = fileSize + 1 + PaddingZeros
          /\ \A p \in 1..fileSize + 1 + PaddingZeros : filled[p] =
                IF p <= fileSize + 1 THEN marked[p] ELSE zeros[p - (fileSize + 1)]
        <3>1. /\ filled \in Seq(Int) /\ Len(filled) = Len(marked) + Len(zeros)
              /\ \A p \in 1..Len(marked) + Len(zeros) : filled[p] =
                    IF p <= Len(marked) THEN marked[p] ELSE zeros[p - Len(marked)]
            BY <1>2, <1>7, ConcatProperties
        <3> HIDE DEF filled
        <3> QED BY <1>2, <1>7, <3>1
    <2> HIDE DEF filled
    <2>2. ASSUME NEW p \in 1..fileSize + 1 + PaddingZeros
          PROVE  filled[p] = IF p <= fileSize THEN p
                             ELSE IF p = fileSize + 1 THEN Marker ELSE Zero
        <3>1. CASE p <= fileSize + 1
            <4>1. p \in 1..fileSize + 1 /\ (~(p <= fileSize) => p = fileSize + 1)
                BY <3>1
            <4>2. filled[p] = IF p <= fileSize THEN p ELSE Marker
                <5>1. marked[p] = IF p <= fileSize THEN p ELSE Marker
                    BY <1>7, <4>1
                <5>2. filled[p] = marked[p]
                    BY <2>1, <3>1
                <5> QED BY <5>1, <5>2
            <4> QED BY <4>1, <4>2
        <3>2. CASE ~(p <= fileSize + 1)
            <4>1. p - (fileSize + 1) \in 1..PaddingZeros
                  /\ ~(p <= fileSize) /\ p # fileSize + 1
                BY <3>2
            <4>2. filled[p] = zeros[p - (fileSize + 1)]
                BY <2>1, <3>2
            <4>3. zeros[p - (fileSize + 1)] = Zero
                BY <1>5, <4>1
            <4> QED BY <4>1, <4>2, <4>3
        <3> QED BY <3>1, <3>2
    <2> QED BY <2>1, <2>2
<1> HIDE DEF filled
<1>9. /\ Len(Padded) = fileSize + 1 + PaddingZeros + LengthSize
      /\ \A p \in 1..Len(Padded) : Padded[p] =
            IF p <= fileSize + 1 + PaddingZeros THEN filled[p]
            ELSE length[p - (fileSize + 1 + PaddingZeros)]
    <2>1. /\ Len(filled \o length) = Len(filled) + Len(length)
          /\ \A p \in 1..Len(filled) + Len(length) : (filled \o length)[p] =
                IF p <= Len(filled) THEN filled[p] ELSE length[p - Len(filled)]
        BY <1>3, <1>8, ConcatProperties
    <2>2. /\ Len(Padded) = Len(filled) + Len(length)
          /\ \A p \in 1..Len(filled) + Len(length) : Padded[p] =
                IF p <= Len(filled) THEN filled[p] ELSE length[p - Len(filled)]
        BY <1>6, <2>1
    <2> QED BY <1>3, <1>8, <2>2
<1>10. ASSUME NEW p \in 1..Len(Padded)
       PROVE  Padded[p] = IF p <= fileSize THEN p
                          ELSE IF p = fileSize + 1 THEN Marker
                          ELSE IF p <= fileSize + 1 + PaddingZeros THEN Zero
                          ELSE LengthByte(fileSize)
    <2>1. CASE p <= fileSize + 1 + PaddingZeros
        BY <1>8, <1>9, <2>1
    <2>2. CASE ~(p <= fileSize + 1 + PaddingZeros)
        <3>1. p - (fileSize + 1 + PaddingZeros) \in 1..LengthSize
            BY <1>9, <2>2
        <3> QED BY <1>5, <1>9, <2>2, <3>1
    <2> QED BY <2>1, <2>2
<1> QED BY <1>9, <1>10

\* How many zeros there are: up to the length in the marker's block if it fits
\* there, otherwise up to the length in the next one.
LEMMA PaddingFills ==
    ASSUME NEW whole \in Nat, NEW rest \in 0..BlockSize - 1,
           fileSize = whole * BlockSize + rest
    PROVE  PaddingZeros = IF Spills(rest + 1)
                          THEN 2 * BlockSize - (rest + 1) - LengthSize
                          ELSE BlockSize - (rest + 1) - LengthSize
<1> USE BlockAssumption
<1> DEFINE used == rest + 1 + LengthSize
           size == fileSize + 1 + LengthSize
<1>1. size = whole * BlockSize + used /\ (whole + 1) * BlockSize = whole * BlockSize + BlockSize
    BY Distribution
<1>2. CASE used < BlockSize
    <2>1. size % BlockSize = used
        BY <1>1, <1>2, DivisionIsUnique
    <2>2. (0 * BlockSize + (BlockSize - used)) % BlockSize = BlockSize - used
        BY <1>2, DivisionIsUnique
    <2> QED BY <1>2, <2>1, <2>2 DEF PaddingZeros, Spills
<1>3. CASE used = BlockSize
    <2>1. size = (whole + 1) * BlockSize + 0
        BY <1>1, <1>3
    <2>2. size % BlockSize = 0
        <3>1. whole + 1 \in Nat /\ 0 \in Nat /\ 0 < BlockSize /\ BlockSize # 0
            OBVIOUS
        <3>2. ((whole + 1) * BlockSize + 0) % BlockSize = 0
            BY <3>1, DivisionIsUnique
        <3> QED BY <2>1, <3>2
    <2>3. (1 * BlockSize + 0) % BlockSize = 0
        BY DivisionIsUnique
    <2> QED BY <1>3, <2>2, <2>3 DEF PaddingZeros, Spills
<1>4. CASE used > BlockSize
    <2>1. size = (whole + 1) * BlockSize + (used - BlockSize)
        BY <1>1, <1>4
    <2>2. size % BlockSize = used - BlockSize
        BY <1>4, <2>1, DivisionIsUnique
    <2>3. (0 * BlockSize + (2 * BlockSize - used)) % BlockSize = 2 * BlockSize - used
        BY <1>4, DivisionIsUnique
    <2> QED BY <1>4, <2>2, <2>3 DEF PaddingZeros, Spills
<1> QED BY <1>2, <1>3, <1>4

LEMMA ReferenceIsOfFile ==
    ASSUME UNCHANGED fileSize
    PROVE  ReferenceBlocks' = ReferenceBlocks
<1>1. PaddingZeros' = PaddingZeros
    BY DEF PaddingZeros
<1>2. Padded' = Padded
    BY <1>1 DEF Padded
<1> QED BY <1>2 DEF ReferenceBlocks

\* finalize compresses the one or two blocks that end the padded message.
LEMMA LastBlocks ==
    ASSUME HashInv, EndOfFile
    PROVE  HashInv'
<1> USE BlockAssumption
<1> DEFINE whole == Len(compressed)
           base == whole * BlockSize
           used == blockLen + 1
           room == BlockSize - LengthSize
           marked == Overwrite(block, blockLen, [k \in {0} |-> Marker])
           zeroed(b, to) == Overwrite(b, used, [k \in 0..to - used - 1 |-> Zero])
           final(b) == Overwrite(b, room, [k \in 0..LengthSize - 1 |-> LengthByte(lengthBytes)])
           one == final(zeroed(marked, room))
           two == <<zeroed(marked, BlockSize), final(EmptyBlock)>>
<1>1. /\ ~digested /\ position = fileSize /\ digested' = TRUE
      /\ UNCHANGED <<fileSize, position, block, blockLen, lengthBytes>>
      /\ compressed' = compressed \o (IF Spills(used) THEN two ELSE <<one>>)
    BY DEF EndOfFile, Finalize
<1>2. /\ whole \in Nat /\ base \in Nat /\ blockLen \in 0..BlockSize - 1
      /\ fileSize \in Nat /\ fileSize = base + blockLen /\ lengthBytes = fileSize
      /\ block \in Content /\ compressed \in Seq(Content)
    BY <1>1 DEF HashInv, HashAccounted
<1>3. /\ \A i \in 0..blockLen - 1 : block[i] = base + i + 1
      /\ \A j \in 1..whole : compressed[j] = FileBlock(j - 1)
    BY <1>1 DEF HashInv
<1>4. PaddingZeros = IF Spills(used) THEN 2 * BlockSize - used - LengthSize
                                     ELSE BlockSize - used - LengthSize
    BY <1>2, PaddingFills
<1>5. PaddingZeros \in Nat
    BY <1>2, <1>4 DEF Spills
<1> DEFINE extra == IF Spills(used) THEN 2 ELSE 1
           total == whole + extra
<1>6. /\ Len(Padded) = total * BlockSize
      /\ Len(Padded) = fileSize + 1 + PaddingZeros + LengthSize
      /\ \A p \in 1..Len(Padded) : Padded[p] =
                IF p <= fileSize THEN p
                ELSE IF p = fileSize + 1 THEN Marker
                ELSE IF p <= fileSize + 1 + PaddingZeros THEN Zero
                ELSE LengthByte(fileSize)
    <2>1. total * BlockSize = base + extra * BlockSize
        BY <1>2, Distribution
    <2>2. total * BlockSize = fileSize + 1 + PaddingZeros + LengthSize
        BY <1>2, <1>4, <2>1
    <2> QED BY <1>2, <1>5, <2>2, PaddedBytes
<1>7. Len(Padded) \div BlockSize = total
    <2>1. total \in Nat /\ 0 \in Nat /\ 0 < BlockSize /\ BlockSize # 0
        BY <1>2
    <2> HIDE DEF total
    <2>2. (total * BlockSize + 0) \div BlockSize = total
        BY <2>1, DivisionIsUnique
    <2> QED BY <1>6, <2>1, <2>2
<1> DEFINE last(j) == [i \in Indices |-> Padded[(j - 1) * BlockSize + i + 1]]
<1>8. ReferenceBlocks = [j \in 1..total |-> last(j)]
    BY <1>7 DEF ReferenceBlocks
<1>9. ASSUME NEW j \in 1..whole
      PROVE  compressed[j] = last(j)
    <2>1. (j - 1) * BlockSize + BlockSize <= base /\ (j - 1) * BlockSize \in Nat
        <3>1. j - 1 \in Nat /\ whole - j \in Nat /\ (whole - j) * BlockSize \in Nat
            BY <1>2
        <3>2. whole = (j - 1) + 1 + (whole - j)
            BY <1>2
        <3>3. base = (j - 1) * BlockSize + BlockSize + (whole - j) * BlockSize
            BY <1>2, <3>1, Distribution
        <3>4. (j - 1) * BlockSize \in Nat
            BY <3>1
        <3> QED BY <1>2, <3>1, <3>3, <3>4
    <2> DEFINE start == (j - 1) * BlockSize
    <2>2. \A i \in Indices : start + i + 1 \in 1..Len(Padded) /\ start + i + 1 <= fileSize
        BY <1>2, <1>5, <1>6, <2>1 DEF Indices
    <2>3. \A i \in Indices : Padded[start + i + 1] = start + i + 1
        BY <1>6, <2>2
    <2>4. last(j) = FileBlock(j - 1)
        BY <2>3 DEF FileBlock
    <2>5. compressed[j] = FileBlock(j - 1)
        BY <1>3
    <2> QED BY <2>4, <2>5
<1>10. marked = [i \in Indices |-> IF i = blockLen THEN Marker ELSE block[i]]
    BY <1>2 DEF Overwrite, Indices
<1>11. last(whole + 1) = [i \in Indices |-> Padded[base + i + 1]]
    BY <1>2
<1>12. last(whole + 2) = [i \in Indices |-> Padded[base + BlockSize + i + 1]]
    <2>1. (whole + 2 - 1) * BlockSize = base + BlockSize
        BY <1>2, Distribution
    <2> QED BY <2>1
<1>13. Len(Padded) = base + extra * BlockSize
    BY <1>2, <1>6, Distribution
<1>14. ASSUME NEW t \in Seq(Content), Len(t) = extra, compressed' = compressed \o t,
               \A k \in 1..extra : t[k] = last(whole + k)
       PROVE  HashInv'
    <2> HIDE DEF last
    <2>1. /\ compressed' \in Seq(Content) /\ Len(compressed') = total
          /\ \A j \in 1..total : compressed'[j] =
                IF j <= whole THEN compressed[j] ELSE t[j - whole]
        <3>1. /\ compressed \o t \in Seq(Content) /\ Len(compressed \o t) = whole + Len(t)
              /\ \A j \in 1..whole + Len(t) : (compressed \o t)[j] =
                    IF j <= whole THEN compressed[j] ELSE t[j - whole]
            BY <1>2, <1>14, ConcatProperties
        <3> QED BY <1>14, <3>1
    <2>2. ASSUME NEW j \in 1..total
          PROVE  compressed'[j] = last(j)
        <3>1. CASE j <= whole
            <4>1. j \in 1..whole
                BY <1>2, <3>1
            <4> QED BY <1>9, <2>1, <3>1, <4>1
        <3>2. CASE ~(j <= whole)
            <4>1. j - whole \in 1..extra /\ whole + (j - whole) = j
                BY <1>2, <3>2
            <4> QED BY <1>14, <2>1, <3>2, <4>1
        <3> QED BY <3>1, <3>2
    <2>3. compressed' = [j \in 1..total |-> compressed'[j]]
        BY <2>1
    <2>4. compressed' = ReferenceBlocks
        BY <1>8, <2>2, <2>3
    <2>5. DigestOfWholeFile'
        BY <1>1, <2>4, ReferenceIsOfFile DEF DigestOfWholeFile
    <2>6. HashAccounted'
        BY <1>1 DEF HashInv, HashAccounted
    <2> QED BY <1>1, <2>1, <2>5, <2>6 DEF HashInv
<1>15. marked \in Content
    BY <1>2, <1>10 DEF Content, Marker
<1>16. EmptyBlock \in Content
    BY DEF EmptyBlock, Content, Zero
<1> HIDE DEF marked, last, base, whole
<1>17. \A b \in Content, to \in Int : zeroed(b, to) \in Content
    BY <1>2 DEF Overwrite, Content, Zero, Indices
<1>18. \A b \in Content : final(b) \in Content
    BY <1>2 DEF Overwrite, Content, LengthByte, Indices
<1>19. CASE ~Spills(used)
    <2>1. ASSUME NEW i \in Indices
          PROVE  one[i] = Padded[base + i + 1]
        <3>1. Len(Padded) = base + BlockSize /\ fileSize + 1 + PaddingZeros = base + room
              /\ blockLen < room
            BY <1>2, <1>4, <1>13, <1>19 DEF Spills
        <3>2. base + i + 1 \in 1..Len(Padded) /\ i \in 0..BlockSize - 1
            BY <1>2, <3>1 DEF Indices
        <3>3. one[i] = IF i >= room THEN LengthByte(lengthBytes)
                       ELSE IF i > blockLen THEN Zero ELSE marked[i]
            BY <1>2, <3>2 DEF Overwrite, Indices
        <3>4. CASE i >= room
            <4>1. Padded[base + i + 1] = LengthByte(fileSize)
                BY <1>2, <1>6, <3>1, <3>2, <3>4
            <4> QED BY <1>2, <3>3, <3>4, <4>1
        <3>5. CASE i < room /\ i > blockLen
            <4>1. Padded[base + i + 1] = Zero
                BY <1>2, <1>6, <3>1, <3>2, <3>5
            <4> QED BY <1>2, <3>2, <3>3, <3>5, <4>1
        <3>6. CASE i <= blockLen
            <4>1. Padded[base + i + 1] = IF i = blockLen THEN Marker ELSE base + i + 1
                BY <1>2, <1>6, <3>2, <3>6
            <4>2. marked[i] = IF i = blockLen THEN Marker ELSE base + i + 1
                BY <1>2, <1>3, <1>10, <3>2, <3>6
            <4> QED BY <1>2, <3>1, <3>2, <3>3, <3>6, <4>1, <4>2
        <3> QED BY <1>2, <3>2, <3>4, <3>5, <3>6
    <2>2. one = last(whole + 1)
        BY <1>11, <2>1 DEF Overwrite
    <2>3. one \in Content
        BY <1>15, <1>17, <1>18
    <2> HIDE DEF one
    <2>4. <<one>> \in Seq(Content) /\ Len(<<one>>) = 1 /\ <<one>>[1] = one
        BY <2>3
    <2>5. compressed' = compressed \o <<one>>
        BY <1>1, <1>19
    <2>6. \A k \in 1..1 : <<one>>[k] = last(whole + k)
        BY <2>2, <2>4
    <2> QED BY <1>14, <1>19, <2>4, <2>5, <2>6
<1>20. CASE Spills(used)
    <2> DEFINE former == zeroed(marked, BlockSize)
               latter == final(EmptyBlock)
    <2>1. Len(Padded) = base + 2 * BlockSize
          /\ fileSize + 1 + PaddingZeros = base + BlockSize + room
        BY <1>2, <1>4, <1>13, <1>20
    <2>2. ASSUME NEW i \in Indices
          PROVE  former[i] = Padded[base + i + 1]
        <3>1. base + i + 1 \in 1..Len(Padded) /\ i \in 0..BlockSize - 1
            BY <1>2, <2>1 DEF Indices
        <3>2. former[i] = IF i > blockLen THEN Zero ELSE marked[i]
            BY <1>2, <3>1 DEF Overwrite, Indices
        <3>3. CASE i > blockLen
            <4>1. Padded[base + i + 1] = Zero
                BY <1>2, <1>6, <2>1, <3>1, <3>3
            <4> QED BY <3>2, <3>3, <4>1
        <3>4. CASE i <= blockLen
            <4>1. Padded[base + i + 1] = IF i = blockLen THEN Marker ELSE base + i + 1
                BY <1>2, <1>6, <3>1, <3>4
            <4>2. marked[i] = IF i = blockLen THEN Marker ELSE base + i + 1
                BY <1>2, <1>3, <1>10, <3>1, <3>4
            <4> QED BY <1>2, <3>1, <3>2, <3>4, <4>1, <4>2
        <3> QED BY <1>2, <3>1, <3>3, <3>4
    <2>3. ASSUME NEW i \in Indices
          PROVE  latter[i] = Padded[base + BlockSize + i + 1]
        <3>1. base + BlockSize + i + 1 \in 1..Len(Padded) /\ i \in 0..BlockSize - 1
            BY <1>2, <2>1 DEF Indices
        <3>2. latter[i] = IF i >= room THEN LengthByte(lengthBytes) ELSE Zero
            BY <1>2, <3>1 DEF Overwrite, Indices, EmptyBlock
        <3>3. CASE i >= room
            <4>1. Padded[base + BlockSize + i + 1] = LengthByte(fileSize)
                BY <1>2, <1>6, <2>1, <3>1, <3>3
            <4> QED BY <1>2, <3>2, <3>3, <4>1
        <3>4. CASE i < room
            <4>1. Padded[base + BlockSize + i + 1] = Zero
                BY <1>2, <1>6, <2>1, <3>1, <3>4
            <4> QED BY <3>1, <3>2, <3>4, <4>1
        <3> QED BY <3>1, <3>3, <3>4
    <2>4. former = last(whole + 1) /\ latter = last(whole + 2)
        BY <1>11, <1>12, <2>2, <2>3 DEF Overwrite
    <2>5. former \in Content /\ latter \in Content
        BY <1>15, <1>16, <1>17, <1>18
    <2> HIDE DEF former, latter
    <2>6. /\ <<former, latter>> \in Seq(Content) /\ Len(<<former, latter>>) = 2
          /\ <<former, latter>>[1] = former /\ <<former, latter>>[2] = latter
        BY <2>5
    <2>7. compressed' = compressed \o <<former, latter>>
        BY <1>1, <1>20 DEF former, latter
    <2>8. \A k \in 1..2 : <<former, latter>>[k] = last(whole + k)
        BY <2>4, <2>6
    <2> QED BY <1>14, <1>20, <2>6, <2>7, <2>8
<1> QED BY <1>19, <1>20

-----------------------------------------------------------------------------
LEMMA EmptyHash ==
    /\ EmptyBlock \in Content /\ <<>> \in Seq(Content)
    /\ Len(<<>>) * BlockSize + 0 = 0 /\ 0 < BlockSize
    /\ 1..Len(<<>>) = {} /\ 0..0 - 1 = {}
    /\ \A size \in Nat : 0 \in 0..size
BY BlockAssumption DEF EmptyBlock, Content, Zero

LEMMA HashStarts == InitHash => HashInv
<1> SUFFICES ASSUME InitHash PROVE HashInv
    OBVIOUS
<1>1. HashAccounted /\ DigestOfWholeFile
    BY EmptyHash DEF InitHash, HashAccounted, DigestOfWholeFile
<1>2. /\ fileSize = 0 /\ position = 0 /\ blockLen = 0 /\ lengthBytes = 0
      /\ block = EmptyBlock /\ compressed = <<>> /\ digested = FALSE
    BY DEF InitHash
<1> QED BY <1>1, <1>2, EmptyHash DEF HashInv

\* A new file, or none.
LEMMA HashRestarts ==
    ASSUME OpenExecutable \/ CloseExecutable
    PROVE  HashInv'
<1>1. /\ fileSize' \in Nat /\ position' = 0 /\ blockLen' = 0 /\ lengthBytes' = 0
      /\ block' = EmptyBlock /\ compressed' = <<>> /\ digested' = FALSE
    <2>1. CASE OpenExecutable
        BY <2>1, FileAssumption DEF OpenExecutable
    <2>2. CASE CloseExecutable
        BY <2>2 DEF CloseExecutable
    <2> QED BY <2>1, <2>2
<1>2. HashAccounted' /\ DigestOfWholeFile'
    BY <1>1, EmptyHash DEF HashAccounted, DigestOfWholeFile
<1> QED BY <1>1, <1>2, EmptyHash DEF HashInv

LEMMA HashStep ==
    ASSUME HashInv, [HashNext]_hashVars
    PROVE  HashInv'
<1>1. CASE OpenExecutable \/ CloseExecutable
    BY <1>1, HashRestarts
<1>2. CASE \E n \in 1..ReadSize : Read(n)
    BY <1>2, PartialRead, BlockRead DEF Read
<1>3. CASE EndOfFile
    BY <1>3, LastBlocks
<1>4. CASE UNCHANGED hashVars
    <2>1. HashAccounted' /\ DigestOfWholeFile'
        BY <1>4, ReferenceIsOfFile DEF hashVars, HashInv, HashAccounted, DigestOfWholeFile
    <2> QED BY <1>4, <2>1 DEF hashVars, HashInv
<1> QED BY <1>1, <1>2, <1>3, <1>4 DEF HashNext

\* However the executable is read in pieces, the whole blocks and the partial
\* one account for every byte, and the partial one has room for the marker.
THEOREM ReadsAreAccounted == HashSpec => []HashAccounted
<1>1. HashInv => HashAccounted
    BY DEF HashInv
<1> QED BY <1>1, HashStarts, HashStep, PTL DEF HashSpec

\* The blocks that file_hex compresses are those of the padded file, for every
\* size of file, block, length field and buffer.
THEOREM DigestIsOfWholeFile == HashSpec => []DigestOfWholeFile
<1>1. HashInv => DigestOfWholeFile
    BY DEF HashInv
<1> QED BY <1>1, HashStarts, HashStep, PTL DEF HashSpec

=============================================================================
