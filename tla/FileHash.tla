------------------------------ MODULE FileHash ------------------------------
(***************************************************************************)
(* How the executable is cut into SHA-256 blocks (src/src/sha256.rs):      *)
(* file_hex reads a file in pieces of any size, update keeps what does not *)
(* fill a block, finalize pads. The hash itself is abstracted to the       *)
(* sequence of blocks that were compressed, and a byte of the file to its  *)
(* position, so that a block tells which bytes went into it.               *)
(***************************************************************************)
EXTENDS Integers, Sequences

CONSTANTS
    BlockSize,      \* 64
    LengthSize,     \* 8: bytes of the length that ends the padding
    ReadSize,       \* size of the buffer of file_hex
    FileSizes       \* sizes an executable may have

ASSUME BlockAssumption ==
    /\ BlockSize \in Nat /\ LengthSize \in Nat \ {0}
    /\ LengthSize < BlockSize

ASSUME FileAssumption == ReadSize \in Nat \ {0} /\ FileSizes \subseteq Nat

VARIABLES
    fileSize,       \* bytes in the file
    position,       \* bytes read
    block,          \* the partial block, with what earlier blocks left in it
    blockLen,       \* bytes of it that are in use
    lengthBytes,    \* bytes hashed
    compressed,     \* the blocks that were compressed
    digested        \* whether finalize has run

hashVars == <<fileSize, position, block, blockLen, lengthBytes, compressed, digested>>

Indices == 0..BlockSize - 1

\* Bytes of the padding; those of the file are their positions, from 1.
Zero == 0
Marker == -1
LengthByte(length) == -2 - length

EmptyBlock == [i \in Indices |-> Zero]

InitHash ==
    /\ fileSize = 0
    /\ position = 0 /\ blockLen = 0 /\ lengthBytes = 0
    /\ block = EmptyBlock
    /\ compressed = <<>>
    /\ digested = FALSE

\* file_hex opens the file and starts with Sha256::new.
OpenExecutable ==
    /\ fileSize' \in FileSizes
    /\ position' = 0 /\ blockLen' = 0 /\ lengthBytes' = 0
    /\ block' = EmptyBlock
    /\ compressed' = <<>>
    /\ digested' = FALSE

\* file_hex returns, with a digest or an error: its locals are gone.
CloseExecutable ==
    /\ fileSize' = 0
    /\ position' = 0 /\ blockLen' = 0 /\ lengthBytes' = 0
    /\ block' = EmptyBlock
    /\ compressed' = <<>>
    /\ digested' = FALSE

-----------------------------------------------------------------------------
\* The bytes go to b from an index on.
Overwrite(b, from, bytes) ==
    [i \in Indices |-> IF i - from \in DOMAIN bytes THEN bytes[i - from] ELSE b[i]]

\* `count` bytes of this read, behind the first `skip`.
FileBytes(skip, count) == [k \in 0..count - 1 |-> position + skip + k + 1]

\* The block is filled up first; what is left of the input if that completes
\* it, or if there was no partial block, goes into whole blocks and a rest.
Taken(n) ==
    IF blockLen = 0 THEN 0
    ELSE IF n < BlockSize - blockLen THEN n ELSE BlockSize - blockLen

Filled(n) == Overwrite(block, blockLen, FileBytes(0, Taken(n)))

UpdatePartial(n) ==
    /\ blockLen # 0 /\ blockLen + Taken(n) # BlockSize
    /\ block' = Filled(n)
    /\ blockLen' = blockLen + Taken(n)
    /\ UNCHANGED compressed

UpdateBlocks(n) ==
    LET taken == Taken(n)
        whole == (n - taken) \div BlockSize
        rest  == (n - taken) % BlockSize
        nth(j) == FileBytes(taken + j * BlockSize, BlockSize)
    IN  /\ blockLen = 0 \/ blockLen + taken = BlockSize
        /\ compressed' = compressed
                            \o (IF blockLen = 0 THEN <<>> ELSE <<Filled(n)>>)
                            \o [j \in 1..whole |-> nth(j - 1)]
        /\ block' = Overwrite(Filled(n), 0, FileBytes(taken + whole * BlockSize, rest))
        /\ blockLen' = rest

\* One read of file_hex and the update with what it returned.
Read(n) ==
    /\ ~digested /\ n <= fileSize - position
    /\ position' = position + n
    /\ lengthBytes' = lengthBytes + n
    /\ UpdatePartial(n) \/ UpdateBlocks(n)
    /\ UNCHANGED <<fileSize, digested>>

\* Mutant: a marker in the first byte of the length field still fits.
SpillsLate(used) == used > BlockSize - LengthSize + 1

\* No room for the length behind the marker: it goes into a block of its own.
Spills(used) == used > BlockSize - LengthSize

Finalize ==
    LET room   == BlockSize - LengthSize
        used   == blockLen + 1
        marked == Overwrite(block, blockLen, [k \in {0} |-> Marker])
        zeroed(b, to) == Overwrite(b, used, [k \in 0..to - used - 1 |-> Zero])
        final(b) == Overwrite(b, room, [k \in 0..LengthSize - 1 |-> LengthByte(lengthBytes)])
    IN  compressed' =
            compressed \o (IF Spills(used)
                           THEN <<zeroed(marked, BlockSize), final(EmptyBlock)>>
                           ELSE <<final(zeroed(marked, room))>>)

EndOfFile ==
    /\ ~digested /\ position = fileSize
    /\ digested' = TRUE
    /\ Finalize
    /\ UNCHANGED <<fileSize, position, block, blockLen, lengthBytes>>

-----------------------------------------------------------------------------
\* FIPS 180-4: the message, the marker, as few zeros as fill the last block,
\* the length.
PaddingZeros == (BlockSize - ((fileSize + 1 + LengthSize) % BlockSize)) % BlockSize

Padded ==
    [p \in 1..fileSize |-> p] \o <<Marker>> \o [p \in 1..PaddingZeros |-> Zero]
        \o [p \in 1..LengthSize |-> LengthByte(fileSize)]

ReferenceBlocks ==
    [j \in 1..Len(Padded) \div BlockSize |->
        [i \in Indices |-> Padded[(j - 1) * BlockSize + i + 1]]]

\* The digest that decides which build's addresses are expected is that of the
\* file: however it was read in pieces and wherever it ends in its last block,
\* the compressed blocks are those of the padded message.
DigestOfWholeFile == digested => compressed = ReferenceBlocks

\* While a file is hashed the partial block has room for the next byte and the
\* marker, and with the whole blocks it accounts for all of what was read.
HashAccounted ==
    /\ blockLen < BlockSize
    /\ lengthBytes = position
    /\ ~digested => Len(compressed) * BlockSize + blockLen = position

HashNext ==
    \/ OpenExecutable \/ CloseExecutable
    \/ \E n \in 1..ReadSize : Read(n)
    \/ EndOfFile

HashSpec == InitHash /\ [][HashNext]_hashVars

=============================================================================
