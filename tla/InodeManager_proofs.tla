------------------------- MODULE InodeManager_proofs -------------------------
(***************************************************************************)
(* Theorems about the inode layer, in three parts.                         *)
(*                                                                         *)
(* The layout of an image of any size, where the bitmaps and the inode     *)
(* table lie: an image of T blocks has the size T * BlockSize (line 21 of  *)
(* src/lc_image_format.cpp asserts a multiple).                            *)
(*                                                                         *)
(* What get_block_id and get_indirect_block_id map, for every number of    *)
(* direct pointers and every size of a pointer block.                      *)
(*                                                                         *)
(* InodeManager, in both builds, for callers that let one thread at a time *)
(* allocate or free inodes, save the inode bitmap before they stop, empty  *)
(* the pointers of a new inode, allocate only while an inode is free, and  *)
(* let no inode in use be read from the table again but the first of a     *)
(* block.  The invariant says what a thread inside alloc_inode or          *)
(* free_inode knows of its inode.  As it is the only one there, nobody     *)
(* else changes that knowledge; the callers still read and write the files *)
(* meanwhile.                                                              *)
(***************************************************************************)
EXTENDS InodeManager, ImageFormat, FiniteSetTheorems, TLAPS

-----------------------------------------------------------------------------
(* The layout of an image. *)

LEMMA CeilDivideIs ==
    ASSUME NEW a \in Nat, NEW b \in {8, BlockSize, InodesPerBlock}
    PROVE  /\ CeilDivide(a, b) \in Nat
           /\ CeilDivide(a, b) * b >= a
           /\ CeilDivide(a, b) * b < a + b
<1>1. CASE b = 8
  BY <1>1 DEF CeilDivide
<1>2. CASE b = BlockSize
  BY <1>2 DEF CeilDivide, BlockSize
<1>3. CASE b = InodesPerBlock
  BY <1>3 DEF CeilDivide, InodesPerBlock
<1> QED BY <1>1, <1>2, <1>3

\* The number of blocks of a bitmap is its number of bits, rounded up.
LEMMA BitmapBlocksIs ==
    ASSUME NEW n \in Nat
    PROVE  /\ BitmapBlocks(n) \in Nat
           /\ BitmapBlocks(n) * BitsPerBlock >= n
           /\ BitmapBlocks(n) * BitsPerBlock < n + BitsPerBlock
<1>1. /\ CeilDivide(n, 8) \in Nat
      /\ CeilDivide(n, 8) * 8 >= n /\ CeilDivide(n, 8) * 8 < n + 8
  BY CeilDivideIs
<1>2. /\ BitmapBlocks(n) \in Nat
      /\ BitmapBlocks(n) * BlockSize >= CeilDivide(n, 8)
      /\ BitmapBlocks(n) * BlockSize < CeilDivide(n, 8) + BlockSize
  BY <1>1, CeilDivideIs DEF BitmapBlocks
<1> QED BY <1>1, <1>2 DEF BlockSize, BitsPerBlock

LEMMA SuperBlockIs ==
    ASSUME NEW T \in Nat, T < TwoTo32, NEW h, h = SuperBlock(T * BlockSize)
    PROVE  /\ h.total_blocks = T
           /\ h.inode_count = T \div 4 /\ h.inode_count \in Nat
           /\ h.block_bitmap_start = 1
           /\ h.inode_bitmap_start = 1 + BitmapBlocks(T)
           /\ h.inode_block_start = h.inode_bitmap_start + BitmapBlocks(T \div 4)
           /\ h.inode_block_count = CeilDivide(T \div 4, InodesPerBlock)
           /\ h.data_start = h.inode_block_start + h.inode_block_count
<1>1. /\ (T * BlockSize) \div BlockSize = T
      /\ (T * BlockSize) \div BytesPerInode = T \div 4
      /\ T \div 4 \in Nat /\ T \div 4 < TwoTo32
  BY DEF BlockSize, BytesPerInode, TwoTo32
<1>2. U32(T) = T /\ U32(T \div 4) = T \div 4
  BY <1>1 DEF U32, TwoTo32
<1> QED BY <1>1, <1>2 DEF SuperBlock

\* The superblock, the two bitmaps, the inode table and the data lie one behind
\* the other, none of them empty, in every image of at least five blocks.
THEOREM RegionsOrdered ==
    ASSUME NEW T \in Nat, 5 <= T, T < TwoTo32, NEW h, h = SuperBlock(T * BlockSize)
    PROVE  /\ 0 < h.block_bitmap_start
           /\ h.block_bitmap_start < h.inode_bitmap_start
           /\ h.inode_bitmap_start < h.inode_block_start
           /\ h.inode_block_start < h.data_start
           /\ h.data_start < h.total_blocks
<1> DEFINE I == T \div 4
<1>1. I \in Nat /\ 1 <= I /\ 4 * I <= T
  OBVIOUS
<1>2. /\ BitmapBlocks(T) \in Nat /\ BitmapBlocks(I) \in Nat
      /\ BitmapBlocks(T) * 32768 >= T /\ BitmapBlocks(T) * 32768 < T + 32768
      /\ BitmapBlocks(I) * 32768 >= I /\ BitmapBlocks(I) * 32768 < I + 32768
  BY <1>1, BitmapBlocksIs DEF BitsPerBlock
<1>3. /\ CeilDivide(I, 16) \in Nat
      /\ CeilDivide(I, 16) * 16 >= I /\ CeilDivide(I, 16) * 16 < I + 16
  BY <1>1, CeilDivideIs DEF InodesPerBlock
<1>4. /\ h.total_blocks = T /\ h.block_bitmap_start = 1
      /\ h.inode_bitmap_start = 1 + BitmapBlocks(T)
      /\ h.inode_block_start = 1 + BitmapBlocks(T) + BitmapBlocks(I)
      /\ h.data_start
           = 1 + BitmapBlocks(T) + BitmapBlocks(I) + CeilDivide(I, 16)
  BY SuperBlockIs DEF InodesPerBlock
<1> HIDE DEF I
<1>5. 1 + BitmapBlocks(T) + BitmapBlocks(I) + CeilDivide(I, 16) < T
  BY <1>1, <1>2, <1>3
<1> QED BY <1>1, <1>2, <1>3, <1>4, <1>5

\* The bitmaps have a bit for every block and every inode, and no two blocks
\* share one (lc_cal_bitmap_index and the sizes of the format).
THEOREM BitmapsHold ==
    ASSUME NEW T \in Nat, 5 <= T, T < TwoTo32, NEW h, h = SuperBlock(T * BlockSize)
    PROVE  /\ \A b \in 0 .. h.total_blocks - 1 :
                BitmapIndex(h.block_bitmap_start, b).block_id
                    \in h.block_bitmap_start .. h.inode_bitmap_start - 1
           /\ \A i \in 0 .. h.inode_count - 1 :
                BitmapIndex(h.inode_bitmap_start, i).block_id
                    \in h.inode_bitmap_start .. h.inode_block_start - 1
           /\ \A b, c \in 0 .. h.total_blocks - 1 :
                BitmapIndex(h.block_bitmap_start, b)
                    = BitmapIndex(h.block_bitmap_start, c) => b = c
<1>1. /\ BitmapBlocks(T) \in Nat
      /\ BitmapBlocks(T) * 32768 >= T
  BY BitmapBlocksIs DEF BitsPerBlock
<1>2. /\ T \div 4 \in Nat
      /\ BitmapBlocks(T \div 4) \in Nat
      /\ BitmapBlocks(T \div 4) * 32768 >= T \div 4
  BY BitmapBlocksIs DEF BitsPerBlock
<1>3. /\ h.total_blocks = T /\ h.inode_count = T \div 4
      /\ h.block_bitmap_start = 1
      /\ h.inode_bitmap_start = 1 + BitmapBlocks(T)
      /\ h.inode_block_start = 1 + BitmapBlocks(T) + BitmapBlocks(T \div 4)
  BY SuperBlockIs
<1>4. ASSUME NEW s, NEW x
      PROVE  BitmapIndex(s, x).block_id = s + (x \div 32768)
  BY DEF BitmapIndex, BitsPerBlock
<1>5. ASSUME NEW b \in Nat, NEW c \in Nat,
             BitmapIndex(1, b) = BitmapIndex(1, c)
      PROVE  b = c
  <2>1. /\ 1 + (b \div 32768) = 1 + (c \div 32768)
        /\ (b % 32768) \div 8 = (c % 32768) \div 8
        /\ (b % 32768) % 8 = (c % 32768) % 8
    BY <1>5 DEF BitmapIndex, BitsPerBlock
  <2> QED BY <2>1
<1>6. ASSUME NEW b \in 0 .. h.total_blocks - 1
      PROVE  BitmapIndex(h.block_bitmap_start, b).block_id
                    \in h.block_bitmap_start .. h.inode_bitmap_start - 1
  <2>1. b \div 32768 \in 0 .. BitmapBlocks(T) - 1
    BY <1>1, <1>3
  <2> QED BY <1>1, <1>3, <1>4, <2>1
<1>7. ASSUME NEW i \in 0 .. h.inode_count - 1
      PROVE  BitmapIndex(h.inode_bitmap_start, i).block_id
                    \in h.inode_bitmap_start .. h.inode_block_start - 1
  <2>1. i \div 32768 \in 0 .. BitmapBlocks(T \div 4) - 1
    BY <1>2, <1>3
  <2> QED BY <1>1, <1>2, <1>3, <1>4, <2>1
<1>8. ASSUME NEW b \in 0 .. h.total_blocks - 1, NEW c \in 0 .. h.total_blocks - 1,
             BitmapIndex(h.block_bitmap_start, b)
                = BitmapIndex(h.block_bitmap_start, c)
      PROVE  b = c
  <2>1. b \in Nat /\ c \in Nat
    BY <1>3
  <2>2. BitmapIndex(1, b) = BitmapIndex(1, c)
    BY <1>3, <1>8
  <2> QED BY <1>5, <2>1, <2>2
<1> QED BY <1>6, <1>7, <1>8

\* Every inode has a slot of its own in the table: inside its block, not over
\* another inode's, and on a block the device accepts (calc_block_id,
\* calc_offset, check_range).
THEOREM InodeSlots ==
    ASSUME NEW T \in Nat, 5 <= T, T < TwoTo32, NEW h, h = SuperBlock(T * BlockSize)
    PROVE  \A i, j \in 0 .. h.inode_count - 1 :
             /\ InodeBlock(h, i) \in h.inode_block_start .. h.data_start - 1
             /\ CheckRange(h, InodeBlock(h, i))
             /\ InodeOffset(i) + InodeSize <= BlockSize
             /\ i # j /\ InodeBlock(h, i) = InodeBlock(h, j) =>
                  \/ InodeOffset(i) + InodeSize <= InodeOffset(j)
                  \/ InodeOffset(j) + InodeSize <= InodeOffset(i)
<1> DEFINE I == T \div 4
<1>1. /\ I \in Nat /\ BitmapBlocks(T) \in Nat /\ BitmapBlocks(I) \in Nat
  BY BitmapBlocksIs
<1>2. /\ CeilDivide(I, 16) \in Nat /\ CeilDivide(I, 16) * 16 >= I
  BY <1>1, CeilDivideIs DEF InodesPerBlock
<1>3. /\ h.total_blocks = T /\ h.inode_count = I
      /\ h.inode_block_start \in Nat /\ 0 < h.inode_block_start
      /\ h.data_start = h.inode_block_start + CeilDivide(I, 16)
      /\ h.data_start < T
  <2>1. h.data_start < T
    BY RegionsOrdered, SuperBlockIs
  <2> QED BY <1>1, <2>1, SuperBlockIs DEF InodesPerBlock
<1> HIDE DEF I
<1> SUFFICES ASSUME NEW i \in 0 .. I - 1, NEW j \in 0 .. I - 1
             PROVE  /\ InodeBlock(h, i)
                          \in h.inode_block_start .. h.data_start - 1
                    /\ CheckRange(h, InodeBlock(h, i))
                    /\ InodeOffset(i) + InodeSize <= BlockSize
                    /\ i # j /\ InodeBlock(h, i) = InodeBlock(h, j) =>
                         \/ InodeOffset(i) + InodeSize <= InodeOffset(j)
                         \/ InodeOffset(j) + InodeSize <= InodeOffset(i)
  BY <1>3
<1>4. i \div 16 \in 0 .. CeilDivide(I, 16) - 1
  BY <1>1, <1>2
<1>5. InodeBlock(h, i) \in h.inode_block_start .. h.data_start - 1
  BY <1>2, <1>3, <1>4 DEF InodeBlock, InodesPerBlock
<1>6. CheckRange(h, InodeBlock(h, i))
  BY <1>2, <1>3, <1>5 DEF CheckRange
<1>7. InodeOffset(i) + InodeSize <= BlockSize
  BY <1>1 DEF InodeOffset, InodeSize, BlockSize, InodesPerBlock
<1>8. ASSUME i # j, InodeBlock(h, i) = InodeBlock(h, j)
      PROVE  \/ InodeOffset(i) + InodeSize <= InodeOffset(j)
             \/ InodeOffset(j) + InodeSize <= InodeOffset(i)
  <2>1. i \div 16 = j \div 16
    BY <1>1, <1>3, <1>8 DEF InodeBlock, InodesPerBlock
  <2>2. i % 16 # j % 16
    BY <1>1, <1>8, <2>1
  <2> QED BY <1>1, <2>2 DEF InodeOffset, InodeSize, InodesPerBlock
<1> QED BY <1>5, <1>6, <1>7, <1>8

\* The block bitmap of a new image has exactly the bits of the blocks before
\* the data set, whatever the rounding to bytes and bitmap blocks, and it is
\* written inside the block bitmap.
THEOREM InitialBitmap ==
    ASSUME NEW T \in Nat, 5 <= T, T < TwoTo32, NEW h, h = SuperBlock(T * BlockSize)
    PROVE  /\ InitialBits(h) = 0 .. h.data_start - 1
           /\ h.block_bitmap_start + BitmapBlocks(h.data_start)
                <= h.inode_bitmap_start
<1> DEFINE D == h.data_start
<1>1. D \in Nat /\ D < T
  <2>1. D < h.total_blocks /\ h.total_blocks = T
    BY RegionsOrdered, SuperBlockIs
  <2>2. T \div 4 \in Nat
    OBVIOUS
  <2>3. /\ BitmapBlocks(T) \in Nat /\ BitmapBlocks(T \div 4) \in Nat
        /\ CeilDivide(T \div 4, InodesPerBlock) \in Nat
    BY <2>2, BitmapBlocksIs, CeilDivideIs
  <2>4. D = 1 + BitmapBlocks(T) + BitmapBlocks(T \div 4)
              + CeilDivide(T \div 4, InodesPerBlock)
    BY SuperBlockIs
  <2>5. D \in Nat
    BY <2>3, <2>4
  <2> QED BY <2>1, <2>5
<1>2. /\ BitmapBlocks(D) \in Nat
      /\ BitmapBlocks(D) * 32768 >= D /\ BitmapBlocks(D) * 32768 < D + 32768
  BY <1>1, BitmapBlocksIs DEF BitsPerBlock
<1>3. /\ BitmapBlocks(T) \in Nat /\ BitmapBlocks(T) * 32768 >= T
  BY BitmapBlocksIs DEF BitsPerBlock
<1>4. h.block_bitmap_start = 1 /\ h.inode_bitmap_start = 1 + BitmapBlocks(T)
  BY SuperBlockIs
<1> HIDE DEF D
<1>5. h.block_bitmap_start + BitmapBlocks(D) <= h.inode_bitmap_start
  BY <1>1, <1>2, <1>3, <1>4
<1>6. ASSUME NEW x \in InitialBits(h)
      PROVE  x \in 0 .. D - 1
  <2>1. PICK k \in 0 .. BitmapBlocks(D) - 1, j \in 0 .. BlockSize - 1 :
           x \in BitsOfByte(h, k, j)
    BY <1>6 DEF InitialBits, D
  <2>2. k \in Nat /\ j \in Nat
    BY <1>2, <2>1 DEF BlockSize
  <2> QED BY <1>1, <2>1, <2>2 DEF BitsOfByte, BlockSize, D
<1>7. ASSUME NEW x \in 0 .. D - 1
      PROVE  x \in InitialBits(h)
  <2> DEFINE k == x \div 32768
  <2> DEFINE j == (x % 32768) \div 8
  <2>1. k \in 0 .. BitmapBlocks(D) - 1
    BY <1>1, <1>2
  <2>2. j \in 0 .. BlockSize - 1
    BY <1>1 DEF BlockSize
  <2>3. LET first == k * BlockSize * 8 + j * 8
        IN  first \in Nat /\ first <= x /\ x <= first + 7
    BY <1>1 DEF BlockSize
  <2> HIDE DEF k, j
  <2>4. x \in BitsOfByte(h, k, j)
    BY <1>1, <2>3 DEF BitsOfByte, D
  <2> QED BY <2>1, <2>2, <2>4 DEF InitialBits, D
<1>8. InitialBits(h) = 0 .. D - 1
  BY <1>6, <1>7, Zenon
<1> QED BY <1>5, <1>8 DEF D

\* Up to 66 million blocks (251 GiB) the format writes the inode table where
\* the device will look for it.
THEOREM InodeTableInPlace ==
    ASSUME NEW T \in Nat, 5 <= T, T <= 66000000,
           NEW h, h = SuperBlock(T * BlockSize)
    PROVE  \A i \in 0 .. h.inode_block_count - 1 :
             SeekTo(h.inode_block_start + i) = DevicePos(h.inode_block_start + i)
<1> DEFINE I == T \div 4
<1>1. I \in Nat /\ 4 * I <= T /\ T < TwoTo32
  BY DEF TwoTo32
<1>2. /\ BitmapBlocks(T) \in Nat /\ BitmapBlocks(I) \in Nat
      /\ BitmapBlocks(T) * 32768 < T + 32768
      /\ BitmapBlocks(I) * 32768 < I + 32768
  BY <1>1, BitmapBlocksIs DEF BitsPerBlock
<1>3. /\ CeilDivide(I, 16) \in Nat
      /\ CeilDivide(I, 16) * 16 < I + 16
  BY <1>1, CeilDivideIs DEF InodesPerBlock
<1>4. /\ h.inode_block_start = 1 + BitmapBlocks(T) + BitmapBlocks(I)
      /\ h.inode_block_count = CeilDivide(I, 16)
  BY <1>1, SuperBlockIs DEF InodesPerBlock
<1> HIDE DEF I
<1>5. h.inode_block_start \in Nat /\ h.inode_block_count \in Nat
      /\ h.inode_block_start + h.inode_block_count < 1048576
  BY <1>1, <1>2, <1>3, <1>4
<1> QED BY <1>5 DEF SeekTo, DevicePos, U32, TwoTo32, BlockSize

\* At 256 GiB the product of line 127 wraps inside the inode table: a block of
\* inodes is written to the start of the file, over the superblock.
THEOREM InodeTableOverSuperBlock ==
    ASSUME NEW h, h = SuperBlock(67108864 * BlockSize)
    PROVE  0 \in InodeSeeks(h)
<1> DEFINE T == 67108864
<1>1. T \in Nat /\ T < TwoTo32 /\ T \div 4 = 16777216
  BY SMT DEF TwoTo32
<1>2. BitmapBlocks(T) = 2048 /\ BitmapBlocks(16777216) = 512
  BY SMT DEF BitmapBlocks, CeilDivide, BlockSize
<1>3. CeilDivide(16777216, 16) = 1048576
  BY SMT DEF CeilDivide
<1>4. h.inode_block_start = 2561 /\ h.inode_block_count = 1048576
  BY <1>1, <1>2, <1>3, SuperBlockIs, SMT DEF InodesPerBlock
<1>5. SeekTo(h.inode_block_start + 1046015) = 0
  BY <1>4, SMT DEF SeekTo, U32, TwoTo32, BlockSize
<1>6. 1046015 \in 0 .. h.inode_block_count - 1
  BY <1>4, SMT
<1> QED BY <1>5, <1>6, SMT DEF InodeSeeks

-----------------------------------------------------------------------------
(* The map from a file's blocks to pointers. *)

\* The 32-bit subtraction of line 172: exact when it does not pass zero, and
\* far above any index when it does.
LEMMA LeftIs ==
    ASSUME NEW n \in Nat, n < Width, NEW i \in 1 .. 3
    PROVE  Left(n, i) = IF n >= i * PtrsPerBlock THEN n - i * PtrsPerBlock
                                                ELSE n - i * PtrsPerBlock + Width
<1> DEFINE d == n - i * PtrsPerBlock
<1>1. i = 1 \/ i = 2 \/ i = 3
  OBVIOUS
<1>2. d \in Int /\ -Width < d /\ d < Width
  BY <1>1, FileMapAssumption
<1>3. ASSUME NEW x \in Int, 0 <= x, x < Width PROVE x % Width = x
  BY <1>3, FileMapAssumption
<1>4. ASSUME NEW x \in Int, -Width < x, x < 0 PROVE x % Width = x + Width
  BY <1>4, FileMapAssumption
<1>5. d >= 0 <=> n >= i * PtrsPerBlock
  BY <1>1, FileMapAssumption
<1>6. Left(n, i) = d % Width
  BY DEF Left
<1>7. CASE d >= 0
  BY <1>2, <1>3, <1>5, <1>6, <1>7
<1>8. CASE d < 0
  BY <1>2, <1>4, <1>5, <1>6, <1>8
<1> QED BY <1>2, <1>7, <1>8

\* Which turn takes which blocks.
LEMMA TurnIs ==
    ASSUME NEW n \in Nat, n < Width, n + 4 * PtrsPerBlock < Width,
           NEW i \in 1 .. 3
    PROVE  Takes(n, i) <=> i * PtrsPerBlock <= n /\ n < (i + 1) * PtrsPerBlock
<1>1. i = 1 \/ i = 2 \/ i = 3
  OBVIOUS
<1>2. \A j \in 1 .. 3 :
        Left(n, j) = IF n >= j * PtrsPerBlock THEN n - j * PtrsPerBlock
                                             ELSE n - j * PtrsPerBlock + Width
  BY LeftIs
<1>3. /\ Left(n, 1) < PtrsPerBlock
            <=> PtrsPerBlock <= n /\ n < 2 * PtrsPerBlock
      /\ Left(n, 2) < PtrsPerBlock
            <=> 2 * PtrsPerBlock <= n /\ n < 3 * PtrsPerBlock
      /\ Left(n, 3) < PtrsPerBlock
            <=> 3 * PtrsPerBlock <= n /\ n < 4 * PtrsPerBlock
  BY <1>2, FileMapAssumption
<1>4. \A j \in 1 .. 3 : Left(n, j) \in Int
  BY <1>2, FileMapAssumption
<1>5. CASE i = 1
  BY <1>3, <1>5, FileMapAssumption DEF Takes
<1>6. CASE i = 2
  BY <1>3, <1>4, <1>6, FileMapAssumption DEF Takes
<1>7. CASE i = 3
  BY <1>3, <1>4, <1>7, FileMapAssumption DEF Takes
<1> QED BY <1>1, <1>5, <1>6, <1>7

\* The path of each kind of block, spelled out.
LEMMA PathIs ==
    ASSUME NEW n \in Nat, n + 4 * PtrsPerBlock < Width
    PROVE  BlockPath(n) =
             IF n < DirectPtrs THEN << n >>
             ELSE IF n < PtrsPerBlock THEN << >>
             ELSE IF n < 2 * PtrsPerBlock
                  THEN << DirectPtrs, n - PtrsPerBlock >>
             ELSE IF n < 3 * PtrsPerBlock
                  THEN << DirectPtrs + 1, 0, n - 2 * PtrsPerBlock >>
             ELSE IF n < 4 * PtrsPerBlock THEN << DirectPtrs + 2, 0, 0, 0 >>
             ELSE << >>
<1> DEFINE P == PtrsPerBlock
<1>1. P \in Nat \ {0} /\ DirectPtrs \in Nat /\ DirectPtrs <= P /\ n < Width
  BY FileMapAssumption
<1>2. \A i \in 1 .. 3 : Takes(n, i) <=> i * P <= n /\ n < (i + 1) * P
  BY <1>1, TurnIs
<1>3. \A i \in 1 .. 3 : n >= i * P => Left(n, i) = n - i * P
  BY <1>1, LeftIs
<1>4. ASSUME NEW x \in Nat, x < P
      PROVE  x \div P = 0 /\ x % P = x
  BY <1>1, <1>4
<1>5. ASSUME NEW x \in Nat, x < P
      PROVE  x \div (P * P) = 0
  <2>1. P * P \in Nat \ {0} /\ P <= P * P
    <3>1. 1 <= P
      BY <1>1
    <3>2. P * 1 <= P * P
      BY <1>1, <3>1, SMTT(30)
    <3> QED BY <1>1, <3>2
  <2> HIDE DEF P
  <2>2. ASSUME NEW q \in Nat \ {0}, x < q PROVE x \div q = 0
    BY <2>2
  <2> QED BY <1>1, <1>5, <2>1, <2>2
<1>6. 0 \div P = 0 /\ 0 % P = 0
  BY <1>1, <1>4
<1>7. CASE n < DirectPtrs
  <2>1. ~Takes(n, 1) /\ ~Takes(n, 2) /\ ~Takes(n, 3)
    BY <1>1, <1>2, <1>7
  <2> QED BY <1>1, <1>7, <2>1 DEF BlockPath
<1>8. CASE DirectPtrs <= n /\ n < P
  <2>1. ~Takes(n, 1) /\ ~Takes(n, 2) /\ ~Takes(n, 3)
    BY <1>1, <1>2, <1>8
  <2> QED BY <1>1, <1>8, <2>1 DEF BlockPath
<1>9. CASE P <= n /\ n < 2 * P
  <2>1. Takes(n, 1) /\ Left(n, 1) = n - P
    BY <1>1, <1>2, <1>3, <1>9
  <2>2. ~Takes(n, 2) /\ ~Takes(n, 3)
    BY <1>1, <1>2, <1>9
  <2>3. BlockPath(n) = << DirectPtrs >> \o Path1(n - P)
    BY <1>1, <1>9, <2>1, <2>2 DEF BlockPath
  <2> QED BY <1>1, <1>9, <2>3 DEF Path1
<1>10. CASE 2 * P <= n /\ n < 3 * P
  <2>1. Takes(n, 2) /\ Left(n, 2) = n - 2 * P
    BY <1>1, <1>2, <1>3, <1>10
  <2>2. ~Takes(n, 1) /\ ~Takes(n, 3)
    BY <1>1, <1>2, <1>10
  <2>3. BlockPath(n) = << DirectPtrs + 1 >> \o Path2(n - 2 * P)
    BY <1>1, <1>10, <2>1, <2>2 DEF BlockPath
  <2>4. (n - 2 * P) \div P = 0 /\ (n - 2 * P) % P = n - 2 * P
    BY <1>1, <1>4, <1>10
  <2> QED BY <1>1, <1>10, <2>3, <2>4 DEF Path2, Path1
<1>11. CASE 3 * P <= n /\ n < 4 * P
  <2>1. Takes(n, 3) /\ Left(n, 3) = n - 3 * P
    BY <1>1, <1>2, <1>3, <1>11
  <2>2. ~Takes(n, 1) /\ ~Takes(n, 2)
    BY <1>1, <1>2, <1>11
  <2>3. BlockPath(n) = << DirectPtrs + 2 >> \o Path3(n - 3 * P)
    BY <1>1, <1>11, <2>1, <2>2 DEF BlockPath
  <2>4. (n - 3 * P) \div (P * P) = 0
    BY <1>1, <1>5, <1>11
  <2> QED BY <1>1, <1>6, <1>11, <2>3, <2>4 DEF Path3, Path2, Path1
<1>12. CASE 4 * P <= n
  <2>1. ~Takes(n, 1) /\ ~Takes(n, 2) /\ ~Takes(n, 3)
    BY <1>1, <1>2, <1>12
  <2> QED BY <1>1, <1>12, <2>1 DEF BlockPath
<1> QED BY <1>1, <1>7, <1>8, <1>9, <1>10, <1>11, <1>12

\* Only direct blocks have a path of one step.
LEMMA LongPath ==
    ASSUME NEW n \in Nat, n + 4 * PtrsPerBlock < Width,
           DirectPtrs <= n, n <= PtrsPerBlock
    PROVE  BlockPath(n) # << n >>
<1> DEFINE P == PtrsPerBlock
<1>1. P \in Nat \ {0} /\ DirectPtrs \in Nat /\ DirectPtrs <= P
  BY FileMapAssumption
<1>2. CASE n < P
  <2>1. BlockPath(n) = << >>
    BY <1>1, <1>2, PathIs
  <2> QED BY <2>1
<1>3. CASE n = P
  <2>1. BlockPath(n) = << DirectPtrs, n - P >>
    BY <1>1, <1>3, PathIs
  <2> QED BY <2>1
<1> QED BY <1>1, <1>2, <1>3

\* get_block_id never maps the blocks from the last direct one up to the size
\* of a pointer block (line 172 subtracts that size before it has looked), nor
\* any behind four times that size: a write there meets the assertion of line
\* 219, and a read finds zeros.
THEOREM Unmapped ==
    ASSUME NEW n \in Nat, n + 4 * PtrsPerBlock < Width
    PROVE  BlockPath(n) = << >> <=> \/ DirectPtrs <= n /\ n < PtrsPerBlock
                                   \/ 4 * PtrsPerBlock <= n
<1> DEFINE P == PtrsPerBlock
<1>1. P \in Nat \ {0} /\ DirectPtrs \in Nat /\ DirectPtrs <= P
  BY FileMapAssumption
<1>2. CASE n < DirectPtrs
  <2>1. BlockPath(n) = << n >> /\ << n >> # << >>
    BY <1>2, PathIs
  <2> QED BY <1>1, <1>2, <2>1
<1>3. CASE DirectPtrs <= n /\ n < P
  BY <1>1, <1>3, PathIs
<1>4. CASE P <= n /\ n < 2 * P
  <2>1. BlockPath(n) = << DirectPtrs, n - P >>
    BY <1>1, <1>4, PathIs
  <2> QED BY <1>1, <1>4, <2>1
<1>5. CASE 2 * P <= n /\ n < 3 * P
  <2>1. BlockPath(n) = << DirectPtrs + 1, 0, n - 2 * P >>
    BY <1>1, <1>5, PathIs
  <2> QED BY <1>1, <1>5, <2>1
<1>6. CASE 3 * P <= n /\ n < 4 * P
  <2>1. BlockPath(n) = << DirectPtrs + 2, 0, 0, 0 >>
    BY <1>1, <1>6, PathIs
  <2> QED BY <1>1, <1>6, <2>1
<1>7. CASE 4 * P <= n
  BY <1>1, <1>7, PathIs
<1> QED BY <1>1, <1>2, <1>3, <1>4, <1>5, <1>6, <1>7

\* Below three times the size of a pointer block no two blocks of a file are
\* looked for in the same place.
THEOREM PathsAreDistinct ==
    ASSUME NEW m \in Nat, NEW n \in Nat,
           m < 3 * PtrsPerBlock, n < 3 * PtrsPerBlock,
           BlockPath(m) = BlockPath(n), BlockPath(n) # << >>
    PROVE  m = n
<1> DEFINE P == PtrsPerBlock
<1> DEFINE Direct(k) == k < DirectPtrs
<1> DEFINE Single(k) == P <= k /\ k < 2 * P
<1> DEFINE Double(k) == 2 * P <= k /\ k < 3 * P
<1> DEFINE Kind(k) ==
      /\ Direct(k) => BlockPath(k) = << k >>
      /\ Single(k) => BlockPath(k) = << DirectPtrs, k - P >>
      /\ Double(k) => BlockPath(k) = << DirectPtrs + 1, 0, k - 2 * P >>
      /\ Direct(k) \/ Single(k) \/ Double(k)
<1>1. P \in Nat \ {0} /\ DirectPtrs \in Nat /\ DirectPtrs <= P
  BY FileMapAssumption
<1>2. ASSUME NEW k \in Nat, k < 3 * P, BlockPath(k) # << >> PROVE Kind(k)
  <2>1. k + 4 * P < Width
    BY <1>1, <1>2, FileMapAssumption
  <2>2. ~(DirectPtrs <= k /\ k < P)
    BY <1>1, <1>2, <2>1, PathIs
  <2>3. Direct(k) \/ Single(k) \/ Double(k)
    BY <1>1, <1>2, <2>2
  <2>4. /\ Direct(k) => BlockPath(k) = << k >>
        /\ Single(k) => BlockPath(k) = << DirectPtrs, k - P >>
    BY <1>1, <2>1, PathIs
  <2>5. Double(k) => BlockPath(k) = << DirectPtrs + 1, 0, k - 2 * P >>
    BY <1>1, <2>1, PathIs
  <2> QED BY <2>3, <2>4, <2>5
<1>3. Kind(m) /\ Kind(n)
  BY <1>2
<1>4. CASE Direct(m)
  BY <1>1, <1>3, <1>4
<1>5. CASE Single(m)
  BY <1>1, <1>3, <1>5
<1>6. CASE Double(m)
  BY <1>1, <1>3, <1>6
<1> QED BY <1>3, <1>4, <1>5, <1>6

\* Behind that, at the third level, line 479 divides the index of the first
\* pointer once more instead of what is left of the block number: all the
\* blocks the level maps are looked for in one place.
THEOREM ThirdLevelIsOneBlock ==
    ASSUME NEW n \in Nat, n + 4 * PtrsPerBlock < Width,
           3 * PtrsPerBlock <= n, n < 4 * PtrsPerBlock
    PROVE  BlockPath(n) = << DirectPtrs + 2, 0, 0, 0 >>
BY PathIs, FileMapAssumption

-----------------------------------------------------------------------------
(* InodeManager. *)

Discipline == /\ Serialised /\ SaveFirst /\ BlankFirst
              /\ ~AllocatesFull /\ ~ReloadsUsed

TypeOK ==
    /\ bitmap \subseteq Inode
    /\ inode \in [Inode -> InodeRecord]
    /\ allocated \subseteq Block
    /\ content \in [Block -> Value \cup {Zero}]
    /\ pc \in [Thread -> {"idle", "found", "set", "new", "freeing",
                          "truncating"}]
    /\ ino \in [Thread -> Inode]
    /\ due \in [Inode -> Nat]
    /\ wrote \in [Inode -> [FileBlock -> Value \cup {Zero}]]

OneAtATime == \A t, u \in Thread : t # u => pc[t] = "idle" \/ pc[u] = "idle"

\* What a thread that allocates or frees knows of its inode.
PlacesFit ==
    \A t \in Thread :
      /\ pc[t] = "found" => ino[t] \notin bitmap
      /\ pc[t] \in {"set", "new"} => ino[t] \in bitmap
      /\ InAlloc(t) => due[ino[t]] = 0
      /\ InFree(t) => ino[t] \in bitmap
      /\ pc[t] = "truncating" => due[ino[t]] = 0

\* Who has an inode whose bit is set, and that its users do.
BitsFit ==
    \A i \in Inode :
      /\ i \in bitmap => \/ due[i] > 0
                         \/ \E t \in Thread :
                              ino[t] = i /\ pc[t] \notin {"idle", "found"}
      /\ due[i] > 0 => i \in bitmap

BeingFreed(i) == \E t \in Thread : InFree(t) /\ ino[t] = i

LinksFit ==
    /\ \A i \in Inode :
         due[i] > 0 /\ ~BeingFreed(i) => inode[i].links = due[i]
    /\ \A t \in Thread :
         pc[t] = "freeing" => inode[ino[t]].links = due[ino[t]] + 1

Used(i) == due[i] > 0 \/ BeingFreed(i)

\* The blocks of the inodes in use: theirs alone, allocated, and all that is.
PtrsFit ==
    /\ \A i \in Inode, k \in Ptr :
         Used(i) => inode[i].ptr[k] \in allocated \cup {Illegal}
    /\ \A i, j \in Inode, k, m \in Ptr :
         /\ Used(i) /\ Used(j)
         /\ inode[i].ptr[k] = inode[j].ptr[m] /\ inode[i].ptr[k] # Illegal
         => i = j /\ k = m
    /\ \A b \in allocated :
         \E i \in Inode, k \in Ptr : Used(i) /\ inode[i].ptr[k] = b

\* free_block leaves zeros.
FreeFit == \A b \in Block \ allocated : content[b] = Zero

IInv == /\ TypeOK /\ OneAtATime /\ PlacesFit /\ BitsFit /\ LinksFit
        /\ PtrsFit /\ FreeFit /\ ReadsBack

-------------------------------------------------------------------------------
\* The constants, as the proofs use them.
LEMMA Constants == /\ Ptr \subseteq FileBlock /\ Ptr \subseteq Nat
                   /\ Illegal \notin Block /\ Illegal # SuperBlockId
                   /\ SuperBlockId \notin Block
                   /\ Block \cup {SuperBlockId, Illegal} \subseteq Nat
                   /\ Misreads \subseteq InodeRecord
BY FileMapAssumption, ManagerAssumption DEF Ptr, FileBlock, SuperBlockId

\* The blocks with a path of one step are the direct ones.
LEMMA DirectPath ==
    ASSUME NEW n \in FileBlock, BlockPath(n) = << n >>
    PROVE  n \in Ptr
<1>1. /\ n \in Nat /\ n <= PtrsPerBlock
      /\ DirectPtrs \in Nat /\ PtrsPerBlock \in Nat \ {0}
      /\ DirectPtrs <= PtrsPerBlock
  BY FileMapAssumption DEF FileBlock
<1>2. n + 4 * PtrsPerBlock < Width
  BY <1>1, FileMapAssumption
<1>3. CASE n < DirectPtrs
  BY <1>1, <1>3 DEF Ptr
<1>4. CASE DirectPtrs <= n
  BY <1>1, <1>2, <1>4, LongPath
<1> QED
  BY <1>1, <1>3, <1>4

\* One pointer of one inode is replaced.
LEMMA PtrSet ==
    ASSUME inode \in [Inode -> InodeRecord], NEW i \in Inode, NEW n \in Ptr,
           NEW b \in Nat
    PROVE  [inode EXCEPT ![i].ptr[n] = b] \in [Inode -> InodeRecord]
<1> DEFINE old == inode[i]
           new == [old EXCEPT !.ptr[n] = b]
<1>1. old.links \in Nat /\ old.ptr \in [Ptr -> Nat]
      /\ old = [links |-> old.links, ptr |-> old.ptr]
  BY DEF InodeRecord
<1>2. new = [links |-> old.links, ptr |-> [old.ptr EXCEPT ![n] = b]]
  <2> HIDE DEF old
  <2> QED
    BY <1>1
<1>3. new \in InodeRecord
  BY <1>1, <1>2 DEF InodeRecord
<1>4. [inode EXCEPT ![i].ptr[n] = b] = [inode EXCEPT ![i] = new]
  OBVIOUS
<1> HIDE DEF old, new
<1> QED
  BY <1>3, <1>4

\* PtrsFit for two pointers.
LEMMA UsedApart ==
    ASSUME IInv, NEW i \in Inode, NEW j \in Inode, NEW k \in Ptr, NEW m \in Ptr,
           Used(i), Used(j), inode[i].ptr[k] = inode[j].ptr[m],
           inode[i].ptr[k] # Illegal
    PROVE  i = j /\ k = m
BY DEF IInv, PtrsFit

\* PtrsFit is about the inodes in use and the block bitmap only.
LEMMA UnchangedPtrs ==
    ASSUME PtrsFit, allocated' = allocated,
           \A i \in Inode : Used(i)' <=> Used(i),
           \A i \in Inode : Used(i) => inode'[i] = inode[i]
    PROVE  PtrsFit'
<1> DEFINE W(i) == Used(i)'
<1>1. \A i \in Inode : W(i) <=> Used(i)
  OBVIOUS
<1> HIDE DEF W
<1>2. \A i \in Inode, k \in Ptr :
         W(i) => inode'[i].ptr[k] \in allocated' \cup {Illegal}
  BY <1>1 DEF PtrsFit
<1>3. \A i, j \in Inode, k, m \in Ptr :
         /\ W(i) /\ W(j)
         /\ inode'[i].ptr[k] = inode'[j].ptr[m] /\ inode'[i].ptr[k] # Illegal
         => i = j /\ k = m
  BY <1>1 DEF PtrsFit
<1>4. \A b \in allocated' :
         \E i \in Inode, k \in Ptr : W(i) /\ inode'[i].ptr[k] = b
  BY <1>1 DEF PtrsFit
<1> QED
  BY <1>2, <1>3, <1>4 DEF PtrsFit, W

\* Where the model ends, only why it does changes.
LEMMA StopKeeps == ASSUME NEW why, IInv, Stop(why) PROVE IInv'
BY DEF Stop, IInv, TypeOK, OneAtATime, PlacesFit, BitsFit, LinksFit, PtrsFit,
       FreeFit, ReadsBack, ReadAt, BeingFreed, Used, InAlloc, InFree, disk

\* The invariant at the start.
LEMMA InitHolds == Init => IInv
<1> SUFFICES ASSUME Init PROVE IInv
  OBVIOUS
<1>1. TypeOK
  BY Constants, ManagerAssumption DEF Init, TypeOK, Cleared, Inode, InodeRecord,
                                      Ptr, FileBlock
<1>2. OneAtATime /\ PlacesFit /\ BitsFit /\ LinksFit
  BY DEF Init, OneAtATime, PlacesFit, BitsFit, LinksFit, BeingFreed, InAlloc,
         InFree
<1>3. PtrsFit /\ FreeFit /\ ReadsBack
  BY DEF Init, PtrsFit, FreeFit, ReadsBack, Used, BeingFreed, InFree
<1> QED
  BY <1>1, <1>2, <1>3 DEF IInv

-------------------------------------------------------------------------------
\* The steps of alloc_inode, by the only thread there.
LEMMA AllocKeeps ==
    ASSUME Discipline, IInv, NEW t \in Thread,
           FindInode(t) \/ SetBit(t) \/ WriteNew(t)
    PROVE  IInv'
<1> USE DEF IInv, TypeOK, OneAtATime, At, Goto, disk
<1>0. CASE \E why : Stop(why)
  BY <1>0, StopKeeps
<1>1. CASE FindInode(t) /\ ~\E why : Stop(why)
  <2>1. PICK i \in Inode \ bitmap : ino' = [ino EXCEPT ![t] = i]
    <3>1. \E i \in Lowest(Candidates) : ino' = [ino EXCEPT ![t] = i]
      BY <1>1 DEF FindInode, Discipline
    <3> QED
      BY <3>1 DEF Lowest, Candidates
  <2>2. \A u \in Thread : pc[u] = "idle"
    BY <1>1 DEF FindInode, MayChange, Discipline
  <2>3. pc' = [pc EXCEPT ![t] = "found"]
        /\ UNCHANGED << bitmap, inode, allocated, content, due, wrote >>
    BY <1>1 DEF FindInode
  <2>4. due[i] = 0
    BY <2>1 DEF BitsFit
  <2>5. TypeOK' /\ OneAtATime'
    BY <2>1, <2>2, <2>3
  <2>6. \A j \in Inode : ~BeingFreed(j) /\ ~BeingFreed(j)'
    BY <2>2, <2>3 DEF BeingFreed, InFree
  <2>7. PlacesFit' /\ BitsFit'
    BY <2>1, <2>2, <2>3, <2>4 DEF PlacesFit, BitsFit, InAlloc, InFree
  <2>8. LinksFit'
    BY <2>2, <2>3, <2>6 DEF LinksFit
  <2>9. PtrsFit' /\ ReadsBack'
    BY <2>3, <2>6 DEF PtrsFit, ReadsBack, ReadAt, Used
  <2>10. FreeFit'
    BY <2>3 DEF FreeFit
  <2> QED
    BY <2>5, <2>7, <2>8, <2>9, <2>10
<1>2. CASE (SetBit(t) \/ WriteNew(t)) /\ ~\E why : Stop(why)
  <2>1. /\ pc[t] \in {"found", "set"}
        /\ pc' = [pc EXCEPT ![t] = IF pc[t] = "found" THEN "set" ELSE "new"]
        /\ bitmap' = bitmap \cup {ino[t]}
        /\ \A i \in Inode : i # ino[t] => inode'[i] = inode[i]
        /\ UNCHANGED << allocated, content, ino, due, wrote >>
    BY <1>2 DEF SetBit, WriteNew, PlacesFit
  <2>2. \A u \in Thread \ {t} : pc[u] = "idle"
    BY <2>1
  <2>3. due[ino[t]] = 0
    BY <2>1 DEF PlacesFit, InAlloc
  <2>4. inode' \in [Inode -> InodeRecord]
    <3>1. CASE SetBit(t)
      BY <3>1 DEF SetBit
    <3>2. CASE WriteNew(t)
      <4> DEFINE new == [links |-> 1, ptr |-> [k \in Ptr |-> SuperBlockId]]
      <4>1. inode' = [inode EXCEPT ![ino[t]] = new]
        BY <1>2, <3>2 DEF WriteNew
      <4>2. new \in InodeRecord
        BY Constants DEF InodeRecord
      <4> HIDE DEF new
      <4> QED
        BY <4>1, <4>2
    <3> QED
      BY <1>2, <3>1, <3>2
  <2>5. TypeOK' /\ OneAtATime'
    BY <2>1, <2>2, <2>4
  <2>6. \A j \in Inode : ~BeingFreed(j) /\ ~BeingFreed(j)'
    BY <2>1, <2>2 DEF BeingFreed, InFree
  <2>7. PlacesFit'
    BY <2>1, <2>2, <2>3 DEF PlacesFit, InAlloc, InFree
  <2>8. BitsFit'
    BY <2>1, <2>2 DEF BitsFit
  <2>9. \A i \in Inode : Used(i) => i # ino[t]
    BY <2>3, <2>6 DEF Used
  <2>10. \A i \in Inode : Used(i)' <=> Used(i)
    BY <2>1, <2>6 DEF Used
  <2>11. LinksFit'
    BY <2>1, <2>2, <2>3, <2>6 DEF LinksFit
  <2>11a. \A i \in Inode : Used(i) => inode'[i] = inode[i]
    BY <2>1, <2>9
  <2>12. PtrsFit'
    BY <2>1, <2>10, <2>11a, UnchangedPtrs
  <2>13. ReadsBack'
    BY <2>1, <2>11a, Constants DEF ReadsBack, ReadAt, Used
  <2>14. FreeFit'
    BY <2>1 DEF FreeFit
  <2> QED
    BY <2>5, <2>7, <2>8, <2>11, <2>12, <2>13, <2>14
<1> QED
  BY <1>0, <1>1, <1>2

\* The caller makes the new inode empty: its pointers stop being block 0.
LEMMA TakeKeeps ==
    ASSUME Discipline, IInv, NEW t \in Thread, TakeInode(t) PROVE IInv'
<1> USE DEF IInv, TypeOK, OneAtATime, At, Goto, disk
<1>1. PICK n \in 1 .. MaxLinks :
        /\ inode' = [inode EXCEPT ![ino[t]] = Cleared(n)]
        /\ due' = [due EXCEPT ![ino[t]] = n]
  BY DEF TakeInode, Discipline
<1> DEFINE i == ino[t]
<1>2. /\ pc[t] = "new" /\ pc' = [pc EXCEPT ![t] = "idle"]
      /\ wrote' = [wrote EXCEPT ![i] = [k \in FileBlock |-> Zero]]
      /\ UNCHANGED << bitmap, allocated, content, ino >>
  BY DEF TakeInode
<1>3. n \in Nat /\ n > 0 /\ i \in Inode
  BY ManagerAssumption
<1>4. \A u \in Thread \ {t} : pc[u] = "idle"
  BY <1>2
<1>5. /\ inode'[i].links = n
      /\ \A k \in Ptr : inode'[i].ptr[k] = Illegal
      /\ Cleared(n) \in InodeRecord
  BY <1>1, <1>3, Constants DEF Cleared, InodeRecord
<1>6. \A j \in Inode \ {i} :
         inode'[j] = inode[j] /\ due'[j] = due[j] /\ wrote'[j] = wrote[j]
  BY <1>1, <1>2
<1>7. TypeOK' /\ OneAtATime'
  BY <1>1, <1>2, <1>3, <1>4, <1>5
<1>8. \A j \in Inode : ~BeingFreed(j) /\ ~BeingFreed(j)'
  BY <1>2, <1>4 DEF BeingFreed, InFree
<1>9. due[i] = 0 /\ i \in bitmap /\ due'[i] = n
  BY <1>1, <1>2, <1>3 DEF PlacesFit, InAlloc
<1>10. PlacesFit' /\ BitsFit'
  BY <1>2, <1>3, <1>4, <1>6, <1>9 DEF PlacesFit, BitsFit, InAlloc, InFree
<1>11. LinksFit'
  BY <1>2, <1>4, <1>5, <1>6, <1>8, <1>9 DEF LinksFit
<1>12. \A j \in Inode \ {i} : Used(j)' <=> Used(j)
  BY <1>6, <1>8 DEF Used
<1>13. ~Used(i)
  BY <1>3, <1>8, <1>9 DEF Used
<1>14. PtrsFit'
  <2> DEFINE W(j) == Used(j)'
  <2>1. \A j \in Inode \ {i} : W(j) <=> Used(j)
    BY <1>12
  <2> HIDE DEF W
  <2>2. \A j \in Inode, k \in Ptr :
          W(j) => inode'[j].ptr[k] \in allocated' \cup {Illegal}
    BY <1>2, <1>5, <1>6, <2>1 DEF PtrsFit
  <2>3. \A j, l \in Inode, k, m \in Ptr :
          /\ W(j) /\ W(l)
          /\ inode'[j].ptr[k] = inode'[l].ptr[m] /\ inode'[j].ptr[k] # Illegal
          => j = l /\ k = m
    <3>1. \A j, l \in Inode \ {i}, k, m \in Ptr :
            /\ Used(j) /\ Used(l)
            /\ inode[j].ptr[k] = inode[l].ptr[m] /\ inode[j].ptr[k] # Illegal
            => j = l /\ k = m
      BY DEF PtrsFit
    <3> SUFFICES ASSUME NEW j \in Inode, NEW l \in Inode, NEW k \in Ptr,
                        NEW m \in Ptr, W(j), W(l),
                        inode'[j].ptr[k] = inode'[l].ptr[m],
                        inode'[j].ptr[k] # Illegal
                 PROVE  j = l /\ k = m
      OBVIOUS
    <3>2. j # i /\ l # i
      BY <1>5
    <3>3. Used(j) /\ Used(l) /\ inode'[j] = inode[j] /\ inode'[l] = inode[l]
      BY <1>6, <2>1, <3>2
    <3> QED
      BY <3>1, <3>2, <3>3
  <2>4. ASSUME NEW b \in allocated'
        PROVE  \E j \in Inode, k \in Ptr : W(j) /\ inode'[j].ptr[k] = b
    <3>1. PICK j \in Inode, k \in Ptr : Used(j) /\ inode[j].ptr[k] = b
      BY <1>2, <2>4 DEF PtrsFit
    <3> QED
      BY <1>6, <1>13, <2>1, <3>1
  <2> QED
    BY <2>2, <2>3, <2>4 DEF PtrsFit, W
<1>15. ReadsBack'
  BY <1>2, <1>3, <1>5, <1>6, Constants DEF ReadsBack, ReadAt
<1>16. FreeFit'
  BY <1>2 DEF FreeFit
<1> QED
  BY <1>7, <1>10, <1>11, <1>14, <1>15, <1>16

-------------------------------------------------------------------------------
\* A write goes to a block that is the file's own, there already or until now
\* nobody's.  With assertions the block is taken and nothing written.
LEMMA WriteKeeps ==
    ASSUME IInv, NEW t \in Thread, NEW i \in Inode, NEW n \in FileBlock,
           WriteFileBlock(t, i, n)
    PROVE  IInv'
<1> USE DEF IInv, TypeOK, OneAtATime, disk
<1>1. n \in Ptr
  BY DirectPath DEF WriteFileBlock
<1>0. due[i] > 0 /\ Used(i) /\ ~Stray(i, n)
  BY <1>1 DEF WriteFileBlock, Usable, Used, PtrsFit, Stray
<1> DEFINE w(b, v) ==
             /\ content' = [content EXCEPT ![b] = v]
             /\ wrote' = [wrote EXCEPT ![i][n] = v]
<1>2a. PICK b \in Targets(i, n) :
         /\ allocated' = allocated \cup {b}
         /\ inode' = [inode EXCEPT ![i].ptr[n] = b]
         /\ \/ UNCHANGED << content, wrote >>
            \/ \E v \in Value : w(b, v)
         /\ UNCHANGED << bitmap, pc, ino, due >>
  BY <1>0 DEF WriteFileBlock
<1>3. due[i] > 0 /\ Used(i) /\ UNCHANGED << bitmap, pc, ino, due >>
  BY <1>0, <1>2a
<1>4. \/ b = inode[i].ptr[n] /\ b \in allocated
      \/ b \notin allocated /\ inode[i].ptr[n] = Illegal /\ b \in Block
  BY <1>0, <1>2a DEF Targets, TargetsNew, Lowest, Stray
<1>4a. b \in Block
  BY <1>4
<1>2. PICK v \in Value \cup {Zero} : w(b, v)
  <2>1. CASE \E v \in Value : w(b, v)
    BY <2>1
  <2>2. CASE UNCHANGED << content, wrote >>
    <3> DEFINE u == content[b]
    <3>1. u \in Value \cup {Zero}
      BY <1>4a
    <3>2. wrote[i][n] = u
      <4>1. ReadAt(i, n) = wrote[i][n]
        BY <1>0, <1>1 DEF ReadsBack
      <4>2. ReadAt(i, n) = u
        BY <1>1, <1>4, <1>4a, Constants DEF ReadAt, FreeFit
      <4> QED
        BY <4>1, <4>2
    <3>3. content' = [content EXCEPT ![b] = u]
      BY <1>4a, <2>2
    <3>4. wrote' = [wrote EXCEPT ![i][n] = u]
      <4>1. [wrote[i] EXCEPT ![n] = u] = wrote[i]
        BY <3>2
      <4> QED
        BY <2>2, <4>1
    <3> QED
      BY <3>1, <3>3, <3>4
  <2> QED
    BY <1>2a, <2>1, <2>2
<1>5. b # Illegal
  BY <1>4a, Constants
<1>6. \A j \in Inode, k \in Ptr :
         inode'[j].ptr[k] = IF j = i /\ k = n THEN b ELSE inode[j].ptr[k]
  BY <1>1, <1>2a DEF InodeRecord
<1>7. \A j \in Inode : inode'[j].links = inode[j].links
  BY <1>2a DEF InodeRecord
<1>8. \A j \in Inode, k \in Ptr :
         Used(j) /\ inode[j].ptr[k] = b => j = i /\ k = n
  BY <1>1, <1>3, <1>4, <1>5 DEF PtrsFit
<1>9. \A j \in Inode, m \in FileBlock :
         wrote'[j][m] = IF j = i /\ m = n THEN v ELSE wrote[j][m]
  BY <1>2
<1>10. TypeOK' /\ OneAtATime'
  <2>1. inode' \in [Inode -> InodeRecord]
    BY <1>1, <1>2a, <1>4a, Constants, PtrSet
  <2>2. wrote' \in [Inode -> [FileBlock -> Value \cup {Zero}]]
    BY <1>2
  <2>3. content' \in [Block -> Value \cup {Zero}] /\ allocated' \subseteq Block
    BY <1>2, <1>2a, <1>4a
  <2> QED
    BY <1>3, <2>1, <2>2, <2>3
<1>11. PlacesFit' /\ BitsFit'
  BY <1>3 DEF PlacesFit, BitsFit, InAlloc, InFree
<1>12. \A j \in Inode : /\ BeingFreed(j)' <=> BeingFreed(j)
                        /\ Used(j)' <=> Used(j)
  BY <1>3 DEF BeingFreed, Used, InFree
<1>13. LinksFit'
  BY <1>3, <1>7, <1>12 DEF LinksFit
<1>14. PtrsFit'
  <2>1. \A j \in Inode, k \in Ptr :
          Used(j) => inode'[j].ptr[k] \in allocated' \cup {Illegal}
    BY <1>2a, <1>6 DEF PtrsFit
  <2>2. ASSUME NEW j \in Inode, NEW l \in Inode, NEW k \in Ptr, NEW m \in Ptr,
               Used(j), Used(l), inode'[j].ptr[k] = inode'[l].ptr[m],
               inode'[j].ptr[k] # Illegal
        PROVE  j = l /\ k = m
    <3>1. CASE inode'[j].ptr[k] = b
      BY <1>6, <1>8, <2>2, <3>1
    <3>2. CASE inode'[j].ptr[k] # b
      <4>1. /\ inode'[j].ptr[k] = inode[j].ptr[k]
            /\ inode'[l].ptr[m] = inode[l].ptr[m]
        BY <1>6, <2>2, <3>2
      <4>2. inode[j].ptr[k] = inode[l].ptr[m] /\ inode[j].ptr[k] # Illegal
        BY <2>2, <4>1
      <4> QED
        BY <2>2, <4>2, UsedApart
    <3> QED
      BY <3>1, <3>2
  <2>3. ASSUME NEW c \in allocated'
        PROVE  \E j \in Inode, k \in Ptr : Used(j) /\ inode'[j].ptr[k] = c
    <3>1. CASE c = b
      BY <1>1, <1>3, <1>6, <3>1
    <3>2. CASE c # b
      <4>1. PICK j \in Inode, k \in Ptr : Used(j) /\ inode[j].ptr[k] = c
        BY <1>2a, <2>3, <3>2 DEF PtrsFit
      <4>2. ~(j = i /\ k = n)
        <5>1. c # Illegal
          BY <1>2a, <1>4a, <2>3, Constants
        <5> QED
          BY <1>4, <3>2, <4>1, <5>1
      <4> QED
        BY <1>6, <4>1, <4>2
    <3> QED
      BY <3>1, <3>2
  <2> QED
    BY <1>12, <2>1, <2>2, <2>3 DEF PtrsFit
<1>15. ReadsBack'
  <2> SUFFICES ASSUME NEW j \in Inode, NEW m \in Ptr, due[j] > 0
               PROVE  ReadAt(j, m)' = wrote'[j][m]
    BY <1>3 DEF ReadsBack
  <2>1. ReadAt(j, m) = wrote[j][m] /\ Used(j)
    BY DEF ReadsBack, Used
  <2>0. m \in FileBlock
    BY Constants
  <2>2. CASE j = i /\ m = n
    BY <1>1, <1>2, <1>4a, <1>5, <1>6, <1>9, <2>0, <2>2 DEF ReadAt
  <2>3. CASE ~(j = i /\ m = n)
    <3>1. inode'[j].ptr[m] = inode[j].ptr[m] /\ inode[j].ptr[m] # b
      BY <1>6, <1>8, <2>1, <2>3
    <3>2. inode[j].ptr[m] \in allocated \cup {Illegal}
      BY <2>1, <2>3 DEF PtrsFit
    <3>3. inode[j].ptr[m] # Illegal
             => content'[inode[j].ptr[m]] = content[inode[j].ptr[m]]
      BY <1>2, <3>1, <3>2
    <3> QED
      BY <1>9, <2>0, <2>1, <2>3, <3>1, <3>3 DEF ReadAt
  <2> QED
    BY <2>2, <2>3
<1>16. FreeFit'
  BY <1>2, <1>2a DEF FreeFit
<1> QED
  BY <1>10, <1>11, <1>13, <1>14, <1>15, <1>16

-------------------------------------------------------------------------------
\* The steps of free_inode that leave the pointers alone.
LEMMA LinkKeeps ==
    ASSUME Discipline, IInv, NEW t \in Thread,
           \/ \E i \in Inode : BeginFree(t, i)
           \/ DropLink(t) \/ DropLastLink(t)
    PROVE  IInv'
<1> USE DEF IInv, TypeOK, OneAtATime, At, Goto, disk
<1>1. CASE \E i \in Inode : BeginFree(t, i)
  <2>1. PICK i \in Inode : BeginFree(t, i)
    BY <1>1
  <2>2. due[i] > 0 /\ i \in bitmap
    BY <2>1 DEF BeginFree, BitsFit
  <2>3. \A u \in Thread : pc[u] = "idle"
    BY <2>1 DEF BeginFree, MayChange, Discipline
  <2>4. /\ ino' = [ino EXCEPT ![t] = i]
        /\ due' = [due EXCEPT ![i] = @ - 1]
        /\ pc' = [pc EXCEPT ![t] = "freeing"]
        /\ UNCHANGED << bitmap, inode, allocated, content, wrote >>
    BY <2>1, <2>2 DEF BeginFree
  <2>5. /\ due'[i] = due[i] - 1 /\ due'[i] \in Nat
        /\ \A j \in Inode \ {i} : due'[j] = due[j]
    BY <2>2, <2>4
  <2>6. TypeOK' /\ OneAtATime'
    BY <2>3, <2>4, <2>5
  <2>7. \A j \in Inode : ~BeingFreed(j) /\ (BeingFreed(j)' <=> j = i)
    BY <2>3, <2>4 DEF BeingFreed, InFree
  <2>8. PlacesFit'
    BY <2>2, <2>3, <2>4 DEF PlacesFit, InAlloc, InFree
  <2>9. BitsFit'
    BY <2>2, <2>3, <2>4, <2>5 DEF BitsFit
  <2>10. LinksFit'
    BY <2>2, <2>3, <2>4, <2>5, <2>7 DEF LinksFit
  <2>11. \A j \in Inode : Used(j)' <=> Used(j)
    BY <2>2, <2>5, <2>7 DEF Used
  <2>12. PtrsFit'
    BY <2>4, <2>11, UnchangedPtrs
  <2>13. ReadsBack'
    BY <2>2, <2>4, <2>5 DEF ReadsBack, ReadAt
  <2>14. FreeFit'
    BY <2>4 DEF FreeFit
  <2> QED
    BY <2>6, <2>8, <2>9, <2>10, <2>12, <2>13, <2>14
<1>2. CASE DropLink(t)
  <2> DEFINE i == ino[t]
  <2>1. /\ pc[t] = "freeing" /\ inode[i].links > 1
        /\ inode' = [inode EXCEPT ![i].links = @ - 1]
        /\ pc' = [pc EXCEPT ![t] = "idle"]
        /\ UNCHANGED << bitmap, allocated, content, ino, due, wrote >>
    BY <1>2 DEF DropLink, IsLastLink, InodeRecord
  <2>2. \A u \in Thread \ {t} : pc[u] = "idle"
    BY <2>1
  <2>3. inode[i].links = due[i] + 1 /\ due[i] > 0 /\ i \in bitmap
    BY <2>1 DEF LinksFit, PlacesFit, InFree
  <2>4. /\ inode'[i].links = due[i]
        /\ \A j \in Inode : inode'[j].ptr = inode[j].ptr
        /\ \A j \in Inode \ {i} : inode'[j] = inode[j]
    BY <2>1, <2>3 DEF InodeRecord
  <2>5. TypeOK' /\ OneAtATime'
    <3>1. i \in Inode /\ inode[i].links - 1 \in Nat
      BY <2>1 DEF InodeRecord
    <3> DEFINE old == inode[i]
    <3>2. /\ old \in InodeRecord
          /\ inode' = [inode EXCEPT ![i] = [old EXCEPT !.links = @ - 1]]
      BY <2>1, <3>1
    <3> HIDE DEF old
    <3>3. [old EXCEPT !.links = @ - 1]
             \in InodeRecord
      BY <3>1, <3>2 DEF old, InodeRecord
    <3>4. inode' \in [Inode -> InodeRecord]
      BY <3>1, <3>2, <3>3
    <3> QED
      BY <2>1, <2>2, <3>4
  <2>6. \A j \in Inode : (BeingFreed(j) <=> j = i) /\ ~BeingFreed(j)'
    BY <2>1, <2>2 DEF BeingFreed, InFree
  <2>7. PlacesFit' /\ BitsFit'
    BY <2>1, <2>2, <2>3 DEF PlacesFit, BitsFit, InAlloc, InFree
  <2>8. LinksFit'
    BY <2>1, <2>2, <2>4, <2>6 DEF LinksFit
  <2>9. \A j \in Inode : Used(j)' <=> Used(j)
    BY <2>1, <2>3, <2>6 DEF Used
  <2>10. PtrsFit'
    BY <2>1, <2>4, <2>9 DEF PtrsFit
  <2>11. ReadsBack'
    BY <2>1, <2>4 DEF ReadsBack, ReadAt
  <2>12. FreeFit'
    BY <2>1 DEF FreeFit
  <2> QED
    BY <2>5, <2>7, <2>8, <2>10, <2>11, <2>12
<1>3. CASE DropLastLink(t)
  <2>1. /\ pc[t] = "freeing" /\ inode[ino[t]].links <= 1
        /\ pc' = [pc EXCEPT ![t] = "truncating"]
        /\ UNCHANGED << bitmap, inode, allocated, content, ino, due, wrote >>
    BY <1>3 DEF DropLastLink, IsLastLink
  <2>2. \A u \in Thread \ {t} : pc[u] = "idle"
    BY <2>1
  <2>3. due[ino[t]] = 0 /\ ino[t] \in bitmap
    BY <2>1 DEF LinksFit, PlacesFit, InFree
  <2>4. TypeOK' /\ OneAtATime'
    BY <2>1, <2>2
  <2>5. \A j \in Inode : BeingFreed(j)' <=> BeingFreed(j)
    BY <2>1 DEF BeingFreed, InFree
  <2>6. PlacesFit' /\ BitsFit'
    BY <2>1, <2>2, <2>3 DEF PlacesFit, BitsFit, InAlloc, InFree
  <2>7. LinksFit'
    BY <2>1, <2>2, <2>5 DEF LinksFit
  <2>8. \A j \in Inode : Used(j)' <=> Used(j)
    BY <2>1, <2>5 DEF Used
  <2>9. PtrsFit' /\ ReadsBack'
    BY <2>1, <2>8, UnchangedPtrs DEF ReadsBack, ReadAt
  <2>10. FreeFit'
    BY <2>1 DEF FreeFit
  <2> QED
    BY <2>4, <2>6, <2>7, <2>9, <2>10
<1> QED
  BY <1>1, <1>2, <1>3

\* truncate_inode frees a block of the inode that goes.
LEMMA FreeKeeps == ASSUME IInv, NEW t \in Thread, FreePtr(t) PROVE IInv'
<1> USE DEF IInv, TypeOK, OneAtATime, At, disk
<1> DEFINE i == ino[t]
<1>1. PICK k \in Lowest(ToFree(i)) :
        LET b == inode[i].ptr[k]
        IN  IF b \in allocated
            THEN /\ allocated' = allocated \ {b}
                 /\ content' = [content EXCEPT ![b] = Zero]
                 /\ inode' = [inode EXCEPT ![i].ptr[k] = Illegal]
                 /\ UNCHANGED << bitmap, hint, saved, guard, pc, ino, due,
                                 wrote, build >>
            ELSE Stop("block not allocated")
  BY DEF FreePtr
<1> DEFINE b == inode[i].ptr[k]
<1>2. pc[t] = "truncating" /\ due[i] = 0 /\ i \in Inode /\ Used(i)
  BY DEF FreePtr, PlacesFit, Used, BeingFreed, InFree
<1>3. k \in Ptr /\ b # Illegal
  BY <1>1 DEF Lowest, ToFree, Mapped
<1>4. CASE b \notin allocated
  BY <1>1, <1>4, StopKeeps
<1>5. CASE b \in allocated
  <2>1. /\ allocated' = allocated \ {b}
        /\ content' = [content EXCEPT ![b] = Zero]
        /\ inode' = [inode EXCEPT ![i].ptr[k] = Illegal]
        /\ UNCHANGED << bitmap, pc, ino, due, wrote >>
    BY <1>1, <1>5
  <2>2. \A j \in Inode, m \in Ptr :
           inode'[j].ptr[m] = IF j = i /\ m = k THEN Illegal
                                               ELSE inode[j].ptr[m]
    BY <1>2, <1>3, <2>1 DEF InodeRecord
  <2>3. \A j \in Inode : inode'[j].links = inode[j].links
    BY <2>1 DEF InodeRecord
  <2>4. \A j \in Inode, m \in Ptr :
           Used(j) /\ inode[j].ptr[m] = b => j = i /\ m = k
    BY <1>2, <1>3 DEF PtrsFit
  <2>5. TypeOK' /\ OneAtATime'
    <3>1. inode' \in [Inode -> InodeRecord]
      BY <1>2, <1>3, <2>1, Constants, PtrSet
    <3> QED
      BY <1>2, <1>3, <2>1, <3>1
  <2>6. PlacesFit' /\ BitsFit'
    BY <2>1 DEF PlacesFit, BitsFit, InAlloc, InFree
  <2>7. \A j \in Inode : /\ BeingFreed(j)' <=> BeingFreed(j)
                         /\ Used(j)' <=> Used(j)
    BY <2>1 DEF BeingFreed, Used, InFree
  <2>8. LinksFit'
    BY <2>1, <2>3, <2>7 DEF LinksFit
  <2>9. PtrsFit'
    <3>1. \A j \in Inode, m \in Ptr :
            Used(j) => inode'[j].ptr[m] \in allocated' \cup {Illegal}
      BY <2>1, <2>2, <2>4 DEF PtrsFit
    <3>2. ASSUME NEW j \in Inode, NEW l \in Inode, NEW m \in Ptr, NEW o \in Ptr,
                 Used(j), Used(l), inode'[j].ptr[m] = inode'[l].ptr[o],
                 inode'[j].ptr[m] # Illegal
          PROVE  j = l /\ m = o
      <4>1. /\ inode'[j].ptr[m] = inode[j].ptr[m]
            /\ inode'[l].ptr[o] = inode[l].ptr[o]
        BY <2>2, <3>2
      <4>2. inode[j].ptr[m] = inode[l].ptr[o] /\ inode[j].ptr[m] # Illegal
        BY <3>2, <4>1
      <4> QED
        BY <3>2, <4>2, UsedApart
    <3>3. ASSUME NEW c \in allocated'
          PROVE  \E j \in Inode, m \in Ptr : Used(j) /\ inode'[j].ptr[m] = c
      <4>1. c \in allocated /\ c # b
        BY <2>1, <3>3
      <4>2. PICK j \in Inode, m \in Ptr : Used(j) /\ inode[j].ptr[m] = c
        BY <4>1 DEF PtrsFit
      <4> QED
        BY <2>2, <4>1, <4>2
    <3> QED
      BY <2>7, <3>1, <3>2, <3>3 DEF PtrsFit
  <2>10. ReadsBack'
    <3> SUFFICES ASSUME NEW j \in Inode, NEW m \in Ptr, due[j] > 0
                 PROVE  ReadAt(j, m)' = wrote[j][m]
      BY <2>1 DEF ReadsBack
    <3>1. ReadAt(j, m) = wrote[j][m] /\ Used(j) /\ j # i
      BY <1>2 DEF ReadsBack, Used
    <3>2. /\ inode'[j].ptr[m] = inode[j].ptr[m] /\ inode[j].ptr[m] # b
          /\ inode[j].ptr[m] \in allocated \cup {Illegal}
      BY <2>2, <2>4, <3>1 DEF PtrsFit
    <3>3. inode[j].ptr[m] # Illegal
             => content'[inode[j].ptr[m]] = content[inode[j].ptr[m]]
      BY <2>1, <3>2
    <3> QED
      BY <3>1, <3>2, <3>3 DEF ReadAt
  <2>11. FreeFit'
    BY <2>1 DEF FreeFit
  <2> QED
    BY <2>5, <2>6, <2>8, <2>9, <2>10, <2>11
<1> QED
  BY <1>4, <1>5

\* The bit goes when no block is left.
LEMMA ClearKeeps == ASSUME IInv, NEW t \in Thread, ClearBit(t) PROVE IInv'
<1> USE DEF IInv, TypeOK, OneAtATime, At, Goto, disk
<1> DEFINE i == ino[t]
<1>1. /\ pc[t] = "truncating" /\ bitmap' = bitmap \ {i}
      /\ pc' = [pc EXCEPT ![t] = "idle"]
      /\ UNCHANGED << inode, allocated, content, ino, due, wrote >>
  BY DEF ClearBit
<1>2. \A k \in Ptr : inode[i].ptr[k] = Illegal
  BY DEF ClearBit, ToFree, Mapped
<1>3. \A u \in Thread \ {t} : pc[u] = "idle"
  BY <1>1
<1>4. due[i] = 0
  BY <1>1 DEF PlacesFit
<1>5. TypeOK' /\ OneAtATime'
  BY <1>1, <1>3
<1>6. \A j \in Inode : (BeingFreed(j) <=> j = i) /\ ~BeingFreed(j)'
  BY <1>1, <1>3 DEF BeingFreed, InFree
<1>7. PlacesFit'
  BY <1>1, <1>3 DEF PlacesFit, InAlloc, InFree
<1>8. BitsFit'
  BY <1>1, <1>3, <1>4 DEF BitsFit
<1>9. LinksFit'
  BY <1>1, <1>3, <1>4, <1>6 DEF LinksFit
<1>10. \A j \in Inode : Used(j)' <=> Used(j) /\ j # i
  BY <1>1, <1>4, <1>6 DEF Used
<1>11. PtrsFit'
  <2> DEFINE W(j) == Used(j)'
  <2>1. \A j \in Inode : W(j) <=> Used(j) /\ j # i
    BY <1>10
  <2> HIDE DEF W
  <2>2. \A j \in Inode, k \in Ptr :
          W(j) => inode'[j].ptr[k] \in allocated' \cup {Illegal}
    BY <1>1, <2>1 DEF PtrsFit
  <2>3. \A j, l \in Inode, k, m \in Ptr :
          /\ W(j) /\ W(l)
          /\ inode'[j].ptr[k] = inode'[l].ptr[m] /\ inode'[j].ptr[k] # Illegal
          => j = l /\ k = m
    BY <1>1, <2>1 DEF PtrsFit
  <2>4. ASSUME NEW b \in allocated'
        PROVE  \E j \in Inode, k \in Ptr : W(j) /\ inode'[j].ptr[k] = b
    <3>1. PICK j \in Inode, k \in Ptr : Used(j) /\ inode[j].ptr[k] = b
      BY <1>1, <2>4 DEF PtrsFit
    <3>2. b # Illegal
      BY <1>1, <2>4, Constants
    <3> QED
      BY <1>1, <1>2, <2>1, <3>1, <3>2
  <2> QED
    BY <2>2, <2>3, <2>4 DEF PtrsFit, W
<1>12. ReadsBack'
  BY <1>1 DEF ReadsBack, ReadAt
<1>13. FreeFit'
  BY <1>1 DEF FreeFit
<1> QED
  BY <1>5, <1>7, <1>8, <1>9, <1>11, <1>12, <1>13

-------------------------------------------------------------------------------
\* Inodes not in use are read from the table again as anything, inodes in use
\* as they were.
LEMMA ReloadKeeps ==
    ASSUME Discipline, IInv, NEW S \in SUBSET Inode,
           \A i \in S : Slot(i) = 0 \/ ~InUse(i),
           \A i \in S : inode'[i] \in Yields(i),
           inode' \in [Inode -> (UNION {Yields(i) : i \in Inode}) \cup
                                     {inode[i] : i \in Inode}],
           \A i \in Inode \ S : inode'[i] = inode[i],
           UNCHANGED << bitmap, allocated, content, pc, ino, due, wrote >>
    PROVE  IInv'
<1> USE DEF IInv, TypeOK, OneAtATime
<1>1. \A i \in Inode : InUse(i) <=> Used(i)
  BY DEF InUse, Used, Freeing, BeingFreed
<1>2. \A i \in Inode : Yields(i) \subseteq InodeRecord
  BY Constants DEF Yields
<1>3. TypeOK' /\ OneAtATime'
  <2>1. inode' \in [Inode -> InodeRecord]
    BY <1>2
  <2> QED
    BY <2>1
<1>4. \A i \in Inode : Used(i) => inode'[i] = inode[i]
  BY <1>1 DEF Yields
<1>5. \A i \in Inode : /\ BeingFreed(i)' <=> BeingFreed(i)
                       /\ Used(i)' <=> Used(i)
  BY DEF BeingFreed, Used, InFree
<1>6. PlacesFit' /\ BitsFit' /\ FreeFit'
  BY DEF PlacesFit, BitsFit, FreeFit, InAlloc, InFree
<1>7. LinksFit'
  <2>1. \A t \in Thread : pc[t] = "freeing" => Used(ino[t])
    BY DEF Used, BeingFreed, InFree
  <2>2. \A i \in Inode : due[i] > 0 => Used(i)
    BY DEF Used
  <2> QED
    BY <1>4, <1>5, <2>1, <2>2 DEF LinksFit
<1>8. PtrsFit'
  BY <1>4, <1>5, UnchangedPtrs
<1>9. ReadsBack'
  BY <1>4 DEF ReadsBack, ReadAt, Used
<1> QED
  BY <1>3, <1>6, <1>7, <1>8, <1>9

\* The bitmap is saved, or read again as it was saved.
LEMMA BitmapKeeps ==
    ASSUME Discipline, IInv,
           \/ WriteInodeBitmap \/ Restart \/ UNCHANGED vars
           \/ \E i \in Inode : Reload(i)
    PROVE  IInv'
<1>1. CASE WriteInodeBitmap \/ UNCHANGED vars
  <2>1. UNCHANGED << bitmap, inode, allocated, content, pc, ino, due, wrote >>
    BY <1>1 DEF WriteInodeBitmap, vars, disk
  <2> QED
    BY <2>1 DEF IInv, TypeOK, OneAtATime, PlacesFit, BitsFit, LinksFit, PtrsFit,
                FreeFit, ReadsBack, ReadAt, BeingFreed, Used, InAlloc, InFree
<1>2. CASE \E i \in Inode : Reload(i)
  <2>1. PICK i \in Inode : Reload(i)
    BY <1>2
  <2>2. PICK v \in Yields(i) : inode' = [inode EXCEPT ![i] = v]
    BY <2>1 DEF Reload
  <2>3. /\ Slot(i) = 0 \/ ~InUse(i)
        /\ UNCHANGED << bitmap, allocated, content, pc, ino, due, wrote >>
    BY <2>1 DEF Reload, Discipline, disk
  <2>4. DOMAIN inode = Inode
    BY DEF IInv, TypeOK
  <2>5. /\ {i} \in SUBSET Inode
        /\ \A j \in {i} : Slot(j) = 0 \/ ~InUse(j)
        /\ \A j \in {i} : inode'[j] \in Yields(j)
        /\ \A j \in Inode \ {i} : inode'[j] = inode[j]
    BY <2>2, <2>3, <2>4
  <2>6. inode' \in [Inode -> (UNION {Yields(j) : j \in Inode}) \cup
                             {inode[j] : j \in Inode}]
    <3> DEFINE R == (UNION {Yields(j) : j \in Inode}) \cup
                    {inode[j] : j \in Inode}
    <3>1. v \in R /\ inode \in [Inode -> R]
      <4>1. inode = [j \in Inode |-> inode[j]]
        BY DEF IInv, TypeOK
      <4>2. v \in R /\ \A j \in Inode : inode[j] \in R
        OBVIOUS
      <4> HIDE DEF R
      <4> QED
        BY <4>1, <4>2
    <3> HIDE DEF R
    <3>2. inode' \in [Inode -> R]
      BY <2>2, <3>1
    <3> QED
      BY <3>2 DEF R
  <2> QED
    BY <2>3, <2>5, <2>6, ReloadKeeps
<1>3. CASE Restart
  <2>1. /\ \A i \in Inode : Slot(i) = 0 \/ ~InUse(i)
        /\ \A i \in Inode : inode'[i] \in Yields(i)
        /\ inode' \in [Inode -> UNION {Yields(i) : i \in Inode}]
        /\ UNCHANGED << bitmap, allocated, content, pc, ino, due, wrote >>
    BY <1>3 DEF Restart, Discipline, disk
  <2>2. inode' \in [Inode -> (UNION {Yields(i) : i \in Inode}) \cup
                             {inode[i] : i \in Inode}]
    BY <2>1
  <2> QED
    BY <2>1, <2>2, ReloadKeeps
<1> QED
  BY <1>1, <1>2, <1>3

\* Every step keeps the invariant.
LEMMA StepKeeps == ASSUME Discipline, IInv, [Next]_vars PROVE IInv'
<1>1. ASSUME NEW t \in Thread, NEW i \in Inode, NEW n \in FileBlock,
             \/ ReadFileBlock(t, i, n) \/ WriteFullDisk(t, i, n)
             \/ WriteBeyondDirect(t, i, n)
      PROVE  IInv'
  <2>1. UNCHANGED vars \/ \E why : Stop(why)
    BY <1>1 DEF ReadFileBlock, WriteFullDisk, WriteBeyondDirect
  <2> QED
    BY <2>1, StopKeeps, BitmapKeeps
<1>2. ASSUME NEW t \in Thread, NEW i \in Inode, NEW n \in FileBlock,
             WriteFileBlock(t, i, n)
      PROVE  IInv'
  BY <1>2, WriteKeeps
<1>3. ASSUME NEW t \in Thread,
             FindInode(t) \/ SetBit(t) \/ WriteNew(t) \/ TakeInode(t)
      PROVE  IInv'
  BY <1>3, AllocKeeps, TakeKeeps
<1>4. ASSUME NEW t \in Thread,
             \/ \E i \in Inode : BeginFree(t, i)
             \/ DropLink(t) \/ DropLastLink(t) \/ FreePtr(t) \/ ClearBit(t)
      PROVE  IInv'
  BY <1>4, LinkKeeps, FreeKeeps, ClearKeeps
<1>5. CASE \/ WriteInodeBitmap \/ Restart \/ UNCHANGED vars
           \/ \E i \in Inode : Reload(i)
  BY <1>5, BitmapKeeps
<1> QED
  BY <1>1, <1>2, <1>3, <1>4, <1>5 DEF Next

\* The invariant of allocation, files and truncation.
LEMMA Invariant == ASSUME Discipline PROVE Spec => []IInv
<1>1. Init => IInv
  BY InitHolds
<1>2. IInv /\ [Next]_vars => IInv'
  BY StepKeeps
<1> QED
  BY <1>1, <1>2, PTL DEF Spec

-------------------------------------------------------------------------------
\* Inodes have one owner each: alloc_inode gives out no inode that somebody has,
\* uses or frees, and a bit is set exactly as long as somebody does.
THEOREM InodesHaveOneOwner == ASSUME Discipline PROVE Spec => []InodeOwnedOnce
<1>1. IInv => InodeOwnedOnce
  <2> SUFFICES ASSUME IInv PROVE InodeOwnedOnce
    OBVIOUS
  <2> USE DEF IInv, TypeOK, OneAtATime, PlacesFit, BitsFit, InAlloc, InFree
  <2>1. \A i \in Inode : Freeing(i) # {} <=> \E t \in Thread : InFree(t) /\ ino[t] = i
    BY DEF Freeing
  <2>2. \A i \in Inode : i \in bitmap <=>
          \/ due[i] > 0 \/ Freeing(i) # {}
          \/ \E t \in Thread : pc[t] \in {"set", "new"} /\ ino[t] = i
    <3> SUFFICES ASSUME NEW i \in Inode
                 PROVE  i \in bitmap <=>
                          \/ due[i] > 0 \/ Freeing(i) # {}
                          \/ \E t \in Thread :
                               pc[t] \in {"set", "new"} /\ ino[t] = i
      OBVIOUS
    <3>1. ASSUME NEW t \in Thread
          PROVE  pc[t] \notin {"idle", "found"}
                   <=> InFree(t) \/ pc[t] \in {"set", "new"}
      OBVIOUS
    <3>2. (\E t \in Thread : ino[t] = i /\ pc[t] \notin {"idle", "found"})
             <=> \/ \E t \in Thread : InFree(t) /\ ino[t] = i
                 \/ \E t \in Thread : pc[t] \in {"set", "new"} /\ ino[t] = i
      BY <3>1
    <3>3. i \in bitmap <=>
             \/ due[i] > 0
             \/ \E t \in Thread : ino[t] = i /\ pc[t] \notin {"idle", "found"}
      BY <3>1
    <3> QED
      BY <2>1, <3>2, <3>3
  <2>3. ASSUME NEW t \in Thread, InAlloc(t)
        PROVE  /\ due[ino[t]] = 0 /\ Freeing(ino[t]) = {}
               /\ \A u \in Thread \ {t} : InAlloc(u) => ino[u] # ino[t]
    BY <2>1, <2>3
  <2> QED
    BY <2>2, <2>3 DEF InodeOwnedOnce
<1> QED
  BY <1>1, Invariant, PTL

\* link_count is what the callers have still to free.
THEOREM LinksAreExact == ASSUME Discipline PROVE Spec => []LinksExact
<1>1. IInv => LinksExact
  <2> SUFFICES ASSUME IInv, NEW i \in Inode, due[i] > 0
               PROVE  inode[i].links = due[i] + Cardinality(Freeing(i))
    BY DEF LinksExact
  <2> USE DEF IInv, TypeOK, OneAtATime
  <2>1. CASE BeingFreed(i)
    <3>1. PICK t \in Thread : InFree(t) /\ ino[t] = i
      BY <2>1 DEF BeingFreed
    <3>2. Freeing(i) = {t}
      BY <3>1 DEF Freeing, InFree
    <3>3. pc[t] = "freeing" /\ inode[i].links = due[i] + 1
      BY <3>1 DEF PlacesFit, LinksFit, InFree
    <3> QED
      BY <3>2, <3>3, FS_Singleton
  <2>2. CASE ~BeingFreed(i)
    <3>1. Freeing(i) = {}
      BY <2>2 DEF Freeing, BeingFreed
    <3> QED
      BY <2>2, <3>1, FS_EmptySet DEF LinksFit
  <2> QED
    BY <2>1, <2>2
<1> QED
  BY <1>1, Invariant, PTL

\* The blocks of the inodes in use are theirs alone, allocated, and all that is.
THEOREM BlocksHaveOneOwner == ASSUME Discipline PROVE Spec => []BlocksOwnedOnce
<1>1. IInv => BlocksOwnedOnce
  <2> SUFFICES ASSUME IInv PROVE BlocksOwnedOnce
    OBVIOUS
  <2>1. \A i \in Inode : InUse(i) <=> Used(i)
    BY DEF InUse, Used, Freeing, BeingFreed
  <2>2. \A i, j \in Inode : InUse(i) /\ InUse(j) =>
          \A k \in Mapped(i), m \in Mapped(j) :
              inode[i].ptr[k] = inode[j].ptr[m] => i = j /\ k = m
    BY <2>1 DEF IInv, PtrsFit, Mapped
  <2>3. allocated = UNION { {inode[i].ptr[k] : k \in Mapped(i)} :
                               i \in {j \in Inode : InUse(j)} }
    <3>1. ASSUME NEW b \in allocated
          PROVE  \E i \in {j \in Inode : InUse(j)} :
                    \E k \in Mapped(i) : b = inode[i].ptr[k]
      <4>1. b # Illegal
        BY Constants DEF IInv, TypeOK
      <4> QED
        BY <2>1, <4>1 DEF IInv, PtrsFit, Mapped
    <3>2. ASSUME NEW i \in {j \in Inode : InUse(j)}, NEW k \in Mapped(i)
          PROVE  inode[i].ptr[k] \in allocated
      BY <2>1 DEF IInv, PtrsFit, Mapped
    <3> QED
      BY <3>1, <3>2
  <2> QED
    BY <2>2, <2>3 DEF BlocksOwnedOnce
<1> QED
  BY <1>1, Invariant, PTL

\* A block with a direct pointer holds what was last written, or zeros.
THEOREM FilesReadBack == ASSUME Discipline PROVE Spec => []ReadsBack
<1>1. IInv => ReadsBack
  BY DEF IInv
<1> QED
  BY <1>1, Invariant, PTL

\* No operation meets a clear bit in either bitmap.
THEOREM AccessesAreSound == ASSUME Discipline PROVE Spec => []NoStrayAccess
<1>1. Init => NoStrayAccess
  BY DEF Init, NoStrayAccess
<1>2. IInv /\ NoStrayAccess /\ [Next]_vars => NoStrayAccess'
  <2> SUFFICES ASSUME IInv, NoStrayAccess, [Next]_vars PROVE NoStrayAccess'
    OBVIOUS
  <2> USE DEF IInv, NoStrayAccess
  <2>0. ASSUME NEW i \in Inode, NEW n \in Ptr, Used(i) PROVE ~Stray(i, n)
    BY <2>0 DEF Stray, PtrsFit
  <2>1. ASSUME NEW t \in Thread, NEW i \in Inode, NEW n \in FileBlock,
               ReadFileBlock(t, i, n) \/ WriteFileBlock(t, i, n)
        PROVE  NoStrayAccess'
    <3>1. Used(i)
      BY <2>1 DEF ReadFileBlock, WriteFileBlock, Usable, Used
    <3>2. CASE ReadFileBlock(t, i, n)
      BY <2>0, <3>1, <3>2 DEF ReadFileBlock, Stop, vars
    <3>3. CASE WriteFileBlock(t, i, n)
      <4>1. ~Stray(i, n)
        BY <2>0, <3>1, <3>3, DirectPath DEF WriteFileBlock
      <4> QED
        BY <3>3, <4>1 DEF WriteFileBlock
    <3> QED
      BY <2>1, <3>2, <3>3
  <2>2. ASSUME NEW t \in Thread, NEW i \in Inode, BeginFree(t, i)
        PROVE  NoStrayAccess'
    BY <2>2 DEF BeginFree, BitsFit, build
  <2>3. ASSUME NEW t \in Thread, FreePtr(t) PROVE NoStrayAccess'
    <3>1. Used(ino[t]) /\ ino[t] \in Inode
      BY <2>3 DEF FreePtr, At, Used, BeingFreed, InFree, TypeOK
    <3>2. \A k \in Lowest(ToFree(ino[t])) : inode[ino[t]].ptr[k] \in allocated
      BY <3>1 DEF PtrsFit, Lowest, ToFree, Mapped
    <3> QED
      BY <2>3, <3>2 DEF FreePtr, build
  <2>4. ASSUME NEW t \in Thread,
               \/ FindInode(t) \/ WriteNew(t)
               \/ \E i \in Inode, n \in FileBlock :
                    WriteFullDisk(t, i, n) \/ WriteBeyondDirect(t, i, n)
        PROVE  NoStrayAccess'
    BY <2>4 DEF FindInode, WriteNew, WriteFullDisk, WriteBeyondDirect, Stop,
                build, vars
  <2>5. ASSUME NEW t \in Thread,
               \/ SetBit(t) \/ TakeInode(t)
               \/ DropLink(t) \/ DropLastLink(t) \/ ClearBit(t)
        PROVE  ended' = ended
    BY <2>5 DEF SetBit, TakeInode, DropLink, DropLastLink, ClearBit, build
  <2>6. CASE \/ WriteInodeBitmap \/ Restart \/ UNCHANGED vars
             \/ \E i \in Inode : Reload(i)
    BY <2>6 DEF WriteInodeBitmap, Restart, Reload, build, vars
  <2> QED
    BY <2>1, <2>2, <2>3, <2>4, <2>5, <2>6 DEF Next
<1> QED
  BY <1>1, <1>2, Invariant, PTL DEF Spec
=============================================================================
