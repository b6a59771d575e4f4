----------------------------- MODULE ImageFormat -----------------------------
(***************************************************************************)
(* The layout of an image: what lc_format_image (src/lc_image_format.cpp)  *)
(* computes and writes for a file of size bytes, and where the layers      *)
(* above look for it: the device (include/lc_block_device.h), the bitmaps  *)
(* (include/lc_bitmap.h) and the inode table (include/lc_inode_buffer.h).  *)
(* The numbers are those of the code; sums in uint32_t that stay far below *)
(* 2^32 are plain sums, casts and products keep their width.               *)
(***************************************************************************)
EXTENDS Integers

BlockSize == 4096        \* DEFAULT_BLOCK_SIZE
BitsPerBlock == 32768    \* LC_BITS_PER_BLOCK
InodeSize == 256         \* LC_INODE_SIZE
InodesPerBlock == 16     \* LC_INODES_PRE_BLOCK
BytesPerInode == 16384   \* bytes_per_inode
TwoTo32 == 4294967296    \* 2^32

U32(x) == x % TwoTo32

\* lc_ceil_divide_int32_t
CeilDivide(a, b) == (a \div b) + (IF a % b # 0 THEN 1 ELSE 0)

\* Blocks of a bitmap with n bits.
BitmapBlocks(n) == CeilDivide(CeilDivide(n, 8), BlockSize)

\* lc_initialize_super_block
SuperBlock(size) ==
    LET total      == U32(size \div BlockSize)
        inodes     == U32(size \div BytesPerInode)
        inodeBits  == 1 + BitmapBlocks(total)
        inodeTable == inodeBits + BitmapBlocks(inodes)
        tableSize  == CeilDivide(inodes, InodesPerBlock)
    IN  [total_blocks       |-> total,
         inode_count        |-> inodes,
         block_bitmap_start |-> 1,
         inode_bitmap_start |-> inodeBits,
         inode_block_start  |-> inodeTable,
         inode_block_count  |-> tableSize,
         data_start         |-> inodeTable + tableSize]

\* Where the format seeks to for block b: a product of 32-bit numbers.
SeekTo(b) == U32(b * BlockSize)

\* lc_initialize_inodes: the seeks of its loop.
InodeSeeks(h) ==
    { SeekTo(h.inode_block_start + i) : i \in 0 .. h.inode_block_count - 1 }

\* lc_initialize_block_bitmap: the bits it sets, and the blocks it writes.
BitsOfByte(h, k, j) ==
    LET first == k * BlockSize * 8 + j * 8
        left  == h.data_start - first
    IN  first .. first + (IF left < 8 THEN left ELSE 8) - 1

InitialBits(h) ==
    UNION { BitsOfByte(h, k, j) : k \in 0 .. BitmapBlocks(h.data_start) - 1,
                                  j \in 0 .. BlockSize - 1 }

\* LCBlockDevice: check_range and the position of a block in the file.
CheckRange(h, b) == b # 0 /\ b < h.total_blocks
DevicePos(b) == b * BlockSize

\* lc_cal_bitmap_index
BitmapIndex(start, id) ==
    [block_id    |-> start + (id \div BitsPerBlock),
     byte_offset |-> (id % BitsPerBlock) \div 8,
     bit_offset  |-> (id % BitsPerBlock) % 8]

\* LCInodeBufferPool's calc_block_id and calc_offset.
InodeBlock(h, ino) == h.inode_block_start + (ino \div InodesPerBlock)
InodeOffset(ino) == (ino % InodesPerBlock) * InodeSize
=============================================================================
