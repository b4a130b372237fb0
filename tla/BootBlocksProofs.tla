-------------------------- MODULE BootBlocksProofs --------------------------
(***************************************************************************)
(* What the reader of BootBlocks keeps for every image whatsoever: types,  *)
(* blocks that never overlap, and the only three reasons for a panic.      *)
(***************************************************************************)
EXTENDS BootBlocks, Integers, TLAPS

-----------------------------------------------------------------------------
(* align_to and align_padding (utils.rs), and the layouts of BootLayouts:  *)
(* what the proofs about the reader and about the writer rest on.          *)

(* Division and remainder by a positive number, as the provers know them.  *)
LEMMA DivFacts ==
  ASSUME NEW n \in Nat, NEW a \in Nat \ {0}
  PROVE  /\ n \div a \in Nat
         /\ (n \div a) * a <= n
         /\ n < (n \div a) * a + a
         /\ n % a \in Nat
         /\ n = (n \div a) * a + (n % a)
  BY SMT

(* A quotient is determined by its bounds. *)
LEMMA DivUnique ==
  ASSUME NEW n \in Nat, NEW a \in Nat \ {0}, NEW q \in Nat,
         q * a <= n, n < q * a + a
  PROVE  n \div a = q
  BY SMT

(* A multiple leaves no remainder. *)
LEMMA MultipleMod ==
  ASSUME NEW a \in Nat \ {0}, NEW q \in Nat
  PROVE  (q * a) % a = 0
<1>1. (q * a) \div a = q
  BY DivUnique, SMT
<1> QED
  BY <1>1, DivFacts, SMT

(* align_to returns the first multiple of the alignment that is not below  *)
(* its argument.                                                           *)
LEMMA AlignFacts ==
  ASSUME NEW v \in Nat, NEW a \in Nat \ {0}
  PROVE  /\ Align(v, a) \in Nat
         /\ v <= Align(v, a)
         /\ Align(v, a) < v + a
         /\ Align(v, a) % a = 0
<1> DEFINE q == (v + a - 1) \div a
<1>1. v + a - 1 \in Nat
  OBVIOUS
<1>2. q \in Nat /\ q * a <= v + a - 1 /\ v + a - 1 < q * a + a
  BY <1>1, DivFacts
<1>3. Align(v, a) = q * a
  BY DEF Align
<1>4. (q * a) % a = 0
  BY <1>2, MultipleMod
<1> HIDE DEF q
<1> QED
  BY <1>2, <1>3, <1>4, SMT

(* Aligning commutes with adding a multiple of the alignment: a block that *)
(* begins on a page ends on the page that its own length says, wherever in *)
(* the payload it is.                                                      *)
LEMMA AlignShift ==
  ASSUME NEW v \in Nat, NEW n \in Nat, NEW a \in Nat \ {0}, v % a = 0
  PROVE  Align(v + n, a) = v + Align(n, a)
<1> DEFINE q == (n + a - 1) \div a
           k == v \div a
<1>1. n + a - 1 \in Nat /\ v + n + a - 1 \in Nat
  OBVIOUS
<1>2. q \in Nat /\ q * a <= n + a - 1 /\ n + a - 1 < q * a + a
  BY <1>1, DivFacts
<1>3. k \in Nat /\ v = k * a
  BY DivFacts, SMT
<1>4. (k + q) * a = k * a + q * a /\ k + q \in Nat
  BY <1>2, <1>3, SMT
<1>5. (k + q) * a <= v + n + a - 1 /\ v + n + a - 1 < (k + q) * a + a
  <2> HIDE DEF k, q
  <2> QED
    BY <1>2, <1>3, <1>4, SMT
<1>6. (v + n + a - 1) \div a = k + q
  BY <1>1, <1>4, <1>5, DivUnique
<1> HIDE DEF k
<1> QED
  BY <1>3, <1>4, <1>6 DEF Align

(* A longer block is not aligned to an earlier page. *)
LEMMA AlignMonotone ==
  ASSUME NEW a \in Nat \ {0}, NEW m \in Nat, NEW n \in Nat, m <= n
  PROVE  Align(m, a) <= Align(n, a)
<1> DEFINE p == (m + a - 1) \div a
           q == (n + a - 1) \div a
<1>1. m + a - 1 \in Nat /\ n + a - 1 \in Nat
  OBVIOUS
<1>2. /\ p \in Nat /\ p * a <= m + a - 1
      /\ q \in Nat /\ n + a - 1 < q * a + a
  BY <1>1, DivFacts
<1>3. Align(m, a) = p * a /\ Align(n, a) = q * a
  BY DEF Align
<1> HIDE DEF p, q
<1>4. p * a < q * a + a
  BY <1>2
<1>5. p * a <= q * a
  <2>1. CASE p <= q
    BY <1>2, <2>1, SMT
  <2>2. CASE p >= q + 1
    <3>1. p * a >= (q + 1) * a /\ (q + 1) * a = q * a + a
      BY <1>2, <2>2, SMT
    <3> QED
      BY <1>2, <1>4, <3>1
  <2> QED
    BY <1>2, <2>1, <2>2
<1> QED
  BY <1>3, <1>5

-----------------------------------------------------------------------------
(* The parser always finds a layout, and every layout has a size. *)
LEMMA LayoutFacts ==
  /\ \A magic, version : LayoutOf(magic, version) \in Layouts
  /\ \A l \in Layouts : TotalSize[l] \in Nat \ {0}
<1>1. Layouts = {"BOOT_HEADER_V0", "BOOT_HEADER_V1", "BOOT_HEADER_V2",
                 "BOOT_HEADER_V3", "BOOT_HEADER_V4", "VENDOR_BOOT_HEADER_V3",
                 "VENDOR_BOOT_HEADER_V4"}
  BY DEF Layouts, Fields
<1>2. \A magic, version : LayoutOf(magic, version) \in Layouts
  BY <1>1 DEF LayoutOf
<1>3. \A l \in Layouts : TotalSize[l] \in Nat \ {0}
  BY <1>1 DEF TotalSize
<1> QED
  BY <1>2, <1>3

(* hdr_space covers the header. *)
LEMMA HdrSpaceFacts ==
  ASSUME NEW l \in Layouts, NEW p \in Nat \ {0}
  PROVE  /\ HdrSpace(l, p) \in Nat
         /\ TotalSize[l] <= HdrSpace(l, p)
         /\ HdrSpace(l, p) < TotalSize[l] + p
         /\ HdrSpace(l, p) % p = 0
  BY LayoutFacts, AlignFacts DEF HdrSpace

-----------------------------------------------------------------------------
(* Type correctness. *)

(* A block found by the walk has a size that is a number. *)
LEMMA BlockSizeNat ==
  ASSUME ReaderTypeOK, cur \in Blocks
  PROVE  BlockSize \in Nat
  BY DEF ReaderTypeOK, BlockSize, Image

(* ReaderTypeOK is kept by every step. *)
LEMMA ReaderTypeStep ==
  ASSUME ReaderTypeOK, page # 0, [ReaderNext]_readerVars
  PROVE  ReaderTypeOK' /\ page' # 0
<1> USE DEF ReaderTypeOK, ReaderSteps, ReaderOutcomes
<1>1. CASE ParseHeader
  <2> DEFINE l == LayoutOf(img.magic, img.version)
             p == PageSizeVal(img.magic, img.version, img.pageField)
  <2>1. l \in Layouts
    BY LayoutFacts
  <2>2. p \in Nat
    BY DEF PageSizeVal, Image
  <2>3. p # 0 => HdrSpace(l, p) \in Nat
    BY <2>1, <2>2, HdrSpaceFacts
  <2> HIDE DEF l, p
  <2> QED
    BY <1>1, <2>1, <2>2, <2>3 DEF ParseHeader, l, p
<1>2. CASE SkipBlock
  BY <1>2 DEF SkipBlock, Blocks
<1>3. CASE TakeBlock
  <2>1. BlockSize \in Nat /\ Align(BlockSize, page) \in Nat
    BY <1>3, BlockSizeNat, AlignFacts DEF TakeBlock
  <2>2. got' \in [Blocks -> Extent]
    BY <1>3, <2>1 DEF TakeBlock, Extent
  <2> QED
    BY <1>3, <2>1, <2>2 DEF TakeBlock, Blocks
<1>4. CASE BlockOutOfBounds
  BY <1>4 DEF BlockOutOfBounds
<1>5. CASE ParseRamdisk
  BY <1>5 DEF ParseRamdisk
<1>6. CASE SliceTail
  BY <1>6 DEF SliceTail
<1>7. CASE UNCHANGED readerVars
  BY <1>7 DEF readerVars
<1>8. CASE SplitKernel
  BY <1>8 DEF SplitKernel
<1> QED
  BY <1>1, <1>2, <1>3, <1>4, <1>5, <1>6, <1>7, <1>8 DEF ReaderNext

(* The reader starts in a well-typed state. *)
LEMMA ReaderTypeInit == ReaderInit => ReaderTypeOK /\ page # 0
<1>1. "BOOT_HEADER_V0" \in Layouts
  BY DEF Layouts, Fields
<1> QED
  BY <1>1 DEF ReaderInit, ReaderStart, ReaderTypeOK, ReaderSteps, Blocks,
              Extent, NoExtent

(* The reader never leaves its types, whatever image it is given. *)
THEOREM ReaderTypes == ReaderSpec => []ReaderTypeOK
<1>1. ReaderInit => ReaderTypeOK /\ page # 0
  BY ReaderTypeInit
<1>2. (ReaderTypeOK /\ page # 0) /\ [ReaderNext]_readerVars
      => (ReaderTypeOK /\ page # 0)'
  BY ReaderTypeStep
<1> QED
  BY <1>1, <1>2, PTL DEF ReaderSpec

-----------------------------------------------------------------------------
(* The walk over the blocks.  The offset is never a page or more behind the*)
(* data, and every block that was taken lies between the header and it.    *)

Behind(b) == /\ got[b].off >= HdrSpace(layout, page)
             /\ got[b].off + got[b].len <= img.len
             /\ got[b].off + got[b].len <= off

WalkInv ==
  /\ ReaderTypeOK /\ page # 0
  /\ off < img.len + page
  /\ rpc \in {"idle", "header"} => cur = 1
  /\ rpc \in {"walk", "dtb", "tail", "parsed"} => HdrSpace(layout, page) <= off
  /\ \A b \in Blocks : got[b].len > 0 => b < cur /\ Behind(b)
  /\ \A b, c \in Blocks : b < c /\ got[b].len > 0 /\ got[c].len > 0 =>
       got[b].off + got[b].len <= got[c].off
  /\ rpc = "parsed" => off <= img.len
  /\ rpc = "panic" =>
       \/ PageSizeVal(img.magic, img.version, img.pageField) = 0
       \/ img.len < off
       \/ SearchPanics(img.fdts, KernelBytes)
  /\ rpc \in {"tail", "parsed"} => ~SearchPanics(img.fdts, KernelBytes)
  /\ rpc \in {"dtb", "tail", "parsed"} /\ HasTable => TableValid

(* The ranges of the values that the steps compute with. *)
LEMMA ReaderValues ==
  ASSUME ReaderTypeOK, page # 0
  PROVE  /\ img \in Image /\ img.len \in Nat /\ page \in Nat \ {0} /\ off \in Nat
         /\ cur \in Nat /\ got \in [Blocks -> Extent]
         /\ \A b \in Blocks : got[b].off \in Nat /\ got[b].len \in Nat
         /\ \A k \in DOMAIN img.table :
              img.table[k].off \in Nat /\ img.table[k].len \in Nat
<1>1. img \in Image /\ img.len \in Nat /\ img.table \in Seq(TableEntry)
  BY DEF ReaderTypeOK, Image
<1>2. page \in Nat \ {0} /\ off \in Nat /\ cur \in Nat
      /\ got \in [Blocks -> Extent]
  BY DEF ReaderTypeOK
<1>3. \A b \in Blocks : got[b].off \in Nat /\ got[b].len \in Nat
  BY <1>2 DEF Extent
<1>4. ASSUME NEW k \in DOMAIN img.table
      PROVE  img.table[k].off \in Nat /\ img.table[k].len \in Nat
  <2>1. img.table[k] \in TableEntry
    BY <1>1, <1>4
  <2> QED
    BY <2>1 DEF TableEntry
<1> QED
  BY <1>1, <1>2, <1>3, <1>4

(* WalkInv is kept by every step. *)
LEMMA WalkStep ==
  ASSUME WalkInv, [ReaderNext]_readerVars
  PROVE  WalkInv'
<1> USE DEF WalkInv
<1>t. ReaderTypeOK' /\ page' # 0
  BY ReaderTypeStep
<1>k. /\ img \in Image /\ img.len \in Nat /\ page \in Nat \ {0} /\ off \in Nat
      /\ cur \in Nat /\ got \in [Blocks -> Extent]
      /\ \A b \in Blocks : got[b].off \in Nat /\ got[b].len \in Nat
  BY ReaderValues
<1>1. CASE ParseHeader
  <2> DEFINE l == LayoutOf(img.magic, img.version)
             p == PageSizeVal(img.magic, img.version, img.pageField)
  <2>1. l \in Layouts /\ p \in Nat /\ TotalSize[l] \in Nat
    BY <1>k, LayoutFacts DEF PageSizeVal, Image
  <2>2. p # 0 => /\ HdrSpace(l, p) \in Nat
                 /\ HdrSpace(l, p) < TotalSize[l] + p
    BY <2>1, HdrSpaceFacts
  <2>3. \A b \in Blocks : ~(got[b].len > 0)
    BY <1>1, <1>k DEF ParseHeader, Blocks
  <2>4. /\ img' = img /\ got' = got /\ cur' = cur
        /\ \/ rpc' = "error" /\ UNCHANGED <<layout, page, off>>
           \/ rpc' = "panic" /\ p = 0 /\ UNCHANGED <<layout, page, off>>
           \/ /\ rpc' = "walk" /\ layout' = l /\ page' = p
              /\ off' = HdrSpace(l, p) /\ p # 0 /\ img.len >= TotalSize[l]
    BY <1>1 DEF ParseHeader
  <2>5. off' < img'.len + page'
    <3> HIDE DEF l, p
    <3> QED BY <1>k, <2>1, <2>2, <2>4
  <2>6. rpc' \in {"walk", "dtb", "tail", "parsed"} => HdrSpace(layout', page') <= off'
    <3> HIDE DEF l, p
    <3> QED BY <2>1, <2>2, <2>4
  <2>7. \A b \in Blocks : ~(got'[b].len > 0)
    BY <2>3, <2>4
  <2>8. rpc' = "panic" => PageSizeVal(img'.magic, img'.version, img'.pageField) = 0
    BY <2>4
  <2>9. rpc' \in {"walk", "panic", "error"}
    BY <2>4
  <2> HIDE DEF l, p
  <2> QED
    BY <1>t, <2>5, <2>6, <2>7, <2>8, <2>9
<1>2. CASE SkipBlock
  BY <1>2, <1>t, <1>k DEF SkipBlock, Behind
<1>3. CASE TakeBlock
  <2>1. BlockSize \in Nat \ {0} /\ cur \in Blocks
    BY <1>3, BlockSizeNat DEF TakeBlock
  <2>2. /\ Align(BlockSize, page) \in Nat
        /\ BlockSize <= Align(BlockSize, page)
        /\ Align(BlockSize, page) < BlockSize + page
    BY <2>1, <1>k, AlignFacts
  <2>3. /\ img' = img /\ layout' = layout /\ page' = page
        /\ rpc = "walk" /\ rpc' = "walk"
        /\ cur' = cur + 1
        /\ off' = off + Align(BlockSize, page)
        /\ off + BlockSize <= img.len
        /\ got' = [got EXCEPT ![cur] = [off |-> off, len |-> BlockSize]]
    BY <1>3 DEF TakeBlock, InBounds
  <2>4. off' < img'.len + page'
    BY <2>1, <2>2, <2>3, <1>k
  <2>5. HdrSpace(layout', page') <= off
    BY <2>3
  <2>6. HdrSpace(layout', page') \in Nat
    BY <2>3, <1>k, HdrSpaceFacts DEF ReaderTypeOK
  <2>7. HdrSpace(layout', page') <= off'
    BY <2>1, <2>2, <2>3, <2>5, <2>6, <1>k
  <2>8. got'[cur] = [off |-> off, len |-> BlockSize]
        /\ \A b \in Blocks \ {cur} : got'[b] = got[b]
    BY <2>1, <2>3, <1>k
  <2>9. ASSUME NEW b \in Blocks, got'[b].len > 0
        PROVE  b < cur' /\ Behind(b)'
    <3>1. CASE b = cur
      BY <3>1, <2>1, <2>2, <2>3, <2>5, <2>8, <1>k DEF Behind
    <3>2. CASE b # cur
      <4>1. b < cur /\ Behind(b)
        BY <3>2, <2>8, <2>9
      <4> QED
        BY <4>1, <3>2, <2>2, <2>3, <2>8, <1>k DEF Behind, Blocks
    <3> QED
      BY <3>1, <3>2
  <2>10. ASSUME NEW b \in Blocks, NEW c \in Blocks, b < c,
                got'[b].len > 0, got'[c].len > 0
         PROVE  got'[b].off + got'[b].len <= got'[c].off
    <3>1. c = cur => Behind(b) /\ b # cur
      BY <2>8, <2>10, <2>1 DEF Blocks
    <3>2. b # cur
      <4> SUFFICES ASSUME b = cur PROVE FALSE
        OBVIOUS
      <4>1. c # cur /\ got[c].len > 0
        BY <2>8, <2>10, <1>k DEF Blocks
      <4> QED
        BY <4>1, <2>10, <1>k DEF Blocks
    <3> QED
      BY <3>1, <3>2, <2>8, <2>10 DEF Behind
  <2> QED
    BY <1>t, <2>3, <2>4, <2>7, <2>9, <2>10
<1>4. CASE BlockOutOfBounds
  BY <1>4, <1>t DEF BlockOutOfBounds, Behind
<1>5. CASE ParseRamdisk
  <2>1. HasTable' = HasTable /\ TableValid' = TableValid
    BY <1>5 DEF ParseRamdisk, HasTable, TableValid, EntryInBounds, RamdiskLen
  <2> QED
    BY <1>5, <1>t, <2>1 DEF ParseRamdisk, Behind
<1>s. UNCHANGED <<img, got>> =>
        /\ HasTable' = HasTable /\ TableValid' = TableValid
        /\ KernelBytes' = KernelBytes
        /\ SearchPanics(img.fdts, KernelBytes)' <=> SearchPanics(img.fdts, KernelBytes)
  BY DEF HasTable, TableValid, EntryInBounds, RamdiskLen, KernelBytes
<1>6. CASE SliceTail
  BY <1>6, <1>t, <1>k, <1>s DEF SliceTail, TailInBounds, Behind
<1>7. CASE UNCHANGED readerVars
  BY <1>7, <1>t, <1>s DEF readerVars, Behind
<1>8. CASE SplitKernel
  BY <1>8, <1>t, <1>s DEF SplitKernel, Behind
<1> QED
  BY <1>1, <1>2, <1>3, <1>4, <1>5, <1>6, <1>7, <1>8 DEF ReaderNext

(* WalkInv holds when the reader starts. *)
LEMMA WalkInit == ReaderInit => WalkInv
<1> SUFFICES ASSUME ReaderInit PROVE WalkInv
  OBVIOUS
<1>1. ReaderTypeOK /\ page # 0
  BY ReaderTypeInit
<1>2. PICK image \in Image : ReaderStart(image)
  BY DEF ReaderInit
<1>3. img.len \in Nat
  BY <1>1 DEF ReaderTypeOK, Image
<1> QED
  BY <1>1, <1>2, <1>3 DEF WalkInv, ReaderStart, NoExtent

(* The properties of the runs follow from WalkInv. *)
LEMMA WalkImplies ==
  ASSUME WalkInv
  PROVE  BlocksInOrder /\ EntriesInsideRamdisk /\ PanicCases
<1> USE DEF WalkInv
<1>1. BlocksInOrder
  BY DEF BlocksInOrder, Behind
<1>2. EntriesInsideRamdisk
  <2> DEFINE start == got[Ramdisk].off + got[Ramdisk].len - RamdiskLen
  <2>1. /\ got[Ramdisk].len \in Nat /\ got[Ramdisk].off \in Nat /\ Ramdisk \in Blocks
        /\ \A b \in Blocks : b \in Nat /\ got[b].off \in Nat /\ got[b].len \in Nat
    BY ReaderValues DEF Blocks, Ramdisk
  <2>2. RamdiskLen \in Nat /\ RamdiskLen <= got[Ramdisk].len
    BY <2>1 DEF RamdiskLen, StripMtk
  <2>3. SUFFICES ASSUME rpc = "parsed", HasTable
                 PROVE  /\ Len(img.table) * TableEntrySize <= got[VendorTable].len
                        /\ \A i \in DOMAIN img.table :
                             LET first == start + img.table[i].off
                                 last  == first + img.table[i].len
                             IN /\ last <= got[Ramdisk].off + got[Ramdisk].len
                                /\ \A b \in Blocks \ {Ramdisk} : got[b].len > 0 =>
                                     \/ last <= got[b].off
                                     \/ got[b].off + got[b].len <= first
    BY DEF EntriesInsideRamdisk
  <2>4. Len(img.table) * TableEntrySize <= got[VendorTable].len
    BY <2>3 DEF TableValid
  <2>5. ASSUME NEW i \in DOMAIN img.table
        PROVE  LET first == start + img.table[i].off
                   last  == first + img.table[i].len
               IN /\ last <= got[Ramdisk].off + got[Ramdisk].len
                  /\ \A b \in Blocks \ {Ramdisk} : got[b].len > 0 =>
                       \/ last <= got[b].off
                       \/ got[b].off + got[b].len <= first
    <3> DEFINE o == img.table[i].off
               n == img.table[i].len
    <3>1. o \in Nat /\ n \in Nat /\ o + n <= RamdiskLen
      BY <2>3, ReaderValues DEF TableValid, EntryInBounds
    <3> HIDE DEF o, n
    <3>2. /\ start \in Nat /\ got[Ramdisk].off <= start
          /\ start + o + n <= got[Ramdisk].off + got[Ramdisk].len
      BY <2>1, <2>2, <3>1
    <3>3. ASSUME NEW b \in Blocks \ {Ramdisk}, got[b].len > 0
          PROVE  start + o + n <= got[b].off \/ got[b].off + got[b].len <= start + o
      <4>1. \/ got[Ramdisk].off + got[Ramdisk].len <= got[b].off
            \/ got[b].off + got[b].len <= got[Ramdisk].off
        <5>1. got[Ramdisk].len > 0
          BY <2>3 DEF HasTable
        <5>2. b < Ramdisk \/ Ramdisk < b
          BY <2>1, <3>3 DEF Ramdisk
        <5> QED
          BY <2>1, <3>3, <5>1, <5>2
      <4> HIDE DEF start
      <4> QED
        BY <2>1, <3>1, <3>2, <3>3, <4>1
    <3> HIDE DEF start
    <3> QED
      BY <3>2, <3>3 DEF o, n
  <2> QED
    BY <2>4, <2>5
<1>3. PanicCases
  <2>1. SUFFICES ASSUME rpc = "panic", NEW k \in DOMAIN img.fdts,
                        TagCut(img.fdts[k], KernelBytes)
                 PROVE  LET f == img.fdts[k]
                        IN /\ f.at + 40 <= KernelBytes /\ f.total > 72
                           /\ f.at + f.total <= KernelBytes
                           /\ f.at + f.struct \in (KernelBytes - 3) .. KernelBytes
    BY DEF PanicCases, Behind, SearchPanics, Deciding
  <2>2. img.fdts[k] \in Fdt
    BY DEF ReaderTypeOK, Image, Fdts
  <2>3. KernelBytes \in Nat
    BY ReaderValues DEF KernelBytes, StripMtk, Blocks, Kernel
  <2> QED
    BY <2>1, <2>2, <2>3 DEF TagCut, HeaderCut, Plausible, Fdt
<1> QED
  BY <1>1, <1>2, <1>3

(* WalkInv is an invariant of the reader. *)
THEOREM Walk == ReaderSpec => []WalkInv
<1>1. ReaderInit => WalkInv
  BY WalkInit
<1>2. WalkInv /\ [ReaderNext]_readerVars => WalkInv'
  BY WalkStep
<1> QED
  BY <1>1, <1>2, PTL DEF ReaderSpec

(* Whatever an image claims, the blocks the reader hands out do not overlap*)
(* and lie inside the data, the tail behind them.                          *)
THEOREM ReaderBlocksInOrder == ReaderSpec => []BlocksInOrder
<1>1. WalkInv => BlocksInOrder
  BY WalkImplies
<1> QED
  BY <1>1, Walk, PTL

(* Every vendor ramdisk of a parsed image lies in the ramdisk behind an    *)
(* MTK header, apart from the other blocks.                                *)
THEOREM ReaderEntriesInside == ReaderSpec => []EntriesInsideRamdisk
<1>1. WalkInv => EntriesInsideRamdisk
  BY WalkImplies
<1> QED
  BY <1>1, Walk, PTL

(* A page size of zero, a cut padding and a tree cut in its first tag are  *)
(* the only reasons to panic.                                              *)
THEOREM ReaderPanics == ReaderSpec => []PanicCases
<1>1. WalkInv => PanicCases
  BY WalkImplies
<1> QED
  BY <1>1, Walk, PTL
=============================================================================
