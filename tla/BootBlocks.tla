----------------------------- MODULE BootBlocks -----------------------------
(***************************************************************************)
(* The reader of a boot image: BootHeader::parse, BootImageBlocks::parse   *)
(* and the tail slice of BootImage::parse (parser.rs).                     *)
(*                                                                         *)
(* An image is described by what the reader looks at: the magic, the       *)
(* header fields, the vendor ramdisk table and the number of bytes from    *)
(* the header to the end of the file.  The reader walks the blocks in the  *)
(* order of BootLayouts and records the extent of each.  It ends with a    *)
(* parsed image, with an error it returns, or with a panic.                *)
(***************************************************************************)
EXTENDS BootLayouts, Sequences

VARIABLES
  img,      \* the image being read
  rpc,      \* where the reader is
  layout,   \* header.layout
  page,     \* header.page_size_val()
  off,      \* the offset the next block is expected at, from the header
  cur,      \* the next block to read
  got       \* the extent of each block read so far, length 0 for None

readerVars == <<img, rpc, layout, page, off, cur, got>>

Extent == [off : Nat, len : Nat]
TableEntry == [off : Nat, len : Nat]
NoExtent == [off |-> 0, len |-> 0]

(* A device tree magic in the kernel's bytes, behind an MTK header: where  *)
(* it is, the total size and the offset of the structure that the bytes    *)
(* behind it say, and whether a node begins at that offset.                *)
Fdt == [at : Nat, total : Nat, struct : Nat, begin : BOOLEAN]

(* All of them, in the order of the bytes.                                 *)
Fdts == {s \in Seq(Fdt) : \A j, k \in DOMAIN s : j < k => s[j].at + 4 <= s[k].at}

(* What a file on disk can be: any header over any number of bytes.  The   *)
(* length of table is the vendor_ramdisk_table_entry_num of the header, its*)
(* elements the size and offset fields of the entries; mtkKernel,          *)
(* mtkRamdisk and fdts say what the kernel and ramdisk bytes contain.      *)
Image == [magic : {"ANDROID!", "VNDRBOOT", "other"}, version : Nat,
          pageField : Nat, size : [Blocks -> Nat],
          entrySize : Nat, table : Seq(TableEntry), len : Nat,
          mtkKernel : BOOLEAN, mtkRamdisk : BOOLEAN, fdts : Fdts]

ReaderOutcomes == {"parsed", "error", "panic"}
ReaderSteps == {"idle", "header", "walk", "dtb", "tail"} \cup ReaderOutcomes

ReaderTypeOK ==
  /\ img \in Image
  /\ rpc \in ReaderSteps
  /\ layout \in Layouts
  /\ page \in Nat
  /\ off \in Nat
  /\ cur \in 1 .. 10
  /\ got \in [Blocks -> Extent]

(* Mutant of ReaderStart: counts the blocks from 0. *)
ReaderStartAtZero(image) ==
  /\ img = image
  /\ rpc = "header"
  /\ layout = "BOOT_HEADER_V0"
  /\ page = 1
  /\ off = 0
  /\ cur = 0
  /\ got = [b \in Blocks |-> NoExtent]

ReaderStart(image) ==
  /\ img = image
  /\ rpc = "header"
  /\ layout = "BOOT_HEADER_V0"
  /\ page = 1
  /\ off = 0
  /\ cur = 1
  /\ got = [b \in Blocks |-> NoExtent]

-----------------------------------------------------------------------------
(* BootHeader::parse, and the first line of BootImageBlocks::parse.  The   *)
(* page size of the older layouts comes from the header, and align_to      *)
(* divides by it.                                                          *)
ParseHeader ==
  LET l == LayoutOf(img.magic, img.version)
      p == PageSizeVal(img.magic, img.version, img.pageField)
  IN /\ rpc = "header"
     /\ \/ /\ img.magic = "other" \/ img.len < TotalSize[l]
           /\ rpc' = "error"
           /\ UNCHANGED <<layout, page, off>>
        \/ /\ img.magic # "other" /\ img.len >= TotalSize[l]
           /\ p = 0
           /\ rpc' = "panic"
           /\ UNCHANGED <<layout, page, off>>
        \/ /\ img.magic # "other" /\ img.len >= TotalSize[l]
           /\ p # 0
           /\ rpc' = "walk"
           /\ layout' = l
           /\ page' = p
           /\ off' = HdrSpace(l, p)
     /\ UNCHANGED <<img, cur, got>>

(* What get_block_impl finds in the header for the next block.             *)
BlockSize == IF HasSize(layout, cur) THEN img.size[cur] ELSE 0

(* Mutant of InBounds: only the start of the block is compared. *)
StartInBounds == off <= img.len

(* data.get(off..off + sz) *)
InBounds == off + BlockSize <= img.len

(* get_block_impl: no such field, or a size of zero.                       *)
SkipBlock ==
  /\ rpc = "walk" /\ cur \in Blocks
  /\ BlockSize = 0
  /\ cur' = cur + 1
  /\ UNCHANGED <<img, rpc, layout, page, off, got>>

(* get_block_impl: the block lies inside the data.                         *)
TakeBlock ==
  /\ rpc = "walk" /\ cur \in Blocks
  /\ BlockSize > 0 /\ InBounds
  /\ got' = [got EXCEPT ![cur] = [off |-> off, len |-> BlockSize]]
  /\ off' = off + Align(BlockSize, page)
  /\ cur' = cur + 1
  /\ UNCHANGED <<img, rpc, layout, page>>

(* get_block_impl: "block out of bounds".                                  *)
BlockOutOfBounds ==
  /\ rpc = "walk" /\ cur \in Blocks
  /\ BlockSize > 0 /\ ~InBounds
  /\ rpc' = "error"
  /\ UNCHANGED <<img, layout, page, off, cur, got>>

(* maybe_strip_mtk, and the same test at the head of parse_kernel_block.   *)
StripMtk(n, mtk) == IF mtk /\ n > 512 THEN n - 512 ELSE n

RamdiskLen == StripMtk(got[Ramdisk].len, img.mtkRamdisk)

(* Mutant of HasTable: a table without a ramdisk counts. *)
HasTableAlone == got[VendorTable].len > 0

(* A table is read only beside a ramdisk.                                  *)
HasTable == got[Ramdisk].len > 0 /\ got[VendorTable].len > 0

(* Mutant of EntryInBounds: only the length is compared. *)
EntryShortEnough(e) == e.len <= RamdiskLen

(* r.get(e_off..e_off + e_sz) *)
EntryInBounds(e) == e.off + e.len <= RamdiskLen

(* The three bails on the vendor ramdisk table.                            *)
TableValid ==
  /\ img.entrySize = TableEntrySize
  /\ got[VendorTable].len >= Len(img.table) * TableEntrySize
  /\ \A i \in DOMAIN img.table : EntryInBounds(img.table[i])

ParseRamdisk ==
  /\ rpc = "walk" /\ cur = 10
  /\ rpc' = IF HasTable /\ ~TableValid THEN "error" ELSE "dtb"
  /\ UNCHANGED <<img, layout, page, off, cur, got>>

(* The kernel, from which an MTK header is stripped before the search.     *)
KernelBytes == StripMtk(got[Kernel].len, img.mtkKernel)

(* find_dtb_in_data at one magic of a kernel of n bytes.  A header that is *)
(* cut ends the search; a size or an offset that the kernel does not have  *)
(* sends it on to the next magic; then the tag is sliced, which panics if  *)
(* the kernel ends in it.                                                  *)
HeaderCut(f, n) == f.at + 40 > n
Plausible(f, n) == f.total > 72 /\ f.at + f.total <= n /\ f.at + f.struct <= n
TagCut(f, n) ==
  ~HeaderCut(f, n) /\ Plausible(f, n) /\ f.at + f.struct + 4 > n
TreeBegins(f, n) ==
  ~HeaderCut(f, n) /\ Plausible(f, n) /\ ~TagCut(f, n) /\ f.begin

(* The first of the magics s that ends the search, if any does.            *)
Decides(f, n) == HeaderCut(f, n) \/ TagCut(f, n) \/ TreeBegins(f, n)
Deciding(s, n) == {k \in DOMAIN s : /\ Decides(s[k], n)
                                    /\ \A j \in DOMAIN s : j < k => ~Decides(s[j], n)}

SearchPanics(s, n) == \E k \in Deciding(s, n) : TagCut(s[k], n)

SplitKernel ==
  /\ rpc = "dtb"
  /\ rpc' = IF SearchPanics(img.fdts, KernelBytes) THEN "panic" ELSE "tail"
  /\ UNCHANGED <<img, layout, page, off, cur, got>>

TailInBounds == off <= img.len

(* BootImage::parse: &payload_data[tail_off..], unchecked.                 *)
SliceTail ==
  /\ rpc = "tail"
  /\ rpc' = IF TailInBounds THEN "parsed" ELSE "panic"
  /\ UNCHANGED <<img, layout, page, off, cur, got>>

ReaderNext ==
  \/ ParseHeader
  \/ SkipBlock
  \/ TakeBlock
  \/ BlockOutOfBounds
  \/ ParseRamdisk
  \/ SplitKernel
  \/ SliceTail

ReaderInit == \E image \in Image : ReaderStart(image)
ReaderSpec == ReaderInit /\ [][ReaderNext]_readerVars

-----------------------------------------------------------------------------
(* What the reader hands to its caller.                                    *)

(* Where the kernel is split: a device tree at its very beginning is left  *)
(* in it.  LostKernelDtb is a mutant of KernelDtbLen: it drops the tree.   *)
KernelTrees == {k \in Deciding(img.fdts, KernelBytes) :
                  TreeBegins(img.fdts[k], KernelBytes) /\ img.fdts[k].at > 0}
HasKernelDtb == KernelTrees # {}
KernelLen == IF HasKernelDtb
             THEN img.fdts[CHOOSE k \in KernelTrees : TRUE].at ELSE KernelBytes
LostKernelDtb == 0
KernelDtbLen == KernelBytes - KernelLen

-----------------------------------------------------------------------------
(* Properties.                                                             *)

(* The blocks the reader hands out never overlap, come in the order of the *)
(* header and lie between the header and the end of the data               *)
(* (get_block_impl), whatever the header claims; and the tail of a parsed  *)
(* image, where a signature or an AVB footer is looked for, begins behind  *)
(* all of them (tail_offset of BootImage).                                 *)
BlocksInOrder ==
  /\ \A b \in Blocks : got[b].len > 0 =>
       /\ got[b].off >= HdrSpace(layout, page)
       /\ got[b].off + got[b].len <= img.len
  /\ \A b, c \in Blocks : b < c /\ got[b].len > 0 /\ got[c].len > 0 =>
       got[b].off + got[b].len <= got[c].off
  /\ rpc = "parsed" =>
       /\ off <= img.len
       /\ \A b \in Blocks : got[b].len > 0 => got[b].off + got[b].len <= off

(* Every vendor ramdisk of a parsed image, which its table places relative*)
(* to the ramdisk that is left once an MTK header is stripped, lies in the *)
(* file behind that header and apart from every other block, whatever the  *)
(* table says; and the table is no longer than its own block               *)
(* (the bails of BootImageBlocks::parse).                                  *)
EntriesInsideRamdisk ==
  LET start == got[Ramdisk].off + got[Ramdisk].len - RamdiskLen
  IN rpc = "parsed" /\ HasTable =>
       /\ Len(img.table) * TableEntrySize <= got[VendorTable].len
       /\ \A i \in DOMAIN img.table :
            LET first == start + img.table[i].off
                last  == first + img.table[i].len
            IN /\ last <= got[Ramdisk].off + got[Ramdisk].len
               /\ \A b \in Blocks \ {Ramdisk} : got[b].len > 0 =>
                    last <= got[b].off \/ got[b].off + got[b].len <= first

(* The reader panics in three cases only: a page size of zero; an image    *)
(* whose last block is there but not padded to the page; and a kernel that *)
(* holds the whole header of what may be a device tree, of a size that fits*)
(* the kernel, but ends in the first tag of the tree's structure           *)
(* (align_to, find_dtb_in_data and the tail slice of parser.rs).           *)
PanicCases ==
  rpc = "panic" =>
    \/ PageSizeVal(img.magic, img.version, img.pageField) = 0
    \/ /\ \A b \in Blocks :
            got[b].len > 0 => got[b].off + got[b].len <= img.len
       /\ img.len < off /\ off < img.len + page
    \/ \E k \in DOMAIN img.fdts :
         LET f == img.fdts[k]
         IN /\ f.at + 40 <= KernelBytes /\ f.total > 72
            /\ f.at + f.total <= KernelBytes
            /\ f.at + f.struct \in (KernelBytes - 3) .. KernelBytes
=============================================================================
